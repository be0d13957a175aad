---------------------------- MODULE MCDeviceWrites ----------------------------
EXTENDS DeviceWrites, TLC

CONSTANTS w1, w2, l1, l2, off, on
Symmetry == Permutations({w1, w2}) \cup Permutations({l1, l2}) \cup Permutations({off, on})
=============================================================================
