---------------------------- MODULE MCDeviceReads ----------------------------
EXTENDS DeviceReads

\* Each part compares its values for equality only, and they share them.
CONSTANTS x1, x2, y1, y2, y3, s1, s2
Symmetry == Permutations({x1, x2}) \cup Permutations({y1, y2, y3}) \cup Permutations({s1, s2})
=============================================================================
