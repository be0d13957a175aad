--------------------------- MODULE MCDeviceValues ---------------------------
(* Small instances of DeviceValues.  40 and 100 are far apart, 40 and 43 are   *)
(* within tolerance; 500 is implausible as a total, 90 as a power.  Of the     *)
(* battery powers 2 outweighs -1, so a sum can have the wrong sign for a unit. *)
EXTENDS DeviceValues, TLC

CONSTANTS u1, u2
DeviceTotals == {40, 43, 100, 500}
DevicePowers == {2, 90}
UnitPowers == {-1, 0, 2}
Symmetry == Permutations(Units)
=============================================================================
