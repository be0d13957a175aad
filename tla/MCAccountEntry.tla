---------------------------- MODULE MCAccountEntry ----------------------------
EXTENDS AccountEntry, TLC

\* Only one part moves in a behaviour, so the parts share their model values.
CONSTANTS x1, x2, v1, v2, ch1, ch2
\* One charger with two orders to come, and one that only shares the account's limits.
TwoAndNone == (ch1 :> {x1, x2} @@ ch2 :> {})
Symmetry == Permutations({x1, x2}) \cup Permutations({v1, v2})

\* A PowerOcean, a PowerStream and a device of the app's channel; the account
\* lists all of them, or the request for the list failed.
CONSTANTS ocean, micro, glow, secret
AllOrNothing == {{}, Serials}
=============================================================================
