----------------------------- MODULE LinkedUnits -----------------------------
(* Linked STREAM units report one another.  Each unit's push lists every       *)
(* unit's battery power and PV, without a sign and on whichever connections    *)
(* deliver it.  The parser signs what one message proves (_sign_unit_entries   *)
(* of parsers/stream_ac5000_proto.py); a coordinator takes its own entry and   *)
(* hands the others to their coordinators, which prefer their own connection   *)
(* for a while (_resolve_unit_power of coordinator/state_apply.py).  A hand-   *)
(* over runs inside the frame that brought it.                                 *)
EXTENDS Integers, Sequences, FiniteSets

CONSTANTS
    Units,
    Streams,      \* of them, the linked Streams: they read their own frames only
    Powers,       \* battery powers, positive is charge
    HoldFor,      \* STREAM_OWN_UNIT_ENTRY_HOLD_S
    Lag,          \* the longest a push is under way
    WholeLists,   \* a push lists every unit
    MaxPushes

VARIABLES
    pushes,     \* every push so far, with what each unit did then; history, but for
                \* those still under way
    arrived,    \* per connection: how many of them have arrived there or were lost
    loaded,     \* the coordinators in the entry's table
    unitW,      \* _device_data of each: unit_batt_w, or Unread
    pv,         \* _device_data of each: the PV strings, as the push they are from
    ownAge,     \* per block and unit: now - _own_unit_entry_ts
    unsigned,   \* _unit_batt_unsigned
    sample,     \* history: per unit, the push unitW is from
    ownSample   \* history: per block and unit, the last push it took from its own connection

unitVars == <<pushes, arrived, loaded, unitW, pv, ownAge, unsigned, sample, ownSample>>

Unread == -100
Blocks == {"power", "pv"}
AC5000s == Units \ Streams

UnitsInit ==
    /\ pushes = <<>> /\ arrived = [u \in Units |-> 0] /\ loaded = AC5000s
    /\ unitW = [u \in Units |-> Unread] /\ pv = [u \in Units |-> 0]
    /\ ownAge = [b \in Blocks |-> [u \in Units |-> HoldFor]]
    /\ unsigned = [u \in Units |-> FALSE]
    /\ sample = [u \in Units |-> 0] /\ ownSample = [b \in Blocks |-> [u \in Units |-> 0]]

-----------------------------------------------------------------------------
(* The units.                                                                  *)

SystemPower(p) ==
    LET Sum[s \in SUBSET Units] ==
          IF s = {} THEN 0 ELSE LET u == CHOOSE x \in s : TRUE IN p[u] + Sum[s \ {u}]
    IN  Sum[Units]

\* Powers change between pushes at will.  A polled reply carries the directions; the system power comes with the flows.
Push ==
    /\ Len(pushes) < MaxPushes
    /\ \E power \in [Units -> Powers], listed \in SUBSET Units, polled, flows \in BOOLEAN :
          /\ WholeLists => listed = Units
          /\ pushes' = Append(pushes, [power |-> power, listed |-> listed, age |-> 0,
                                       polled |-> polled, flows |-> flows])
    /\ UNCHANGED <<arrived, loaded, unitW, pv, ownAge, unsigned, sample, ownSample>>

TimePasses ==
    /\ pushes' = [i \in DOMAIN pushes |-> [pushes[i] EXCEPT !.age = IF @ > Lag THEN @ ELSE @ + 1]]
    /\ ownAge' = [b \in Blocks |-> [u \in Units |->
                     IF ownAge[b][u] < HoldFor THEN ownAge[b][u] + 1 ELSE HoldFor]]
    /\ UNCHANGED <<arrived, loaded, unitW, pv, unsigned, sample, ownSample>>

-----------------------------------------------------------------------------
(* _finalize and _sign_unit_entries.                                           *)

Magnitude(push, u) == IF push.power[u] < 0 THEN -push.power[u] ELSE push.power[u]

SystemAlways(push) == TRUE              \* (faulty: the system's direction is everyone's)
\* Only one of the units listed moves power, so the system is that unit.
Alone(push) == Cardinality({u \in push.listed : push.power[u] # 0}) = 1

\* The direction the message proves of a unit: 0 for none.
Direction(push, u) ==
    IF push.polled THEN push.power[u]
    ELSE IF Alone(push) /\ push.flows THEN SystemPower(push.power) ELSE 0

Proven(push, u) == Magnitude(push, u) = 0 \/ Direction(push, u) # 0
Signed(push, u) == IF Direction(push, u) > 0 THEN Magnitude(push, u) ELSE -Magnitude(push, u)

-----------------------------------------------------------------------------
(* _resolve_unit_power.                                                        *)

NotHeld(block, u) == TRUE               \* (faulty: the last writer wins)
\* Its own connection has not brought the entry for a while.
HandedCounts(block, u) == ownAge[block][u] >= HoldFor

\* The units whose entry is written when the push arrives on unit u's connection:
\* u itself, and the coordinators that take what they are handed.
Takers(block, u, listed) ==
    {v \in listed : v = u \/ (v \in loaded /\ HandedCounts(block, v))}

PushArrives(u) ==
    /\ u \in loaded /\ arrived[u] < Len(pushes)
    /\ LET n == arrived[u] + 1
           push == pushes[n]
           proven == {v \in push.listed : Proven(push, v)}
           powers == Takers("power", u, proven)
           strings == Takers("pv", u, push.listed)
           owns == [power |-> u \in powers, pv |-> u \in strings]
       IN  /\ push.age <= Lag
           /\ arrived' = [arrived EXCEPT ![u] = n]
           /\ unitW' = [v \in Units |-> IF v \in powers THEN Signed(push, v) ELSE unitW[v]]
           /\ sample' = [v \in Units |-> IF v \in powers THEN n ELSE sample[v]]
           /\ pv' = [v \in Units |-> IF v \in strings THEN n ELSE pv[v]]
           /\ unsigned' = [unsigned EXCEPT ![u] = u \in push.listed \ proven]
           /\ ownAge' = [b \in Blocks |-> [ownAge[b] EXCEPT ![u] = IF owns[b] THEN 0 ELSE @]]
           /\ ownSample' = [b \in Blocks |-> [ownSample[b] EXCEPT ![u] = IF owns[b] THEN n ELSE @]]
    /\ UNCHANGED <<pushes, loaded>>

PushLost(u) ==
    /\ arrived[u] < Len(pushes)
    /\ arrived' = [arrived EXCEPT ![u] = @ + 1]
    /\ UNCHANGED <<pushes, loaded, unitW, pv, ownAge, unsigned, sample, ownSample>>

\* _send_quotas_poll: a unit whose power no push signs asks for its full state.
FullStateAsked(u) ==
    /\ u \in loaded /\ unsigned[u]
    /\ Len(pushes) < MaxPushes
    /\ \E power \in [Units -> Powers] :
          pushes' = Append(pushes, [power |-> power, listed |-> Units, age |-> 0,
                                    polled |-> TRUE, flows |-> TRUE])
    /\ UNCHANGED <<arrived, loaded, unitW, pv, ownAge, unsigned, sample, ownSample>>

\* The entry is unloaded: its table is gone, and no hand-over finds anybody.
TableGone ==
    /\ loaded # {} /\ loaded' = {}
    /\ UNCHANGED <<pushes, arrived, unitW, pv, ownAge, unsigned, sample, ownSample>>

UnitsNext ==
    \/ Push \/ TimePasses \/ TableGone
    \/ \E u \in Units : PushArrives(u) \/ PushLost(u) \/ FullStateAsked(u)

UnitsSpec == UnitsInit /\ [][UnitsNext]_unitVars

-----------------------------------------------------------------------------
\* A unit's power is never shown with the wrong sign: it is what the unit did when
\* the push it is from was made, whichever connection brought it (#568).
SignRight ==
    \A u \in Units : sample[u] > 0 => unitW[u] = pushes[sample[u]].power[u]

\* A value handed over never replaces a newer one from the unit's own connection
\* ("the two copies of one block differ (rounded, and a push behind)").
HandedNeverOlder ==
    \A u \in Units : sample[u] >= ownSample["power"][u] /\ pv[u] >= ownSample["pv"][u]
=============================================================================
