----------------------------- MODULE Ocean2Write -----------------------------
(* The Ocean 2 writes with read-back: backup reserve and storm guard           *)
(* (coordinator/set_commands.py, coordinator/mqtt_ingest.py,                    *)
(* ecoflow/ocean2_commands.py).  A write replaces the record of its key before  *)
(* it is published, seeds its value when the broker has acknowledged, and arms  *)
(* three timers: +8 s asks for a snapshot, +30 s asks again, +35 s puts the     *)
(* value from before the write back if no snapshot carried the key.             *)
(* Writes are serialised by the config lock; the read-backs are not.  The       *)
(* device's refusals are read on Paho's thread and handed to the event loop.    *)
(*                                                                              *)
(* The device and the owner's app are not modelled: a frame may carry any       *)
(* value and a refusal may come at any time.  The companion of the reserve      *)
(* (field 92) is abstracted to whether a frame has carried it.                  *)
EXTENDS Naturals, FiniteSets

CONSTANTS
    Writes,    \* the service calls, each made once
    NoWrite,
    Levels,    \* the reserve levels
    Switch,    \* the storm guard's two positions
    Unset,     \* _UNSET: the store has no value
    Overlap    \* the timers that may run out while a newer write of their key is
               \* being published

ASSUME Ocean2Assumption ==
    Overlap \subseteq {"request", "retry", "expire"} /\ NoWrite \notin Writes /\ Unset \notin Levels \cup Switch

Keys == {"reserve", "storm"}
Value(k) == IF k = "reserve" THEN Levels ELSE Switch

VARIABLES
    at,        \* per call: where its coroutine is
    write,     \* per call: its _Ocean2Write
    replaced,  \* per call: the record it replaced (`previous`)
    record,    \* _ocean2_writes
    holder,    \* the call that holds _device_config_lock
    snapshot,  \* _ocean2_snapshot_event
    refusals,  \* writes whose refusal was handed to the event loop
    store,     \* the coordinator's value per key
    shutdown,  \* _shutdown
    seed,      \* history: the write whose seed the store still holds
    told       \* history: per key, the values frames have carried

vars == <<at, write, replaced, record, holder, snapshot, refusals, store,
          shutdown, seed, told>>
recordVars == <<write, replaced, record>>
storeVars == <<store, seed, told>>

Timers == {"request", "retry", "expire"}
Fresh(k, pre, v) ==
    [key |-> k, pre |-> pre, written |-> v, timers |-> {}, seen |-> FALSE,
     reported |-> FALSE, rejected |-> FALSE, recent |-> TRUE]

Init ==
    /\ at = [w \in Writes |-> "new"]
    /\ write = [w \in Writes |-> Fresh("reserve", Unset, Unset)]
    /\ replaced = [w \in Writes |-> NoWrite]
    /\ record = [k \in Keys |-> NoWrite]
    /\ holder = NoWrite /\ snapshot = FALSE /\ refusals = {}
    /\ store = [k \in Keys |-> Unset]
    /\ shutdown = FALSE
    /\ seed = [k \in Keys |-> NoWrite]
    /\ told = [k \in Keys |-> {}]

AlwaysCurrent(w) == TRUE                   \* (faulty)
\* _ocean2_is_current
IsCurrent(w) == record[write[w].key] = w

StoredValue(k) == store[k]                 \* (faulty: another write's seed)
\* _ocean2_last_reported: never a seed.
LastReported(k) ==
    IF record[k] # NoWrite /\ ~write[record[k]].reported
      THEN write[record[k]].pre ELSE store[k]

\* _ocean2_restore_write
Restore(w) ==
    /\ store' = [store EXCEPT ![write[w].key] = write[w].pre]
    /\ seed' = [seed EXCEPT ![write[w].key] = NoWrite]
    /\ UNCHANGED told

-----------------------------------------------------------------------------
(* The service calls.                                                          *)

\* The reserve asks for a snapshot first and waits for field 92 under the lock.
AskSnapshot(w) ==
    /\ at[w] = "new" /\ holder = NoWrite
    /\ holder' = w /\ at' = [at EXCEPT ![w] = "asking"]
    /\ snapshot' = FALSE
    /\ UNCHANGED <<recordVars, refusals, storeVars, shutdown>>

\* No answer within 5 s, no connection, or a value the device would not take.
GiveUp(w) ==
    /\ at[w] = "asking"
    /\ holder' = NoWrite /\ at' = [at EXCEPT ![w] = "ended"]
    /\ UNCHANGED <<recordVars, snapshot, refusals, storeVars, shutdown>>

\* The first half of _ocean2_publish: the record is there before the frame is.
Publish(w, k, v) ==
    /\ write' = [write EXCEPT ![w] = Fresh(k, LastReported(k), v)]
    /\ replaced' = [replaced EXCEPT ![w] = record[k]]
    /\ record' = [record EXCEPT ![k] = w]
    /\ holder' = w /\ at' = [at EXCEPT ![w] = "publishing"]
    /\ UNCHANGED <<snapshot, refusals, storeVars, shutdown>>

SendReserve(w) ==
    /\ at[w] = "asking" /\ snapshot
    /\ \E v \in Levels : Publish(w, "reserve", v)

\* The storm guard needs a reported position to go back to, and no snapshot.
SendStormGuard(w) ==
    /\ at[w] = "new" /\ holder = NoWrite
    /\ LastReported("storm") # Unset
    /\ \E v \in Switch : Publish(w, "storm", v)

\* What the record map goes back to when the publish failed.
Reinstated(w) == replaced[w]

PublishFails(w) ==
    /\ at[w] = "publishing"
    /\ record' = [record EXCEPT ![write[w].key] = Reinstated(w)]
    /\ replaced' = [replaced EXCEPT ![w] = NoWrite]
    /\ holder' = NoWrite /\ at' = [at EXCEPT ![w] = "ended"]
    /\ UNCHANGED <<write, snapshot, refusals, storeVars, shutdown>>

\* _arm_ocean2_readback
Armed(w) == IF shutdown THEN {} ELSE Timers

RefusalForgotten(w) == FALSE               \* (faulty)
RefusedMeanwhile(w) == write[w].rejected

\* The broker acknowledged: the earlier read-back ends, and either the refusal
\* was faster or the value is seeded and the new read-back armed.
PublishDone(w) ==
    /\ at[w] = "publishing"
    /\ LET k == write[w].key
           p == replaced[w]
           calm == IF p = NoWrite THEN write ELSE [write EXCEPT ![p].timers = {}]
       IN  IF RefusedMeanwhile(w)
             THEN /\ record' = [record EXCEPT ![k] = NoWrite]
                  /\ write' = calm
                  /\ UNCHANGED <<store, seed>>
             ELSE /\ write' = [calm EXCEPT ![w] = [@ EXCEPT !.reported = FALSE, !.timers = Armed(w)]]
                  /\ store' = [store EXCEPT ![k] = write[w].written]
                  /\ seed' = [seed EXCEPT ![k] = w]
                  /\ UNCHANGED record
    /\ replaced' = [replaced EXCEPT ![w] = NoWrite]
    /\ holder' = NoWrite /\ at' = [at EXCEPT ![w] = "ended"]
    /\ UNCHANGED <<snapshot, refusals, told, shutdown>>

-----------------------------------------------------------------------------
(* The timers of a write; each is armed for its own write.                     *)

MayFire(timer, w) ==
    timer \in Overlap \/ \A x \in Writes : ~(at[x] = "publishing" /\ write[x].key = write[w].key)

RequestFires(w) ==
    /\ "request" \in write[w].timers /\ MayFire("request", w)
    /\ write' = [write EXCEPT ![w].timers = @ \ {"request"},
                              ![w].seen = @ /\ ~IsCurrent(w)]
    /\ UNCHANGED <<at, replaced, record, holder, snapshot, refusals, storeVars, shutdown>>

\* At +30 s an acknowledgement can no longer be attributed to the write.
RetryFires(w) ==
    /\ {"request", "retry"} \cap write[w].timers = {"retry"}
    /\ MayFire("retry", w)
    /\ write' = [write EXCEPT ![w].timers = @ \ {"retry"}, ![w].recent = FALSE]
    /\ UNCHANGED <<at, replaced, record, holder, snapshot, refusals, storeVars, shutdown>>

ExpireFires(w) ==
    /\ write[w].timers = {"expire"} /\ MayFire("expire", w)
    /\ write' = [write EXCEPT ![w].timers = {}]
    /\ IF IsCurrent(w)
         THEN /\ record' = [record EXCEPT ![write[w].key] = NoWrite]
              /\ IF write[w].seen THEN UNCHANGED storeVars ELSE Restore(w)
         ELSE UNCHANGED <<record, storeVars>>
    /\ UNCHANGED <<at, replaced, holder, snapshot, refusals, shutdown>>

-----------------------------------------------------------------------------
(* What the device sends.                                                      *)

\* _check_ocean2_ack on Paho's thread: a refusal counts as the current write's.
\* It may belong to an earlier one or to the owner's app.
RefusalArrives(k) ==
    /\ record[k] # NoWrite /\ write[record[k]].recent
    /\ refusals' = refusals \cup {record[k]}
    /\ UNCHANGED <<at, recordVars, holder, snapshot, storeVars, shutdown>>

\* _ocean2_reject_write on the event loop.
RefusalRuns(w) ==
    /\ w \in refusals
    /\ refusals' = refusals \ {w}
    /\ IF IsCurrent(w)
         THEN write' = [write EXCEPT ![w].rejected = TRUE] /\ Restore(w)
         ELSE UNCHANGED <<write, storeVars>>
    /\ UNCHANGED <<at, replaced, record, holder, snapshot, shutdown>>

\* _apply_data of a full snapshot, with _note_ocean2_snapshot.
SnapshotArrives(reading) ==
    /\ store' = reading
    /\ told' = [k \in Keys |-> told[k] \cup {reading[k]}]
    /\ seed' = [k \in Keys |-> NoWrite]
    /\ snapshot' = TRUE
    /\ write' = [w \in Writes |->
                    IF IsCurrent(w)
                      THEN [write[w] EXCEPT !.seen = TRUE, !.reported = TRUE]
                      ELSE write[w]]
    /\ UNCHANGED <<at, replaced, record, holder, refusals, shutdown>>

\* A property push carries field 92 and neither of the two keys.
PropertyPush ==
    /\ ~snapshot /\ snapshot' = TRUE
    /\ UNCHANGED <<at, recordVars, holder, refusals, storeVars, shutdown>>

\* async_shutdown with _cancel_ocean2_readback.
Shutdown ==
    /\ ~shutdown /\ shutdown' = TRUE
    /\ write' = [w \in Writes |->
                    IF IsCurrent(w) THEN [write[w] EXCEPT !.timers = {}] ELSE write[w]]
    /\ record' = [k \in Keys |-> NoWrite]
    /\ UNCHANGED <<at, replaced, holder, snapshot, refusals, storeVars>>

Snapshots == {[reserve |-> r, storm |-> s] : r \in Levels, s \in Switch}

Next ==
    \/ \E w \in Writes :
          \/ AskSnapshot(w) \/ GiveUp(w) \/ SendReserve(w) \/ SendStormGuard(w)
          \/ PublishFails(w) \/ PublishDone(w)
          \/ RequestFires(w) \/ RetryFires(w) \/ ExpireFires(w)
          \/ RefusalRuns(w)
    \/ \E k \in Keys : RefusalArrives(k)
    \/ \E reading \in Snapshots : SnapshotArrives(reading)
    \/ PropertyPush \/ Shutdown

Spec == Init /\ [][Next]_vars

\* Timers fire, the wait for a snapshot and the publish end, and the event loop
\* runs what was handed to it.  Nothing makes the device answer.
Fairness ==
    \A w \in Writes :
        /\ WF_vars(GiveUp(w) \/ SendReserve(w))
        /\ WF_vars(PublishFails(w) \/ PublishDone(w))
        /\ WF_vars(RequestFires(w) \/ RetryFires(w) \/ ExpireFires(w))
        /\ WF_vars(RefusalRuns(w))

FairSpec == Spec /\ Fairness

-----------------------------------------------------------------------------
\* Each key's value is what OptimisticValue promises: what a refusal, an expiry or
\* a failed publish puts back is a value the unit reported, never another write's
\* seed (_ocean2_last_reported), and an unconfirmed seed keeps a record that can
\* still take it back.
Reserve == INSTANCE OptimisticValue WITH
    Values <- Levels, shown <- store["reserve"], choice <- seed["reserve"] # NoWrite,
    told <- told["reserve"], followed <- record["reserve"] # NoWrite, stopped <- shutdown
StormGuard == INSTANCE OptimisticValue WITH
    Values <- Switch, shown <- store["storm"], choice <- seed["storm"] # NoWrite,
    told <- told["storm"], followed <- record["storm"] # NoWrite, stopped <- shutdown
Ocean2Honest == Reserve!Spec /\ StormGuard!Spec

\* A choice the store shows goes only for a reason of its own: a report, a newer
\* choice, its own expiry, or a refusal counted for the write that is current.  An
\* older write's timer or refusal never takes a newer choice away.
GoesForAReason ==
    \A k \in Keys : seed[k] # NoWrite /\ seed'[k] # seed[k] =>
        \/ seed'[k] # NoWrite
        \/ \E reading \in Snapshots : SnapshotArrives(reading)
        \/ record[k] = seed[k] /\ ExpireFires(record[k])
        \/ record[k] \in refusals /\ RefusalRuns(record[k])
OwnReason == [][GoesForAReason]_vars

\* A refused choice is never shown, whether the refusal is known before or after
\* the publish returns.
RefusedNotShown == \A k \in Keys : seed[k] # NoWrite => ~write[seed[k]].rejected

\* "nothing may be left armed on a stopped coordinator" (_arm_ocean2_readback).
NothingLeftArmed ==
    shutdown /\ holder = NoWrite => \A w \in Writes : write[w].timers = {}

\* "the pre-write value comes back at 35 s if no snapshot carried the written key"
\* (set_commands.py, read-back constants): no seed stands for good.
SeedResolves ==
    \A k \in Keys : seed[k] # NoWrite ~> seed[k] = NoWrite \/ shutdown
=============================================================================
