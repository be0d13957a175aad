----------------------------- MODULE SocSliders -----------------------------
(* The two number entities on top of the write cycle: each slider shows the    *)
(* store, except that for 5 s after it was set an optimistic lock makes it     *)
(* ignore incoming data, until a rollback releases the lock (number.py).       *)
(* Nobody uses the EcoFlow app here: AppWrites is checked in SocCycle alone.   *)
EXTENDS SocCycle

VARIABLES
    shown,    \* the state each slider last wrote to Home Assistant
    locked,   \* time.monotonic() < _optimistic_lock_until
    seen      \* _seen_rollback_generation

sliderVars == <<shown, locked, seen>>
allVars == <<vars, sliderVars>>

SlidersInit ==
    /\ Init
    /\ shown = data
    /\ locked = [h \in Half |-> FALSE]
    /\ seen = [h \in Half |-> rollbacks]

\* The slider keeps its optimistic value: locked, and nothing was rolled back.
IgnoresRollbacks(h) == locked[h]                \* (faulty)
IgnoresUnlocked(h) == seen[h] = rollbacks'      \* (faulty: only a rollback refreshes)
Ignores(h) == seen[h] = rollbacks' /\ locked[h]

\* _handle_coordinator_update of both entities, on the store as it is now.
Refresh ==
    /\ seen' = [h \in Half |-> rollbacks']
    /\ locked' = [h \in Half |-> Ignores(h)]
    /\ shown' = [h \in Half |-> IF Ignores(h) THEN shown[h] ELSE data'[h]]

\* async_set_native_value: the request is accepted, then _apply_optimistic_number.
SetSlider(h, v) ==
    /\ Request(h, v)
    /\ shown' = [shown EXCEPT ![h] = v]
    /\ locked' = [locked EXCEPT ![h] = TRUE]
    /\ UNCHANGED seen

LockExpires(h) ==
    /\ locked[h]
    /\ locked' = [locked EXCEPT ![h] = FALSE]
    /\ UNCHANGED <<vars, shown, seen>>

\* A report of the two keys, or of anything else: the listeners are called.
Update ==
    /\ phase # "stopped"
    /\ UNCHANGED vars \/ \E h \in Half : Report(h)
    /\ Refresh

\* Any other step of the coordinator calls the listeners when it rolls back.
Calls(step) ==
    /\ step
    /\ IF rollbacks' # rollbacks THEN Refresh ELSE UNCHANGED sliderVars

SlidersNext ==
    \/ \E h \in Half : \E v \in Levels(h) : SetSlider(h, v)
    \/ \E h \in Half : LockExpires(h)
    \/ Update
    \/ Calls(DebounceFired) \/ Calls(DirectWrite)
    \/ \E w \in Writers : Calls(JobStep(w))
    \/ \E r \in Requests : Calls(CancelFlush(r)) \/ Calls(OrphanEnds(r))
    \/ Calls(Shutdown) \/ Calls(Disconnect)
    \/ \E p \in wire : Calls(DeviceApplies(p))

SlidersSpec == SlidersInit /\ [][SlidersNext]_allVars

\* The fairness of the write cycle, and: the lock is a time stamp, so it
\* expires; frames keep coming while the coordinator runs (a device that stops
\* sending is the subject of availability.py).
FairSlidersSpec ==
    /\ SlidersSpec
    /\ WF_allVars(Calls(DebounceFired))
    /\ \A w \in Writers : WF_allVars(Calls(JobStep(w)))
    /\ \A r \in Requests : WF_allVars(Calls(OrphanEnds(r)))
    /\ WF_allVars(Calls(Disconnect))
    /\ \A h \in Half : WF_allVars(LockExpires(h))
    /\ WF_allVars(Update)

-----------------------------------------------------------------------------
\* A rolled back write is visible at once: the step that puts the baseline back
\* also moves both sliders to it, although their 5 s lock is still running
\* (_resolve_powerocean_soc_cycle: "would ignore the update below").
RollbackReaches ==
    [][phase' = "running" /\ cycleOpen /\ ~cycleOpen' /\ data' # data
        => shown' = data']_allVars


\* A slider that is left alone ends up on the store's value.
SlidersCatchUp ==
    (running /\ ~cycleOpen) ~> (shown = data \/ cycleOpen \/ ~running)
=============================================================================
