------------------------------ MODULE SocCycle ------------------------------
(* The debounced write of the PowerOcean battery limits: the two sliders       *)
(* "backup reserve" and "solar surplus" travel as ONE pair, several requests   *)
(* are coalesced into one frame, several frames can be in the executor at the  *)
(* same time and their acknowledgements arrive in any order                    *)
(* (coordinator/set_commands.py, coordinator/setup.py, number.py).             *)
(*                                                                             *)
(* Request number r is the code's request revision.  Writer 0 is the direct    *)
(* write of the surplus auto-sync, which uses the same publish path but        *)
(* belongs to no cycle.                                                        *)
EXTENDS Integers, FiniteSets

CONSTANTS
    Backups,       \* levels the backup-reserve slider can be set to
    Surpluses,     \* levels the solar-surplus slider can be set to
    MaxRequests,   \* bound on the accepted slider requests of a behaviour
    MaxOthers,     \* bound on its auto-sync writes and settings in the EcoFlow app
    Absent         \* "the device has not reported this key"

ASSUME LevelsAssumption ==
    /\ Backups \subseteq Int
    /\ Surpluses \subseteq Int
    /\ Absent \notin Int

ASSUME BoundsAssumption ==
    /\ MaxRequests \in Nat
    /\ MaxOthers \in Nat

Half == {"backup", "solar"}
Requests == 1 .. MaxRequests
Direct == 0
Writers == Requests \cup {Direct}
Pair == [Half -> Int]

VARIABLES
    \* the coordinator (event loop)
    phase,         \* "running", "draining" (shutdown set), "stopped"
    data,          \* the two keys of _device_data, what the sliders read
    reqRev,        \* _powerocean_soc_request_revision
    generation,    \* _powerocean_soc_generation
    confirmedRev,  \* _powerocean_soc_confirmed_revision
    cycleOpen,     \* _powerocean_soc_cycle_open
    before,        \* _powerocean_soc_before, the rollback baseline
    pendingRev,    \* _powerocean_soc_pending_revision; 0 is "nothing pending"
    timer,         \* _powerocean_soc_debounce_unsub is not None
    active,        \* _powerocean_soc_active_revisions
    latestOutcome, \* _powerocean_soc_latest_outcome: "none", "ok", "failed"
    rollbacks,     \* _write_rollback_generation
    \* the flush tasks and their executor jobs
    stage,         \* where the write of each writer is
    claimGen,      \* the generation each flush claimed
    asked,         \* the pair each writer sends
    \* the broker, the device and the people who use it
    wire,          \* frames published that the device may still apply
    device,        \* the pair the device holds
    taken,         \* history: what the device held or the broker acknowledged
    others         \* auto-sync writes and settings in the app so far

coordVars == <<phase, data, reqRev, generation, confirmedRev, cycleOpen, before,
               pendingRev, timer, active, latestOutcome, rollbacks>>
writeVars == <<stage, claimGen, asked>>
worldVars == <<wire, device, taken, others>>
vars == <<phase, data, reqRev, generation, confirmedRev, cycleOpen, before,
          pendingRev, timer, active, latestOutcome, rollbacks,
          stage, claimGen, asked, wire, device, taken, others>>

running == phase = "running"

\* The flush or its executor job still exists; shutdown waits for these.
InFlight == {"starting", "publishing", "sent", "orphaned", "orphanedSent"}
Stages == InFlight \cup {"idle"}

Levels(h) == IF h = "backup" THEN Backups ELSE Surpluses
Other(h) == IF h = "backup" THEN "solar" ELSE "backup"
Lower(a, b) == IF a < b THEN a ELSE b
Higher(a, b) == IF a < b THEN b ELSE a

MkPair(b, s) == [h \in Half |-> IF h = "backup" THEN b ELSE s]
DevicePairs == {MkPair(b, s) : b \in Backups, s \in Surpluses}
Legal(p) == p["backup"] <= p["solar"]
Took(p) == [h \in Half |-> taken[h] \cup {p[h]}]


\* The frame a slider sends: the half that moved and, clamped so that
\* backup <= surplus, the other half as the store shows it.
Frame(h, v) ==
    IF h = "backup" THEN MkPair(v, Higher(data["solar"], v))
                    ELSE MkPair(Lower(data["backup"], v), v)

Init ==
    /\ phase = "running"
    /\ device \in {p \in DevicePairs : Legal(p)}
    /\ \E known \in SUBSET Half :
          data = [h \in Half |-> IF h \in known THEN device[h] ELSE Absent]
    /\ reqRev = 0 /\ generation = 0 /\ confirmedRev = 0
    /\ cycleOpen = FALSE /\ before = [h \in Half |-> Absent]
    /\ pendingRev = 0 /\ timer = FALSE /\ active = {} /\ latestOutcome = "none"
    /\ rollbacks = 0
    /\ stage = [w \in Writers |-> "idle"]
    /\ claimGen = [w \in Writers |-> 0]
    /\ asked = [w \in Writers |-> device]
    /\ wire = {} /\ taken = [h \in Half |-> {device[h]}]
    /\ others = 0

-----------------------------------------------------------------------------
(* The coordinator.                                                            *)

\* A slider is set: async_set_powerocean_soc_debounced accepts the pair and the
\* entity applies its own half optimistically in the same step of the loop.
Request(h, v) ==
    /\ running
    /\ reqRev < MaxRequests
    /\ data[Other(h)] # Absent
    /\ reqRev' = reqRev + 1
    /\ asked' = [asked EXCEPT ![reqRev + 1] = Frame(h, v)]
    /\ latestOutcome' = "none"
    /\ IF cycleOpen
         THEN UNCHANGED <<generation, before>>
         ELSE generation' = generation + 1 /\ before' = data
    /\ cycleOpen' = TRUE
    /\ pendingRev' = reqRev + 1
    /\ timer' = TRUE
    /\ data' = [data EXCEPT ![h] = v]
    /\ UNCHANGED <<phase, confirmedRev, active, rollbacks, stage, claimGen,
                   worldVars>>

\* The debounce window ends: the pending pair is claimed and its flush starts.
DebounceFired ==
    /\ running
    /\ timer
    /\ timer' = FALSE
    /\ IF pendingRev = 0
         THEN UNCHANGED <<pendingRev, active, stage, claimGen>>
         ELSE /\ pendingRev' = 0
              /\ active' = active \cup {pendingRev}
              /\ stage' = [stage EXCEPT ![pendingRev] = "starting"]
              /\ claimGen' = [claimGen EXCEPT ![pendingRev] = generation]
    /\ UNCHANGED <<phase, data, reqRev, generation, confirmedRev, cycleOpen,
                   before, latestOutcome, rollbacks, asked, worldVars>>

\* The surplus auto-sync found app and EMS apart and writes the stored pair
\* (_schedule_powerocean_soc_write).  Its 30 s user grace keeps it out of an
\* open cycle, its 30 s throttle keeps it to one write at a time.
DirectWrite ==
    /\ running
    /\ ~cycleOpen
    /\ others < MaxOthers
    /\ stage[Direct] = "idle"
    /\ \A h \in Half : data[h] # Absent
    /\ others' = others + 1
    /\ asked' = [asked EXCEPT ![Direct] =
                    MkPair(Lower(data["backup"], data["solar"]), data["solar"])]
    /\ stage' = [stage EXCEPT ![Direct] = "starting"]
    /\ UNCHANGED <<coordVars, claimGen, wire, device, taken>>

\* async_set_powerocean_soc past its guards: the publish goes to the executor.
Submit(w) ==
    /\ running
    /\ stage[w] = "starting"
    /\ stage' = [stage EXCEPT ![w] = "publishing"]
    /\ UNCHANGED <<coordVars, claimGen, asked, worldVars>>

\* A worker thread hands the frame to the MQTT client.
Publish(w) ==
    /\ stage[w] \in {"publishing", "orphaned"}
    /\ stage' = [stage EXCEPT ![w] =
                    IF @ = "publishing" THEN "sent" ELSE "orphanedSent"]
    /\ wire' = wire \cup {asked[w]}
    /\ UNCHANGED <<coordVars, claimGen, asked, device, taken, others>>

\* The cycle has nothing left to do, and its latest request an outcome.
NothingLeft(outcome, rest) ==
    /\ cycleOpen
    /\ ~timer
    /\ pendingRev = 0
    /\ rest = {}
    /\ outcome # "none"

\* _resolve_powerocean_soc_cycle, called with the outcome and the remaining
\* work already recorded: close the cycle, and on a failed latest request put
\* the baseline back and advance the rollback generation.
Resolve(outcome, rest, base) ==
    IF NothingLeft(outcome, rest)
      THEN /\ cycleOpen' = FALSE
           /\ latestOutcome' = "none"
           /\ IF outcome = "ok"
                THEN UNCHANGED <<data, rollbacks>>
                ELSE data' = base /\ rollbacks' = rollbacks + 1
      ELSE /\ latestOutcome' = outcome
           /\ UNCHANGED <<cycleOpen, data, rollbacks>>

\* The acknowledgement of r is news: nothing newer was acknowledged before.
NewestUnacked(r, delivered) == r > confirmedRev      \* (faulty: delivered or not)
Newest(r, delivered) == delivered /\ r > confirmedRev

\* The rollback baseline once r has ended.
Baseline(r, delivered) == IF Newest(r, delivered) THEN asked[r] ELSE before

\* What the cycle knows of its latest request once r has ended.
OutcomeAlwaysOk(r, delivered) ==        \* (faulty: a failed write passes for good)
    IF r = reqRev THEN "ok" ELSE latestOutcome
OutcomeForgotten(r, delivered) ==       \* (faulty: an older write ending later resets it)
    IF r # reqRev THEN "none" ELSE IF delivered THEN "ok" ELSE "failed"
OutcomeSuccessOnly(r, delivered) ==     \* (faulty: a failure is not recorded)
    IF r = reqRev /\ delivered THEN "ok" ELSE latestOutcome
Outcome(r, delivered) ==
    IF r # reqRev THEN latestOutcome ELSE IF delivered THEN "ok" ELSE "failed"

\* The cycle r was claimed for is still there, and the entry still loaded.
OwnsAlways(r) == TRUE                   \* (faulty: no check after the await)
Owns(r) == running /\ claimGen[r] = generation

\* The part of _flush_powerocean_soc after its await: record what was
\* delivered, in revision order, and resolve the cycle when nothing is left.
Settle(r, delivered) ==
    LET base == Baseline(r, delivered)
    IN  /\ active' = IF running THEN active \ {r} ELSE active
        /\ IF Owns(r)
             THEN /\ confirmedRev' = IF Newest(r, delivered) THEN r ELSE confirmedRev
                  /\ before' = base
                  /\ Resolve(Outcome(r, delivered), active', base)
             ELSE UNCHANGED <<confirmedRev, before, cycleOpen, latestOutcome, data,
                              rollbacks>>

\* The executor job ends: acknowledged by the broker, or not (not connected,
\* queue full, no PUBACK within PUBLISH_ACK_TIMEOUT_S).  A write that was
\* refused before it got to the executor ends without having been sent.
Finish(w, delivered) ==
    /\ \/ stage[w] = "sent"
       \/ stage[w] \in {"starting", "publishing"} /\ ~delivered
    /\ stage' = [stage EXCEPT ![w] = "idle"]
    /\ taken' = IF delivered THEN Took(asked[w]) ELSE taken
    /\ IF w = Direct
         THEN UNCHANGED <<active, confirmedRev, before, cycleOpen,
                          latestOutcome, data, rollbacks>>
         ELSE Settle(w, delivered)
    /\ UNCHANGED <<phase, reqRev, generation, pendingRev, timer, claimGen,
                   asked, wire, device, others>>

\* A flush task is cancelled: its revision settles as failed, its executor job
\* cannot be stopped and stays tracked (asyncio.shield).
CancelFlush(r) ==
    /\ stage[r] \in {"publishing", "sent"}
    /\ stage' = [stage EXCEPT ![r] =
                    IF @ = "publishing" THEN "orphaned" ELSE "orphanedSent"]
    /\ Settle(r, FALSE)
    /\ UNCHANGED <<phase, reqRev, generation, pendingRev, timer, claimGen,
                   asked, worldVars>>

\* The job of a cancelled flush ends; nobody reads its result.
OrphanEnds(r) ==
    /\ stage[r] \in {"orphaned", "orphanedSent"}
    /\ stage' = [stage EXCEPT ![r] = "idle"]
    /\ UNCHANGED <<coordVars, claimGen, asked, worldVars>>

\* async_shutdown sets the flag; its cleanup task runs eagerly up to the first
\* await: timers cancelled, every claimed cycle invalidated.
Shutdown ==
    /\ running
    /\ phase' = "draining"
    /\ generation' = generation + 1
    /\ pendingRev' = 0
    /\ timer' = FALSE
    /\ cycleOpen' = FALSE
    /\ before' = [h \in Half |-> Absent]
    /\ active' = {}
    /\ latestOutcome' = "none"
    /\ UNCHANGED <<data, reqRev, confirmedRev, rollbacks, writeVars, worldVars>>

\* Every tracked flush and broker job has ended; the MQTT client goes down.
DisconnectEarly ==                      \* (faulty: waits for the flush tasks only)
    /\ phase = "draining"
    /\ \A w \in Writers : stage[w] \notin {"starting", "publishing", "sent"}
    /\ phase' = "stopped"
    /\ UNCHANGED <<data, reqRev, generation, confirmedRev, cycleOpen, before,
                   pendingRev, timer, active, latestOutcome, rollbacks,
                   writeVars, worldVars>>
Disconnect ==
    /\ phase = "draining"
    /\ \A w \in Writers : stage[w] \notin InFlight
    /\ phase' = "stopped"
    /\ UNCHANGED <<data, reqRev, generation, confirmedRev, cycleOpen, before,
                   pendingRev, timer, active, latestOutcome, rollbacks,
                   writeVars, worldVars>>

\* A device report is applied to the store (_apply_data).  The two keys come
\* in different messages; one that carries both is two steps.
Report(h) ==
    /\ phase # "stopped"
    /\ data' = [data EXCEPT ![h] = device[h]]
    /\ UNCHANGED <<phase, reqRev, generation, confirmedRev, cycleOpen, before,
                   pendingRev, timer, active, latestOutcome, rollbacks,
                   writeVars, worldVars>>

-----------------------------------------------------------------------------
(* The broker and the device.                                                  *)

\* The device applies a frame.  A frame may be overtaken by a later one, may
\* arrive after its publish timed out, or may never arrive.
DeviceApplies(p) ==
    /\ p \in wire
    /\ wire' = wire \ {p}
    /\ device' = p
    /\ taken' = Took(p)
    /\ UNCHANGED <<coordVars, writeVars, others>>

\* The owner changes the pair in the EcoFlow app.
AppWrites(p) ==
    /\ others < MaxOthers
    /\ Legal(p)
    /\ p # device
    /\ device' = p
    /\ taken' = Took(p)
    /\ others' = others + 1
    /\ UNCHANGED <<coordVars, writeVars, wire>>

-----------------------------------------------------------------------------
JobStep(w) == Submit(w) \/ Publish(w) \/ \E ok \in BOOLEAN : Finish(w, ok)

Next ==
    \/ \E h \in Half : \E v \in Levels(h) : Request(h, v)
    \/ DebounceFired
    \/ DirectWrite
    \/ \E w \in Writers : JobStep(w)
    \/ \E r \in Requests : CancelFlush(r)
    \/ \E r \in Requests : OrphanEnds(r)
    \/ Shutdown
    \/ Disconnect
    \/ \E h \in Half : Report(h)
    \/ \E p \in wire : DeviceApplies(p)
    \/ \E p \in DevicePairs : AppWrites(p)

Spec == Init /\ [][Next]_vars

\* The event loop runs a due timer and a ready task, an executor job ends
\* within PUBLISH_ACK_TIMEOUT_S, and the cleanup task goes on after its drain.
\* Nothing is assumed of the user, the app, the device or the broker.
Fairness ==
    /\ WF_vars(DebounceFired)
    /\ \A w \in Writers : WF_vars(JobStep(w))
    /\ \A r \in Requests : WF_vars(OrphanEnds(r))
    /\ WF_vars(Disconnect)

FairSpec == Spec /\ Fairness

-----------------------------------------------------------------------------
(* What the write cycle promises.                                              *)

Slot == Int \cup {Absent}

TypeOK ==
    /\ phase \in {"running", "draining", "stopped"}
    /\ data \in [Half -> Slot] /\ before \in [Half -> Slot]
    /\ reqRev \in 0 .. MaxRequests /\ confirmedRev \in 0 .. MaxRequests
    /\ pendingRev \in 0 .. MaxRequests
    /\ generation \in Nat /\ rollbacks \in Nat
    /\ cycleOpen \in BOOLEAN /\ timer \in BOOLEAN
    /\ active \in SUBSET Requests
    /\ latestOutcome \in {"none", "ok", "failed"}
    /\ stage \in [Writers -> Stages]
    /\ claimGen \in [Writers -> Nat]
    /\ asked \in [Writers -> Pair]
    /\ wire \in SUBSET Pair /\ device \in Pair
    /\ taken \in [Half -> SUBSET Int]
    /\ others \in 0 .. MaxOthers

\* No slider range reaches into the other, so no frame is ever clamped.
Unclamped == \A b \in Backups, s \in Surpluses : b <= s

\* The rollback baseline of an open cycle "never contains an unconfirmed
\* optimistic value" (core.py, the comment on _powerocean_soc_before): each
\* half of it is a value the device held or the broker acknowledged.
BaselineTaken ==
    cycleOpen => \A h \in Half : before[h] \in taken[h] \cup {Absent}

\* Once a cycle is resolved no slider is left on a value the device never
\* took, whatever failed, timed out, was cancelled or came back out of order
\* (_flush_powerocean_soc, issue #185).
ShownTaken ==
    running /\ ~cycleOpen =>
        \A h \in Half : data[h] \in taken[h] \cup {Absent}

\* An open cycle always has something left that will resolve it: a timer with
\* a request behind it, or a claimed write still to settle.
NeverStranded ==
    running /\ cycleOpen => (timer /\ pendingRev = reqRev) \/ active # {}

\* A completion can only meet the cycle it belongs to: every claimed revision
\* carries the current generation, is in flight, and closes before the cycle.
ClaimsCurrent ==
    running => \A r \in active : /\ cycleOpen
                                 /\ claimGen[r] = generation
                                 /\ stage[r] \in {"starting", "publishing", "sent"}

\* When a publish of this cycle was acknowledged, the baseline is the newest
\* acknowledged pair of the cycle and not the snapshot it opened with.
BaselineNewest ==
    cycleOpen /\ confirmedRev > 0 /\ claimGen[confirmedRev] = generation
        => before = asked[confirmedRev]

\* Acknowledgements that come back in the wrong order never move the baseline
\* back to an older request.
NewestWins == [][confirmedRev' >= confirmedRev]_vars

\* After shutdown no late result of a write moves the store, the baseline or
\* the listeners of the unloaded coordinator; only a device report still may.
FrozenByShutdown ==
    [][~running => /\ UNCHANGED <<before, confirmedRev, rollbacks, cycleOpen>>
                   /\ data' # data => \E h \in Half : Report(h)]_vars

\* The MQTT client is only taken down when no write is left that could use it.
BrokerJobsDrained ==
    phase = "stopped" => \A w \in Writers : stage[w] \notin InFlight

\* Every cycle is resolved (or given up by shutdown): the sliders never wait
\* for good on a write whose outcome nobody will record.
CycleResolves == cycleOpen ~> ~cycleOpen

=============================================================================
