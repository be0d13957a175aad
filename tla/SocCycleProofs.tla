--------------------------- MODULE SocCycleProofs ---------------------------
(* Theorems about SocCycle, for every number of requests and all slider        *)
(* levels.  The invariants the runs check are not inductive by themselves: a   *)
(* cycle is resolved on what the request counter, the pending revision, the    *)
(* claimed revisions and the recorded outcome say TOGETHER, so IInv relates    *)
(* them.                                                                       *)
EXTENDS SocCycle, TLAPS

Live == {"starting", "publishing", "sent"}

(* The claimed revisions are exactly the flushes not yet settled, all of the   *)
(* open cycle.                                                                 *)
ActiveIsLive ==
    running => \A r \in Requests : stage[r] \in Live <=> r \in active

ClaimsOfCycle ==
    running => \A r \in active : r <= reqRev /\ claimGen[r] = generation

(* Timer and pending revision go together, and what is pending is the newest   *)
(* request, neither claimed nor confirmed.                                     *)
PendingIsLatest ==
    /\ running => (timer <=> pendingRev # 0)
    /\ pendingRev # 0 => /\ pendingRev = reqRev
                         /\ pendingRev \notin active
                         /\ confirmedRev < pendingRev

(* An open cycle has work left, and while its newest request is unsettled that *)
(* request is pending or claimed; a closed one has nothing left.               *)
CycleHasWork ==
    running => IF cycleOpen
                 THEN /\ reqRev > 0
                      /\ timer \/ active # {}
                      /\ latestOutcome = "none" =>
                            pendingRev = reqRev \/ reqRev \in active
                 ELSE ~timer /\ pendingRev = 0 /\ active = {} /\ latestOutcome = "none"

ClosedByShutdown == ~running => ~cycleOpen

RevisionsOrdered ==
    /\ confirmedRev <= reqRev
    /\ \A w \in Writers : claimGen[w] <= generation

(* While a cycle is open a slider can show, beside what the device took, only  *)
(* the newest request; a newest request recorded as delivered was taken.       *)
ShowsLatest ==
    running /\ cycleOpen =>
        \A h \in Half : data[h] \in taken[h] \cup {Absent, asked[reqRev][h]}

OutcomeTaken ==
    running /\ latestOutcome = "ok" => \A h \in Half : asked[reqRev][h] \in taken[h]

DeviceTaken == \A h \in Half : device[h] \in taken[h]

(* The part of the invariant that holds for overlapping slider ranges too.     *)
Control ==
    /\ TypeOK
    /\ ActiveIsLive
    /\ ClaimsOfCycle
    /\ PendingIsLatest
    /\ CycleHasWork
    /\ ClosedByShutdown
    /\ RevisionsOrdered
    /\ BaselineNewest
    /\ BrokerJobsDrained

(* The part that needs the ranges apart.                                       *)
Honest ==
    /\ BaselineTaken
    /\ ShownTaken
    /\ ShowsLatest
    /\ OutcomeTaken
    /\ DeviceTaken

-----------------------------------------------------------------------------

LEMMA PairTypes ==
    /\ \A b, s \in Int : MkPair(b, s) \in Pair
    /\ \A a, b \in Int : Lower(a, b) \in Int /\ Higher(a, b) \in Int
    /\ \A h \in Half : Levels(h) \subseteq Int /\ Other(h) \in Half
    /\ DevicePairs \subseteq Pair
<1>1. \A b, s \in Int : MkPair(b, s) \in Pair
  BY DEF MkPair, Pair
<1>2. \A a, b \in Int : Lower(a, b) \in Int /\ Higher(a, b) \in Int
  BY DEF Lower, Higher
<1>3. \A h \in Half : Levels(h) \subseteq Int /\ Other(h) \in Half
  BY LevelsAssumption DEF Levels, Other, Half
<1>4. DevicePairs \subseteq Pair
  BY <1>1, LevelsAssumption DEF DevicePairs
<1> QED
  BY <1>1, <1>2, <1>3, <1>4

LEMMA TookType ==
    ASSUME taken \in [Half -> SUBSET Int], NEW p \in Pair
    PROVE  /\ Took(p) \in [Half -> SUBSET Int]
           /\ \A h \in Half : taken[h] \subseteq Took(p)[h] /\ p[h] \in Took(p)[h]
  BY DEF Took, Pair

LEMMA FrameType ==
    ASSUME TypeOK, NEW h \in Half, NEW v \in Levels(h), data[Other(h)] # Absent
    PROVE  Frame(h, v) \in Pair /\ Frame(h, v)[h] = v /\ v \in Int
<1>1. v \in Int /\ data[Other(h)] \in Int
  BY PairTypes DEF TypeOK, Slot
<1>2. CASE h = "backup"
  BY <1>1, <1>2, PairTypes DEF Frame, MkPair, Other, Half
<1>3. CASE h = "solar"
  BY <1>1, <1>3, PairTypes DEF Frame, MkPair, Other, Half
<1> QED
  BY <1>2, <1>3 DEF Half

-----------------------------------------------------------------------------
(* The control part.                                                           *)

LEMMA ControlInit == Init => Control
<1> SUFFICES ASSUME Init PROVE Control
  OBVIOUS
<1>1. device \in Pair /\ \A h \in Half : device[h] \in Int
  BY PairTypes DEF Init, Pair
<1>2. TypeOK
  <2>1. PICK known \in SUBSET Half :
          data = [h \in Half |-> IF h \in known THEN device[h] ELSE Absent]
    BY DEF Init
  <2>2. data \in [Half -> Slot] /\ before \in [Half -> Slot]
    BY <1>1, <2>1 DEF Init, Slot
  <2>3. asked \in [Writers -> Pair] /\ taken \in [Half -> SUBSET Int]
    BY <1>1 DEF Init
  <2>4. stage \in [Writers -> Stages] /\ claimGen \in [Writers -> Nat]
    BY DEF Init, Stages
  <2>5. /\ 0 \in 0 .. MaxRequests /\ 0 \in 0 .. MaxOthers
    BY BoundsAssumption
  <2>6. active \in SUBSET Requests /\ wire \in SUBSET Pair
    BY DEF Init
  <2>7. cycleOpen \in BOOLEAN /\ timer \in BOOLEAN
    BY DEF Init
  <2> QED
    BY <1>1, <2>2, <2>3, <2>4, <2>5, <2>6, <2>7 DEF Init, TypeOK
<1>3. ActiveIsLive /\ BrokerJobsDrained
  BY DEF Init, ActiveIsLive, BrokerJobsDrained, Live, InFlight, Writers
<1> QED
  BY <1>2, <1>3 DEF Init, Control, ClaimsOfCycle, PendingIsLatest, CycleHasWork,
     ClosedByShutdown, RevisionsOrdered, BaselineNewest, running

(* What a settled flush leaves: the lemma both ways of settling use.           *)
LEMMA SettleControl ==
    ASSUME Control, NEW r \in Requests, NEW ok \in BOOLEAN, NEW x \in Stages \ Live,
           stage[r] \in Live, Settle(r, ok),
           stage' = [stage EXCEPT ![r] = x],
           taken' \in [Half -> SUBSET Int],
           UNCHANGED <<phase, reqRev, generation, pendingRev, timer, claimGen,
                       asked, wire, device, others>>
    PROVE  Control'
<1> USE DEF Control
<1>0. r \in Writers /\ r \in Nat /\ asked[r] \in Pair
  BY DEF Writers, Requests, TypeOK
<1>1. CASE ~running
  <2>1. TypeOK'
    BY <1>0, <1>1 DEF TypeOK, Settle, Baseline, Newest, Outcome, Owns, Stages, Live, InFlight, Writers, running
  <2>2. BrokerJobsDrained'
    BY <1>0, <1>1 DEF BrokerJobsDrained, Live, InFlight, TypeOK, running
  <2> QED
    BY <1>1, <2>1, <2>2 DEF ActiveIsLive, ClaimsOfCycle, PendingIsLatest,
       CycleHasWork, ClosedByShutdown, RevisionsOrdered, BaselineNewest,
       Settle, Baseline, Newest, Outcome, Owns, running
<1>2. CASE running
  <2>1. r \in active /\ claimGen[r] = generation /\ r <= reqRev /\ cycleOpen
    BY <1>2 DEF ActiveIsLive, ClaimsOfCycle, CycleHasWork
  <2> DEFINE newest == ok /\ r > confirmedRev
             base == IF newest THEN asked[r] ELSE before
             outcome == IF r # reqRev THEN latestOutcome
                        ELSE IF ok THEN "ok" ELSE "failed"
  <2>2. /\ active' = active \ {r}
        /\ confirmedRev' = IF newest THEN r ELSE confirmedRev
        /\ before' = base
        /\ Resolve(outcome, active', base)
    BY <1>2, <2>1 DEF Settle, Baseline, Newest, Outcome, Owns
  <2>3. outcome \in {"none", "ok", "failed"} /\ base \in [Half -> Slot]
    BY <1>0 DEF TypeOK, Pair, Slot
  <2> HIDE DEF newest, base, outcome
  <2>4. TypeOK'
    <3>1. /\ cycleOpen' \in BOOLEAN /\ latestOutcome' \in {"none", "ok", "failed"}
          /\ data' \in [Half -> Slot] /\ rollbacks' \in Nat
      <4>1. CASE /\ cycleOpen /\ ~timer /\ pendingRev = 0 /\ active' = {}
                 /\ outcome # "none"
        <5>1. cycleOpen' = FALSE /\ latestOutcome' = "none"
          BY <2>2, <4>1 DEF Resolve, NothingLeft
        <5>2. \/ data' = data /\ rollbacks' = rollbacks
              \/ data' = base /\ rollbacks' = rollbacks + 1
          BY <2>2, <4>1 DEF Resolve, NothingLeft
        <5>3. cycleOpen' \in BOOLEAN
          BY <5>1
        <5>4. data' \in [Half -> Slot] /\ rollbacks' \in Nat
          BY <2>3, <5>2 DEF TypeOK
        <5> QED
          BY <5>1, <5>3, <5>4
      <4>2. CASE ~(/\ cycleOpen /\ ~timer /\ pendingRev = 0 /\ active' = {}
                   /\ outcome # "none")
        <5>1. latestOutcome' = outcome /\ UNCHANGED <<cycleOpen, data, rollbacks>>
          BY <2>2, <4>2 DEF Resolve, NothingLeft
        <5> QED
          BY <2>3, <5>1 DEF TypeOK
      <4> QED
        BY <4>1, <4>2
    <3>2. confirmedRev' \in 0 .. MaxRequests /\ stage' \in [Writers -> Stages]
      BY <1>0, <2>2 DEF TypeOK, Requests
    <3> QED
      BY <2>2, <2>3, <3>1, <3>2 DEF TypeOK
  <2>5. ActiveIsLive' /\ ClaimsOfCycle' /\ BrokerJobsDrained'
    BY <1>0, <1>2, <2>1, <2>2
       DEF ActiveIsLive, ClaimsOfCycle, BrokerJobsDrained, TypeOK, Writers, running
  <2>6. PendingIsLatest' /\ RevisionsOrdered'
    BY <1>0, <1>2, <2>1, <2>2
       DEF PendingIsLatest, RevisionsOrdered, TypeOK, running, newest, Requests
  <2>7. CycleHasWork' /\ ClosedByShutdown'
    <3>1. r # reqRev /\ pendingRev # reqRev => reqRev \in active' \/ outcome # "none"
      BY <1>2, <2>1, <2>2 DEF CycleHasWork, outcome
    <3>2. r = reqRev => outcome # "none"
      BY DEF outcome
    <3>3. running' /\ reqRev' > 0
      BY <1>2, <2>1 DEF running, CycleHasWork
    <3>4. CASE ~timer /\ pendingRev = 0 /\ active' = {} /\ outcome # "none"
      BY <2>1, <2>2, <3>3, <3>4 DEF Resolve, NothingLeft, CycleHasWork, ClosedByShutdown
    <3>5. CASE ~(~timer /\ pendingRev = 0 /\ active' = {} /\ outcome # "none")
      <4>1. cycleOpen' = cycleOpen /\ latestOutcome' = outcome
        BY <2>2, <3>5 DEF Resolve, NothingLeft
      <4>2. timer' \/ active' # {}
        BY <1>2, <2>1, <3>1, <3>2, <3>3, <3>5 DEF PendingIsLatest
      <4>3. outcome = "none" => pendingRev' = reqRev' \/ reqRev' \in active'
        BY <3>1, <3>2
      <4> QED
        BY <2>1, <3>3, <4>1, <4>2, <4>3 DEF CycleHasWork, ClosedByShutdown
    <3> QED
      BY <3>4, <3>5
  <2>8. BaselineNewest'
    BY <1>0, <2>1, <2>2 DEF BaselineNewest, Resolve, NothingLeft, newest, base
  <2> QED
    BY <2>4, <2>5, <2>6, <2>7, <2>8
<1> QED
  BY <1>1, <1>2

LEMMA ControlNext == Control /\ [Next]_vars => Control'
<1> SUFFICES ASSUME Control, [Next]_vars PROVE Control'
  OBVIOUS
<1> USE DEF Control
<1>1. ASSUME NEW h \in Half, NEW v \in Levels(h), Request(h, v) PROVE Control'
  <2> DEFINE r == reqRev + 1
  <2>1. Frame(h, v) \in Pair /\ v \in Int
    BY <1>1, FrameType DEF Request
  <2>2. r \in Requests /\ r \in Writers /\ r \in Nat /\ reqRev < r
    BY <1>1, BoundsAssumption DEF Request, Requests, Writers, TypeOK
  <2>3. TypeOK'
    BY <1>1, <2>1, <2>2 DEF Request, TypeOK, Slot, worldVars, Requests
  <2>4. r \notin active /\ confirmedRev < r
    BY <1>1, <2>2 DEF Request, ClaimsOfCycle, RevisionsOrdered, TypeOK
  <2>5. ActiveIsLive' /\ BrokerJobsDrained' /\ ClosedByShutdown'
    BY <1>1 DEF Request, ActiveIsLive, BrokerJobsDrained, ClosedByShutdown, running
  <2>6. ClaimsOfCycle' /\ RevisionsOrdered'
    BY <1>1, <2>2 DEF Request, ClaimsOfCycle, RevisionsOrdered, CycleHasWork,
       TypeOK, running, Requests
  <2>7. PendingIsLatest' /\ CycleHasWork'
    BY <1>1, <2>2, <2>4 DEF Request, PendingIsLatest, CycleHasWork, running, TypeOK
  <2>8. BaselineNewest'
    BY <1>1, <2>2 DEF Request, BaselineNewest, RevisionsOrdered, TypeOK, Writers,
       Requests
  <2> QED
    BY <2>3, <2>5, <2>6, <2>7, <2>8
<1>2. CASE DebounceFired
  <2>1. /\ running /\ pendingRev # 0 /\ pendingRev \in Requests
        /\ pendingRev \in Writers /\ pendingRev = reqRev
        /\ pendingRev \notin active /\ confirmedRev < pendingRev
    BY <1>2 DEF DebounceFired, PendingIsLatest, TypeOK, Requests, Writers
  <2>2. /\ timer' = FALSE /\ pendingRev' = 0
        /\ active' = active \cup {pendingRev}
        /\ stage' = [stage EXCEPT ![pendingRev] = "starting"]
        /\ claimGen' = [claimGen EXCEPT ![pendingRev] = generation]
        /\ UNCHANGED <<phase, data, reqRev, generation, confirmedRev, cycleOpen,
                       before, latestOutcome, rollbacks, asked, worldVars>>
    BY <1>2, <2>1 DEF DebounceFired
  <2>3. TypeOK'
    <3>1. active' \in SUBSET Requests /\ pendingRev' \in 0 .. MaxRequests
      BY <2>1, <2>2, BoundsAssumption DEF TypeOK
    <3>3. timer' \in BOOLEAN
      BY <2>2
    <3>2. stage' \in [Writers -> Stages] /\ claimGen' \in [Writers -> Nat]
      BY <2>1, <2>2 DEF TypeOK, Stages, InFlight
    <3> QED
      BY <2>2, <3>1, <3>2, <3>3 DEF TypeOK, worldVars
  <2>4. ActiveIsLive' /\ ClaimsOfCycle' /\ BrokerJobsDrained'
    BY <2>1, <2>2 DEF ActiveIsLive, ClaimsOfCycle, BrokerJobsDrained, running,
       Live, TypeOK, Writers
  <2>5. PendingIsLatest' /\ CycleHasWork' /\ ClosedByShutdown'
    BY <2>1, <2>2 DEF PendingIsLatest, CycleHasWork, ClosedByShutdown, running
  <2>6. RevisionsOrdered' /\ BaselineNewest'
    BY <2>1, <2>2 DEF RevisionsOrdered, BaselineNewest, TypeOK, Writers, Requests
  <2> QED
    BY <2>3, <2>4, <2>5, <2>6
<1>3. CASE DirectWrite
  <2>1. MkPair(Lower(data["backup"], data["solar"]), data["solar"]) \in Pair
    BY <1>3, PairTypes DEF DirectWrite, TypeOK, Slot, Half
  <2>2. Direct \in Writers /\ Direct \notin Requests
    BY DEF Writers, Direct, Requests
  <2>3. TypeOK'
    BY <1>3, <2>1, <2>2, BoundsAssumption
       DEF DirectWrite, TypeOK, coordVars, Stages, InFlight
  <2> QED
    BY <1>3, <2>2, <2>3 DEF DirectWrite, coordVars, ActiveIsLive, ClaimsOfCycle,
       PendingIsLatest, CycleHasWork, ClosedByShutdown, RevisionsOrdered,
       BaselineNewest, BrokerJobsDrained, TypeOK, running
<1>4. ASSUME NEW w \in Writers, Submit(w) PROVE Control'
  BY <1>4 DEF Submit, coordVars, worldVars, TypeOK, Stages, InFlight, Live,
     ActiveIsLive, ClaimsOfCycle, PendingIsLatest, CycleHasWork, ClosedByShutdown,
     RevisionsOrdered, BaselineNewest, BrokerJobsDrained, running
<1>5. ASSUME NEW w \in Writers, Publish(w) PROVE Control'
  <2>1. TypeOK'
    BY <1>5 DEF Publish, coordVars, TypeOK, Stages, InFlight
  <2> QED
    BY <1>5, <2>1 DEF Publish, coordVars, TypeOK, InFlight, Live,
     ActiveIsLive, ClaimsOfCycle, PendingIsLatest, CycleHasWork, ClosedByShutdown,
     RevisionsOrdered, BaselineNewest, BrokerJobsDrained, running
<1>6. ASSUME NEW w \in Writers, NEW ok \in BOOLEAN, Finish(w, ok) PROVE Control'
  <2>1. taken' \in [Half -> SUBSET Int]
    BY <1>6, TookType DEF Finish, TypeOK
  <2>2. stage[w] \in Live /\ "idle" \in Stages \ Live
    BY <1>6 DEF Finish, Live, Stages, InFlight
  <2>3. CASE w = Direct
    <3>1. /\ stage' = [stage EXCEPT ![Direct] = "idle"]
          /\ UNCHANGED <<active, confirmedRev, before, cycleOpen, latestOutcome,
                         data, rollbacks, phase, reqRev, generation, pendingRev,
                         timer, claimGen, asked, wire, device, others>>
      BY <1>6, <2>3 DEF Finish
    <3>2. TypeOK'
      BY <2>1, <2>2, <2>3, <3>1 DEF TypeOK
    <3>3. \A r \in Requests : stage'[r] = stage[r]
      BY <3>1 DEF Direct, Requests, TypeOK
    <3>4. BrokerJobsDrained'
      BY <3>1 DEF BrokerJobsDrained, InFlight, TypeOK
    <3> QED
      BY <3>1, <3>2, <3>3, <3>4 DEF ActiveIsLive, ClaimsOfCycle, PendingIsLatest,
         CycleHasWork, ClosedByShutdown, RevisionsOrdered, BaselineNewest, running
  <2>4. CASE w # Direct
    BY <1>6, <2>1, <2>2, <2>4, SettleControl DEF Finish, Writers
  <2> QED
    BY <2>3, <2>4
<1>7. ASSUME NEW r \in Requests, CancelFlush(r) PROVE Control'
  <2>1. /\ stage[r] \in Live
        /\ {"orphaned", "orphanedSent"} \subseteq Stages \ Live
    BY <1>7 DEF CancelFlush, Live, Stages, InFlight
  <2>2. PICK x \in Stages \ Live : stage' = [stage EXCEPT ![r] = x]
    BY <1>7, <2>1 DEF CancelFlush, TypeOK, Writers
  <2> QED
    BY <1>7, <2>1, <2>2, SettleControl DEF CancelFlush, worldVars, TypeOK
<1>8. ASSUME NEW r \in Requests, OrphanEnds(r) PROVE Control'
  BY <1>8 DEF OrphanEnds, coordVars, worldVars, TypeOK, Stages, InFlight, Live, Writers,
     ActiveIsLive, ClaimsOfCycle, PendingIsLatest, CycleHasWork, ClosedByShutdown,
     RevisionsOrdered, BaselineNewest, BrokerJobsDrained, running
<1>9. CASE Shutdown
  <2>1. TypeOK'
    <3>1. /\ phase' \in {"running", "draining", "stopped"} /\ generation' \in Nat
          /\ pendingRev' \in 0 .. MaxRequests /\ before' \in [Half -> Slot]
          /\ active' \in SUBSET Requests /\ latestOutcome' = "none"
      BY <1>9, BoundsAssumption DEF Shutdown, TypeOK, Slot
    <3>2. timer' \in BOOLEAN /\ cycleOpen' \in BOOLEAN
      BY <1>9 DEF Shutdown
    <3> QED
      BY <1>9, <3>1, <3>2 DEF Shutdown, TypeOK, writeVars, worldVars
  <2> QED
    BY <1>9, <2>1 DEF Shutdown, writeVars, worldVars, TypeOK,
     ActiveIsLive, ClaimsOfCycle, PendingIsLatest, CycleHasWork, ClosedByShutdown,
     RevisionsOrdered, BaselineNewest, BrokerJobsDrained, running
<1>10. CASE Disconnect
  BY <1>10 DEF Disconnect, writeVars, worldVars, TypeOK,
     ActiveIsLive, ClaimsOfCycle, PendingIsLatest, CycleHasWork, ClosedByShutdown,
     RevisionsOrdered, BaselineNewest, BrokerJobsDrained, running
<1>11. ASSUME NEW h \in Half, Report(h) PROVE Control'
  <2>1. TypeOK'
    BY <1>11 DEF Report, TypeOK, Slot, Pair, writeVars, worldVars
  <2> QED
    BY <1>11, <2>1 DEF Report, writeVars, worldVars,
     ActiveIsLive, ClaimsOfCycle, PendingIsLatest, CycleHasWork, ClosedByShutdown,
     RevisionsOrdered, BaselineNewest, BrokerJobsDrained, running
<1>12. ASSUME NEW p \in wire, DeviceApplies(p) PROVE Control'
  <2>1. p \in Pair /\ Took(p) \in [Half -> SUBSET Int]
    BY <1>12, TookType DEF TypeOK
  <2>2. TypeOK'
    BY <1>12, <2>1 DEF DeviceApplies, TypeOK, coordVars, writeVars
  <2> QED
    BY <1>12, <2>2 DEF DeviceApplies, coordVars, writeVars,
     ActiveIsLive, ClaimsOfCycle, PendingIsLatest, CycleHasWork, ClosedByShutdown,
     RevisionsOrdered, BaselineNewest, BrokerJobsDrained, running
<1>13. ASSUME NEW p \in DevicePairs, AppWrites(p) PROVE Control'
  <2>1. p \in Pair /\ Took(p) \in [Half -> SUBSET Int]
    BY <1>13, PairTypes, TookType DEF TypeOK
  <2>2. TypeOK'
    BY <1>13, <2>1, BoundsAssumption DEF AppWrites, TypeOK, coordVars, writeVars
  <2> QED
    BY <1>13, <2>2 DEF AppWrites, coordVars, writeVars,
     ActiveIsLive, ClaimsOfCycle, PendingIsLatest, CycleHasWork, ClosedByShutdown,
     RevisionsOrdered, BaselineNewest, BrokerJobsDrained, running
<1>14. CASE UNCHANGED vars
  BY <1>14 DEF vars, TypeOK, ActiveIsLive, ClaimsOfCycle, PendingIsLatest,
     CycleHasWork, ClosedByShutdown, RevisionsOrdered, BaselineNewest,
     BrokerJobsDrained, running
<1> QED
  BY <1>1, <1>2, <1>3, <1>4, <1>5, <1>6, <1>7, <1>8, <1>9, <1>10, <1>11, <1>12,
     <1>13, <1>14 DEF Next, JobStep

THEOREM ControlInvariant == Spec => []Control
<1> QED
  BY ControlInit, ControlNext, PTL DEF Spec

-----------------------------------------------------------------------------
(* The part that needs the slider ranges apart: no frame is clamped, so the    *)
(* half a request does not move travels as the store shows it.                 *)

(* Unclamped, the newest request covers everything the sliders show.           *)
LEMMA FrameShowsStore ==
    ASSUME TypeOK, Unclamped, NEW h \in Half, NEW v \in Levels(h),
           data[Other(h)] # Absent,
           \A k \in Half : data[k] \in Levels(k) \cup {Absent}
    PROVE  \A k \in Half : [data EXCEPT ![h] = v][k] = Frame(h, v)[k]
<1>1. data[Other(h)] \in Levels(Other(h)) /\ Other(h) \in Half
  BY PairTypes
<1>2. CASE h = "backup"
  <2>1. v \in Backups /\ data["solar"] \in Surpluses
    BY <1>1, <1>2 DEF Other, Levels
  <2>2. v <= data["solar"] /\ v \in Int /\ data["solar"] \in Int
    BY <2>1, LevelsAssumption DEF Unclamped
  <2>3. Higher(data["solar"], v) = data["solar"]
    BY <2>2 DEF Higher
  <2>4. Frame(h, v) = [k \in Half |-> IF k = "backup" THEN v ELSE data["solar"]]
    BY <1>2, <2>3 DEF Frame, MkPair
  <2> QED
    BY <1>2, <2>4 DEF Half, TypeOK
<1>3. CASE h = "solar"
  <2>1. v \in Surpluses /\ data["backup"] \in Backups
    BY <1>1, <1>3 DEF Other, Levels
  <2>2. data["backup"] <= v /\ v \in Int /\ data["backup"] \in Int
    BY <2>1, LevelsAssumption DEF Unclamped
  <2>3. Lower(data["backup"], v) = data["backup"]
    BY <2>2 DEF Lower
  <2>4. Frame(h, v) = [k \in Half |-> IF k = "backup" THEN data["backup"] ELSE v]
    BY <1>3, <2>3 DEF Frame, MkPair
  <2> QED
    BY <1>3, <2>4 DEF Half, TypeOK
<1> QED
  BY <1>2, <1>3 DEF Half

(* Every value in the system is one its slider can be set to.                  *)
Within(f) == \A h \in Half : f[h] \in Levels(h) \cup {Absent}

Leveled ==
    /\ Within(data) /\ Within(before) /\ Within(device)
    /\ \A w \in Writers : Within(asked[w])
    /\ \A p \in wire : Within(p)

LEMMA LeveledInit == Init => Leveled
<1> SUFFICES ASSUME Init PROVE Leveled
  OBVIOUS
<1>1. Within(device)
  BY DEF Init, DevicePairs, MkPair, Within, Levels, Half
<1>2. Within(data) /\ Within(before)
  BY <1>1 DEF Init, Within
<1> QED
  BY <1>1, <1>2 DEF Init, Leveled

(* A store with both keys present is a legal pair already: the direct write    *)
(* sends it as it is.                                                          *)
LEMMA DirectShowsStore ==
    ASSUME TypeOK, Unclamped, Within(data), \A h \in Half : data[h] # Absent
    PROVE  Within(MkPair(Lower(data["backup"], data["solar"]), data["solar"]))
<1>1. data["backup"] \in Backups /\ data["solar"] \in Surpluses
  BY DEF Within, Levels, Half
<1>2. Lower(data["backup"], data["solar"]) = data["backup"]
  <2>1. data["backup"] <= data["solar"]
    BY <1>1 DEF Unclamped
  <2>2. data["backup"] \in Int /\ data["solar"] \in Int
    BY <1>1, LevelsAssumption
  <2> QED
    BY <2>1, <2>2 DEF Lower
<1> QED
  BY <1>1, <1>2 DEF Within, MkPair, Levels, Half

LEMMA LeveledSettle ==
    ASSUME TypeOK, Leveled, NEW r \in Requests, NEW ok \in BOOLEAN, Settle(r, ok)
    PROVE  Within(data') /\ Within(before')
<1>1. Within(asked[r])
  BY DEF Leveled, Writers
<1> QED
  BY <1>1 DEF Settle, Baseline, Newest, Outcome, Owns, Resolve, NothingLeft, Leveled

LEMMA LeveledNext == Unclamped /\ TypeOK /\ Leveled /\ [Next]_vars => Leveled'
<1> SUFFICES ASSUME Unclamped, TypeOK, Leveled, [Next]_vars PROVE Leveled'
  OBVIOUS
<1>1. ASSUME NEW h \in Half, NEW v \in Levels(h), Request(h, v) PROVE Leveled'
  <2>1. Within([data EXCEPT ![h] = v])
    BY DEF Leveled, Within, TypeOK
  <2>2. Within(Frame(h, v))
    BY <1>1, <2>1, FrameShowsStore DEF Request, Within, Leveled
  <2>3. \A w \in Writers : Within(asked'[w])
    BY <1>1, <2>2 DEF Request, Leveled, TypeOK
  <2>4. Within(data') /\ Within(before')
    BY <1>1, <2>1 DEF Request, Leveled
  <2> QED
    BY <1>1, <2>3, <2>4 DEF Request, Leveled, worldVars
<1>2. CASE DirectWrite
  BY <1>2, DirectShowsStore DEF DirectWrite, Leveled, coordVars, TypeOK
<1>3. ASSUME NEW w \in Writers, Publish(w) PROVE Leveled'
  BY <1>3 DEF Publish, Leveled, coordVars
<1>4. ASSUME NEW w \in Writers, NEW ok \in BOOLEAN, Finish(w, ok) PROVE Leveled'
  BY <1>4, LeveledSettle DEF Finish, Leveled, Writers
<1>5. ASSUME NEW r \in Requests, CancelFlush(r) PROVE Leveled'
  BY <1>5, LeveledSettle DEF CancelFlush, Leveled, worldVars
<1>6. CASE Shutdown
  BY <1>6 DEF Shutdown, Leveled, Within, writeVars, worldVars
<1>7. ASSUME NEW h \in Half, Report(h) PROVE Leveled'
  BY <1>7 DEF Report, Leveled, Within, writeVars, worldVars, TypeOK
<1>8. ASSUME NEW p \in wire, DeviceApplies(p) PROVE Leveled'
  BY <1>8 DEF DeviceApplies, Leveled, coordVars, writeVars
<1>9. ASSUME NEW p \in DevicePairs, AppWrites(p) PROVE Leveled'
  <2>1. Within(p)
    BY DEF DevicePairs, MkPair, Within, Levels, Half
  <2> QED
    BY <1>9, <2>1 DEF AppWrites, Leveled, coordVars, writeVars
<1>10. ASSUME \/ DebounceFired \/ Disconnect \/ UNCHANGED vars
              \/ \E w \in Writers : Submit(w)
              \/ \E r \in Requests : OrphanEnds(r)
       PROVE  Leveled'
  BY <1>10 DEF DebounceFired, Disconnect, Submit, OrphanEnds, vars, Leveled,
     coordVars, worldVars, writeVars
<1> QED
  BY <1>1, <1>2, <1>3, <1>4, <1>5, <1>6, <1>7, <1>8, <1>9, <1>10
     DEF Next, JobStep

LEMMA HonestInit == Init => Honest
<1> SUFFICES ASSUME Init PROVE Honest
  OBVIOUS
<1>1. \A h \in Half : data[h] \in taken[h] \cup {Absent} /\ device[h] \in taken[h]
  BY DEF Init
<1> QED
  BY <1>1 DEF Init, Honest, BaselineTaken, ShownTaken, ShowsLatest, OutcomeTaken,
     DeviceTaken

(* What was taken stays taken.                                                 *)
Grows == \A h \in Half : taken[h] \subseteq taken'[h]

LEMMA SettleHonest ==
    ASSUME Control, Honest, NEW r \in Requests, NEW ok \in BOOLEAN,
           stage[r] \in Live, Settle(r, ok), Grows,
           ok => \A h \in Half : asked[r][h] \in taken'[h],
           UNCHANGED <<phase, reqRev, generation, pendingRev, timer, claimGen,
                       asked, wire, device, others>>
    PROVE  Honest'
<1>1. CASE ~running
  BY <1>1 DEF Honest, Control, BaselineTaken, ShownTaken, ShowsLatest, OutcomeTaken,
     DeviceTaken, Settle, Baseline, Newest, Outcome, Owns, running, ClosedByShutdown, Grows
<1>2. CASE running
  <2>1. r \in active /\ claimGen[r] = generation /\ cycleOpen
    BY <1>2 DEF Control, ActiveIsLive, ClaimsOfCycle, CycleHasWork
  <2> DEFINE newest == ok /\ r > confirmedRev
             base == IF newest THEN asked[r] ELSE before
             outcome == IF r # reqRev THEN latestOutcome
                        ELSE IF ok THEN "ok" ELSE "failed"
  <2>2. before' = base /\ Resolve(outcome, active', base)
    BY <1>2, <2>1 DEF Settle, Baseline, Newest, Outcome, Owns
  <2>3. \A h \in Half : base[h] \in taken'[h] \cup {Absent}
    BY <2>1 DEF Honest, BaselineTaken, Grows
  <2>4. outcome = "ok" => \A h \in Half : asked[reqRev][h] \in taken'[h]
    BY <1>2 DEF Honest, OutcomeTaken, Grows
  <2>5. \A h \in Half : data[h] \in taken'[h] \cup {Absent, asked[reqRev][h]}
    BY <1>2, <2>1 DEF Honest, ShowsLatest, Grows
  <2> HIDE DEF newest, base, outcome
  <2>6. BaselineTaken' /\ DeviceTaken'
    BY <2>2, <2>3 DEF BaselineTaken, DeviceTaken, Honest, Grows
  <2>7. CASE cycleOpen'
    <3>1. latestOutcome' = outcome /\ data' = data
      BY <2>1, <2>2, <2>7 DEF Resolve, NothingLeft
    <3> QED
      BY <1>2, <2>4, <2>5, <2>6, <2>7, <3>1
         DEF Honest, ShownTaken, ShowsLatest, OutcomeTaken, running
  <2>8. CASE ~cycleOpen'
    <3>1. /\ latestOutcome' = "none"
          /\ (outcome = "ok" /\ data' = data) \/ data' = base
      BY <2>1, <2>2, <2>8 DEF Resolve, NothingLeft
    <3>2. \A h \in Half : data'[h] \in taken'[h] \cup {Absent}
      BY <2>3, <2>4, <2>5, <3>1
    <3> QED
      BY <2>6, <2>8, <3>1, <3>2
         DEF Honest, ShownTaken, ShowsLatest, OutcomeTaken
  <2> QED
    BY <2>7, <2>8
<1> QED
  BY <1>1, <1>2

LEMMA HonestNext ==
    Unclamped /\ Control /\ Leveled /\ Honest /\ [Next]_vars => Honest'
<1> SUFFICES ASSUME Unclamped, Control, Leveled, Honest, [Next]_vars PROVE Honest'
  OBVIOUS
<1> USE DEF Honest
<1>0. TypeOK
  BY DEF Control
<1>1. ASSUME NEW h \in Half, NEW v \in Levels(h), Request(h, v) PROVE Honest'
  <2>1. running /\ reqRev + 1 \in Writers /\ data[Other(h)] # Absent
    BY <1>0, <1>1, BoundsAssumption DEF Request, TypeOK, Writers, Requests
  <2>2. asked'[reqRev'] = Frame(h, v)
    BY <1>0, <1>1, <2>1 DEF Request, TypeOK
  <2>3. \A k \in Half : data'[k] = Frame(h, v)[k]
    BY <1>0, <1>1, <2>1, FrameShowsStore DEF Request, Leveled, Within
  <2>4. ShowsLatest' /\ OutcomeTaken' /\ DeviceTaken' /\ ShownTaken'
    BY <1>1, <2>2, <2>3 DEF Request, ShowsLatest, OutcomeTaken, DeviceTaken,
       ShownTaken, worldVars
  <2>5. BaselineTaken'
    BY <1>1, <2>1 DEF Request, BaselineTaken, ShownTaken, worldVars
  <2> QED
    BY <2>4, <2>5
<1>2. CASE DirectWrite
  <2>1. ~cycleOpen /\ latestOutcome' = latestOutcome
    BY <1>2 DEF DirectWrite, coordVars
  <2>2. latestOutcome = "ok" => asked'[reqRev] = asked[reqRev]
    BY <1>2, <2>1 DEF DirectWrite, Control, CycleHasWork
  <2> QED
    BY <1>2, <2>1, <2>2 DEF DirectWrite, coordVars, BaselineTaken, ShownTaken,
       ShowsLatest, OutcomeTaken, DeviceTaken, running
<1>3. ASSUME NEW w \in Writers, NEW ok \in BOOLEAN, Finish(w, ok) PROVE Honest'
  <2>1. Grows /\ (ok => \A h \in Half : asked[w][h] \in taken'[h])
    BY <1>0, <1>3, TookType DEF Finish, Grows, TypeOK
  <2>2. CASE w = Direct
    BY <1>3, <2>1, <2>2 DEF Finish, Grows, BaselineTaken, ShownTaken, ShowsLatest,
       OutcomeTaken, DeviceTaken, running
  <2>3. CASE w # Direct
    BY <1>3, <2>1, <2>3, SettleHonest DEF Finish, Writers, Live
  <2> QED
    BY <2>2, <2>3
<1>4. ASSUME NEW r \in Requests, CancelFlush(r) PROVE Honest'
  BY <1>4, SettleHonest DEF CancelFlush, worldVars, Grows, Live
<1>5. CASE Shutdown
  BY <1>5 DEF Shutdown, BaselineTaken, ShownTaken, ShowsLatest, OutcomeTaken,
     DeviceTaken, running, worldVars, writeVars
<1>6. ASSUME NEW h \in Half, Report(h) PROVE Honest'
  BY <1>0, <1>6 DEF Report, BaselineTaken, ShownTaken, ShowsLatest, OutcomeTaken,
     DeviceTaken, running, worldVars, writeVars, TypeOK
<1>7. ASSUME NEW p \in Pair, taken' = Took(p), device' = p, UNCHANGED coordVars,
             UNCHANGED asked
      PROVE  Honest'
  <2>1. Grows /\ DeviceTaken'
    BY <1>0, <1>7, TookType DEF Grows, DeviceTaken, TypeOK
  <2> QED
    BY <1>7, <2>1 DEF Grows, BaselineTaken, ShownTaken, ShowsLatest, OutcomeTaken,
       running, coordVars
<1>8. ASSUME NEW p \in wire, DeviceApplies(p) PROVE Honest'
  BY <1>0, <1>7, <1>8 DEF DeviceApplies, TypeOK, writeVars
<1>9. ASSUME NEW p \in DevicePairs, AppWrites(p) PROVE Honest'
  BY <1>7, <1>9, PairTypes DEF AppWrites, writeVars
<1>10. ASSUME \/ DebounceFired \/ Disconnect \/ UNCHANGED vars
              \/ \E w \in Writers : Submit(w) \/ Publish(w)
              \/ \E r \in Requests : OrphanEnds(r)
       PROVE  Honest'
  BY <1>10 DEF DebounceFired, Disconnect, Submit, Publish, OrphanEnds, vars,
     BaselineTaken, ShownTaken, ShowsLatest, OutcomeTaken, DeviceTaken, running,
     coordVars, worldVars, writeVars
<1> QED
  BY <1>1, <1>2, <1>3, <1>4, <1>5, <1>6, <1>8, <1>9, <1>10 DEF Next, JobStep

-----------------------------------------------------------------------------
(* The results.                                                                *)

(* Every variable keeps its type, whatever number of requests is made.         *)
THEOREM TypeCorrect == Spec => []TypeOK
<1>1. Control => TypeOK
  BY DEF Control
<1> QED
  BY ControlInvariant, <1>1, PTL

(* An open cycle never waits for nothing: see NeverStranded in SocCycle.       *)
THEOREM OpenCycleHasWork == Spec => []NeverStranded
<1>1. Control => NeverStranded
  BY DEF Control, CycleHasWork, PendingIsLatest, NeverStranded
<1> QED
  BY ControlInvariant, <1>1, PTL

(* A completion only ever meets the cycle it was claimed in.                   *)
THEOREM CompletionsMeetTheirCycle == Spec => []ClaimsCurrent
<1>1. Control => ClaimsCurrent
  <2> SUFFICES ASSUME Control, running, NEW r \in active
               PROVE  cycleOpen /\ claimGen[r] = generation /\ stage[r] \in Live
    BY DEF ClaimsCurrent, Live
  <2>1. r \in Requests
    BY DEF Control, TypeOK
  <2> QED
    BY <2>1 DEF Control, ActiveIsLive, ClaimsOfCycle, CycleHasWork
<1> QED
  BY ControlInvariant, <1>1, PTL

(* The baseline of a cycle is the newest acknowledged pair of that cycle.      *)
THEOREM BaselineIsNewest == Spec => []BaselineNewest
<1>1. Control => BaselineNewest
  BY DEF Control
<1> QED
  BY ControlInvariant, <1>1, PTL

(* MQTT goes down only when no write is left that could publish.               *)
THEOREM DrainedBeforeDisconnect == Spec => []BrokerJobsDrained
<1>1. Control => BrokerJobsDrained
  BY DEF Control
<1> QED
  BY ControlInvariant, <1>1, PTL

(* With slider ranges that do not overlap, no resolved cycle leaves a slider   *)
(* on a value the device never took, and no baseline ever holds one.           *)
THEOREM SlidersHonest ==
    ASSUME Unclamped
    PROVE  Spec => [](ShownTaken /\ BaselineTaken)
<1> DEFINE IInv == Control /\ Leveled /\ Honest
<1>1. Init => IInv
  BY ControlInit, LeveledInit, HonestInit
<1>2. IInv /\ [Next]_vars => IInv'
  <2>1. Control => TypeOK
    BY DEF Control
  <2> QED
    BY <2>1, ControlNext, LeveledNext, HonestNext
<1>3. IInv => ShownTaken /\ BaselineTaken
  BY DEF Honest
<1> QED
  BY <1>1, <1>2, <1>3, PTL DEF Spec

(* The confirmed revision never goes back, in whatever order the               *)
(* acknowledgements of overlapping publishes arrive.                           *)
THEOREM AcknowledgementsOrdered == Spec => NewestWins
<1>1. TypeOK /\ [Next]_vars => [confirmedRev' >= confirmedRev]_vars
  <2> SUFFICES ASSUME TypeOK, Next PROVE confirmedRev' >= confirmedRev
    BY DEF vars
  <2>1. ASSUME NEW r \in Requests, NEW ok \in BOOLEAN, Settle(r, ok)
        PROVE  confirmedRev' >= confirmedRev
    BY <2>1 DEF Settle, Baseline, Newest, Outcome, Owns, TypeOK, Requests
  <2>2. ASSUME NEW w \in Writers, NEW ok \in BOOLEAN, Finish(w, ok)
        PROVE  confirmedRev' >= confirmedRev
    BY <2>1, <2>2 DEF Finish, Writers, TypeOK
  <2>3. ASSUME NEW r \in Requests, CancelFlush(r)
        PROVE  confirmedRev' >= confirmedRev
    BY <2>1, <2>3 DEF CancelFlush
  <2>4. ASSUME confirmedRev' = confirmedRev PROVE confirmedRev' >= confirmedRev
    BY <2>4 DEF TypeOK
  <2> QED
    BY <2>2, <2>3, <2>4 DEF Next, JobStep, Request, DebounceFired, DirectWrite,
       Submit, Publish, OrphanEnds, Shutdown, Disconnect, Report, DeviceApplies,
       AppWrites, coordVars
<1> QED
  BY TypeCorrect, <1>1, PTL DEF Spec, NewestWins

(* Nothing a write started before shutdown brings back after it moves the      *)
(* unloaded coordinator; a device report already queued still may.             *)
THEOREM ShutdownFreezes == Spec => FrozenByShutdown
<1> DEFINE Frozen == ~running =>
               /\ UNCHANGED <<before, confirmedRev, rollbacks, cycleOpen>>
               /\ data' # data => \E h \in Half : Report(h)
<1>1. [Next]_vars => [Frozen]_vars
  <2> SUFFICES ASSUME Next, ~running PROVE Frozen
    BY DEF vars
  <2>1. ASSUME NEW w \in Writers, NEW ok \in BOOLEAN, Finish(w, ok) PROVE Frozen
    BY <2>1 DEF Finish, Settle, Baseline, Newest, Outcome, Owns
  <2>2. ASSUME NEW r \in Requests, CancelFlush(r) PROVE Frozen
    BY <2>2 DEF CancelFlush, Settle, Baseline, Newest, Outcome, Owns
  <2>3. ASSUME NEW h \in Half, Report(h) PROVE Frozen
    BY <2>3 DEF Report
  <2> QED
    BY <2>1, <2>2, <2>3 DEF Next, JobStep, Request, DebounceFired, DirectWrite,
       Submit, Publish, OrphanEnds, Shutdown, Disconnect, DeviceApplies,
       AppWrites, coordVars
<1> QED
  BY <1>1, PTL DEF Spec, FrozenByShutdown
=============================================================================
