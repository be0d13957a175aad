--------------------------- MODULE CloudLinkProofs --------------------------
(* Theorems about CloudLink, for every set of executor workers, every number   *)
(* of hosts and every bound.                                                   *)
(*                                                                             *)
(* MqttLink: overlapping reconnects leave no client behind, and the connected  *)
(* flag belongs to the client the wrapper holds (LinkInv).  The lock is what   *)
(* makes it inductive: exactly the worker that holds it is inside the critical *)
(* part of force_reconnect, and between its teardown and its loop_start the    *)
(* wrapper's client has no network thread and no session.                      *)
(*                                                                             *)
(* SignIn: nobody is asked to sign in again before a host that knows the       *)
(* account has answered (SignInInv).                                           *)
EXTENDS CloudLink, TLAPS

Critical == {"stop", "create", "dial"}

\* The lock's holder is the one worker in the critical part.
LockInv == \A w \in Workers : job[w] \in Critical <=> lock = w

Quiet == ~client.loop /\ ~client.up /\ ~connected

\* From the teardown to loop_start nothing runs on the held client.
SwapInv == \A w \in Workers : job[w] \in {"create", "dial"} => Quiet

\* Before _start_mqtt has run there is no client to connect or to swap.
SetupInv ==
    phase = "setup" =>
        /\ Quiet
        /\ lock = Free /\ \A w \in Workers : job[w] = "idle"
        /\ refresh = "idle"

LinkInv ==
    /\ TypeOK
    /\ LockInv
    /\ SwapInv
    /\ SetupInv
    /\ FlagMatchesClient
    /\ NoOrphan

-----------------------------------------------------------------------------
ClientType == [cred : -1 .. MaxRotations, host : -1 .. MaxRotations,
               loop : BOOLEAN, up : BOOLEAN]

LEMMA NoClientType == NoClient \in ClientType
<1>1. -1 \in -1 .. MaxRotations
  BY LinkAssumption
<1> QED
  BY <1>1 DEF NoClient, ClientType

LEMMA SessionUpType ==
  ASSUME NEW c \in ClientType
  PROVE  [c EXCEPT !.up = TRUE] \in ClientType
  BY DEF ClientType

LEMMA TypeInit == Init => TypeOK
<1> SUFFICES ASSUME Init PROVE TypeOK
  OBVIOUS
<1> USE LinkAssumption DEF Init
<1>1. client \in ClientType
  BY NoClientType
<1>2. /\ cred \in 0 .. MaxRotations /\ host \in 0 .. MaxRotations
      /\ validCred \in 0 .. MaxRotations /\ validHost \in 0 .. validCred
      /\ attempts \in 0 .. MaxAttempts /\ drops \in 0 .. MaxNetDrops
  OBVIOUS
<1>3. lock \in Workers \cup {Free} /\ job \in [Workers -> Jobs]
  BY DEF Jobs
<1> QED
  BY <1>1, <1>2, <1>3 DEF TypeOK, ClientType

LEMMA TypeNext == TypeOK /\ [Next]_vars => TypeOK'
<1> SUFFICES ASSUME TypeOK, [Next]_vars PROVE TypeOK'
  OBVIOUS
<1> USE LinkAssumption DEF TypeOK, Jobs, timeVars, worldVars
<1>1. CASE StartMqtt
  BY <1>1 DEF StartMqtt
<1>2. ASSUME NEW w \in Workers, Watchdog(w) PROVE TypeOK'
  BY <1>2 DEF Watchdog, Submit
<1>3. ASSUME NEW w \in Workers, SilentReconnect(w) PROVE TypeOK'
  BY <1>3 DEF SilentReconnect, Submit
<1>4. ASSUME NEW w \in Workers, TryReconnect(w) PROVE TypeOK'
  <2> DEFINE usedUp == attempts >= MaxAttempts
             counted == IF usedUp /\ resetDue THEN 0 ELSE attempts
             refused == IsConnected \/ (usedUp /\ ~resetDue)
  <2>1. resetDue' \in BOOLEAN
    BY <1>4, Zenon DEF TryReconnect, UsedUp
  <2>2. job' \in [Workers -> Jobs]
    BY <1>4 DEF TryReconnect, UsedUp
  <2>3. delayOver' \in BOOLEAN
    BY <1>4 DEF TryReconnect, UsedUp
  <2>4. counted \in 0 .. MaxAttempts
    OBVIOUS
  <2>5. ~refused => counted + 1 \in 0 .. MaxAttempts
    OBVIOUS
  <2>6. attempts' \in {attempts, counted} \/ (~refused /\ attempts' = counted + 1)
    BY <1>4 DEF TryReconnect, UsedUp
  <2>7. attempts' \in 0 .. MaxAttempts
    BY <2>4, <2>5, <2>6
  <2>8. UNCHANGED <<phase, client, connected, cred, host, lock, refresh, zombie,
                    netUp, validCred, validHost, drops>>
    BY <1>4 DEF TryReconnect, UsedUp
  <2> QED
    BY <2>1, <2>2, <2>3, <2>7, <2>8
<1>5. ASSUME NEW w \in Workers, ForceBegin(w) PROVE TypeOK'
  BY <1>5 DEF ForceBegin
<1>6. ASSUME NEW w \in Workers, ForceStop(w) PROVE TypeOK'
  <2>1. client' \in ClientType
    BY <1>6, NoClientType DEF ForceStop
  <2> QED
    BY <1>6, <2>1 DEF ForceStop, ClientType
<1>7. ASSUME NEW w \in Workers, ForceCreate(w) PROVE TypeOK'
  BY <1>7 DEF ForceCreate
<1>8. ASSUME NEW w \in Workers, ForceDial(w) PROVE TypeOK'
  <2>1. host \in -1 .. MaxRotations
    OBVIOUS
  <2>2. client' \in ClientType
    <3>1. client' = [[client EXCEPT !.host = host] EXCEPT !.loop = netUp]
      BY <1>8 DEF ForceDial
    <3>2. [client EXCEPT !.host = host] \in ClientType
      BY <2>1 DEF ClientType
    <3> QED
      BY <3>1, <3>2 DEF ClientType
  <2>3. job' \in [Workers -> Jobs] /\ lock' \in Workers \cup {Free}
    BY <1>8 DEF ForceDial
  <2> QED
    BY <1>8, <2>2, <2>3 DEF ForceDial, ClientType
<1>9. CASE PahoConnects
  <2>1. client' \in ClientType /\ connected' \in BOOLEAN
    <3>1. client' \in {client, [client EXCEPT !.up = TRUE]} /\ connected' \in BOOLEAN
      BY <1>9 DEF PahoConnects
    <3>2. client \in ClientType
      BY DEF ClientType
    <3> QED
      BY <3>1, <3>2, SessionUpType
  <2>2. attempts' \in {0, attempts}
    BY <1>9 DEF PahoConnects
  <2>3. refresh' \in {refresh, "asked"}
    BY <1>9 DEF PahoConnects
  <2>4. UNCHANGED <<phase, cred, host, delayOver, resetDue, lock, job, zombie, netUp,
                    validCred, validHost, drops>>
    BY <1>9 DEF PahoConnects
  <2> QED
    BY <2>1, <2>2, <2>3, <2>4 DEF ClientType
<1>10. CASE SessionDrops
  BY <1>10 DEF SessionDrops
<1>11. CASE RefreshAnswered
  BY <1>11 DEF RefreshAnswered, Renewed, NoClient
<1>12. CASE AdoptBroker
  BY <1>12 DEF AdoptBroker, Submit
<1>13. CASE CredentialsOld
  BY <1>13 DEF CredentialsOld
<1>14. CASE Shutdown
  BY <1>14 DEF Shutdown
<1>15. CASE Disconnect
  BY <1>15 DEF Disconnect
<1>16a. CASE NetDrops
  <2>1. drops' \in 0 .. MaxNetDrops /\ netUp' \in BOOLEAN
    <3>1. drops < MaxNetDrops /\ drops' = drops + 1 /\ netUp' = FALSE
      BY <1>16a DEF NetDrops
    <3>2. drops \in 0 .. MaxNetDrops /\ MaxNetDrops \in Nat
      OBVIOUS
    <3>3. drops + 1 \in 0 .. MaxNetDrops
      BY <3>1, <3>2
    <3> QED
      BY <3>1, <3>3
  <2> QED
    BY <1>16a, <2>1, Zenon DEF NetDrops
<1>16b. CASE NetReturns
  BY <1>16b DEF NetReturns
<1>17. CASE CloudRenews
  BY <1>17 DEF CloudRenews
<1>18a. CASE DelayPasses
  BY <1>18a DEF DelayPasses
<1>18b. CASE ResetIntervalPasses
  BY <1>18b DEF ResetIntervalPasses
<1>19. CASE UNCHANGED vars
  BY <1>19 DEF vars
<1> QED
  BY <1>1, <1>2, <1>3, <1>4, <1>5, <1>6, <1>7, <1>8, <1>9, <1>10, <1>11, <1>12,
     <1>13, <1>14, <1>15, <1>16a, <1>16b, <1>17, <1>18a, <1>18b, <1>19 DEF Next, WorkerStep

-----------------------------------------------------------------------------
LEMMA LinkInit == Init => LinkInv
<1> SUFFICES ASSUME Init PROVE LinkInv
  OBVIOUS
<1>1. TypeOK
  BY TypeInit
<1>2. LockInv /\ SwapInv
  BY LinkAssumption DEF Init, LockInv, SwapInv, Critical
<1>3. SetupInv /\ FlagMatchesClient /\ NoOrphan
  BY LinkAssumption DEF Init, SetupInv, Quiet, NoClient, FlagMatchesClient, NoOrphan
<1> QED
  BY <1>1, <1>2, <1>3 DEF LinkInv

LEMMA LinkNext == LinkInv /\ [Next]_vars => LinkInv'
<1> SUFFICES ASSUME LinkInv, [Next]_vars PROVE LinkInv'
  OBVIOUS
<1>t. TypeOK'
  BY TypeNext DEF LinkInv
<1>h. TypeOK /\ LockInv /\ SwapInv /\ SetupInv /\ FlagMatchesClient /\ NoOrphan
  BY DEF LinkInv
<1> SUFFICES LockInv' /\ SwapInv' /\ SetupInv' /\ FlagMatchesClient' /\ NoOrphan'
  BY <1>t DEF LinkInv
<1> USE LinkAssumption, <1>h DEF TypeOK, LockInv, SwapInv, SetupInv,
        FlagMatchesClient, NoOrphan, Critical, Quiet, Jobs, timeVars, worldVars
<1>1. CASE StartMqtt
  BY <1>1 DEF StartMqtt
<1>2. ASSUME NEW w \in Workers, Watchdog(w) \/ SilentReconnect(w)
      PROVE LockInv' /\ SwapInv' /\ SetupInv' /\ FlagMatchesClient' /\ NoOrphan'
  BY <1>2 DEF Watchdog, SilentReconnect, Submit, running
<1>3. ASSUME NEW w \in Workers, TryReconnect(w)
      PROVE LockInv' /\ SwapInv' /\ SetupInv' /\ FlagMatchesClient' /\ NoOrphan'
  <2>1. \E k \in {"idle", "force"} : job' = [job EXCEPT ![w] = k]
    BY <1>3 DEF TryReconnect, UsedUp
  <2>2. job[w] = "try" /\ UNCHANGED <<phase, client, connected, lock, zombie>>
    BY <1>3 DEF TryReconnect, UsedUp
  <2> QED
    BY <2>1, <2>2
<1>4. ASSUME NEW w \in Workers, ForceBegin(w)
      PROVE LockInv' /\ SwapInv' /\ SetupInv' /\ FlagMatchesClient' /\ NoOrphan'
  <2>1. CASE lock = Free
    <3>1. /\ job' = [job EXCEPT ![w] = "stop"] /\ lock' = w
          /\ UNCHANGED <<phase, client, connected, zombie>>
      BY <1>4, <2>1 DEF ForceBegin
    <3>2. \A v \in Workers : job[v] \notin Critical
      BY <2>1
    <3>3. LockInv' /\ SwapInv'
      BY <3>1, <3>2
    <3>4. phase # "setup"
      BY <1>4 DEF ForceBegin
    <3> QED
      BY <3>1, <3>3, <3>4
  <2>2. CASE lock # Free
    BY <1>4, <2>2 DEF ForceBegin
  <2> QED
    BY <2>1, <2>2
<1>5. ASSUME NEW w \in Workers, ForceStop(w)
      PROVE LockInv' /\ SwapInv' /\ SetupInv' /\ FlagMatchesClient' /\ NoOrphan'
  BY <1>5 DEF ForceStop, NoClient
<1>6. ASSUME NEW w \in Workers, ForceCreate(w)
      PROVE LockInv' /\ SwapInv' /\ SetupInv' /\ FlagMatchesClient' /\ NoOrphan'
  BY <1>6 DEF ForceCreate
<1>7. ASSUME NEW w \in Workers, ForceDial(w)
      PROVE LockInv' /\ SwapInv' /\ SetupInv' /\ FlagMatchesClient' /\ NoOrphan'
  BY <1>7 DEF ForceDial
<1>8. CASE PahoConnects
  BY <1>8 DEF PahoConnects
<1>9. CASE SessionDrops
  BY <1>9 DEF SessionDrops
<1>10. CASE RefreshAnswered
  BY <1>10 DEF RefreshAnswered, Renewed, NoClient
<1>11. CASE AdoptBroker
  BY <1>11 DEF AdoptBroker, Submit
<1>12a. CASE CredentialsOld
  BY <1>12a DEF CredentialsOld, running
<1>12b. CASE Shutdown
  BY <1>12b DEF Shutdown, running
<1>13. CASE Disconnect
  BY <1>13 DEF Disconnect
<1>14. CASE NetDrops \/ NetReturns \/ CloudRenews
  BY <1>14 DEF NetDrops, NetReturns, CloudRenews
<1>15. CASE DelayPasses \/ ResetIntervalPasses
  BY <1>15 DEF DelayPasses, ResetIntervalPasses
<1>16. CASE UNCHANGED vars
  BY <1>16 DEF vars
<1> QED
  BY <1>1, <1>2, <1>3, <1>4, <1>5, <1>6, <1>7, <1>8, <1>9, <1>10, <1>11, <1>12a, <1>12b,
     <1>13, <1>14, <1>15, <1>16 DEF Next, WorkerStep

\* The inductive invariant of the client swap holds in every behaviour.
THEOREM LinkInvariant == Spec => []LinkInv
<1>1. Init => LinkInv
  BY LinkInit
<1>2. LinkInv /\ [Next]_vars => LinkInv'
  BY LinkNext
<1> QED
  BY <1>1, <1>2, PTL DEF Spec

\* Type correctness: in particular the attempt counter never passes the cycle's
\* limit (_should_attempt_reconnect) and an adopted address is one the cloud named.
THEOREM LinkTypeCorrect == Spec => []TypeOK
<1>1. LinkInv => TypeOK
  BY DEF LinkInv
<1> QED
  BY <1>1, LinkInvariant, PTL

\* However many workers reconnect at once, no live Paho client is orphaned
\* (force_reconnect's non-blocking lock).
THEOREM NoClientOrphaned == Spec => []NoOrphan
<1>1. LinkInv => NoOrphan
  BY DEF LinkInv
<1> QED
  BY <1>1, LinkInvariant, PTL

\* The connected flag is never left over from a client that was swapped away.
THEOREM FlagIsTheClients == Spec => []FlagMatchesClient
<1>1. LinkInv => FlagMatchesClient
  BY DEF LinkInv
<1> QED
  BY <1>1, LinkInvariant, PTL

-----------------------------------------------------------------------------
(* SignIn.  While a sign-in goes from host to host, either all of them answer  *)
(* or none: an answer therefore means that none is down, and a host that knows *)
(* the account has judged what it was asked by the time it has been passed.    *)

Moods == {"up", "erring", "down"}
Request == [at : {"idle", "login", "certificate", "granted", "refused", "silent"}, host : Account!Served,
            answered : BOOLEAN, judged : BOOLEAN, reply : Nat]

SignInTypes ==
    /\ accepts \subseteq Account!Served /\ accepts # {}
    /\ mood \in [Account!Served -> Moods]
    /\ issued \in Nat /\ cached \in Nat
    /\ signing \in [Account!Reasons -> Request]

NoneDown == \A h \in Account!Served : mood[h] # "down"

RequestInv(why) ==
    LET task == signing[why]
    IN  /\ task.at = "login" =>
              /\ ~keys /\ (task.answered => NoneDown)
              /\ NoneDown => \A h \in accepts : h < task.host => task.judged
        /\ task.at = "certificate" => task.host \in accepts
        /\ task.at = "refused" => task.judged

SignInInv ==
    /\ SignInTypes
    /\ keys => 1 \in accepts
    /\ NoneDown \/ \A h \in Account!Served : mood[h] = "down"
    /\ \A why \in Account!Reasons : RequestInv(why)
    /\ signing["refresh"].at # "idle" => NoneDown /\ signing["refresh"].at # "silent"
    /\ asked => judged


LEMMA RequestParts ==
  ASSUME SignInInv, NEW why \in Account!Reasons
  PROVE  /\ signing[why] \in Request /\ signing[why].host \in Account!Served
         /\ signing[why].answered \in BOOLEAN /\ signing[why].judged \in BOOLEAN /\ signing[why].reply \in Nat
<1>1. signing[why] \in Request
  BY DEF SignInInv, SignInTypes
<1> QED
  BY <1>1, Zenon DEF Request

\* One request moves on and the hosts stay as they are.
LEMMA RequestMoves ==
  ASSUME SignInInv, NEW why \in Account!Reasons, NEW new \in Request,
         signing' = [signing EXCEPT ![why] = new], UNCHANGED <<keys, accepts, mood>>,
         issued' \in Nat, cached' \in Nat, asked' => judged',
         new.at = "login" => /\ ~keys /\ (new.answered => NoneDown)
                             /\ NoneDown => \A h \in accepts : h < new.host => new.judged,
         new.at = "certificate" => new.host \in accepts,
         new.at = "refused" => new.judged,
         why = "refresh" /\ new.at # "idle" => NoneDown /\ new.at # "silent"
  PROVE  SignInInv'
<1>1. /\ signing' \in [Account!Reasons -> Request] /\ signing'[why] = new
      /\ \A y \in Account!Reasons : y # why => signing'[y] = signing[y]
  BY DEF SignInInv, SignInTypes
<1>2. SignInTypes'
  BY <1>1 DEF SignInInv, SignInTypes
<1>3. NoneDown' <=> NoneDown
  BY DEF NoneDown
<1>4. ASSUME NEW y \in Account!Reasons PROVE RequestInv(y)'
  <2>1. CASE y = why
    BY <1>1, <1>3, <2>1 DEF RequestInv
  <2>2. CASE y # why
    <3>1. signing'[y] = signing[y] /\ RequestInv(y)
      BY <1>1, <2>2 DEF SignInInv
    <3> QED
      BY <1>3, <3>1 DEF RequestInv
  <2> QED
    BY <2>1, <2>2
<1>5. signing'["refresh"].at # "idle" => NoneDown /\ signing'["refresh"].at # "silent"
  <2>1. CASE why = "refresh"
    BY <1>1, <2>1
  <2>2. CASE why # "refresh"
    BY <1>1, <2>2 DEF SignInInv, Account!Reasons
  <2> QED
    BY <2>1, <2>2
<1> QED
  BY <1>2, <1>3, <1>4, <1>5 DEF SignInInv

LEMMA IdleRequest == Account!Idle \in Request /\ Account!Idle.at = "idle"
  BY HostsAssumption DEF Account!Idle, Request, Account!Served

LEMMA SignInStarts ==
  ASSUME NEW state, NEW certificate, Account!AccountOf(state, certificate) PROVE SignInInv
<1>1. /\ signing = [why \in Account!Reasons |-> Account!Idle] /\ ~asked /\ issued = 1 /\ cached = 0
      /\ mood \in {[h \in Account!Served |-> "up"], [h \in Account!Served |-> "down"]}
  BY DEF Account!AccountOf
<1>2. accepts \subseteq Account!Served /\ accepts # {} /\ (keys => 1 \in accepts)
  BY HostsAssumption DEF Account!AccountOf, Account!Served
<1>3. SignInTypes
  BY <1>1, <1>2, IdleRequest DEF SignInTypes, Moods
<1>4. NoneDown \/ \A h \in Account!Served : mood[h] = "down"
  BY <1>1 DEF NoneDown
<1>5. \A why \in Account!Reasons : signing[why].at = "idle"
  BY <1>1, IdleRequest
<1> QED
  BY <1>1, <1>2, <1>3, <1>4, <1>5 DEF SignInInv, RequestInv, Account!Reasons

\* A request begins where no host has spoken yet.
LEMMA BeginsHolds ==
  ASSUME SignInInv, NEW why \in Account!Reasons, Account!Begins(why), why = "refresh" => NoneDown
  PROVE  SignInInv'
<1> DEFINE new == [Account!Idle EXCEPT !.at = IF keys THEN "certificate" ELSE "login"]
<1>1. signing' = [signing EXCEPT ![why] = new] /\ UNCHANGED <<keys, accepts, mood, issued, cached, asked, judged>>
  BY DEF Account!Begins
<1>2. /\ new \in Request /\ new.host = 1 /\ ~new.answered
      /\ new.at = IF keys THEN "certificate" ELSE "login"
  <2> DEFINE place == IF keys THEN "certificate" ELSE "login"
  <2> PICK idle : idle = Account!Idle
    OBVIOUS
  <2>1. idle \in Request /\ idle.host = 1 /\ ~idle.answered
    BY IdleRequest DEF Account!Idle
  <2>2. place \in {"login", "certificate"}
    OBVIOUS
  <2> HIDE DEF place
  <2>3. /\ [idle EXCEPT !.at = place] \in Request /\ [idle EXCEPT !.at = place].host = 1
        /\ ~[idle EXCEPT !.at = place].answered /\ [idle EXCEPT !.at = place].at = place
    BY <2>1, <2>2 DEF Request
  <2> QED
    BY <2>3 DEF place
<1> HIDE DEF new
<1>3. accepts \subseteq Account!Served /\ issued \in Nat /\ cached \in Nat /\ (asked => judged) /\ (keys => 1 \in accepts)
  BY DEF SignInInv, SignInTypes
<1>4. \A h \in accepts : ~(h < 1)
  BY <1>3, HostsAssumption DEF Account!Served
<1> QED
  BY <1>1, <1>2, <1>3, <1>4, RequestMoves

\* A host answers a sign-in, or does not; when none has granted it, the last one ends it.
LEMMA LoginHolds ==
  ASSUME SignInInv, NEW why \in Account!Reasons, Account!Login(why) PROVE SignInInv'
<1> PICK task : task = signing[why]
  OBVIOUS
<1> PICK h : h = task.host
  OBVIOUS
<1> DEFINE heard == [task EXCEPT !.answered = @ \/ Account!Answer(h) # "silent",
                                 !.judged = @ \/ Account!Judges(h)]
<1>1. /\ task.at = "login" /\ UNCHANGED <<keys, accepts, mood, issued, cached>>
      /\ Account!Answer(h) = "granted" =>
            /\ signing' = [signing EXCEPT ![why] = [heard EXCEPT !.at = "certificate"]]
            /\ UNCHANGED <<asked, judged>>
      /\ Account!Answer(h) # "granted" /\ h < Hosts =>
            /\ signing' = [signing EXCEPT ![why] = [heard EXCEPT !.host = h + 1]]
            /\ UNCHANGED <<asked, judged>>
      /\ Account!Answer(h) # "granted" /\ ~(h < Hosts) =>
            /\ signing' = [signing EXCEPT ![why] = Account!Idle]
            /\ Account!Fails(why, ~heard.answered, heard.judged)
  BY Zenon DEF Account!Login
<1>2. /\ task \in Request /\ h \in 1..Hosts /\ task.answered \in BOOLEAN /\ task.judged \in BOOLEAN
      /\ accepts \subseteq 1..Hosts /\ accepts # {} /\ Hosts \in Nat
      /\ issued \in Nat /\ cached \in Nat /\ (asked => judged)
  BY RequestParts, HostsAssumption DEF SignInInv, SignInTypes, Account!Served
<1>3. /\ ~keys /\ (task.answered => NoneDown)
      /\ NoneDown => \A g \in accepts : g < h => task.judged
      /\ NoneDown \/ \A g \in Account!Served : mood[g] = "down"
      /\ why = "refresh" => NoneDown
  BY <1>1 DEF SignInInv, RequestInv
<1>4. /\ heard \in Request /\ heard.host = h
      /\ heard.answered <=> task.answered \/ Account!Answer(h) # "silent"
      /\ heard.judged <=> task.judged \/ Account!Judges(h)
  BY <1>2 DEF Request
<1>5. heard.answered => NoneDown
  BY <1>2, <1>3, <1>4 DEF Account!Answer, Account!Served
<1>6. NoneDown => \A g \in accepts : g <= h => heard.judged
  <2>1. NoneDown /\ h \in accepts => Account!Judges(h)
    BY <1>2 DEF NoneDown, Account!Judges, Account!Served
  <2> QED
    BY <1>2, <1>3, <1>4, <2>1
<1>7. CASE Account!Answer(h) = "granted"
  <2>1. h \in accepts
    BY <1>7 DEF Account!Answer
  <2> DEFINE new == [heard EXCEPT !.at = "certificate"]
  <2>2. new \in Request /\ new.at = "certificate" /\ new.host = h
    BY <1>4 DEF Request
  <2> HIDE DEF new, heard
  <2>3. signing' = [signing EXCEPT ![why] = new]
    BY <1>1, <1>7 DEF new
  <2> QED
    <3>1. asked' => judged'
      BY <1>1, <1>2, <1>7, Zenon
    <3>2. issued' \in Nat /\ cached' \in Nat
      BY <1>1, <1>2
    <3> QED
      BY <1>1, <1>3, <2>1, <2>2, <2>3, <3>1, <3>2, RequestMoves
<1>8. CASE Account!Answer(h) # "granted" /\ h < Hosts
  <2> DEFINE new == [heard EXCEPT !.host = h + 1]
  <2>1. /\ new \in Request /\ new.host = h + 1 /\ new.at = "login"
        /\ new.answered = heard.answered
        /\ new.judged = heard.judged
    <3>1. heard.at = "login" /\ h + 1 \in 1..Hosts
      BY <1>1, <1>2, <1>8
    <3> HIDE DEF heard
    <3> QED
      BY <1>4, <3>1 DEF Request, Account!Served
  <2> HIDE DEF new, heard
  <2>2. signing' = [signing EXCEPT ![why] = new]
    BY <1>1, <1>8 DEF new
  <2>3. NoneDown => \A g \in accepts : g < new.host => new.judged
    BY <1>2, <1>6, <2>1
  <2> QED
    <3>1. asked' => judged'
      BY <1>1, <1>2, <1>8, Zenon
    <3>2. issued' \in Nat /\ cached' \in Nat /\ (new.answered => NoneDown)
      BY <1>1, <1>2, <1>5, <2>1
    <3> QED
      BY <1>1, <1>3, <2>1, <2>2, <2>3, <3>1, <3>2, RequestMoves
<1>9. CASE Account!Answer(h) # "granted" /\ ~(h < Hosts)
  <2> HIDE DEF heard
  <2>1. signing' = [signing EXCEPT ![why] = Account!Idle] /\ Account!Fails(why, ~heard.answered, heard.judged)
    BY <1>1, <1>9
  <2>2. NoneDown => heard.judged
    <3>1. \A g \in accepts : g <= h
      BY <1>2, <1>9
    <3>2. \E g \in accepts : TRUE
      BY <1>2
    <3> QED
      BY <1>6, <3>1, <3>2
  <2>3. asked' => judged'
    <3>1. CASE why = "setup"
      BY <1>2, <1>5, <2>1, <2>2, <3>1 DEF Account!Fails
    <3>2. CASE why = "refresh"
      BY <1>3, <2>1, <2>2, <3>2 DEF Account!Fails
    <3>3. CASE why = "rotation"
      BY <1>2, <2>1, <3>3 DEF Account!Fails
    <3> QED
      BY <3>1, <3>2, <3>3 DEF Account!Reasons
  <2> QED
    BY <1>1, <1>2, <2>1, <2>3, IdleRequest, RequestMoves
<1> QED
  BY <1>7, <1>8, <1>9

\* The host that granted the sign-in knows the account, so its refusal is a judgement.
LEMMA RequestHolds ==
  ASSUME SignInInv, NEW why \in Account!Reasons, Account!Request(why) PROVE SignInInv'
<1> PICK task : task = signing[why]
  OBVIOUS
<1> PICK h : h = task.host
  OBVIOUS
<1> DEFINE fromCache == [task EXCEPT !.at = "granted", !.reply = cached]
           answer == [task EXCEPT !.at = Account!Answer(h), !.judged = Account!Judges(h),
                                  !.reply = IF Account!Answer(h) = "granted" THEN issued ELSE 0]
<1>1. /\ task.at = "certificate" /\ UNCHANGED <<keys, accepts, mood, issued, cached, asked, judged>>
      /\ signing' = [signing EXCEPT ![why] = IF Account!FromCache(why) THEN fromCache ELSE answer]
  BY Zenon DEF Account!Request, Account!CertificateHost
<1>2. /\ task \in Request /\ h \in Account!Served /\ h \in accepts
      /\ issued \in Nat /\ cached \in Nat /\ (asked => judged)
      /\ why = "refresh" => NoneDown
  BY <1>1, RequestParts DEF SignInInv, SignInTypes, RequestInv
<1>3. /\ Account!Answer(h) \in {"granted", "refused", "silent"}
      /\ Account!Answer(h) = "refused" => Account!Judges(h)
      /\ NoneDown => Account!Answer(h) # "silent"
  BY <1>2 DEF Account!Answer, Account!Judges, NoneDown
<1>4. fromCache \in Request /\ fromCache.at = "granted"
  BY <1>2 DEF Request
<1>5. /\ answer \in Request /\ answer.at = Account!Answer(h) /\ (answer.judged <=> Account!Judges(h))
  <2>1. Account!Judges(h) \in BOOLEAN
    BY DEF Account!Judges
  <2> QED
    BY <1>2, <1>3, <2>1 DEF Request
<1> HIDE DEF fromCache, answer
<1>6. CASE Account!FromCache(why)
  BY <1>1, <1>2, <1>4, <1>6, RequestMoves
<1>7. CASE ~Account!FromCache(why)
  BY <1>1, <1>2, <1>3, <1>5, <1>7, RequestMoves
<1> QED
  BY <1>6, <1>7

LEMMA ReplyHolds ==
  ASSUME SignInInv, NEW why \in Account!Reasons, Account!Reply(why) PROVE SignInInv'
<1> PICK task : task = signing[why]
  OBVIOUS
<1>1. /\ task.at \in {"granted", "refused", "silent"} /\ signing' = [signing EXCEPT ![why] = Account!Idle]
      /\ task.at = "granted" => UNCHANGED <<asked, judged>> /\ cached' = IF keys THEN task.reply ELSE cached
      /\ task.at # "granted" => Account!Fails(why, task.at = "silent", task.judged) /\ UNCHANGED cached
      /\ UNCHANGED <<keys, accepts, mood, issued>>
  BY Zenon DEF Account!Reply, Account!Certified
<1>2. /\ task.reply \in Nat /\ issued \in Nat /\ cached \in Nat /\ (asked => judged)
      /\ task.at = "refused" => task.judged
      /\ why = "refresh" => task.at # "silent"
  BY <1>1, RequestParts DEF SignInInv, SignInTypes, RequestInv
<1>3. asked' => judged'
  <2>1. CASE task.at = "granted"
    BY <1>1, <1>2, <2>1
  <2>2. CASE task.at = "refused"
    <3>1. Account!Fails(why, task.at = "silent", task.judged) /\ task.judged
      BY <1>1, <1>2, <2>2
    <3> QED
      BY <1>2, <3>1 DEF Account!Fails
  <2>3. CASE task.at = "silent"
    <3>1. Account!Fails(why, TRUE, task.judged) /\ why # "refresh"
      BY <1>1, <1>2, <2>3
    <3> QED
      BY <1>2, <3>1 DEF Account!Fails
  <2> QED
    BY <1>1, <2>1, <2>2, <2>3
<1> QED
  BY <1>1, <1>2, <1>3, IdleRequest, RequestMoves

LEMMA RateLimitedHolds == ASSUME SignInInv, Account!RateLimited PROVE SignInInv'
<1>1. /\ signing' = [signing EXCEPT !["setup"] = Account!Idle] /\ Account!Fails("setup", TRUE, FALSE)
      /\ UNCHANGED <<keys, accepts, mood, issued, cached>>
  BY DEF Account!RateLimited
<1>2. issued \in Nat /\ cached \in Nat /\ (asked => judged)
  BY DEF SignInInv, SignInTypes
<1>3. asked' => judged'
  BY <1>1, <1>2 DEF Account!Fails
<1> QED
  BY <1>1, <1>2, <1>3, IdleRequest, RequestMoves DEF Account!Reasons

\* The hosts change their answers while no sign-in is on its round.
LEMMA HostsChange ==
  ASSUME SignInInv, mood' \in [Account!Served -> Moods],
         UNCHANGED <<keys, accepts, issued, signing, cached, asked, judged>>,
         NoneDown' \/ (~Account!SigningIn /\ \A h \in Account!Served : mood'[h] = "down"),
         NoneDown' \/ signing["refresh"].at = "idle",
         ~Account!SigningIn
  PROVE  SignInInv'
<1>1. ASSUME NEW why \in Account!Reasons PROVE RequestInv(why)'
  <2>1. signing[why].at # "login"
    BY DEF Account!SigningIn
  <2>2. RequestInv(why)
    BY DEF SignInInv
  <2> QED
    BY <2>1, <2>2 DEF RequestInv
<1> QED
  BY <1>1 DEF SignInInv, SignInTypes

LEMMA CloudChangesHolds == ASSUME OneVoice, Reachable, SignInInv, Account!CloudChanges PROVE SignInInv'
<1>1. /\ mood' \in [Account!Served -> Moods] /\ ~Account!SigningIn
      /\ \A g, h \in Account!Served : mood'[g] = "down" <=> mood'[h] = "down"
      /\ signing["refresh"].at # "idle" => ~Account!Down(mood')
      /\ UNCHANGED <<keys, accepts, issued, signing, cached, asked, judged>>
  BY DEF Account!CloudChanges, Moods
<1>2. NoneDown' \/ \A h \in Account!Served : mood'[h] = "down"
  BY <1>1 DEF NoneDown
<1>3. NoneDown' \/ signing["refresh"].at = "idle"
  BY <1>1 DEF NoneDown, Account!Down
<1> QED
  BY <1>1, <1>2, <1>3, HostsChange

LEMMA CloudRecoversHolds == ASSUME OneVoice, SignInInv, Account!CloudRecovers PROVE SignInInv'
<1>1. /\ mood' = [h \in Account!Served |-> "up"] /\ ~Account!SigningIn
      /\ UNCHANGED <<keys, accepts, issued, signing, cached, asked, judged>>
  BY DEF Account!CloudRecovers
<1>2. mood' \in [Account!Served -> Moods] /\ NoneDown'
  BY <1>1 DEF NoneDown, Moods
<1> QED
  BY <1>1, <1>2, HostsChange

LEMMA SignsInAgainHolds == ASSUME SignInInv, Account!SignsInAgain PROVE SignInInv'
<1>1. /\ signing' = [why \in Account!Reasons |-> Account!Idle] /\ ~asked' /\ cached' = 0
      /\ UNCHANGED <<keys, accepts, mood, issued>>
  BY DEF Account!SignsInAgain
<1>2. \A why \in Account!Reasons : signing'[why] = Account!Idle
  BY <1>1
<1> QED
  BY <1>1, <1>2, IdleRequest DEF SignInInv, SignInTypes, RequestInv, NoneDown, Account!Reasons

LEMMA SignInStepHolds == ASSUME OneVoice, Reachable, SignInInv, Account!SignInNext PROVE SignInInv'
<1>1. CASE Account!SetupBegins
  BY <1>1, BeginsHolds DEF Account!SetupBegins, Account!Reasons
<1>2. CASE Account!RefreshBegins
  <2>1. NoneDown /\ Account!Begins("refresh")
    BY <1>2 DEF Account!RefreshBegins, Account!Down, NoneDown
  <2> QED
    BY <2>1, BeginsHolds DEF Account!Reasons
<1>3. CASE Account!RotationBegins
  BY <1>3, BeginsHolds DEF Account!RotationBegins, Account!Reasons
<1>4. CASE Account!SecretChanges
  BY <1>4 DEF Account!SecretChanges, SignInInv, SignInTypes, RequestInv, NoneDown
<1>5. CASE Account!CloudRenews
  BY <1>5 DEF Account!CloudRenews, SignInInv, SignInTypes, RequestInv, NoneDown
<1>6. ASSUME NEW why \in Account!Reasons, Account!Signs(why) PROVE SignInInv'
  BY <1>6, LoginHolds, RequestHolds, ReplyHolds DEF Account!Signs
<1> QED
  BY <1>1, <1>2, <1>3, <1>4, <1>5, <1>6, RateLimitedHolds, SignsInAgainHolds, CloudChangesHolds,
     CloudRecoversHolds DEF Account!SignInNext

-----------------------------------------------------------------------------
(* Both, on the way to the cloud that the run checks.                          *)

\* No Paho client is left behind with its thread running, beside any sign-in
\* (force_reconnect, _client_lock).
THEOREM CloudLeavesNoOrphan == CloudSpec => []NoOrphan
<1>1. CloudInit => LinkInv
  BY LinkInit DEF CloudInit
<1>2. LinkInv /\ [LinkStep \/ AccountStep]_cloudVars => LinkInv'
  <2>1. [LinkStep \/ AccountStep]_cloudVars => [Next]_vars
    BY DEF LinkStep, AccountStep, OfLink, OfAccount, cloudVars
  <2> QED
    BY <2>1, LinkNext
<1>3. LinkInv => NoOrphan
  BY DEF LinkInv
<1> QED
  BY <1>1, <1>2, <1>3, PTL DEF CloudSpec

\* Nobody is asked to sign in again whose password no host has judged, however setups,
\* refreshes and rotations overlap and whatever the hosts do between sign-ins
\* (enhanced_login, EnhancedAuthUnreachable, _on_mqtt_auth_error).
THEOREM NobodyAskedUnjudged == ASSUME OneVoice, Reachable PROVE CloudSpec => []AskedRightly
<1>1. CloudInit => SignInInv
  BY SignInStarts DEF CloudInit, Account!SignInInit, Account!Settled
<1>2. SignInInv /\ [LinkStep \/ AccountStep]_cloudVars => SignInInv'
  <2>1. CASE UNCHANGED accountVars
    BY <2>1 DEF accountVars, SignInInv, SignInTypes, RequestInv, NoneDown
  <2>2. [LinkStep \/ AccountStep]_cloudVars => UNCHANGED accountVars \/ Account!SignInNext
    BY DEF LinkStep, AccountStep, OfLink, OfAccount, cloudVars
  <2> QED
    BY <2>1, <2>2, SignInStepHolds
<1>3. SignInInv => AskedRightly
  BY DEF SignInInv, AskedRightly, Account!AskedRightly
<1> QED
  BY <1>1, <1>2, <1>3, PTL DEF CloudSpec
=============================================================================
