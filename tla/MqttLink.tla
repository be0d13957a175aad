------------------------------ MODULE MqttLink ------------------------------
(* One device's MQTT connection: the wrapper around the Paho client            *)
(* (ecoflow/cloud_mqtt.py), the watchdog that reconnects it                    *)
(* (coordinator/availability.py), the credential refresh                       *)
(* (coordinator/credentials.py) and setup and teardown (coordinator/setup.py). *)
(* Three kinds of thread meet here: the event loop, the executor workers that  *)
(* run the blocking calls, and Paho's network thread.                          *)
(*                                                                             *)
(* Credentials and broker addresses are numbered: the cloud accepts only the   *)
(* newest credential, and only at the newest address.                          *)
EXTENDS Integers

CONSTANTS
    AppAuth,        \* TRUE: account sign-in (WSS); FALSE: developer keys (TCP)
    Workers,        \* executor threads that run reconnect jobs
    MaxAttempts,    \* max_reconnect_attempts of a cycle
    MaxNetDrops,    \* bound on the outages of a behaviour
    MaxRotations,   \* bound on the times the cloud renews the credential
    BrokerMoves,    \* whether a renewed credential may name another broker
    MayShutDown     \* whether the entry may be unloaded

Free == "free"          \* nobody holds the lock

ASSUME LinkAssumption ==
    /\ Free \notin Workers
    /\ AppAuth \in BOOLEAN /\ MayShutDown \in BOOLEAN /\ BrokerMoves \in BOOLEAN
    /\ MaxAttempts \in Nat \ {0} /\ MaxNetDrops \in Nat /\ MaxRotations \in Nat

VARIABLES
    phase,       \* "setup", "running", "draining", "stopped"
    client,      \* self.client: NoClient or what the Paho object holds
    connected,   \* self.connected
    cred, host,  \* _cert_account/_cert_password, _broker
    attempts,    \* reconnect_attempts
    delayOver,   \* the backoff since last_reconnect_time has elapsed
    resetDue,    \* _counter_reset_interval has passed since the last reset
    lock,        \* holder of _client_lock, or Free
    job,         \* what each worker is doing
    refresh,     \* the credential refresh task
    zombie,      \* history: a Paho client was dropped with its thread running
    netUp,       \* the broker can be reached
    validCred, validHost,
    drops        \* outages so far

vars == <<phase, client, connected, cred, host, attempts, delayOver, resetDue,
          lock, job, refresh, zombie, netUp, validCred, validHost, drops>>
worldVars == <<netUp, validCred, validHost, drops>>
timeVars == <<attempts, delayOver, resetDue>>

NoClient == [cred |-> -1, host |-> -1, loop |-> FALSE, up |-> FALSE]
Jobs == {"idle", "try", "force", "stop", "create", "dial"}
running == phase = "running"
Accepted(c) == c.cred = validCred /\ c.host = validHost

\* is_connected()
IsConnected == connected /\ client.up

Init ==
    /\ phase = "setup"
    /\ client = NoClient /\ connected = FALSE
    /\ cred = 0 /\ host = 0
    /\ attempts = 0 /\ delayOver = TRUE /\ resetDue = TRUE
    /\ lock = Free /\ job = [w \in Workers |-> "idle"]
    /\ refresh = "idle" /\ zombie = FALSE
    /\ netUp \in BOOLEAN /\ validCred = 0 /\ validHost = 0 /\ drops = 0

-----------------------------------------------------------------------------
(* Setup: _start_mqtt creates the client and connects.  The network loop, and  *)
(* with it Paho's own retry, is started only when that first connect succeeds. *)
StartMqtt ==
    /\ phase = "setup"
    /\ phase' = "running"
    /\ client' = [cred |-> cred, host |-> host, loop |-> netUp, up |-> FALSE]
    /\ UNCHANGED <<connected, cred, host, timeVars, lock, job, refresh, zombie,
                   worldVars>>

(* The event loop hands a blocking call to an idle worker.                     *)
Submit(w, kind) ==
    /\ job[w] = "idle"
    /\ job' = [job EXCEPT ![w] = kind]

\* _check_stale, end: tier 2+3.  Only app-auth setup schedules this timer.
Watchdog(w) ==
    /\ AppAuth /\ running
    /\ ~IsConnected
    /\ Submit(w, "try")
    /\ UNCHANGED <<phase, client, connected, cred, host, timeVars, lock, refresh,
                   zombie, worldVars>>

\* _check_stale: connected but silent, and the cheap remedy did not help.
SilentReconnect(w) ==
    /\ AppAuth /\ running
    /\ IsConnected
    /\ Submit(w, "force")
    /\ UNCHANGED <<phase, client, connected, cred, host, timeVars, lock, refresh,
                   zombie, worldVars>>

-----------------------------------------------------------------------------
(* Executor workers.                                                           *)

UsedUp == attempts >= MaxAttempts

\* try_reconnect and _should_attempt_reconnect: skipped when connected or inside
\* the backoff; a used-up cycle of attempts reopens after the reset interval.
TryReconnect(w) ==
    /\ job[w] = "try"
    /\ LET counted == IF UsedUp /\ resetDue THEN 0 ELSE attempts
           refused == IsConnected \/ (UsedUp /\ ~resetDue)
       IN  /\ resetDue' = (resetDue /\ (IsConnected \/ ~UsedUp))
           /\ IF refused \/ ~delayOver
                THEN /\ job' = [job EXCEPT ![w] = "idle"]
                     /\ attempts' = IF refused THEN attempts ELSE counted
                     /\ UNCHANGED delayOver
                ELSE /\ job' = [job EXCEPT ![w] = "force"]
                     /\ attempts' = counted + 1
                     /\ delayOver' = FALSE
    /\ UNCHANGED <<phase, client, connected, cred, host, lock, refresh, zombie,
                   worldVars>>

\* force_reconnect: skip while another one holds the lock.
ForceBeginBlind(w) ==                   \* (faulty: goes on without the lock)
    /\ job[w] = "force"
    /\ job' = [job EXCEPT ![w] = "stop"]
    /\ lock' = w
    /\ UNCHANGED <<phase, client, connected, cred, host, timeVars, refresh, zombie,
                   worldVars>>
ForceBegin(w) ==
    /\ job[w] = "force"
    /\ job' = [job EXCEPT ![w] = IF lock = Free THEN "stop" ELSE "idle"]
    /\ lock' = IF lock = Free THEN w ELSE lock
    /\ UNCHANGED <<phase, client, connected, cred, host, timeVars, refresh, zombie,
                   worldVars>>

\* loop_stop joins the network thread; then the object is let go.
ForceStop(w) ==
    /\ job[w] = "stop"
    /\ client' = NoClient
    /\ connected' = FALSE
    /\ job' = [job EXCEPT ![w] = "create"]
    /\ UNCHANGED <<phase, cred, host, timeVars, lock, refresh, zombie, worldVars>>

\* _create_client_unlocked: a fresh Paho object with the stored credentials.
ForceCreate(w) ==
    /\ job[w] = "create"
    /\ zombie' = (zombie \/ client.loop)
    /\ client' = [cred |-> cred, host |-> -1, loop |-> FALSE, up |-> FALSE]
    /\ job' = [job EXCEPT ![w] = "dial"]
    /\ UNCHANGED <<phase, connected, cred, host, timeVars, lock, refresh, worldVars>>

\* client.connect to the stored broker, loop_start when the socket opened.
ForceDialLockKept(w) ==                 \* (faulty: a failed dial keeps the lock)
    /\ job[w] = "dial"
    /\ client' = [client EXCEPT !.host = host, !.loop = netUp]
    /\ lock' = IF netUp THEN Free ELSE lock
    /\ job' = [job EXCEPT ![w] = "idle"]
    /\ UNCHANGED <<phase, connected, cred, host, timeVars, refresh, zombie, worldVars>>
ForceDial(w) ==
    /\ job[w] = "dial"
    /\ client' = [client EXCEPT !.host = host, !.loop = netUp]
    /\ lock' = Free
    /\ job' = [job EXCEPT ![w] = "idle"]
    /\ UNCHANGED <<phase, connected, cred, host, timeVars, refresh, zombie, worldVars>>

WorkerStep(w) ==
    TryReconnect(w) \/ ForceBegin(w) \/ ForceStop(w) \/ ForceCreate(w) \/ ForceDial(w)

-----------------------------------------------------------------------------
(* Paho's network thread: connects, and retries by itself, with what the       *)
(* object holds; _on_connect.                                                  *)
PahoConnects ==
    /\ client.loop /\ ~client.up
    /\ netUp
    /\ IF Accepted(client)
         THEN /\ client' = [client EXCEPT !.up = TRUE]
              /\ connected' = TRUE
              /\ attempts' = 0
              /\ UNCHANGED refresh
         ELSE /\ connected' = FALSE
              /\ refresh' = IF refresh = "idle" /\ phase # "stopped" THEN "asked" ELSE refresh
              /\ UNCHANGED <<client, attempts>>
    /\ UNCHANGED <<phase, cred, host, delayOver, resetDue, lock, job, zombie, worldVars>>

\* _on_disconnect, after an outage or because the broker ended the session.
SessionDrops ==
    /\ client.up
    /\ ~netUp \/ ~Accepted(client)
    /\ client' = [client EXCEPT !.up = FALSE]
    /\ connected' = FALSE
    /\ UNCHANGED <<phase, cred, host, timeVars, lock, job, refresh, zombie, worldVars>>

-----------------------------------------------------------------------------
(* Credential refresh (event loop).  The cloud's answer names the newest pair; *)
(* the task stores the credentials, also on the live object, and then the      *)
(* address, which only the next connect of ours reads.                         *)

\* update_credentials: also the live object gets them, and retries with them.
Renewed(c) == IF c = NoClient THEN c ELSE [c EXCEPT !.cred = validCred]

RefreshAnswered ==
    /\ refresh \in {"asked", "proactive"}
    /\ phase # "stopped"
    /\ IF netUp
         THEN /\ cred' = validCred
              /\ client' = Renewed(client)
              /\ refresh' = IF refresh = "proactive" /\ (cred # validCred \/ host # validHost)
                              THEN "adoptAndForce" ELSE "adopt"
         ELSE refresh' = "idle" /\ UNCHANGED <<cred, client>>
    /\ UNCHANGED <<phase, connected, host, timeVars, lock, job, zombie, worldVars>>

AdoptBroker ==
    /\ refresh \in {"adopt", "adoptAndForce"}
    /\ host' = validHost
    /\ IF refresh = "adoptAndForce"
         THEN \E w \in Workers : Submit(w, "force")
         ELSE UNCHANGED job
    /\ refresh' = "idle"
    /\ UNCHANGED <<phase, client, connected, cred, timeVars, lock, zombie, worldVars>>

\* _check_credential_age finds old credentials; app-auth setup only.
CredentialsOld ==
    /\ AppAuth /\ running
    /\ refresh = "idle"
    /\ refresh' = "proactive"
    /\ UNCHANGED <<phase, client, connected, cred, host, timeVars, lock, job, zombie,
                   worldVars>>

-----------------------------------------------------------------------------
(* Teardown.                                                                   *)

Shutdown ==
    /\ MayShutDown /\ running
    /\ phase' = "draining"
    /\ UNCHANGED <<client, connected, cred, host, timeVars, lock, job, refresh, zombie,
                   worldVars>>

\* The cleanup task runs disconnect() on a worker, which waits for the lock,
\* and forgets the client; not in the middle of a refresh's two updates, which
\* are one piece of the event loop.
Disconnect ==
    /\ phase = "draining"
    /\ refresh \notin {"adopt", "adoptAndForce"}
    /\ lock = Free
    /\ phase' = "stopped"
    /\ client' = [client EXCEPT !.loop = FALSE, !.up = FALSE]
    /\ connected' = FALSE
    /\ UNCHANGED <<cred, host, timeVars, lock, job, refresh, zombie, worldVars>>

-----------------------------------------------------------------------------
(* The world: outages, renewals by the cloud, time.                            *)

NetDrops ==
    /\ netUp /\ drops < MaxNetDrops
    /\ netUp' = FALSE /\ drops' = drops + 1
    /\ UNCHANGED <<phase, client, connected, cred, host, timeVars, lock, job, refresh,
                   zombie, validCred, validHost>>

NetReturns ==
    /\ ~netUp
    /\ netUp' = TRUE
    /\ UNCHANGED <<phase, client, connected, cred, host, timeVars, lock, job, refresh,
                   zombie, validCred, validHost, drops>>

\* The account gets a new certificate, and with it possibly a new server.
CloudRenews ==
    /\ validCred < MaxRotations
    /\ validCred' = validCred + 1
    /\ validHost' \in {validHost} \cup (IF BrokerMoves THEN {validHost + 1} ELSE {})
    /\ UNCHANGED <<phase, client, connected, cred, host, timeVars, lock, job, refresh,
                   zombie, netUp, drops>>

DelayPasses ==
    /\ ~delayOver
    /\ delayOver' = TRUE
    /\ UNCHANGED <<phase, client, connected, cred, host, attempts, resetDue, lock, job,
                   refresh, zombie, worldVars>>

ResetIntervalPasses ==
    /\ ~resetDue
    /\ resetDue' = TRUE
    /\ UNCHANGED <<phase, client, connected, cred, host, attempts, delayOver, lock, job,
                   refresh, zombie, worldVars>>

Next ==
    \/ StartMqtt
    \/ \E w \in Workers : Watchdog(w) \/ SilentReconnect(w) \/ WorkerStep(w)
    \/ PahoConnects \/ SessionDrops
    \/ RefreshAnswered \/ AdoptBroker \/ CredentialsOld
    \/ Shutdown \/ Disconnect
    \/ NetDrops \/ NetReturns \/ CloudRenews
    \/ DelayPasses \/ ResetIntervalPasses

Spec == Init /\ [][Next]_vars

\* Timers fire, jobs and tasks run, outages end.  Strong fairness twice: Paho's
\* handshake is shorter than the backoff between two reconnects of ours, so
\* recreating the client cannot starve it for good; and a job the event loop
\* hands to the executor is queued, so it gets a worker in its turn.
Fairness ==
    /\ WF_vars(StartMqtt)
    /\ \A w \in Workers : WF_vars(WorkerStep(w))
    /\ WF_vars(\E w \in Workers : Watchdog(w))
    /\ SF_vars(PahoConnects) /\ WF_vars(SessionDrops)
    /\ WF_vars(RefreshAnswered) /\ SF_vars(AdoptBroker)
    /\ WF_vars(Disconnect)
    /\ WF_vars(NetReturns) /\ WF_vars(DelayPasses) /\ WF_vars(ResetIntervalPasses)

FairSpec == Spec /\ Fairness

-----------------------------------------------------------------------------
TypeOK ==
    /\ phase \in {"setup", "running", "draining", "stopped"}
    /\ client \in [cred : -1 .. MaxRotations, host : -1 .. MaxRotations,
                   loop : BOOLEAN, up : BOOLEAN]
    /\ connected \in BOOLEAN /\ delayOver \in BOOLEAN /\ resetDue \in BOOLEAN
    /\ zombie \in BOOLEAN /\ netUp \in BOOLEAN
    /\ cred \in 0 .. MaxRotations /\ host \in 0 .. MaxRotations
    /\ validCred \in 0 .. MaxRotations /\ validHost \in 0 .. validCred
    /\ attempts \in 0 .. MaxAttempts
    /\ lock \in Workers \cup {Free} /\ job \in [Workers -> Jobs]
    /\ refresh \in {"idle", "asked", "proactive", "adopt", "adoptAndForce"}
    /\ drops \in 0 .. MaxNetDrops

\* Overlapping reconnects never orphan "a live Paho client with a running
\* network thread" (force_reconnect, cloud_mqtt.py).
NoOrphan == ~zombie

\* The wrapper only says it is connected while the object it holds is: a swap
\* of the client never leaves the flag of the one before.
FlagMatchesClient == connected => client.up

\* The integration never gives up on the connection (README): however the
\* outages, refused credentials and moved brokers fall, as long as the entry is
\* loaded it is connected again.
NeverGivesUp == (phase # "stopped" /\ ~connected) ~> (connected \/ ~running)

\* A session that was up and is lost comes back: the network thread exists, so
\* what it retries with must become acceptable, which is what adopting renewed
\* credentials and broker addresses is for (_adopt_broker, update_broker).
LostSessionReturns ==
    (running /\ client.loop /\ ~client.up) ~> (connected \/ ~running)

\* An unloaded entry has no MQTT client left (_async_shutdown_cleanup: "Drain
\* in-flight writes, then stop MQTT").
StoppedMeansSilent == phase = "stopped" => ~client.loop
=============================================================================
