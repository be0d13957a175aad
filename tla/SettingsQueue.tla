---------------------------- MODULE SettingsQueue ----------------------------
(* The settings writes of a PowerPulse 2 wallbox                               *)
(* (coordinator/set_commands.py, coordinator/state_apply.py).  The wallbox      *)
(* takes its three settings switches as one byte, so a write of one bit is     *)
(* rebuilt from the latest settings report.  Writes queue behind each other:   *)
(* each is sent only after the one before has been confirmed by a report, has  *)
(* failed or has timed out, and only on a report recorded since that one left. *)
(* A charge action (start, stop) shares the pending slot and never queues.     *)
(*                                                                             *)
(* The event loop runs a call from one await to the next, so a pass through    *)
(* the locked section is one step unless it sends; the lock is held over the   *)
(* send, which waits for the broker.                                           *)
EXTENDS Integers, Sequences

CONSTANTS
    Calls,        \* the callers, each with one service call at a time
    Bits,         \* the switches of the settings byte
    Action,       \* the target of a charge action
    NoCall,
    MaxReports,   \* bound on the reports under way
    MaxWrites,    \* bound on the writes under way
    MayCancel,    \* a caller may be cancelled while it waits
    MayLose,      \* a write may be refused, not acknowledged, or lost
    Prompt        \* no report sent before a write was taken arrives after it left
                  \* (the case the code leaves open: ADR-009 addendum, point 4)

ASSUME QueueAssumption ==
    /\ Action \notin Bits /\ NoCall \notin Calls
    /\ MaxReports \in Nat /\ MaxWrites \in Nat
    /\ MayCancel \in BOOLEAN /\ MayLose \in BOOLEAN /\ Prompt \in BOOLEAN

VARIABLES
    call,        \* per call: where it is, what it wants, which of its waits are over
    tickets,     \* _settings_calls: the calls still entitled to send
    newest,      \* history: per switch, the caller of its newest call (_settings_write_seq)
    pending,     \* _pending_write: the call whose record it is, or NoCall
    resolved,    \* that record's future has its result
    sender,      \* the call that holds _pending_write_lock over its send
    report,      \* _settings_report: the byte of the latest report
    reportOld,   \* it is missing, or older than _settings_limits allows
    reportSince, \* _settings_report_seq > _settings_published_seq
    shutdown,    \* _shutdown
    box,         \* the wallbox's byte
    toBox,       \* bytes under way to it
    reports,     \* reports under way from it
    confirmed    \* history: per bit, what the last write of it confirmed, if it did

vars == <<call, tickets, newest, pending, resolved, sender, report, reportOld,
          reportSince, shutdown, box, toBox, reports, confirmed>>
boxVars == <<box, toBox, reports>>
reportVars == <<report, reportOld, reportSince>>

Bytes == [Bits -> BOOLEAN]
Targets == Bits \cup {Action}
\* What a write confirmed of a bit, as a set: nothing once the bit is unknown.
Unknown == {}

\* ready: about to (re)enter the locked section; queued, awaiting: asleep on the
\* wake event, behind another write or for a report.  A call that ends, confirmed,
\* dropped or with an error, leaves its caller idle.
Places == {"idle", "ready", "queued", "awaiting", "sending", "confirming"}
Asleep == {"queued", "awaiting"}
Outstanding == {"sending", "confirming"}

Idle == [at |-> "idle", target |-> Action, want |-> FALSE,
         queueOver |-> FALSE, freshOver |-> FALSE]
IsSetting(c) == call[c].target # Action
FreshByAge == ~reportOld                \* (faulty: our own writes since then are ignored)
Fresh == ~reportOld /\ reportSince

\* plan(): the byte is the latest report's with this call's bit changed.
Plan(c) == [report EXCEPT ![call[c].target] = call[c].want]

Init ==
    /\ call = [c \in Calls |-> Idle]
    /\ tickets = {} /\ newest = [b \in Bits |-> NoCall]
    /\ pending = NoCall /\ resolved = FALSE /\ sender = NoCall
    /\ box \in Bytes /\ report = box /\ reportOld = TRUE /\ reportSince = FALSE
    /\ shutdown = FALSE
    /\ toBox = <<>> /\ reports = <<>>
    /\ confirmed = [b \in Bits |-> Unknown]

NotifiedNobody(calls) == calls          \* (faulty)

\* _notify_settings_waiters: everyone asleep on the event looks again.
Notified(calls) ==
    [c \in Calls |-> IF calls[c].at \in Asleep THEN [calls[c] EXCEPT !.at = "ready"]
                     ELSE calls[c]]

\* _clear_pending_write: the record goes if it is still this call's.
Cleared(c) == IF pending = c THEN NoCall ELSE pending

\* A call ends: its record and its ticket go.  Only a settings write notifies.
Ends(c) ==
    /\ call' = LET gone == [call EXCEPT ![c] = Idle]
               IN  IF IsSetting(c) THEN Notified(gone) ELSE gone
    /\ tickets' = tickets \ {c}
    /\ pending' = Cleared(c)
    /\ resolved' = (pending # c /\ resolved)

-----------------------------------------------------------------------------
\* The calls a new one for this target replaces.
ReplacedNone(target) == {}              \* (faulty)
Replaced(target) == {d \in tickets : call[d].target = target}

\* A switch is turned, or charging started or stopped.  An older call for the
\* same target that still waits is dropped now.
Call(c, target, want) ==
    /\ call[c].at = "idle"
    /\ target = Action => ~want
    /\ LET older == Replaced(target)
           made == [call EXCEPT ![c].at = "ready", ![c].target = target, ![c].want = want]
       IN  IF target = Action
             THEN call' = made /\ UNCHANGED <<tickets, newest>>
             ELSE /\ call' = IF older = {} THEN made ELSE Notified(made)
                  /\ tickets' = (tickets \ older) \cup {c}
                  /\ newest' = [newest EXCEPT ![target] = c]
    /\ UNCHANGED <<pending, resolved, sender, reportVars, shutdown, boxVars, confirmed>>

\* The locked section up to its refusals.
Refuse(c) ==
    /\ call[c].at = "ready" /\ sender = NoCall
    /\ \/ shutdown /\ Ends(c)
       \/ /\ ~shutdown /\ IsSetting(c) /\ c \notin tickets
          /\ Ends(c)
       \/ /\ ~shutdown /\ (IsSetting(c) => c \in tickets)
          /\ pending # NoCall /\ (IsSetting(c) => ~IsSetting(pending) \/ call[c].queueOver)
          /\ Ends(c)
       \/ /\ ~shutdown /\ IsSetting(c) /\ c \in tickets
          /\ pending = NoCall /\ ~Fresh /\ call[c].freshOver
          /\ Ends(c)
       \/ /\ MayLose
          /\ ~shutdown /\ (IsSetting(c) => c \in tickets) /\ pending = NoCall
          /\ Ends(c)     \* no route, no connection, or not in that state
    /\ UNCHANGED <<newest, sender, reportVars, shutdown, boxVars, confirmed>>

\* Nothing can be sent yet: wait outside the lock.
Sleep(c) ==
    /\ call[c].at = "ready" /\ sender = NoCall
    /\ ~shutdown /\ IsSetting(c) /\ c \in tickets
    /\ \/ /\ pending # NoCall /\ IsSetting(pending) /\ ~call[c].queueOver
          /\ call' = [call EXCEPT ![c].at = "queued"]
       \/ /\ pending = NoCall /\ ~Fresh /\ ~call[c].freshOver
          /\ call' = [call EXCEPT ![c].at = "awaiting"]
    /\ UNCHANGED <<tickets, newest, pending, resolved, sender, reportVars, shutdown,
                   boxVars, confirmed>>

DeadlineRestarts(c) ==                  \* (faulty: the fresh wait starts over each time)
    /\ call[c].at \in Asleep
    /\ call' = [call EXCEPT ![c].at = "ready",
                            ![c].queueOver = @ \/ call[c].at = "queued"]
    /\ UNCHANGED <<tickets, newest, pending, resolved, sender, reportVars, shutdown,
                   boxVars, confirmed>>

\* The wait's timeout; the fresh wait is never longer than the queue's.
DeadlinePasses(c) ==
    /\ call[c].at \in Asleep
    /\ \E queue \in BOOLEAN :
          /\ call[c].at = "queued" => queue
          /\ call' = [call EXCEPT ![c].at = "ready", ![c].freshOver = TRUE,
                                  ![c].queueOver = @ \/ queue]
    /\ UNCHANGED <<tickets, newest, pending, resolved, sender, reportVars, shutdown,
                   boxVars, confirmed>>

\* The record and the mark on the report exist before the bytes leave.
Publish(c) ==
    /\ call[c].at = "ready" /\ sender = NoCall
    /\ ~shutdown /\ pending = NoCall
    /\ IsSetting(c) => c \in tickets /\ Fresh
    /\ call' = [call EXCEPT ![c].at = "sending"]
    /\ pending' = c /\ resolved' = FALSE
    /\ sender' = c
    /\ IF IsSetting(c)
         THEN /\ Len(toBox) < MaxWrites
              /\ Prompt => reports = <<>>
              /\ reportSince' = FALSE
              /\ toBox' = Append(toBox, Plan(c))
         ELSE UNCHANGED <<reportSince, toBox>>
    \* Until it is confirmed, what a write of a bit leaves behind is not known.
    /\ confirmed' = IF IsSetting(c) THEN [confirmed EXCEPT ![call[c].target] = Unknown]
                    ELSE confirmed
    /\ UNCHANGED <<tickets, newest, report, reportOld, shutdown, box, reports>>

\* The broker acknowledged the write, or did not (the bytes may arrive anyway).
Sent(c) ==
    /\ call[c].at = "sending"
    /\ sender' = NoCall
    /\ call' = [call EXCEPT ![c].at = "confirming"]
    /\ UNCHANGED <<tickets, newest, pending, resolved, reportVars, shutdown, boxVars,
                   confirmed>>

NotDelivered(c) ==
    /\ MayLose
    /\ call[c].at = "sending"
    /\ sender' = NoCall
    /\ Ends(c)
    /\ UNCHANGED <<newest, reportVars, shutdown, boxVars, confirmed>>

\* The confirmation wait ends: with the future's result, or with the window.
Confirmed(c) ==
    /\ call[c].at = "confirming" /\ pending = c /\ resolved
    /\ Ends(c)
    /\ confirmed' = IF IsSetting(c) THEN [confirmed EXCEPT ![call[c].target] = {call[c].want}]
                    ELSE confirmed
    /\ UNCHANGED <<newest, sender, reportVars, shutdown, boxVars>>

WindowOver(c) ==
    /\ call[c].at = "confirming"
    /\ ~(pending = c /\ resolved)
    /\ Ends(c)
    /\ UNCHANGED <<newest, sender, reportVars, shutdown, boxVars, confirmed>>

\* The caller is cancelled at one of its awaits.
Cancel(c) ==
    /\ MayCancel
    /\ call[c].at # "idle"
    /\ sender' = IF sender = c THEN NoCall ELSE sender
    /\ Ends(c)
    /\ UNCHANGED <<newest, reportVars, shutdown, boxVars, confirmed>>

\* async_shutdown: wake the waiters, cancel the record's future and drop it.
Shutdown ==
    /\ ~shutdown
    /\ shutdown' = TRUE
    /\ call' = Notified(call)
    /\ pending' = NoCall /\ resolved' = FALSE
    /\ UNCHANGED <<tickets, newest, sender, reportVars, boxVars, confirmed>>

-----------------------------------------------------------------------------
(* The frames of the wallbox.                                                  *)

\* The report shows what the pending settings write asked for.
ConfirmsAny(byte) == IsSetting(pending) \* (faulty: the first report will do)
Confirms(byte) ==
    IsSetting(pending) /\ byte[call[pending].target] = call[pending].want

\* _resolve_pending_write, then _record_settings_report, for a settings report.
ReportArrives ==
    /\ reports # <<>>
    /\ LET byte == Head(reports)
       IN  /\ report' = byte
           /\ resolved' = (resolved \/ (pending # NoCall /\ Confirms(byte)))
    /\ reportOld' = FALSE /\ reportSince' = TRUE
    /\ reports' = Tail(reports)
    /\ call' = Notified(call)
    /\ UNCHANGED <<tickets, newest, pending, sender, shutdown, box, toBox,
                   confirmed>>

\* A heartbeat shows the charging state a start or stop asked for.
HeartbeatConfirms ==
    /\ pending # NoCall /\ ~IsSetting(pending) /\ ~resolved
    /\ resolved' = TRUE
    /\ UNCHANGED <<call, tickets, newest, pending, sender, reportVars, shutdown, boxVars,
                   confirmed>>

ReportAges ==
    /\ ~reportOld
    /\ reportOld' = TRUE
    /\ UNCHANGED <<call, tickets, newest, pending, resolved, sender, report, reportSince,
                   shutdown, boxVars, confirmed>>

BoxTakes ==
    /\ toBox # <<>>
    /\ box' = Head(toBox) /\ toBox' = Tail(toBox)
    /\ UNCHANGED <<call, tickets, newest, pending, resolved, sender, reportVars, shutdown,
                   reports, confirmed>>

WriteLost ==
    /\ MayLose /\ toBox # <<>>
    /\ toBox' = Tail(toBox)
    /\ UNCHANGED <<call, tickets, newest, pending, resolved, sender, reportVars, shutdown,
                   box, reports, confirmed>>

BoxReports ==
    /\ Len(reports) < MaxReports
    /\ Prompt => toBox = <<>>
    /\ reports' = Append(reports, box)
    /\ UNCHANGED <<call, tickets, newest, pending, resolved, sender, reportVars, shutdown,
                   box, toBox, confirmed>>

Next ==
    \/ \E c \in Calls :
          \/ \E target \in Targets, want \in BOOLEAN : Call(c, target, want)
          \/ Refuse(c) \/ Sleep(c) \/ DeadlinePasses(c) \/ Publish(c)
          \/ Sent(c) \/ NotDelivered(c)
          \/ Confirmed(c) \/ WindowOver(c) \/ Cancel(c)
    \/ Shutdown
    \/ ReportArrives \/ HeartbeatConfirms \/ ReportAges
    \/ BoxTakes \/ WriteLost \/ BoxReports

Spec == Init /\ [][Next]_vars

\* A runnable task runs and gets the lock in its turn (asyncio.Lock is first come,
\* first served), a deadline is absolute and so passes however often the sleeper is
\* woken, the broker answers or times out, and what is under way arrives.
\* Nothing makes the wallbox report.
Fairness ==
    /\ \A c \in Calls :
          /\ SF_vars(Refuse(c) \/ Sleep(c) \/ Publish(c))
          /\ SF_vars(DeadlinePasses(c))
          /\ WF_vars(Sent(c)) /\ WF_vars(Confirmed(c) \/ WindowOver(c))
    /\ WF_vars(BoxTakes) /\ WF_vars(ReportArrives)

FairSpec == Spec /\ Fairness

-----------------------------------------------------------------------------
TypeOK ==
    /\ call \in [Calls -> [at : Places, target : Targets, want : BOOLEAN,
                           queueOver : BOOLEAN, freshOver : BOOLEAN]]
    /\ tickets \subseteq Calls /\ newest \in [Bits -> Calls \cup {NoCall}]
    /\ pending \in Calls \cup {NoCall} /\ sender \in Calls \cup {NoCall}
    /\ resolved \in BOOLEAN /\ reportOld \in BOOLEAN /\ reportSince \in BOOLEAN
    /\ shutdown \in BOOLEAN
    /\ box \in Bytes /\ report \in Bytes
    /\ toBox \in Seq(Bytes) /\ reports \in Seq(Bytes)
    /\ confirmed \in [Bits -> SUBSET BOOLEAN]

\* No wake-up is lost (_notify_settings_waiters: "a change between the check and
\* the wait is never lost"): whoever sleeps still has what it sleeps for.
SleepersHaveReason ==
    \A c \in Calls : call[c].at \in Asleep =>
        /\ ~shutdown /\ c \in tickets
        /\ call[c].at = "queued" => pending # NoCall /\ IsSetting(pending)
        /\ call[c].at = "awaiting" => ~Fresh

\* At most one write is out at a time, and it is the one the pending record
\* names: a confirmation is never credited to another call.
OneOutstanding ==
    \A c \in Calls : call[c].at \in Outstanding => shutdown \/ pending = c

\* The newest call for a target wins: none sends after a newer one was made.
NewestSends ==
    [][\A c \in Calls : Publish(c) /\ IsSetting(c) => newest[call[c].target] = c]_vars

\* A write of one switch, its byte rebuilt from a report, carries the other
\* switches as the wallbox has them or is about to (the write path counts only
\* a report that is younger than its own last write).
OthersUntouched ==
    [][\A c \in Calls : Publish(c) /\ IsSetting(c) =>
          LET held == IF toBox = <<>> THEN box ELSE toBox[Len(toBox)]
          IN  \A b \in Bits \ {call[c].target} : Plan(c)[b] = held[b]]_vars

\* A switch the user turned and saw confirmed is as confirmed, and stays so until
\* it is turned again: writes of other switches, lost, late or cancelled ones
\* included, leave it.
ConfirmedStays ==
    toBox = <<>> => \A b \in Bits : confirmed[b] \subseteq {box[b]}

\* Every call ends: behind other writes, without reports and over a shutdown.
CallsEnd == \A c \in Calls : call[c].at = "ready" ~> call[c].at = "idle"
=============================================================================
