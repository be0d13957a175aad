----------------------- MODULE ConfirmedWritesProofs -----------------------
(* Theorems about the writes that end only when a report shows them, for any   *)
(* number of calls, bits, rods and frames under way: a call that was confirmed *)
(* confirmed itself, a newer call is never overtaken by an older one, a write  *)
(* of one switch leaves the others, and what was confirmed stands.             *)
(*                                                                             *)
(* Two premises name what the code leaves to the devices: reports that are     *)
(* older than a write do not arrive after it (Prompt, PromptFrames), and a     *)
(* write whose call gave up is not taken much later (~LateWrites).             *)
EXTENDS ConfirmedWrites, SequenceTheorems, TLAPS

-----------------------------------------------------------------------------
(* The settings queue.  A call is where the record, its ticket and the lock    *)
(* say it is, and a sleeper has what it waits for ahead of it.                 *)

\* A call is where its record, its ticket and the lock say it is.
PlacesInv ==
    /\ resolved => pending # NoCall
    /\ pending # NoCall => call[pending].at \in Outstanding
    /\ sender # NoCall => call[sender].at = "sending"
    /\ \A c \in tickets : IsSetting(c) /\ newest[call[c].target] = c
    /\ \A c \in Calls : call[c].at = "idle" => c \notin tickets

QueueInv == TypeOK /\ PlacesInv /\ OneOutstanding /\ SleepersHaveReason

\* What is known of one call.
CallTypes == [at : Places, target : Targets, want : BOOLEAN, queueOver : BOOLEAN, freshOver : BOOLEAN]

\* Nobody has called yet.
LEMMA QueueInitHolds == Init => QueueInv
<1> SUFFICES ASSUME Init PROVE QueueInv
  OBVIOUS
<1>1. TypeOK
  <2>1. Idle \in CallTypes
    BY DEF Idle, CallTypes, Places, Targets
  <2>2. call \in [Calls -> CallTypes] /\ confirmed \in [Bits -> SUBSET BOOLEAN]
    BY <2>1 DEF Init, Unknown
  <2>3. newest \in [Bits -> Calls \cup {NoCall}]
    BY DEF Init
  <2>4. toBox \in Seq(Bytes) /\ reports \in Seq(Bytes)
    BY DEF Init
  <2> QED
    BY <2>2, <2>3, <2>4 DEF Init, TypeOK, CallTypes
<1>2. PlacesInv
  BY DEF Init, PlacesInv, Idle
<1>3. OneOutstanding /\ SleepersHaveReason
  BY DEF Init, OneOutstanding, SleepersHaveReason, Idle, Outstanding, Asleep
<1> QED
  BY <1>1, <1>2, <1>3 DEF QueueInv

\* A wake-up moves sleepers and changes nothing else of a call.
LEMMA NotifiedFacts ==
  ASSUME NEW calls \in [Calls -> CallTypes]
  PROVE  /\ Notified(calls) \in [Calls -> CallTypes]
         /\ \A c \in Calls :
              /\ Notified(calls)[c].target = calls[c].target
              /\ Notified(calls)[c].want = calls[c].want
              /\ Notified(calls)[c].at \notin Asleep
              /\ calls[c].at \notin Asleep => Notified(calls)[c] = calls[c]
              /\ calls[c].at \in Asleep => Notified(calls)[c].at = "ready"
<1> SUFFICES ASSUME NEW c \in Calls
             PROVE  /\ Notified(calls)[c] \in CallTypes
                    /\ Notified(calls)[c].target = calls[c].target
                    /\ Notified(calls)[c].want = calls[c].want
                    /\ Notified(calls)[c].at \notin Asleep
                    /\ calls[c].at \notin Asleep => Notified(calls)[c] = calls[c]
                    /\ calls[c].at \in Asleep => Notified(calls)[c].at = "ready"
  BY DEF Notified
<1>1. calls[c] \in CallTypes
  OBVIOUS
<1>2. Notified(calls)[c] = IF calls[c].at \in Asleep THEN [calls[c] EXCEPT !.at = "ready"]
                           ELSE calls[c]
  BY DEF Notified
<1> QED
  BY <1>1, <1>2 DEF CallTypes, Asleep, Places

\* A call that ends is idle, its record and its ticket are gone, and other calls keep
\* their targets; sleepers are woken unless it was a charge action.
LEMMA EndsFacts ==
  ASSUME TypeOK, NEW c \in Calls, Ends(c)
  PROVE  /\ call' \in [Calls -> CallTypes]
         /\ call'[c] = Idle
         /\ \A d \in Calls \ {c} :
              /\ call'[d].target = call[d].target /\ call'[d].want = call[d].want
              /\ call[d].at \notin Asleep => call'[d] = call[d]
              /\ call[d].at \in Asleep => IF IsSetting(c) THEN call'[d].at = "ready"
                                          ELSE call'[d] = call[d]
<1> DEFINE ending == [call EXCEPT ![c] = Idle]
<1>1. Idle \in CallTypes /\ Idle.at = "idle" /\ Idle.at \notin Asleep
  BY DEF Idle, CallTypes, Places, Targets, Asleep
<1>2. call \in [Calls -> CallTypes]
  BY DEF TypeOK, CallTypes
<1>3. /\ ending \in [Calls -> CallTypes] /\ ending[c] = Idle
      /\ \A d \in Calls \ {c} : ending[d] = call[d]
  BY <1>1, <1>2
<1>4. call' = IF IsSetting(c) THEN Notified(ending) ELSE ending
  BY DEF Ends
<1> HIDE DEF ending
<1>5. CASE IsSetting(c)
  BY <1>1, <1>3, <1>4, <1>5, NotifiedFacts
<1>6. CASE ~IsSetting(c)
  BY <1>3, <1>4, <1>6
<1> QED
  BY <1>5, <1>6

\* Refuse, NotDelivered, Confirmed, WindowOver and Cancel.
LEMMA EndingHolds ==
  ASSUME QueueInv, NEW c \in Calls, call[c].at # "idle", Ends(c),
         sender' = sender \/ sender' = NoCall, sender' # c,
         UNCHANGED <<newest, reportVars, shutdown, boxVars>>,
         confirmed' \in [Bits -> SUBSET BOOLEAN]
  PROVE  QueueInv'
<1>1. /\ call' \in [Calls -> CallTypes]
      /\ call'[c] = Idle /\ Idle.at = "idle"
      /\ \A d \in Calls \ {c} :
           /\ call'[d].target = call[d].target /\ call'[d].want = call[d].want
           /\ call[d].at \notin Asleep => call'[d] = call[d]
           /\ call[d].at \in Asleep => IF IsSetting(c) THEN call'[d].at = "ready"
                                       ELSE call'[d] = call[d]
  BY EndsFacts DEF QueueInv, Idle
<1>2. /\ tickets' = tickets \ {c} /\ pending' = IF pending = c THEN NoCall ELSE pending
      /\ resolved' = (pending # c /\ resolved)
  BY DEF Ends, Cleared
<1>3. TypeOK'
  BY <1>1, <1>2 DEF QueueInv, TypeOK, CallTypes, reportVars, boxVars
<1>4. PlacesInv'
  <2>1. resolved' => pending' # NoCall
    BY <1>2 DEF QueueInv, PlacesInv
  <2>2. pending' # NoCall => call'[pending'].at \in Outstanding
    BY <1>1, <1>2 DEF QueueInv, PlacesInv, TypeOK, Outstanding, Asleep
  <2>3. sender' # NoCall => call'[sender'].at = "sending"
    BY <1>1 DEF QueueInv, PlacesInv, TypeOK, Asleep
  <2>4. \A d \in tickets' : IsSetting(d)' /\ newest'[call'[d].target] = d
    BY <1>1, <1>2 DEF QueueInv, PlacesInv, TypeOK, IsSetting
  <2>5. \A d \in Calls : call'[d].at = "idle" => d \notin tickets'
    BY <1>1, <1>2 DEF QueueInv, PlacesInv, TypeOK
  <2> QED
    BY <2>1, <2>2, <2>3, <2>4, <2>5 DEF PlacesInv
<1>5. OneOutstanding'
  <2> SUFFICES ASSUME NEW d \in Calls, call'[d].at \in Outstanding
               PROVE  shutdown' \/ pending' = d
    BY DEF OneOutstanding
  <2>1. d # c /\ call[d].at \in Outstanding
    BY <1>1 DEF Outstanding, Asleep, IsSetting
  <2> QED
    BY <1>2, <2>1 DEF QueueInv, OneOutstanding
<1>6. SleepersHaveReason'
  <2> SUFFICES ASSUME NEW d \in Calls, call'[d].at \in Asleep
               PROVE  /\ ~shutdown' /\ d \in tickets'
                      /\ call'[d].at = "queued" => pending' # NoCall /\ IsSetting(pending)'
                      /\ call'[d].at = "awaiting" => ~Fresh'
    BY DEF SleepersHaveReason
  <2>1. d # c /\ call[d].at \in Asleep /\ call'[d] = call[d] /\ ~IsSetting(c)
    BY <1>1 DEF Asleep
  <2>2. /\ ~shutdown /\ d \in tickets
        /\ call[d].at = "queued" => pending # NoCall /\ IsSetting(pending)
        /\ call[d].at = "awaiting" => ~Fresh
    BY <2>1 DEF QueueInv, SleepersHaveReason
  <2>3. call[d].at = "queued" => pending' = pending /\ call'[pending].target = call[pending].target
    BY <1>1, <1>2, <2>1, <2>2 DEF QueueInv, TypeOK
  <2> QED
    BY <1>2, <2>1, <2>2, <2>3 DEF IsSetting, Fresh, reportVars
<1> QED
  BY <1>3, <1>4, <1>5, <1>6 DEF QueueInv

\* A call and those it replaces.
LEMMA CallHolds ==
  ASSUME QueueInv, NEW c \in Calls, NEW target \in Targets, NEW want \in BOOLEAN,
         Call(c, target, want)
  PROVE  QueueInv'
<1> DEFINE made == [call EXCEPT ![c].at = "ready", ![c].target = target, ![c].want = want]
           older == Replaced(target)
<1>1. /\ call \in [Calls -> CallTypes] /\ c \notin tickets
      /\ call[c].at = "idle"
      /\ UNCHANGED <<pending, resolved, sender, reportVars, shutdown, boxVars, confirmed>>
  BY DEF Call, QueueInv, TypeOK, CallTypes, PlacesInv
<1>2. /\ made \in [Calls -> CallTypes]
      /\ made[c].at = "ready" /\ made[c].target = target
      /\ \A d \in Calls \ {c} : made[d] = call[d]
  BY <1>1 DEF CallTypes, Places
<1>3. /\ \/ call' = made
         \/ call' = Notified(made) /\ target # Action
      /\ target = Action => tickets' = tickets /\ newest' = newest
      /\ target # Action => /\ tickets' = (tickets \ older) \cup {c}
                            /\ newest' = [newest EXCEPT ![target] = c]
                            /\ older # {} => call' = Notified(made)
  BY DEF Call
<1> HIDE DEF made, older
<1>4. /\ call' \in [Calls -> CallTypes] /\ call'[c].at = "ready" /\ call'[c].target = target
      /\ \A d \in Calls \ {c} :
           /\ call'[d].target = call[d].target
           /\ call[d].at \notin Asleep => call'[d] = call[d]
           /\ call'[d].at \in Asleep => call'[d] = call[d] /\ (target # Action => older = {})
           /\ call[d].at \in Asleep => call'[d] = call[d] \/ call'[d].at = "ready"
  BY <1>2, <1>3, NotifiedFacts DEF Asleep
<1>5. TypeOK'
  BY <1>1, <1>3, <1>4 DEF QueueInv, TypeOK, CallTypes, Targets, reportVars, boxVars
<1>6. pending # c /\ sender # c
  BY <1>1, QueueAssumption DEF QueueInv, PlacesInv, Outstanding
<1>7. PlacesInv'
  <2>1. pending' # NoCall => call'[pending'].at \in Outstanding
    BY <1>1, <1>4, <1>6 DEF QueueInv, PlacesInv, TypeOK, Outstanding, Asleep
  <2>2. sender' # NoCall => call'[sender'].at = "sending"
    BY <1>1, <1>4, <1>6 DEF QueueInv, PlacesInv, TypeOK, Asleep
  <2>3. \A d \in tickets' : IsSetting(d)' /\ newest'[call'[d].target] = d
    <3> SUFFICES ASSUME NEW d \in tickets' PROVE IsSetting(d)' /\ newest'[call'[d].target] = d
      OBVIOUS
    <3>1. newest \in [Bits -> Calls \cup {NoCall}] /\ tickets \subseteq Calls
      BY DEF QueueInv, TypeOK
    <3>2. CASE d = c
      BY <1>1, <1>3, <1>4, <3>1, <3>2 DEF IsSetting, Targets
    <3>3. CASE d # c
      <4>1. d \in tickets /\ (target # Action => call[d].target # target) /\ call'[d].target = call[d].target
        BY <1>3, <1>4, <3>1, <3>3 DEF older, Replaced
      <4>2. call[d].target # Action /\ newest[call[d].target] = d
        BY <4>1 DEF QueueInv, PlacesInv, IsSetting
      <4>3. newest'[call[d].target] = newest[call[d].target]
        <5>1. call[d].target \in Bits
          BY <1>1, <3>1, <4>1, <4>2 DEF CallTypes, Targets
        <5> QED
          BY <1>3, <3>1, <4>1, <5>1
      <4> QED
        BY <4>1, <4>2, <4>3 DEF IsSetting
    <3> QED
      BY <3>2, <3>3
  <2>4. \A d \in Calls : call'[d].at = "idle" => d \notin tickets'
    BY <1>3, <1>4, <1>1 DEF QueueInv, PlacesInv, TypeOK, Asleep
  <2> QED
    BY <1>1, <2>1, <2>2, <2>3, <2>4 DEF PlacesInv, QueueInv
<1>8. OneOutstanding'
  BY <1>1, <1>4 DEF QueueInv, OneOutstanding, Outstanding, Asleep
<1>9. SleepersHaveReason'
  <2> SUFFICES ASSUME NEW d \in Calls, call'[d].at \in Asleep
               PROVE  /\ ~shutdown' /\ d \in tickets'
                      /\ call'[d].at = "queued" => pending' # NoCall /\ IsSetting(pending)'
                      /\ call'[d].at = "awaiting" => ~Fresh'
    BY DEF SleepersHaveReason
  <2>1. d # c /\ call'[d] = call[d] /\ call[d].at \in Asleep /\ (target # Action => older = {})
    BY <1>4 DEF Asleep
  <2>2. /\ ~shutdown /\ d \in tickets
        /\ call[d].at = "queued" => pending # NoCall /\ IsSetting(pending)
        /\ call[d].at = "awaiting" => ~Fresh
    BY <2>1 DEF QueueInv, SleepersHaveReason
  <2>3. d \in tickets'
    BY <1>3, <2>1, <2>2
  <2>4. pending # NoCall => call'[pending].target = call[pending].target
    BY <1>4, <1>6 DEF QueueInv, TypeOK
  <2> QED
    BY <1>1, <2>1, <2>2, <2>3, <2>4 DEF IsSetting, Fresh, reportVars
<1> QED
  BY <1>5, <1>7, <1>8, <1>9 DEF QueueInv

\* Sleep, DeadlinePasses and Sent move one call within its life.
LEMMA MovesHold ==
  ASSUME QueueInv, NEW c \in Calls, Sleep(c) \/ DeadlinePasses(c) \/ Sent(c)
  PROVE  QueueInv'
<1>1. /\ call \in [Calls -> CallTypes]
      /\ UNCHANGED <<tickets, newest, pending, resolved, reportVars, shutdown, boxVars, confirmed>>
  BY DEF Sleep, DeadlinePasses, Sent, QueueInv, TypeOK, CallTypes
<1>2. PICK new : call' = [call EXCEPT ![c] = new]
                 /\ new \in CallTypes /\ new.target = call[c].target
                 /\ \/ Sleep(c) /\ new.at \in Asleep
                    \/ DeadlinePasses(c) /\ new.at = "ready"
                    \/ Sent(c) /\ new.at = "confirming"
  <2>1. CASE Sleep(c)
    BY <1>1, <2>1 DEF Sleep, CallTypes, Places, Asleep
  <2>2. CASE DeadlinePasses(c)
    <3>1. PICK queue \in BOOLEAN :
             call' = [call EXCEPT ![c].at = "ready", ![c].freshOver = TRUE,
                                  ![c].queueOver = @ \/ queue]
      BY <2>2 DEF DeadlinePasses
    <3> DEFINE new == [call[c] EXCEPT !.at = "ready", !.freshOver = TRUE,
                                      !.queueOver = @ \/ queue]
    <3>2. call' = [call EXCEPT ![c] = new]
      BY <1>1, <3>1
    <3>3. new \in CallTypes /\ new.target = call[c].target /\ new.at = "ready"
      BY <1>1 DEF CallTypes, Places
    <3> QED
      BY <2>2, <3>2, <3>3
  <2>3. CASE Sent(c)
    <3> DEFINE new == [call[c] EXCEPT !.at = "confirming"]
    <3>1. call' = [call EXCEPT ![c] = new]
      BY <1>1, <2>3 DEF Sent
    <3>2. new \in CallTypes /\ new.target = call[c].target /\ new.at = "confirming"
      BY <1>1 DEF CallTypes, Places
    <3> QED
      BY <2>3, <3>1, <3>2
  <2> QED
    BY <2>1, <2>2, <2>3
<1>3. /\ call' \in [Calls -> CallTypes] /\ call'[c] = new
      /\ \A d \in Calls \ {c} : call'[d] = call[d]
  BY <1>1, <1>2
<1>8. /\ call[c].at \in {"ready", "sending"} \cup Asleep
      /\ call[c].at = "sending" => sender' = NoCall /\ new.at = "confirming"
      /\ sender' = NoCall \/ sender' = sender
  BY <1>2 DEF Sleep, DeadlinePasses, Sent, Asleep
<1>9. \A d \in Calls : call'[d].target = call[d].target
  BY <1>2, <1>3
<1>4. TypeOK'
  BY <1>1, <1>3, <1>8 DEF QueueInv, TypeOK, CallTypes, reportVars, boxVars
<1>5. PlacesInv'
  <2>1. pending' # NoCall => call'[pending'].at \in Outstanding
    BY <1>1, <1>3, <1>8 DEF QueueInv, PlacesInv, TypeOK, Outstanding, Asleep
  <2>2. sender' # NoCall => call'[sender'].at = "sending"
    BY <1>3, <1>8 DEF QueueInv, PlacesInv, TypeOK, Asleep
  <2>3. \A d \in tickets' : IsSetting(d)' /\ newest'[call'[d].target] = d
    BY <1>1, <1>9 DEF QueueInv, PlacesInv, TypeOK, IsSetting
  <2>4. \A d \in Calls : call'[d].at = "idle" => d \notin tickets'
    BY <1>1, <1>2, <1>3 DEF QueueInv, PlacesInv, Asleep
  <2> QED
    BY <1>1, <2>1, <2>2, <2>3, <2>4 DEF PlacesInv, QueueInv
<1>6. OneOutstanding'
  BY <1>1, <1>2, <1>3 DEF QueueInv, OneOutstanding, Sent, Outstanding, Asleep
<1>7. SleepersHaveReason'
  <2> SUFFICES ASSUME NEW d \in Calls, call'[d].at \in Asleep
               PROVE  /\ ~shutdown' /\ d \in tickets'
                      /\ call'[d].at = "queued" => pending' # NoCall /\ IsSetting(pending)'
                      /\ call'[d].at = "awaiting" => ~Fresh'
    BY DEF SleepersHaveReason
  <2>1. (IsSetting(pending)' <=> IsSetting(pending)) \/ pending = NoCall
    BY <1>1, <1>9 DEF QueueInv, TypeOK, IsSetting
  <2>2. CASE d # c
    BY <1>1, <1>3, <2>1, <2>2 DEF QueueInv, SleepersHaveReason, Fresh, reportVars
  <2>3. CASE d = c
    <3>1. Sleep(c)
      BY <1>2, <1>3, <2>3 DEF Asleep
    <3>2. /\ ~shutdown /\ c \in tickets
          /\ \/ pending # NoCall /\ IsSetting(pending) /\ call'[c].at = "queued"
             \/ ~Fresh /\ call'[c].at = "awaiting"
      BY <1>1, <3>1 DEF Sleep, CallTypes
    <3> QED
      BY <1>1, <2>1, <2>3, <3>2 DEF Fresh, reportVars
  <2> QED
    BY <2>2, <2>3
<1> QED
  BY <1>4, <1>5, <1>6, <1>7 DEF QueueInv

\* A write is sent: its record, the mark on the report and the lock.
LEMMA PublishHolds ==
  ASSUME QueueInv, NEW c \in Calls, Publish(c)
  PROVE  QueueInv'
<1>1. /\ call \in [Calls -> CallTypes]
      /\ call[c].at = "ready" /\ sender = NoCall /\ ~shutdown /\ pending = NoCall
      /\ call' = [call EXCEPT ![c].at = "sending"]
      /\ pending' = c /\ resolved' = FALSE /\ sender' = c
      /\ reportSince' = FALSE \/ (reportSince' = reportSince)
      /\ UNCHANGED <<tickets, newest, report, reportOld, shutdown, box, reports>>
      /\ IsSetting(c) => reportSince' = FALSE
  BY DEF Publish, QueueInv, TypeOK, CallTypes
<1>2. /\ call' \in [Calls -> CallTypes] /\ call'[c].at = "sending"
      /\ call'[c].target = call[c].target
      /\ \A d \in Calls \ {c} : call'[d] = call[d]
  BY <1>1 DEF CallTypes, Places
<1>3. TypeOK'
  <2>1. toBox' \in Seq(Bytes)
    <3>1. CASE IsSetting(c)
      <4>1. Plan(c) \in Bytes
        BY DEF Plan, QueueInv, TypeOK, Bytes
      <4>2. toBox' = Append(toBox, Plan(c))
        BY <3>1 DEF Publish
      <4> QED
        BY <4>1, <4>2 DEF QueueInv, TypeOK
    <3>2. CASE ~IsSetting(c)
      BY <3>2 DEF Publish, QueueInv, TypeOK
    <3> QED
      BY <3>1, <3>2
  <2>2. confirmed' \in [Bits -> SUBSET BOOLEAN]
    BY DEF Publish, QueueInv, TypeOK, Unknown
  <2>3. resolved' \in BOOLEAN /\ reportSince' \in BOOLEAN
    BY <1>1 DEF QueueInv, TypeOK
  <2> QED
    BY <1>1, <1>2, <2>1, <2>2, <2>3 DEF QueueInv, TypeOK, CallTypes
<1>4. PlacesInv'
  <2>1. pending' # NoCall => call'[pending'].at \in Outstanding
    BY <1>1, <1>2 DEF Outstanding
  <2>2. sender' # NoCall => call'[sender'].at = "sending"
    BY <1>1, <1>2
  <2>3. \A d \in tickets' : IsSetting(d)' /\ newest'[call'[d].target] = d
    BY <1>1, <1>2 DEF QueueInv, PlacesInv, TypeOK, IsSetting
  <2>4. \A d \in Calls : call'[d].at = "idle" => d \notin tickets'
    BY <1>1, <1>2 DEF QueueInv, PlacesInv
  <2> QED
    BY <1>1, <2>1, <2>2, <2>3, <2>4 DEF PlacesInv
<1>5. OneOutstanding'
  BY <1>1, <1>2, QueueAssumption DEF QueueInv, OneOutstanding
<1>6. SleepersHaveReason'
  <2> SUFFICES ASSUME NEW d \in Calls, call'[d].at \in Asleep
               PROVE  /\ ~shutdown' /\ d \in tickets'
                      /\ call'[d].at = "queued" => pending' # NoCall /\ IsSetting(pending)'
                      /\ call'[d].at = "awaiting" => ~Fresh'
    BY DEF SleepersHaveReason
  <2>1. d # c /\ call'[d] = call[d]
    BY <1>2 DEF Asleep
  <2>2. d \in tickets /\ call[d].at # "queued" /\ (call[d].at = "awaiting" => ~Fresh)
    BY <1>1, <2>1 DEF QueueInv, SleepersHaveReason
  <2> QED
    BY <1>1, <2>1, <2>2 DEF Fresh
<1> QED
  BY <1>3, <1>4, <1>5, <1>6 DEF QueueInv

\* Everyone asleep is woken, by a report or a shutdown.
LEMMA WakingHolds ==
  ASSUME QueueInv, Shutdown \/ ReportArrives
  PROVE  QueueInv'
<1>1. /\ call \in [Calls -> CallTypes] /\ call' = Notified(call)
      /\ UNCHANGED <<tickets, newest, sender, box, toBox, confirmed>>
      /\ pending' = pending \/ (pending' = NoCall /\ shutdown' /\ ~resolved')
      /\ shutdown' \/ (pending' = pending /\ shutdown' = shutdown)
  BY DEF Shutdown, ReportArrives, QueueInv, TypeOK, CallTypes, boxVars
<1>2. /\ call' \in [Calls -> CallTypes]
      /\ \A d \in Calls : /\ call'[d].target = call[d].target
                          /\ call'[d].at \notin Asleep
                          /\ call[d].at \notin Asleep => call'[d] = call[d]
                          /\ call[d].at \in Asleep => call'[d].at = "ready"
  BY <1>1, NotifiedFacts
<1>3. TypeOK'
  <2>1. CASE Shutdown
    BY <1>1, <1>2, <2>1 DEF Shutdown, QueueInv, TypeOK, CallTypes, reportVars, boxVars
  <2>2. CASE ReportArrives
    <3>1. reports # <<>> /\ report' = Head(reports) /\ reports' = Tail(reports)
      BY <2>2 DEF ReportArrives
    <3>2. report' \in Bytes /\ reports' \in Seq(Bytes)
      BY <3>1 DEF QueueInv, TypeOK
    <3>3. resolved' \in BOOLEAN /\ reportOld' \in BOOLEAN /\ reportSince' \in BOOLEAN
      BY <2>2 DEF ReportArrives
    <3> QED
      BY <1>1, <1>2, <2>2, <3>2, <3>3 DEF ReportArrives, QueueInv, TypeOK, CallTypes
  <2> QED
    BY <2>1, <2>2
<1>4. PlacesInv'
  <2>1. resolved' => pending' # NoCall
    BY DEF Shutdown, ReportArrives, QueueInv, PlacesInv
  <2>2. pending' # NoCall => call'[pending'].at \in Outstanding
    BY <1>1, <1>2 DEF QueueInv, PlacesInv, TypeOK, Outstanding, Asleep
  <2>3. sender' # NoCall => call'[sender'].at = "sending"
    BY <1>1, <1>2 DEF QueueInv, PlacesInv, TypeOK, Asleep
  <2>4. \A d \in tickets' : IsSetting(d)' /\ newest'[call'[d].target] = d
    BY <1>1, <1>2 DEF QueueInv, PlacesInv, TypeOK, IsSetting
  <2>5. \A d \in Calls : call'[d].at = "idle" => d \notin tickets'
    BY <1>1, <1>2 DEF QueueInv, PlacesInv, Asleep
  <2> QED
    BY <2>1, <2>2, <2>3, <2>4, <2>5 DEF PlacesInv
<1>5. OneOutstanding'
  BY <1>1, <1>2 DEF QueueInv, OneOutstanding, Outstanding, Asleep
<1>6. SleepersHaveReason'
  BY <1>2 DEF SleepersHaveReason
<1> QED
  BY <1>3, <1>4, <1>5, <1>6 DEF QueueInv

\* What the wallbox and time do.
LEMMA BoxHolds ==
  ASSUME QueueInv,
         HeartbeatConfirms \/ ReportAges \/ BoxTakes \/ WriteLost \/ BoxReports \/ UNCHANGED vars
  PROVE  QueueInv'
<1>1. /\ UNCHANGED <<call, tickets, newest, pending, sender, shutdown, report, reportSince, confirmed>>
      /\ reportOld' \/ reportOld' = reportOld
      /\ resolved' => pending # NoCall
  BY DEF QueueInv, PlacesInv, HeartbeatConfirms, ReportAges, BoxTakes, WriteLost, BoxReports, vars,
     reportVars, boxVars
<1>2. TypeOK'
  <2>1. /\ box' = box \/ (toBox # <<>> /\ box' = Head(toBox))
        /\ toBox' = toBox \/ (toBox # <<>> /\ toBox' = Tail(toBox))
        /\ reports' = reports \/ reports' = Append(reports, box)
    BY DEF HeartbeatConfirms, ReportAges, BoxTakes, WriteLost, BoxReports, vars, boxVars
  <2>2. box' \in Bytes /\ toBox' \in Seq(Bytes) /\ reports' \in Seq(Bytes)
    <3>1. box \in Bytes /\ toBox \in Seq(Bytes) /\ reports \in Seq(Bytes)
      BY DEF QueueInv, TypeOK
    <3>2. Append(reports, box) \in Seq(Bytes)
      BY <3>1
    <3>3. toBox # <<>> => Head(toBox) \in Bytes /\ Tail(toBox) \in Seq(Bytes)
      BY <3>1
    <3> QED
      BY <2>1, <3>1, <3>2, <3>3
  <2>3. resolved' \in BOOLEAN /\ reportOld' \in BOOLEAN
    BY DEF QueueInv, TypeOK, HeartbeatConfirms, ReportAges, BoxTakes, WriteLost, BoxReports, vars,
       reportVars
  <2> QED
    BY <1>1, <2>2, <2>3 DEF QueueInv, TypeOK
<1>3. PlacesInv' /\ OneOutstanding'
  BY <1>1 DEF QueueInv, PlacesInv, OneOutstanding, IsSetting
<1>4. SleepersHaveReason'
  BY <1>1 DEF QueueInv, SleepersHaveReason, IsSetting, Fresh
<1> QED
  BY <1>2, <1>3, <1>4 DEF QueueInv

\* No step of the queue, a call, a report, a lost write or the shutdown, breaks it.
LEMMA QueueStepHolds ==
  ASSUME QueueInv, [Next]_vars
  PROVE  QueueInv'
<1>1. ASSUME NEW c \in Calls, Refuse(c) \/ NotDelivered(c) \/ Confirmed(c) \/ WindowOver(c) \/ Cancel(c)
      PROVE  QueueInv'
  <2>1. /\ call[c].at # "idle" /\ Ends(c)
        /\ sender' = sender \/ sender' = NoCall
        /\ UNCHANGED <<newest, reportVars, shutdown, boxVars>>
    BY <1>1 DEF Refuse, NotDelivered, Confirmed, WindowOver, Cancel
  <2>2. sender' # c
    BY <1>1, QueueAssumption DEF QueueInv, PlacesInv, Refuse, NotDelivered, Confirmed, WindowOver, Cancel
  <2>3. confirmed' \in [Bits -> SUBSET BOOLEAN]
    <3>1. \/ confirmed' = confirmed
          \/ confirmed' = [confirmed EXCEPT ![call[c].target] = {call[c].want}]
      BY <1>1 DEF Refuse, NotDelivered, Confirmed, WindowOver, Cancel
    <3>2. {call[c].want} \in SUBSET BOOLEAN /\ confirmed \in [Bits -> SUBSET BOOLEAN]
      BY DEF QueueInv, TypeOK
    <3> QED
      BY <3>1, <3>2
  <2> QED
    BY <2>1, <2>2, <2>3, EndingHolds
<1>2. ASSUME NEW c \in Calls, Sleep(c) \/ DeadlinePasses(c) \/ Sent(c) PROVE QueueInv'
  BY <1>2, MovesHold
<1>3. ASSUME NEW c \in Calls, Publish(c) PROVE QueueInv'
  BY <1>3, PublishHolds
<1>4. ASSUME NEW c \in Calls, NEW target \in Targets, NEW want \in BOOLEAN, Call(c, target, want)
      PROVE  QueueInv'
  BY <1>4, CallHolds
<1>5. CASE Shutdown \/ ReportArrives
  BY <1>5, WakingHolds
<1>6. CASE HeartbeatConfirms \/ ReportAges \/ BoxTakes \/ WriteLost \/ BoxReports \/ UNCHANGED vars
  BY <1>6, BoxHolds
<1> QED
  BY <1>1, <1>2, <1>3, <1>4, <1>5, <1>6 DEF Next

\* Whatever is called, cancelled, lost or shut down, every call of the wallbox's
\* settings queue is where the record, its ticket and the lock say it is.
THEOREM QueueInvariant == Spec => []QueueInv
  BY QueueInitHolds, QueueStepHolds, PTL DEF Spec

\* The queue's variables keep their types.
THEOREM QueueTypeCorrect == Spec => []TypeOK
<1>1. QueueInv => TypeOK
  BY DEF QueueInv
<1> QED
  BY <1>1, QueueInvariant, PTL

\* A call that sleeps on the wake event has what it waits for ahead of it: another
\* write's end, a report or its deadline, never an event that is over.
THEOREM NoWakeUpLost == Spec => []SleepersHaveReason
<1>1. QueueInv => SleepersHaveReason
  BY DEF QueueInv
<1> QED
  BY <1>1, QueueInvariant, PTL

\* At most one write of the wallbox is out, and it is the one the record names.
THEOREM OneWriteOut == Spec => []OneOutstanding
<1>1. QueueInv => OneOutstanding
  BY DEF QueueInv
<1> QED
  BY <1>1, QueueInvariant, PTL

\* A ticket is only held by the newest call for its switch, and a send needs one.
LEMMA NewestStep ==
  ASSUME QueueInv, NEW c \in Calls, Publish(c), IsSetting(c)
  PROVE  newest[call[c].target] = c
  BY DEF QueueInv, PlacesInv, Publish

-----------------------------------------------------------------------------
(* The settings byte.  Where no report is overtaken by a write, a report that  *)
(* is on its way shows the byte as it is and no write is on its way: so a      *)
(* report recorded since the last write left is the byte, whatever was lost.   *)

ByteInv ==
    /\ reports # <<>> => toBox = <<>> /\ \A i \in DOMAIN reports : reports[i] = box
    /\ reportSince => toBox = <<>> /\ report = box
    /\ resolved /\ IsSetting(pending) =>
          toBox = <<>> /\ box[call[pending].target] = call[pending].want
    /\ \A b \in Bits : /\ confirmed[b] \subseteq {box[b]}
                       /\ \A i \in DOMAIN toBox : confirmed[b] \subseteq {toBox[i][b]}

\* Nothing was reported or confirmed.
LEMMA ByteInitHolds == Init => ByteInv
  BY DEF Init, ByteInv, Unknown

\* A send marks the reports before it as old, and carries what is confirmed.
LEMMA BytePublish ==
  ASSUME Prompt, QueueInv, ByteInv, NEW c \in Calls, Publish(c)
  PROVE  ByteInv'
<1>1. /\ call[c].at = "ready" /\ ~resolved' /\ UNCHANGED <<box, reports, report>>
      /\ call' = [call EXCEPT ![c].at = "sending"]
  BY DEF Publish
<1>2. CASE ~IsSetting(c)
  <2>1. UNCHANGED <<reportSince, toBox, confirmed>>
    BY <1>2 DEF Publish
  <2> QED
    BY <1>1, <2>1 DEF ByteInv
<1>3. CASE IsSetting(c)
  <2>1. /\ Fresh /\ reports = <<>> /\ ~reportSince'
        /\ toBox' = Append(toBox, Plan(c))
        /\ confirmed' = [confirmed EXCEPT ![call[c].target] = Unknown]
    BY <1>3 DEF Publish
  <2>2. toBox = <<>> /\ report = box
    BY <2>1 DEF Fresh, ByteInv
  <2>3. DOMAIN toBox' = {1} /\ toBox'[1] = Plan(c)
    BY <2>1, <2>2
  <2>4. ASSUME NEW b \in Bits
        PROVE  /\ confirmed'[b] \subseteq {box[b]}
               /\ confirmed'[b] \subseteq {Plan(c)[b]}
    <3>1. CASE b = call[c].target
      <4>1. confirmed'[b] = {}
        BY <2>1, <3>1 DEF QueueInv, TypeOK, Unknown
      <4> QED
        BY <4>1
    <3>2. CASE b # call[c].target
      <4>1. confirmed'[b] = confirmed[b]
        BY <2>1, <3>2 DEF QueueInv, TypeOK
      <4>2. Plan(c)[b] = box[b]
        BY <2>2, <3>2 DEF Plan, QueueInv, TypeOK, Bytes
      <4> QED
        BY <4>1, <4>2 DEF ByteInv
    <3> QED
      BY <3>1, <3>2
  <2> QED
    BY <1>1, <2>1, <2>3, <2>4 DEF ByteInv
<1> QED
  BY <1>2, <1>3

\* The calls of others, and what is left of a call that ends.
LEMMA ByteEnding ==
  ASSUME QueueInv, ByteInv, NEW c \in Calls,
         Refuse(c) \/ NotDelivered(c) \/ Confirmed(c) \/ WindowOver(c) \/ Cancel(c)
  PROVE  ByteInv'
<1>1. Ends(c) /\ UNCHANGED <<box, toBox, reports, report, reportSince>>
  BY DEF Refuse, NotDelivered, Confirmed, WindowOver, Cancel, boxVars, reportVars
<1>2. /\ resolved' = (pending # c /\ resolved) /\ pending' = IF pending = c THEN NoCall ELSE pending
  BY <1>1 DEF Ends, Cleared
<1>3. resolved' => /\ pending' = pending /\ pending \in Calls /\ pending # c /\ resolved
                   /\ call'[pending].target = call[pending].target
                   /\ call'[pending].want = call[pending].want
  <2>1. resolved' => resolved /\ pending # c /\ pending' = pending
    BY <1>2
  <2>2. resolved => pending \in Calls
    BY DEF QueueInv, PlacesInv, TypeOK
  <2>3. \A d \in Calls \ {c} : call'[d].target = call[d].target /\ call'[d].want = call[d].want
    BY <1>1, EndsFacts DEF QueueInv
  <2> QED
    BY <2>1, <2>2, <2>3
<1>4. resolved' /\ IsSetting(pending)' =>
        toBox' = <<>> /\ box'[call'[pending'].target] = call'[pending'].want
  BY <1>1, <1>3 DEF ByteInv, IsSetting
<1>5. ASSUME NEW b \in Bits
      PROVE  confirmed'[b] \subseteq {box[b]} /\ \A i \in DOMAIN toBox : confirmed'[b] \subseteq {toBox[i][b]}
  <2>1. CASE confirmed' = confirmed
    BY <2>1 DEF ByteInv
  <2>2. CASE Confirmed(c) /\ IsSetting(c) /\ confirmed' = [confirmed EXCEPT ![call[c].target] = {call[c].want}]
    <3>1. toBox = <<>> /\ box[call[c].target] = call[c].want
      BY <2>2 DEF Confirmed, ByteInv
    <3>2. confirmed'[b] = confirmed[b] \/ (b = call[c].target /\ confirmed'[b] = {call[c].want})
      BY <2>2 DEF QueueInv, TypeOK
    <3>3. confirmed'[b] \subseteq {box[b]}
      BY <3>1, <3>2 DEF ByteInv
    <3>4. DOMAIN toBox = {}
      BY <3>1
    <3> QED
      BY <3>3, <3>4
  <2> QED
    BY <2>1, <2>2 DEF Refuse, NotDelivered, Confirmed, WindowOver, Cancel
<1> QED
  BY <1>1, <1>4, <1>5 DEF ByteInv

\* What callers do before and after a send leaves the byte alone.
LEMMA ByteCalls ==
  ASSUME QueueInv, ByteInv,
         \/ \E c \in Calls : \/ \E target \in Targets, want \in BOOLEAN : Call(c, target, want)
                             \/ Sleep(c) \/ DeadlinePasses(c) \/ Sent(c)
         \/ Shutdown \/ UNCHANGED vars
  PROVE  ByteInv'
<1>1. /\ UNCHANGED <<box, toBox, reports, report, reportSince, confirmed>>
      /\ resolved' => resolved /\ pending' = pending
  <2>1. ASSUME NEW c \in Calls, NEW target \in Targets, NEW want \in BOOLEAN, Call(c, target, want)
        PROVE  UNCHANGED <<pending, resolved, box, toBox, reports, report, reportSince, confirmed>>
    BY <2>1 DEF Call, boxVars, reportVars
  <2>2. ASSUME NEW c \in Calls, Sleep(c) \/ DeadlinePasses(c) \/ Sent(c)
        PROVE  UNCHANGED <<pending, resolved, box, toBox, reports, report, reportSince, confirmed>>
    BY <2>2 DEF Sleep, DeadlinePasses, Sent, boxVars, reportVars
  <2>3. CASE Shutdown
    BY <2>3 DEF Shutdown, boxVars, reportVars
  <2>4. CASE UNCHANGED vars
    BY <2>4 DEF vars
  <2> QED
    BY <2>1, <2>2, <2>3, <2>4
<1>2. resolved' => /\ call'[pending].target = call[pending].target
                   /\ call'[pending].want = call[pending].want
  <2>1. resolved => pending \in Calls /\ call[pending].at \in Outstanding
    BY DEF QueueInv, PlacesInv, TypeOK
  <2>2. call \in [Calls -> CallTypes]
    BY DEF QueueInv, TypeOK, CallTypes
  <2>3. ASSUME NEW c \in Calls, NEW target \in Targets, NEW want \in BOOLEAN, Call(c, target, want)
        PROVE  \A d \in Calls \ {c} : call'[d].target = call[d].target /\ call'[d].want = call[d].want
    <3> DEFINE made == [call EXCEPT ![c].at = "ready", ![c].target = target, ![c].want = want]
    <3>1. call' = made \/ call' = Notified(made)
      BY <2>3 DEF Call
    <3>2. made \in [Calls -> CallTypes] /\ \A d \in Calls \ {c} : made[d] = call[d]
      BY <2>2, ZenonT(60) DEF CallTypes, Places
    <3> HIDE DEF made
    <3> QED
      BY <3>1, <3>2, NotifiedFacts
  <2>4. ASSUME NEW c \in Calls, NEW target \in Targets, NEW want \in BOOLEAN, Call(c, target, want),
               resolved
        PROVE  pending # c
    BY <2>1, <2>4 DEF Call, Outstanding
  <2>5. ASSUME NEW c \in Calls, Sleep(c) \/ DeadlinePasses(c) \/ Sent(c)
        PROVE  \A d \in Calls : call'[d].target = call[d].target /\ call'[d].want = call[d].want
    <3>1. CASE Sleep(c)
      BY <2>2, <3>1 DEF Sleep, CallTypes
    <3>2. CASE DeadlinePasses(c)
      <4>1. PICK queue \in BOOLEAN :
               call' = [call EXCEPT ![c].at = "ready", ![c].freshOver = TRUE,
                                    ![c].queueOver = @ \/ queue]
        BY <3>2 DEF DeadlinePasses
      <4>2. call' = [call EXCEPT ![c] = [call[c] EXCEPT !.at = "ready", !.freshOver = TRUE,
                                                        !.queueOver = @ \/ queue]]
        BY <2>2, <4>1
      <4> QED
        BY <2>2, <4>2 DEF CallTypes
    <3>3. CASE Sent(c)
      BY <2>2, <3>3 DEF Sent, CallTypes
    <3> QED
      BY <2>5, <3>1, <3>2, <3>3
  <2>6. CASE Shutdown
    <3>1. \A d \in Calls : call'[d].target = call[d].target /\ call'[d].want = call[d].want
      BY <2>2, <2>6, NotifiedFacts DEF Shutdown
    <3> QED
      BY <1>1, <2>1, <3>1
  <2>7. CASE UNCHANGED vars
    BY <2>7 DEF vars
  <2> QED
    BY <1>1, <2>1, <2>3, <2>4, <2>5, <2>6, <2>7
<1>3. resolved' /\ IsSetting(pending)' =>
        toBox' = <<>> /\ box'[call'[pending'].target] = call'[pending'].want
  BY <1>1, <1>2 DEF ByteInv, IsSetting
<1> QED
  BY <1>1, <1>3 DEF ByteInv

\* What is under way arrives, or is lost.
LEMMA ByteFrames ==
  ASSUME Prompt, QueueInv, ByteInv,
         ReportArrives \/ HeartbeatConfirms \/ ReportAges \/ BoxTakes \/ WriteLost \/ BoxReports
  PROVE  ByteInv'
<1>1. CASE ReportArrives
  <2>1. /\ reports # <<>> /\ reports' = Tail(reports) /\ report' = Head(reports)
        /\ resolved' = (resolved \/ (pending # NoCall /\ Confirms(Head(reports))))
        /\ call' = Notified(call) /\ UNCHANGED <<pending, box, toBox, confirmed>>
    BY <1>1 DEF ReportArrives
  <2>2. toBox = <<>> /\ \A i \in DOMAIN reports : reports[i] = box
    BY <2>1 DEF ByteInv
  <2>3. reports \in Seq(Bytes) /\ Head(reports) = reports[1] /\ 1 \in DOMAIN reports
    BY <2>1 DEF QueueInv, TypeOK
  <2>4. report' = box /\ \A i \in DOMAIN reports' : reports'[i] = box
    BY <2>1, <2>2, <2>3
  <2>5. call \in [Calls -> CallTypes] /\ (pending # NoCall => pending \in Calls)
    BY DEF QueueInv, TypeOK, CallTypes
  <2>6. \A d \in Calls : call'[d].target = call[d].target /\ call'[d].want = call[d].want
    BY <2>1, <2>5, NotifiedFacts
  <2>7. resolved' /\ IsSetting(pending)' => box'[call'[pending'].target] = call'[pending'].want
    <3> SUFFICES ASSUME resolved', IsSetting(pending)' PROVE box[call'[pending].target] = call'[pending].want
      BY <2>1
    <3>1. pending \in Calls
      BY <2>1, <2>5 DEF QueueInv, PlacesInv
    <3>2. IsSetting(pending)
      BY <2>1, <2>6, <3>1 DEF IsSetting
    <3>3. CASE resolved
      BY <2>6, <3>1, <3>2, <3>3 DEF ByteInv
    <3>4. CASE Confirms(Head(reports))
      BY <2>2, <2>3, <2>6, <3>1, <3>4 DEF Confirms
    <3> QED
      BY <2>1, <3>3, <3>4
  <2> QED
    BY <2>1, <2>2, <2>4, <2>7 DEF ByteInv
<1>2. CASE HeartbeatConfirms \/ ReportAges
  BY <1>2 DEF HeartbeatConfirms, ReportAges, boxVars, reportVars, ByteInv, IsSetting
<1>3. CASE BoxTakes \/ WriteLost
  <2>1. /\ toBox # <<>> /\ toBox' = Tail(toBox) /\ (box' = box \/ box' = Head(toBox))
        /\ UNCHANGED <<call, pending, resolved, report, reportSince, reports, confirmed>>
    BY <1>3 DEF BoxTakes, WriteLost, reportVars
  <2>2. reports = <<>> /\ ~reportSince /\ ~(resolved /\ IsSetting(pending))
    BY <2>1 DEF ByteInv
  <2>3. /\ Head(toBox) = toBox[1] /\ 1 \in DOMAIN toBox
        /\ \A i \in DOMAIN Tail(toBox) : i + 1 \in DOMAIN toBox /\ Tail(toBox)[i] = toBox[i + 1]
    BY <2>1 DEF QueueInv, TypeOK
  <2>4. ASSUME NEW b \in Bits
        PROVE  confirmed[b] \subseteq {box'[b]} /\ \A i \in DOMAIN toBox' : confirmed[b] \subseteq {toBox'[i][b]}
    BY <2>1, <2>3 DEF ByteInv
  <2> QED
    BY <2>1, <2>2, <2>4 DEF ByteInv, IsSetting
<1>4. CASE BoxReports
  <2>1. /\ toBox = <<>> /\ reports' = Append(reports, box)
        /\ UNCHANGED <<call, pending, resolved, report, reportSince, box, toBox, confirmed>>
    BY <1>4 DEF BoxReports, reportVars
  <2>2. \A i \in DOMAIN reports' : reports'[i] = box
    <3>1. reports \in Seq(Bytes) /\ \A i \in DOMAIN reports : reports[i] = box
      BY DEF QueueInv, TypeOK, ByteInv
    <3> QED
      BY <2>1, <3>1
  <2> QED
    BY <2>1, <2>2 DEF ByteInv, IsSetting
<1> QED
  BY <1>1, <1>2, <1>3, <1>4

\* Every step of the queue keeps it.
LEMMA ByteStepHolds ==
  ASSUME Prompt, QueueInv, ByteInv, [Next]_vars
  PROVE  ByteInv'
<1>1. ASSUME NEW c \in Calls, Refuse(c) \/ NotDelivered(c) \/ Confirmed(c) \/ WindowOver(c) \/ Cancel(c)
      PROVE  ByteInv'
  BY <1>1, ByteEnding
<1>2. ASSUME NEW c \in Calls, Publish(c) PROVE ByteInv'
  BY <1>2, BytePublish
<1>3. CASE \/ \E c \in Calls : \/ \E target \in Targets, want \in BOOLEAN : Call(c, target, want)
                               \/ Sleep(c) \/ DeadlinePasses(c) \/ Sent(c)
           \/ Shutdown \/ UNCHANGED vars
  BY <1>3, ByteCalls
<1>4. CASE ReportArrives \/ HeartbeatConfirms \/ ReportAges \/ BoxTakes \/ WriteLost \/ BoxReports
  BY <1>4, ByteFrames
<1> QED
  BY <1>1, <1>2, <1>3, <1>4 DEF Next

\* A send plans on a report since the last send, and such a report is the byte.
LEMMA OthersStep ==
  ASSUME QueueInv, ByteInv, NEW c \in Calls, Publish(c), IsSetting(c)
  PROVE  LET held == IF toBox = <<>> THEN box ELSE toBox[Len(toBox)]
         IN  \A b \in Bits \ {call[c].target} : Plan(c)[b] = held[b]
<1>1. toBox = <<>> /\ report = box
  BY DEF Publish, Fresh, ByteInv
<1> QED
  BY <1>1 DEF Plan, QueueInv, TypeOK, Bytes

-----------------------------------------------------------------------------
(* The calls of the presses and the rods.  Whatever the frames say, a record   *)
(* belongs to a call that is out, and until the shutdown no other call is.     *)

\* Where a call that holds the record is.
Out == {"sending", "confirming"}

\* Where the calls are.
CallsInv ==
    /\ DOMAIN call = Calls
    /\ pending \in Calls \cup {NoCall} /\ sender \in Calls \cup {NoCall}
    /\ resolved => pending # NoCall
    /\ \A c \in Calls : "at" \in DOMAIN call[c] /\ call[c].at \in Out \cup {"idle"}
    /\ pending # NoCall => call[pending].at \in Out
    /\ ~shutdown => \A c \in Calls : call[c].at # "idle" => pending = c
    /\ \A c, d \in Calls : call[c].at # "idle" /\ call[d].at # "idle" => c = d

\* No call, no record.
LEMMA CallsInitHolds == ASSUME Press!SlotInit \/ Rod!SlotInit PROVE CallsInv
<1>1. /\ call = [c \in Calls |-> [at |-> "idle"]]
      /\ pending = NoCall /\ resolved = FALSE /\ sender = NoCall
  BY DEF Press!SlotInit, Rod!SlotInit, Press!Asked, Rod!Asked
<1> QED
  BY <1>1 DEF CallsInv

\* A call that ends takes its own record with it and leaves the others'.
LEMMA CallEnds ==
  ASSUME CallsInv, NEW c \in Calls, Press!Ends(c) \/ Rod!Ends(c)
  PROVE  /\ CallsInv'
         /\ call'[c].at = "idle" /\ \A d \in Calls \ {c} : call'[d] = call[d]
         /\ pending' # NoCall => /\ pending' = pending /\ pending # c
                                 /\ since' = since /\ (resolved' => resolved)
<1>1. /\ call' = [call EXCEPT ![c] = [at |-> "idle"]]
      /\ pending' = IF pending = c THEN NoCall ELSE pending
      /\ resolved' = (resolved /\ pending # c)
      /\ sender' = IF sender = c THEN NoCall ELSE sender
      /\ since' = IF pending = c THEN {} ELSE since
      /\ UNCHANGED shutdown
  BY DEF Press!Ends, Rod!Ends, Press!Cleared, Rod!Cleared, Press!Asked, Rod!Asked
<1>2. /\ DOMAIN call' = Calls /\ call'[c].at = "idle"
      /\ \A d \in Calls \ {c} : call'[d] = call[d]
  BY <1>1 DEF CallsInv
<1>3. resolved' => resolved /\ pending # c
  BY <1>1
<1>4. pending' # NoCall => pending' = pending /\ pending # c
  BY <1>1
<1>5. CallsInv'
  <2>1. pending' \in Calls \cup {NoCall} /\ sender' \in Calls \cup {NoCall}
    BY <1>1 DEF CallsInv
  <2>2. resolved' => pending' # NoCall
    BY <1>1, <1>3 DEF CallsInv
  <2>3. pending' # NoCall => call'[pending'].at \in Out
    BY <1>2, <1>4 DEF CallsInv
  <2>4. ~shutdown' => \A d \in Calls : call'[d].at # "idle" => pending' = d
    BY <1>1, <1>2 DEF CallsInv
  <2>5. \A d \in Calls : "at" \in DOMAIN call'[d] /\ call'[d].at \in Out \cup {"idle"}
    <3>1. call'[c] = [at |-> "idle"]
      BY <1>1 DEF CallsInv
    <3>2. "at" \in DOMAIN call'[c] /\ call'[c].at = "idle"
      BY <3>1
    <3> QED
      BY <1>2, <3>2 DEF CallsInv
  <2>6. \A d, e \in Calls : call'[d].at # "idle" /\ call'[e].at # "idle" => d = e
    BY <1>2 DEF CallsInv
  <2> QED
    BY <1>2, <2>1, <2>2, <2>3, <2>4, <2>5, <2>6 DEF CallsInv
<1> QED
  BY <1>1, <1>2, <1>3, <1>4, <1>5

\* A record is made where there is none, or by the call whose record it replaces.
LEMMA CallRecords ==
  ASSUME CallsInv, NEW c \in Calls, NEW new, "at" \in DOMAIN new, new.at = "sending", NEW now,
         Press!Records(c, new, now) \/ Rod!Records(c, new, now), shutdown' = shutdown,
         \A d \in Calls \ {c} : call[d].at = "idle"
  PROVE  /\ CallsInv' /\ call'[c] = new /\ pending' = c /\ ~resolved' /\ since' = {now}
         /\ \A d \in Calls \ {c} : call'[d] = call[d] /\ call'[d].at = "idle"
<1>1. /\ call' = [call EXCEPT ![c] = new]
      /\ pending' = c /\ resolved' = FALSE /\ sender' = c /\ since' = {now}
  BY DEF Press!Records, Rod!Records
<1>2. DOMAIN call' = Calls /\ call'[c] = new /\ \A d \in Calls \ {c} : call'[d] = call[d]
  BY <1>1 DEF CallsInv
<1> QED
  BY <1>1, <1>2 DEF CallsInv, Out

\* A call whose frame was acknowledged waits, and keeps its record.
LEMMA CallDelivered ==
  ASSUME CallsInv, NEW c \in Calls, Press!Delivered(c) \/ Rod!Delivered(c)
  PROVE  /\ CallsInv' /\ UNCHANGED <<pending, resolved, shutdown, since>>
         /\ call' = [call EXCEPT ![c].at = "confirming"]
         /\ call'[c] = [call[c] EXCEPT !.at = "confirming"]
         /\ call[c].at = "sending"
         /\ \A d \in Calls \ {c} : call'[d] = call[d]
<1>1. /\ call' = [call EXCEPT ![c].at = "confirming"] /\ call[c].at = "sending"
      /\ sender' = NoCall /\ UNCHANGED <<pending, resolved, shutdown, since>>
  BY DEF Press!Delivered, Rod!Delivered, Press!At, Rod!At
<1>2. /\ DOMAIN call' = Calls /\ call'[c] = [call[c] EXCEPT !.at = "confirming"]
      /\ \A d \in Calls \ {c} : call'[d] = call[d]
  BY <1>1 DEF CallsInv
<1>3. call'[c].at = "confirming"
  BY <1>2
<1> QED
  BY <1>1, <1>2, <1>3 DEF CallsInv, Out

\* A shutdown drops the record and leaves the calls to end.
LEMMA CallStops ==
  ASSUME CallsInv, Press!Stops \/ Rod!Stops
  PROVE  CallsInv' /\ call' = call /\ pending' = NoCall /\ ~resolved'
  BY DEF Press!Stops, Rod!Stops, CallsInv

\* Every step of the presses and of the rods keeps it, whatever frames do.
LEMMA CallsStepHolds ==
  ASSUME CallsInv,
         \/ [Press!WallboxNext]_<<recordVars, since, pressVars>>
         \/ [Rod!RodNext]_<<recordVars, since, rodVars>>
  PROVE  CallsInv'
<1>1. CASE UNCHANGED recordVars
  BY <1>1 DEF recordVars, CallsInv
<1>2. ASSUME NEW c \in Calls, Press!Ends(c) \/ Rod!Ends(c) \/ Press!Delivered(c) \/ Rod!Delivered(c)
      PROVE  CallsInv'
  BY <1>2, CallEnds, CallDelivered
<1>3. CASE Press!Stops \/ Rod!Stops
  BY <1>3, CallStops
<1>4. ASSUME NEW c \in Calls, Press!MayPublish(c) \/ Rod!MayPublish(c) \/ Rod!Confirmed(c)
      PROVE  \A d \in Calls \ {c} : call[d].at = "idle"
  BY <1>4, QueueAssumption DEF CallsInv, Press!MayPublish, Rod!MayPublish, Rod!Confirmed, Rod!At
<1>5. ASSUME NEW c \in Calls, NEW key, NEW want, Press!Publishes(c, key, want) PROVE CallsInv'
  <2> DEFINE new == [at |-> "sending", key |-> key, want |-> want]
  <2>1. Press!MayPublish(c) /\ Press!Records(c, new, wallbox[key]) /\ shutdown' = shutdown
    BY <1>5 DEF Press!Publishes
  <2>2. "at" \in DOMAIN new /\ new.at = "sending"
    OBVIOUS
  <2> HIDE DEF new
  <2> QED
    BY <1>4, <2>1, <2>2, CallRecords
<1>6. ASSUME NEW c \in Calls, NEW step, NEW want, NEW then, Rod!Sends(c, Rod!Asks(step, want, then)),
             \A d \in Calls \ {c} : call[d].at = "idle"
      PROVE  CallsInv'
  <2> DEFINE new == Rod!Asks(step, want, then)
  <2>1. "at" \in DOMAIN new /\ new.at = "sending"
    BY DEF Rod!Asks
  <2> HIDE DEF new
  <2>2. Rod!Records(c, new, Rod!Reads(new.step, rods[new.rod])) /\ shutdown' = shutdown
    BY <1>6 DEF Rod!Sends, new
  <2> QED
    BY <1>6, <2>1, <2>2, CallRecords
<1>7. CASE Press!WallboxNext
  <2>1. ASSUME NEW c \in Calls,
               \/ \E action \in Press!Actions : Press!ChargeAction(c, action)
               \/ \E a \in Levels : Press!MaxCurrent(c, a) \/ Press!ChargeCurrent(c, a)
               \/ \E m \in Press!Modes : Press!ChargeMode(c, m)
        PROVE  CallsInv'
    BY <1>5, <2>1 DEF Press!ChargeAction, Press!MaxCurrent, Press!ChargeCurrent, Press!ChargeMode
  <2>2. ASSUME NEW c \in Calls, Press!Progress(c) PROVE CallsInv'
    BY <1>2, <2>2 DEF Press!Progress, Press!NotDelivered, Press!Unconfirmed, Press!Cancelled
  <2>3. CASE \/ Press!BoxTakes \/ Press!BoxLoses \/ Press!OwnerActs \/ Press!BeatFollows
             \/ Press!BoxReports \/ Press!ReportAges \/ Press!TableGone
    BY <2>3 DEF Press!BoxTakes, Press!BoxLoses, Press!OwnerActs, Press!BeatFollows, Press!BoxReports,
       Press!ReportAges, Press!TableGone, Press!slotVars, CallsInv
  <2>4. CASE Press!FrameArrives
    <3>1. UNCHANGED <<call, pending, sender, shutdown>>
      BY <2>4 DEF Press!FrameArrives
    <3>2. resolved' => pending # NoCall
      BY <2>4 DEF Press!FrameArrives, Press!Applied, Press!Confirms, CallsInv
    <3> QED
      BY <3>1, <3>2 DEF CallsInv
  <2>5. CASE Press!WallboxStops
    BY <1>3, <2>5 DEF Press!WallboxStops
  <2> QED
    BY <1>7, <2>1, <2>2, <2>3, <2>4, <2>5 DEF Press!WallboxNext
<1>8. CASE Rod!RodNext
  <2>1. ASSUME NEW c \in Calls, NEW t \in Levels, Rod!SetValue(c, t) PROVE CallsInv'
    BY <1>4, <1>6, <2>1 DEF Rod!SetValue
  <2>2. ASSUME NEW c \in Calls, NEW o \in Rod!Options, Rod!SetMode(c, o) PROVE CallsInv'
    <3>1. CASE UNCHANGED recordVars
      BY <1>1, <3>1
    <3>2. CASE \E step : Rod!MayPublish(c) /\ Rod!Sends(c, Rod!Asks(step, o, o))
      BY <1>4, <1>6, <3>2
    <3> QED
      BY <2>2, <3>1, <3>2 DEF Rod!SetMode, Rod!slotVars, recordVars
  <2>3. ASSUME NEW c \in Calls, Rod!RodDelivered(c) \/ Rod!Fails(c) PROVE CallsInv'
    BY <1>2, <2>3 DEF Rod!RodDelivered, Rod!Fails, Rod!NotDelivered, Rod!Unconfirmed, Rod!Cancelled
  <2>4. ASSUME NEW c \in Calls, Rod!Succeeds(c) PROVE CallsInv'
    <3>1. CASE Rod!Ends(c)
      BY <1>2, <3>1
    <3>2. CASE \E then : Rod!Sends(c, Rod!Asks("run", then, then))
      <4>1. Rod!Confirmed(c)
        BY <2>4 DEF Rod!Succeeds
      <4> QED
        BY <1>4, <1>6, <3>2, <4>1
    <3> QED
      BY <2>4, <3>1, <3>2 DEF Rod!Succeeds
  <2>5. CASE Rod!RodTakes \/ \E r \in Rods : Rod!RodReports(r)
    <3>1. UNCHANGED recordVars
      BY <2>5 DEF Rod!RodTakes, Rod!RodReports, Rod!slotVars, recordVars
    <3> QED
      BY <1>1, <3>1
  <2>6. CASE Rod!RodReportArrives
    <3>1. UNCHANGED <<call, pending, sender, shutdown>>
      BY <2>6 DEF Rod!RodReportArrives
    <3>2. resolved' => pending # NoCall
      BY <2>6 DEF Rod!RodReportArrives, Rod!RodConfirms, CallsInv
    <3> QED
      BY <3>1, <3>2 DEF CallsInv
  <2>7. CASE Rod!RodStops
    BY <1>3, <2>7 DEF Rod!RodStops
  <2> QED
    BY <1>8, <2>1, <2>2, <2>3, <2>4, <2>5, <2>6, <2>7 DEF Rod!RodNext
<1> QED
  BY <1>1, <1>7, <1>8 DEF recordVars

-----------------------------------------------------------------------------
(* Immediate writes of a wallbox.  What it has sent since a write left shows   *)
(* what it was since then, but for the mode in heartbeats that lag behind; and *)
(* as long as one of those is about, the settings report owns the mode.        *)

PressFrames ==
    [kind : {"heartbeat"}, own : {TRUE}, status : Press!Statuses, mode : Press!Modes]
    \cup [kind : {"parameters"}, own : {TRUE}, amps : Levels]
    \cup [kind : {"settings"}, own : BOOLEAN, amps : Levels, mode : Press!Modes]
PressAsked ==
    [at : Out, key : {"status"}, want : Press!Actions] \cup [at : Out, key : {"amps"}, want : Levels]
    \cup [at : Out, key : {"mode"}, want : Press!Modes]
PressWrites ==
    [key : {"status"}, want : Press!Actions] \cup [key : {"amps"}, want : Levels]
    \cup [key : {"mode"}, want : Press!Modes]

PressTypes ==
    /\ wallbox \in [status : Press!Statuses, mode : Press!Modes, amps : Levels]
    /\ beat \in Press!Modes /\ asked \in Seq(PressWrites) /\ frames \in Seq(PressFrames)
    /\ \A c \in Calls : call[c].at # "idle" => call[c] \in PressAsked

\* A frame shows the value of key; owned says that a settings report owns the mode.
Shows(f, key, owned) ==
    /\ key = "status" => f.kind = "heartbeat"
    /\ key = "amps" => f.kind \in {"settings", "parameters"}
    /\ key = "mode" => f.kind = "settings" \/ (f.kind = "heartbeat" /\ ~owned)

SinceInv ==
    pending # NoCall =>
        LET key == call[pending].key
        IN  /\ wallbox[key] \in since
            /\ \A i \in DOMAIN frames : Shows(frames[i], key, young) => frames[i][key] \in since
            /\ key = "mode" /\ ~young => beat \in since
            /\ resolved => Press!Confirming(call[pending]) \cap since # {}

PressInv == CallsInv /\ PressTypes /\ SinceInv

\* Which frames carry a key.
LEMMA FrameFields ==
  ASSUME NEW f \in PressFrames, NEW key \in {"status", "amps", "mode"}, key \in DOMAIN f
  PROVE  /\ key = "status" => f.kind = "heartbeat"
         /\ key = "amps" => f.kind \in {"settings", "parameters"}
         /\ key = "mode" => f.kind \in {"settings", "heartbeat"}
  BY DEF PressFrames

\* Nothing was pressed.
LEMMA PressInitHolds == ASSUME Press!WallboxInit PROVE PressInv
<1>1. CallsInv
  BY CallsInitHolds DEF Press!WallboxInit
<1>2. PressTypes
  BY DEF Press!WallboxInit, Press!SlotInit, Press!Asked, PressTypes
<1>3. pending = NoCall
  BY DEF Press!WallboxInit, Press!SlotInit
<1> QED
  BY <1>1, <1>2, <1>3 DEF PressInv, SinceInv

\* A press leaves when no older frame of the wallbox is on its way.
LEMMA PressPublishes ==
  ASSUME PromptFrames, PressInv, NEW c \in Calls, NEW key \in {"status", "amps", "mode"}, NEW want,
         [at |-> "sending", key |-> key, want |-> want] \in PressAsked, Press!Publishes(c, key, want)
  PROVE  PressInv'
<1> DEFINE new == [at |-> "sending", key |-> key, want |-> want]
<1>1. /\ Press!MayPublish(c) /\ Press!Settled
      /\ Press!Records(c, new, wallbox[key])
      /\ asked' = Append(asked, [key |-> key, want |-> want])
      /\ UNCHANGED <<shutdown, oceans, gone, wallbox, beat, frames, shown, young, ownSeen>>
  BY DEF Press!Publishes, Press!viewVars
<1>2. "at" \in DOMAIN new /\ new.at = "sending" /\ new.key = key /\ new \in PressAsked
  OBVIOUS
<1> HIDE DEF new
<1>3. \A d \in Calls : call[d].at = "idle"
  BY <1>1, QueueAssumption DEF Press!MayPublish, PressInv, CallsInv
<1>4. /\ CallsInv' /\ call'[c] = new /\ pending' = c /\ ~resolved' /\ since' = {wallbox[key]}
      /\ \A d \in Calls \ {c} : call'[d].at = "idle"
  BY <1>1, <1>2, <1>3, CallRecords DEF PressInv
<1>5. PressTypes'
  <2>1. [key |-> key, want |-> want] \in PressWrites
    BY DEF PressAsked, PressWrites
  <2>2. asked' \in Seq(PressWrites)
    BY <1>1, <2>1 DEF PressInv, PressTypes
  <2> QED
    BY <1>1, <1>2, <1>4, <2>2 DEF PressInv, PressTypes
<1>6. SinceInv'
  BY <1>1, <1>2, <1>4 DEF SinceInv, Press!Settled, PressInv, PressTypes
<1> QED
  BY <1>4, <1>5, <1>6 DEF PressInv

\* A call goes on, or ends.
LEMMA PressProgress ==
  ASSUME PressInv, NEW c \in Calls, Press!Progress(c)
  PROVE  PressInv'
<1>1. UNCHANGED <<wallbox, beat, asked, frames, young>>
  BY DEF Press!Progress, Press!boxVars, Press!viewVars
<1>2. CASE Press!Delivered(c)
  <2>1. call[c] \in PressAsked /\ "at" \in DOMAIN call[c]
    BY <1>2 DEF Press!Delivered, Press!At, PressInv, PressTypes, PressAsked
  <2>2. /\ CallsInv' /\ UNCHANGED <<pending, resolved, shutdown, since>>
        /\ call'[c] = [call[c] EXCEPT !.at = "confirming"]
        /\ \A d \in Calls \ {c} : call'[d] = call[d]
    BY <1>2, <2>1, CallDelivered DEF PressInv
  <2>3. call'[c] \in PressAsked /\ call'[c].key = call[c].key /\ call'[c].want = call[c].want
    BY <2>1, <2>2 DEF PressAsked, Out
  <2>4. PressTypes'
    BY <1>1, <2>2, <2>3 DEF PressInv, PressTypes
  <2>5. pending # NoCall => /\ call'[pending].key = call[pending].key
                            /\ Press!Confirming(call'[pending]) = Press!Confirming(call[pending])
    BY <2>2, <2>3 DEF PressInv, CallsInv, Press!Confirming
  <2>6. SinceInv'
    BY <1>1, <2>2, <2>5 DEF PressInv, SinceInv, Shows
  <2> QED
    BY <2>2, <2>4, <2>6 DEF PressInv
<1>3. CASE Press!Ends(c)
  <2>1. /\ CallsInv'
        /\ call'[c].at = "idle" /\ \A d \in Calls \ {c} : call'[d] = call[d]
        /\ pending' # NoCall => /\ pending' = pending /\ pending # c
                                /\ since' = since /\ (resolved' => resolved)
    BY <1>3, CallEnds DEF PressInv
  <2>2. PressTypes'
    BY <1>1, <2>1 DEF PressInv, PressTypes
  <2>3. pending' # NoCall => call'[pending] = call[pending]
    BY <2>1 DEF PressInv, CallsInv
  <2>4. SinceInv'
    BY <1>1, <2>1, <2>3 DEF PressInv, SinceInv, Shows
  <2> QED
    BY <2>1, <2>2, <2>4 DEF PressInv
<1> QED
  BY <1>2, <1>3 DEF Press!Progress, Press!NotDelivered, Press!Unconfirmed, Press!Cancelled

\* The wallbox moves, by itself or by a write, and what it is now counts.
LEMMA BoxMoves ==
  ASSUME PressInv, NEW new \in [status : Press!Statuses, mode : Press!Modes, amps : Levels],
         Press!Moves(new), asked' \in Seq(PressWrites),
         UNCHANGED <<call, pending, resolved, sender, shutdown, beat, frames, young>>
  PROVE  PressInv'
<1>1. /\ wallbox' = new
      /\ since' = IF pending = NoCall THEN since ELSE since \cup {new[call[pending].key]}
  BY DEF Press!Moves
<1>2. CallsInv' /\ PressTypes'
  BY <1>1 DEF PressInv, CallsInv, PressTypes
<1>3. pending # NoCall => /\ wallbox'[call[pending].key] \in since'
                          /\ since \subseteq since'
  BY <1>1
<1>4. SinceInv'
  BY <1>3 DEF PressInv, SinceInv, Shows
<1> QED
  BY <1>2, <1>4 DEF PressInv

\* The wallbox and its owner act, frames leave, and time passes.
LEMMA PressBox ==
  ASSUME PressInv,
         \/ Press!BoxTakes \/ Press!BoxLoses \/ Press!OwnerActs \/ Press!BeatFollows \/ Press!BoxReports
         \/ Press!ReportAges \/ Press!TableGone
         \/ UNCHANGED <<recordVars, since, pressVars>>
  PROVE  PressInv'
<1>1. /\ wallbox \in [status : Press!Statuses, mode : Press!Modes, amps : Levels]
      /\ asked \in Seq(PressWrites) /\ frames \in Seq(PressFrames) /\ beat \in Press!Modes
  BY DEF PressInv, PressTypes
<1>2. CASE Press!BoxTakes
  <2> DEFINE w == Head(asked)
  <2>1. /\ asked # <<>> /\ Press!Moves(Press!Taken(w)) /\ asked' = Tail(asked)
        /\ UNCHANGED <<call, pending, resolved, sender, shutdown, beat, frames, young>>
    BY <1>2 DEF Press!BoxTakes, Press!viewVars
  <2>2. w \in PressWrites /\ asked' \in Seq(PressWrites)
    BY <1>1, <2>1
  <2> HIDE DEF w
  <2>3. Press!Taken(w) \in [status : Press!Statuses, mode : Press!Modes, amps : Levels]
    <3>1. CASE w.want = "start"
      <4>1. Press!Taken(w) = [wallbox EXCEPT !.status = "charging"]
        BY <3>1, Zenon DEF Press!Taken
      <4> QED
        BY <1>1, <4>1 DEF Press!Statuses
    <3>2. CASE w.want = "stop"
      <4>1. Press!Taken(w) = [wallbox EXCEPT !.status = IF wallbox.status = "charging" THEN "finishing"
                                                        ELSE wallbox.status]
        BY <3>2, Zenon DEF Press!Taken
      <4> QED
        BY <1>1, <4>1 DEF Press!Statuses
    <3>3. CASE w.want \notin {"start", "stop"}
      <4>1. Press!Taken(w) = [wallbox EXCEPT ![w.key] = w.want]
        BY <3>3, Zenon DEF Press!Taken
      <4>2. CASE w.key = "amps" /\ w.want \in Levels
        BY <1>1, <4>1, <4>2
      <4>3. CASE w.key = "mode" /\ w.want \in Press!Modes
        BY <1>1, <4>1, <4>3
      <4> QED
        BY <2>2, <3>3, <4>2, <4>3 DEF PressWrites, Press!Actions
    <3> QED
      BY <3>1, <3>2, <3>3
  <2> QED
    BY <2>1, <2>2, <2>3, BoxMoves
<1>3. CASE Press!OwnerActs
  <2>1. UNCHANGED <<call, pending, resolved, sender, shutdown, beat, asked, frames, young>>
    BY <1>3 DEF Press!OwnerActs, Press!viewVars
  <2>2. PICK new \in [status : Press!Statuses, mode : Press!Modes, amps : Levels] : Press!Moves(new)
    BY <1>1, <1>3 DEF Press!OwnerActs
  <2> QED
    BY <1>1, <2>1, <2>2, BoxMoves
<1>4. CASE \/ Press!BoxLoses \/ Press!TableGone
           \/ UNCHANGED <<recordVars, since, pressVars>>
  <2>1. /\ UNCHANGED <<call, pending, resolved, sender, shutdown, since, wallbox, beat, frames, young>>
        /\ asked' = asked \/ (asked # <<>> /\ asked' = Tail(asked))
    BY <1>4 DEF Press!BoxLoses, Press!TableGone, Press!slotVars, Press!viewVars, Press!boxVars,
       recordVars, pressVars
  <2>2. asked' \in Seq(PressWrites)
    BY <1>1, <2>1
  <2>3. CallsInv' /\ PressTypes'
    BY <2>1, <2>2 DEF PressInv, CallsInv, PressTypes
  <2>4. SinceInv'
    BY <2>1 DEF PressInv, SinceInv, Shows
  <2> QED
    BY <2>3, <2>4 DEF PressInv
<1>5. CASE Press!BeatFollows
  <2>1. /\ beat' = wallbox.mode
        /\ UNCHANGED <<call, pending, resolved, sender, shutdown, since, wallbox, asked, frames, young>>
    BY <1>5 DEF Press!BeatFollows, Press!slotVars, Press!viewVars
  <2>2. CallsInv' /\ PressTypes'
    BY <1>1, <2>1 DEF PressInv, CallsInv, PressTypes
  <2>3. SinceInv'
    BY <2>1 DEF PressInv, SinceInv, Shows
  <2> QED
    BY <2>2, <2>3 DEF PressInv
<1>6. CASE Press!ReportAges
  <2>1. /\ beat = wallbox.mode
        /\ \A i \in DOMAIN frames : frames[i].kind = "heartbeat" => frames[i].mode = beat
        /\ UNCHANGED <<call, pending, resolved, sender, shutdown, since, wallbox, beat, asked, frames>>
    BY <1>6 DEF Press!ReportAges, Press!slotVars, Press!boxVars
  <2>2. CallsInv' /\ PressTypes'
    BY <2>1 DEF PressInv, CallsInv, PressTypes
  <2>3. SinceInv'
    BY <2>1 DEF PressInv, SinceInv, Shows
  <2> QED
    BY <2>2, <2>3 DEF PressInv
<1>7. CASE Press!BoxReports
  <2>1. PICK f \in Press!Frames : frames' = Append(frames, f)
    BY <1>7 DEF Press!BoxReports
  <2>2. UNCHANGED <<call, pending, resolved, sender, shutdown, since, wallbox, beat, asked, young>>
    BY <1>7 DEF Press!BoxReports, Press!slotVars, Press!viewVars
  <2>3. /\ f \in PressFrames
        /\ f.kind = "heartbeat" => f.status = wallbox.status /\ f.mode = beat
        /\ f.kind \in {"parameters", "settings"} => f.amps = wallbox.amps
        /\ f.kind = "settings" => f.mode = wallbox.mode
    BY <1>1 DEF Press!Frames, PressFrames
  <2>4. /\ frames' \in Seq(PressFrames)
        /\ \A i \in DOMAIN frames' : \/ frames'[i] = f
                                     \/ i \in DOMAIN frames /\ frames'[i] = frames[i]
    BY <1>1, <2>1, <2>3
  <2>5. CallsInv' /\ PressTypes'
    BY <2>2, <2>4 DEF PressInv, CallsInv, PressTypes
  <2>6. SinceInv'
    <3> SUFFICES ASSUME pending # NoCall
                 PROVE  LET key == call[pending].key
                        IN  \A i \in DOMAIN frames' : Shows(frames'[i], key, young') => frames'[i][key] \in since
      BY <2>2 DEF PressInv, SinceInv
    <3> DEFINE key == call[pending].key
    <3>1. key \in {"status", "amps", "mode"}
      BY DEF PressInv, PressTypes, PressAsked, CallsInv, Out
    <3> HIDE DEF key
    <3>2. wallbox[key] \in since /\ (key = "mode" /\ ~young => beat \in since)
      BY DEF PressInv, SinceInv, key
    <3>3. Shows(f, key, young) => f[key] \in since
      BY <2>3, <3>1, <3>2 DEF Shows
    <3>4. \A i \in DOMAIN frames' : Shows(frames'[i], key, young') => frames'[i][key] \in since
      <4>1. ASSUME NEW i \in DOMAIN frames', Shows(frames'[i], key, young')
            PROVE  frames'[i][key] \in since
        <5>1. Shows(frames'[i], key, young)
          BY <2>2, <4>1 DEF Shows
        <5>2. CASE frames'[i] = f
          BY <3>3, <5>1, <5>2
        <5>3. CASE i \in DOMAIN frames /\ frames'[i] = frames[i]
          BY <5>1, <5>3 DEF PressInv, SinceInv, key
        <5> QED
          BY <2>4, <5>2, <5>3
      <4> QED
        BY <4>1
    <3> QED
      BY <3>4 DEF key
  <2> QED
    BY <2>5, <2>6 DEF PressInv
<1> QED
  BY <1>2, <1>3, <1>4, <1>5, <1>6, <1>7

\* A frame arrives, and may confirm the press.
LEMMA PressFrameArrives ==
  ASSUME PressInv, Press!FrameArrives
  PROVE  PressInv'
<1> DEFINE f == Head(frames)
<1>1. /\ frames # <<>> /\ frames' = Tail(frames)
      /\ Press!Applied(Press!Resolved(f)) \/ UNCHANGED <<resolved, shown, young>>
      /\ UNCHANGED <<call, pending, sender, shutdown, since, wallbox, beat, asked>>
  BY DEF Press!FrameArrives, Press!viewVars
<1>2. /\ f \in PressFrames /\ f = frames[1] /\ 1 \in DOMAIN frames
      /\ frames' \in Seq(PressFrames)
      /\ \A i \in DOMAIN frames' : i + 1 \in DOMAIN frames /\ frames'[i] = frames[i + 1]
  BY <1>1 DEF PressInv, PressTypes
<1> HIDE DEF f
<1>3. /\ resolved' => resolved \/ Press!Confirms(Press!Resolved(f))
      /\ young => young'
  <2>1. CASE Press!Applied(Press!Resolved(f))
    <3>1. resolved' = (resolved \/ Press!Confirms(Press!Resolved(f)))
      BY <2>1 DEF Press!Applied
    <3>2. young' = (young \/ Press!Resolved(f).kind = "settings")
      BY <2>1 DEF Press!Applied
    <3> QED
      BY <3>1, <3>2
  <2>2. CASE UNCHANGED <<resolved, shown, young>>
    BY <2>2
  <2> QED
    BY <1>1, <2>1, <2>2
<1>4. CallsInv'
  BY <1>1, <1>3 DEF PressInv, CallsInv, Press!Confirms
<1>5. PressTypes'
  BY <1>1, <1>2 DEF PressInv, PressTypes
<1>6. SinceInv'
  <2> SUFFICES ASSUME pending # NoCall
               PROVE  LET key == call[pending].key
                      IN  /\ wallbox[key] \in since
                          /\ \A i \in DOMAIN frames' : Shows(frames'[i], key, young') => frames'[i][key] \in since
                          /\ key = "mode" /\ ~young' => beat \in since
                          /\ resolved' => Press!Confirming(call[pending]) \cap since # {}
    BY <1>1 DEF SinceInv
  <2> DEFINE key == call[pending].key
  <2>1. key \in {"status", "amps", "mode"}
    BY DEF PressInv, PressTypes, PressAsked, CallsInv, Out
  <2>2. /\ wallbox[key] \in since
        /\ \A i \in DOMAIN frames : Shows(frames[i], key, young) => frames[i][key] \in since
        /\ key = "mode" /\ ~young => beat \in since
        /\ resolved => Press!Confirming(call[pending]) \cap since # {}
    BY DEF PressInv, SinceInv
  <2>3. Press!Confirms(Press!Resolved(f)) =>
          /\ key \in DOMAIN Press!Resolved(f)
          /\ Press!Resolved(f)[key] \in Press!Confirming(call[pending])
    BY DEF Press!Confirms
  <2> HIDE DEF key
  <2>4. ASSUME key \in DOMAIN Press!Resolved(f)
        PROVE  Shows(f, key, young) /\ Press!Resolved(f)[key] = f[key]
    <3>1. CASE f.kind = "heartbeat" /\ young
      <4>1. Press!Resolved(f) = [k \in DOMAIN f \ {"mode"} |-> f[k]]
        BY <3>1 DEF Press!Resolved
      <4>2. key \in DOMAIN f /\ key # "mode" /\ Press!Resolved(f)[key] = f[key]
        BY <2>4, <4>1
      <4> QED
        BY <1>2, <2>1, <4>2, FrameFields DEF Shows
    <3>2. CASE ~(f.kind = "heartbeat" /\ young)
      <4>1. Press!Resolved(f) = f
        BY <3>2 DEF Press!Resolved
      <4>2. key \in DOMAIN f
        BY <2>4, <4>1
      <4> QED
        BY <1>2, <2>1, <3>2, <4>1, <4>2, FrameFields DEF Shows
    <3> QED
      BY <3>1, <3>2
  <2>5. resolved' => Press!Confirming(call[pending]) \cap since # {}
    BY <1>2, <1>3, <2>2, <2>3, <2>4
  <2>6. ASSUME NEW i \in DOMAIN frames', Shows(frames'[i], key, young')
        PROVE  frames'[i][key] \in since
    <3>1. Shows(frames'[i], key, young)
      BY <1>3, <2>6 DEF Shows
    <3> QED
      BY <1>2, <2>2, <3>1
  <2> QED
    BY <1>3, <2>2, <2>5, <2>6 DEF key
<1> QED
  BY <1>4, <1>5, <1>6 DEF PressInv

\* Every step of the presses keeps it.
LEMMA PressStepHolds ==
  ASSUME PromptFrames, PressInv, [Press!WallboxNext]_<<recordVars, since, pressVars>>
  PROVE  PressInv'
<1>1. ASSUME NEW c \in Calls, NEW action \in Press!Actions, Press!ChargeAction(c, action) PROVE PressInv'
  <2>1. [at |-> "sending", key |-> "status", want |-> action] \in PressAsked
    BY DEF PressAsked, Out
  <2> QED
    BY <1>1, <2>1, PressPublishes DEF Press!ChargeAction
<1>2. ASSUME NEW c \in Calls, NEW a \in Levels, Press!MaxCurrent(c, a) \/ Press!ChargeCurrent(c, a)
      PROVE  PressInv'
  <2>1. [at |-> "sending", key |-> "amps", want |-> a] \in PressAsked
    BY DEF PressAsked, Out
  <2> QED
    BY <1>2, <2>1, PressPublishes DEF Press!MaxCurrent, Press!ChargeCurrent
<1>3. ASSUME NEW c \in Calls, NEW m \in Press!Modes, Press!ChargeMode(c, m) PROVE PressInv'
  <2>1. [at |-> "sending", key |-> "mode", want |-> m] \in PressAsked
    BY DEF PressAsked, Out
  <2> QED
    BY <1>3, <2>1, PressPublishes DEF Press!ChargeMode
<1>4. ASSUME NEW c \in Calls, Press!Progress(c) PROVE PressInv'
  BY <1>4, PressProgress
<1>5. CASE \/ Press!BoxTakes \/ Press!BoxLoses \/ Press!OwnerActs \/ Press!BeatFollows \/ Press!BoxReports
           \/ Press!ReportAges \/ Press!TableGone
           \/ UNCHANGED <<recordVars, since, pressVars>>
  BY <1>5, PressBox
<1>6. CASE Press!FrameArrives
  BY <1>6, PressFrameArrives
<1>7. CASE Press!WallboxStops
  <2>1. Press!Stops /\ UNCHANGED <<wallbox, beat, asked, frames, young>>
    BY <1>7 DEF Press!WallboxStops, Press!boxVars, Press!viewVars
  <2>2. CallsInv' /\ call' = call /\ pending' = NoCall /\ ~resolved'
    BY <2>1, CallStops DEF PressInv
  <2> QED
    BY <2>1, <2>2 DEF PressInv, PressTypes, SinceInv
<1> QED
  BY <1>1, <1>2, <1>3, <1>4, <1>5, <1>6, <1>7 DEF Press!WallboxNext

-----------------------------------------------------------------------------
(* Heating rods.  Writes are taken in the order they left, and the only one    *)
(* that may still change a rod is the last, that of the call that waits: what  *)
(* earlier calls left under way asks for what the rod is already.              *)

RodWritesOf ==
    [rod : Rods, step : {"mode"}, want : Rod!Modes] \cup [rod : Rods, step : {"power"}, want : Levels]
    \cup [rod : Rods, step : {"run"}, want : Rod!Options]
RodReportsOf == [rod : present, is : Rod!RodStates]
RodAsked ==
    [at : Out, rod : present, step : {"mode"}, want : Rod!Modes, then : Rod!Modes]
    \cup [at : Out, rod : present, step : {"power"}, want : Levels, then : {"power"}]
    \cup [at : Out, rod : present, step : {"run"}, want : Rod!Options, then : Rod!Options]

RodTypes ==
    /\ present \subseteq Rods /\ rods \in [Rods -> Rod!RodStates]
    /\ toRod \in Seq(RodWritesOf) /\ fromRod \in Seq(RodReportsOf) /\ last \in RodReportsOf
    /\ chosen \subseteq Rod!Options
    /\ \A c \in Calls : call[c].at # "idle" =>
          call[c] \in RodAsked /\ (call[c].step # "power" => call[c].then = call[c].want)

\* A rod that takes w stays as it is.
Done(w, is) ==
    /\ w.step = "mode" => is.mode = w.want
    /\ w.step = "power" => is.power = w.want
    /\ w.step = "run" => (is.on <=> w.want # "off")

\* What was reported since the record was made is what the rod was since then.
RodFramesInv ==
    pending # NoCall =>
        /\ Rod!Reads(call[pending].step, rods[call[pending].rod]) \in since
        /\ \A i \in DOMAIN fromRod : fromRod[i].rod = call[pending].rod =>
              Rod!Reads(call[pending].step, fromRod[i].is) \in since
        /\ resolved => call[pending].want \in since

\* The last write under way is the waiting call's, or asks for nothing new.
LastWriteInv ==
    /\ \A i \in DOMAIN toRod : ~Done(toRod[i], rods[toRod[i].rod]) =>
          /\ i = Len(toRod)
          /\ \E c \in Calls : /\ call[c].at # "idle" /\ call[c].rod = toRod[i].rod
                              /\ call[c].step = toRod[i].step /\ call[c].want = toRod[i].want
    /\ pending # NoCall =>
          LET now == Rod!Reads(call[pending].step, rods[call[pending].rod])
          IN  /\ (\E i \in DOMAIN toRod : ~Done(toRod[i], rods[toRod[i].rod])) => since = {now}
              /\ call[pending].want \in since => now = call[pending].want

\* A mode is confirmed by a report that says whether its rod is on.
OnInv ==
    pending # NoCall /\ call[pending].step = "mode" =>
        /\ \A i \in DOMAIN fromRod : fromRod[i].rod = call[pending].rod =>
              (fromRod[i].is.on <=> rods[call[pending].rod].on)
        /\ resolved /\ present = {call[pending].rod} => (last.is.on <=> rods[call[pending].rod].on)

ChosenInv ==
    /\ chosen # {} => \A c \in Calls : call[c].at # "idle" => call[c].step = "power"
    /\ \A r \in present : present = {r} => chosen \subseteq {Rod!Operating(rods[r])}

ChoiceInv == LastWriteInv /\ OnInv /\ ChosenInv

RodInv == CallsInv /\ RodTypes /\ RodFramesInv

\* What a write of each step is compared with.
LEMMA ReadsFacts ==
  ASSUME NEW is \in Rod!RodStates
  PROVE  /\ Rod!Reads("mode", is) = is.mode
         /\ Rod!Reads("power", is) = is.power
         /\ Rod!Reads("run", is) = Rod!Operating(is)
         /\ Rod!Operating(is) = (IF is.on THEN is.mode ELSE "off")
         /\ is.mode \in Rod!Modes /\ is.mode # "off"
         /\ is.power \in Levels
<1>1. Rod!Reads("mode", is) = is.mode
  BY Zenon DEF Rod!Reads
<1>2. Rod!Reads("power", is) = is.power
  BY Zenon DEF Rod!Reads
<1>3. Rod!Reads("run", is) = Rod!Operating(is)
  BY Zenon DEF Rod!Reads
<1>4. is.mode \in Rod!Modes /\ is.mode # "off" /\ is.power \in Levels
  BY DEF Rod!RodStates, Rod!Modes
<1> QED
  BY <1>1, <1>2, <1>3, <1>4 DEF Rod!Operating

\* What a rod is once it took a write.
LEMMA TookFacts ==
  ASSUME NEW is \in Rod!RodStates, NEW w \in RodWritesOf
  PROVE  /\ Rod!Took(is, w) \in Rod!RodStates
         /\ Done(w, is) => Rod!Took(is, w) = is
         /\ Done(w, Rod!Took(is, w))
         /\ w.step = "mode" => (Rod!Took(is, w).on <=> is.on)
         /\ w.step = "power" => Rod!Operating(Rod!Took(is, w)) = Rod!Operating(is)
<1>1. CASE w.step = "mode"
  <2>1. Rod!Took(is, w) = [is EXCEPT !.mode = w.want]
    BY <1>1, Zenon DEF Rod!Took
  <2>2. w.want \in Rod!Modes
    BY <1>1 DEF RodWritesOf
  <2> QED
    BY <1>1, <2>1, <2>2 DEF Rod!RodStates, Done
<1>2. CASE w.step = "power"
  <2>1. Rod!Took(is, w) = [is EXCEPT !.power = w.want]
    BY <1>2, Zenon DEF Rod!Took
  <2>2. w.want \in Levels
    BY <1>2 DEF RodWritesOf
  <2>3. Rod!Took(is, w).on = is.on /\ Rod!Took(is, w).mode = is.mode
    BY <2>1 DEF Rod!RodStates
  <2> QED
    BY <1>2, <2>1, <2>2, <2>3 DEF Rod!RodStates, Done, Rod!Operating
<1>3. CASE w.step = "run"
  <2>1. Rod!Took(is, w) = [is EXCEPT !.on = (w.want # "off")]
    BY <1>3, Zenon DEF Rod!Took
  <2> DEFINE on == w.want # "off"
  <2>2. on \in BOOLEAN
    OBVIOUS
  <2>3. Rod!Took(is, w) = [is EXCEPT !.on = on]
    BY <2>1
  <2> HIDE DEF on
  <2>4. Rod!Took(is, w) \in Rod!RodStates /\ Rod!Took(is, w).on = on
    BY <2>2, <2>3 DEF Rod!RodStates
  <2>5. is.on = on => Rod!Took(is, w) = is
    BY <2>3 DEF Rod!RodStates
  <2>6. is.on \in BOOLEAN
    BY DEF Rod!RodStates
  <2> QED
    BY <1>3, <2>2, <2>4, <2>5, <2>6 DEF Done, on
<1> QED
  BY <1>1, <1>2, <1>3 DEF RodWritesOf

\* A rod that shows what a write asks for has nothing left to do for it.
LEMMA ShownIsDone ==
  ASSUME NEW is \in Rod!RodStates, NEW w \in RodWritesOf, Rod!Reads(w.step, is) = w.want
  PROVE  Done(w, is)
  BY ReadsFacts DEF RodWritesOf, Done, Rod!Options, Rod!Modes

\* Nothing was written to a rod.
LEMMA RodInitHolds == ASSUME Rod!RodInit PROVE RodInv /\ ChoiceInv
<1>1. CallsInv
  BY CallsInitHolds DEF Rod!RodInit
<1>2. /\ call = [c \in Calls |-> [at |-> "idle"]] /\ pending = NoCall
      /\ toRod = <<>> /\ fromRod = <<>> /\ chosen = {}
      /\ present \subseteq Rods /\ rods \in [Rods -> Rod!RodStates]
  BY DEF Rod!RodInit, Rod!SlotInit, Rod!Asked
<1>3. last \in RodReportsOf
  <2>1. PICK r \in present : last = [rod |-> r, is |-> rods[r]]
    BY DEF Rod!RodInit
  <2>2. rods[r] \in Rod!RodStates
    BY <1>2, <2>1
  <2> QED
    BY <2>1, <2>2 DEF RodReportsOf
<1>4. RodTypes
  BY <1>2, <1>3 DEF RodTypes
<1> QED
  BY <1>1, <1>2, <1>4 DEF RodInv, RodFramesInv, ChoiceInv, LastWriteInv, OnInv, ChosenInv

\* What the record of a call says.
LEMMA AskedFacts ==
  ASSUME NEW a \in RodAsked
  PROVE  /\ a.at \in Out /\ a.rod \in present /\ "at" \in DOMAIN a
         /\ a.step \in {"mode", "power", "run"}
         /\ a.step = "mode" => a.want \in Rod!Modes /\ a.then \in Rod!Modes
         /\ a.step = "power" => a.want \in Levels /\ a.then = "power"
         /\ a.step = "run" => a.want \in Rod!Options /\ a.then \in Rod!Options
         /\ [rod |-> a.rod, step |-> a.step, want |-> a.want] \in [rod : present, step : {a.step}, want : {a.want}]
         /\ [a EXCEPT !.at = "confirming"] \in RodAsked
         /\ [a EXCEPT !.at = "confirming"].rod = a.rod /\ [a EXCEPT !.at = "confirming"].step = a.step
         /\ [a EXCEPT !.at = "confirming"].want = a.want /\ [a EXCEPT !.at = "confirming"].then = a.then
         /\ [a EXCEPT !.at = "confirming"].at = "confirming"
  BY DEF RodAsked, Out

\* A call sends a write to a rod of which nothing older is on its way.
LEMMA RodSends ==
  ASSUME PromptFrames, RodInv, NEW c \in Calls, NEW write \in RodAsked, write.at = "sending",
         write.step # "power" => write.then = write.want,
         Rod!Sends(c, write), \A d \in Calls \ {c} : call[d].at = "idle",
         UNCHANGED <<present, rods, fromRod, last>>, chosen' \subseteq Rod!Options
  PROVE  /\ RodInv' /\ call'[c] = write /\ pending' = c /\ ~resolved'
         /\ since' = {Rod!Reads(write.step, rods[write.rod])}
         /\ \A d \in Calls \ {c} : call'[d].at = "idle"
         /\ \A i \in DOMAIN fromRod : fromRod[i].rod # write.rod
         /\ toRod' = Append(toRod, [rod |-> write.rod, step |-> write.step, want |-> write.want])
         /\ [rod |-> write.rod, step |-> write.step, want |-> write.want] \in RodWritesOf
<1> DEFINE w == [rod |-> write.rod, step |-> write.step, want |-> write.want]
<1>1. /\ Rod!Records(c, write, Rod!Reads(write.step, rods[write.rod]))
      /\ \A i \in DOMAIN fromRod : fromRod[i].rod # write.rod
      /\ toRod' = Append(toRod, w) /\ UNCHANGED shutdown
  BY DEF Rod!Sends
<1>2. /\ CallsInv' /\ call'[c] = write /\ pending' = c /\ ~resolved'
      /\ since' = {Rod!Reads(write.step, rods[write.rod])}
      /\ \A d \in Calls \ {c} : call'[d].at = "idle"
  <2>1. "at" \in DOMAIN write
    BY AskedFacts
  <2> HIDE DEF w
  <2> QED
    BY <1>1, <2>1, CallRecords DEF RodInv
<1>3. w \in RodWritesOf
  BY AskedFacts DEF RodInv, RodTypes, RodWritesOf
<1>4. toRod' \in Seq(RodWritesOf)
  BY <1>1, <1>3 DEF RodInv, RodTypes
<1>5. RodTypes'
  <2>1. RodReportsOf' = RodReportsOf /\ RodAsked' = RodAsked
    BY DEF RodReportsOf, RodAsked
  <2>2. \A d \in Calls : call'[d].at # "idle" =>
          call'[d] \in RodAsked /\ (call'[d].step # "power" => call'[d].then = call'[d].want)
    BY <1>2
  <2> QED
    BY <1>4, <2>1, <2>2 DEF RodInv, RodTypes
<1>6. RodFramesInv'
  BY <1>1, <1>2 DEF RodFramesInv
<1> QED
  BY <1>1, <1>2, <1>3, <1>5, <1>6 DEF RodInv

\* A new write is the last one under way, and drops an earlier choice it changes.
LEMMA ChoiceSends ==
  ASSUME PromptFrames, RodInv, ChoiceInv, NEW c \in Calls, NEW write \in RodAsked, write.at = "sending",
         write.step # "power" => write.then = write.want,
         Rod!Sends(c, write), \A d \in Calls \ {c} : call[d].at = "idle",
         UNCHANGED <<present, rods, fromRod, last>>,
         chosen' = {} \/ (chosen' = chosen /\ (chosen # {} => write.step = "power")),
         \A i \in DOMAIN toRod : Done(toRod[i], rods[toRod[i].rod])
  PROVE  ChoiceInv'
<1> DEFINE w == [rod |-> write.rod, step |-> write.step, want |-> write.want]
<1>1. chosen' \subseteq Rod!Options
  BY DEF RodInv, RodTypes
<1>2. /\ call'[c] = write /\ pending' = c /\ ~resolved'
      /\ since' = {Rod!Reads(write.step, rods[write.rod])}
      /\ \A d \in Calls \ {c} : call'[d].at = "idle"
      /\ \A i \in DOMAIN fromRod : fromRod[i].rod # write.rod
      /\ toRod' = Append(toRod, w) /\ w \in RodWritesOf
  BY <1>1, RodSends
<1>3. /\ Len(toRod') = Len(toRod) + 1 /\ toRod'[Len(toRod')] = w
      /\ \A i \in DOMAIN toRod' : i = Len(toRod') \/ (i \in DOMAIN toRod /\ toRod'[i] = toRod[i])
  <2> HIDE DEF w
  <2> QED
    BY <1>2 DEF RodInv, RodTypes
<1>4. LastWriteInv'
  <2>1. ASSUME NEW i \in DOMAIN toRod', ~Done(toRod'[i], rods[toRod'[i].rod])
        PROVE  i = Len(toRod') /\ toRod'[i].rod = write.rod /\ toRod'[i].step = write.step
               /\ toRod'[i].want = write.want
    BY <1>3, <2>1
  <2>2. write.at # "idle"
    OBVIOUS
  <2> QED
    BY <1>2, <2>1, <2>2 DEF LastWriteInv
<1>5. OnInv'
  BY <1>2 DEF OnInv
<1>6. ChosenInv'
  BY <1>2 DEF ChoiceInv, ChosenInv
<1> QED
  BY <1>4, <1>5, <1>6 DEF ChoiceInv

\* A call ends and leaves the rods alone.
LEMMA RodEnds ==
  ASSUME RodInv, NEW c \in Calls, Rod!Ends(c), UNCHANGED <<present, rods, toRod, fromRod, last>>,
         chosen' \subseteq Rod!Options
  PROVE  /\ RodInv' /\ call'[c].at = "idle" /\ \A d \in Calls \ {c} : call'[d] = call[d]
         /\ pending' # NoCall => /\ pending' = pending /\ call'[pending] = call[pending]
                                 /\ since' = since /\ (resolved' => resolved)
<1>1. /\ CallsInv'
      /\ call'[c].at = "idle" /\ \A d \in Calls \ {c} : call'[d] = call[d]
      /\ pending' # NoCall => /\ pending' = pending /\ pending # c
                              /\ since' = since /\ (resolved' => resolved)
  BY CallEnds DEF RodInv
<1>2. pending' # NoCall => call'[pending] = call[pending]
  BY <1>1 DEF RodInv, CallsInv
<1>3. RodTypes'
  <2>1. RodReportsOf' = RodReportsOf /\ RodAsked' = RodAsked
    BY DEF RodReportsOf, RodAsked
  <2>2. \A d \in Calls : call'[d].at # "idle" =>
          call'[d] \in RodAsked /\ (call'[d].step # "power" => call'[d].then = call'[d].want)
    BY <1>1 DEF RodInv, RodTypes
  <2> QED
    BY <2>1, <2>2 DEF RodInv, RodTypes
<1>4. RodFramesInv'
  BY <1>1, <1>2 DEF RodInv, RodFramesInv
<1> QED
  BY <1>1, <1>2, <1>3, <1>4 DEF RodInv

\* A call ends when its write is done, or no longer under way.
LEMMA ChoiceEnds ==
  ASSUME RodInv, ChoiceInv, NEW c \in Calls, Rod!Ends(c), call[c].at # "idle",
         UNCHANGED <<present, rods, toRod, fromRod, last>>, chosen' \subseteq Rod!Options,
         \A i \in DOMAIN toRod : toRod[i].rod = call[c].rod => Done(toRod[i], rods[toRod[i].rod]),
         \/ chosen' = chosen
         \/ \A r \in present : present = {r} => chosen' \subseteq {Rod!Operating(rods[r])}
  PROVE  ChoiceInv'
<1>1. /\ call'[c].at = "idle" /\ \A d \in Calls \ {c} : call'[d] = call[d] /\ call'[d].at = "idle"
      /\ pending' # NoCall => /\ pending' = pending /\ call'[pending] = call[pending]
                              /\ since' = since /\ (resolved' => resolved)
  BY RodEnds DEF RodInv, CallsInv
<1>2. \A i \in DOMAIN toRod : Done(toRod[i], rods[toRod[i].rod])
  <2> SUFFICES ASSUME NEW i \in DOMAIN toRod, ~Done(toRod[i], rods[toRod[i].rod]) PROVE FALSE
    OBVIOUS
  <2>1. PICK d \in Calls : call[d].at # "idle" /\ call[d].rod = toRod[i].rod
    BY DEF ChoiceInv, LastWriteInv
  <2>2. d = c
    BY <2>1 DEF RodInv, CallsInv
  <2> QED
    BY <2>1, <2>2
<1>3. LastWriteInv'
  BY <1>1, <1>2 DEF ChoiceInv, LastWriteInv
<1>4. OnInv'
  BY <1>1 DEF ChoiceInv, OnInv
<1>5. ChosenInv'
  BY <1>1 DEF ChoiceInv, ChosenInv
<1> QED
  BY <1>3, <1>4, <1>5 DEF ChoiceInv

\* Once the rod's report has confirmed a write, nothing under way changes a rod.
LEMMA ResolvedIsDone ==
  ASSUME RodInv, ChoiceInv, resolved
  PROVE  /\ pending \in Calls /\ call[pending] \in RodAsked
         /\ Rod!Reads(call[pending].step, rods[call[pending].rod]) = call[pending].want
         /\ \A i \in DOMAIN toRod : Done(toRod[i], rods[toRod[i].rod])
<1>1. pending \in Calls /\ pending # NoCall /\ call[pending].at # "idle"
  BY DEF RodInv, CallsInv, Out
<1>2. call[pending] \in RodAsked
  BY <1>1 DEF RodInv, RodTypes
<1>3. Rod!Reads(call[pending].step, rods[call[pending].rod]) = call[pending].want
  BY <1>1 DEF RodInv, RodFramesInv, ChoiceInv, LastWriteInv
<1>4. ASSUME NEW i \in DOMAIN toRod, ~Done(toRod[i], rods[toRod[i].rod]) PROVE FALSE
  <2>1. PICK d \in Calls : /\ call[d].at # "idle" /\ call[d].rod = toRod[i].rod
                           /\ call[d].step = toRod[i].step /\ call[d].want = toRod[i].want
    BY <1>4 DEF ChoiceInv, LastWriteInv
  <2>2. d = pending
    BY <1>1, <2>1 DEF RodInv, CallsInv
  <2>3. toRod[i] \in RodWritesOf
    BY <1>4 DEF RodInv, RodTypes
  <2>4. toRod[i].rod \in Rods /\ rods[toRod[i].rod] \in Rod!RodStates
    BY <2>3 DEF RodInv, RodTypes, RodWritesOf
  <2>5. Rod!Reads(toRod[i].step, rods[toRod[i].rod]) = toRod[i].want
    BY <1>3, <2>1, <2>2
  <2> QED
    BY <1>4, <2>3, <2>4, <2>5, ShownIsDone
<1> QED
  BY <1>1, <1>2, <1>3, <1>4

\* What the callers do.
LEMMA RodCallsHold ==
  ASSUME PromptFrames, RodInv, NEW c \in Calls,
         \/ \E t \in Levels : Rod!SetValue(c, t)
         \/ \E o \in Rod!Options : Rod!SetMode(c, o)
         \/ Rod!RodDelivered(c) \/ Rod!Succeeds(c) \/ Rod!Fails(c)
  PROVE  RodInv' /\ (~LateWrites /\ ChoiceInv => ChoiceInv')
<1>0. last.rod \in present /\ last.is \in Rod!RodStates
  BY DEF RodInv, RodTypes, RodReportsOf
<1>1. ASSUME Rod!MayPublish(c)
      PROVE  /\ \A d \in Calls : call[d].at = "idle"
             /\ ChoiceInv => \A i \in DOMAIN toRod : Done(toRod[i], rods[toRod[i].rod])
  BY <1>1, QueueAssumption DEF Rod!MayPublish, RodInv, CallsInv, ChoiceInv, LastWriteInv
<1>2. ASSUME NEW t \in Levels, Rod!SetValue(c, t)
      PROVE  RodInv' /\ (ChoiceInv => ChoiceInv')
  <2> DEFINE write == Rod!Asks("power", t, "power")
  <2>1. write \in RodAsked /\ write.at = "sending" /\ write.step = "power"
    BY <1>0 DEF Rod!Asks, RodAsked, Out
  <2>2. /\ Rod!MayPublish(c) /\ Rod!Sends(c, write)
        /\ UNCHANGED <<present, rods, fromRod, last, chosen>>
    BY <1>2 DEF Rod!SetValue
  <2> HIDE DEF write
  <2>3. chosen' \subseteq Rod!Options
    BY <2>2 DEF RodInv, RodTypes
  <2> QED
    BY <1>1, <2>1, <2>2, <2>3, RodSends, ChoiceSends
<1>3. ASSUME NEW o \in Rod!Options, Rod!SetMode(c, o)
      PROVE  RodInv' /\ (ChoiceInv => ChoiceInv')
  <2>1. CASE Rod!Left(o) = {}
    <3>1. /\ chosen' = {}
          /\ UNCHANGED <<call, pending, resolved, sender, shutdown, since, present, rods, toRod, fromRod, last>>
      BY <1>3, <2>1 DEF Rod!SetMode, Rod!slotVars
    <3>2. CallsInv'
      BY <3>1 DEF RodInv, CallsInv
    <3>5. RodFramesInv'
      BY <3>1 DEF RodInv, RodFramesInv
    <3>3. RodTypes'
      BY <3>1 DEF RodInv, RodTypes, RodReportsOf, RodAsked
    <3>4. ChoiceInv => ChoiceInv'
      BY <3>1 DEF ChoiceInv, LastWriteInv, OnInv, ChosenInv
    <3> QED
      BY <3>2, <3>3, <3>4, <3>5 DEF RodInv
  <2>2. CASE Rod!Left(o) # {}
    <3> DEFINE step == IF "mode" \in Rod!Left(o) THEN "mode" ELSE "run"
               write == Rod!Asks(step, o, o)
    <3>1. step = "mode" => o \in Rod!Modes
      BY DEF Rod!Left, Rod!Steps, Rod!Options
    <3>2. /\ write \in RodAsked /\ write.at = "sending" /\ write.step # "power"
          /\ write.then = write.want
      BY <1>0, <3>1 DEF Rod!Asks, RodAsked, Out
    <3>3. /\ Rod!MayPublish(c) /\ Rod!Sends(c, write)
          /\ UNCHANGED <<present, rods, fromRod, last>> /\ chosen' = {}
      BY <1>3, <2>2 DEF Rod!SetMode
    <3> HIDE DEF write, step
    <3> QED
      BY <1>1, <3>2, <3>3, RodSends, ChoiceSends
  <2> QED
    BY <2>1, <2>2
<1>4. CASE Rod!RodDelivered(c)
  <2>1. Rod!Delivered(c) /\ UNCHANGED <<present, rods, toRod, fromRod, last, chosen>>
    BY <1>4 DEF Rod!RodDelivered, Rod!fieldVars
  <2>2. call[c] \in RodAsked
    BY <2>1 DEF Rod!Delivered, Rod!At, RodInv, RodTypes
  <2>3. /\ CallsInv' /\ UNCHANGED <<pending, resolved, shutdown, since>>
        /\ call'[c] = [call[c] EXCEPT !.at = "confirming"] /\ call[c].at = "sending"
        /\ \A d \in Calls \ {c} : call'[d] = call[d]
    BY <2>1, <2>2, AskedFacts, CallDelivered DEF RodInv
  <2>4. /\ call'[c] \in RodAsked /\ call'[c].rod = call[c].rod /\ call'[c].step = call[c].step
        /\ call'[c].want = call[c].want /\ call'[c].then = call[c].then /\ call'[c].at = "confirming"
    BY <2>2, <2>3, AskedFacts
  <2>5. \A d \in Calls : /\ call'[d].at = "idle" <=> call[d].at = "idle"
                         /\ call[d].at # "idle" => /\ call'[d].rod = call[d].rod
                                                   /\ call'[d].step = call[d].step
                                                   /\ call'[d].want = call[d].want
    BY <2>3, <2>4
  <2>6. pending # NoCall => pending \in Calls /\ call[pending].at # "idle"
    BY DEF RodInv, CallsInv, Out
  <2>7. RodTypes'
    <3>1. RodReportsOf' = RodReportsOf /\ RodAsked' = RodAsked
      BY <2>1 DEF RodReportsOf, RodAsked
    <3>2. \A d \in Calls : call'[d].at # "idle" =>
            call'[d] \in RodAsked /\ (call'[d].step # "power" => call'[d].then = call'[d].want)
      <4>1. ASSUME NEW d \in Calls \ {c}, call'[d].at # "idle"
            PROVE  call'[d] \in RodAsked /\ (call'[d].step # "power" => call'[d].then = call'[d].want)
        BY <2>3, <4>1 DEF RodInv, RodTypes
      <4>2. call[c].step # "power" => call[c].then = call[c].want
        BY <2>3 DEF RodInv, RodTypes
      <4> QED
        BY <2>4, <4>1, <4>2
    <3> QED
      BY <2>1, <3>1, <3>2 DEF RodInv, RodTypes
  <2>8. RodFramesInv'
    BY <2>1, <2>3, <2>5, <2>6 DEF RodInv, RodFramesInv
  <2>9. ChoiceInv => LastWriteInv' /\ OnInv' /\ ChosenInv'
    BY <2>1, <2>3, <2>5, <2>6 DEF ChoiceInv, LastWriteInv, OnInv, ChosenInv
  <2> QED
    BY <2>3, <2>7, <2>8, <2>9 DEF RodInv, ChoiceInv
<1>5. CASE Rod!Fails(c)
  <2>1. /\ Rod!Ends(c) /\ call[c].at # "idle"
        /\ UNCHANGED <<present, rods, toRod, fromRod, last, chosen>>
        /\ LateWrites \/ \A i \in DOMAIN toRod : ~(toRod[i].rod = call[c].rod)
    BY <1>5 DEF Rod!Fails, Rod!NotDelivered, Rod!Unconfirmed, Rod!Cancelled, Rod!At, Rod!fieldVars
  <2>2. chosen' \subseteq Rod!Options
    BY <2>1 DEF RodInv, RodTypes
  <2> QED
    BY <2>1, <2>2, RodEnds, ChoiceEnds
<1>6. CASE Rod!Succeeds(c)
  <2>1. /\ resolved /\ pending = c /\ call[c].at # "idle" /\ call[c] \in RodAsked
        /\ \A d \in Calls \ {c} : call[d].at = "idle"
        /\ UNCHANGED <<present, rods, fromRod, last>>
    BY <1>6 DEF Rod!Succeeds, Rod!Confirmed, Rod!At, RodInv, CallsInv, RodTypes
  <2>2. CASE call[c].step = "mode" /\ Rod!Needed("run", call[c].then)
    <3> DEFINE write == Rod!Asks("run", call[c].then, call[c].then)
    <3>1. chosen' = chosen /\ (Rod!Sends(c, write) \/ (Rod!Ends(c) /\ UNCHANGED toRod))
      BY <1>6, <2>2 DEF Rod!Succeeds
    <3>2. chosen' \subseteq Rod!Options
      BY <3>1 DEF RodInv, RodTypes
    <3>3. CASE Rod!Ends(c) /\ UNCHANGED toRod
      BY <2>1, <3>1, <3>2, <3>3, RodEnds, ChoiceEnds, ResolvedIsDone
    <3>4. CASE Rod!Sends(c, write)
      <4>1. call[c].then \in Rod!Options
        BY <2>1, <2>2, AskedFacts DEF Rod!Options
      <4>2. write \in RodAsked /\ write.at = "sending" /\ write.step = "run" /\ write.then = write.want
        BY <1>0, <4>1 DEF Rod!Asks, RodAsked, Out
      <4>3. ChoiceInv => chosen = {}
        BY <2>1, <2>2 DEF ChoiceInv, ChosenInv
      <4> HIDE DEF write
      <4> QED
        BY <2>1, <3>1, <3>2, <3>4, <4>2, <4>3, RodSends, ChoiceSends, ResolvedIsDone
    <3> QED
      BY <3>1, <3>3, <3>4
  <2>3. CASE ~(call[c].step = "mode" /\ Rod!Needed("run", call[c].then))
    <3>1. /\ Rod!Ends(c) /\ UNCHANGED toRod
          /\ chosen' = IF call[c].then \in Rod!Options THEN {call[c].then} ELSE chosen
      BY <1>6, <2>3 DEF Rod!Succeeds
    <3>2. chosen' \subseteq Rod!Options
      BY <3>1 DEF RodInv, RodTypes
    <3>3. ASSUME ChoiceInv, NEW r \in present, present = {r}, call[c].then \in Rod!Options
          PROVE  call[c].then = Rod!Operating(rods[r])
      <4>1. /\ call[c].rod = r /\ rods[r] \in Rod!RodStates
            /\ Rod!Reads(call[c].step, rods[r]) = call[c].want
        BY <2>1, <3>3, ResolvedIsDone, AskedFacts DEF RodInv, RodTypes
      <4>2. CASE call[c].step = "run"
        BY <2>1, <4>1, <4>2, ReadsFacts DEF RodInv, RodTypes
      <4>3. CASE call[c].step = "power"
        BY <2>1, <3>3, <4>3, AskedFacts DEF Rod!Options, Rod!Modes
      <4>4. CASE call[c].step = "mode"
        <5>1. last.is.on
          BY <2>3, <4>4 DEF Rod!Needed
        <5>2. rods[r].on
          BY <2>1, <3>3, <4>1, <4>4, <5>1, QueueAssumption DEF ChoiceInv, OnInv
        <5>3. call[c].then = call[c].want
          BY <2>1, <4>4 DEF RodInv, RodTypes
        <5> QED
          BY <4>1, <4>4, <5>2, <5>3, ReadsFacts
      <4> QED
        BY <2>1, <4>2, <4>3, <4>4, AskedFacts
    <3>4. ChoiceInv => \/ chosen' = chosen
                       \/ \A r \in present : present = {r} => chosen' \subseteq {Rod!Operating(rods[r])}
      BY <3>1, <3>3
    <3> QED
      BY <2>1, <3>1, <3>2, <3>4, RodEnds, ChoiceEnds, ResolvedIsDone
  <2> QED
    BY <2>2, <2>3
<1> QED
  BY <1>2, <1>3, <1>4, <1>5, <1>6

\* A rod takes a write, or loses it.
LEMMA RodTakesHold ==
  ASSUME RodInv, Rod!RodTakes
  PROVE  RodInv' /\ (ChoiceInv => ChoiceInv')
<1> DEFINE w == Head(toRod)
           after == Rod!Took(rods[w.rod], w)
<1>1. /\ toRod # <<>> /\ toRod' = Tail(toRod)
      /\ UNCHANGED <<call, pending, resolved, sender, shutdown, present, fromRod, last, chosen>>
      /\ \/ /\ rods' = [rods EXCEPT ![w.rod] = after]
            /\ since' = IF pending # NoCall /\ call[pending].rod = w.rod
                        THEN since \cup {Rod!Reads(call[pending].step, after)} ELSE since
         \/ UNCHANGED <<rods, since>>
  BY DEF Rod!RodTakes
<1>2. /\ w \in RodWritesOf /\ w = toRod[1] /\ 1 \in DOMAIN toRod
      /\ toRod' \in Seq(RodWritesOf) /\ Len(toRod') = Len(toRod) - 1 /\ Len(toRod) \in Nat
      /\ \A i \in DOMAIN toRod' : i + 1 \in DOMAIN toRod /\ toRod'[i] = toRod[i + 1]
                                  /\ i \in 1..Len(toRod')
  BY <1>1 DEF RodInv, RodTypes
<1>3. w.rod \in Rods /\ rods[w.rod] \in Rod!RodStates /\ rods \in [Rods -> Rod!RodStates]
  BY <1>2 DEF RodInv, RodTypes, RodWritesOf
<1>4. /\ after \in Rod!RodStates /\ (Done(w, rods[w.rod]) => after = rods[w.rod])
      /\ w.step = "mode" => (after.on <=> rods[w.rod].on)
      /\ w.step = "power" => Rod!Operating(after) = Rod!Operating(rods[w.rod])
  BY <1>2, <1>3, TookFacts
<1>5. pending # NoCall => /\ pending \in Calls /\ call[pending].at # "idle"
                          /\ call[pending].rod \in Rods /\ call[pending].step \in {"mode", "power", "run"}
                          /\ Rod!Reads(call[pending].step, rods[call[pending].rod]) \in since
  BY AskedFacts DEF RodInv, CallsInv, RodTypes, RodFramesInv, Out
<1> HIDE DEF w, after
<1>6. CASE UNCHANGED <<rods, since>>
  <2>1. RodInv'
    BY <1>1, <1>2, <1>6 DEF RodInv, CallsInv, RodTypes, RodFramesInv, RodReportsOf, RodAsked
  <2>2. ASSUME NEW i \in DOMAIN toRod', ~Done(toRod'[i], rods[toRod'[i].rod])
        PROVE  i + 1 \in DOMAIN toRod /\ ~Done(toRod[i + 1], rods[toRod[i + 1].rod])
               /\ toRod'[i] = toRod[i + 1]
    BY <1>2, <2>2
  <2>3. ChoiceInv => LastWriteInv'
    BY <1>1, <1>2, <1>6, <2>2 DEF ChoiceInv, LastWriteInv
  <2>4. ChoiceInv => OnInv' /\ ChosenInv'
    BY <1>1, <1>6 DEF ChoiceInv, OnInv, ChosenInv
  <2> QED
    BY <2>1, <2>3, <2>4 DEF ChoiceInv
<1>7. CASE /\ rods' = [rods EXCEPT ![w.rod] = after]
           /\ since' = IF pending # NoCall /\ call[pending].rod = w.rod
                       THEN since \cup {Rod!Reads(call[pending].step, after)} ELSE since
           /\ ~UNCHANGED <<rods, since>>
  <2>1. rods' \in [Rods -> Rod!RodStates] /\ rods'[w.rod] = after
        /\ \A r \in Rods \ {w.rod} : rods'[r] = rods[r]
    BY <1>3, <1>4, <1>7
  <2>2. ~Done(w, rods[w.rod])
    <3> SUFFICES ASSUME Done(w, rods[w.rod]) PROVE FALSE
      OBVIOUS
    <3>1. after = rods[w.rod]
      BY <1>4
    <3>2. rods' = rods
      BY <1>3, <1>7, <3>1
    <3>3. since' = since
      BY <1>5, <1>7, <3>1
    <3> QED
      BY <1>7, <3>2, <3>3
  <2>3. RodInv'
    <3>1. CallsInv' /\ RodTypes'
      BY <1>1, <1>2, <2>1 DEF RodInv, CallsInv, RodTypes, RodReportsOf, RodAsked
    <3>2. RodFramesInv'
      BY <1>1, <1>5, <1>7, <2>1 DEF RodInv, RodFramesInv
    <3> QED
      BY <3>1, <3>2 DEF RodInv
  <2>4. ASSUME ChoiceInv PROVE ChoiceInv'
    <3>1. PICK c \in Calls : /\ call[c].at # "idle" /\ call[c].rod = w.rod
                             /\ call[c].step = w.step /\ call[c].want = w.want
      BY <1>2, <2>2, <2>4 DEF ChoiceInv, LastWriteInv
    <3>2. Len(toRod) = 1 /\ DOMAIN toRod' = {}
      BY <1>2, <2>2, <2>4 DEF ChoiceInv, LastWriteInv
    <3>3. pending # NoCall => pending = c
      BY <1>5, <3>1 DEF RodInv, CallsInv
    <3>4. LastWriteInv'
      <4> SUFFICES ASSUME pending # NoCall, call[pending].want \in since'
                   PROVE  Rod!Reads(call[pending].step, rods'[call[pending].rod]) = call[pending].want
        BY <1>1, <3>2 DEF LastWriteInv
      <4>1. since = {Rod!Reads(w.step, rods[w.rod])}
        BY <1>2, <2>2, <2>4, <3>1, <3>3 DEF ChoiceInv, LastWriteInv
      <4>2. Rod!Reads(w.step, rods[w.rod]) # w.want
        BY <1>2, <1>3, <2>2, ShownIsDone
      <4>3. since' = since \cup {Rod!Reads(w.step, after)}
        BY <1>7, <3>1, <3>3
      <4> QED
        BY <2>1, <3>1, <3>3, <4>1, <4>2, <4>3
    <3>5. OnInv'
      BY <1>1, <1>4, <2>1, <2>4, <3>1, <3>3 DEF ChoiceInv, OnInv
    <3>6. ChosenInv'
      <4>1. chosen # {} => w.step = "power"
        BY <2>4, <3>1 DEF ChoiceInv, ChosenInv
      <4>2. ASSUME NEW r \in present, present = {r}
            PROVE  chosen \subseteq {Rod!Operating(rods'[r])}
        <5>1. chosen \subseteq {Rod!Operating(rods[r])} /\ r \in Rods
          BY <2>4, <4>2 DEF ChoiceInv, ChosenInv, RodInv, RodTypes
        <5>2. chosen # {} => Rod!Operating(rods'[r]) = Rod!Operating(rods[r])
          BY <1>4, <2>1, <4>1, <5>1
        <5> QED
          BY <5>1, <5>2
      <4>3. chosen # {} => \A d \in Calls : call[d].at # "idle" => call[d].step = "power"
        BY <2>4 DEF ChoiceInv, ChosenInv
      <4> QED
        BY <1>1, <4>2, <4>3 DEF ChosenInv
    <3> QED
      BY <3>4, <3>5, <3>6 DEF ChoiceInv
  <2> QED
    BY <2>3, <2>4
<1> QED
  BY <1>1, <1>6, <1>7

\* A rod reports, and the report arrives.
LEMMA RodReportsHold ==
  ASSUME RodInv, (\E r \in Rods : Rod!RodReports(r)) \/ Rod!RodReportArrives
  PROVE  RodInv' /\ (ChoiceInv => ChoiceInv')
<1>1. ASSUME NEW r \in Rods, Rod!RodReports(r)
      PROVE  RodInv' /\ (ChoiceInv => ChoiceInv')
  <2> DEFINE f == [rod |-> r, is |-> rods[r]]
  <2>1. /\ r \in present /\ fromRod' = Append(fromRod, f)
        /\ UNCHANGED <<call, pending, resolved, sender, shutdown, since, present, rods, toRod, last, chosen>>
    BY <1>1 DEF Rod!RodReports, Rod!slotVars
  <2>2. f \in RodReportsOf /\ f.rod = r /\ f.is = rods[r]
    BY <2>1 DEF RodInv, RodTypes, RodReportsOf
  <2> HIDE DEF f
  <2>3. /\ fromRod' \in Seq(RodReportsOf)
        /\ \A i \in DOMAIN fromRod' : \/ fromRod'[i] = f
                                      \/ i \in DOMAIN fromRod /\ fromRod'[i] = fromRod[i]
    BY <2>1, <2>2 DEF RodInv, RodTypes
  <2>4. CallsInv' /\ RodTypes'
    BY <2>1, <2>3 DEF RodInv, CallsInv, RodTypes, RodReportsOf, RodAsked
  <2>5. RodFramesInv'
    BY <2>1, <2>2, <2>3 DEF RodInv, RodFramesInv
  <2>6. ChoiceInv => LastWriteInv' /\ ChosenInv'
    BY <2>1 DEF ChoiceInv, LastWriteInv, ChosenInv
  <2>7. ChoiceInv => OnInv'
    BY <2>1, <2>2, <2>3 DEF ChoiceInv, OnInv
  <2> QED
    BY <2>4, <2>5, <2>6, <2>7 DEF RodInv, ChoiceInv
<1>2. CASE Rod!RodReportArrives
  <2> DEFINE f == Head(fromRod)
  <2>1. /\ fromRod # <<>> /\ fromRod' = Tail(fromRod) /\ last' = f
        /\ resolved' = (resolved \/ Rod!RodConfirms(f))
        /\ UNCHANGED <<call, pending, sender, shutdown, since, present, rods, toRod, chosen>>
    BY <1>2 DEF Rod!RodReportArrives
  <2>2. /\ f \in RodReportsOf /\ f = fromRod[1] /\ 1 \in DOMAIN fromRod
        /\ fromRod' \in Seq(RodReportsOf)
        /\ \A i \in DOMAIN fromRod' : i + 1 \in DOMAIN fromRod /\ fromRod'[i] = fromRod[i + 1]
    BY <2>1 DEF RodInv, RodTypes
  <2> HIDE DEF f
  <2>3. resolved' => pending # NoCall /\ (resolved \/ Rod!RodConfirms(f))
    BY <2>1 DEF RodInv, CallsInv, Rod!RodConfirms
  <2>4. CallsInv' /\ RodTypes'
    BY <2>1, <2>2, <2>3 DEF RodInv, CallsInv, RodTypes, RodReportsOf, RodAsked
  <2>5. RodFramesInv'
    <3>1. resolved' => call[pending].want \in since
      BY <2>2, <2>3 DEF Rod!RodConfirms, RodInv, RodFramesInv
    <3> QED
      BY <2>1, <2>2, <3>1 DEF RodInv, RodFramesInv
  <2>6. ChoiceInv => LastWriteInv' /\ ChosenInv'
    BY <2>1 DEF ChoiceInv, LastWriteInv, ChosenInv
  <2>7. ChoiceInv => OnInv'
    <3> SUFFICES ASSUME ChoiceInv, pending # NoCall, call[pending].step = "mode"
                 PROVE  /\ \A i \in DOMAIN fromRod' : fromRod'[i].rod = call[pending].rod =>
                              (fromRod'[i].is.on <=> rods[call[pending].rod].on)
                        /\ present = {call[pending].rod} => (last'.is.on <=> rods[call[pending].rod].on)
      BY <2>1 DEF OnInv
    <3>1. f.rod = call[pending].rod => (f.is.on <=> rods[call[pending].rod].on)
      BY <2>2 DEF ChoiceInv, OnInv
    <3>2. f.rod \in present
      BY <2>2 DEF RodReportsOf
    <3> QED
      BY <2>1, <2>2, <3>1, <3>2 DEF ChoiceInv, OnInv
  <2> QED
    BY <2>4, <2>5, <2>6, <2>7 DEF RodInv, ChoiceInv
<1> QED
  BY <1>1, <1>2

\* Every step of the rods keeps it.
LEMMA RodStepHolds ==
  ASSUME PromptFrames, RodInv, [Rod!RodNext]_<<recordVars, since, rodVars>>
  PROVE  RodInv' /\ (~LateWrites /\ ChoiceInv => ChoiceInv')
<1>1. CASE UNCHANGED <<recordVars, since, rodVars>>
  <2>1. UNCHANGED <<call, pending, resolved, sender, shutdown, since, present, rods, toRod, fromRod, last, chosen>>
    BY <1>1 DEF recordVars, rodVars
  <2>2. RodInv'
    BY <2>1 DEF RodInv, CallsInv, RodTypes, RodFramesInv, RodReportsOf, RodAsked
  <2>3. ChoiceInv => ChoiceInv'
    BY <2>1 DEF ChoiceInv, LastWriteInv, OnInv, ChosenInv
  <2> QED
    BY <2>2, <2>3
<1>2. ASSUME NEW c \in Calls,
             \/ \E t \in Levels : Rod!SetValue(c, t)
             \/ \E o \in Rod!Options : Rod!SetMode(c, o)
             \/ Rod!RodDelivered(c) \/ Rod!Succeeds(c) \/ Rod!Fails(c)
      PROVE  RodInv' /\ (~LateWrites /\ ChoiceInv => ChoiceInv')
  BY <1>2, RodCallsHold
<1>3. CASE Rod!RodTakes
  BY <1>3, RodTakesHold
<1>4. CASE (\E r \in Rods : Rod!RodReports(r)) \/ Rod!RodReportArrives
  BY <1>4, RodReportsHold
<1>5. CASE Rod!RodStops
  <2>1. Rod!Stops /\ UNCHANGED <<present, rods, toRod, fromRod, last, chosen>>
    BY <1>5 DEF Rod!RodStops, Rod!fieldVars
  <2>2. CallsInv' /\ call' = call /\ pending' = NoCall /\ ~resolved'
    BY <2>1, CallStops DEF RodInv
  <2>3. RodInv'
    BY <2>1, <2>2 DEF RodInv, RodTypes, RodFramesInv, RodReportsOf, RodAsked
  <2>4. ChoiceInv => ChoiceInv'
    BY <2>1, <2>2 DEF ChoiceInv, LastWriteInv, OnInv, ChosenInv
  <2> QED
    BY <2>3, <2>4
<1> QED
  BY <1>1, <1>2, <1>3, <1>4, <1>5 DEF Rod!RodNext

-----------------------------------------------------------------------------
(* The three paths together.  A behaviour follows one of them, and the         *)
(* variables of the others keep one value.                                     *)

FollowedInv ==
    /\ followed \in {"settings", "presses", "rods"}
    /\ followed = "settings" => QueueInv
    /\ followed # "settings" => CallsInv

\* A step of the whole is one of the path followed.
LEMMA StepFollows ==
  ASSUME [ConfirmedNext]_confirmedVars
  PROVE  /\ followed' = followed
         /\ followed = "settings" => [Next]_vars
         /\ followed = "presses" => [Press!WallboxNext]_<<recordVars, since, pressVars>>
         /\ followed = "rods" => [Rod!RodNext]_<<recordVars, since, rodVars>>
<1>1. CASE UNCHANGED confirmedVars
  BY <1>1 DEF confirmedVars, vars, recordVars, queueVars, reportVars, boxVars
<1>2. CASE ConfirmedNext
  BY <1>2 DEF ConfirmedNext, SettingsStep, PressStep, RodStep
<1> QED
  BY <1>1, <1>2

\* The invariants that need no premise.
LEMMA Followed == ConfirmedSpec => []FollowedInv
<1>1. ConfirmedInit => FollowedInv
  BY QueueInitHolds, CallsInitHolds DEF ConfirmedInit, FollowedInv, Press!WallboxInit, Rod!RodInit
<1>2. FollowedInv /\ [ConfirmedNext]_confirmedVars => FollowedInv'
  BY StepFollows, QueueStepHolds, CallsStepHolds DEF FollowedInv
<1> QED
  BY <1>1, <1>2, PTL DEF ConfirmedSpec

\* Under prompt reports, the byte is what was last reported since a write left.
ByteFollowed == followed = "settings" => ByteInv

\* The byte of a wallbox whose reports are prompt.
LEMMA FollowedByte == ASSUME Prompt PROVE ConfirmedSpec => [](FollowedInv /\ ByteFollowed)
<1>1. ConfirmedInit => ByteFollowed
  BY ByteInitHolds DEF ConfirmedInit, ByteFollowed
<1>2. FollowedInv /\ ByteFollowed /\ [ConfirmedNext]_confirmedVars => ByteFollowed'
  BY StepFollows, ByteStepHolds DEF FollowedInv, ByteFollowed
<1> QED
  BY <1>1, <1>2, Followed, PTL DEF ConfirmedSpec

\* Under prompt frames, what was reported since a write left was true since then.
FramesFollowed == (followed = "presses" => PressInv) /\ (followed = "rods" => RodInv)
ChoiceFollowed == followed = "rods" => ChoiceInv

\* Presses and rods whose frames are prompt.
LEMMA FollowedFrames == ASSUME PromptFrames PROVE ConfirmedSpec => []FramesFollowed
<1>1. ConfirmedInit => FramesFollowed
  BY PressInitHolds, RodInitHolds DEF ConfirmedInit, FramesFollowed
<1>2. FramesFollowed /\ [ConfirmedNext]_confirmedVars => FramesFollowed'
  BY StepFollows, PressStepHolds, RodStepHolds DEF FramesFollowed
<1> QED
  BY <1>1, <1>2, PTL DEF ConfirmedSpec

\* Rods that take a write while its call waits, or never.
LEMMA FollowedChoice ==
  ASSUME PromptFrames, ~LateWrites PROVE ConfirmedSpec => [](FramesFollowed /\ ChoiceFollowed)
<1>1. ConfirmedInit => ChoiceFollowed
  BY RodInitHolds DEF ConfirmedInit, ChoiceFollowed
<1>2. FramesFollowed /\ ChoiceFollowed /\ [ConfirmedNext]_confirmedVars => ChoiceFollowed'
  BY StepFollows, RodStepHolds DEF FramesFollowed, ChoiceFollowed
<1> QED
  BY <1>1, <1>2, FollowedFrames, PTL DEF ConfirmedSpec

\* A slider or switch of the wallbox turned twice in a row sends the newer value,
\* never the older one after it, whatever was queued, cancelled or lost between.
THEOREM NewestWins == ConfirmedSpec => NewestSends
<1>1. FollowedInv => [\A c \in Calls : Publish(c) /\ IsSetting(c) => newest[call[c].target] = c]_vars
  <2> SUFFICES ASSUME FollowedInv, NEW c \in Calls, Publish(c), IsSetting(c)
               PROVE  newest[call[c].target] = c
    OBVIOUS
  <2>1. call[c].at = "ready"
    BY DEF Publish
  <2>2. followed = "settings"
    BY <2>1 DEF FollowedInv, CallsInv, Out
  <2> QED
    BY <2>2, NewestStep DEF FollowedInv
<1> QED
  BY <1>1, Followed, PTL DEF NewestSends

\* Where reports come promptly, a write of one switch of the wallbox's byte leaves
\* the other switches as the wallbox has them.
THEOREM OtherSwitchesKept == ASSUME Prompt PROVE ConfirmedSpec => OthersUntouched
<1>1. FollowedInv /\ ByteFollowed =>
        [\A c \in Calls : Publish(c) /\ IsSetting(c) =>
            LET held == IF toBox = <<>> THEN box ELSE toBox[Len(toBox)]
            IN  \A b \in Bits \ {call[c].target} : Plan(c)[b] = held[b]]_vars
  <2> SUFFICES ASSUME FollowedInv, ByteFollowed, NEW c \in Calls, Publish(c), IsSetting(c)
               PROVE  LET held == IF toBox = <<>> THEN box ELSE toBox[Len(toBox)]
                      IN  \A b \in Bits \ {call[c].target} : Plan(c)[b] = held[b]
    OBVIOUS
  <2>1. call[c].at = "ready"
    BY DEF Publish
  <2>2. followed = "settings"
    BY <2>1 DEF FollowedInv, CallsInv, Out
  <2>3. QueueInv /\ ByteInv
    BY <2>2 DEF FollowedInv, ByteFollowed
  <2> QED
    BY <2>3, OthersStep
<1> QED
  BY <1>1, FollowedByte, PTL DEF OthersUntouched

\* Presses and rods: the one pending record is that of a call under way, and until
\* the shutdown no second call is.
THEOREM RecordsHaveCalls == ConfirmedSpec => []RecordHasCall
<1>1. FollowedInv => RecordHasCall
  BY DEF FollowedInv, CallsInv, RecordHasCall, Press!RecordHasCall, Out
<1> QED
  BY <1>1, Followed, PTL

\* A press that is confirmed was: the wallbox has been what confirms it since the
\* press left, whoever else turns the wallbox and whatever heartbeats lag behind.
THEOREM PressesHappened == ASSUME PromptFrames PROVE ConfirmedSpec => []PressHappened
<1>1. FramesFollowed /\ FollowedInv => PressHappened
  BY DEF FramesFollowed, PressHappened, Press!PressHappened, PressInv, SinceInv, CallsInv
<1> QED
  BY <1>1, Followed, FollowedFrames, PTL

\* A write to a heating rod that is confirmed was taken by that rod, never credited
\* from the report of another or from before the write.
THEOREM RodsTookIt == ASSUME PromptFrames PROVE ConfirmedSpec => []RodTookIt
<1>1. FramesFollowed => RodTookIt
  BY DEF FramesFollowed, RodTookIt, Rod!RodTookIt, RodInv, RodFramesInv, CallsInv
<1> QED
  BY <1>1, FollowedFrames, PTL

\* What the user saw confirmed stays: a switch of the wallbox until it is turned
\* again, and the operating mode of the one rod.
THEOREM ConfirmedStandsHolds ==
  ASSUME Prompt, PromptFrames, ~LateWrites PROVE ConfirmedSpec => []ConfirmedStands
<1>1. ByteFollowed /\ FramesFollowed /\ ChoiceFollowed => ConfirmedStands
  BY DEF ByteFollowed, ByteInv, ChoiceFollowed, ChoiceInv, ChosenInv, ConfirmedStands, ConfirmedStays,
     Rod!ChoiceStands
<1> QED
  BY <1>1, FollowedByte, FollowedChoice, PTL
=============================================================================
