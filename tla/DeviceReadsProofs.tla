-------------------------- MODULE DeviceReadsProofs --------------------------
(* Theorems about what becomes of what is heard from a device, for every value *)
(* of the thresholds, bounds and percentages: an entity is unavailable only    *)
(* after a long enough silence, a recording is whole, a meter never falls by   *)
(* itself, notices are true, the surplus auto-sync gives up and respects the   *)
(* user, and Home Assistant shows what an entity is.                           *)
(*                                                                             *)
(* Each part has its inductive invariant.  A part of DeviceReads follows its   *)
(* own specification, so that its theorems are theorems of ReadsSpec.          *)
EXTENDS DeviceReads, FiniteSetTheorems, SequenceTheorems, WellFoundedInduction, TLAPS

-----------------------------------------------------------------------------
(* Local control.  What was turned off stays off, the switch tells the truth   *)
(* but for a bounded delay, and no beat of the loop takes a unit back.  The    *)
(* timing rests on two sums.  While a loop is registered, the ticks since the  *)
(* last acknowledgement and the ticks the unit still has add up to its lapse,  *)
(* less what an acknowledgement may be late (UnitInv).  And the ticks since    *)
(* the acknowledgement and the ticks until the loop does something add up to   *)
(* no more than the window less its margin, or an interval more while the loop *)
(* sleeps (LoopInv).                                                           *)

Stages == {"idle", "queued", "waiting", "writing"}

\* The types the argument needs; that the flags are Boolean it does not.
ControlTypes ==
    /\ call \in [Calls -> Stages]
    /\ loop \in {"none", "sleep", "await", "write"}
    /\ link \in Calls \cup {Free, "poll", "beat"}
    /\ due \in Nat /\ sinceAck \in Nat /\ held \in Nat /\ calls \in Nat
    /\ sent \in Int /\ sent >= -1 /\ sent <= Latency
    /\ unit \in Int /\ unit >= Gone /\ unit <= Lapse
    /\ last \in {"on", "off"}

\* Who is wanted, enabled and running.
WantedInv ==
    /\ enabled <=> loop # "none"
    /\ ~wanted \/ closed => loop = "none"
    /\ last = "off" => ~wanted

\* Who holds the connection, and whose request the unit has taken.
LinkInv ==
    /\ link = "beat" <=> loop = "write"
    /\ \A c \in Calls : link = c <=> call[c] = "writing"
    /\ sent >= 0 => link \in Calls \cup {"beat"}
    /\ sent >= 0 => unit >= Lapse - sent

UnitInv == loop # "none" => sinceAck + unit >= Lapse - Latency

LoopInv ==
    /\ loop = "sleep" => due + sinceAck < Lapse - Margin + Interval
    /\ loop \in {"await", "write"} => due + sinceAck <= Lapse - Margin

ControlInv == ControlTypes /\ WantedInv /\ LinkInv /\ UnitInv /\ LoopInv

ConstantFacts ==
    /\ Interval \in Nat /\ Lapse \in Nat /\ Margin \in Nat /\ Latency \in Nat
    /\ MaxHold \in Nat /\ MaxCalls \in Nat
    /\ Interval > 0 /\ Lapse > Margin
    /\ "poll" \notin Calls /\ "beat" \notin Calls /\ Free \notin Calls
    /\ Free # "poll" /\ Free # "beat"

LEMMA Constants == ConstantFacts
  BY ControlAssumption DEF ConstantFacts

LEMMA ControlInitHolds == ControlInit => ControlInv
<1> SUFFICES ASSUME ControlInit PROVE ControlInv
  OBVIOUS
<1> USE Constants DEF ConstantFacts, ControlInit
<1>1. ControlTypes
  BY SMT DEF ControlTypes, Gone, Stages
<1>2. WantedInv
  BY SMT DEF WantedInv
<1>3. LinkInv
  BY SMT DEF LinkInv
<1>4. UnitInv /\ LoopInv
  BY SMT DEF UnitInv, LoopInv
<1> QED
  BY <1>1, <1>2, <1>3, <1>4 DEF ControlInv

LEMMA CallSteps ==
  ASSUME ControlInv, NEW c \in Calls,
         \/ TurnOn(c) \/ Enter(c) \/ WriteFirstBeat(c) \/ FirstBeatFails(c)
  PROVE  ControlInv'
<1> USE Constants DEF ConstantFacts, ControlInv, ControlTypes, WantedInv, LinkInv, UnitInv, LoopInv,
                      loopVars, linkVars, Stages
<1>1. CASE TurnOn(c)
  BY <1>1, SMT DEF TurnOn, Idle
<1>2. CASE Enter(c)
  BY <1>2, SMT DEF Enter
<1>3. CASE WriteFirstBeat(c)
  BY <1>3, SMT DEF WriteFirstBeat, TakeLink
<1>4. CASE FirstBeatFails(c)
  BY <1>4, SMT DEF FirstBeatFails, FreeLink
<1> QED
  BY <1>1, <1>2, <1>3, <1>4

LEMMA FirstAckStep ==
  ASSUME ControlInv, NEW c \in Calls, FirstBeatAcked(c)
  PROVE  ControlInv'
<1>1. /\ call[c] = "writing" /\ sent >= 0 /\ call' = [call EXCEPT ![c] = "idle"]
      /\ link' = Free /\ held' = 0 /\ sent' = -1
      /\ UNCHANGED <<wanted, closed, dying, unit, trusted, calls, last>>
  BY DEF FirstBeatAcked, FreeLink
<1> USE Constants DEF ConstantFacts, ControlInv, ControlTypes, WantedInv, LinkInv, UnitInv, LoopInv,
                      Stages
<1>2. CASE StillWanted /\ loop = "none"
  <2>1. enabled' /\ loop' = "sleep" /\ due' = Interval /\ sinceAck' = 0 /\ wanted /\ ~closed
    BY <1>2 DEF FirstBeatAcked, StillWanted
  <2> QED
    BY <1>1, <2>1, SMT
<1>3. CASE ~(StillWanted /\ loop = "none")
  <2>1. UNCHANGED <<enabled, loop, due, sinceAck>>
    BY <1>3 DEF FirstBeatAcked
  <2> QED
    BY <1>1, <2>1, SMT
<1> QED
  BY <1>2, <1>3

LEMMA OffSteps ==
  ASSUME ControlInv, TurnOff \/ Close
  PROVE  ControlInv'
  BY Constants, SMT
  DEF ConstantFacts, ControlInv, ControlTypes, WantedInv, LinkInv, UnitInv, LoopInv, Stages,
      TurnOff, Close, CancelHeartbeat, FreeLink, linkVars

LEMMA LoopSteps ==
  ASSUME ControlInv, BeatDue \/ BeatWrites \/ BeatAcked \/ BeatRefused \/ BeatFails \/ GhostEnds
  PROVE  ControlInv'
<1> USE Constants DEF ConstantFacts, ControlInv, ControlTypes, WantedInv, LinkInv, UnitInv, LoopInv,
                      loopVars, linkVars, Stages, FreeLink, Lapsed, UsedUp, WindowLeft
<1>1. CASE BeatDue
  <2>1. CASE ~trusted \/ UsedUp
    <3>1. /\ loop = "sleep" /\ due = 0 /\ loop' = "none" /\ due' = 0 /\ ~wanted' /\ ~enabled'
          /\ UNCHANGED <<closed, call, linkVars, unit, calls, last, sinceAck>>
      BY <1>1, <2>1, Zenon DEF BeatDue, Lapsed
    <3> QED
      BY <3>1, SMT
  <2>2. CASE ~(~trusted \/ UsedUp)
    BY <1>1, <2>2, SMT DEF BeatDue, BeatTimeout
  <2> QED
    BY <2>1, <2>2
<1>2. CASE BeatWrites
  BY <1>2, SMT DEF BeatWrites, TakeLink
<1>3. CASE BeatAcked
  BY <1>3, SMT DEF BeatAcked
<1>4. CASE BeatRefused
  BY <1>4, SMT DEF BeatRefused
<1>5. CASE BeatFails
  BY <1>5, SMT DEF BeatFails
<1>6. CASE GhostEnds
  BY <1>6, SMT DEF GhostEnds, GhostEndsQuietly
<1> QED
  BY <1>1, <1>2, <1>3, <1>4, <1>5, <1>6

LEMMA LinkSteps ==
  ASSUME ControlInv, UnitTakes \/ PollBegins \/ PollEnds
  PROVE  ControlInv'
  BY Constants, SMT
  DEF ConstantFacts, ControlInv, ControlTypes, WantedInv, LinkInv, UnitInv, LoopInv, Stages,
      UnitTakes, PollBegins, PollEnds, TakeLink, FreeLink, loopVars, Gone

LEMMA TickStep ==
  ASSUME ControlInv, Tick
  PROVE  ControlInv'
  BY Constants, SMT
  DEF ConstantFacts, ControlInv, ControlTypes, WantedInv, LinkInv, UnitInv, LoopInv, Stages,
      Tick, Countdown, AtMost, Gone, LongestSilence

LEMMA ControlStepHolds == ControlInv /\ [ControlNext]_controlVars => ControlInv'
<1> SUFFICES ASSUME ControlInv, [ControlNext]_controlVars PROVE ControlInv'
  OBVIOUS
<1>1. CASE UNCHANGED controlVars
  BY <1>1, SMT DEF controlVars, ControlInv, ControlTypes, WantedInv, LinkInv, UnitInv, LoopInv
<1>2. CASE ControlNext
  BY <1>2, CallSteps, FirstAckStep, OffSteps, LoopSteps, LinkSteps, TickStep DEF ControlNext
<1> QED
  BY <1>1, <1>2

\* The inductive invariant of the control: who may run, who holds the connection, and
\* how the clocks of the coordinator and of the unit are tied together.
THEOREM ControlInvariant == ControlSpec => []ControlInv
  BY ControlInitHolds, ControlStepHolds, PTL DEF ControlSpec

\* Once turned off or unloaded, control stays off, whatever calls are still under way:
\* the check after the first beat (async_set_control) is enough for any number of them.
THEOREM OffStaysOff == ControlSpec => []LastCallHolds
<1>1. ControlInv => LastCallHolds
  BY SMT DEF ControlInv, WantedInv, LastCallHolds
<1> QED
  BY <1>1, ControlInvariant, PTL

\* The switch shows on for no more than an interval, less the margin, after the unit let
\* go (_heartbeat_loop sleeps a full interval after a failed beat).
THEOREM SwitchIsHonest == ControlSpec => []SwitchHonest
<1>1. ControlInv => SwitchHonest
  BY Constants, SMT
  DEF ConstantFacts, ControlInv, ControlTypes, WantedInv, UnitInv, LoopInv, SwitchHonest
<1> QED
  BY <1>1, ControlInvariant, PTL

\* A unit that has let go is not taken by a late beat of the loop, for every margin that
\* covers what an acknowledgement may be late (_beat).
THEOREM LoopNeverRetakes ==
  ASSUME Latency <= Margin
  PROVE  ControlSpec => NeverRetaken
<1>1. ASSUME ControlInv, [ControlNext]_controlVars, unit < 0, unit' > 0
      PROVE  link \in Calls
  <2>1. CASE UnitTakes
    BY <1>1, <2>1, Constants, SMT
    DEF ConstantFacts, ControlInv, ControlTypes, LinkInv, UnitInv, LoopInv, UnitTakes
  <2>2. CASE ~UnitTakes
    <3>1. unit' \in Int /\ unit' <= unit
      BY <1>1, <2>2, Constants, SMT
      DEF ConstantFacts, ControlInv, ControlTypes, ControlNext, controlVars, TurnOn, Enter,
          WriteFirstBeat, FirstBeatAcked, FirstBeatFails, TurnOff, Close, BeatDue, BeatWrites,
          BeatAcked, BeatRefused, BeatFails, GhostEnds, PollBegins, PollEnds, Tick, Countdown
    <3> QED
      BY <1>1, <3>1, SMT DEF ControlInv, ControlTypes
  <2> QED
    BY <2>1, <2>2
<1>2. ControlInv /\ [ControlNext]_controlVars
         => [unit < 0 /\ unit' > 0 => link \in Calls]_controlVars
  BY <1>1
<1> QED
  BY <1>2, ControlInvariant, PTL DEF ControlSpec, NeverRetaken

-----------------------------------------------------------------------------
(* Availability.  Between two checks the age of the data and the time to the   *)
(* next check add up to a constant, so an account entry that shows its device  *)
(* as available has data no older than the threshold and one check; and while  *)
(* the cheap remedy is remembered from an earlier silence, the device was      *)
(* heard since the last check, so that check finds it awake and forgets it.    *)

Thresholds == Stale \in Nat /\ Hard \in Nat /\ Check \in Nat \ {0} /\ Window \in Nat
                     /\ Failing \in Nat \ {0} /\ Check <= Stale /\ Stale < Hard

\* The windows of the watchdog are ordered as the code orders them.
LEMMA ThresholdFacts == Thresholds
  BY AvailabilityAssumption, SMT DEF Thresholds

AvailabilityInv ==
    /\ login \in {"app", "developer"}
    /\ heard \in 0..Longest \cup {Never}
    /\ nextCheck \in 0..Check
    /\ ~deviceAvailable => IF login = "app" THEN SilentFor(Hard - 1) ELSE SilentFor(Window)
    /\ deviceAvailable /\ login = "app" /\ heard # Never => heard + nextCheck < Hard + Check
    /\ login = "app" /\ tried /\ ~asked => heard # Never /\ heard + nextCheck <= Check

\* A device is available when it is set up.
LEMMA AvailabilityInitHolds == AvailabilityInit => AvailabilityInv
  BY ThresholdFacts, SMT DEF Thresholds, AvailabilityInit, AvailabilityInv, Never

\* No step makes a device unavailable before its silence is long enough.
LEMMA AvailabilityStepHolds ==
  ASSUME AvailabilityInv, [AvailabilityNext]_availabilityVars
  PROVE  AvailabilityInv'
<1> USE ThresholdFacts DEF Thresholds, AvailabilityInv, Never, SilentFor, checkVars, httpVars
<1>1. CASE FrameArrives
  BY <1>1, SMT DEF FrameArrives, Longest
<1>2. CASE CheckStale
  <2>1. /\ login = "app" /\ nextCheck = 0 /\ nextCheck' = Check
        /\ login' = login /\ heard' = heard
    BY <1>2 DEF CheckStale
  <2>2. CASE SilentFor(Stale)
    <3>1. /\ ~deviceAvailable' => ~deviceAvailable \/ SilentFor(Hard - 1)
          /\ deviceAvailable' => ~SilentFor(Hard - 1)
      BY <1>2, <2>2 DEF CheckStale
    <3>2. tried' /\ ~asked' => tried /\ ~asked
      BY <1>2, <2>2 DEF CheckStale, Remedy
    <3>3. ~(tried /\ ~asked)
      BY <2>1, <2>2, SMT
    <3> QED
      BY <2>1, <3>1, <3>2, <3>3, SMT
  <2>3. CASE ~SilentFor(Stale)
    <3>1. deviceAvailable' /\ ~tried'
      BY <1>2, <2>3 DEF CheckStale, Recover
    <3> QED
      BY <2>1, <2>3, <3>1, SMT
  <2> QED
    BY <2>2, <2>3
<1>3. CASE HttpAnswers
  BY <1>3, SMT DEF HttpAnswers
<1>4. ASSUME NEW answer, HttpFails(answer) PROVE AvailabilityInv'
  <2>1. /\ login = "developer"
        /\ UNCHANGED <<login, heard, nextCheck, tried, asked>>
        /\ ~deviceAvailable' => ~deviceAvailable \/ ~Vouched
    BY <1>4 DEF HttpFails
  <2> QED
    BY <2>1, SMT DEF Vouched
<1>5. CASE SessionChanges
  BY <1>5, SMT DEF SessionChanges
<1>6. CASE KeyRevoked
  BY <1>6, SMT DEF KeyRevoked
<1>7. CASE AgeTick
  BY <1>7, SMT DEF AgeTick, Later, Longest
<1>8. CASE UNCHANGED availabilityVars
  BY <1>8 DEF availabilityVars
<1> QED
  BY <1>1, <1>2, <1>3, <1>4, <1>5, <1>6, <1>7, <1>8 DEF AvailabilityNext

\* Entities are unavailable only after the silence their entry allows, and an account
\* entry shows nothing older than the hard threshold and one check (_check_stale,
\* _async_update_data).
THEOREM AvailabilityIsHonest == AvailabilitySpec => []AvailabilityHonest
<1>1. AvailabilityInv => AvailabilityHonest
  BY ThresholdFacts, SMT DEF Thresholds, AvailabilityInv, AvailabilityHonest, Never
<1>2. AvailabilityInv /\ [AvailabilityNext]_availabilityVars => AvailabilityInv'
  BY AvailabilityStepHolds
<1> QED
  BY <1>1, <1>2, AvailabilityInitHolds, PTL DEF AvailabilitySpec

\* The session is torn down only for a device that was asked again in this silence.
THEOREM ReconnectWasAsked == AvailabilitySpec => AskedBeforeReconnect
<1>1. ASSUME AvailabilityInv, CheckStale, tried, remedied' = 0 PROVE asked
  <2>1. login = "app" /\ nextCheck = 0 /\ SilentFor(Stale)
    BY <1>1, ThresholdFacts, SMT DEF CheckStale, Thresholds
  <2> QED
    BY <1>1, <2>1, ThresholdFacts, SMT DEF AvailabilityInv, SilentFor, Thresholds, Never
<1>2. AvailabilityInv /\ [AvailabilityNext]_availabilityVars =>
        [CheckStale /\ tried /\ remedied' = 0 => asked]_availabilityVars
  BY <1>1
<1>3. AvailabilityInv /\ [AvailabilityNext]_availabilityVars => AvailabilityInv'
  BY AvailabilityStepHolds
<1> QED
  BY <1>2, <1>3, AvailabilityInitHolds, PTL DEF AvailabilitySpec, AskedBeforeReconnect

-----------------------------------------------------------------------------
(* LocalReadings.  What is shown of a running entry is its counter, or what it *)
(* was restored with, which the floor then covers; an outage notice stands     *)
(* only while the next answer will end it.                                     *)

Meter == Nat \cup {Nothing}

ReadingsTypes ==
    /\ run \in {"down", "setup", "running"}
    /\ counter \in Meter /\ shown \in Meter /\ dropped \in Meter /\ floor \in Nat
    /\ dropping \in {"no", "new", "old"} /\ heldNotice \in {"none", "open", "ignored"}
    /\ device \in [counter : Nat, setting : Settings, fault : BOOLEAN]
    /\ poll \in [counter : Meter, setting : Settings \cup {None}]

MeterInv ==
    /\ run = "running" => IF counter = Nothing THEN shown <= floor ELSE shown = counter
    /\ run = "setup" => floor = 0 /\ dropping = "no" /\ (poll # NoPoll => counter = Nothing)
    /\ run = "down" => poll = NoPoll
    /\ poll # NoPoll => poll.counter # Nothing
    /\ dropping # "no" => dropped # Nothing

NoticesInv ==
    /\ outageNotice => ~answered /\ MayBeRaised
    /\ heldNotice = "open" => run = "running" /\ noticed

ReadingsInv == ReadingsTypes /\ MeterInv /\ NoticesInv

\* Before the first poll nothing is shown and no notice is open.
LEMMA ReadingsInitHolds == ReadingsInit => ReadingsInv
<1> SUFFICES ASSUME ReadingsInit PROVE ReadingsInv
  OBVIOUS
<1> USE ReadingsAssumption DEF ReadingsInit, Meter, Nothing, NoPoll
<1>1. ReadingsTypes
  BY SMT DEF ReadingsTypes
<1>2. MeterInv
  BY SMT DEF MeterInv
<1>3. NoticesInv
  BY DEF NoticesInv
<1> QED
  BY <1>1, <1>2, <1>3 DEF ReadingsInv

\* What a reading leaves of the counter, the suspected fall and the meter that is shown.
LEMMA ApplyFacts ==
  ASSUME ReadingsInv, NEW r \in [counter : Nat, setting : Settings \cup {None}], Apply(r),
         run # "down", run = "setup" => counter = Nothing
  PROVE  /\ counter' \in Meter /\ dropped' \in Meter /\ dropping' \in {"no", "new", "old"}
         /\ shown' \in Meter /\ shown' >= shown
         /\ run = "running" => IF counter' = Nothing THEN shown' <= floor ELSE shown' = counter'
         /\ run = "setup" => dropping' = "no"
         /\ dropping' # "no" => dropped' # Nothing
         /\ UNCHANGED <<floor, form, device, run>>
<1> USE DEF ReadingsInv, ReadingsTypes, MeterInv, Meter, Nothing
<1>0. UNCHANGED <<floor, form, device, run>>
  BY DEF Apply
<1>1. Lowest \in Nat /\ Lowest >= floor /\ Lowest >= counter /\ (counter = Nothing => Lowest = floor)
  BY SMT DEF Lowest, Larger
<1>2. CASE r.counter < Lowest
  <2>1. /\ counter' = counter /\ dropped' = r.counter
        /\ dropping' = IF dropping = "no" THEN "new" ELSE dropping
        /\ shown' = ShownWith(counter)
    BY <1>2 DEF Apply
  <2>2. run = "running"
    BY <1>1, <1>2, SMT
  <2> QED
    BY <1>0, <2>1, <2>2, SMT DEF ShownWith
<1>3. CASE ~(r.counter < Lowest)
  <2>1. /\ counter' = r.counter /\ dropped' = Nothing /\ dropping' = "no"
        /\ shown' = ShownWith(r.counter)
    BY <1>3 DEF Apply
  <2> QED
    BY <1>0, <1>1, <1>3, <2>1, SMT DEF ShownWith
<1> QED
  BY <1>2, <1>3

\* A reading opens the notice of a fallen counter only while it sees one.
LEMMA ApplyNotices ==
  ASSUME ReadingsInv, NEW r, Apply(r), run # "down", run = "setup" => dropping' = "no"
  PROVE  /\ heldNotice' \in {"none", "open", "ignored"}
         /\ heldNotice' = "open" => run = "running" /\ noticed'
<1> USE DEF ReadingsInv, ReadingsTypes, NoticesInv
<1>1. noticed' = (dropping' = "old")
  BY DEF Apply
<1>2. heldNotice' = CASE dropping' = "old" -> IF heldNotice = "ignored" THEN "ignored" ELSE "open"
                      [] dropping' # "old" /\ noticed -> "none"
                      [] OTHER -> heldNotice
  BY DEF Apply
<1>3. CASE dropping' = "old"
  <2>1. heldNotice' = IF heldNotice = "ignored" THEN "ignored" ELSE "open"
    BY <1>2, <1>3
  <2>2. run = "running" /\ noticed'
    BY <1>1, <1>3
  <2> QED
    BY <2>1, <2>2
<1>4. CASE dropping' # "old" /\ noticed
  BY <1>2, <1>4
<1>5. CASE dropping' # "old" /\ ~noticed
  BY <1>2, <1>5
<1> QED
  BY <1>3, <1>4, <1>5

\* An answered poll and the read of the faults.
LEMMA PollSteps ==
  ASSUME ReadingsInv, PollAnswered \/ FaultsRead
  PROVE  ReadingsInv' /\ shown' >= shown
<1> USE DEF ReadingsInv, ReadingsTypes, MeterInv, NoticesInv, Meter, Nothing, NoPoll
<1>1. CASE PollAnswered
  <2>1. run # "down" /\ (run = "setup" => counter = Nothing) /\ poll = NoPoll
    BY <1>1 DEF PollAnswered
  <2>2. ~outageNotice'
    BY <1>1 DEF PollAnswered, Succeeds
  <2>3. PICK c \in 0..device.counter :
            LET r == [counter |-> c, setting |-> device.setting]
            IN  IF device.fault
                  THEN poll' = r /\ UNCHANGED <<run, runVars, registry, shown, device>>
                  ELSE Apply(r) /\ UNCHANGED poll
    BY <1>1 DEF PollAnswered
  <2> DEFINE r == [counter |-> c, setting |-> device.setting]
  <2>4. r \in [counter : Nat, setting : Settings \cup {None}] /\ r.counter # Nothing
    BY SMT
  <2>5. CASE device.fault
    <3>1. poll' = r /\ UNCHANGED <<run, runVars, registry, shown, device>>
      BY <2>3, <2>5
    <3> HIDE DEF r
    <3>2. r \in [counter : Meter, setting : Settings \cup {None}]
      BY <2>4, SMT
    <3> QED
      BY <2>1, <2>2, <2>4, <3>1, <3>2, SMT DEF runVars, registry
  <2>6. CASE ~device.fault
    <3>1. Apply(r) /\ UNCHANGED poll
      BY <2>3, <2>6
    <3> HIDE DEF r
    <3> HIDE DEF ReadingsInv, ReadingsTypes, MeterInv, NoticesInv
    <3>2. /\ counter' \in Meter /\ dropped' \in Meter /\ dropping' \in {"no", "new", "old"}
          /\ shown' \in Meter /\ shown' >= shown
          /\ run = "running" => IF counter' = Nothing THEN shown' <= floor ELSE shown' = counter'
          /\ run = "setup" => dropping' = "no"
          /\ dropping' # "no" => dropped' # Nothing
          /\ UNCHANGED <<floor, form, device, run>>
      BY <2>1, <2>4, <3>1, ApplyFacts
    <3>3. /\ heldNotice' \in {"none", "open", "ignored"}
          /\ heldNotice' = "open" => run = "running" /\ noticed'
      BY <2>1, <3>1, <3>2, ApplyNotices
    <3> USE DEF ReadingsInv, ReadingsTypes, MeterInv, NoticesInv
    <3> QED
      BY <2>1, <2>2, <3>1, <3>2, <3>3, SMT
  <2> QED
    BY <2>5, <2>6
<1>2. CASE FaultsRead
  <2>1. poll # NoPoll /\ Apply(poll) /\ poll' = NoPoll /\ UNCHANGED pollVars
    BY <1>2 DEF FaultsRead
  <2>2. run # "down" /\ (run = "setup" => counter = Nothing)
    BY <2>1
  <2>3. poll \in [counter : Nat, setting : Settings \cup {None}]
    BY <2>1, SMT
  <2> HIDE DEF ReadingsInv, ReadingsTypes, MeterInv, NoticesInv
  <2>4. /\ counter' \in Meter /\ dropped' \in Meter /\ dropping' \in {"no", "new", "old"}
        /\ shown' \in Meter /\ shown' >= shown
        /\ run = "running" => IF counter' = Nothing THEN shown' <= floor ELSE shown' = counter'
        /\ run = "setup" => dropping' = "no"
        /\ dropping' # "no" => dropped' # Nothing
        /\ UNCHANGED <<floor, form, device, run>>
    BY <2>1, <2>2, <2>3, ApplyFacts
  <2>5. /\ heldNotice' \in {"none", "open", "ignored"}
        /\ heldNotice' = "open" => run = "running" /\ noticed'
    BY <2>1, <2>2, <2>4, ApplyNotices
  <2> USE DEF ReadingsInv, ReadingsTypes, MeterInv, NoticesInv
  <2>6. UNCHANGED <<outageNotice, answered, available, unsure>>
    BY <2>1 DEF pollVars
  <2>7. NoticesInv'
    BY <2>4, <2>5, <2>6 DEF MayBeRaised
  <2>8. NoPoll \in [counter : Meter, setting : Settings \cup {None}]
    BY SMT
  <2> QED
    BY <2>1, <2>2, <2>4, <2>5, <2>7, <2>8, SMT
<1> QED
  BY <1>1, <1>2

\* A failed poll may raise the outage, and only after a long silence.
LEMMA FailureStep ==
  ASSUME ReadingsInv, NEW kind, PollFails(kind)
  PROVE  ReadingsInv' /\ shown' >= shown
<1> USE DEF ReadingsInv, ReadingsTypes, MeterInv, NoticesInv, Meter, Nothing, NoPoll
<1> DEFINE tell == ~available' /\ silence' = "long" /\ ~raised
<1>1. UNCHANGED <<run, counter, setting, floor, dropping, dropped, noticed, poll, heldNotice, form,
                  shown, device, unsure>>
  BY DEF PollFails, runVars, registry
<1>2. /\ outageNotice' => outageNotice \/ tell
      /\ answered' => answered /\ ~tell
      /\ available' => available
  BY DEF PollFails
<1>3. NoticesInv'
  BY <1>1, <1>2 DEF MayBeRaised
<1> QED
  BY <1>1, <1>3, SMT

\* The entities of a setup start from its reading.
LEMMA AddedStep ==
  ASSUME ReadingsInv, EntitiesAdded
  PROVE  ReadingsInv' /\ shown' >= shown
<1> USE DEF ReadingsInv, ReadingsTypes, MeterInv, NoticesInv, Meter, Nothing, NoPoll
<1>1. /\ run = "setup" /\ counter # Nothing /\ run' = "running"
      /\ shown' = IF counter' = Nothing THEN shown ELSE counter'
      /\ UNCHANGED <<setting, dropping, dropped, noticed, pollVars, poll, registry, device>>
  BY DEF EntitiesAdded
<1>2. UNCHANGED <<heldNotice, outageNotice, answered, available, unsure>>
  BY <1>1 DEF registry, pollVars
<1>3. CASE shown = Nothing
  <2>1. UNCHANGED <<floor, counter>>
    BY <1>3 DEF EntitiesAdded
  <2> QED
    BY <1>1, <1>2, <1>3, <2>1, SMT DEF MayBeRaised
<1>4. CASE shown # Nothing
  <2>1. /\ floor' = Larger(shown, floor)
        /\ counter' = IF counter # Nothing /\ counter < floor' THEN Nothing ELSE counter
    BY <1>4 DEF EntitiesAdded, Seeds
  <2>2. floor' \in Nat /\ floor' >= shown
    BY <1>4, <2>1, SMT DEF Larger
  <2>3. /\ counter' \in Meter /\ shown' \in Meter /\ shown' >= shown
        /\ IF counter' = Nothing THEN shown' <= floor' ELSE shown' = counter'
    BY <1>1, <2>1, <2>2, SMT
  <2> QED
    BY <1>1, <1>2, <2>2, <2>3, SMT DEF MayBeRaised
<1> QED
  BY <1>3, <1>4

\* The answer to the repair form sets the floor, closes the notice and nothing else.
LEMMA FormSteps ==
  ASSUME ReadingsInv, Submit
  PROVE  ReadingsInv'
<1> USE DEF ReadingsInv, ReadingsTypes, MeterInv, NoticesInv, Meter, Nothing, NoPoll
<1>1. /\ heldNotice' = "none"
      /\ UNCHANGED <<run, setting, noticed, pollVars, poll, device>>
  BY DEF Submit
<1>2. UNCHANGED <<outageNotice, answered, available, unsure>>
  BY <1>1 DEF pollVars
<1>3. CASE run = "running" /\ dropping # "no"
  <2>1. /\ floor' = dropped /\ counter' = dropped /\ shown' = dropped
        /\ dropping' = "no" /\ dropped' = Nothing
    BY <1>3 DEF Submit
  <2> QED
    BY <1>1, <1>2, <1>3, <2>1, SMT DEF MayBeRaised
<1>4. CASE ~(run = "running" /\ dropping # "no")
  <2>1. UNCHANGED <<floor, counter, shown, dropping, dropped>>
    BY <1>4 DEF Submit
  <2> QED
    BY <1>1, <1>2, <1>4, <2>1, SMT DEF MayBeRaised
<1> QED
  BY <1>3, <1>4

\* The remaining steps leave the meter and the notices alone, or clear them.
LEMMA OtherReadingSteps ==
  ASSUME ReadingsInv,
         \/ Start \/ SetupFails \/ OpenForm \/ Ignore \/ Unload \/ WriteSetting \/ TimePasses
         \/ DeviceMoves \/ UNCHANGED readingsVars
  PROVE  ReadingsInv' /\ shown' >= shown
<1> USE DEF ReadingsInv, ReadingsTypes, MeterInv, NoticesInv, Meter, Nothing, NoPoll, MayBeRaised,
            runVars, pollVars, registry
<1>1. CASE Start
  BY <1>1, SMT DEF Start, Fresh
<1>2. CASE SetupFails
  BY <1>2, SMT DEF SetupFails
<1>3. CASE OpenForm \/ Ignore
  BY <1>3, SMT DEF OpenForm, Ignore
<1>4. CASE Unload
  <2>1. NoPoll \in [counter : Meter, setting : Settings \cup {None}]
    BY SMT
  <2> QED
    BY <1>4, <2>1, SMT DEF Unload
<1>5. CASE WriteSetting
  <2>1. PICK v \in Settings : device' = [device EXCEPT !.setting = v] /\ setting' = v
    BY <1>5 DEF WriteSetting
  <2>2. device' \in [counter : Nat, setting : Settings, fault : BOOLEAN]
    BY <2>1, SMT
  <2> QED
    BY <1>5, <2>2, SMT DEF WriteSetting
<1>6. CASE TimePasses
  BY <1>6, SMT DEF TimePasses
<1>7. CASE DeviceMoves
  <2>1. device' \in [counter : Nat, setting : Settings, fault : BOOLEAN]
    <3>1. CASE device.counter < Top /\ device' = [device EXCEPT !.counter = @ + 1]
      BY <3>1, SMT
    <3>2. CASE device.counter > 0 /\ device' = [device EXCEPT !.counter = 0]
      BY <3>2, SMT
    <3>3. CASE device' = [device EXCEPT !.fault = ~@]
      <4>1. device.fault \in BOOLEAN /\ (~device.fault) \in BOOLEAN
        BY Zenon
      <4> QED
        BY <3>3, <4>1, Zenon
    <3> QED
      BY <1>7, <3>1, <3>2, <3>3 DEF DeviceMoves
  <2> QED
    BY <1>7, <2>1, SMT DEF DeviceMoves
<1>8. CASE UNCHANGED readingsVars
  BY <1>8, SMT DEF readingsVars
<1> QED
  BY <1>1, <1>2, <1>3, <1>4, <1>5, <1>6, <1>7, <1>8

\* No step breaks the invariant, and only the form may lower the meter.
LEMMA ReadingsStepHolds ==
  ASSUME ReadingsInv, [ReadingsNext]_readingsVars
  PROVE  ReadingsInv' /\ (shown' >= shown \/ Submit)
<1>1. CASE PollAnswered \/ FaultsRead
  BY <1>1, PollSteps
<1>2. ASSUME NEW kind, PollFails(kind) PROVE ReadingsInv' /\ shown' >= shown
  BY <1>2, FailureStep
<1>3. CASE EntitiesAdded
  BY <1>3, AddedStep
<1>4. CASE Submit
  BY <1>4, FormSteps
<1> QED
  BY <1>1, <1>2, <1>3, <1>4, OtherReadingSteps DEF ReadingsNext

\* What Home Assistant shows of a lifetime counter falls only when the owner accepts the
\* device's reading (_hold_counters, seed_energy_total, async_step_confirm).
THEOREM MeterFallsOnlyAccepted == ReadingsSpec => MeterNeverFalls
<1>1. ASSUME ReadingsInv, [ReadingsNext]_readingsVars, shown' < shown PROVE Submit
  <2>1. shown \in Int /\ shown' \in Int
    BY <1>1, ReadingsStepHolds, SMT DEF ReadingsInv, ReadingsTypes, Meter, Nothing
  <2>2. shown' >= shown \/ Submit
    BY <1>1, ReadingsStepHolds
  <2> QED
    BY <1>1, <2>1, <2>2, SMT
<1>2. ReadingsInv /\ [ReadingsNext]_readingsVars => [shown' < shown => Submit]_readingsVars
  BY <1>1
<1>3. ReadingsInv /\ [ReadingsNext]_readingsVars => ReadingsInv'
  BY ReadingsStepHolds
<1> QED
  BY <1>2, <1>3, ReadingsInitHolds, PTL DEF ReadingsSpec, MeterNeverFalls

\* A notice in the repairs registry stands only as long as it is true, over restarts too.
THEOREM NoticesAreTrue == ReadingsSpec => []NoticesJustified
<1>1. ReadingsInv => NoticesJustified
  BY DEF ReadingsInv, NoticesInv, NoticesJustified
<1>2. ReadingsInv /\ [ReadingsNext]_readingsVars => ReadingsInv'
  BY ReadingsStepHolds
<1> QED
  BY <1>1, <1>2, ReadingsInitHolds, PTL DEF ReadingsSpec

-----------------------------------------------------------------------------
(* SurplusSync.  Each sync write since the latest intent has ticked one of the *)
(* finitely many boxes of the record, a percentage of the EMS and the number   *)
(* of the write; and once the grace period is over, nothing the user has       *)
(* superseded is on its way or in the store.                                   *)

Requests == [value : Percents, user : BOOLEAN]
Echoes == [value : Percents, old : BOOLEAN]
MaybePercents == Percents \cup {Unknown}

SurplusTypes ==
    /\ slider \in Percents /\ app \in MaybePercents /\ ems \in MaybePercents
    /\ toDevice \in Seq(Requests) /\ echoes \in Seq(Echoes)
    /\ record \in [app : MaybePercents, writes : [Percents -> 0..MaxWrites]]
    /\ spent \in Nat

NoneOld(way) == \A i \in 1..Len(way) : ~way[i].old
NoneOfUser(way) == \A i \in 1..Len(way) : ~way[i].user

\* Past the grace period nothing the user has superseded is left.
GraceInv ==
    EchoPrompt /\ grace =>
        NoneOfUser(toDevice) /\ NoneOld(echoes) /\ (echoed = "after" => ~appOld)

Ticks(rec) == {pair \in Percents \X (1..MaxWrites) : pair[2] <= rec.writes[pair[1]]}

\* Every sync write since the latest intent has its tick in the record.
SpentInv == spent > 0 => record.app = intent /\ spent <= Cardinality(Ticks(record))

SurplusInv == SurplusTypes /\ GraceInv /\ SpentInv

\* The ticks are boxes of a table with a row for each percentage.
LEMMA TicksFinite ==
  ASSUME NEW rec
  PROVE  /\ IsFiniteSet(Ticks(rec)) /\ Cardinality(Ticks(rec)) \in Nat
         /\ Cardinality(Ticks(rec)) <= MaxWrites * Cardinality(Percents)
<1>1. IsFiniteSet(1..MaxWrites) /\ Cardinality(1..MaxWrites) = MaxWrites
  BY SurplusAssumption, FS_Interval, SMT
<1>2. /\ IsFiniteSet(Percents \X (1..MaxWrites))
      /\ Cardinality(Percents \X (1..MaxWrites)) = Cardinality(Percents) * Cardinality(1..MaxWrites)
  BY <1>1, SurplusAssumption, FS_Product
<1>3. /\ IsFiniteSet(Ticks(rec))
      /\ Cardinality(Ticks(rec)) <= Cardinality(Percents \X (1..MaxWrites))
  <2>1. Ticks(rec) \in SUBSET (Percents \X (1..MaxWrites))
    BY DEF Ticks
  <2> QED
    BY <1>2, <2>1, FS_Subset
<1>4. Cardinality(Percents) \in Nat /\ Cardinality(Ticks(rec)) \in Nat
  BY <1>3, SurplusAssumption, FS_CardinalityType
<1>5. Cardinality(Percents) * MaxWrites = MaxWrites * Cardinality(Percents)
  BY <1>4, SurplusAssumption, SMT
<1> QED
  BY <1>1, <1>2, <1>3, <1>4, <1>5

\* A write ticks one more box.
LEMMA TickAdded ==
  ASSUME NEW rec, NEW new, NEW e \in Percents,
         rec.writes \in [Percents -> 0..MaxWrites], rec.writes[e] < MaxWrites,
         new.writes = [rec.writes EXCEPT ![e] = @ + 1]
  PROVE  /\ new.writes \in [Percents -> 0..MaxWrites]
         /\ Cardinality(Ticks(new)) = Cardinality(Ticks(rec)) + 1
<1> DEFINE w == rec.writes[e]
<1>1. new.writes \in [Percents -> 0..MaxWrites]
  BY SurplusAssumption, SMT
<1>2. <<e, w + 1>> \notin Ticks(rec)
  <2>1. ~(w + 1 <= rec.writes[e])
    BY SMT
  <2> QED
    BY <2>1 DEF Ticks
<1>3. Ticks(new) = Ticks(rec) \cup {<<e, w + 1>>}
  <2>1. ASSUME NEW p \in Percents, NEW n \in 1..MaxWrites
        PROVE  n <= new.writes[p] <=> n <= rec.writes[p] \/ (p = e /\ n = w + 1)
    <3>1. CASE p = e
      BY <3>1, SMT
    <3>2. CASE p # e
      BY <3>2, SMT
    <3> QED
      BY <3>1, <3>2
  <2>2. w + 1 \in 1..MaxWrites
    BY SurplusAssumption, SMT
  <2>3. ASSUME NEW pair \in Percents \X (1..MaxWrites)
        PROVE  pair \in Ticks(new) <=> pair \in Ticks(rec) \cup {<<e, w + 1>>}
    <3>1. PICK p \in Percents, n \in 1..MaxWrites : pair = <<p, n>>
      OBVIOUS
    <3>2. pair \in Ticks(new) <=> n <= new.writes[p]
      BY <3>1 DEF Ticks
    <3>3. pair \in Ticks(rec) <=> n <= rec.writes[p]
      BY <3>1 DEF Ticks
    <3>4. pair = <<e, w + 1>> <=> p = e /\ n = w + 1
      BY <3>1
    <3> QED
      BY <2>1, <3>2, <3>3, <3>4
  <2>4. Ticks(new) \subseteq Percents \X (1..MaxWrites) /\ Ticks(rec) \subseteq Percents \X (1..MaxWrites)
    BY DEF Ticks
  <2>5. <<e, w + 1>> \in Percents \X (1..MaxWrites)
    BY <2>2
  <2> QED
    BY <2>3, <2>4, <2>5
<1>4. Cardinality(Ticks(rec) \cup {<<e, w + 1>>}) = Cardinality(Ticks(rec)) + 1
  BY <1>2, TicksFinite, FS_AddElement
<1> QED
  BY <1>1, <1>3, <1>4

\* The two outcomes of a judgement: one more write, or none.
SyncWrites(rec) ==
    /\ app' \in Percents /\ ems' \in Percents
    /\ rec.writes[ems'] < MaxWrites /\ echoed' = "after" /\ grace
    /\ record' = [app |-> app', writes |-> [rec.writes EXCEPT ![ems'] = @ + 1]]
    /\ toDevice' = Append(toDevice, [value |-> app', user |-> FALSE])
    /\ intent' = app' /\ spent' = IF app' = intent THEN spent + 1 ELSE 1

SyncWaits(rec) ==
    /\ record' = rec /\ toDevice' = toDevice
    /\ intent' = IF app' = Unknown THEN intent ELSE app'
    /\ spent' = IF intent' = intent THEN spent ELSE 0

\* Which record a sync works on: the one it has, or a new one after the app moved.
LEMMA SyncCases ==
  ASSUME SurplusTypes, Sync, app' \in MaybePercents, ems' \in MaybePercents
  PROVE  \E rec \in [app : MaybePercents, writes : [Percents -> 0..MaxWrites]] :
            /\ \/ rec = record /\ (app' = Unknown \/ ems' = Unknown \/ record.app = app')
               \/ rec = NoRecord /\ app' # Unknown /\ record.app # app'
            /\ SyncWrites(rec) \/ SyncWaits(rec)
<1> DEFINE known == app' # Unknown /\ ems' # Unknown
           rec == IF known /\ record.app # app' THEN NoRecord ELSE record
<1>1. NoRecord \in [app : MaybePercents, writes : [Percents -> 0..MaxWrites]]
  BY SurplusAssumption, SMT DEF NoRecord, NoWrites, MaybePercents
<1>2. rec \in [app : MaybePercents, writes : [Percents -> 0..MaxWrites]]
  BY <1>1 DEF SurplusTypes
<1>3. \/ rec = record /\ (app' = Unknown \/ ems' = Unknown \/ record.app = app')
      \/ rec = NoRecord /\ app' # Unknown /\ record.app # app'
  OBVIOUS
<1>4. CASE known /\ app' # ems' /\ rec.writes[ems'] < MaxWrites /\ EchoCounts /\ cool /\ WithRoom(toDevice)
  <2>1. SyncWrites(rec)
    BY <1>4 DEF Sync, SyncWrites, EchoCounts, MaybePercents
  <2> HIDE DEF rec
  <2> QED
    BY <1>2, <1>3, <2>1
<1>5. CASE ~(known /\ app' # ems' /\ rec.writes[ems'] < MaxWrites /\ EchoCounts /\ cool /\ WithRoom(toDevice))
  <2>1. SyncWaits(rec)
    BY <1>5 DEF Sync, SyncWaits, KeepConverged
  <2> HIDE DEF rec
  <2> QED
    BY <1>2, <1>3, <2>1
<1> QED
  BY <1>4, <1>5

\* A sync that writes spends a tick of its record.
LEMMA SyncSpent ==
  ASSUME SurplusInv, Sync, app' \in MaybePercents, ems' \in MaybePercents
  PROVE  /\ record' \in [app : MaybePercents, writes : [Percents -> 0..MaxWrites]]
         /\ spent' \in Nat /\ SpentInv'
<1> USE DEF SurplusInv, SurplusTypes
<1>1. PICK rec \in [app : MaybePercents, writes : [Percents -> 0..MaxWrites]] :
         /\ \/ rec = record /\ (app' = Unknown \/ ems' = Unknown \/ record.app = app')
            \/ rec = NoRecord /\ app' # Unknown /\ record.app # app'
         /\ SyncWrites(rec) \/ SyncWaits(rec)
  BY SyncCases
<1>2. CASE SyncWrites(rec)
  <2>1. /\ app' \in Percents /\ ems' \in Percents /\ app' # Unknown /\ ems' # Unknown
        /\ rec.writes[ems'] < MaxWrites
        /\ intent' = app' /\ spent' = IF app' = intent THEN spent + 1 ELSE 1
    BY <1>2, SurplusAssumption DEF SyncWrites
  <2>2. record' = [app |-> app', writes |-> [rec.writes EXCEPT ![ems'] = @ + 1]]
    BY <1>2 DEF SyncWrites
  <2>3. rec.writes \in [Percents -> 0..MaxWrites]
    OBVIOUS
  <2>4. record'.app = app' /\ record'.writes = [rec.writes EXCEPT ![ems'] = @ + 1]
    BY <2>2
  <2>5. /\ record'.writes \in [Percents -> 0..MaxWrites]
        /\ Cardinality(Ticks(record')) = Cardinality(Ticks(rec)) + 1
    BY <2>1, <2>3, <2>4, TickAdded
  <2>6. record' \in [app : MaybePercents, writes : [Percents -> 0..MaxWrites]]
    BY <2>2, <2>4, <2>5
  <2>7. Cardinality(Ticks(rec)) \in Nat
    BY TicksFinite
  <2>8. Ticks(record)' = Ticks(record')
    BY DEF Ticks
  <2>9. CASE spent > 0 /\ app' = intent
    <3>1. record.app = app' /\ rec = record /\ spent <= Cardinality(Ticks(rec))
      BY <1>1, <2>9 DEF SpentInv
    <3> QED
      BY <2>1, <2>4, <2>5, <2>6, <2>7, <2>8, <3>1, SMT DEF SpentInv
  <2>10. CASE ~(spent > 0 /\ app' = intent)
    <3>1. spent' = 1
      BY <2>1, <2>10, SMT
    <3> QED
      BY <2>1, <2>4, <2>5, <2>6, <2>7, <2>8, <3>1, SMT DEF SpentInv
  <2> QED
    BY <2>9, <2>10
<1>3. CASE SyncWaits(rec)
  <2>1. /\ record' = rec
        /\ intent' = IF app' = Unknown THEN intent ELSE app'
        /\ spent' = IF intent' = intent THEN spent ELSE 0
    BY <1>3 DEF SyncWaits
  <2>2. CASE intent' # intent
    BY <2>1, <2>2, SMT DEF SpentInv
  <2>3. CASE intent' = intent
    <3>1. spent > 0 => record.app = intent /\ spent <= Cardinality(Ticks(record))
      BY DEF SpentInv
    <3>2. spent > 0 => record' = record
      BY <1>1, <2>1, <2>3, <3>1
    <3>3. Ticks(record)' = Ticks(record')
      BY DEF Ticks
    <3>4. spent' = spent
      BY <2>1, <2>3
    <3>5. SpentInv'
      BY <2>3, <3>1, <3>2, <3>3, <3>4 DEF SpentInv
    <3> QED
      BY <2>1, <3>4, <3>5
  <2> QED
    BY <2>2, <2>3
<1> QED
  BY <1>1, <1>2, <1>3

\* A sync sends nothing of the user, and only within the grace.
LEMMA SyncSends ==
  ASSUME SurplusTypes, Sync, app' \in MaybePercents, ems' \in MaybePercents
  PROVE  /\ toDevice' \in Seq(Requests)
         /\ NoneOfUser(toDevice) => NoneOfUser(toDevice')
         /\ toDevice' = toDevice \/ (Len(toDevice') = Len(toDevice) + 1 /\ echoed' = "after" /\ grace)
<1> USE DEF SurplusTypes
<1>1. PICK rec \in [app : MaybePercents, writes : [Percents -> 0..MaxWrites]] :
         SyncWrites(rec) \/ SyncWaits(rec)
  BY SyncCases
<1>2. CASE SyncWrites(rec)
  <2> DEFINE request == [value |-> app', user |-> FALSE]
  <2>1. toDevice' = Append(toDevice, request) /\ echoed' = "after" /\ grace
    BY <1>2 DEF SyncWrites
  <2>2. request \in Requests /\ ~request.user
    BY <1>2 DEF SyncWrites, Requests
  <2> HIDE DEF request
  <2> QED
    BY <2>1, <2>2, SMT DEF NoneOfUser
<1>3. CASE SyncWaits(rec)
  BY <1>3 DEF SyncWaits
<1> QED
  BY <1>1, <1>2, <1>3

\* Frames of the device change what is known and may start a sync.
LEMMA FrameSteps ==
  ASSUME SurplusInv, \/ EchoArrives \/ FieldArrives \/ \E value \in Percents : EmsReports(value)
  PROVE  /\ SurplusInv'
         /\ toDevice' = toDevice \/ (Len(toDevice') = Len(toDevice) + 1 /\ (EchoPrompt => ~appOld'))
<1> USE DEF SurplusInv, SurplusTypes
<1>1. /\ Sync /\ slider' = slider /\ grace' = grace
      /\ app' \in MaybePercents /\ ems' \in MaybePercents
      /\ echoes' \in Seq(Echoes)
      /\ NoneOld(echoes) => NoneOld(echoes')
      /\ echoed' = "after" => \/ echoed = "after" /\ appOld' = appOld
                              \/ NoneOld(echoes) => ~appOld'
  <2>1. CASE EchoArrives
    <3>1. /\ echoes # <<>> /\ echoes' = Tail(echoes) /\ app' \in {Head(echoes).value, Unknown}
          /\ appOld' = Head(echoes).old /\ Sync
          /\ UNCHANGED <<slider, ems, grace>>
      BY <2>1 DEF EchoArrives
    <3>2. Head(echoes) \in Echoes /\ Head(echoes) = echoes[1] /\ 1 \in 1..Len(echoes)
      BY <3>1, SMT
    <3>3. Head(echoes).value \in Percents
      BY <3>2 DEF Echoes
    <3>4. NoneOld(echoes) => ~Head(echoes).old
      BY <3>2 DEF NoneOld
    <3>5. Tail(echoes) \in Seq(Echoes) /\ (NoneOld(echoes) => NoneOld(Tail(echoes)))
      BY <3>1, SMT DEF NoneOld
    <3> QED
      BY <3>1, <3>3, <3>4, <3>5 DEF MaybePercents
  <2>2. CASE FieldArrives
    BY <2>2 DEF FieldArrives, MaybePercents
  <2>3. ASSUME NEW value \in Percents, EmsReports(value)
        PROVE  /\ Sync /\ app' = app /\ ems' = value
               /\ UNCHANGED <<slider, echoes, appOld, echoed, grace>>
    BY <2>3 DEF EmsReports
  <2> QED
    BY <2>1, <2>2, <2>3 DEF MaybePercents
<1>2. /\ record' \in [app : MaybePercents, writes : [Percents -> 0..MaxWrites]]
      /\ spent' \in Nat /\ SpentInv'
  BY <1>1, SyncSpent
<1>3. /\ toDevice' \in Seq(Requests)
      /\ NoneOfUser(toDevice) => NoneOfUser(toDevice')
      /\ toDevice' = toDevice \/ (Len(toDevice') = Len(toDevice) + 1 /\ echoed' = "after" /\ grace)
  BY <1>1, SyncSends
<1>4. GraceInv'
  BY <1>1, <1>3 DEF GraceInv
<1>5. EchoPrompt /\ echoed' = "after" /\ grace => ~appOld'
  BY <1>1 DEF GraceInv
<1> QED
  BY <1>1, <1>2, <1>3, <1>4, <1>5

\* What the user sends is the user's own.
LEMMA UserStep ==
  ASSUME SurplusInv, NEW value \in Percents, UserSets(value)
  PROVE  /\ SurplusInv'
         /\ \A i \in 1..Len(toDevice') : i > Len(toDevice) => toDevice'[i].user
<1> USE DEF SurplusInv, SurplusTypes
<1>1. /\ toDevice' = Append(toDevice, [value |-> value, user |-> TRUE])
      /\ app' = value /\ ~grace' /\ record' = NoRecord /\ spent' = 0
      /\ UNCHANGED <<slider, ems>>
      /\ echoes' = [i \in DOMAIN echoes |-> [echoes[i] EXCEPT !.old = TRUE]]
  BY DEF UserSets
<1> DEFINE request == [value |-> value, user |-> TRUE]
<1>2. request \in Requests /\ request.user
  BY DEF Requests
<1>3. /\ toDevice' \in Seq(Requests)
      /\ \A i \in 1..Len(toDevice') : i > Len(toDevice) => toDevice'[i].user
  <2>1. toDevice' = Append(toDevice, request)
    BY <1>1
  <2> HIDE DEF request
  <2> QED
    BY <1>2, <2>1, SMT
<1>4. echoes' \in Seq(Echoes)
  <2>1. \A i \in DOMAIN echoes : [echoes[i] EXCEPT !.old = TRUE] \in Echoes
    <3>1. ASSUME NEW i \in DOMAIN echoes PROVE [echoes[i] EXCEPT !.old = TRUE] \in Echoes
      <4>1. echoes[i] \in Echoes
        BY LenProperties, ElementOfSeq
      <4>2. TRUE \in BOOLEAN
        OBVIOUS
      <4> QED
        BY <4>1, <4>2, Zenon DEF Echoes
    <3> QED
      BY <3>1
  <2>2. DOMAIN echoes = 1..Len(echoes) /\ Len(echoes) \in Nat
    BY LenProperties
  <2>3. echoes' \in [1..Len(echoes) -> Echoes]
    BY <1>1, <2>1, <2>2
  <2> QED
    BY <2>2, <2>3, SMT
<1>5. NoRecord \in [app : MaybePercents, writes : [Percents -> 0..MaxWrites]]
  BY SurplusAssumption, SMT DEF NoRecord, NoWrites, MaybePercents
<1>6. SpentInv' /\ GraceInv'
  BY <1>1, SMT DEF SpentInv, GraceInv
<1> QED
  BY <1>1, <1>3, <1>4, <1>5, <1>6 DEF MaybePercents

\* The device takes a request, or its app moves the slider.
LEMMA DeviceSteps ==
  ASSUME SurplusInv, DeviceTakes \/ \E value \in Percents : AppMoves(value)
  PROVE  SurplusInv' /\ Len(toDevice') <= Len(toDevice)
<1> USE DEF SurplusInv, SurplusTypes
<1>1. UNCHANGED <<app, ems, appOld, record, cool, intent, spent, echoed, grace>>
  BY DEF DeviceTakes, AppMoves, storeVars, syncVars
<1>2. /\ toDevice' \in Seq(Requests) /\ Len(toDevice') <= Len(toDevice)
      /\ slider' \in Percents
      /\ NoneOfUser(toDevice) => NoneOfUser(toDevice')
      /\ echoes' = Append(echoes, [value |-> slider', old |-> UserWriteUnder(toDevice')])
  <2>1. CASE DeviceTakes
    <3>1. /\ toDevice # <<>> /\ slider' = Head(toDevice).value /\ toDevice' = Tail(toDevice)
          /\ echoes' = Append(echoes, [value |-> slider', old |-> UserWriteUnder(toDevice')])
      BY <2>1 DEF DeviceTakes
    <3>2. Head(toDevice) \in Requests
      BY <3>1, SMT
    <3>3. slider' \in Percents
      BY <3>1, <3>2 DEF Requests
    <3> QED
      BY <3>1, <3>3, SMT DEF NoneOfUser
  <2>2. ASSUME NEW value \in Percents, AppMoves(value)
        PROVE  /\ toDevice' = toDevice /\ slider' = value
               /\ echoes' = Append(echoes, [value |-> slider', old |-> UserWriteUnder(toDevice')])
    BY <2>2 DEF AppMoves, UserWriteUnder
  <2> QED
    BY <2>1, <2>2, SMT
<1> DEFINE under == UserWriteUnder(toDevice')
           echo == [value |-> slider', old |-> under]
<1>3. echo \in Echoes /\ echo.old = under
  <2>1. under \in BOOLEAN
    BY DEF UserWriteUnder
  <2> HIDE DEF under
  <2> QED
    BY <1>2, <2>1 DEF Echoes
<1>4. NoneOfUser(toDevice') => ~under
  <2>1. DOMAIN toDevice' = 1..Len(toDevice')
    BY <1>2, LenProperties
  <2> QED
    BY <2>1 DEF NoneOfUser, UserWriteUnder
<1>5. echoes' = Append(echoes, echo)
  BY <1>2
<1> HIDE DEF echo
<1>6. echoes' \in Seq(Echoes) /\ Len(echoes') = Len(echoes) + 1
      /\ \A i \in 1..Len(echoes') : echoes'[i] = IF i <= Len(echoes) THEN echoes[i] ELSE echo
  BY <1>3, <1>5, SMT
<1>7. ~echo.old /\ NoneOld(echoes) => NoneOld(echoes')
  BY <1>6, SMT DEF NoneOld
<1>8. GraceInv'
  BY <1>1, <1>2, <1>3, <1>4, <1>7 DEF GraceInv
<1>9. SpentInv'
  BY <1>1 DEF SpentInv, Ticks
<1> QED
  BY <1>1, <1>2, <1>6, <1>8, <1>9

\* The timers end a pause or the grace.
LEMMA TimerSteps ==
  ASSUME SurplusInv, CoolsDown \/ GraceEnds \/ UNCHANGED surplusVars
  PROVE  SurplusInv' /\ toDevice' = toDevice
<1> USE DEF SurplusInv, SurplusTypes, storeVars, syncVars
<1>1. /\ UNCHANGED <<slider, toDevice, echoes, app, ems, appOld, record, intent, spent, echoed>>
      /\ grace' = grace \/ GraceEnds
  BY DEF CoolsDown, GraceEnds, surplusVars
<1>2. SpentInv'
  BY <1>1 DEF SpentInv, Ticks
<1>3. CASE grace' = grace
  BY <1>1, <1>2, <1>3 DEF GraceInv
<1>4. CASE GraceEnds
  <2>1. EchoPrompt => ~appOld /\ ~UserWriteUnder(toDevice) /\ \A i \in DOMAIN echoes : ~echoes[i].old
    BY <1>4 DEF GraceEnds
  <2>2. DOMAIN toDevice = 1..Len(toDevice) /\ DOMAIN echoes = 1..Len(echoes)
    BY LenProperties
  <2>3. GraceInv'
    BY <1>1, <2>1, <2>2 DEF GraceInv, NoneOld, NoneOfUser, UserWriteUnder
  <2> QED
    BY <1>1, <1>2, <2>3
<1> QED
  BY <1>1, <1>3, <1>4

\* Nothing is known and nothing was sent.
LEMMA SurplusInitHolds == SurplusInit => SurplusInv
<1> SUFFICES ASSUME SurplusInit PROVE SurplusInv
  OBVIOUS
<1>1. NoRecord \in [app : MaybePercents, writes : [Percents -> 0..MaxWrites]]
  BY SurplusAssumption, SMT DEF NoRecord, NoWrites, MaybePercents
<1>2. SurplusTypes
  BY <1>1, SMT DEF SurplusInit, SurplusTypes, MaybePercents
<1>3. GraceInv /\ SpentInv
  BY SMT DEF SurplusInit, GraceInv, SpentInv, NoneOld, NoneOfUser
<1> QED
  BY <1>2, <1>3 DEF SurplusInv

\* No step breaks the invariant of the sync.
LEMMA SurplusStepHolds ==
  ASSUME SurplusInv, [SurplusNext]_surplusVars
  PROVE  SurplusInv'
  BY FrameSteps, UserStep, DeviceSteps, TimerSteps DEF SurplusNext

\* With a prompt echo, no sync sends while the app's own value is on its way.
LEMMA SurplusDrag ==
  ASSUME SurplusInv, [SurplusNext]_surplusVars, EchoPrompt
  PROVE  \A i \in DOMAIN toDevice' : i > Len(toDevice) /\ ~toDevice'[i].user => ~appOld'
<1>1. toDevice \in Seq(Requests) /\ toDevice' \in Seq(Requests)
  BY SurplusStepHolds DEF SurplusInv, SurplusTypes
<1>2. /\ DOMAIN toDevice' = 1..Len(toDevice')
      /\ Len(toDevice) \in Nat /\ Len(toDevice') \in Nat
  BY <1>1, LenProperties
<1>3. CASE EchoArrives \/ FieldArrives \/ \E value \in Percents : EmsReports(value)
  <2>1. toDevice' = toDevice \/ (Len(toDevice') = Len(toDevice) + 1 /\ ~appOld')
    BY <1>3, FrameSteps
  <2>2. toDevice' = toDevice => \A i \in DOMAIN toDevice' : ~(i > Len(toDevice))
    BY <1>2, SMT
  <2> QED
    BY <2>1, <2>2
<1>4. ASSUME NEW value \in Percents, UserSets(value)
      PROVE  \A i \in 1..Len(toDevice') : i > Len(toDevice) => toDevice'[i].user
  BY <1>4, UserStep
<1>5. CASE DeviceTakes \/ \E value \in Percents : AppMoves(value)
  <2>1. Len(toDevice') <= Len(toDevice)
    BY <1>5, DeviceSteps
  <2> QED
    BY <1>2, <2>1, SMT
<1>6. CASE CoolsDown \/ GraceEnds \/ UNCHANGED surplusVars
  <2>1. toDevice' = toDevice
    BY <1>6, TimerSteps
  <2> QED
    BY <1>2, <2>1, SMT
<1> QED
  BY <1>2, <1>3, <1>4, <1>5, <1>6 DEF SurplusNext

\* An EMS that never takes the app's value is written to a bounded number of times per
\* value asked for (_maybe_schedule_surplus_sync).
THEOREM SurplusSyncGivesUp == SurplusSpec => []SyncGivesUp
<1>1. SurplusInv => SyncGivesUp
  <2> SUFFICES ASSUME SurplusInv PROVE SyncGivesUp
    OBVIOUS
  <2>1. Cardinality(Percents) \in Nat
    BY SurplusAssumption, FS_CardinalityType
  <2>2. 0 <= MaxWrites * Cardinality(Percents) /\ MaxWrites * Cardinality(Percents) \in Nat
    BY <2>1, SurplusAssumption, SMT
  <2>3. /\ Cardinality(Ticks(record)) \in Nat
        /\ Cardinality(Ticks(record)) <= MaxWrites * Cardinality(Percents)
    BY TicksFinite
  <2> QED
    BY <2>2, <2>3, SMT DEF SurplusInv, SurplusTypes, SpentInv, SyncGivesUp
<1>2. SurplusInv /\ [SurplusNext]_surplusVars => SurplusInv'
  BY SurplusStepHolds
<1> QED
  BY <1>1, <1>2, SurplusInitHolds, PTL DEF SurplusSpec

\* Where the echo of a user's write is back within the grace period, the auto-sync never
\* writes a value the user has left.
THEOREM SurplusNeverDragsBack == ASSUME EchoPrompt PROVE SurplusSpec => NeverDragsBack
<1>1. SurplusInv /\ [SurplusNext]_surplusVars =>
        [\A i \in DOMAIN toDevice' : i > Len(toDevice) /\ ~toDevice'[i].user => ~appOld']_surplusVars
  BY SurplusDrag
<1>2. SurplusInv /\ [SurplusNext]_surplusVars => SurplusInv'
  BY SurplusStepHolds
<1> QED
  BY <1>1, <1>2, SurplusInitHolds, PTL DEF SurplusSpec, NeverDragsBack

-----------------------------------------------------------------------------
(* Entities.  An update is swallowed only when the gate takes it for what it   *)
(* recorded last.  What Home Assistant shows is that record, but for two       *)
(* things an entity that was just added shows and did not record: its live     *)
(* value and its bounds.                                                       *)

\* The records that make up an entity, its store and what the gate recorded.
EntityRecords ==
    /\ entityStore \in [reading : Entity!Readings, limit : 1..Top \cup {Unreported}]
    /\ entityKind = "number" => entityStore.limit \in 1..Top
    /\ entity = [at |-> entity.at, locked |-> entity.locked, wanted |-> entity.wanted,
                 restored |-> entity.restored]
    /\ written = [on |-> written.on, value |-> written.value, bounds |-> written.bounds]

\* What the gate compares with is what Home Assistant shows, but for the value of an
\* entity that was just added and for bounds it has not recorded.
GateInv ==
    entity.at = "here" =>
        /\ stated.on = written.on
        /\ entity.locked => stated.value = written.value
        /\ entityKind # "number" => stated.bounds = Unreported /\ written.bounds = Unreported
        /\ stated.bounds # written.bounds => entityStore.limit # written.bounds

\* Until an entity is here there is nothing to be settled.
EntityInv ==
    /\ EntityRecords /\ GateInv
    /\ stated = [on |-> stated.on, value |-> stated.value, bounds |-> stated.bounds]
    /\ entity.at \in {"absent", "pending", "here"}
    /\ entity.at = "absent" => ~settled
    /\ PublishedCurrent

\* It holds of an entity that is not there yet.
LEMMA EntityInitHolds == Entity!ControlsInit => EntityInv
  BY EntityAssumption DEF Entity!ControlsInit, EntityInv, EntityRecords, GateInv, PublishedCurrent,
     Entity!PublishedCurrent, Entity!Absent, Entity!Readings, Entity!Values

\* An entity is added with what it shows written past the gate.
LEMMA AddedFacts ==
  ASSUME EntityInv, NEW v, Entity!Added(v), entityKind' = entityKind,
         entityStore' \in [reading : Entity!Readings, limit : 1..Top \cup {Unreported}],
         entityKind = "number" => entityStore'.limit \in 1..Top
  PROVE  EntityInv'
<1>1. /\ entity' = [Entity!Absent EXCEPT !.at = "here", !.restored = Entity!Restored(v)']
      /\ written' = [on |-> Entity!Available', value |-> Entity!Restored(v)', bounds |-> Unreported]
      /\ stated' = [on |-> Entity!Available', value |-> Entity!Value', bounds |-> Entity!Bounds']
  BY DEF Entity!Added, Entity!Sentinel, Entity!State
<1>2. entity' = [at |-> "here", locked |-> FALSE, wanted |-> 0, restored |-> Entity!Restored(v)']
  BY <1>1 DEF Entity!Absent
<1>3. Entity!Bounds' = IF entityKind' = "number" THEN entityStore'.limit ELSE Unreported
  BY DEF Entity!Bounds
<1>4. EntityRecords'
  BY <1>1, <1>2 DEF EntityRecords
<1>5. GateInv'
  <2>1. stated'.on = written'.on
    <3>1. stated'.on = Entity!Available'
      BY <1>1
    <3>2. written'.on = Entity!Available'
      BY <1>1
    <3> QED
      BY <3>1, <3>2
  <2>5. ~entity'.locked
    BY <1>2
  <2>2. stated'.bounds = Entity!Bounds' /\ written'.bounds = Unreported
    BY <1>1
  <2>3. CASE entityKind = "number"
    BY <1>3, <2>1, <2>5, <2>2, <2>3, EntityAssumption DEF GateInv
  <2>4. CASE entityKind # "number"
    BY <1>3, <2>1, <2>5, <2>2, <2>4 DEF GateInv
  <2> QED
    BY <2>3, <2>4
<1>6. stated' = Entity!State'
  BY <1>1 DEF Entity!State
<1>7. PublishedCurrent'
  BY <1>2, <1>6 DEF PublishedCurrent, Entity!PublishedCurrent, Entity!Same
<1> QED
  BY <1>1, <1>2, <1>4, <1>5, <1>7 DEF EntityInv

\* What an entity that is here makes of an update, once the lock is out of the way: the
\* gate swallows it only when Home Assistant shows exactly that.
LEMMA PublishFacts ==
  ASSUME EntityInv, Entity!Publish, entity.at = "here", entity'.at = "here",
         entityKind' = entityKind, entityStore'.limit \in 1..Top \cup {Unreported},
         entityKind = "number" => entityStore'.limit \in 1..Top,
         stated.bounds # written.bounds => entityStore'.limit # written.bounds,
         ~entity.locked /\ stated.value # written.value => Entity!Value' # written.value,
         entity'.locked => entity.locked
  PROVE  /\ stated' = [on |-> stated'.on, value |-> stated'.value, bounds |-> stated'.bounds]
         /\ written' = [on |-> written'.on, value |-> written'.value, bounds |-> written'.bounds]
         /\ GateInv' /\ Entity!Same(stated, Entity!State)'
<1> DEFINE new == Entity!State'
<1>1. new = [on |-> Entity!Available', value |-> Entity!Value', bounds |-> Entity!Bounds']
  BY DEF Entity!State
<1>2. /\ new.on = Entity!Available' /\ new.value = Entity!Value'
      /\ new = [on |-> new.on, value |-> new.value, bounds |-> new.bounds]
  BY <1>1
<1>3. new.bounds = IF entityKind = "number" THEN entityStore'.limit ELSE Unreported
  BY <1>1 DEF Entity!Bounds
<1>4. /\ stated.on = written.on
      /\ entity.locked => stated.value = written.value
      /\ entityKind # "number" => stated.bounds = Unreported /\ written.bounds = Unreported
      /\ stated = [on |-> stated.on, value |-> stated.value, bounds |-> stated.bounds]
      /\ written = [on |-> written.on, value |-> written.value, bounds |-> written.bounds]
  BY DEF EntityInv, GateInv, EntityRecords
<1>5. \/ ~Entity!BoundsMoved(new) /\ Entity!Unchanged(new) /\ written' = written /\ stated' = stated
      \/ /\ written' = [new EXCEPT !.bounds = IF new.bounds = Unreported THEN written.bounds
                                              ELSE new.bounds]
         /\ stated' = new
  BY <1>2, Zenon DEF Entity!Publish
<1> HIDE DEF new
<1>6. CASE ~Entity!BoundsMoved(new) /\ Entity!Unchanged(new) /\ written' = written /\ stated' = stated
  <2>1. new.value = written.value /\ new.on = written.on
    BY <1>6 DEF Entity!Unchanged
  <2>2. new.bounds = Unreported \/ new.bounds = written.bounds
    BY <1>6 DEF Entity!BoundsMoved
  <2>3. stated.value = written.value
    BY <2>1, <1>2, <1>4
  <2>4. stated.bounds = new.bounds /\ (entityKind = "number" => stated.bounds = written.bounds)
    <3>1. CASE entityKind = "number"
      <4>1. entityStore'.limit # Unreported
        BY <3>1, EntityAssumption
      <4>2. new.bounds = entityStore'.limit /\ new.bounds = written.bounds
        BY <1>3, <2>2, <3>1, <4>1
      <4> QED
        BY <4>2
    <3>2. CASE entityKind # "number"
      BY <1>3, <1>4, <3>2
    <3> QED
      BY <3>1, <3>2
  <2>5. stated.on = new.on
    BY <2>1, <1>4
  <2>6. stated = new
    BY <2>1, <2>3, <2>4, <2>5, <1>2, <1>4
  <2>7. Entity!Same(stated, Entity!State)'
    BY <2>6, <1>6 DEF Entity!Same, new
  <2>8. GateInv'
    <3>1. stated'.on = written'.on
      BY <1>4, <1>6
    <3>2. stated'.value = written'.value
      BY <2>3, <1>6
    <3>3. entityKind' # "number" => stated'.bounds = Unreported /\ written'.bounds = Unreported
      BY <1>4, <1>6
    <3>4. stated'.bounds # written'.bounds => entityStore'.limit # written'.bounds
      BY <1>6
    <3> QED
      BY <3>1, <3>2, <3>3, <3>4 DEF GateInv
  <2> QED
    BY <2>7, <2>8, <1>4, <1>6
<1>7. CASE /\ written' = [new EXCEPT !.bounds = IF new.bounds = Unreported THEN written.bounds
                                                ELSE new.bounds]
           /\ stated' = new
  <2> DEFINE kept == IF new.bounds = Unreported THEN written.bounds ELSE new.bounds
  <2>1. written' = [on |-> new.on, value |-> new.value, bounds |-> kept]
    BY <1>2, <1>7
  <2>2. written'.on = new.on /\ written'.value = new.value /\ written'.bounds = kept
    BY <2>1
  <2>3. GateInv'
    <3>1. stated'.on = written'.on
      BY <1>7, <2>2
    <3>2. stated'.value = written'.value
      BY <1>7, <2>2
    <3>3. entityKind' # "number" => stated'.bounds = Unreported /\ written'.bounds = Unreported
      BY <1>3, <1>4, <1>7, <2>2
    <3>4. entityKind = "number" => new.bounds # Unreported
      BY <1>3, EntityAssumption
    <3>5. stated'.bounds = written'.bounds
      BY <1>7, <2>2, <3>3, <3>4
    <3> QED
      BY <3>1, <3>2, <3>3, <3>5 DEF GateInv
  <2>4. Entity!Same(stated, Entity!State)'
    BY <1>7 DEF Entity!Same, new
  <2> QED
    BY <2>1, <2>3, <2>4, <1>2, <1>7
<1> QED
  BY <1>5, <1>6, <1>7

\* async_setup_entry adds the entity or leaves it pending, and settles nothing.
LEMMA SetUpFacts ==
  ASSUME EntityInv, NEW ready, NEW v, Entity!SetUp(ready, v)
  PROVE  EntityInv'
<1>1. /\ entity.at = "absent"
      /\ UNCHANGED <<entityKind, entityStore, entityOnline, entityLink, entityOwned, settled>>
  BY DEF Entity!SetUp
<1>2. CASE Entity!Added(v)
  BY <1>1, <1>2, AddedFacts DEF EntityInv, EntityRecords
<1>3. CASE entity' = [entity EXCEPT !.at = "pending"] /\ UNCHANGED <<written, stated>>
  <2>1. /\ entity'.at = "pending"
        /\ entity' = [at |-> entity'.at, locked |-> entity'.locked, wanted |-> entity'.wanted,
                      restored |-> entity'.restored]
    BY <1>3 DEF EntityInv, EntityRecords
  <2>2. EntityRecords'
    BY <1>1, <1>3, <2>1 DEF EntityInv, EntityRecords
  <2>3. ~settled'
    BY <1>1 DEF EntityInv
  <2> QED
    BY <1>3, <2>1, <2>2, <2>3 DEF EntityInv, GateInv, PublishedCurrent, Entity!PublishedCurrent
<1> QED
  BY <1>2, <1>3 DEF Entity!SetUp

\* An update adds a pending entity, is ignored by a locked one, or goes through the
\* gate; in the first and the last case what is shown is current.
LEMMA UpdateFacts ==
  ASSUME FirstNew, LimitsStay, EntityInv,
         NEW reading \in Entity!Readings, NEW limit \in Entity!LimitsNext,
         NEW on \in BOOLEAN, NEW rollback \in BOOLEAN, NEW v,
         reading = Unreported => entityStore.reading = Unreported,
         Entity!Update(reading, limit, on, rollback, v)
  PROVE  EntityInv'
<1>1. /\ entity.at # "absent" /\ entityKind' = entityKind
      /\ entityStore' = [reading |-> reading, limit |-> limit]
      /\ stated.bounds # written.bounds => limit # written.bounds
      /\ ~entity.locked /\ stated.value # written.value => Entity!Value' # written.value
  BY DEF Entity!Update
<1>2. limit \in 1..Top \cup {Unreported} /\ (entityKind = "number" => limit \in 1..Top)
  <2>1. entityKind = "number" => entityStore.limit # Unreported
    BY EntityAssumption DEF EntityInv, EntityRecords
  <2> QED
    BY <2>1 DEF Entity!LimitsNext
<1>3. /\ entityStore' \in [reading : Entity!Readings, limit : 1..Top \cup {Unreported}]
      /\ entityStore'.limit = limit /\ entityStore'.reading = reading
  BY <1>1, <1>2
<1>4. CASE entity.at = "pending"
  <2>1. Entity!Watch(v)
    BY <1>4 DEF Entity!Update
  <2>2. CASE Entity!Reported(entityStore.reading)'
    <3>1. Entity!Added(v)
      BY <2>1, <2>2 DEF Entity!Watch
    <3> QED
      BY <1>1, <1>2, <1>3, <3>1, AddedFacts
  <2>3. CASE ~Entity!Reported(entityStore.reading)'
    <3>1. UNCHANGED <<entity, written, stated>>
      BY <2>1, <2>3 DEF Entity!Watch
    <3>2. EntityRecords'
      BY <1>1, <1>2, <1>3, <3>1 DEF EntityInv, EntityRecords
    <3>3. PublishedCurrent'
      BY <1>4, <2>3, <3>1 DEF PublishedCurrent, Entity!PublishedCurrent
    <3> QED
      BY <1>4, <3>1, <3>2, <3>3 DEF EntityInv, GateInv
  <2> QED
    BY <2>2, <2>3
<1>5. CASE entity.at # "pending"
  <2>1. /\ entity.at = "here"
        /\ entity = [at |-> entity.at, locked |-> entity.locked, wanted |-> entity.wanted,
                     restored |-> entity.restored]
    BY <1>1, <1>5 DEF EntityInv, EntityRecords
  <2>2. /\ entity' = [entity EXCEPT !.locked = Entity!StaysLocked(rollback)]
        /\ IF Entity!Ignored(rollback) THEN UNCHANGED <<written, stated>> ELSE Entity!Publish
    BY <1>5 DEF Entity!Update
  <2>3. /\ entity'.at = "here" /\ entity'.locked = Entity!StaysLocked(rollback)
        /\ entity' = [at |-> entity'.at, locked |-> entity'.locked, wanted |-> entity'.wanted,
                      restored |-> entity'.restored]
    BY <2>1, <2>2
  <2>4. entity'.locked => entity.locked
    BY <2>3 DEF Entity!StaysLocked
  <2>5. CASE Entity!Ignored(rollback)
    <3>1. UNCHANGED <<written, stated>>
      BY <2>2, <2>5
    <3>2. entity.locked /\ ~Entity!Switch /\ ~(rollback /\ entityKind = "number")
      BY <2>5 DEF Entity!Ignored, Entity!StaysLocked, Entity!LiftsLock, Entity!Switch
    <3>3. ~settled'
      BY <3>2 DEF Entity!Update
    <3>4. EntityRecords'
      BY <1>1, <1>2, <1>3, <2>3, <3>1 DEF EntityInv, EntityRecords
    <3>5. GateInv'
      BY <1>1, <1>3, <2>1, <2>4, <3>1 DEF EntityInv, GateInv
    <3> QED
      BY <2>3, <3>1, <3>3, <3>4, <3>5 DEF EntityInv, PublishedCurrent, Entity!PublishedCurrent
  <2>6. CASE ~Entity!Ignored(rollback)
    <3>1. Entity!Publish
      BY <2>2, <2>6
    <3>2. /\ stated' = [on |-> stated'.on, value |-> stated'.value, bounds |-> stated'.bounds]
          /\ written' = [on |-> written'.on, value |-> written'.value, bounds |-> written'.bounds]
          /\ GateInv' /\ Entity!Same(stated, Entity!State)'
      BY <1>1, <1>2, <1>3, <2>1, <2>3, <2>4, <3>1, PublishFacts
    <3>3. EntityRecords'
      BY <1>1, <1>2, <1>3, <2>3, <3>2 DEF EntityInv, EntityRecords
    <3> QED
      BY <2>3, <3>2, <3>3 DEF EntityInv, PublishedCurrent, Entity!PublishedCurrent
  <2> QED
    BY <2>5, <2>6
<1> QED
  BY <1>4, <1>5

\* What was asked is written past the gate, and is what the locked entity shows.
LEMMA AppliedFacts ==
  ASSUME EntityInv, NEW v \in Entity!Values, NEW seeds \in BOOLEAN, Entity!Applied(seeds, v),
         entityKind \in {"number", "switch", "ocean2", "select"},
         entityKind = "number" => seeds
  PROVE  EntityInv'
<1>1. /\ entityKind' = entityKind /\ entity.at = "here"
      /\ entityStore' = [entityStore EXCEPT !.reading = IF seeds THEN v ELSE entityStore.reading]
      /\ entity' = [entity EXCEPT !.locked = TRUE, !.wanted = v]
      /\ stated' = Entity!State'
      /\ written' = [written EXCEPT !.value = v, !.on = Entity!Available]
      /\ ~settled'
  BY DEF Entity!Applied
<1>2. Entity!Available' = Entity!Available
  BY DEF Entity!Applied, Entity!Available, Entity!NumberLink, Entity!SwitchLink, Entity!ButtonLink
<1>3. /\ entityStore \in [reading : Entity!Readings, limit : 1..Top \cup {Unreported}]
      /\ entityKind = "number" => entityStore.limit \in 1..Top
      /\ entity = [at |-> entity.at, locked |-> entity.locked, wanted |-> entity.wanted,
                   restored |-> entity.restored]
      /\ written = [on |-> written.on, value |-> written.value, bounds |-> written.bounds]
      /\ entityKind # "number" => stated.bounds = Unreported /\ written.bounds = Unreported
      /\ stated.bounds # written.bounds => entityStore.limit # written.bounds
      /\ stated.on = written.on
  BY <1>1 DEF EntityInv, EntityRecords, GateInv
<1>4. /\ entityStore' \in [reading : Entity!Readings, limit : 1..Top \cup {Unreported}]
      /\ entityStore'.limit = entityStore.limit
      /\ seeds => entityStore'.reading = v
  BY <1>1, <1>3 DEF Entity!Readings
<1>5. /\ entity'.locked /\ entity'.wanted = v /\ entity'.at = "here"
      /\ entity' = [at |-> entity'.at, locked |-> entity'.locked, wanted |-> entity'.wanted,
                    restored |-> entity'.restored]
  BY <1>1, <1>3
<1>6. /\ written'.value = v /\ written'.on = Entity!Available /\ written'.bounds = written.bounds
      /\ written' = [on |-> written'.on, value |-> written'.value, bounds |-> written'.bounds]
  BY <1>1, <1>3
<1>7. Entity!Value' = v
  <2>1. CASE entityKind = "number"
    <3>1. v # Unreported
      BY EntityAssumption DEF Entity!Values
    <3>2. Entity!NumberValue' = v
      BY <1>4, <2>1, <3>1 DEF Entity!NumberValue, Entity!Live
    <3>3. Entity!Number'
      BY <1>1, <2>1 DEF Entity!Number
    <3>4. ~Entity!Switch' /\ ~Entity!Sensor' /\ entityKind' # "select" /\ entityKind' # "binary"
      BY <1>1, <2>1 DEF Entity!Switch, Entity!Sensor
    <3> QED
      BY <3>2, <3>3, <3>4 DEF Entity!Value
  <2>2. CASE entityKind \in {"switch", "ocean2"}
    <3>1. Entity!SwitchValue' = v
      BY <1>5 DEF Entity!SwitchValue
    <3>2. Entity!Switch' /\ ~Entity!Number' /\ ~Entity!Sensor' /\ entityKind' # "select"
          /\ entityKind' # "binary"
      BY <1>1, <2>2 DEF Entity!Switch, Entity!Number, Entity!Sensor
    <3> QED
      BY <3>1, <3>2 DEF Entity!Value
  <2>3. CASE entityKind = "select"
    <3>1. Entity!SelectValue' = v
      BY <1>5 DEF Entity!SelectValue
    <3>2. entityKind' = "select" /\ ~Entity!Number' /\ ~Entity!Switch' /\ ~Entity!Sensor'
      BY <1>1, <2>3 DEF Entity!Switch, Entity!Number, Entity!Sensor
    <3> QED
      BY <3>1, <3>2 DEF Entity!Value
  <2> QED
    BY <2>1, <2>2, <2>3
<1>8. /\ stated'.on = Entity!Available' /\ stated'.value = v /\ stated'.bounds = Entity!Bounds'
      /\ stated' = [on |-> stated'.on, value |-> stated'.value, bounds |-> stated'.bounds]
  BY <1>1, <1>7 DEF Entity!State
<1>9. stated'.bounds = IF entityKind = "number" THEN entityStore.limit ELSE Unreported
  BY <1>1, <1>4, <1>8 DEF Entity!Bounds
<1>10. GateInv'
  <2>1. stated'.on = written'.on
    BY <1>2, <1>6, <1>8
  <2>2. stated'.bounds # written'.bounds => entityStore'.limit # written'.bounds
    BY <1>3, <1>4, <1>6, <1>9
  <2>3. entityKind' # "number" => stated'.bounds = Unreported /\ written'.bounds = Unreported
    BY <1>1, <1>3, <1>6, <1>9
  <2> QED
    BY <1>6, <1>8, <2>1, <2>2, <2>3 DEF GateInv
<1>11. EntityRecords'
  BY <1>1, <1>3, <1>4, <1>5, <1>6 DEF EntityRecords
<1> QED
  BY <1>1, <1>5, <1>8, <1>10, <1>11 DEF EntityInv, PublishedCurrent, Entity!PublishedCurrent

\* Every step of an entity keeps the invariant.
LEMMA EntityStepHolds ==
  ASSUME FirstNew, LimitsStay, EntityInv, [Entity!ControlsNext]_entityVars
  PROVE  EntityInv'
<1>1. CASE UNCHANGED entityVars
  BY <1>1 DEF EntityInv, EntityRecords, GateInv, PublishedCurrent, Entity!PublishedCurrent, entityVars,
     Entity!Same, Entity!State, Entity!Available, Entity!Value, Entity!Bounds, Entity!Number,
     Entity!Switch, Entity!Sensor, Entity!NumberValue, Entity!SwitchValue, Entity!SelectValue,
     Entity!SensorValue, Entity!Live, Entity!NumberLink, Entity!SwitchLink, Entity!ButtonLink,
     Entity!Reported
<1>2. ASSUME NEW accessory \in BOOLEAN, NEW v \in Entity!Values \cup {Unknown},
             \/ Entity!SetUpNumber(accessory, v) \/ Entity!SetUpSwitch(accessory, v)
             \/ Entity!SetUpSelect(accessory, v) \/ Entity!SetUpSensor(accessory, v)
             \/ Entity!SetUpBinary(accessory, v) \/ Entity!SetUpButton(accessory, v)
      PROVE  EntityInv'
  <2>1. PICK ready : Entity!SetUp(ready, v)
    BY <1>2 DEF Entity!SetUpNumber, Entity!SetUpSwitch, Entity!SetUpSelect, Entity!SetUpSensor,
       Entity!SetUpBinary, Entity!SetUpButton
  <2> QED
    BY <2>1, SetUpFacts
<1>3. ASSUME NEW reading \in Entity!Readings, NEW limit \in Entity!LimitsNext, NEW on \in BOOLEAN,
             NEW rollback \in BOOLEAN, NEW v \in Entity!Values \cup {Unknown},
             reading = Unreported => entityStore.reading = Unreported,
             Entity!Update(reading, limit, on, rollback, v)
      PROVE  EntityInv'
  BY <1>3, UpdateFacts
<1>4. ASSUME NEW v \in Entity!Values, Entity!SetNumber(v)
      PROVE  EntityInv'
  <2>1. Entity!Applied(TRUE, v) /\ entityKind = "number"
    BY <1>4 DEF Entity!SetNumber
  <2> QED
    BY <2>1, AppliedFacts
<1>5. ASSUME NEW v \in Entity!Values, Entity!TurnSwitch(v)
      PROVE  EntityInv'
  <2>1. PICK seeds \in BOOLEAN : Entity!Applied(seeds, v)
    BY <1>5 DEF Entity!TurnSwitch
  <2>2. entityKind \in {"switch", "ocean2"}
    BY <1>5 DEF Entity!TurnSwitch
  <2> QED
    BY <2>1, <2>2, AppliedFacts
<1>6. ASSUME NEW v \in Entity!Values, Entity!SelectOption(v)
      PROVE  EntityInv'
  <2>1. Entity!Applied(TRUE, v) /\ entityKind = "select"
    BY <1>6 DEF Entity!SelectOption
  <2> QED
    BY <2>1, AppliedFacts
<1>7. CASE Entity!LockLapses
  <2>1. /\ ~settled' /\ entity' = [entity EXCEPT !.locked = FALSE]
        /\ UNCHANGED <<entityKind, entityStore, written, stated>>
    BY <1>7 DEF Entity!LockLapses
  <2>2. /\ entity'.at = entity.at /\ ~entity'.locked
        /\ entity' = [at |-> entity'.at, locked |-> entity'.locked, wanted |-> entity'.wanted,
                      restored |-> entity'.restored]
    BY <2>1 DEF EntityInv, EntityRecords
  <2> QED
    BY <2>1, <2>2 DEF EntityInv, EntityRecords, GateInv, PublishedCurrent, Entity!PublishedCurrent
<1>8. CASE Entity!LinkChanges
  BY <1>8 DEF Entity!LinkChanges, EntityInv, EntityRecords, GateInv, PublishedCurrent,
     Entity!PublishedCurrent
<1>9. ASSUME NEW limit \in 1..Top, Entity!LimitSet(limit)
      PROVE  EntityInv'
  <2>1. /\ ~settled' /\ entityStore' = [entityStore EXCEPT !.limit = limit]
        /\ UNCHANGED <<entityKind, entity, written, stated>>
        /\ stated.bounds # written.bounds => limit # written.bounds
    BY <1>9 DEF Entity!LimitSet
  <2>2. /\ entityStore' \in [reading : Entity!Readings, limit : 1..Top \cup {Unreported}]
        /\ entityStore'.limit = limit
    BY <2>1 DEF EntityInv, EntityRecords
  <2> QED
    BY <2>1, <2>2 DEF EntityInv, EntityRecords, GateInv, PublishedCurrent, Entity!PublishedCurrent
<1> QED
  BY <1>1, <1>2, <1>3, <1>4, <1>5, <1>6, <1>7, <1>8, <1>9 DEF Entity!ControlsNext

\* After an update that reached it past the optimistic lock, Home Assistant shows the
\* entity as it is: the write gate, the lock after a rollback and the comparison of the
\* bounds swallow no change, for every range of readings.  The premises are about the
\* one value and the one limit that are shown and not recorded.
THEOREM HomeAssistantIsCurrent ==
  ASSUME FirstNew, LimitsStay
  PROVE  ReadsSpec => []PublishedCurrent
<1>1. ReadsInit => EntityInv
  BY EntityInitHolds DEF ReadsInit
<1>2. EntityInv /\ [ReadsNext]_readsVars => EntityInv'
  <2> SUFFICES ASSUME EntityInv, [ReadsNext]_readsVars PROVE EntityInv'
    OBVIOUS
  <2>1. [Entity!ControlsNext]_entityVars
    BY DEF ReadsNext, SurplusStep, AvailabilityStep, FramesStep, ControlStep, ReadingsStep, EntityStep,
       readsVars
  <2> QED
    BY <2>1, EntityStepHolds
<1>3. EntityInv => PublishedCurrent
  BY DEF EntityInv
<1> QED
  BY <1>1, <1>2, <1>3, PTL DEF ReadsSpec

-----------------------------------------------------------------------------
(* The recording.  A history that keeps a frame of every slot (History)         *)
(* History) keeps one when the slots double, since frames that shared a slot   *)
(* share the one twice as wide, and when it is thinned, which takes one frame  *)
(* of each run.  A slot grows by at least one each turn, so the loop ends with *)
(* its budget held at the latest when a slot is wider than any span, and never *)
(* by the branch that throws the oldest frame away.  The counts add up because *)
(* an evicted type takes its count with it.                                    *)

\* A non-empty set of numbers has a least one.
LEMMA NatHasMin ==
  ASSUME NEW T \in SUBSET Nat, T # {}
  PROVE  \E x \in T : \A y \in T : x <= y
<1>1. PICK x \in T : \A y \in T : ~(<<y, x>> \in OpToRel(<, Nat))
  BY NatLessThanWellFounded, WFMin
<1>2. \A y \in T : ~(y < x)
  BY <1>1 DEF OpToRel
<1> QED
  BY <1>2

\* The states g a loop of N turns goes through.
Turning(X, N) == [X \X (1..N) -> X]
Loops(g, X, N, base, step) ==
    /\ g \in [0..N -> X] /\ g[0] = base
    /\ \A n \in 1..N : g[n] = step[<<g[n - 1], n>>]

\* What a loop computes exists.
LEMMA LoopExists ==
  ASSUME NEW N \in Nat, NEW X, NEW base \in X, NEW step \in Turning(X, N)
  PROVE  \E g : Loops(g, X, N, base, step)
<1>0. step \in [X \X (1..N) -> X]
  BY DEF Turning
<1> DEFINE Reaches(g, k) == g[0] = base /\ \A n \in 1..k : g[n] = step[<<g[n - 1], n>>]
           Failed == {k \in 0..N : \A g \in [0..N -> X] : ~Reaches(g, k)}
<1>1. Failed = {}
  <2> SUFFICES ASSUME Failed # {} PROVE FALSE
    OBVIOUS
  <2>0. Failed \in SUBSET Nat
    OBVIOUS
  <2>1. PICK k \in Failed : \A y \in Failed : k <= y
    BY <2>0, NatHasMin
  <2>2. k \in 0..N /\ \A g \in [0..N -> X] : ~Reaches(g, k)
    BY <2>1
  <2>3. k # 0
    <3>1. PICK g : g = [n \in 0..N |-> base]
      OBVIOUS
    <3>2. g \in [0..N -> X] /\ Reaches(g, 0)
      BY <3>1
    <3> QED
      BY <2>2, <3>2
  <2>4. k - 1 \in 0..N /\ ~(k <= k - 1) /\ k \in 1..N
    BY <2>2, <2>3
  <2>5. k - 1 \notin Failed
    BY <2>1, <2>4
  <2>6. PICK g \in [0..N -> X] : Reaches(g, k - 1)
    BY <2>4, <2>5
  <2>7. PICK r : r = step[<<g[k - 1], k>>]
    OBVIOUS
  <2>8. r \in X
    <3>1. <<g[k - 1], k>> \in X \X (1..N)
      BY <2>4
    <3> QED
      BY <1>0, <2>7, <3>1
  <2>9. PICK h : h = [g EXCEPT ![k] = r]
    OBVIOUS
  <2>10. /\ h \in [0..N -> X] /\ h[k] = r
         /\ \A n \in 0..N : n # k => h[n] = g[n]
    BY <2>2, <2>8, <2>9
  <2>11. h[0] = base
    BY <2>3, <2>6, <2>10
  <2>12. ASSUME NEW n \in 1..k PROVE h[n] = step[<<h[n - 1], n>>]
    <3>1. n \in 0..N /\ n - 1 \in 0..N /\ n - 1 # k
      BY <2>2
    <3>2. h[n - 1] = g[n - 1]
      BY <2>10, <3>1
    <3>3. CASE n = k
      BY <2>7, <2>10, <3>2, <3>3
    <3>4. CASE n # k
      <4>1. n \in 1..(k - 1)
        BY <2>2, <3>4
      <4>2. h[n] = g[n]
        BY <2>10, <3>1, <3>4
      <4>3. g[n] = step[<<g[n - 1], n>>]
        BY <2>6, <4>1
      <4> QED
        BY <3>2, <4>2, <4>3
    <3> QED
      BY <3>3, <3>4
  <2>13. Reaches(h, k)
    BY <2>11, <2>12
  <2> HIDE DEF Reaches
  <2> QED
    BY <2>2, <2>10, <2>13
<1>2. N \notin Failed
  BY <1>1
<1>3. PICK g \in [0..N -> X] : Reaches(g, N)
  BY <1>2
<1> QED
  BY <1>3 DEF Loops

\* The frames a type can have, and what is kept of it.
Stamped == [ts : 0..MaxClock, n : Nat]
Buckets == [start : 0..MaxClock, width : Nat, samples : Seq(Stamped), latest : Stamped, seen : Nat]

BufferConstants ==
    /\ SamplesMax \in Nat /\ SamplesMax >= 1 /\ MaxClock \in Nat /\ IsFiniteSet(Types)

LEMMA BufferFacts == BufferConstants
<1>1. SamplesMax \in Nat \ {0} /\ MaxClock \in Nat
  BY BufferAssumption
<1>2. IsFiniteSet(Telemetry \cup Writes)
  BY BufferAssumption, FS_Union
<1> QED
  BY <1>1, <1>2 DEF BufferConstants, Types

\* Whole quotients, as slots are.
LEMMA Quotient ==
  ASSUME NEW x \in Nat, NEW d \in Nat, d > 0
  PROVE  x \div d \in Nat /\ (x \div d) * d <= x /\ x < (x \div d) * d + d
  OBVIOUS

LEMMA QuotientIs ==
  ASSUME NEW x \in Nat, NEW d \in Nat, d > 0, NEW q \in Int, q * d <= x, x < q * d + d
  PROVE  x \div d = q
<1>1. PICK p \in Nat : p = x \div d /\ p * d <= x /\ x < p * d + d
  BY Quotient
<1>2. ~(p < q)
  <2> SUFFICES ASSUME p < q PROVE FALSE
    OBVIOUS
  <2>1. q - p - 1 \in Nat
    OBVIOUS
  <2>2. (q - p - 1) * d >= 0
    BY <2>1
  <2>3. q * d - p * d - d >= 0
    BY <2>2
  <2> QED
    BY <1>1, <2>3
<1>3. ~(q < p)
  <2> SUFFICES ASSUME q < p PROVE FALSE
    OBVIOUS
  <2>1. p - q - 1 \in Nat
    OBVIOUS
  <2>2. (p - q - 1) * d >= 0
    BY <2>1
  <2>3. p * d - q * d - d >= 0
    BY <2>2
  <2> QED
    BY <1>1, <2>3
<1> QED
  BY <1>1, <1>2, <1>3

\* Frames that share a slot share the one twice as wide.
LEMMA SlotsDouble ==
  ASSUME NEW x \in Nat, NEW y \in Nat, NEW d \in Nat, d > 0, x \div d = y \div d
  PROVE  x \div (2 * d) = y \div (2 * d)
<1>1. PICK q \in Nat : q = x \div d /\ q * d <= x /\ x < q * d + d /\ q * d <= y /\ y < q * d + d
  BY Quotient
<1>2. PICK p \in Nat, e \in Nat : q = 2 * p + e /\ e <= 1
  <2>1. PICK p \in Nat : p = q \div 2 /\ p * 2 <= q /\ q < p * 2 + 2
    BY Quotient
  <2>2. q - 2 * p \in Nat /\ q - 2 * p <= 1 /\ q = 2 * p + (q - 2 * p)
    BY <2>1
  <2> QED
    BY <2>2
<1>3. q * d = p * (2 * d) + e * d
  BY <1>2
<1>4. 0 <= e * d /\ e * d <= d
  <2>1. e = 0 \/ e = 1
    BY <1>2
  <2> QED
    BY <2>1
<1>5. p * (2 * d) \in Int /\ e * d \in Int /\ q * d \in Int
  BY <1>2
<1>6. /\ p * (2 * d) <= x /\ x < p * (2 * d) + 2 * d
      /\ p * (2 * d) <= y /\ y < p * (2 * d) + 2 * d
  BY <1>1, <1>3, <1>4, <1>5
<1>7. 2 * d \in Nat /\ 2 * d > 0
  OBVIOUS
<1>8. x \div (2 * d) = p /\ y \div (2 * d) = p
  BY <1>6, <1>7, QuotientIs
<1> QED
  BY <1>8

\* A slot is a number, and 0 once it is wider than any span.
LEMMA SlotFacts ==
  ASSUME NEW b \in Buckets, NEW f \in Stamped
  PROVE  /\ Slot(f, b) \in Nat
         /\ b.width > MaxClock * SamplesMax => Slot(f, b) = 0
<1>1. b.width \in Nat /\ b.start \in 0..MaxClock /\ f.ts \in 0..MaxClock /\ f.n \in Nat /\ MaxClock \in Nat
  BY BufferFacts DEF Buckets, Stamped, BufferConstants
<1>2. PICK c \in Nat : c = Clamped(f.ts - b.start) /\ c <= MaxClock
  BY <1>1 DEF Clamped
<1>3. SamplesMax \in Nat
  BY BufferFacts DEF BufferConstants
<1>4. c * SamplesMax \in Nat /\ c * SamplesMax <= MaxClock * SamplesMax
  <2>1. (MaxClock - c) * SamplesMax >= 0
    <3>1. MaxClock - c \in Nat
      BY <1>1, <1>2
    <3> QED
      BY <1>3, <3>1
  <2>2. (MaxClock - c) * SamplesMax = MaxClock * SamplesMax - c * SamplesMax
    BY <1>1, <1>2, <1>3
  <2> QED
    BY <1>1, <1>2, <1>3, <2>1, <2>2
<1>5. CASE b.width = 0
  <2>1. ~(b.width > MaxClock * SamplesMax)
    BY <1>1, <1>3, <1>5
  <2> QED
    BY <1>1, <1>5, <2>1 DEF Slot
<1>6. CASE b.width # 0
  <2>1. Slot(f, b) = (c * SamplesMax) \div b.width
    BY <1>2, <1>6 DEF Slot
  <2>2. (c * SamplesMax) \div b.width \in Nat
    BY <1>1, <1>4, <1>6, Quotient
  <2>3. ASSUME b.width > MaxClock * SamplesMax PROVE (c * SamplesMax) \div b.width = 0
    <3>1. 0 * b.width <= c * SamplesMax /\ c * SamplesMax < 0 * b.width + b.width
      BY <1>1, <1>3, <1>4, <2>3
    <3> QED
      BY <1>1, <1>4, <1>6, <3>1, QuotientIs
  <2> QED
    BY <2>1, <2>2, <2>3
<1> QED
  BY <1>5, <1>6

\* What the first n frames of a history leave of it.
ThinnedTo(t, b, n) ==
    /\ t \in Seq(Stamped) /\ Len(t) <= n
    /\ n > 0 => Len(t) >= 1 /\ t[1] = b.samples[1]
    /\ \A i \in DOMAIN t : \E j \in 1..n : t[i] = b.samples[j]
    /\ \A j \in 1..n : \E i \in DOMAIN t : Slot(t[i], b) = Slot(b.samples[j], b)
    /\ (\A j \in 1..n : Slot(b.samples[j], b) = 0) => Len(t) <= 1

LEMMA JoinedFacts ==
  ASSUME NEW b \in Buckets, NEW n \in 0..Len(b.samples), n + 1 <= Len(b.samples),
         NEW t, ThinnedTo(t, b, n)
  PROVE  ThinnedTo(Joined(t, b.samples[n + 1], b), b, n + 1)
<1>0. b.samples \in Seq(Stamped) /\ n \in Nat /\ n + 1 \in DOMAIN b.samples
  BY DEF Buckets
<1>1. PICK f \in Stamped : f = b.samples[n + 1]
  BY <1>0, ElementOfSeq
<1>2. t \in Seq(Stamped)
  BY DEF ThinnedTo
<1>3. PICK r : r = Joined(t, f, b)
  OBVIOUS
<1>4. CASE t # <<>> /\ Slot(f, b) = Slot(Last(t), b)
  <2>1. r = t
    BY <1>3, <1>4 DEF Joined
  <2>2. Len(t) \in DOMAIN t /\ Last(t) = t[Len(t)] /\ Len(t) >= 1
    BY <1>2, <1>4 DEF Last
  <2>3. n > 0
    BY <1>0, <2>2 DEF ThinnedTo
  <2>4. ASSUME NEW j \in 1..(n + 1) PROVE \E i \in DOMAIN t : Slot(t[i], b) = Slot(b.samples[j], b)
    <3>1. CASE j = n + 1
      BY <1>1, <1>4, <2>2, <3>1
    <3>2. CASE j # n + 1
      <4>1. j \in 1..n
        BY <1>0, <3>2
      <4> QED
        BY <4>1 DEF ThinnedTo
    <3> QED
      BY <3>1, <3>2
  <2>5. Len(t) <= n + 1
    BY <1>0, <1>2 DEF ThinnedTo
  <2>7. \A j \in 1..n : j \in 1..(n + 1)
    BY <1>0
  <2>8. \A i \in DOMAIN t : \E j \in 1..(n + 1) : t[i] = b.samples[j]
    BY <2>7 DEF ThinnedTo
  <2>9. (\A j \in 1..(n + 1) : Slot(b.samples[j], b) = 0) => Len(t) <= 1
    BY <2>7 DEF ThinnedTo
  <2>10. t[1] = b.samples[1]
    BY <2>3 DEF ThinnedTo
  <2>6. ThinnedTo(t, b, n + 1)
    BY <1>2, <2>2, <2>4, <2>5, <2>8, <2>9, <2>10 DEF ThinnedTo
  <2> QED
    BY <1>1, <1>3, <2>1, <2>6
<1>5. CASE ~(t # <<>> /\ Slot(f, b) = Slot(Last(t), b))
  <2>1. r = Append(t, f)
    BY <1>3, <1>5 DEF Joined
  <2>2. /\ r \in Seq(Stamped) /\ Len(r) = Len(t) + 1 /\ r[Len(t) + 1] = f
        /\ \A i \in 1..Len(t) : r[i] = t[i]
    BY <1>2, <2>1, AppendProperties
  <2>3. Len(t) \in Nat /\ Len(t) <= n /\ DOMAIN t = 1..Len(t) /\ DOMAIN r = 1..(Len(t) + 1)
    BY <1>2, <2>2 DEF ThinnedTo
  <2>4. r[1] = b.samples[1]
    <3>1. CASE n > 0
      <4>1. Len(t) >= 1 /\ t[1] = b.samples[1]
        BY <3>1 DEF ThinnedTo
      <4>2. 1 \in 1..Len(t)
        BY <2>3, <4>1
      <4> QED
        BY <2>2, <4>1, <4>2
    <3>2. CASE ~(n > 0)
      <4>1. n = 0 /\ Len(t) = 0
        BY <1>0, <2>3, <3>2
      <4> QED
        BY <1>1, <2>2, <4>1
    <3> QED
      BY <3>1, <3>2
  <2>5. ASSUME NEW i \in DOMAIN r PROVE \E j \in 1..(n + 1) : r[i] = b.samples[j]
    <3>1. CASE i = Len(t) + 1
      BY <1>0, <1>1, <2>2, <3>1
    <3>2. CASE i # Len(t) + 1
      <4>1. i \in DOMAIN t /\ r[i] = t[i]
        BY <2>2, <2>3, <3>2
      <4>2. PICK j \in 1..n : t[i] = b.samples[j]
        BY <4>1 DEF ThinnedTo
      <4>3. j \in 1..(n + 1)
        BY <1>0
      <4> QED
        BY <4>1, <4>2, <4>3
    <3> QED
      BY <3>1, <3>2
  <2>6. ASSUME NEW j \in 1..(n + 1) PROVE \E i \in DOMAIN r : Slot(r[i], b) = Slot(b.samples[j], b)
    <3>1. CASE j = n + 1
      <4>1. Len(t) + 1 \in DOMAIN r
        BY <2>3
      <4> QED
        BY <1>1, <2>2, <3>1, <4>1
    <3>2. CASE j # n + 1
      <4>1. j \in 1..n
        BY <1>0, <3>2
      <4>2. PICK i \in DOMAIN t : Slot(t[i], b) = Slot(b.samples[j], b)
        BY <4>1 DEF ThinnedTo
      <4>3. i \in DOMAIN r /\ r[i] = t[i]
        BY <2>2, <2>3
      <4> QED
        BY <4>2, <4>3
    <3> QED
      BY <3>1, <3>2
  <2>7. ASSUME \A j \in 1..(n + 1) : Slot(b.samples[j], b) = 0 PROVE Len(r) <= 1
    <3>1. CASE t = <<>>
      BY <2>2, <3>1
    <3>2. CASE t # <<>>
      <4>1. Len(t) \in DOMAIN t /\ Last(t) = t[Len(t)]
        BY <1>2, <3>2 DEF Last
      <4>2. PICK j \in 1..n : t[Len(t)] = b.samples[j]
        BY <4>1 DEF ThinnedTo
      <4>3. j \in 1..(n + 1) /\ n + 1 \in 1..(n + 1)
        BY <1>0
      <4>4. Slot(f, b) = 0 /\ Slot(Last(t), b) = 0
        BY <1>1, <2>7, <4>1, <4>2, <4>3
      <4> QED
        BY <1>5, <3>2, <4>4
    <3> QED
      BY <3>1, <3>2
  <2>8. Len(r) <= n + 1 /\ Len(r) >= 1
    BY <1>0, <2>2, <2>3
  <2>9. ThinnedTo(r, b, n + 1)
    BY <2>2, <2>4, <2>5, <2>6, <2>7, <2>8 DEF ThinnedTo
  <2> QED
    BY <1>1, <1>3, <2>9
<1> QED
  BY <1>4, <1>5

\* Thinning keeps the first frame and a frame of every slot, and one frame of one slot.
LEMMA ThinnedFacts ==
  ASSUME NEW b \in Buckets
  PROVE  ThinnedTo(Thinned(b), b, Len(b.samples))
<1>0. PICK N \in Nat : N = Len(b.samples)
  BY DEF Buckets
<1>a. b.samples \in Seq(Stamped) /\ DOMAIN b.samples = 1..N
  BY <1>0 DEF Buckets
<1> DEFINE Solves(g) == g = [i \in 0..Len(b.samples) |->
                                IF i = 0 THEN <<>> ELSE Joined(g[i - 1], b.samples[i], b)]
           u == CHOOSE g : Solves(g)
           step == [p \in Seq(Stamped) \X (1..N) |-> Joined(p[1], b.samples[p[2]], b)]
<1>1. Thinned(b) = u[N]
  BY <1>0 DEF Thinned
<1>2. step \in [Seq(Stamped) \X (1..N) -> Seq(Stamped)]
  <2>1. ASSUME NEW p \in Seq(Stamped) \X (1..N) PROVE Joined(p[1], b.samples[p[2]], b) \in Seq(Stamped)
    <3>1. p[1] \in Seq(Stamped) /\ b.samples[p[2]] \in Stamped
      BY <1>a, ElementOfSeq
    <3>2. Append(p[1], b.samples[p[2]]) \in Seq(Stamped)
      BY <3>1, AppendProperties
    <3> QED
      BY <3>1, <3>2 DEF Joined
  <2> QED
    BY <2>1
<1>3. <<>> \in Seq(Stamped)
  OBVIOUS
<1> HIDE DEF step
<1>4. PICK g \in [0..N -> Seq(Stamped)] : g[0] = <<>> /\ \A n \in 1..N : g[n] = step[<<g[n - 1], n>>]
  <2>1. PICK X, e, s : X = Seq(Stamped) /\ e = <<>> /\ s = step
    OBVIOUS
  <2>2. e \in X /\ s \in Turning(X, N)
    BY <1>2, <1>3, <2>1 DEF Turning
  <2>3. \E h : Loops(h, X, N, e, s)
    BY <1>0, <2>2, LoopExists, Zenon
  <2> QED
    BY <2>1, <2>3 DEF Loops
<1>5. \A n \in 1..N : g[n] = Joined(g[n - 1], b.samples[n], b)
  <2> SUFFICES ASSUME NEW n \in 1..N PROVE g[n] = Joined(g[n - 1], b.samples[n], b)
    OBVIOUS
  <2>1. n - 1 \in 0..N
    BY <1>0
  <2>2. <<g[n - 1], n>> \in Seq(Stamped) \X (1..N)
    BY <1>4, <2>1
  <2>3. step[<<g[n - 1], n>>] = Joined(g[n - 1], b.samples[n], b)
    BY <2>2 DEF step
  <2> QED
    BY <1>4, <2>3
<1>6. Solves(g)
  <2>1. ASSUME NEW i \in 0..N PROVE g[i] = IF i = 0 THEN <<>> ELSE Joined(g[i - 1], b.samples[i], b)
    <3>1. i # 0 => i \in 1..N
      OBVIOUS
    <3> QED
      BY <1>4, <1>5, <3>1, Zenon
  <2>2. g = [i \in 0..N |-> g[i]]
    BY <1>4
  <2>3. g = [i \in 0..N |-> IF i = 0 THEN <<>> ELSE Joined(g[i - 1], b.samples[i], b)]
    BY <2>1, <2>2, Zenon
  <2> QED
    BY <1>0, <2>3, Zenon
<1>7. Solves(u)
  BY <1>6, Zenon
<1>8. \A i \in 0..N : u[i] = IF i = 0 THEN <<>> ELSE Joined(u[i - 1], b.samples[i], b)
  <2> HIDE DEF u
  <2> QED
    BY <1>0, <1>7, Zenon
<1> HIDE DEF u, Solves
<1> DEFINE Failed == {k \in 0..N : ~ThinnedTo(u[k], b, k)}
<1>9. Failed = {}
  <2> SUFFICES ASSUME Failed # {} PROVE FALSE
    OBVIOUS
  <2>0. Failed \in SUBSET Nat
    OBVIOUS
  <2>1. PICK k \in Failed : \A y \in Failed : k <= y
    BY <2>0, NatHasMin
  <2>2. k \in 0..N /\ ~ThinnedTo(u[k], b, k)
    BY <2>1
  <2>3. CASE k = 0
    <3>1. u[0] = <<>>
      BY <1>8
    <3>2. ThinnedTo(<<>>, b, 0)
      BY DEF ThinnedTo
    <3> QED
      BY <2>2, <2>3, <3>1, <3>2
  <2>4. CASE k # 0
    <3>1. k - 1 \in 0..N /\ ~(k <= k - 1) /\ k - 1 + 1 = k /\ k <= N
      BY <2>2, <2>4
    <3>2. ThinnedTo(u[k - 1], b, k - 1)
      BY <2>1, <3>1
    <3>3. u[k] = Joined(u[k - 1], b.samples[k], b)
      BY <1>8, <2>2, <2>4
    <3>4. ThinnedTo(Joined(u[k - 1], b.samples[k - 1 + 1], b), b, k - 1 + 1)
      BY <1>0, <3>1, <3>2, JoinedFacts
    <3> QED
      BY <2>2, <3>1, <3>3, <3>4
  <2> QED
    BY <2>3, <2>4
<1> QED
  BY <1>0, <1>1, <1>9

\* A history: the first frame, and a frame of every slot of F.
History(b, F) ==
    /\ b \in Buckets /\ F \subseteq Stamped
    /\ \A f, g \in F : f.n = g.n => f = g
    /\ Len(b.samples) >= 1 /\ b.samples[1].n = 1
    /\ \A i \in DOMAIN b.samples : b.samples[i] \in F
    /\ \A f \in F : \E i \in DOMAIN b.samples : Slot(b.samples[i], b) = Slot(f, b)

\* What the thinning leaves alone.
SameBut(r, b) == r.start = b.start /\ r.latest = b.latest /\ r.seen = b.seen

\* Once a slot is wider than any span, one frame is left.
OneWhenWide(b) == b.width > MaxClock * SamplesMax => Len(b.samples) = 1

\* The history b after a turn of the loop.
Wider(r, b, F) == History(r, F) /\ SameBut(r, b) /\ r.width > b.width /\ OneWhenWide(r)

\* A turn of the loop keeps a history, and the branch that drops its oldest frame is not
\* taken: a slot wider than the whole span has merged them all.
LEMMA WidenedFacts ==
  ASSUME NEW b, NEW F, History(b, F), Len(b.samples) > SamplesMax
  PROVE  Wider(Widened(b), b, F)
<1>1. PICK N \in Nat : N = Len(b.samples) /\ N > 1 /\ DOMAIN b.samples = 1..N
  BY BufferFacts DEF History, Buckets, BufferConstants
<1>2. /\ b \in Buckets /\ b.width \in Nat /\ b.start \in 0..MaxClock /\ b.samples \in Seq(Stamped)
      /\ MaxClock \in Nat /\ SamplesMax \in Nat
  BY BufferFacts DEF History, Buckets, BufferConstants
<1>3. PICK span : span = Last(b.samples).ts - b.start
  OBVIOUS
<1>4. span \in Int
  <2>1. Last(b.samples) \in Stamped
    BY <1>1, <1>2 DEF Last
  <2> QED
    BY <1>2, <1>3, <2>1 DEF Stamped
<1>5. PICK w : w = IF b.width > 0 THEN 2 * b.width ELSE IF span > 0 THEN span ELSE 1
  OBVIOUS
<1>6. w \in Nat /\ w > b.width /\ w > 0
  BY <1>2, <1>4, <1>5
<1>7. PICK c : c = [b EXCEPT !.width = w]
  OBVIOUS
<1>8. /\ c \in Buckets /\ c.width = w /\ c.start = b.start /\ c.samples = b.samples
      /\ c.latest = b.latest /\ c.seen = b.seen
  BY <1>2, <1>6, <1>7 DEF Buckets
<1>9. PICK t : t = Thinned(c)
  OBVIOUS
<1>10. ThinnedTo(t, c, N)
  BY <1>1, <1>8, <1>9, ThinnedFacts
<1>11. t \in Seq(Stamped) /\ Len(t) >= 1 /\ t[1] = b.samples[1]
  BY <1>1, <1>8, <1>10 DEF ThinnedTo
<1>12. ASSUME NEW f \in F, NEW g \in F, Slot(f, b) = Slot(g, b)
       PROVE  Slot(f, c) = Slot(g, c)
  <2>1. f \in Stamped /\ g \in Stamped
    BY DEF History
  <2>2. CASE b.width = 0
    <3>1. f.n = g.n
      BY <1>12, <2>2 DEF Slot
    <3> QED
      BY <3>1 DEF History
  <2>3. CASE b.width # 0
    <3>1. PICK x, y : x = Clamped(f.ts - b.start) * SamplesMax /\ y = Clamped(g.ts - b.start) * SamplesMax
      OBVIOUS
    <3>2. Clamped(f.ts - b.start) \in Nat /\ Clamped(g.ts - b.start) \in Nat
      <4>1. f.ts \in Int /\ g.ts \in Int /\ b.start \in Int
        BY <1>2, <2>1 DEF Stamped
      <4> QED
        BY <4>1 DEF Clamped
    <3>3. x \in Nat /\ y \in Nat
      BY <1>2, <3>1, <3>2
    <3>4. x \div b.width = y \div b.width
      BY <1>12, <2>3, <3>1 DEF Slot
    <3>5. x \div (2 * b.width) = y \div (2 * b.width)
      <4>1. b.width > 0
        BY <1>2, <2>3
      <4> QED
        BY <1>2, <3>3, <3>4, <4>1, SlotsDouble, Zenon
    <3>6. c.width = 2 * b.width /\ c.width # 0
      BY <1>2, <1>5, <1>8, <2>3
    <3>7. Slot(f, c) = x \div c.width /\ Slot(g, c) = y \div c.width
      BY <1>8, <3>1, <3>6 DEF Slot
    <3> QED
      BY <3>5, <3>6, <3>7
  <2> QED
    BY <2>2, <2>3
<1>13. ASSUME \A i \in 1..N : w > (b.samples[i].ts - b.start) * SamplesMax
       PROVE  Len(t) <= 1
  <2>1. ASSUME NEW i \in 1..N PROVE Slot(c.samples[i], c) = 0
    <3>1. PICK f \in Stamped : f = b.samples[i]
      BY <1>1, <1>2, ElementOfSeq
    <3>2. f.ts - b.start \in Int /\ w > (f.ts - b.start) * SamplesMax
      <4>1. f.ts \in Int /\ b.start \in Int
        <5>1. f \in Stamped
          OBVIOUS
        <5> QED
          BY <1>2, <5>1 DEF Stamped
      <4>2. f.ts - b.start \in Int
        BY ONLY <4>1
      <4>3. w > (b.samples[i].ts - b.start) * SamplesMax
        BY <1>13, Zenon
      <4>4. w > (f.ts - b.start) * SamplesMax
        BY <3>1, <4>3, Zenon
      <4> QED
        BY <4>2, <4>4
    <3>3. PICK x : x = Clamped(f.ts - b.start) * SamplesMax
      OBVIOUS
    <3>4. x \in Nat /\ x < w
      <4>1. CASE f.ts - b.start > 0
        BY <1>2, <3>2, <3>3, <4>1 DEF Clamped
      <4>2. CASE ~(f.ts - b.start > 0)
        BY <1>2, <1>6, <3>3, <4>2 DEF Clamped
      <4> QED
        BY <4>1, <4>2
    <3>5. x \div w = 0
      <4>1. 0 * w <= x /\ x < 0 * w + w
        BY <1>6, <3>4
      <4> QED
        BY <1>6, <3>4, <4>1, QuotientIs
    <3> QED
      BY <1>6, <1>8, <3>1, <3>3, <3>5 DEF Slot
  <2> QED
    BY <1>10, <2>1 DEF ThinnedTo
<1>14. PICK r : r = [c EXCEPT !.samples = t]
  OBVIOUS
<1>15. Widened(b) = r
  <2> DEFINE stuck == /\ Len(t) >= Len(b.samples)
                      /\ \A i \in DOMAIN b.samples : c.width > (b.samples[i].ts - b.start) * SamplesMax
  <2>2. ~stuck
    <3>1. Len(t) \in Nat
      BY <1>11
    <3>2. (\A i \in 1..N : w > (b.samples[i].ts - b.start) * SamplesMax) => Len(t) <= 1
      BY <1>13
    <3>3. stuck => Len(t) >= N /\ \A i \in 1..N : w > (b.samples[i].ts - b.start) * SamplesMax
      BY <1>1, <1>8
    <3> HIDE DEF stuck
    <3> QED
      BY <1>1, <3>1, <3>2, <3>3
  <2>3. Widened(b) = [c EXCEPT !.samples = IF stuck THEN Tail(t) ELSE t]
    BY <1>3, <1>5, <1>7, <1>9 DEF Widened
  <2> HIDE DEF stuck
  <2> QED
    BY <1>14, <2>2, <2>3
<1>16. /\ r \in Buckets /\ r.width = w /\ r.start = b.start /\ r.samples = t
       /\ r.latest = b.latest /\ r.seen = b.seen
  BY <1>8, <1>11, <1>14 DEF Buckets
<1>17. \A f : Slot(f, r) = Slot(f, c)
  BY <1>8, <1>16 DEF Slot
<1>18. ASSUME NEW i \in DOMAIN t PROVE t[i] \in F
  <2>1. PICK j \in 1..N : t[i] = c.samples[j]
    BY <1>10 DEF ThinnedTo
  <2> QED
    BY <1>1, <1>8, <2>1 DEF History
<1>19. ASSUME NEW f \in F PROVE \E i \in DOMAIN t : Slot(t[i], r) = Slot(f, r)
  <2>1. PICK j \in 1..N : Slot(b.samples[j], b) = Slot(f, b)
    BY <1>1 DEF History
  <2>2. b.samples[j] \in F
    BY <1>1 DEF History
  <2>3. Slot(c.samples[j], c) = Slot(f, c)
    BY <1>8, <1>12, <2>1, <2>2
  <2>4. PICK i \in DOMAIN t : Slot(t[i], c) = Slot(c.samples[j], c)
    BY <1>10 DEF ThinnedTo
  <2> QED
    BY <1>17, <2>3, <2>4
<1>20. History(r, F)
  BY <1>11, <1>16, <1>18, <1>19 DEF History
<1>21. OneWhenWide(r)
  <2> SUFFICES ASSUME w > MaxClock * SamplesMax PROVE Len(t) = 1
    BY <1>16 DEF OneWhenWide
  <2>1. ASSUME NEW j \in 1..N PROVE Slot(c.samples[j], c) = 0
    <3>1. c.samples[j] \in Stamped
      BY <1>1, <1>2, <1>8, ElementOfSeq
    <3> QED
      BY <1>8, <3>1, SlotFacts
  <2>2. Len(t) <= 1
    BY <1>10, <2>1 DEF ThinnedTo
  <2>3. Len(t) \in Nat /\ Len(t) >= 1
    BY <1>11
  <2>4. \A n \in Nat : n <= 1 /\ n >= 1 => n = 1
    OBVIOUS
  <2> QED
    BY <2>2, <2>3, <2>4
<1> QED
  BY <1>6, <1>15, <1>16, <1>20, <1>21 DEF Wider, SameBut

\* After n turns either the budget holds or the slots are at least n wide.
Progress(b, n) ==
    \/ Len(b.samples) <= SamplesMax
    \/ n = 0
    \/ b.width >= n /\ OneWhenWide(b)

Turned(r, b, F, n) == History(r, F) /\ SameBut(r, b) /\ Progress(r, n)

OneTurn(sofar) == IF Len(sofar.samples) <= SamplesMax THEN sofar ELSE Widened(sofar)

LEMMA OneTurnHolds ==
  ASSUME NEW b, NEW F, NEW n \in Nat, NEW r, Turned(r, b, F, n)
  PROVE  Turned(OneTurn(r), b, F, n + 1)
<1>1. CASE Len(r.samples) <= SamplesMax
  BY <1>1 DEF OneTurn, Turned, Progress
<1>2. CASE ~(Len(r.samples) <= SamplesMax)
  <2>1. Len(r.samples) \in Nat /\ r.width \in Nat /\ History(r, F)
    BY DEF Turned, History, Buckets
  <2>2. Len(r.samples) > SamplesMax
    BY <1>2, <2>1, BufferFacts DEF BufferConstants
  <2>3. PICK v : v = Widened(r)
    OBVIOUS
  <2>4. Wider(v, r, F)
    BY <2>1, <2>2, <2>3, WidenedFacts, Zenon
  <2>5. v.width \in Nat /\ v.width > r.width /\ OneWhenWide(v)
    BY <2>4 DEF Wider, History, Buckets
  <2>6. r.width >= n
    BY <1>2, <2>1 DEF Turned, Progress
  <2>7. v.width >= n + 1
    BY <2>1, <2>5, <2>6
  <2>8. Progress(v, n + 1)
    BY <2>5, <2>7 DEF Progress
  <2>9. SameBut(v, b)
    BY <2>4 DEF Wider, SameBut, Turned
  <2>10. Turned(v, b, F, n + 1)
    BY <2>4, <2>8, <2>9 DEF Turned, Wider
  <2> QED
    BY <1>2, <2>3, <2>10 DEF OneTurn
<1> QED
  BY <1>1, <1>2

\* The loop ends with the budget held, within Turns turns.
LEMMA FittedFacts ==
  ASSUME NEW b, NEW F, History(b, F)
  PROVE  Turned(Fitted(b), b, F, 1) /\ Len(Fitted(b).samples) <= SamplesMax
<1>0. PICK N \in Nat : N = Turns /\ N = MaxClock * SamplesMax + 1 /\ N >= 1
  BY BufferFacts DEF BufferConstants, Turns
<1> DEFINE Solves(g) == g = [turn \in 0..Turns |->
                                IF turn = 0 THEN b
                                ELSE LET sofar == g[turn - 1]
                                     IN  IF Len(sofar.samples) <= SamplesMax THEN sofar ELSE Widened(sofar)]
           u == CHOOSE g : Solves(g)
           X == {r \in Buckets : History(r, F) /\ SameBut(r, b)}
           step == [p \in X \X (1..N) |-> OneTurn(p[1])]
<1>1. Fitted(b) = u[N]
  BY <1>0 DEF Fitted
<1>2. b \in X
  BY DEF History, SameBut
<1>3. ASSUME NEW r \in X PROVE OneTurn(r) \in X
  <2>1. Turned(r, b, F, 0)
    BY DEF Turned, Progress
  <2>2. Turned(OneTurn(r), b, F, 0 + 1)
    BY <2>1, OneTurnHolds
  <2> QED
    BY <2>2 DEF Turned, History
<1>4. step \in [X \X (1..N) -> X]
  BY <1>3
<1> HIDE DEF step, X
<1>5. PICK g : Loops(g, X, N, b, step)
  BY <1>0, <1>2, <1>4, LoopExists, Zenon DEF Turning
<1>6. g \in [0..N -> X] /\ g[0] = b
  BY <1>5 DEF Loops
<1>7. \A n \in 1..N : g[n] = OneTurn(g[n - 1])
  <2> SUFFICES ASSUME NEW n \in 1..N PROVE g[n] = OneTurn(g[n - 1])
    OBVIOUS
  <2>1. n - 1 \in 0..N
    BY <1>0
  <2>2. <<g[n - 1], n>> \in X \X (1..N)
    BY <1>6, <2>1
  <2>3. step[<<g[n - 1], n>>] = OneTurn(g[n - 1])
    BY <2>2 DEF step
  <2> QED
    BY <1>5, <2>3 DEF Loops
<1>8. Solves(g)
  <2>1. ASSUME NEW i \in 0..N PROVE g[i] = IF i = 0 THEN b ELSE OneTurn(g[i - 1])
    <3>1. i # 0 => i \in 1..N
      OBVIOUS
    <3> QED
      BY <1>6, <1>7, <3>1, Zenon
  <2>2. g = [i \in 0..N |-> g[i]]
    BY <1>6
  <2>3. g = [i \in 0..N |-> IF i = 0 THEN b ELSE OneTurn(g[i - 1])]
    BY <2>1, <2>2, Zenon
  <2> QED
    BY <1>0, <2>3, Zenon DEF OneTurn
<1>9. Solves(u)
  BY <1>8, Zenon
<1>10. \A i \in 0..N : u[i] = IF i = 0 THEN b ELSE OneTurn(u[i - 1])
  <2> HIDE DEF u
  <2> QED
    BY <1>0, <1>9, Zenon DEF OneTurn
<1> HIDE DEF u, Solves
<1> DEFINE Failed == {k \in 0..N : ~Turned(u[k], b, F, k)}
<1>11. Failed = {}
  <2> SUFFICES ASSUME Failed # {} PROVE FALSE
    OBVIOUS
  <2>0. Failed \in SUBSET Nat
    OBVIOUS
  <2>1. PICK k \in Failed : \A y \in Failed : k <= y
    BY <2>0, NatHasMin
  <2>2. k \in 0..N /\ ~Turned(u[k], b, F, k)
    BY <2>1
  <2>3. CASE k = 0
    <3>1. u[0] = b
      BY <1>10
    <3>2. Turned(b, b, F, 0)
      BY DEF Turned, Progress, SameBut
    <3> QED
      BY <2>2, <2>3, <3>1, <3>2
  <2>4. CASE k # 0
    <3>1. k - 1 \in 0..N /\ ~(k <= k - 1) /\ k - 1 + 1 = k /\ k - 1 \in Nat
      BY <2>2, <2>4
    <3>2. Turned(u[k - 1], b, F, k - 1)
      BY <2>1, <3>1
    <3>3. u[k] = OneTurn(u[k - 1])
      BY <1>10, <2>2, <2>4
    <3>4. Turned(OneTurn(u[k - 1]), b, F, k - 1 + 1)
      BY <3>1, <3>2, OneTurnHolds
    <3> QED
      BY <2>2, <3>1, <3>3, <3>4
  <2> QED
    BY <2>3, <2>4
<1>12. PICK r : r = Fitted(b) /\ Turned(r, b, F, N)
  BY <1>0, <1>1, <1>11
<1>13. Len(r.samples) <= SamplesMax
  <2>1. Len(r.samples) \in Nat /\ r.width \in Nat
    BY <1>12 DEF Turned, History, Buckets
  <2>2. CASE r.width >= N /\ OneWhenWide(r)
    <3>1. r.width > MaxClock * SamplesMax
      BY <1>0, <2>1, <2>2, BufferFacts DEF BufferConstants
    <3>2. Len(r.samples) = 1
      BY <2>2, <3>1 DEF OneWhenWide
    <3> QED
      BY <3>2, BufferFacts DEF BufferConstants
  <2> QED
    BY <1>0, <1>12, <2>2 DEF Turned, Progress
<1> QED
  BY <1>12, <1>13 DEF Turned, Progress

-----------------------------------------------------------------------------
\* The sum g over each part of S of the counts p.
Picked(s) == CHOOSE x \in s : TRUE
Sums(g, S, p) ==
    /\ g \in [SUBSET S -> Int]
    /\ \A s \in SUBSET S : g[s] = IF s = {} THEN 0 ELSE p[Picked(s)] + g[s \ {Picked(s)}]

LEMMA PickedFacts ==
  ASSUME NEW S, IsFiniteSet(S), NEW s \in SUBSET S
  PROVE  /\ IsFiniteSet(s) /\ Cardinality(s) \in Nat
         /\ s # {} => /\ Picked(s) \in s /\ s \ {Picked(s)} \in SUBSET S
                      /\ Cardinality(s) >= 1 /\ Cardinality(s \ {Picked(s)}) = Cardinality(s) - 1
<1>1. IsFiniteSet(s)
  BY FS_Subset
<1>2. Cardinality(s) \in Nat
  BY <1>1, FS_CardinalityType
<1>3. ASSUME s # {}
      PROVE  /\ Picked(s) \in s /\ s \ {Picked(s)} \in SUBSET S
             /\ Cardinality(s) >= 1 /\ Cardinality(s \ {Picked(s)}) = Cardinality(s) - 1
  <2>1. Picked(s) \in s
    BY <1>3 DEF Picked
  <2>2. Cardinality(s) # 0
    BY <1>1, <1>3, FS_EmptySet
  <2>3. Cardinality(s \ {Picked(s)}) = Cardinality(s) - 1
    BY <1>1, <2>1, FS_RemoveElement
  <2> QED
    BY <1>2, <2>1, <2>2, <2>3
<1> QED
  BY <1>1, <1>2, <1>3

\* The recursion that adds up the counts has a solution, and Total is one.
LEMMA SumsExist ==
  ASSUME NEW S, IsFiniteSet(S), NEW p \in [S -> Int]
  PROVE  \E g : Sums(g, S, p)
<1> DEFINE Eq(g, s) == g[s] = IF s = {} THEN 0 ELSE p[Picked(s)] + g[s \ {Picked(s)}]
           Upto(n) == \E g \in [SUBSET S -> Int] : \A s \in SUBSET S : Cardinality(s) <= n => Eq(g, s)
           Fails == {n \in Nat : ~Upto(n)}
<1>2. Upto(0)
  <2> DEFINE g == [s \in SUBSET S |-> 0]
  <2>1. g \in [SUBSET S -> Int] /\ \A s \in SUBSET S : g[s] = 0
    OBVIOUS
  <2>2. ASSUME NEW s \in SUBSET S, Cardinality(s) <= 0 PROVE s = {}
    <3>1. Cardinality(s) \in Nat /\ (s # {} => Cardinality(s) >= 1)
      BY PickedFacts
    <3> QED
      BY <2>2, <3>1
  <2> HIDE DEF g
  <2>3. \A s \in SUBSET S : Cardinality(s) <= 0 => Eq(g, s)
    BY <2>1, <2>2
  <2> QED
    BY <2>1, <2>3
<1>3. ASSUME NEW n \in Nat, Upto(n) PROVE Upto(n + 1)
  <2>1. PICK g \in [SUBSET S -> Int] : \A s \in SUBSET S : Cardinality(s) <= n => Eq(g, s)
    BY <1>3
  <2> DEFINE h == [s \in SUBSET S |-> IF s = {} THEN 0 ELSE p[Picked(s)] + g[s \ {Picked(s)}]]
  <2>a. ASSUME NEW s \in SUBSET S, s # {}
        PROVE  p[Picked(s)] + g[s \ {Picked(s)}] \in Int
    <3>1. Picked(s) \in S /\ s \ {Picked(s)} \in SUBSET S
      BY <2>a, PickedFacts
    <3> QED
      BY <3>1
  <2>2. /\ h \in [SUBSET S -> Int]
        /\ \A s \in SUBSET S : h[s] = IF s = {} THEN 0 ELSE p[Picked(s)] + g[s \ {Picked(s)}]
    BY <2>a
  <2> HIDE DEF h
  <2>3. ASSUME NEW s \in SUBSET S, Cardinality(s) <= n + 1 PROVE Eq(h, s)
    <3>1. CASE s = {}
      BY <2>2, <3>1
    <3>2. CASE s # {}
      <4> DEFINE r == s \ {Picked(s)}
      <4>a. /\ r \in SUBSET S /\ Cardinality(r) = Cardinality(s) - 1
            /\ Cardinality(s) \in Nat
        BY <3>2, PickedFacts
      <4>1. r \in SUBSET S /\ Cardinality(r) <= n
        BY <2>3, <4>a
      <4>2. h[r] = g[r]
        BY <2>1, <2>2, <4>1
      <4>3. h[s] = p[Picked(s)] + g[r]
        BY <2>2, <3>2
      <4> QED
        BY <3>2, <4>2, <4>3
    <3> QED
      BY <3>1, <3>2
  <2> QED
    BY <2>2, <2>3
<1> HIDE DEF Upto
<1>4. Fails = {}
  <2> SUFFICES ASSUME Fails # {} PROVE FALSE
    OBVIOUS
  <2>1. PICK m \in Fails : \A y \in Fails : m <= y
    BY NatHasMin
  <2>2. m # 0
    BY <1>2, <2>1
  <2>3. m - 1 \in Nat /\ Upto(m - 1)
    BY <2>1, <2>2
  <2>4. Upto(m - 1 + 1)
    BY <1>3, <2>3
  <2> QED
    BY <2>1, <2>4
<1>5. Cardinality(S) \in Nat
  BY FS_CardinalityType
<1>6. Upto(Cardinality(S))
  BY <1>4, <1>5
<1>7. PICK g \in [SUBSET S -> Int] : \A s \in SUBSET S : Cardinality(s) <= Cardinality(S) => Eq(g, s)
  BY <1>6 DEF Upto
<1>8. \A s \in SUBSET S : Cardinality(s) <= Cardinality(S)
  BY FS_Subset
<1>9. \A s \in SUBSET S : Eq(g, s)
  BY <1>7, <1>8
<1> QED
  BY <1>9 DEF Sums

LEMMA TotalIs ==
  ASSUME NEW S, IsFiniteSet(S), NEW p \in [S -> Int]
  PROVE  \E g : Sums(g, S, p) /\ Total(p) = g[S]
<1> DEFINE Solves(g) == g = [s \in SUBSET DOMAIN p |->
                          IF s = {} THEN 0 ELSE LET k == CHOOSE x \in s : TRUE IN p[k] + g[s \ {k}]]
           u == CHOOSE g : Solves(g)
<1>1. Total(p) = u[DOMAIN p]
  BY DEF Total
<1>2. DOMAIN p = S
  OBVIOUS
<1>3. PICK g : Sums(g, S, p)
  BY SumsExist
<1>4. Solves(g)
  <2>1. g = [s \in SUBSET S |-> g[s]]
    BY <1>3 DEF Sums
  <2>2. \A s \in SUBSET S : g[s] = IF s = {} THEN 0 ELSE p[Picked(s)] + g[s \ {Picked(s)}]
    BY <1>3 DEF Sums
  <2>3. g = [s \in SUBSET S |-> IF s = {} THEN 0 ELSE p[Picked(s)] + g[s \ {Picked(s)}]]
    BY <2>1, <2>2, Zenon
  <2> QED
    BY <1>2, <2>3, Zenon DEF Picked
<1>5. Solves(u)
  BY <1>4, Zenon
<1>6. \A s \in SUBSET S : u[s] = IF s = {} THEN 0 ELSE p[Picked(s)] + u[s \ {Picked(s)}]
  <2> HIDE DEF u
  <2> QED
    BY <1>2, <1>5, Zenon DEF Picked
<1>7. u = [s \in SUBSET S |-> u[s]]
  <2> HIDE DEF u
  <2>1. u = [s \in SUBSET S |-> IF s = {} THEN 0 ELSE p[Picked(s)] + u[s \ {Picked(s)}]]
    BY <1>2, <1>5, Zenon DEF Picked
  <2> QED
    BY <1>6, <2>1, Zenon
<1> HIDE DEF u, Solves
<1> DEFINE Fails == {n \in Nat : \E s \in SUBSET S : Cardinality(s) = n /\ u[s] \notin Int}
<1>8. Fails = {}
  <2> SUFFICES ASSUME Fails # {} PROVE FALSE
    OBVIOUS
  <2>0. Fails \in SUBSET Nat
    OBVIOUS
  <2>1. PICK m \in Fails : \A y \in Fails : m <= y
    BY <2>0, NatHasMin
  <2>2. PICK s \in SUBSET S : Cardinality(s) = m /\ u[s] \notin Int
    BY <2>1
  <2>3. s # {}
    BY <1>6, <2>2
  <2>4. /\ Picked(s) \in S /\ s \ {Picked(s)} \in SUBSET S
        /\ Cardinality(s) \in Nat /\ Cardinality(s) >= 1 /\ Cardinality(s \ {Picked(s)}) = Cardinality(s) - 1
    BY <2>3, PickedFacts
  <2>5. m - 1 \in Nat /\ ~(m <= m - 1) /\ Cardinality(s \ {Picked(s)}) = m - 1
    BY <2>2, <2>4
  <2>6. u[s \ {Picked(s)}] \in Int
    BY <2>1, <2>4, <2>5
  <2>7. p[Picked(s)] \in Int
    BY <2>4
  <2>8. u[s] = p[Picked(s)] + u[s \ {Picked(s)}]
    BY <1>6, <2>3
  <2> QED
    BY <2>2, <2>6, <2>7, <2>8
<1>9. \A s \in SUBSET S : u[s] \in Int
  BY <1>8, PickedFacts
<1>10. u \in [SUBSET S -> Int]
  BY <1>7, <1>9
<1> QED
  BY <1>1, <1>2, <1>6, <1>10 DEF Sums

\* One count changes the total by as much as it changes.
LEMMA TotalChanges ==
  ASSUME NEW S, IsFiniteSet(S), NEW p \in [S -> Int], NEW k \in S, NEW v \in Int
  PROVE  Total(p) \in Int /\ Total([p EXCEPT ![k] = v]) = Total(p) + (v - p[k])
<1>1. PICK q \in [S -> Int] : q = [p EXCEPT ![k] = v]
  OBVIOUS
<1>2. q[k] = v /\ \A x \in S : x # k => q[x] = p[x]
  BY <1>1
<1>3. PICK g : Sums(g, S, p) /\ Total(p) = g[S]
  BY TotalIs
<1>4. PICK h : Sums(h, S, q) /\ Total(q) = h[S]
  BY TotalIs
<1> DEFINE Diff(s) == IF k \in s THEN v - p[k] ELSE 0
           Fails == {n \in Nat : \E s \in SUBSET S : Cardinality(s) = n /\ h[s] # g[s] + Diff(s)}
<1>5. Fails = {}
  <2> SUFFICES ASSUME Fails # {} PROVE FALSE
    OBVIOUS
  <2>0. Fails \in SUBSET Nat
    OBVIOUS
  <2>1. PICK m \in Fails : \A y \in Fails : m <= y
    BY <2>0, NatHasMin
  <2>2. PICK s \in SUBSET S : Cardinality(s) = m /\ h[s] # g[s] + Diff(s)
    BY <2>1
  <2>3. s # {}
    <3> SUFFICES ASSUME s = {} PROVE FALSE
      OBVIOUS
    <3>1. g[s] = 0 /\ h[s] = 0
      BY <1>3, <1>4 DEF Sums
    <3>2. Diff(s) = 0
      OBVIOUS
    <3> HIDE DEF Diff
    <3> QED
      BY <2>2, <3>1, <3>2
  <2>4. PICK x, r : x = Picked(s) /\ r = s \ {Picked(s)}
    OBVIOUS
  <2>5. /\ x \in s /\ x \in S /\ r \in SUBSET S
        /\ Cardinality(s) \in Nat /\ Cardinality(s) >= 1 /\ Cardinality(r) = Cardinality(s) - 1
    BY <2>3, <2>4, PickedFacts
  <2>6. m - 1 \in Nat /\ ~(m <= m - 1) /\ Cardinality(r) = m - 1
    BY <2>2, <2>5
  <2>7. h[r] = g[r] + Diff(r)
    BY <2>1, <2>5, <2>6
  <2>8. g[s] = p[x] + g[r] /\ h[s] = q[x] + h[r]
    BY <1>3, <1>4, <2>3, <2>4 DEF Sums
  <2>9. g[r] \in Int /\ p[x] \in Int /\ p[k] \in Int
    BY <1>3, <2>5 DEF Sums
  <2>10. CASE x = k
    <3>1. Diff(s) = v - p[k] /\ Diff(r) = 0
      BY <2>4, <2>5, <2>10
    <3>2. q[x] = v /\ p[x] = p[k]
      BY <1>2, <2>10
    <3> HIDE DEF Diff
    <3> QED
      BY <2>2, <2>7, <2>8, <2>9, <3>1, <3>2
  <2>11. CASE x # k
    <3>1. Diff(s) = Diff(r) /\ Diff(s) \in Int
      BY <2>4, <2>9, <2>11
    <3>2. q[x] = p[x]
      BY <1>2, <2>5, <2>11
    <3> HIDE DEF Diff
    <3> QED
      BY <2>2, <2>7, <2>8, <2>9, <3>1, <3>2
  <2> QED
    BY <2>10, <2>11
<1>6. Cardinality(S) \in Nat
  BY FS_CardinalityType
<1>7. h[S] = g[S] + Diff(S)
  BY <1>5, <1>6
<1>8. Diff(S) = v - p[k]
  OBVIOUS
<1>9. g[S] \in Int
  BY <1>3 DEF Sums
<1> QED
  BY <1>1, <1>3, <1>4, <1>7, <1>8, <1>9

LEMMA TotalOfNone ==
  ASSUME NEW S, IsFiniteSet(S), NEW p \in [S -> Int], \A x \in S : p[x] = 0
  PROVE  Total(p) = 0
<1>1. PICK g : Sums(g, S, p) /\ Total(p) = g[S]
  BY TotalIs
<1> DEFINE Fails == {n \in Nat : \E s \in SUBSET S : Cardinality(s) = n /\ g[s] # 0}
<1>2. Fails = {}
  <2> SUFFICES ASSUME Fails # {} PROVE FALSE
    OBVIOUS
  <2>0. Fails \in SUBSET Nat
    OBVIOUS
  <2>1. PICK m \in Fails : \A y \in Fails : m <= y
    BY <2>0, NatHasMin
  <2>2. PICK s \in SUBSET S : Cardinality(s) = m /\ g[s] # 0
    BY <2>1
  <2>3. s # {}
    BY <1>1, <2>2 DEF Sums
  <2>4. PICK x, r : x = Picked(s) /\ r = s \ {Picked(s)}
    OBVIOUS
  <2>5. /\ x \in S /\ r \in SUBSET S
        /\ Cardinality(s) \in Nat /\ Cardinality(s) >= 1 /\ Cardinality(r) = Cardinality(s) - 1
    BY <2>3, <2>4, PickedFacts
  <2>6. m - 1 \in Nat /\ ~(m <= m - 1) /\ Cardinality(r) = m - 1
    BY <2>2, <2>5
  <2>7. g[r] = 0
    BY <2>1, <2>5, <2>6
  <2>8. g[s] = p[x] + g[r] /\ p[x] = 0
    BY <1>1, <2>3, <2>4, <2>5 DEF Sums
  <2> QED
    BY <2>2, <2>7, <2>8
<1>3. Cardinality(S) \in Nat
  BY FS_CardinalityType
<1> QED
  BY <1>1, <1>2, <1>3

-----------------------------------------------------------------------------
\* A type that is recorded: its history is one of every frame but the newest, which is
\* kept apart.
TypeWhole(b, F) ==
    /\ b \in Buckets /\ F \subseteq Stamped
    /\ b.latest \in F /\ b.latest.n = b.seen /\ b.seen >= 1
    /\ Len(b.samples) <= SamplesMax
    /\ \A f \in F : f.n <= b.seen
    /\ \A f, g \in F : f.n = g.n => f = g
    /\ IF Len(b.samples) = 0 THEN b.seen = 1 /\ F = {b.latest} ELSE History(b, F \ {b.latest})

\* A frame that is offered to the history is in it or in the slot of one that is.
LEMMA SampledFacts ==
  ASSUME NEW b, NEW F, TypeWhole(b, F)
  PROVE  /\ History(Sampled(b, b.latest), F) /\ SameBut(Sampled(b, b.latest), b)
         /\ Len(Sampled(b, b.latest).samples) <= SamplesMax
<1>1. PICK f \in Stamped : f = b.latest
  BY DEF TypeWhole, Buckets
<1>2. PICK kept : kept = Joined(b.samples, f, b)
  OBVIOUS
<1>3. b \in Buckets /\ b.samples \in Seq(Stamped) /\ F \subseteq Stamped /\ f \in F
  BY <1>1 DEF TypeWhole, Buckets
<1>4. CASE b.samples # <<>> /\ Slot(f, b) = Slot(Last(b.samples), b)
  <2>1. kept = b.samples
    BY <1>2, <1>4 DEF Joined
  <2>2. Sampled(b, f) = b
    BY <1>2, <2>1 DEF Sampled
  <2>3. Len(b.samples) \in DOMAIN b.samples /\ Last(b.samples) = b.samples[Len(b.samples)] /\ Len(b.samples) # 0
    BY <1>3, <1>4 DEF Last
  <2>4. History(b, F \ {f})
    BY <1>1, <2>3 DEF TypeWhole
  <2>5. ASSUME NEW g \in F PROVE \E i \in DOMAIN b.samples : Slot(b.samples[i], b) = Slot(g, b)
    <3>1. CASE g = f
      BY <1>4, <2>3, <3>1
    <3>2. CASE g # f
      BY <2>4, <3>2 DEF History
    <3> QED
      BY <3>1, <3>2
  <2>6. /\ Len(b.samples) >= 1 /\ b.samples[1].n = 1
        /\ \A i \in DOMAIN b.samples : b.samples[i] \in F
    BY <2>4 DEF History
  <2>7. \A g, h \in F : g.n = h.n => g = h
    BY DEF TypeWhole
  <2>8. History(b, F)
    BY <1>3, <2>5, <2>6, <2>7 DEF History
  <2>9. Len(b.samples) <= SamplesMax
    BY DEF TypeWhole
  <2> QED
    BY <1>1, <2>2, <2>8, <2>9 DEF SameBut
<1>5. CASE ~(b.samples # <<>> /\ Slot(f, b) = Slot(Last(b.samples), b))
  <2>1. kept = Append(b.samples, f)
    BY <1>2, <1>5 DEF Joined
  <2>2. PICK N \in Nat : N = Len(b.samples) /\ DOMAIN b.samples = 1..N
    BY <1>3
  <2>3. /\ kept \in Seq(Stamped) /\ Len(kept) = N + 1 /\ kept[N + 1] = f /\ DOMAIN kept = 1..(N + 1)
        /\ \A i \in 1..N : kept[i] = b.samples[i]
    BY <1>3, <2>1, <2>2, AppendProperties
  <2>4. kept # b.samples
    BY <2>2, <2>3
  <2>5. PICK c : c = [b EXCEPT !.samples = kept]
    OBVIOUS
  <2>6. Sampled(b, f) = Fitted(c)
    BY <1>2, <2>4, <2>5 DEF Sampled
  <2>7. c \in Buckets /\ c.samples = kept /\ SameBut(c, b) /\ \A g : Slot(g, c) = Slot(g, b)
    BY <1>3, <2>3, <2>5 DEF Buckets, SameBut, Slot
  <2>8. kept[1].n = 1
    <3>1. CASE N = 0
      BY <1>1, <2>2, <2>3, <3>1 DEF TypeWhole
    <3>2. CASE N # 0
      <4>1. kept[1] = b.samples[1]
        BY <2>3, <3>2
      <4>2. b.samples[1].n = 1
        BY <2>2, <3>2 DEF TypeWhole, History
      <4> QED
        BY <4>1, <4>2
    <3> QED
      BY <3>1, <3>2
  <2>9. ASSUME NEW i \in 1..(N + 1) PROVE kept[i] \in F
    <3>1. CASE i = N + 1
      BY <1>3, <2>3, <3>1
    <3>2. CASE i # N + 1
      <4>1. i \in 1..N /\ N # 0
        BY <3>2
      <4>2. b.samples[i] \in F
        BY <2>2, <4>1 DEF TypeWhole, History
      <4> QED
        BY <2>3, <4>1, <4>2
    <3> QED
      BY <3>1, <3>2
  <2>10. ASSUME NEW g \in F PROVE \E i \in 1..(N + 1) : Slot(kept[i], b) = Slot(g, b)
    <3>1. CASE g = f
      <4>1. N + 1 \in 1..(N + 1)
        OBVIOUS
      <4> QED
        BY <2>3, <3>1, <4>1
    <3>2. CASE g # f
      <4>1. N # 0
        BY <1>1, <2>2, <3>2 DEF TypeWhole
      <4>2. PICK i \in 1..N : Slot(b.samples[i], b) = Slot(g, b)
        BY <1>1, <2>2, <3>2, <4>1 DEF TypeWhole, History
      <4>3. i \in 1..(N + 1) /\ kept[i] = b.samples[i]
        BY <2>3
      <4> QED
        BY <4>2, <4>3
    <3> QED
      BY <3>1, <3>2
  <2>11. \A g, h \in F : g.n = h.n => g = h
    BY DEF TypeWhole
  <2>12. Len(kept) >= 1
    BY <2>3
  <2>13. History(c, F)
    <3>1. \A i \in DOMAIN c.samples : c.samples[i] \in F
      BY <2>3, <2>7, <2>9
    <3>2. \A g \in F : \E i \in DOMAIN c.samples : Slot(c.samples[i], c) = Slot(g, c)
      BY <2>3, <2>7, <2>10
    <3>3. Len(c.samples) >= 1 /\ c.samples[1].n = 1 /\ c \in Buckets /\ F \subseteq Stamped
      BY <1>3, <2>7, <2>8, <2>12
    <3> QED
      BY <2>11, <3>1, <3>2, <3>3, Zenon DEF History
  <2>14. Turned(Fitted(c), c, F, 1) /\ Len(Fitted(c).samples) <= SamplesMax
    BY <2>13, FittedFacts, Zenon
  <2>15. History(Fitted(c), F) /\ SameBut(Fitted(c), b)
    BY <2>7, <2>14 DEF Turned, SameBut
  <2> QED
    BY <1>1, <2>6, <2>14, <2>15
<1> QED
  BY <1>4, <1>5

\* add keeps a recorded type whole.
LEMMA StoredFacts ==
  ASSUME clock \in 0..MaxClock, NEW k, NEW b, NEW F, TypeWhole(b, F),
         NEW r, r = Stored(k, b)
  PROVE  TypeWhole(r, F \cup {r.latest}) /\ r.seen = b.seen + 1
<1>1. /\ b \in Buckets /\ b.seen \in Nat /\ b.seen >= 1 /\ F \subseteq Stamped
      /\ b.latest \in F /\ b.latest.n = b.seen
  BY DEF TypeWhole, Buckets
<1>2. PICK frame : frame = [ts |-> clock, n |-> b.seen + 1]
  OBVIOUS
<1>3. frame \in Stamped /\ frame.n = b.seen + 1
  BY <1>1, <1>2 DEF Stamped
<1>4. PICK older : older = Sampled(b, b.latest)
  OBVIOUS
<1>5. History(older, F) /\ SameBut(older, b) /\ Len(older.samples) <= SamplesMax
  BY <1>4, SampledFacts
<1>6. r = [older EXCEPT !.latest = frame, !.seen = older.seen + 1]
  <2>1. b.seen # 0
    BY <1>1
  <2> QED
    BY <1>2, <1>4, <2>1 DEF Stored
<1>7. older \in Buckets /\ older.seen = b.seen
  BY <1>5 DEF History, SameBut
<1>8. /\ r \in Buckets /\ r.latest = frame /\ r.seen = b.seen + 1
      /\ r.samples = older.samples /\ r.width = older.width /\ r.start = older.start
  <2>1. PICK c : c = [older EXCEPT !.latest = frame]
    OBVIOUS
  <2>2. /\ c \in Buckets /\ c.latest = frame /\ c.seen = b.seen
        /\ c.samples = older.samples /\ c.width = older.width /\ c.start = older.start
    BY <1>3, <1>7, <2>1 DEF Buckets
  <2>3. r = [c EXCEPT !.seen = b.seen + 1]
    BY <1>6, <1>7, <2>1
  <2>4. b.seen + 1 \in Nat
    BY <1>1
  <2> QED
    BY <2>2, <2>3, <2>4 DEF Buckets
<1>9. \A g : Slot(g, r) = Slot(g, older)
  BY <1>8 DEF Slot
<1>10. \A g \in F : g.n <= b.seen /\ g.n \in Nat
  BY <1>1 DEF TypeWhole, Stamped
<1>11. frame \notin F
  BY <1>1, <1>3, <1>10
<1>12. History(r, F)
  BY <1>5, <1>8, <1>9 DEF History
<1>13. (F \cup {frame}) \ {frame} = F
  BY <1>11
<1>14. ASSUME NEW g \in F \cup {frame} PROVE g.n <= r.seen
  BY <1>1, <1>3, <1>8, <1>10
<1>15. ASSUME NEW g \in F \cup {frame}, NEW h \in F \cup {frame}, g.n = h.n PROVE g = h
  <2>1. ASSUME NEW x \in F PROVE x.n # frame.n
    BY <1>1, <1>3, <1>10
  <2>2. g \in F /\ h \in F => g = h
    BY <1>15 DEF TypeWhole
  <2> QED
    BY <1>15, <2>1, <2>2
<1>16. Len(r.samples) # 0 /\ Len(r.samples) <= SamplesMax
  BY <1>5, <1>8 DEF History
<1>17. TypeWhole(r, F \cup {frame})
  <2>1. PICK G : G = F \cup {frame} /\ G \ {frame} = F
    BY <1>13
  <2>2. G \subseteq Stamped /\ frame \in G /\ r.seen >= 1 /\ r.latest.n = r.seen
    BY <1>1, <1>3, <1>8, <2>1
  <2>3. History(r, G \ {r.latest})
    BY <1>8, <1>12, <2>1
  <2>4. (\A g \in G : g.n <= r.seen) /\ \A g, h \in G : g.n = h.n => g = h
    BY <1>14, <1>15, <2>1
  <2>5. TypeWhole(r, G)
    BY <1>8, <1>16, <2>2, <2>3, <2>4 DEF TypeWhole
  <2> QED
    BY <2>1, <2>5
<1> QED
  BY <1>8, <1>17

LEMMA FirstStored ==
  ASSUME clock \in 0..MaxClock, NEW k, NEW r, r = Stored(k, NoBucket)
  PROVE  TypeWhole(r, {r.latest}) /\ r.seen = 1
<1>1. r = [start |-> clock, width |-> 0, samples |-> <<>>, latest |-> [ts |-> clock, n |-> 1], seen |-> 1]
  <2>1. PICK e : e = [NoBucket EXCEPT !.start = clock]
    OBVIOUS
  <2>2. e = [start |-> clock, width |-> 0, samples |-> <<>>, latest |-> NoFrame, seen |-> 0]
    BY <2>1 DEF NoBucket
  <2>3. NoBucket.seen = 0
    BY DEF NoBucket
  <2>4. r = [e EXCEPT !.latest = [ts |-> clock, n |-> 0 + 1], !.seen = e.seen + 1]
    BY <2>1, <2>3 DEF Stored
  <2>5. e.seen + 1 = 1 /\ 0 + 1 = 1
    BY <2>2
  <2>6. r = [e EXCEPT !.latest = [ts |-> clock, n |-> 1], !.seen = 1]
    BY <2>4, <2>5
  <2> QED
    BY <2>2, <2>6
<1>2. [ts |-> clock, n |-> 1] \in Stamped
  BY DEF Stamped
<1>3. r \in Buckets
  BY <1>1, <1>2 DEF Buckets
<1>4. /\ r.latest \in Stamped /\ r.latest.n = 1 /\ r.seen = 1 /\ Len(r.samples) = 0
  BY <1>1, <1>2
<1>5. 0 <= SamplesMax
  BY BufferFacts DEF BufferConstants
<1> QED
  BY <1>3, <1>4, <1>5 DEF TypeWhole

-----------------------------------------------------------------------------
\* A list of different types, and one of the set E.
Distinct(s) == \A i, j \in DOMAIN s : s[i] = s[j] => i = j
ListOf(s, T, E) == s \in Seq(T) /\ Distinct(s) /\ ToSet(s) = E

\* A type takes the place of one that is evicted.
LEMMA RemovedFacts ==
  ASSUME NEW T, NEW s \in Seq(T), Distinct(s), NEW p \in DOMAIN s, NEW k \in T, k \notin ToSet(s),
         NEW r, r = Append(RemoveAt(s, p), k)
  PROVE  ListOf(r, T, (ToSet(s) \ {s[p]}) \cup {k})
<1>1. PICK N \in Nat : N = Len(s) /\ DOMAIN s = 1..N
  OBVIOUS
<1>2. p \in Int /\ 1 <= p /\ p <= N /\ N >= 1
  BY <1>1
<1>3. PICK x : x = SubSeq(s, 1, p - 1)
  OBVIOUS
<1>4. PICK y : y = SubSeq(s, p + 1, N)
  OBVIOUS
<1>5. x \in Seq(T) /\ Len(x) = p - 1 /\ \A i \in 1..(p - 1) : x[i] = s[i]
  <2>1. \A i \in 1..(p - 1) : s[i] \in T
    BY <1>1, <1>2, ElementOfSeq
  <2>2. /\ x \in Seq(T) /\ Len(x) = (IF 1 <= p - 1 THEN p - 1 - 1 + 1 ELSE 0)
        /\ \A i \in 1..(p - 1 - 1 + 1) : x[i] = s[1 + i - 1]
    <3>1. 1 \in Int /\ p - 1 \in Int
      BY <1>2
    <3> QED
      BY <1>3, <2>1, <3>1, SubSeqProperties
  <2>3. (IF 1 <= p - 1 THEN p - 1 - 1 + 1 ELSE 0) = p - 1 /\ p - 1 - 1 + 1 = p - 1
    BY <1>2
  <2>4. \A i \in 1..(p - 1) : 1 + i - 1 = i
    OBVIOUS
  <2> QED
    BY <2>2, <2>3, <2>4
<1>6. y \in Seq(T) /\ Len(y) = N - p /\ \A i \in 1..(N - p) : y[i] = s[i + p]
  <2>1. \A i \in (p + 1)..N : s[i] \in T
    BY <1>1, <1>2, ElementOfSeq
  <2>2. /\ y \in Seq(T) /\ Len(y) = (IF p + 1 <= N THEN N - (p + 1) + 1 ELSE 0)
        /\ \A i \in 1..(N - (p + 1) + 1) : y[i] = s[p + 1 + i - 1]
    <3>1. N \in Int /\ p + 1 \in Int
      BY <1>2
    <3> QED
      BY <1>4, <2>1, <3>1, SubSeqProperties
  <2>3. (IF p + 1 <= N THEN N - (p + 1) + 1 ELSE 0) = N - p /\ N - (p + 1) + 1 = N - p
    BY <1>2
  <2>4. \A i \in 1..(N - p) : p + 1 + i - 1 = i + p
    BY <1>2
  <2> QED
    BY <2>2, <2>3, <2>4
<1>7. PICK z : z = RemoveAt(s, p)
  OBVIOUS
<1>8. z = x \o y
  BY <1>1, <1>3, <1>4, <1>7 DEF RemoveAt
<1>9. /\ z \in Seq(T) /\ Len(z) = N - 1
      /\ \A i \in 1..(N - 1) : z[i] = IF i < p THEN s[i] ELSE s[i + 1]
  <2>1. z \in Seq(T) /\ Len(z) = N - 1
    <3>1. z \in Seq(T) /\ Len(z) = Len(x) + Len(y)
      BY <1>5, <1>6, <1>8, ConcatProperties
    <3>2. Len(x) = p - 1 /\ Len(y) = N - p
      BY <1>5, <1>6
    <3> QED
      BY <1>2, <3>1, <3>2
  <2>2. ASSUME NEW i \in 1..(N - 1) PROVE z[i] = IF i < p THEN s[i] ELSE s[i + 1]
    <3>a. \A n \in 1..(Len(x) + Len(y)) : z[n] = IF n <= Len(x) THEN x[n] ELSE y[n - Len(x)]
      <4>1. x \in Seq(T) /\ y \in Seq(T)
        BY <1>5, <1>6
      <4> QED
        BY <1>8, <4>1, ConcatProperties
    <3>b. Len(x) + Len(y) = N - 1
      <4>1. Len(x) = p - 1 /\ Len(y) = N - p
        BY <1>5, <1>6
      <4> QED
        BY <1>2, <4>1
    <3>1. z[i] = IF i <= Len(x) THEN x[i] ELSE y[i - Len(x)]
      BY <3>a, <3>b
    <3>2. CASE i < p
      <4>1. i <= Len(x) /\ i \in 1..(p - 1)
        BY <1>2, <1>5, <3>2
      <4> QED
        BY <1>5, <3>1, <3>2, <4>1
    <3>3. CASE ~(i < p)
      <4>1. ~(i <= Len(x)) /\ i - Len(x) \in 1..(N - p) /\ i - Len(x) + p = i + 1
        BY <1>2, <1>5, <3>3
      <4> QED
        BY <1>6, <3>1, <3>3, <4>1
    <3> QED
      BY <3>2, <3>3
  <2> QED
    BY <2>1, <2>2
<1>10. /\ r \in Seq(T) /\ Len(r) = N /\ r[N] = k /\ DOMAIN r = 1..N
       /\ \A i \in 1..(N - 1) : r[i] = z[i]
  BY <1>2, <1>7, <1>9, AppendProperties
<1>11. \A i \in 1..(N - 1) : r[i] = IF i < p THEN s[i] ELSE s[i + 1]
  BY <1>9, <1>10
<1>12. ASSUME NEW i \in 1..(N - 1) PROVE \E j \in 1..N : r[i] = s[j] /\ j # p
  <2>1. CASE i < p
    <3>1. i \in 1..N /\ i # p
      BY <1>2, <2>1
    <3> QED
      BY <1>11, <2>1, <3>1
  <2>2. CASE ~(i < p)
    <3>1. i + 1 \in 1..N /\ i + 1 # p
      BY <1>2, <2>2
    <3> QED
      BY <1>11, <2>2, <3>1
  <2> QED
    BY <2>1, <2>2
<1>13. ASSUME NEW j \in 1..N, j # p PROVE \E i \in 1..(N - 1) : r[i] = s[j]
  <2>1. CASE j < p
    <3>1. j \in 1..(N - 1)
      BY <1>2, <2>1
    <3> QED
      BY <1>11, <2>1, <3>1
  <2>2. CASE ~(j < p)
    <3>1. j - 1 \in 1..(N - 1) /\ ~(j - 1 < p) /\ j - 1 + 1 = j
      BY <1>2, <1>13, <2>2
    <3> QED
      BY <1>11, <3>1
  <2> QED
    BY <2>1, <2>2
<1>14. ToSet(r) = (ToSet(s) \ {s[p]}) \cup {k}
  <2>1. ASSUME NEW e \in ToSet(r) PROVE e \in (ToSet(s) \ {s[p]}) \cup {k}
    <3>1. PICK i \in 1..N : e = r[i]
      BY <1>10 DEF ToSet
    <3>2. CASE i = N
      BY <1>10, <3>1, <3>2
    <3>3. CASE i # N
      <4>1. i \in 1..(N - 1)
        BY <3>3
      <4>2. PICK j \in 1..N : r[i] = s[j] /\ j # p
        BY <1>12, <4>1
      <4>3. s[j] # s[p]
        BY <1>1, <4>2 DEF Distinct
      <4> QED
        BY <1>1, <3>1, <4>2, <4>3 DEF ToSet
    <3> QED
      BY <3>2, <3>3
  <2>2. ASSUME NEW e \in (ToSet(s) \ {s[p]}) \cup {k} PROVE e \in ToSet(r)
    <3>1. CASE e = k
      <4>1. N \in DOMAIN r
        BY <1>2, <1>10
      <4> QED
        BY <1>10, <3>1, <4>1 DEF ToSet
    <3>2. CASE e # k
      <4>1. PICK j \in 1..N : e = s[j]
        BY <1>1, <3>2 DEF ToSet
      <4>2. j # p
        BY <3>2, <4>1
      <4>3. PICK i \in 1..(N - 1) : r[i] = s[j]
        BY <1>13, <4>2
      <4>4. i \in DOMAIN r
        BY <1>10
      <4> QED
        BY <4>1, <4>3, <4>4 DEF ToSet
    <3> QED
      BY <3>1, <3>2
  <2> QED
    BY <2>1, <2>2
<1>15. Distinct(r)
  <2> SUFFICES ASSUME NEW i \in 1..N, NEW j \in 1..N, r[i] = r[j] PROVE i = j
    BY <1>10 DEF Distinct
  <2>1. ASSUME NEW n \in 1..(N - 1) PROVE r[n] # k
    <3>1. PICK m \in 1..N : r[n] = s[m]
      BY <1>12
    <3> QED
      BY <1>1, <3>1 DEF ToSet
  <2>2. CASE i = N \/ j = N
    <3>1. \A n \in 1..N : n # N => n \in 1..(N - 1)
      OBVIOUS
    <3> QED
      BY <1>10, <2>1, <2>2, <3>1
  <2>3. CASE i # N /\ j # N
    <3>1. i \in 1..(N - 1) /\ j \in 1..(N - 1)
      BY <2>3
    <3>2. ASSUME NEW n \in 1..(N - 1)
          PROVE  \E a \in 1..N : a = (IF n < p THEN n ELSE n + 1) /\ r[n] = s[a]
      <4>1. n \in 1..N /\ n + 1 \in 1..N
        OBVIOUS
      <4>2. r[n] = IF n < p THEN s[n] ELSE s[n + 1]
        BY <1>11
      <4>3. CASE n < p
        BY <4>1, <4>2, <4>3
      <4>4. CASE ~(n < p)
        BY <4>1, <4>2, <4>4
      <4> QED
        BY <4>3, <4>4
    <3>3. PICK a \in 1..N : a = (IF i < p THEN i ELSE i + 1) /\ r[i] = s[a]
      BY <3>1, <3>2
    <3>4. PICK c \in 1..N : c = (IF j < p THEN j ELSE j + 1) /\ r[j] = s[c]
      BY <3>1, <3>2
    <3>5. s[a] = s[c]
      BY <3>3, <3>4
    <3>6. a = c
      BY <1>1, <3>5 DEF Distinct
    <3> QED
      BY <1>2, <3>3, <3>4, <3>6
  <2> QED
    BY <2>2, <2>3
<1> QED
  BY <1>10, <1>14, <1>15 DEF ListOf

BufferTypes ==
    /\ clock \in 0..MaxClock
    /\ tracked \in Seq(Types) /\ Distinct(tracked)
    /\ bucket \in [Types -> Buckets]
    /\ since \in [Types -> SUBSET Stamped]
    /\ received \in [Types -> Nat] /\ lost \in Nat

SeenFrames == [k \in Types |-> bucket[k].seen]

BufferInv ==
    /\ BufferTypes
    /\ \A k \in Types : IF k \in ToSet(tracked) THEN TypeWhole(bucket[k], since[k]) ELSE bucket[k] = NoBucket
    /\ Total(received) = Total(SeenFrames) + lost

\* There is a type that was seen most often.
LEMMA BusiestFacts ==
  ASSUME BufferTypes, Repeating # {}
  PROVE  BusiestPlace \in Repeating
<1>1. PICK N \in Nat : N = Len(tracked) /\ DOMAIN tracked = 1..N
  BY DEF BufferTypes
<1>2. Repeating \subseteq 1..N
  BY <1>1 DEF Repeating
<1>3. \A i \in Repeating : Seen(i) \in Nat
  <2> SUFFICES ASSUME NEW i \in Repeating PROVE Seen(i) \in Nat
    OBVIOUS
  <2>1. tracked[i] \in Types
    BY <1>1, <1>2, ElementOfSeq DEF BufferTypes
  <2>2. bucket[tracked[i]] \in Buckets
    BY <2>1 DEF BufferTypes
  <2> QED
    BY <2>2 DEF Seen, Buckets
<1> DEFINE Beats(i, j) == Seen(j) < Seen(i) \/ (Seen(j) = Seen(i) /\ i <= j)
           Upto(n) == \E i \in Repeating : i <= n /\ \A j \in Repeating : j <= n => Beats(i, j)
           Fails == {n \in 1..N : (\E i \in Repeating : i <= n) /\ ~Upto(n)}
<1>4. Fails = {}
  <2> SUFFICES ASSUME Fails # {} PROVE FALSE
    OBVIOUS
  <2>0. Fails \in SUBSET Nat
    OBVIOUS
  <2>1. PICK m \in Fails : \A y \in Fails : m <= y
    BY <2>0, NatHasMin
  <2>2. m \in 1..N /\ ~Upto(m) /\ \E i \in Repeating : i <= m
    BY <2>1
  <2>3. CASE \E i \in Repeating : i <= m - 1
    <3>1. m - 1 \in 1..N /\ ~(m <= m - 1)
      BY <1>2, <2>2, <2>3
    <3>2. Upto(m - 1)
      BY <2>1, <2>3, <3>1
    <3>3. PICK i \in Repeating : i <= m - 1 /\ \A j \in Repeating : j <= m - 1 => Beats(i, j)
      BY <3>2
    <3>4. \A j \in Repeating : j <= m => j <= m - 1 \/ j = m
      BY <1>2, <2>2
    <3>5. i <= m /\ i \in Int /\ m \in Int
      BY <1>2, <2>2, <3>3
    <3>6. CASE m \in Repeating /\ Seen(m) > Seen(i)
      <4>1. \A j \in Repeating : j <= m => Beats(m, j)
        <5> SUFFICES ASSUME NEW j \in Repeating, j <= m PROVE Beats(m, j)
          OBVIOUS
        <5>1. CASE j = m
          BY <3>5, <5>1
        <5>2. CASE j <= m - 1
          BY <1>3, <3>3, <3>6, <5>2
        <5> QED
          BY <3>4, <5>1, <5>2
      <4> QED
        BY <2>2, <3>5, <3>6, <4>1
    <3>7. CASE ~(m \in Repeating /\ Seen(m) > Seen(i))
      <4>1. \A j \in Repeating : j <= m => Beats(i, j)
        <5> SUFFICES ASSUME NEW j \in Repeating, j <= m PROVE Beats(i, j)
          OBVIOUS
        <5>1. CASE j = m
          <6>1. Seen(m) \in Nat /\ Seen(i) \in Nat /\ ~(Seen(m) > Seen(i)) /\ i <= m
            BY <1>3, <3>3, <3>5, <3>7, <5>1
          <6>2. \A a, c \in Nat : ~(a > c) => a < c \/ a = c
            OBVIOUS
          <6>3. Seen(m) < Seen(i) \/ Seen(m) = Seen(i)
            BY <6>1, <6>2
          <6>4. Beats(i, m)
            BY <6>1, <6>3
          <6> QED
            BY <5>1, <6>4
        <5>2. CASE j <= m - 1
          BY <3>3, <5>2
        <5> QED
          BY <3>4, <5>1, <5>2
      <4> QED
        BY <2>2, <3>5, <4>1
    <3> QED
      BY <3>6, <3>7
  <2>4. CASE ~\E i \in Repeating : i <= m - 1
    <3>1. \A i \in Repeating : i <= m => i = m
      BY <1>2, <2>2, <2>4
    <3>2. m \in Repeating
      BY <2>2, <3>1
    <3>3. Beats(m, m) /\ m <= m
      BY <2>2
    <3>4. Upto(m)
      BY <3>1, <3>2, <3>3
    <3> QED
      BY <2>2, <3>4
  <2> QED
    BY <2>3, <2>4
<1>5. Upto(N)
  <2>1. PICK i \in Repeating : i \in 1..N
    BY <1>2
  <2>2. N \in 1..N /\ i <= N
    BY <2>1
  <2> QED
    BY <1>4, <2>1, <2>2
<1>6. PICK i \in Repeating : \A j \in Repeating : Beats(i, j)
  <2>1. \A j \in Repeating : j <= N
    BY <1>2
  <2> QED
    BY <1>5, <2>1
<1> QED
  BY <1>6 DEF BusiestPlace

LEMMA BufferInitHolds == ASSUME BufferInit PROVE BufferInv
<1>1. MaxClock \in Nat /\ IsFiniteSet(Types)
  BY BufferFacts DEF BufferConstants
<1>2. NoBucket \in Buckets /\ NoBucket.seen = 0
  BY <1>1 DEF NoBucket, NoFrame, Buckets, Stamped
<1>3. BufferTypes
  <2>1. clock \in 0..MaxClock /\ tracked = <<>> /\ Distinct(tracked)
    BY <1>1 DEF BufferInit, Distinct
  <2> QED
    BY <1>2, <2>1 DEF BufferInit, BufferTypes
<1>4. \A k \in Types : k \notin ToSet(tracked) /\ bucket[k] = NoBucket
  BY DEF BufferInit, ToSet
<1>5. received \in [Types -> Int] /\ SeenFrames \in [Types -> Int] /\ lost = 0
      /\ \A k \in Types : received[k] = 0 /\ SeenFrames[k] = 0
  BY <1>2, <1>4 DEF BufferInit, SeenFrames
<1>6. Total(received) = 0 /\ Total(SeenFrames) = 0
  BY <1>1, <1>5, TotalOfNone
<1> QED
  BY <1>3, <1>4, <1>5, <1>6 DEF BufferInv

\* A bucket is replaced, and the frames seen change by what it has seen more.
Replaced(q, p, k, r) ==
    /\ q \in [Types -> Buckets] /\ q[k] = r /\ \A x \in Types : x # k => q[x] = p[x]
    /\ Total([x \in Types |-> p[x].seen]) \in Int
    /\ Total([x \in Types |-> q[x].seen]) = Total([x \in Types |-> p[x].seen]) + (r.seen - p[k].seen)

LEMMA SeenChanges ==
  ASSUME NEW p \in [Types -> Buckets], NEW k \in Types, NEW r \in Buckets,
         NEW q, q = [p EXCEPT ![k] = r]
  PROVE  Replaced(q, p, k, r)
<1>1. q \in [Types -> Buckets] /\ q[k] = r /\ \A x \in Types : x # k => q[x] = p[x]
  OBVIOUS
<1>2. PICK f : f = [x \in Types |-> p[x].seen]
  OBVIOUS
<1>3. PICK g : g = [x \in Types |-> q[x].seen]
  OBVIOUS
<1>4. r.seen \in Int /\ \A x \in Types : p[x].seen \in Int
  BY DEF Buckets
<1>5. f \in [Types -> Int] /\ f[k] = p[k].seen
  BY <1>2, <1>4
<1>6. g = [f EXCEPT ![k] = r.seen]
  <2>1. \A x \in Types : q[x].seen = IF x = k THEN r.seen ELSE f[x]
    BY <1>1, <1>2
  <2>2. [f EXCEPT ![k] = r.seen] = [x \in Types |-> IF x = k THEN r.seen ELSE f[x]]
    BY <1>2
  <2> QED
    BY <1>3, <2>1, <2>2
<1>7. IsFiniteSet(Types)
  BY BufferFacts DEF BufferConstants
<1>8. Total(f) \in Int /\ Total([f EXCEPT ![k] = r.seen]) = Total(f) + (r.seen - f[k])
  BY <1>4, <1>5, <1>7, TotalChanges
<1>9. Total(g) = Total(f) + (r.seen - p[k].seen)
  BY <1>5, <1>6, <1>8
<1> QED
  BY <1>1, <1>2, <1>3, <1>8, <1>9 DEF Replaced

LEMMA HeardFacts ==
  ASSUME BufferTypes, NEW k \in Types, Heard(k)
  PROVE  /\ received' \in [Types -> Nat]
         /\ Total(received) \in Int /\ Total(received') = Total(received) + 1
<1>1. received \in [Types -> Nat] /\ received' = [received EXCEPT ![k] = received[k] + 1]
  BY DEF BufferTypes, Heard
<1>2. PICK p \in [Types -> Int], v \in Int : p = received /\ v = received[k] + 1
  BY <1>1
<1>3. IsFiniteSet(Types)
  BY BufferFacts DEF BufferConstants
<1>4. Total(p) \in Int /\ Total([p EXCEPT ![k] = v]) = Total(p) + (v - p[k])
  BY <1>3, TotalChanges
<1>5. v - p[k] = 1 /\ received' = [p EXCEPT ![k] = v]
  BY <1>1, <1>2
<1> QED
  BY <1>1, <1>2, <1>4, <1>5

\* A bucket and its frames are replaced; nothing else but the lists changes.
LEMMA TrackedStep ==
  ASSUME BufferInv, NEW k \in Types, AddTracked(k)
  PROVE  BufferInv'
<1>1. /\ BufferTypes /\ k \in ToSet(tracked) /\ TypeWhole(bucket[k], since[k]) /\ Heard(k)
      /\ clock \in 0..MaxClock
  BY DEF BufferInv, BufferTypes, AddTracked
<1>2. PICK r : r = Stored(k, bucket[k])
  OBVIOUS
<1>3. TypeWhole(r, since[k] \cup {r.latest}) /\ r.seen = bucket[k].seen + 1
  BY <1>1, <1>2, StoredFacts, Zenon
<1>4. r \in Buckets /\ r.latest \in Stamped /\ bucket[k].seen \in Nat
  BY <1>1, <1>3 DEF TypeWhole, Buckets
<1>5. PICK p \in [Types -> Buckets] : p = bucket
  BY <1>1 DEF BufferTypes
<1>6. bucket' = [p EXCEPT ![k] = r]
  BY <1>2, <1>5 DEF AddTracked
<1>7. PICK q : q = bucket'
  OBVIOUS
<1>8. Replaced(q, p, k, r)
  BY <1>4, <1>6, <1>7, SeenChanges, Zenon
<1>9. since' = [since EXCEPT ![k] = since[k] \cup {r.latest}]
  BY <1>7, <1>8 DEF AddTracked, Replaced
<1>10. /\ since' \in [Types -> SUBSET Stamped] /\ since'[k] = since[k] \cup {r.latest}
       /\ \A x \in Types : x # k => since'[x] = since[x]
  BY <1>1, <1>4, <1>9 DEF BufferTypes
<1>11. UNCHANGED <<clock, tracked, lost>>
  BY DEF AddTracked, countVars
<1>12. received' \in [Types -> Nat] /\ Total(received) \in Int /\ Total(received') = Total(received) + 1
  BY <1>1, HeardFacts
<1>13. BufferTypes'
  BY <1>1, <1>7, <1>8, <1>10, <1>11, <1>12 DEF BufferTypes, Distinct, Replaced
<1>14. ASSUME NEW x \in Types
       PROVE  IF x \in ToSet(tracked') THEN TypeWhole(bucket'[x], since'[x]) ELSE bucket'[x] = NoBucket
  <2>0. ToSet(tracked') = ToSet(tracked)
    BY <1>11
  <2>1. CASE x = k
    BY <1>1, <1>3, <1>7, <1>8, <1>10, <2>0, <2>1 DEF Replaced
  <2>2. CASE x # k
    <3>1. bucket'[x] = bucket[x] /\ since'[x] = since[x]
      BY <1>5, <1>7, <1>8, <1>10, <2>2 DEF Replaced
    <3>2. IF x \in ToSet(tracked) THEN TypeWhole(bucket[x], since[x]) ELSE bucket[x] = NoBucket
      BY DEF BufferInv
    <3> QED
      BY <2>0, <3>1, <3>2
  <2> QED
    BY <2>1, <2>2
<1>15. Total(received') = Total(SeenFrames') + lost'
  <2>1. Total(received) = Total([x \in Types |-> p[x].seen]) + lost /\ lost \in Nat
    BY <1>1, <1>5 DEF BufferInv, SeenFrames, BufferTypes
  <2>2. Total(SeenFrames') = Total([x \in Types |-> q[x].seen])
    BY <1>7 DEF SeenFrames
  <2>3. r.seen - p[k].seen = 1
    BY <1>3, <1>4, <1>5
  <2> QED
    BY <1>8, <1>11, <1>12, <2>1, <2>2, <2>3 DEF Replaced
<1> QED
  BY <1>13, <1>14, <1>15 DEF BufferInv

LEMMA NewFacts ==
  ASSUME clock \in 0..MaxClock, NEW k, NEW r, r = Stored(k, NoBucket)
  PROVE  /\ TypeWhole(r, {r.latest}) /\ r.seen = 1 /\ r \in Buckets /\ {r.latest} \in SUBSET Stamped
         /\ NoBucket \in Buckets /\ NoBucket.seen = 0
<1>1. TypeWhole(r, {r.latest}) /\ r.seen = 1
  BY FirstStored, Zenon
<1>2. r \in Buckets /\ {r.latest} \in SUBSET Stamped
  BY <1>1 DEF TypeWhole
<1>3. MaxClock \in Nat
  BY BufferFacts DEF BufferConstants
<1>4. NoBucket \in Buckets /\ NoBucket.seen = 0
  BY <1>3 DEF NoBucket, NoFrame, Buckets, Stamped
<1> QED
  BY <1>1, <1>2, <1>4

LEMMA AddedType ==
  ASSUME NEW T, NEW s \in Seq(T), Distinct(s), NEW k \in T, k \notin ToSet(s), NEW r, r = Append(s, k)
  PROVE  ListOf(r, T, ToSet(s) \cup {k})
<1>1. PICK N \in Nat : N = Len(s) /\ DOMAIN s = 1..N
  OBVIOUS
<1>2. r \in Seq(T) /\ Len(r) = N + 1 /\ DOMAIN r = 1..(N + 1) /\ r[N + 1] = k /\ \A i \in 1..N : r[i] = s[i]
  BY <1>1, AppendProperties
<1>3. \A i \in 1..(N + 1) : i = N + 1 \/ i \in 1..N
  OBVIOUS
<1>4. \A i \in 1..N : s[i] # k
  BY <1>1 DEF ToSet
<1>5. Distinct(r)
  BY <1>1, <1>2, <1>3, <1>4 DEF Distinct
<1>6. ToSet(r) = ToSet(s) \cup {k}
  <2>1. ASSUME NEW e \in ToSet(r) PROVE e \in ToSet(s) \cup {k}
    BY <1>1, <1>2, <1>3 DEF ToSet
  <2>2. ASSUME NEW e \in ToSet(s) \cup {k} PROVE e \in ToSet(r)
    <3>1. N + 1 \in DOMAIN r /\ \A i \in 1..N : i \in DOMAIN r
      BY <1>2
    <3> QED
      BY <1>1, <1>2, <3>1 DEF ToSet
  <2> QED
    BY <2>1, <2>2
<1> QED
  BY <1>2, <1>5, <1>6 DEF ListOf

LEMMA NewStep ==
  ASSUME BufferInv, NEW k \in Types, AddNew(k)
  PROVE  BufferInv'
<1>1. BufferTypes /\ k \notin ToSet(tracked) /\ bucket[k] = NoBucket /\ Heard(k) /\ clock \in 0..MaxClock
  BY DEF BufferInv, BufferTypes, AddNew
<1>2. PICK r : r = Stored(k, NoBucket)
  OBVIOUS
<1>3. /\ TypeWhole(r, {r.latest}) /\ r.seen = 1 /\ r \in Buckets /\ {r.latest} \in SUBSET Stamped
      /\ NoBucket.seen = 0
  BY <1>1, <1>2, NewFacts, Zenon
<1>4. PICK p \in [Types -> Buckets] : p = bucket
  BY <1>1 DEF BufferTypes
<1>5. PICK q : q = bucket' /\ q = [p EXCEPT ![k] = r]
  BY <1>2, <1>4 DEF AddNew
<1>6. Replaced(q, p, k, r)
  BY <1>3, <1>5, SeenChanges, Zenon
<1>7. since' = [since EXCEPT ![k] = {r.latest}]
  BY <1>5, <1>6 DEF AddNew, Replaced
<1>8. /\ since' \in [Types -> SUBSET Stamped] /\ since'[k] = {r.latest}
      /\ \A x \in Types : x # k => since'[x] = since[x]
  BY <1>1, <1>3, <1>7 DEF BufferTypes
<1>9. UNCHANGED <<clock, lost>> /\ tracked' = Append(tracked, k)
  BY DEF AddNew, countVars
<1>10. tracked' \in Seq(Types) /\ Distinct(tracked') /\ ToSet(tracked') = ToSet(tracked) \cup {k}
  <2>1. PICK s, t : s \in Seq(Types) /\ s = tracked /\ Distinct(s) /\ t = tracked'
    BY <1>1 DEF BufferTypes
  <2>2. k \notin ToSet(s) /\ t = Append(s, k)
    BY <1>1, <1>9, <2>1
  <2>3. ListOf(t, Types, ToSet(s) \cup {k})
    BY <2>1, <2>2, AddedType, Zenon
  <2> QED
    BY <2>1, <2>3 DEF ListOf, Distinct
<1>11. received' \in [Types -> Nat] /\ Total(received) \in Int /\ Total(received') = Total(received) + 1
  BY <1>1, HeardFacts
<1>12. BufferTypes'
  BY <1>1, <1>5, <1>6, <1>8, <1>9, <1>10, <1>11 DEF BufferTypes, Replaced, Distinct
<1>13. ASSUME NEW x \in Types
       PROVE  IF x \in ToSet(tracked') THEN TypeWhole(bucket'[x], since'[x]) ELSE bucket'[x] = NoBucket
  <2>1. CASE x = k
    BY <1>3, <1>5, <1>6, <1>8, <1>10, <2>1 DEF Replaced
  <2>2. CASE x # k
    <3>1. bucket'[x] = bucket[x] /\ since'[x] = since[x]
      BY <1>4, <1>5, <1>6, <1>8, <2>2 DEF Replaced
    <3>2. IF x \in ToSet(tracked) THEN TypeWhole(bucket[x], since[x]) ELSE bucket[x] = NoBucket
      BY DEF BufferInv
    <3> QED
      BY <1>10, <2>2, <3>1, <3>2
  <2> QED
    BY <2>1, <2>2
<1>14. Total(received') = Total(SeenFrames') + lost'
  <2>1. Total(received) = Total([x \in Types |-> p[x].seen]) + lost /\ lost \in Nat
    BY <1>1, <1>4 DEF BufferInv, SeenFrames, BufferTypes
  <2>2. Total(SeenFrames') = Total([x \in Types |-> q[x].seen])
    BY <1>5 DEF SeenFrames
  <2>3. r.seen - p[k].seen = 1
    BY <1>1, <1>3, <1>4
  <2> QED
    BY <1>6, <1>9, <1>11, <2>1, <2>2, <2>3 DEF Replaced
<1> QED
  BY <1>12, <1>13, <1>14 DEF BufferInv

LEMMA EvictingStep ==
  ASSUME BufferInv, NEW k \in Types, AddEvicting(k)
  PROVE  BufferInv'
<1>1. /\ BufferTypes /\ k \notin ToSet(tracked) /\ bucket[k] = NoBucket /\ Heard(k)
      /\ clock \in 0..MaxClock /\ Repeating # {}
  BY DEF BufferInv, BufferTypes, AddEvicting
<1>2. PICK place : place = BusiestPlace /\ place \in Repeating
  BY <1>1, BusiestFacts
<1>3. PICK gone : gone = Busiest /\ gone = tracked[place] /\ place \in DOMAIN tracked
  BY <1>2 DEF Busiest, Repeating
<1>4. gone \in Types /\ gone \in ToSet(tracked) /\ gone # k
  <2>1. tracked \in Seq(Types)
    BY <1>1 DEF BufferTypes
  <2>2. gone \in Types
    BY <1>3, <2>1, ElementOfSeq
  <2> QED
    BY <1>1, <1>3, <2>2 DEF ToSet
<1>5. PICK r : r = Stored(k, NoBucket)
  OBVIOUS
<1>6. /\ TypeWhole(r, {r.latest}) /\ r.seen = 1 /\ r \in Buckets /\ {r.latest} \in SUBSET Stamped
      /\ NoBucket \in Buckets /\ NoBucket.seen = 0
  BY <1>1, <1>5, NewFacts, Zenon
<1>7. PICK p \in [Types -> Buckets] : p = bucket
  BY <1>1 DEF BufferTypes
<1>8. PICK m : m = [p EXCEPT ![gone] = NoBucket]
  OBVIOUS
<1>9. Replaced(m, p, gone, NoBucket)
  BY <1>4, <1>6, <1>8, SeenChanges, Zenon
<1>10. m \in [Types -> Buckets] /\ m[k] = p[k]
  BY <1>4, <1>9 DEF Replaced
<1>11. PICK q : q = bucket' /\ q = [m EXCEPT ![k] = r]
  <2>1. bucket' = [p EXCEPT ![gone] = NoBucket, ![k] = r]
    BY <1>3, <1>5, <1>7 DEF AddEvicting
  <2> QED
    BY <1>8, <2>1
<1>12. Replaced(q, m, k, r)
  BY <1>6, <1>10, <1>11, SeenChanges, Zenon
<1>13. since' = [since EXCEPT ![gone] = {}, ![k] = {r.latest}]
  BY <1>3, <1>11, <1>12 DEF AddEvicting, Replaced
<1>14. /\ since' \in [Types -> SUBSET Stamped] /\ since'[k] = {r.latest}
       /\ \A x \in Types : x # k /\ x # gone => since'[x] = since[x]
  BY <1>1, <1>4, <1>6, <1>13 DEF BufferTypes
<1>15. clock' = clock /\ tracked' = Append(RemoveAt(tracked, place), k) /\ lost' = lost + p[gone].seen
  BY <1>2, <1>3, <1>7 DEF AddEvicting, GivenUp
<1>16. /\ tracked' \in Seq(Types) /\ Distinct(tracked')
       /\ ToSet(tracked') = (ToSet(tracked) \ {gone}) \cup {k}
  <2>1. PICK s, t : s \in Seq(Types) /\ s = tracked /\ Distinct(s) /\ t = tracked'
    BY <1>1 DEF BufferTypes
  <2>2. k \notin ToSet(s) /\ t = Append(RemoveAt(s, place), k) /\ place \in DOMAIN s /\ gone = s[place]
    BY <1>1, <1>3, <1>15, <2>1
  <2>3. ListOf(t, Types, (ToSet(s) \ {s[place]}) \cup {k})
    BY <2>1, <2>2, RemovedFacts, Zenon
  <2> QED
    BY <2>1, <2>2, <2>3 DEF ListOf, Distinct
<1>17. received' \in [Types -> Nat] /\ Total(received) \in Int /\ Total(received') = Total(received) + 1
  BY <1>1, HeardFacts
<1>18. p[gone].seen \in Nat /\ lost \in Nat
  BY <1>1, <1>4 DEF Buckets, BufferTypes
<1>19. BufferTypes'
  <2>1. lost' \in Nat
    BY <1>15, <1>18
  <2> QED
    BY <1>1, <1>11, <1>12, <1>14, <1>15, <1>16, <1>17, <2>1 DEF BufferTypes, Replaced, Distinct
<1>20. ASSUME NEW x \in Types
       PROVE  IF x \in ToSet(tracked') THEN TypeWhole(bucket'[x], since'[x]) ELSE bucket'[x] = NoBucket
  <2>1. CASE x = k
    BY <1>6, <1>11, <1>12, <1>14, <1>16, <2>1 DEF Replaced
  <2>2. CASE x = gone
    BY <1>4, <1>9, <1>11, <1>12, <1>16, <2>2 DEF Replaced
  <2>3. CASE x # k /\ x # gone
    <3>1. bucket'[x] = bucket[x] /\ since'[x] = since[x]
      BY <1>7, <1>9, <1>11, <1>12, <1>14, <2>3 DEF Replaced
    <3>2. IF x \in ToSet(tracked) THEN TypeWhole(bucket[x], since[x]) ELSE bucket[x] = NoBucket
      BY DEF BufferInv
    <3> QED
      BY <1>16, <2>3, <3>1, <3>2
  <2> QED
    BY <2>1, <2>2, <2>3
<1>21. Total(received') = Total(SeenFrames') + lost'
  <2>1. Total(received) = Total([x \in Types |-> p[x].seen]) + lost
    BY <1>7 DEF BufferInv, SeenFrames
  <2>2. Total(SeenFrames') = Total([x \in Types |-> q[x].seen])
    BY <1>11 DEF SeenFrames
  <2>3. r.seen - m[k].seen = 1
    BY <1>1, <1>6, <1>7, <1>10
  <2>4. /\ Total([x \in Types |-> p[x].seen]) \in Int
        /\ Total([x \in Types |-> m[x].seen]) = Total([x \in Types |-> p[x].seen]) + (0 - p[gone].seen)
    BY <1>6, <1>9 DEF Replaced
  <2>5. Total([x \in Types |-> q[x].seen]) = Total([x \in Types |-> m[x].seen]) + 1
    BY <1>12, <2>3 DEF Replaced
  <2>6. PICK a, c, d : /\ a = Total([x \in Types |-> p[x].seen]) /\ c = Total([x \in Types |-> m[x].seen])
                       /\ d = Total([x \in Types |-> q[x].seen])
    OBVIOUS
  <2>7. a \in Int /\ c = a + (0 - p[gone].seen) /\ d = c + 1
    BY <2>4, <2>5, <2>6
  <2>8. d + (lost + p[gone].seen) = a + lost + 1
    BY <1>18, <2>7
  <2>9. Total(received') = a + lost + 1
    BY <1>17, <2>1, <2>6
  <2> QED
    BY <1>15, <2>2, <2>6, <2>8, <2>9
<1> QED
  BY <1>19, <1>20, <1>21 DEF BufferInv

LEMMA DropStep ==
  ASSUME BufferInv, NEW k \in Types, Drop(k)
  PROVE  BufferInv'
<1>1. BufferTypes /\ Heard(k) /\ lost' = lost + 1 /\ UNCHANGED <<clock, tracked, bucket, since>>
  BY DEF BufferInv, Drop
<1>2. received' \in [Types -> Nat] /\ Total(received) \in Int /\ Total(received') = Total(received) + 1
  BY <1>1, HeardFacts
<1>3. lost \in Nat
  BY <1>1 DEF BufferTypes
<1>4. Total(SeenFrames) = Total(received) - lost
  <2>1. PICK p \in [Types -> Buckets] : p = bucket
    BY <1>1 DEF BufferTypes
  <2>2. Total(SeenFrames) \in Int
    <3>1. SeenFrames \in [Types -> Int]
      BY <2>1 DEF SeenFrames, Buckets
    <3>2. Total(SeenFrames) \in Int
      <4>1. PICK f \in [Types -> Int] : f = SeenFrames
        BY <3>1
      <4>2. f[k] \in Int /\ IsFiniteSet(Types)
        BY BufferFacts DEF BufferConstants
      <4>3. Total(f) \in Int
        BY <4>2, TotalChanges
      <4> QED
        BY <4>1, <4>3
    <3> QED
      BY <3>2
  <2>3. Total(received) = Total(SeenFrames) + lost
    BY DEF BufferInv
  <2> QED
    BY <1>2, <1>3, <2>2, <2>3
<1>5. SeenFrames' = SeenFrames
  BY <1>1 DEF SeenFrames
<1>6. Total(received') = Total(SeenFrames') + lost'
  BY <1>1, <1>2, <1>3, <1>4, <1>5
<1>7. BufferTypes'
  BY <1>1, <1>2, <1>3 DEF BufferTypes, Distinct
<1>8. \A x \in Types : IF x \in ToSet(tracked') THEN TypeWhole(bucket'[x], since'[x]) ELSE bucket'[x] = NoBucket
  BY <1>1 DEF BufferInv
<1> QED
  BY <1>6, <1>7, <1>8 DEF BufferInv

LEMMA BufferSame ==
  ASSUME BufferInv, clock' \in 0..MaxClock, UNCHANGED <<tracked, bucket, since, received, lost>>
  PROVE  BufferInv'
<1>1. BufferTypes'
  BY DEF BufferInv, BufferTypes, Distinct
<1>2. \A x \in Types : IF x \in ToSet(tracked') THEN TypeWhole(bucket'[x], since'[x]) ELSE bucket'[x] = NoBucket
  BY DEF BufferInv
<1>3. SeenFrames' = SeenFrames /\ received' = received /\ lost' = lost
  BY DEF SeenFrames
<1>4. Total(received) = Total(SeenFrames) + lost
  BY DEF BufferInv
<1> QED
  BY <1>1, <1>2, <1>3, <1>4 DEF BufferInv

LEMMA BufferStepHolds == BufferInv /\ [BufferNext]_bufferVars => BufferInv'
<1> SUFFICES ASSUME BufferInv, [BufferNext]_bufferVars PROVE BufferInv'
  OBVIOUS
<1>1. ASSUME NEW k \in Types, AddTracked(k) \/ AddNew(k) \/ AddEvicting(k) \/ Drop(k) PROVE BufferInv'
  BY <1>1, TrackedStep, NewStep, EvictingStep, DropStep
<1>2. ASSUME NEW to \in 0..MaxClock, ClockMoves(to) PROVE BufferInv'
  BY <1>2, BufferSame DEF ClockMoves, countVars
<1>3. CASE UNCHANGED bufferVars
  <2>1. clock \in 0..MaxClock
    BY DEF BufferInv, BufferTypes
  <2> QED
    BY <1>3, <2>1, BufferSame DEF bufferVars, countVars
<1> QED
  BY <1>1, <1>2, <1>3 DEF BufferNext

\* Every type is recorded whole: its budget holds, its first and its newest frame are kept
\* and a frame of every slot it was heard in, and every frame is counted once, for every
\* number of types and frames, every budget and every way the clock jumps.
THEOREM RecordingIsWhole == BufferSpec => []RecordingWhole
<1>1. BufferInit => BufferInv
  BY BufferInitHolds
<1>2. BufferInv => RecordingWhole
  <2> SUFFICES ASSUME BufferInv PROVE RecordingWhole
    OBVIOUS
  <2>1. ASSUME NEW k \in ToSet(tracked)
        PROVE  /\ Len(bucket[k].samples) <= SamplesMax
               /\ \E frame \in Kept(k) : frame.n = 1
               /\ \A frame \in since[k] \ {bucket[k].latest} :
                     \E sample \in ToSet(bucket[k].samples) :
                         Slot(sample, bucket[k]) = Slot(frame, bucket[k])
    <3>1. k \in Types
      <4>1. tracked \in Seq(Types)
        BY DEF BufferInv, BufferTypes
      <4>2. PICK i \in DOMAIN tracked : k = tracked[i]
        BY DEF ToSet
      <4> QED
        BY <4>1, <4>2, ElementOfSeq
    <3>2. PICK b, F : b = bucket[k] /\ F = since[k] /\ TypeWhole(b, F)
      BY <3>1 DEF BufferInv
    <3>3. b.samples \in Seq(Stamped) /\ Len(b.samples) <= SamplesMax
      BY <3>2 DEF TypeWhole, Buckets
    <3>4. CASE Len(b.samples) = 0
      <4>1. b.latest.n = 1 /\ F \ {b.latest} = {}
        BY <3>2, <3>4 DEF TypeWhole
      <4> QED
        BY <3>2, <3>3, <4>1 DEF Kept
    <3>5. CASE Len(b.samples) # 0
      <4>1. History(b, F \ {b.latest})
        BY <3>2, <3>5 DEF TypeWhole
      <4>2. 1 \in DOMAIN b.samples /\ b.samples[1].n = 1
        BY <3>3, <4>1 DEF History
      <4>3. \E frame \in Kept(k) : frame.n = 1
        BY <3>2, <4>2 DEF Kept, ToSet
      <4>4. \A f \in F \ {b.latest} : \E i \in DOMAIN b.samples : Slot(b.samples[i], b) = Slot(f, b)
        BY <4>1 DEF History
      <4>5. \A i \in DOMAIN b.samples : b.samples[i] \in ToSet(b.samples)
        BY DEF ToSet
      <4> QED
        BY <3>2, <3>3, <4>3, <4>4, <4>5
    <3> QED
      BY <3>4, <3>5
  <2>2. Total(received) = Total([k \in Types |-> bucket[k].seen]) + lost
    BY DEF BufferInv, SeenFrames
  <2> QED
    BY <2>1, <2>2 DEF RecordingWhole
<1> QED
  BY <1>1, <1>2, BufferStepHolds, PTL DEF BufferSpec

-----------------------------------------------------------------------------
(* The composition: a step of one part leaves the variables of the others.     *)

\* Every behaviour of DeviceReads is one of each of its parts.
THEOREM PartsAsAlone ==
  ReadsSpec => SurplusSpec /\ AvailabilitySpec /\ BufferSpec /\ ControlSpec /\ ReadingsSpec
<1>1. ReadsInit => SurplusInit /\ AvailabilityInit /\ BufferInit /\ ControlInit /\ ReadingsInit
  BY DEF ReadsInit
<1>2. [ReadsNext]_readsVars =>
        /\ [SurplusNext]_surplusVars /\ [AvailabilityNext]_availabilityVars
        /\ [BufferNext]_bufferVars /\ [ControlNext]_controlVars /\ [ReadingsNext]_readingsVars
  <2> SUFFICES ASSUME [ReadsNext]_readsVars
               PROVE  /\ SurplusNext \/ UNCHANGED surplusVars
                      /\ AvailabilityNext \/ UNCHANGED availabilityVars
                      /\ BufferNext \/ UNCHANGED bufferVars
                      /\ ControlNext \/ UNCHANGED controlVars
                      /\ ReadingsNext \/ UNCHANGED readingsVars
    OBVIOUS
  <2>1. CASE UNCHANGED readsVars
    BY <2>1 DEF readsVars
  <2>2. CASE ReadsNext
    BY <2>2 DEF ReadsNext, SurplusStep, AvailabilityStep, FramesStep, ControlStep, ReadingsStep,
                EntityStep
  <2> QED
    BY <2>1, <2>2
<1> QED
  BY <1>1, <1>2, PTL DEF ReadsSpec, SurplusSpec, AvailabilitySpec, BufferSpec, ControlSpec, ReadingsSpec

\* So the safety properties of the parts hold of what the run checks.
THEOREM ReadsSafe ==
  ReadsSpec => []SyncGivesUp /\ []AvailabilityHonest /\ []RecordingWhole /\ []SwitchHonest
               /\ []NoticesJustified /\ MeterNeverFalls
  BY PartsAsAlone, SurplusSyncGivesUp, AvailabilityIsHonest, RecordingIsWhole, SwitchIsHonest,
     NoticesAreTrue, MeterFallsOnlyAccepted
=============================================================================
