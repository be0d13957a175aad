---------------------------- MODULE LocalReadings ----------------------------
(* The polls of a local PowerOcean (coordinator/local_modbus.py, repairs.py,   *)
(* sensor.py): availability, the check of the serial number, a lifetime        *)
(* counter that may not fall, a setting that is confirmed by reading it back,  *)
(* and the notices in Home Assistant's repairs registry, which outlive the     *)
(* coordinator.                                                                *)
(*                                                                             *)
(* A poll of a device with a fault asks for the fault list on a second         *)
(* connection, with its own readings already taken.                            *)
EXTENDS Integers

CONSTANTS
    Top,           \* bound on the counter
    Settings,      \* the values of the setting
    None,          \* nothing read yet
    Failures       \* LOCAL_MODBUS_FAILURES_UNAVAILABLE

ASSUME ReadingsAssumption == Top \in Nat /\ Failures \in Nat \ {0} /\ None \notin Settings

Nothing == -1      \* no value of the counter

VARIABLES
    run,           \* the entry: "down", "setup" (before its entities), "running"
    counter,       \* _device_data of the counter, or Nothing
    setting,       \* _device_data of the setting, or None
    floor,         \* _counter_floor
    dropping,      \* _held_counters: "no", "new" or "old" (a day), with ...
    dropped,       \*   ... the latest dropped reading
    noticed,       \* _notice_placeholders knows the counter
    failures, available, verified,
    silence,       \* _unavailable_since: "no", "new" or "long"
    raised,        \* _outage_notice_raised
    unsure,        \* _outage_notice_stale_check
    poll,          \* readings of a poll that waits for its fault list
    heldNotice,    \* registry: "none", "open" or "ignored"
    outageNotice,  \* registry: the device is not answering
    form,          \* the repair form is open
    shown,         \* the state Home Assistant has for the counter
    device,        \* its counter, setting and whether it has a fault
    answered       \* history: a poll has succeeded since the outage notice was raised

runVars == <<counter, setting, floor, dropping, dropped, noticed>>
pollVars == <<failures, available, verified, silence, raised, unsure, outageNotice, answered>>
registry == <<heldNotice, form>>
readingsVars == <<run, runVars, pollVars, poll, registry, shown, device>>

NoPoll == [counter |-> Nothing, setting |-> None]
Larger(a, b) == IF a > b THEN a ELSE b

Fresh ==
    /\ counter' = Nothing /\ setting' = None /\ floor' = 0
    /\ dropping' = "no" /\ dropped' = Nothing /\ noticed' = FALSE
    /\ failures' = 0 /\ available' = TRUE /\ verified' = FALSE
    /\ silence' = "no" /\ raised' = FALSE /\ unsure' = TRUE

ReadingsInit ==
    /\ run = "down"
    /\ counter = Nothing /\ setting = None /\ floor = 0
    /\ dropping = "no" /\ dropped = Nothing /\ noticed = FALSE
    /\ failures = 0 /\ available = TRUE /\ verified = FALSE
    /\ silence = "no" /\ raised = FALSE /\ unsure = TRUE
    /\ poll = NoPoll /\ heldNotice = "none" /\ outageNotice = FALSE /\ form = FALSE
    /\ shown = Nothing /\ answered = TRUE
    /\ device \in [counter : {0}, setting : Settings, fault : BOOLEAN]

\* __init__: nothing is remembered but what Home Assistant keeps.
Start ==
    /\ run = "down" /\ run' = "setup" /\ Fresh
    /\ UNCHANGED <<poll, registry, outageNotice, answered, shown, device>>

-----------------------------------------------------------------------------
LowestKnown == counter                     \* (faulty: forgets the restored value)
\* The lowest a reading may be: the last published or the restored value.
Lowest == Larger(Larger(counter, 0), floor)

\* What the entity shows: the reading, else what it was restored with.
ShownWith(value) == IF run = "setup" THEN shown ELSE IF value = Nothing THEN shown ELSE value

\* _hold_counters, the update of the store and _sync_held_notices.
Apply(r) ==
    LET low == r.counter < Lowest
        kept == IF low THEN counter ELSE r.counter
        since == IF ~low THEN "no" ELSE IF dropping = "no" THEN "new" ELSE dropping
    IN  /\ counter' = kept /\ setting' = r.setting
        /\ dropping' = since /\ dropped' = IF low THEN r.counter ELSE Nothing
        /\ noticed' = (since = "old")
        /\ heldNotice' = CASE since = "old" -> IF heldNotice = "ignored" THEN "ignored" ELSE "open"
                           [] since # "old" /\ noticed -> "none"
                           [] OTHER -> heldNotice
        /\ shown' = ShownWith(kept)
        /\ UNCHANGED <<floor, form, device, run>>

RaisedHere == raised                       \* (faulty: only what this run raised)
\* An answer ends the outage notice, whoever raised it.
MayBeRaised == ~available \/ unsure

\* _handle_success
Succeeds ==
    /\ failures' = 0 /\ available' = TRUE /\ verified' = TRUE /\ silence' = "no"
    /\ outageNotice' = (outageNotice /\ ~MayBeRaised)
    /\ unsure' = FALSE /\ raised' = FALSE /\ answered' = TRUE

\* A reading may be wrong, and lower than the device's counter.
PollAnswered ==
    /\ run = "running" \/ (run = "setup" /\ counter = Nothing)
    /\ poll = NoPoll
    /\ Succeeds
    /\ \E c \in 0..device.counter :
          LET r == [counter |-> c, setting |-> device.setting]
          IN  IF device.fault
                THEN poll' = r /\ UNCHANGED <<run, runVars, registry, shown, device>>
                ELSE Apply(r) /\ UNCHANGED poll

\* The fault list was read or refused; the poll's own readings are applied.
FaultsRead ==
    /\ poll # NoPoll /\ Apply(poll) /\ poll' = NoPoll
    /\ UNCHANGED pollVars

\* _handle_failure: "silent", or an answer that is a refusal or a wrong serial.
PollFails(kind) ==
    /\ run = "running" /\ poll = NoPoll
    /\ kind = "stranger" => ~verified
    /\ failures' = IF failures < Failures THEN failures + 1 ELSE failures
    /\ available' = (available /\ failures' < Failures)
    /\ verified' = (verified /\ ~(available /\ ~available'))
    /\ LET out == CASE kind # "silent" -> "no"
                    [] kind = "silent" /\ ~available' /\ silence = "no" -> "new"
                    [] OTHER -> silence
           tell == ~available' /\ out = "long" /\ ~raised
       IN  /\ silence' = out
           /\ raised' = (raised \/ tell)
           /\ outageNotice' = (outageNotice \/ tell)
           /\ answered' = (answered /\ ~tell)
    /\ UNCHANGED <<run, runVars, unsure, poll, registry, shown, device>>

\* The first refresh failed: Home Assistant tries the setup again later.
SetupFails ==
    /\ run = "setup" /\ counter = Nothing /\ poll = NoPoll
    /\ run' = "down"
    /\ UNCHANGED <<runVars, pollVars, poll, registry, shown, device>>

-----------------------------------------------------------------------------
\* seed_energy_total: a first reading below the restored value is withdrawn.
Seeds(restored) ==
    /\ floor' = Larger(restored, floor)
    /\ counter' = IF counter # Nothing /\ counter < floor' THEN Nothing ELSE counter

\* The entities are added once the first poll is in; they restore their state.
EntitiesAdded ==
    /\ run = "setup" /\ counter # Nothing
    /\ run' = "running"
    /\ IF shown = Nothing THEN UNCHANGED <<floor, counter>> ELSE Seeds(shown)
    /\ shown' = IF counter' = Nothing THEN shown ELSE counter'
    /\ UNCHANGED <<setting, dropping, dropped, noticed, pollVars, poll, registry, device>>

OpenForm ==
    /\ heldNotice = "open" /\ form' = TRUE
    /\ UNCHANGED <<run, runVars, pollVars, poll, heldNotice, shown, device>>

\* async_step_confirm with accept_device_counter; the notice goes with the form.
Submit ==
    /\ form /\ form' = FALSE /\ heldNotice' = "none"
    /\ IF run = "running" /\ dropping # "no"
         THEN /\ floor' = dropped /\ counter' = dropped /\ shown' = dropped
              /\ dropping' = "no" /\ dropped' = Nothing
         ELSE UNCHANGED <<floor, counter, shown, dropping, dropped>>
    /\ UNCHANGED <<run, setting, noticed, pollVars, poll, device>>

Ignore ==
    /\ heldNotice = "open" /\ heldNotice' = "ignored"
    /\ UNCHANGED <<run, runVars, pollVars, poll, form, shown, device>>

\* _close keeps the outage notice and an ignored one.
Unload ==
    /\ run = "running" /\ run' = "down" /\ noticed' = FALSE /\ poll' = NoPoll
    /\ heldNotice' = IF heldNotice = "open" THEN "none" ELSE heldNotice
    /\ UNCHANGED <<counter, setting, floor, dropping, dropped, pollVars, form, shown, device>>

\* async_write_register: written, then read back with nothing in between but
\* other readers; shown is what the device holds.
WriteSetting ==
    /\ run = "running"
    /\ \E v \in Settings : device' = [device EXCEPT !.setting = v] /\ setting' = v
    /\ UNCHANGED <<run, counter, floor, dropping, dropped, noticed, pollVars, poll, registry, shown>>

\* Time: a day of dropped readings, half an hour of silence.
TimePasses ==
    /\ \/ dropping = "new" /\ dropping' = "old" /\ UNCHANGED silence
       \/ silence = "new" /\ silence' = "long" /\ UNCHANGED dropping
    /\ UNCHANGED <<run, counter, setting, floor, dropped, noticed, failures, available,
                   verified, raised, unsure, outageNotice, answered, poll, registry, shown, device>>

\* The counter grows, or is reset by the inverter; a fault comes and goes.
DeviceMoves ==
    /\ \/ device.counter < Top /\ device' = [device EXCEPT !.counter = @ + 1]
       \/ device.counter > 0 /\ device' = [device EXCEPT !.counter = 0]
       \/ device' = [device EXCEPT !.fault = ~@]
    /\ UNCHANGED <<run, runVars, pollVars, poll, registry, shown>>

ReadingsNext ==
    \/ Start \/ PollAnswered \/ FaultsRead \/ SetupFails \/ EntitiesAdded
    \/ \E kind \in {"silent", "refused", "stranger"} : PollFails(kind)
    \/ OpenForm \/ Submit \/ Ignore \/ Unload \/ WriteSetting \/ TimePasses \/ DeviceMoves

ReadingsSpec == ReadingsInit /\ [][ReadingsNext]_readingsVars

-----------------------------------------------------------------------------
\* What Home Assistant shows of a lifetime counter falls only when the owner accepts
\* the device's reading, over any number of restarts and wrong readings.
MeterNeverFalls == [][shown' < shown => Submit]_readingsVars

\* A notice stands only as long as it is true: the outage notice until a poll succeeds,
\* in this run or the next, and the counter's while its readings are being dropped or
\* until the next poll.
NoticesJustified ==
    /\ outageNotice /\ run = "running" => ~answered
    /\ heldNotice = "open" => run = "running" /\ noticed
=============================================================================
