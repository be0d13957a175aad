--------------------------- MODULE ConfirmedWrites ---------------------------
(* The writes that end only when a report shows them.  They share the one      *)
(* _pending_write, its lock and the shutdown (core.PendingDeviceWrite): the    *)
(* settings queue of a wallbox (SettingsQueue), its immediate writes           *)
(* (WallboxActions) and those of the heating rods behind a PowerOcean          *)
(* (RodWrites).  A behaviour follows one of them.                              *)
EXTENDS SettingsQueue

CONSTANTS
    Levels,                     \* values of a current, a power or a temperature
    Rods,
    PromptFrames,               \* of ReadBack
    LateWrites                  \* of RodWrites

ASSUME ConfirmedAssumption == PromptFrames \in BOOLEAN /\ LateWrites \in BOOLEAN

VARIABLES
    followed,                                                     \* the path followed
    since,                                                        \* ReadBack
    oceans, gone, wallbox, beat, asked, frames, shown, young, ownSeen,  \* WallboxActions
    present, rods, toRod, fromRod, last, chosen                   \* RodWrites

recordVars == <<call, pending, resolved, sender, shutdown>>
queueVars == <<tickets, newest, reportVars, boxVars, confirmed>>
pressVars == <<oceans, gone, wallbox, beat, asked, frames, shown, young, ownSeen>>
rodVars == <<present, rods, toRod, fromRod, last, chosen>>
confirmedVars == <<followed, recordVars, queueVars, since, pressVars, rodVars>>

Press == INSTANCE WallboxActions WITH
    Amps <- Levels, MaxToBox <- MaxReports, MaxFromBox <- MaxReports,
    slot <- pending, stopped <- shutdown, box <- wallbox, toBox <- asked, fromBox <- frames
Rod == INSTANCE RodWrites WITH
    Targets <- Levels, MaxToRod <- MaxReports, MaxFromRod <- MaxReports,
    slot <- pending, stopped <- shutdown, shown <- last

\* The variables of the paths not followed keep one value.
QueueAtRest ==
    /\ tickets = {} /\ newest = <<>> /\ report = <<>> /\ reportOld = TRUE
    /\ reportSince = FALSE /\ box = <<>> /\ toBox = <<>> /\ reports = <<>> /\ confirmed = <<>>
PressesAtRest ==
    /\ oceans = 0 /\ gone = FALSE /\ wallbox = <<>> /\ beat = "fast" /\ asked = <<>>
    /\ frames = <<>> /\ shown = "charging" /\ young = FALSE /\ ownSeen = FALSE
RodsAtRest ==
    /\ present = {} /\ rods = <<>> /\ toRod = <<>> /\ fromRod = <<>>
    /\ last = <<>> /\ chosen = {}

ConfirmedInit ==
    \/ followed = "settings" /\ Init /\ since = {} /\ PressesAtRest /\ RodsAtRest
    \/ followed = "presses" /\ Press!WallboxInit /\ QueueAtRest /\ RodsAtRest
    \/ followed = "rods" /\ Rod!RodInit /\ QueueAtRest /\ PressesAtRest

SettingsStep ==
    followed = "settings" /\ Next /\ UNCHANGED <<followed, since, pressVars, rodVars>>
PressStep ==
    followed = "presses" /\ Press!WallboxNext /\ UNCHANGED <<followed, queueVars, rodVars>>
RodStep ==
    followed = "rods" /\ Rod!RodNext /\ UNCHANGED <<followed, queueVars, pressVars>>
ConfirmedNext == SettingsStep \/ PressStep \/ RodStep

ConfirmedSpec == ConfirmedInit /\ [][ConfirmedNext]_confirmedVars

-----------------------------------------------------------------------------
\* ReadBack: a record never outlives its call, and no two writes are out at once.
RecordHasCall == followed # "settings" => Press!RecordHasCall
\* WallboxActions: a press that is reported done happened.
PressHappened == followed = "presses" => Press!PressHappened
\* RodWrites: a write reported done was taken by the rod it was addressed to.
RodTookIt == followed = "rods" => Rod!RodTookIt
\* SettingsQueue: a switch the user saw confirmed stays until it is turned again;
\* RodWrites: the operating mode that was confirmed is what the one rod does.
ConfirmedStands ==
    /\ followed = "settings" => ConfirmedStays
    /\ followed = "rods" => Rod!ChoiceStands
=============================================================================
