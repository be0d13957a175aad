----------------------------- MODULE SurplusSync -----------------------------
(* The surplus auto-sync of a PowerOcean (coordinator/state_apply.py).  The    *)
(* app's slider reaches the device but not the EMS inside it; so when the      *)
(* app's value and the EMS's differ, the coordinator writes the app's value to *)
(* both.  An EMS that never takes a value must not be written to for good, and *)
(* an echo the user has superseded in Home Assistant must not be written.      *)
(*                                                                             *)
(* Frames of the two kinds come as the device likes: an echo of the slider     *)
(* (EmsParamChangeReport) after each change of it, in order, and reports of    *)
(* the EMS at any time with any value (two units of a pair share the key).     *)
(* The backup limit the write carries along is taken as reported.              *)
EXTENDS Naturals, Sequences, FiniteSets

CONSTANTS
    Percents,    \* values of the slider and of the EMS
    Unknown,     \* None, or not reported yet
    MaxWrites,   \* _SURPLUS_SYNC_MAX_WRITES
    MaxWay,      \* bound on the frames on their way, each direction
    EchoPrompt   \* the echo of a user's write is back within the grace period

ASSUME SurplusAssumption ==
    /\ IsFiniteSet(Percents) /\ Unknown \notin Percents
    /\ MaxWrites \in Nat \ {0}

VARIABLES
    slider,      \* the app's slider, in the device
    toDevice,    \* writes on their way: a value, and whether the user's
    echoes,      \* echoes on their way: a value, and whether superseded
    app, ems,    \* ems_app_surplus_pct, ems_backup_ratio_pct
    record,      \* _surplus_sync_record: its app value and writes_by_ems
    echoed,      \* _last_ems_param_change_ts: "never", "before" or "after" the
                 \* user's latest setting
    cool,        \* APP_SURPLUS_SYNC_MIN_INTERVAL_S is over
    grace,       \* APP_SURPLUS_SYNC_USER_GRACE_S is over
    appOld,      \* history: app holds a value the user has superseded
    intent,      \* history: the latest value the app or the user asked for
    spent        \* history: sync writes since

storeVars == <<app, ems, appOld>>
syncVars == <<record, cool, intent, spent>>
surplusVars == <<slider, toDevice, echoes, storeVars, syncVars, echoed, grace>>

NoWrites == [e \in Percents |-> 0]
NoRecord == [app |-> Unknown, writes |-> NoWrites]
WithRoom(way) == Len(way) < MaxWay

SurplusInit ==
    /\ slider \in Percents /\ toDevice = <<>> /\ echoes = <<>>
    /\ app = Unknown /\ ems = Unknown /\ appOld = FALSE
    /\ record = NoRecord /\ echoed = "never" /\ cool = TRUE /\ grace = TRUE
    /\ intent = Unknown /\ spent = 0

ForgetConverged(rec) == IF app' = ems' THEN NoRecord ELSE rec    \* (faulty)
\* Converged or not, the counts stay: an EMS may take a value and drop it again.
KeepConverged(rec) == rec

TrustsAnyEcho == TRUE                      \* (faulty)
\* An echo from before the user's setting is not acted on, nor one right after it.
EchoCounts == echoed' = "after" /\ grace

\* _maybe_schedule_surplus_sync, at the end of every frame.
Sync ==
    LET known == app' # Unknown /\ ems' # Unknown
        rec == IF known /\ record.app # app' THEN NoRecord ELSE record
        writes == rec.writes[ems']
    IN  IF known /\ app' # ems' /\ writes < MaxWrites /\ EchoCounts /\ cool /\ WithRoom(toDevice)
          THEN /\ record' = [app |-> app', writes |-> [rec.writes EXCEPT ![ems'] = @ + 1]]
               /\ toDevice' = Append(toDevice, [value |-> app', user |-> FALSE])
               /\ cool' = FALSE
               /\ intent' = app'
               /\ spent' = IF app' = intent THEN spent + 1 ELSE 1
          ELSE /\ record' = IF known THEN KeepConverged(rec) ELSE rec
               /\ intent' = IF app' = Unknown THEN intent ELSE app'
               /\ spent' = IF intent' = intent THEN spent ELSE 0
               /\ UNCHANGED <<toDevice, cool>>

\* A 96/13 frame; a value the EMS never populated reads as unknown.
EchoArrives ==
    /\ echoes # <<>> /\ echoes' = Tail(echoes)
    /\ app' \in {Head(echoes).value, Unknown}
    /\ appOld' = Head(echoes).old
    /\ echoed' = "after"
    /\ UNCHANGED <<slider, ems, grace>>
    /\ Sync

\* _resolve_surplus_source: field 352 stands in until the first echo ever.
FieldArrives ==
    /\ IF echoed = "never"
         THEN app' \in {slider, Unknown} /\ appOld' = (app' # Unknown /\ toDevice # <<>>)
         ELSE UNCHANGED <<app, appOld>>
    /\ UNCHANGED <<slider, echoes, ems, echoed, grace>>
    /\ Sync

EmsReports(value) ==
    /\ ems' = value
    /\ UNCHANGED <<slider, echoes, app, appOld, echoed, grace>>
    /\ Sync

-----------------------------------------------------------------------------
\* A slider set in Home Assistant: mark_user_surplus_set, then the write.
UserSets(value) ==
    /\ WithRoom(toDevice)
    /\ toDevice' = Append(toDevice, [value |-> value, user |-> TRUE])
    /\ app' = value /\ appOld' = FALSE
    /\ echoes' = [i \in DOMAIN echoes |-> [echoes[i] EXCEPT !.old = TRUE]]
    /\ echoed' = IF echoed = "never" THEN "never" ELSE "before"
    /\ grace' = FALSE /\ record' = NoRecord
    /\ intent' = value /\ spent' = 0
    /\ UNCHANGED <<slider, ems, cool>>

UserWriteUnder(way) == \E i \in DOMAIN way : way[i].user

\* The device echoes every change of the slider.
DeviceTakes ==
    /\ toDevice # <<>> /\ WithRoom(echoes)
    /\ slider' = Head(toDevice).value /\ toDevice' = Tail(toDevice)
    /\ echoes' = Append(echoes, [value |-> slider', old |-> UserWriteUnder(toDevice')])
    /\ UNCHANGED <<storeVars, syncVars, echoed, grace>>

AppMoves(value) ==
    /\ WithRoom(echoes) /\ slider' = value
    /\ echoes' = Append(echoes, [value |-> value, old |-> UserWriteUnder(toDevice)])
    /\ UNCHANGED <<toDevice, storeVars, syncVars, echoed, grace>>

CoolsDown ==
    /\ ~cool /\ cool' = TRUE
    /\ UNCHANGED <<slider, toDevice, echoes, storeVars, record, intent, spent, echoed, grace>>

GraceEnds ==
    /\ ~grace /\ grace' = TRUE
    /\ EchoPrompt => ~appOld /\ ~UserWriteUnder(toDevice) /\ \A i \in DOMAIN echoes : ~echoes[i].old
    /\ UNCHANGED <<slider, toDevice, echoes, storeVars, syncVars, echoed>>

SurplusNext ==
    \/ EchoArrives \/ FieldArrives \/ DeviceTakes \/ CoolsDown \/ GraceEnds
    \/ \E value \in Percents : EmsReports(value) \/ UserSets(value) \/ AppMoves(value)

SurplusSpec == SurplusInit /\ [][SurplusNext]_surplusVars

-----------------------------------------------------------------------------
\* An EMS that never settles on the app's value is written to a bounded number of
\* times per value asked for, whatever it reports in between, an alternating pair of
\* units included (ADR-013 in _maybe_schedule_surplus_sync).
SyncGivesUp == spent <= MaxWrites * Cardinality(Percents)

\* The auto-sync never writes a value the user has left in Home Assistant ("dragging
\* HA back to the value the user just left").
NeverDragsBack ==
    [][\A i \in DOMAIN toDevice' :
          i > Len(toDevice) /\ ~toDevice'[i].user => ~appOld']_surplusVars
=============================================================================
