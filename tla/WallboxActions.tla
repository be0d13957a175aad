---------------------------- MODULE WallboxActions ----------------------------
(* The immediate writes of a PowerPulse 2 (coordinator/set_commands.py,        *)
(* state_apply.py): start, stop, the charge mode, and the charge current (on   *)
(* the wallbox's own channel) or maximum current (through the PowerOcean).     *)
(* The wallbox reports its mode twice: in its heartbeat, which may lag, and in *)
(* its settings report, which a PowerOcean may relay.                          *)
EXTENDS ReadBack

CONSTANTS
    Amps,           \* values of the current
    MaxToBox,       \* bound on the frames under way to the wallbox
    MaxFromBox      \* bound on the frames under way from it

\* suspended_charger counts as charging.
Statuses == {"available", "preparing", "charging", "finishing"}
Modes == {"fast", "solar"}
Actions == {"start", "stop"}

VARIABLES
    oceans,     \* PowerOceans in the entry: 0, 1 or 2 (for two or more)
    gone,       \* the entry's table of coordinators is popped (unload)
    box,        \* the wallbox: status, mode, amps
    beat,       \* the mode its heartbeat carries
    toBox,      \* writes under way to it
    fromBox,    \* frames under way from it
    shown,      \* _device_data: ev_charge_status
    young,      \* _settings_report is at most POWERPULSE2_SETTINGS_MAX_AGE_S old
    ownSeen     \* _own_settings_report_seen

boxVars == <<box, beat, toBox, fromBox>>
viewVars == <<shown, young, ownSeen>>
wallboxVars == <<slotVars, oceans, gone, boxVars, viewVars>>

WallboxInit ==
    /\ SlotInit
    /\ oceans \in {0, 1, 2} /\ gone = FALSE
    /\ box \in [status : Statuses, mode : Modes, amps : Amps] /\ beat = box.mode
    /\ toBox = <<>> /\ fromBox = <<>>
    /\ shown = box.status
    /\ young = FALSE /\ ownSeen = FALSE

\* charge_action_route
OwnRoute == ~gone /\ oceans = 0
SiblingRoute == ~gone /\ oceans = 1

\* POWERPULSE2_CHARGE_ACTION_PRECONDITION, POWERPULSE2_CHARGE_ACTION_CONFIRMED
MayActFrom(action) == IF action = "start" THEN {"finishing", "preparing"} ELSE {"charging"}
ConfirmsAction(action) == IF action = "start" THEN {"charging"} ELSE {"finishing", "available"}

\* What shows the write a call asked for.
Confirming(asked) ==
    IF asked.key = "status" THEN ConfirmsAction(asked.want) ELSE {asked.want}

\* Nothing the wallbox sent before now can still arrive and be believed.
Settled == fromBox = <<>> /\ (beat = box.mode \/ young)

Publishes(c, key, want) ==
    /\ MayPublish(c)
    /\ PromptFrames => Settled
    /\ Len(toBox) < MaxToBox
    /\ Records(c, [at |-> "sending", key |-> key, want |-> want], box[key])
    /\ toBox' = Append(toBox, [key |-> key, want |-> want])
    /\ UNCHANGED <<stopped, oceans, gone, box, beat, fromBox, viewVars>>

\* Start and stop leave on either route, from the states shown that allow them.
ChargeAction(c, action) ==
    /\ OwnRoute \/ SiblingRoute
    /\ shown \in MayActFrom(action)
    /\ Publishes(c, "status", action)

\* The maximum current and the mode have a command through the PowerOcean only,
\* the charge current on the wallbox's own channel only.
MaxCurrent(c, amps) == SiblingRoute /\ Publishes(c, "amps", amps)
ChargeCurrent(c, amps) == OwnRoute /\ Publishes(c, "amps", amps)
ChargeMode(c, mode) == SiblingRoute /\ Publishes(c, "mode", mode)

Progress(c) ==
    /\ Delivered(c) \/ NotDelivered(c) \/ Unconfirmed(c) \/ Cancelled(c)
       \/ (Confirmed(c) /\ Ends(c))
    /\ UNCHANGED <<oceans, gone, boxVars, viewVars>>

-----------------------------------------------------------------------------
(* The wallbox.                                                                *)

\* The wallbox moves: what it is now counts for the write that waits.
Moves(new) ==
    /\ box' = new
    /\ since' = IF slot = NoCall THEN since ELSE since \cup {new[call[slot].key]}

Taken(w) ==
    CASE w.want = "start" -> [box EXCEPT !.status = "charging"]
      [] w.want = "stop" -> [box EXCEPT !.status = IF @ = "charging" THEN "finishing" ELSE @]
      [] OTHER -> [box EXCEPT ![w.key] = w.want]

BoxTakes ==
    /\ toBox # <<>>
    /\ Moves(Taken(Head(toBox))) /\ toBox' = Tail(toBox)
    /\ UNCHANGED <<call, slot, resolved, sender, stopped, oceans, gone, beat, fromBox, viewVars>>

BoxLoses ==
    /\ toBox # <<>>
    /\ toBox' = Tail(toBox)
    /\ UNCHANGED <<slotVars, oceans, gone, box, beat, fromBox, viewVars>>

\* The car, or the owner in the app.
OwnerActs ==
    /\ \/ \E s \in Statuses : Moves([box EXCEPT !.status = s])
       \/ \E m \in Modes : Moves([box EXCEPT !.mode = m])
    /\ UNCHANGED <<call, slot, resolved, sender, stopped, oceans, gone, beat, toBox, fromBox,
                   viewVars>>

BeatFollows ==
    /\ beat # box.mode /\ beat' = box.mode
    /\ UNCHANGED <<slotVars, oceans, gone, box, toBox, fromBox, viewVars>>

\* Its heartbeat; its settings report, on its own channel or relayed; without a
\* PowerOcean only the parameter report, which has no settings block.
Frames ==
    [kind : {"heartbeat"}, own : {TRUE}, status : {box.status}, mode : {beat}] \cup
    IF oceans = 0 THEN [kind : {"parameters"}, own : {TRUE}, amps : {box.amps}]
    ELSE [kind : {"settings"}, own : BOOLEAN, amps : {box.amps}, mode : {box.mode}]

BoxReports ==
    /\ Len(fromBox) < MaxFromBox
    /\ \E f \in Frames : fromBox' = Append(fromBox, f)
    /\ UNCHANGED <<slotVars, oceans, gone, box, beat, toBox, viewVars>>

-----------------------------------------------------------------------------
(* A frame arrives.                                                            *)

HeartbeatStands(f) == f                     \* (faulty)

\* _resolve_wallbox_charge_mode: a settings report of the last ten seconds owns
\* the mode; the heartbeat loses it.
Resolved(f) ==
    IF f.kind = "heartbeat" /\ young
    THEN [k \in DOMAIN f \ {"mode"} |-> f[k]] ELSE f

\* _resolve_pending_write: on the frame at hand, never on the store.
Confirms(f) ==
    /\ slot # NoCall /\ ~resolved
    /\ LET asked == call[slot]
       IN  asked.key \in DOMAIN f /\ f[asked.key] \in Confirming(asked)

\* _record_settings_report, and the store.
Applied(f) ==
    /\ resolved' = (resolved \/ Confirms(f))
    /\ shown' = IF f.kind = "heartbeat" THEN f.status ELSE shown
    /\ young' = (young \/ f.kind = "settings")

\* A relayed block is handed over by the one PowerOcean, and dropped once the
\* wallbox's own channel has carried one.
FrameArrives ==
    /\ fromBox # <<>>
    /\ LET f == Head(fromBox)
       IN  IF f.own \/ (SiblingRoute /\ ~ownSeen)
           THEN /\ Applied(Resolved(f))
                /\ ownSeen' = (ownSeen \/ (f.own /\ f.kind = "settings"))
           ELSE UNCHANGED <<resolved, viewVars>>
    /\ fromBox' = Tail(fromBox)
    /\ UNCHANGED <<call, slot, sender, stopped, since, oceans, gone, box, beat, toBox>>

\* Ten seconds without a report; the heartbeat lags less ("seconds apart").
ReportAges ==
    /\ young /\ beat = box.mode
    /\ \A i \in DOMAIN fromBox : fromBox[i].kind = "heartbeat" => fromBox[i].mode = beat
    /\ young' = FALSE
    /\ UNCHANGED <<slotVars, oceans, gone, boxVars, shown, ownSeen>>

\* async_unload_entry pops the table, then stops the coordinators.
TableGone ==
    /\ ~gone /\ gone' = TRUE
    /\ UNCHANGED <<slotVars, oceans, boxVars, viewVars>>

WallboxStops == gone /\ Stops /\ UNCHANGED <<oceans, gone, boxVars, viewVars>>

WallboxNext ==
    \/ \E c \in Calls :
          \/ \E action \in Actions : ChargeAction(c, action)
          \/ \E a \in Amps : MaxCurrent(c, a) \/ ChargeCurrent(c, a)
          \/ \E m \in Modes : ChargeMode(c, m)
          \/ Progress(c)
    \/ BoxTakes \/ BoxLoses \/ OwnerActs \/ BeatFollows \/ BoxReports
    \/ FrameArrives \/ ReportAges \/ TableGone \/ WallboxStops

WallboxSpec == WallboxInit /\ [][WallboxNext]_wallboxVars

-----------------------------------------------------------------------------
\* A write that is reported done happened: the wallbox was in the state asked for
\* at some time since the write left, so neither the value it had before, nor a
\* heartbeat that lags behind the settings report, confirms it.
PressHappened == resolved => Confirming(call[slot]) \cap since # {}
=============================================================================
