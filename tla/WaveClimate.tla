----------------------------- MODULE WaveClimate -----------------------------
(* Setting the temperature of a WAVE 3 together with a mode (climate.py,       *)
(* coordinator/set_commands.py, ecoflow/wave3_commands.py).  One service call  *)
(* sends up to three frames: power on, the mode, the set point.  The device    *)
(* acknowledges a set point that arrives while it is still switching modes and *)
(* drops it, so the call waits until the store shows the mode, or for a few    *)
(* seconds.  Other calls and the owner switch the unit meanwhile.  Frames keep *)
(* their order, so what the device makes of one is decided as it is sent.      *)
EXTENDS FiniteSets

CONSTANTS
    Calls,
    SettledFirst,         \* premise: no call begins while the unit still switches modes,
                     \* and what the owner switches is settled and reported at once
    RestartSettles   \* a unit switched on in the mode it was in is as deaf as one
                     \* that switches modes (no measurement says so)

Modes == {"cooling", "heating", "fan"}
WithSetpoint == {"cooling", "heating"}        \* WAVE3_CONTROLS["target_temp_c"].modes

VARIABLES
    unit,       \* the device: on, mode, and deaf while it switches modes
    shown,      \* the store: running, operating_mode
    climate,    \* per call: where async_set_temperature is, the mode asked for, the
                \* mode handed to the write gate, and whether the wait ran out
    mine,       \* history: the calls since whose beginning nobody else has switched
    dropped     \* history: the set point of such a call, with a switch of its own, was lost

climateVars == <<unit, shown, climate, mine, dropped>>

Resting == [at |-> "idle", mode |-> "off", gate |-> "store", lapsed |-> FALSE]

ClimateInit ==
    /\ unit \in [on : BOOLEAN, mode : Modes, deaf : {FALSE}]
    /\ shown = [on |-> unit.on, mode |-> unit.mode]
    /\ climate = [c \in Calls |-> Resting]
    /\ mine = {} /\ dropped = FALSE

\* hvac_mode
HvacMode == IF shown.on THEN shown.mode ELSE "off"

Goes(c, place) == climate' = [climate EXCEPT ![c].at = place]

\* async_set_temperature, up to its first frame: a mode that is not the shown one
\* is set first, and only such a mode is handed to the gate.
SetTemperature(c, m) ==
    /\ climate[c].at = "idle"
    /\ SettledFirst => ~unit.deaf /\ unit.mode = shown.mode
    /\ climate' = [climate EXCEPT ![c] =
           [at |-> IF m = HvacMode THEN "setting"
                   ELSE IF m = "off" THEN "stopping"
                   ELSE IF shown.on THEN "switching" ELSE "starting",
            mode |-> m, lapsed |-> FALSE,
            gate |-> IF m \in {HvacMode, "off"} THEN "store" ELSE m]]
    /\ mine' = mine \cup {c}
    /\ UNCHANGED <<unit, shown, dropped>>

\* async_set_hvac_mode: power off, or power on and then the mode.
SendPowerOff(c) ==
    /\ climate[c].at = "stopping" /\ Goes(c, "setting")
    /\ unit' = [unit EXCEPT !.on = FALSE, !.deaf = FALSE] /\ mine' = mine \cap {c}
    /\ UNCHANGED <<shown, dropped>>

SendPowerOn(c) ==
    /\ climate[c].at = "starting" /\ Goes(c, "switching")
    /\ unit' = [unit EXCEPT !.on = TRUE, !.deaf = @ \/ (RestartSettles /\ ~unit.on)]
    /\ mine' = mine \cap {c}
    /\ UNCHANGED <<shown, dropped>>

SendMode(c) ==
    /\ climate[c].at = "switching" /\ Goes(c, "waiting")
    /\ unit' = IF unit.on THEN [unit EXCEPT !.mode = climate[c].mode,
                                            !.deaf = @ \/ unit.mode # climate[c].mode]
               ELSE unit
    /\ mine' = mine \cap {c}
    /\ UNCHANGED <<shown, dropped>>

\* (faulty: the wait ends with the acknowledgement)
WaitOverAtOnce(c) == TRUE
\* _await_mode
WaitOver(c) == shown.mode = climate[c].mode

ModeShown(c) ==
    /\ climate[c].at = "waiting" /\ WaitOver(c) /\ Goes(c, "setting")
    /\ UNCHANGED <<unit, shown, mine, dropped>>

WaitLapses(c) ==
    /\ climate[c].at = "waiting"
    /\ climate' = [climate EXCEPT ![c].at = "setting", ![c].lapsed = TRUE]
    /\ UNCHANGED <<unit, shown, mine, dropped>>

\* write_refusal, with the mode the call has just set or the store's.
GateMode(c) == IF climate[c].gate = "store" THEN shown.mode ELSE climate[c].gate
Refused(c) == GateMode(c) \notin WithSetpoint

Lands == unit.on /\ ~unit.deaf /\ unit.mode \in WithSetpoint

\* The set point leaves, or the gate refuses it.
SendSetpoint(c) ==
    /\ climate[c].at = "setting"
    /\ climate' = [climate EXCEPT ![c] = Resting]
    /\ dropped' = (dropped \/ (~Refused(c) /\ climate[c].gate # "store" /\ c \in mine
                               /\ ~climate[c].lapsed /\ ~Lands))
    /\ mine' = mine \ {c}
    /\ UNCHANGED <<unit, shown>>

\* A frame that is not delivered ends the call with an error.
SendFails(c) ==
    /\ climate[c].at \in {"stopping", "starting", "switching", "setting"}
    /\ climate' = [climate EXCEPT ![c] = Resting] /\ mine' = mine \ {c}
    /\ UNCHANGED <<unit, shown, dropped>>

\* The device has settled and reports the mode with its values for it; whether it
\* runs it reports at any time.
Reports ==
    /\ unit' = [unit EXCEPT !.deaf = FALSE]
    /\ shown' = [on |-> unit.on, mode |-> unit.mode]
    /\ UNCHANGED <<climate, mine, dropped>>

ReportsRunning ==
    /\ shown' = [shown EXCEPT !.on = unit.on]
    /\ UNCHANGED <<unit, climate, mine, dropped>>

\* The owner at the unit or in the app.
OwnerSwitches(on, m) ==
    /\ unit' = [on |-> on, mode |-> m,
                deaf |-> ~SettledFirst /\ on /\ (unit.deaf \/ m # unit.mode)]
    /\ shown' = IF SettledFirst THEN [on |-> on, mode |-> m] ELSE shown
    /\ mine' = {}
    /\ UNCHANGED <<climate, dropped>>

ClimateNext ==
    \/ \E c \in Calls :
          \/ \E m \in Modes \cup {"off"} : SetTemperature(c, m)
          \/ SendPowerOff(c) \/ SendPowerOn(c) \/ SendMode(c)
          \/ ModeShown(c) \/ WaitLapses(c) \/ SendSetpoint(c) \/ SendFails(c)
    \/ Reports \/ ReportsRunning
    \/ \E on \in BOOLEAN, m \in Modes : OwnerSwitches(on, m)

-----------------------------------------------------------------------------
\* A set point sent by a call that switched the mode, that nobody has switched under,
\* and whose wait did not run out, is never dropped ("a setpoint arriving inside that window
\* is lost ... So a bundled call waits for the device's own report of the new mode").
SetpointLands == ~dropped
=============================================================================
