---------------------------- MODULE EnergyTotals ----------------------------
(* One energy counter, from the readings of the device to the total Home       *)
(* Assistant shows: EnergyIntegrator (ecoflow/energy_integrator.py), the frame *)
(* handler that feeds it and publishes what it returns (_integrate_energy),    *)
(* the sensor that restores its value over a restart, and the state file,      *)
(* written by executor threads while the event loop goes on integrating.       *)
(*                                                                             *)
(* Energy is counted in whole units and power in the units it adds per         *)
(* interval; the rounding to two decimals of the published value is left out.  *)
EXTENDS Integers

CONSTANTS
    FromApi,       \* the device reports totals (_energy_from_api); else power only
    Readings,      \* totals a frame may carry, implausible ones included
    Powers,        \* power readings, implausible ones included
    MaxTotal,      \* MAX_TOTAL_KWH
    MaxPower,      \* MAX_POWER_W
    Floor,         \* SET_TOTAL_TOLERANCE_FLOOR_KWH
    EarlyFrames,   \* frames may arrive before the sensor entity is added
    MaxFrames, MaxCrashes, MaxStops, MaxFailures   \* bounds of a behaviour

Absent == -1

ASSUME EnergyAssumption ==
    /\ FromApi \in BOOLEAN /\ EarlyFrames \in BOOLEAN
    /\ Readings \subseteq Nat /\ Powers \subseteq Nat
    /\ MaxTotal \in Nat /\ MaxPower \in Nat /\ Floor \in Nat
    /\ MaxFrames \in Nat /\ MaxCrashes \in Nat /\ MaxStops \in Nat /\ MaxFailures \in Nat

VARIABLES
    phase,       \* "starting": loaded, entity not added; "live"; "stopping"; "down"
    mem,         \* _state[metric]: total and last power
    candidate,   \* _candidates[metric], or Absent
    dirty,       \* _dirty
    saveDue,     \* SAVE_INTERVAL_S has passed since _last_save_ts
    data,        \* _device_data[energy key], or Absent
    restored,    \* the sensor's _restored_value
    shown,       \* the sensor's state in Home Assistant
    haStore,     \* what Home Assistant's restore store would give back
    file,        \* the state file; NoState when missing, empty or unreadable
    pc, snap,    \* the two writers: the periodic flush and the final one
    prev,        \* history: the device's last plausible total of this session
    undisturbed, \* history: nothing but device totals has moved mem since prev
    lowered,     \* history: a confirmed lower total was taken since the restore
    clean,       \* history: this stop ended with force_flush, and no save failed
    frames, crashes, stops, failures

vars == <<phase, mem, candidate, dirty, saveDue, data, restored, shown, haStore, file,
          pc, snap, prev, undisturbed, lowered, clean, frames, crashes, stops, failures>>
memVars == <<mem, candidate, dirty>>
histVars == <<prev, undisturbed, lowered>>
saveVars == <<file, pc, snap>>
boundVars == <<crashes, stops, failures>>

NoState == [kwh |-> Absent, power |-> 0]
Known == mem.kwh # Absent
Writers == {"flush", "final"}
up == phase \in {"starting", "live"}

Distance(x, y) == IF x >= y THEN x - y ELSE y - x
\* max(10 % of the reference, the floor)
Near(x, ref) == Distance(x, ref) <= Floor \/ 10 * Distance(x, ref) <= ref

Init ==
    /\ phase = "starting"
    /\ mem = NoState /\ candidate = Absent /\ dirty = FALSE /\ saveDue = TRUE
    /\ data = Absent /\ restored = Absent /\ shown = Absent /\ haStore = Absent
    /\ file = NoState
    /\ pc = [s \in Writers |-> "idle"] /\ snap = [s \in Writers |-> NoState]
    /\ prev = Absent /\ undisturbed = TRUE /\ lowered = FALSE /\ clean = FALSE
    /\ frames = 0 /\ crashes = 0 /\ stops = 0 /\ failures = 0

-----------------------------------------------------------------------------
(* EnergyIntegrator.                                                           *)

\* integrate: elapsed is "short" (below MIN_DELTA_S), "normal" or "gap".
Integrate(power, elapsed) ==
    LET total == mem.kwh + (mem.power + power) \div 2
    IN  /\ mem' =
              IF power > MaxPower THEN mem
              ELSE IF ~Known THEN [kwh |-> 0, power |-> power]
              ELSE IF elapsed = "short" THEN mem
              ELSE IF elapsed = "gap" \/ total > MaxTotal THEN [mem EXCEPT !.power = power]
              ELSE [kwh |-> total, power |-> power]
        /\ dirty' = (dirty \/ (power <= MaxPower /\ (Known => elapsed # "short")))
        /\ undisturbed' = (undisturbed /\ mem'.kwh = mem.kwh)
        /\ UNCHANGED <<candidate, prev, lowered>>

Plausible(total) == total <= MaxTotal
Agrees(total) == Known /\ Near(total, mem.kwh)
RisesOrDips(total) == Agrees(total)     \* (faulty: a small dip is taken too)
Rises(total) == Agrees(total) /\ total > mem.kwh

\* A step beyond the tolerance that the reading before it agrees with.
ConfirmsAny(total) == Known /\ ~Agrees(total) /\ candidate # Absent   \* (faulty)
ConfirmsHigher(total) ==                \* (faulty: an equal reading never confirms)
    Known /\ ~Agrees(total) /\ candidate # Absent /\ total > candidate
Confirms(total) ==
    Known /\ ~Agrees(total) /\ candidate # Absent /\ Near(total, candidate)

\* set_total: a small rise is taken, a small dip ignored, and a step beyond the
\* tolerance waits for a second reading that agrees with it.
SetTotal(total) ==
    LET take == mem' = [kwh |-> total, power |-> IF Known THEN mem.power ELSE 0]
                /\ dirty' = TRUE /\ candidate' = Absent
        keep == UNCHANGED <<mem, dirty>>
        taken == ~Known \/ Confirms(total) \/ Rises(total)
    IN  /\ \/ ~Plausible(total) /\ keep /\ UNCHANGED candidate
           \/ Plausible(total) /\ taken /\ take
           \/ Plausible(total) /\ ~taken /\ keep
              /\ candidate' = IF Agrees(total) THEN Absent ELSE total
        /\ prev' = IF Plausible(total) THEN total ELSE prev
        /\ undisturbed' = (Plausible(total) \/ undisturbed)
        /\ lowered' = (lowered \/ (Plausible(total) /\ Confirms(total) /\ total < mem.kwh))

RaisesUnknown(total) == ~Known          \* (faulty: a stale file wins)
Raises(total) == ~Known \/ total > mem.kwh

\* restore_total
Restore(total) ==
    IF total # Absent /\ Plausible(total) /\ Raises(total)
      THEN /\ mem' = [kwh |-> total, power |-> IF Known THEN mem.power ELSE 0]
           /\ candidate' = IF Known THEN Absent ELSE candidate
           /\ dirty' = TRUE /\ undisturbed' = FALSE
      ELSE UNCHANGED <<memVars, undisturbed>>

-----------------------------------------------------------------------------
(* _integrate_energy for one key: which call a frame makes, and what it        *)
(* publishes.  A key whose call yields no total is removed from the data.      *)
Frame(power, total, elapsed) ==
    /\ phase = "live" \/ (EarlyFrames /\ phase = "starting")
    /\ frames < MaxFrames /\ frames' = frames + 1
    /\ power # Absent \/ total # Absent
    /\ IF FromApi /\ total # Absent THEN SetTotal(total)
       ELSE IF power # Absent THEN Integrate(power, elapsed)
       ELSE UNCHANGED <<memVars, histVars>>
    /\ data' = IF power > MaxPower /\ ~(FromApi /\ total # Absent)
                 THEN mem.kwh
               ELSE IF power # Absent /\ ~Known /\ ~(FromApi /\ total # Absent)
                 THEN Absent
               ELSE mem'.kwh
    /\ shown' = IF phase = "live"
                  THEN IF data' # Absent THEN data' ELSE restored
                  ELSE shown
    /\ UNCHANGED <<phase, saveDue, restored, haStore, saveVars, clean, boundVars>>

\* EcoFlowSensor.async_added_to_hass, and the first state write after it.
EntityAdded ==
    /\ phase = "starting"
    /\ phase' = "live"
    /\ Restore(restored)
    /\ shown' = IF data # Absent THEN data ELSE restored
    /\ lowered' = FALSE
    /\ UNCHANGED <<saveDue, data, restored, haStore, saveVars, prev, clean, frames,
                   boundVars>>

-----------------------------------------------------------------------------
(* flush and force_flush on an executor thread: snapshot, open (which empties  *)
(* the file), write, and only then clear the mark.  A failure is swallowed and *)
(* the mark cleared all the same.                                              *)
SaveBegins(s) ==
    /\ pc[s] = "idle"
    /\ IF s = "flush" THEN up /\ saveDue ELSE phase = "stopping"
    /\ dirty
    /\ snap' = [snap EXCEPT ![s] = mem]
    /\ pc' = [pc EXCEPT ![s] = "open"]
    /\ UNCHANGED <<phase, memVars, saveDue, data, restored, shown, haStore, file,
                   histVars, clean, frames, boundVars>>

SaveOpens(s) ==
    /\ pc[s] = "open"
    /\ file' = NoState
    /\ pc' = [pc EXCEPT ![s] = "write"]
    /\ UNCHANGED <<phase, memVars, saveDue, data, restored, shown, haStore, snap,
                   histVars, clean, frames, boundVars>>

SaveWrites(s) ==
    /\ pc[s] = "write"
    /\ file' = snap[s]
    /\ pc' = [pc EXCEPT ![s] = "clear"]
    /\ UNCHANGED <<phase, memVars, saveDue, data, restored, shown, haStore, snap,
                   histVars, clean, frames, boundVars>>

SaveFails(s) ==
    /\ pc[s] \in {"open", "write"}
    /\ failures < MaxFailures /\ failures' = failures + 1
    /\ pc' = [pc EXCEPT ![s] = "clear"]
    /\ UNCHANGED <<phase, memVars, saveDue, data, restored, shown, haStore, file, snap,
                   histVars, clean, frames, crashes, stops>>

SaveClears(s) ==
    /\ pc[s] = "clear"
    /\ dirty' = FALSE
    /\ saveDue' = IF s = "flush" THEN FALSE ELSE saveDue
    /\ pc' = [pc EXCEPT ![s] = IF s = "flush" THEN "idle" ELSE "done"]
    /\ UNCHANGED <<phase, mem, candidate, data, restored, shown, haStore, file, snap,
                   histVars, clean, frames, boundVars>>

SaveIntervalPasses ==
    /\ ~saveDue
    /\ saveDue' = TRUE
    /\ UNCHANGED <<phase, memVars, data, restored, shown, haStore, saveVars, histVars,
                   clean, frames, boundVars>>

-----------------------------------------------------------------------------
\* async_shutdown: frames are refused from here on; force_flush follows.
Shutdown ==
    /\ phase = "live" /\ stops < MaxStops /\ stops' = stops + 1
    /\ phase' = "stopping"
    /\ UNCHANGED <<memVars, saveDue, data, restored, shown, haStore, saveVars, histVars,
                   clean, frames, crashes, failures>>

Stopped ==
    /\ phase = "stopping"
    /\ pc["final"] = "done" \/ (pc["final"] = "idle" /\ ~dirty)
    /\ phase' = "down"
    /\ clean' = (failures = 0)
    /\ haStore' = shown
    /\ pc' = [pc EXCEPT !["final"] = "idle"]
    /\ UNCHANGED <<memVars, saveDue, data, restored, shown, file, snap, histVars, frames,
                   boundVars>>

\* Home Assistant dies; a write in progress leaves the file empty.
Crash ==
    /\ phase # "down" /\ crashes < MaxCrashes /\ crashes' = crashes + 1
    /\ phase' = "down"
    /\ clean' = FALSE
    /\ pc' = [s \in Writers |-> "idle"]
    /\ UNCHANGED <<memVars, saveDue, data, restored, shown, haStore, file, snap, histVars,
                   frames, stops, failures>>

\* Home Assistant dumps its restore states every few minutes.
HADumpsStates ==
    /\ phase = "live" /\ haStore # shown
    /\ haStore' = shown
    /\ UNCHANGED <<phase, memVars, saveDue, data, restored, shown, saveVars, histVars,
                   clean, frames, boundVars>>

\* load_state: an unreadable file, and an implausible total, start from nothing.
Restart ==
    /\ phase = "down" /\ \A s \in Writers : pc[s] = "idle"
    /\ phase' = "starting"
    /\ mem' = IF file.kwh > MaxTotal THEN NoState ELSE file
    /\ candidate' = Absent /\ dirty' = FALSE /\ saveDue' = TRUE
    /\ data' = Absent
    /\ restored' = haStore
    /\ prev' = Absent /\ undisturbed' = TRUE /\ lowered' = FALSE /\ clean' = FALSE
    /\ UNCHANGED <<shown, haStore, saveVars, frames, boundVars>>

Next ==
    \/ \E power \in Powers \cup {Absent}, total \in Readings \cup {Absent},
          elapsed \in {"short", "normal", "gap"} : Frame(power, total, elapsed)
    \/ EntityAdded
    \/ \E s \in Writers : \/ SaveBegins(s) \/ SaveOpens(s) \/ SaveWrites(s)
                          \/ SaveFails(s) \/ SaveClears(s)
    \/ SaveIntervalPasses
    \/ Shutdown \/ Stopped \/ Crash \/ HADumpsStates \/ Restart

Spec == Init /\ [][Next]_vars

-----------------------------------------------------------------------------
Totals == 0 .. MaxTotal \cup {Absent}
States == [kwh : Totals, power : {w \in Powers : w <= MaxPower} \cup {0}]

TypeOK ==
    /\ phase \in {"starting", "live", "stopping", "down"}
    /\ mem \in States /\ file \in States /\ snap \in [Writers -> States]
    /\ candidate \in Totals /\ data \in Totals /\ restored \in Totals
    /\ shown \in Totals /\ haStore \in Totals /\ prev \in Totals
    /\ dirty \in BOOLEAN /\ saveDue \in BOOLEAN
    /\ undisturbed \in BOOLEAN /\ lowered \in BOOLEAN /\ clean \in BOOLEAN
    /\ pc \in [Writers -> {"idle", "open", "write", "clear", "done"}]
    /\ frames \in 0 .. MaxFrames /\ crashes \in 0 .. MaxCrashes
    /\ stops \in 0 .. MaxStops /\ failures \in 0 .. MaxFailures

\* A single wrong reading can never move the stored total on its own
\* (set_total): a device total that takes effect beyond the tolerance agrees
\* with the device total right before it.
OneReadingNeverMoves ==
    [][\A t \in Readings :
          (Known /\ SetTotal(t) /\ ~Near(mem'.kwh, mem.kwh))
              => mem'.kwh = t /\ prev # Absent /\ Near(t, prev)]_vars

\* A sustained wrong total recovers in two device readings (set_total): after
\* two equal ones in a row the stored total is within tolerance of them, however
\* far off it was.
TwoReadingsSettle ==
    [][\A t \in Readings :
          (t <= MaxTotal /\ prev = t /\ undisturbed /\ Frame(Absent, t, "normal") /\ FromApi)
              => Near(t, mem'.kwh)]_vars

\* What Home Assistant shows falls only for a lower total two device readings
\* agreed on: never because of a restart, a lost file, a glitch or a gap.
FallsOnlyConfirmed ==
    [][(phase = "live" /\ shown # Absent /\ shown' # shown)
          => shown' > shown
             \/ (lowered' /\ prev # Absent /\ Near(prev', prev) /\ shown' = prev')]_vars

\* Once the sensor is added, no lost, stale or half-written state file leaves the
\* integrator below the total Home Assistant restored (seed_energy_total).
CoversRestored ==
    (phase \in {"live", "stopping"} /\ restored # Absent /\ ~lowered) => mem.kwh >= restored

\* A power reading that only seeds the counter leaves an internal zero, and that
\* placeholder is never published (_integrate_energy: "a value must be popped
\* rather than resurrected at that placeholder").
PlaceholderNeverShown ==
    [][\A t \in Readings :
          (FromApi /\ t > 0 /\ data = Absent /\ Frame(Absent, t, "normal")) => data' # 0]_vars

\* After a stop in which no save failed, the file holds the last total
\* (force_flush: "Save state immediately (for shutdown)").
CleanStopSaves == (phase = "down" /\ clean) => file.kwh = mem.kwh
=============================================================================
