----------------------------- MODULE DeviceValues -----------------------------
(* The values a coordinator does not take as a device sends them: a counter    *)
(* that Home Assistant sums (EnergyTotals), a state of charge or a battery     *)
(* state that is worked out (DerivedReadings), the readings linked units send  *)
(* for one another (LinkedUnits), a frame of many headers (PowerOceanFrames),  *)
(* and frames that hold only what has changed (FrameReadings).  They work on   *)
(* different keys, or on different devices, so they share no state, and each   *)
(* behaviour follows one of them.                                              *)
EXTENDS EnergyTotals, FiniteSets

CONSTANTS
    Full, Hold, Confirm,                                          \* DerivedReadings
    Units, Streams, BatteryPowers, HoldFor, Lag, WholeLists, MaxPushes,  \* LinkedUnits
    Tasks, Packs, PackSlots, Inverters, InverterSlots,            \* PowerOceanFrames
    FirstReadable, Prompt, MaxSent, MaxStarts,
    FlagsTogether, TimesWithState, MaxChanges                     \* FrameReadings

ASSUME ValuesAssumption ==
    /\ Full \in Nat /\ Hold \in Nat /\ Confirm \in Nat
    /\ IsFiniteSet(Units) /\ Streams \subseteq Units /\ BatteryPowers \subseteq Int /\ 0 \in BatteryPowers
    /\ HoldFor \in Nat /\ Lag \in Nat /\ Lag < HoldFor
    /\ MaxPushes \in Nat /\ WholeLists \in BOOLEAN
    /\ Tasks \subseteq Nat
    /\ Packs \subseteq Nat /\ IsFiniteSet(Packs) /\ Inverters \subseteq Nat /\ IsFiniteSet(Inverters)
    /\ PackSlots \in Nat /\ InverterSlots \in Nat
    /\ FirstReadable \in BOOLEAN /\ Prompt \in BOOLEAN /\ MaxSent \in Nat /\ MaxStarts \in Nat
    /\ FlagsTogether \in BOOLEAN /\ TimesWithState \in BOOLEAN /\ MaxChanges \in Nat

VARIABLES
    followed,                                                     \* the kind of value
    computes, charge, mean, shownSoc, unitSoc, latched, figure,   \* DerivedReadings
    state, pending, pendingFor, heldFor, unseen,
    pushes, arrived, loaded, unitW, pv, ownAge, unsigned, sample, ownSample,  \* LinkedUnits
    sent, starts, known, packNo, inverterNo, posted, held, said, called,   \* PowerOceanFrames
    family, device, told, display, lastCurrent, changes           \* FrameReadings

Derived == INSTANCE DerivedReadings
Linked == INSTANCE LinkedUnits WITH Powers <- BatteryPowers
Frames == INSTANCE PowerOceanFrames WITH store <- held
Reports == INSTANCE FrameReadings WITH shown <- display

streamVars == <<computes, charge, mean, shownSoc, unitSoc, latched, figure>>
batteryVars == <<state, pending, pendingFor, heldFor, unseen>>
unitVars == <<pushes, arrived, loaded, unitW, pv, ownAge, unsigned, sample, ownSample>>
bundleVars == <<sent, starts, known, packNo, inverterNo, posted, held, said, called>>
reportVars == <<family, device, told, display, lastCurrent, changes>>
valueVars == <<followed, vars, streamVars, batteryVars, unitVars, bundleVars, reportVars>>

\* What is not followed starts in one state.
ValuesInit ==
    /\ followed \in {"counter", "charge", "battery", "units", "frames", "readings"}
    /\ Init /\ Derived!StreamInit /\ Derived!BatteryInit /\ Linked!UnitsInit
    /\ Frames!FramesInit /\ Reports!ReadingsInit
    /\ followed # "charge" => computes /\ charge = 0 /\ mean = 0
    /\ followed # "readings" => family = "ocean2" /\ device.power = 0

CounterStep ==
    /\ followed = "counter" /\ Next
    /\ UNCHANGED <<followed, streamVars, batteryVars, unitVars, bundleVars, reportVars>>
ChargeStep ==
    /\ followed = "charge" /\ Derived!StreamNext
    /\ UNCHANGED <<followed, vars, unitVars, bundleVars, reportVars>>
BatteryStep ==
    /\ followed = "battery" /\ Derived!BatteryNext
    /\ UNCHANGED <<followed, vars, unitVars, bundleVars, reportVars>>
UnitsStep ==
    /\ followed = "units" /\ Linked!UnitsNext
    /\ UNCHANGED <<followed, vars, streamVars, batteryVars, bundleVars, reportVars>>
FramesStep ==
    /\ followed = "frames" /\ Frames!FramesNext
    /\ UNCHANGED <<followed, vars, streamVars, batteryVars, unitVars, reportVars>>
ReadingsStep ==
    /\ followed = "readings" /\ Reports!ReadingsNext
    /\ UNCHANGED <<followed, vars, streamVars, batteryVars, unitVars, bundleVars>>
ValuesNext ==
    CounterStep \/ ChargeStep \/ BatteryStep \/ UnitsStep \/ FramesStep \/ ReadingsStep

ValuesSpec == ValuesInit /\ [][ValuesNext]_valueVars

-----------------------------------------------------------------------------
\* Once a system figure has come, the unit's own never pulls the sensor back to it,
\* and a unit that works out no system figure shows its own charge (_resolve_soc).
ChargeHonest == Derived!ChargeHonest

\* The battery state changes only to one whose band was the only one the average was
\* in for the whole confirmation time, whatever silence lay in between.
ChangeConfirmed == Derived!ChangeConfirmed

\* A unit's power is never shown with the wrong sign: it is what the unit did when
\* the push it is from was made, whichever connection brought it (_sign_unit_entries).
SignRight == Linked!SignRight

\* A value handed over by another unit's connection never replaces a newer one from
\* the unit's own (_resolve_unit_power).
HandedNeverOlder == Linked!HandedNeverOlder

\* What is shown of the schedules and of a pair's work is what the device said last
\* (the first copy of a message in a bundle, the handling of lists that cannot be read),
\* and a pack or inverter entity never goes over to another pack or inverter (the numbers
\* the parsers give to serials).
FramesReadRight == Frames!FirstCopyShown /\ Frames!NumbersStand

\* A heating rod that reports 0 W leaves no source with a share (_parse_rod's readings).
RodIdle == Frames!RodIdle

\* When a device has nothing left to say, no reading of it is a stale one, and the halves
\* of a signed power agree at any time (partial frames merged by _apply_data).
ReadingsRight == Reports!ReadingsRight

\* One reading moves a counter only if it is plausible, two that agree settle it, and
\* nothing else lowers what is shown (set_total, _confirms).
ReadingsConfirmed == OneReadingNeverMoves /\ TwoReadingsSettle /\ FallsOnlyConfirmed
=============================================================================
