--------------------------- MODULE DerivedReadings ---------------------------
(* Two readings a coordinator does not take as the device sends them           *)
(* (coordinator/state_apply.py): the state of charge of a Stream, which comes  *)
(* as the figure of the whole system and as the unit's own and not always as   *)
(* both (_resolve_soc), and the battery state of a PowerOcean, which follows   *)
(* the average power and not the controller's mode (_derive_battery_state).    *)
(* Both are worked out on the event loop, one frame at a time.                 *)
EXTENDS Integers

CONSTANTS
    Full,       \* the highest state of charge
    Hold,       \* BATT_MIN_HOLD_S
    Confirm     \* BATT_CONFIRM_S, in the same unit

VARIABLES
    computes,   \* the unit works out the figure of its system; else it sends zero
    charge,     \* the unit's own state of charge
    mean,       \* the system's
    shownSoc,   \* _device_data: soc_pct, or NoReading
    unitSoc,    \* _device_data: unit_soc_pct, or NoReading
    latched,    \* _soc_from_system
    figure,     \* history: the last system figure that arrived, or NoReading
    state,      \* _device_data: batt_charge_discharge_state, or None
    pending,    \* _batt_pending_state
    pendingFor, \* now - _batt_pending_since, up to Confirm
    heldFor,    \* now - _batt_state_changed_at, up to Hold
    unseen      \* history: per state, how long no average was in its band, up to Confirm

streamVars == <<computes, charge, mean, shownSoc, unitSoc, latched, figure>>
batteryVars == <<state, pending, pendingFor, heldFor, unseen>>
derivedVars == <<streamVars, batteryVars>>

NoReading == -1
None == "none"
States == {"charging", "discharging", "standby"}
\* Where the average is: in a state's band, between the bands, or of too few samples.
Averages == States \cup {"deadband", "few"}

\* A mean over the members is not zero while one of them is above zero.
Means(own) == {m \in 0..Full : m = 0 => own = 0}

StreamInit ==
    /\ computes \in BOOLEAN /\ charge \in 0..Full /\ mean \in Means(charge)
    /\ shownSoc = NoReading /\ unitSoc = NoReading /\ latched = FALSE /\ figure = NoReading

BatteryInit ==
    /\ state = None /\ pending = None /\ pendingFor = 0 /\ heldFor = Hold
    /\ unseen = [s \in States |-> Confirm]

-----------------------------------------------------------------------------
(* The state of charge of a Stream.                                            *)

ChargeMoves ==
    /\ charge' \in 0..Full /\ mean' \in Means(charge')
    /\ UNCHANGED <<computes, shownSoc, unitSoc, latched, figure, batteryVars>>

AlwaysStandsIn == TRUE                  \* (faulty: the system figure does not latch)
\* Without a system figure the unit's own stands in, until one has come.
StandsIn == ~latched

\* parsed.get(...) or self._device_data.get(...): a zero is passed over.
UnitFigure(carried) ==
    IF "unit" \in carried /\ charge > 0 THEN charge ELSE unitSoc

\* A frame of an incremental container carries either figure or both.
StreamFrame(carried) ==
    LET system == IF computes THEN mean ELSE 0
    IN  /\ IF "system" \in carried
           THEN /\ shownSoc' = IF system = 0 /\ UnitFigure(carried) > 0
                               THEN UnitFigure(carried) ELSE system
                /\ latched' = (latched \/ system > 0)
                /\ figure' = system
           ELSE /\ shownSoc' = IF StandsIn THEN charge ELSE shownSoc
                /\ UNCHANGED <<latched, figure>>
        /\ unitSoc' = IF "unit" \in carried THEN charge ELSE unitSoc
        /\ UNCHANGED <<computes, charge, mean, batteryVars>>

StreamNext ==
    \/ ChargeMoves
    \/ \E carried \in (SUBSET {"system", "unit"}) \ {{}} : StreamFrame(carried)

-----------------------------------------------------------------------------
(* The battery state of a PowerOcean.                                          *)

UpTo(bound, n) == IF n < bound THEN n + 1 ELSE n

TimePasses ==
    /\ pendingFor' = UpTo(Confirm, pendingFor) /\ heldFor' = UpTo(Hold, heldFor)
    /\ unseen' = [s \in States |-> UpTo(Confirm, unseen[s])]
    /\ UNCHANGED <<state, pending, streamVars>>

SettledKept == pending                  \* (faulty)
\* Back in the band of the state shown: the candidate is dropped.
Settled == None

PowerFrame(average) ==
    /\ unseen' = [s \in States |-> IF s = average THEN 0 ELSE unseen[s]]
    /\ IF average \notin States
         THEN UNCHANGED <<state, pending, pendingFor, heldFor>>
       ELSE IF average = state
         THEN pending' = Settled /\ UNCHANGED <<state, pendingFor, heldFor>>
       ELSE IF state # None /\ heldFor < Hold
         THEN UNCHANGED <<state, pending, pendingFor, heldFor>>
       ELSE IF state # None /\ pending # average
         THEN pending' = average /\ pendingFor' = 0 /\ UNCHANGED <<state, heldFor>>
       ELSE IF state # None /\ pendingFor < Confirm
         THEN UNCHANGED <<state, pending, pendingFor, heldFor>>
       ELSE /\ state' = average /\ heldFor' = 0
            /\ pending' = IF state = None THEN pending ELSE None
            /\ UNCHANGED pendingFor
    /\ UNCHANGED streamVars

BatteryNext == TimePasses \/ \E average \in Averages : PowerFrame(average)

-----------------------------------------------------------------------------
\* Once a system figure has come, a frame with the unit's own figure never pulls the
\* sensor back to it (#323); and a unit that sends zero because it works out no
\* figure shows its own charge (#336).
ChargeHonest ==
    IF computes THEN figure > 0 => shownSoc = figure
    ELSE shownSoc = 0 => unitSoc <= 0

\* "A genuinely empty battery is untouched: then the unit figure reads zero as well
\* and nothing contradicts the system figure" (_resolve_soc).
EmptyShowsEmpty ==
    [][StreamFrame({"system", "unit"}) /\ charge = 0 /\ mean = 0 => shownSoc' = 0]_derivedVars

\* The battery state changes only to one whose band was the only one the average was
\* in for the whole confirmation time (#50), whatever silence lay in between.
ChangeConfirmed ==
    [][state # None /\ state' # state =>
          \A s \in States \ {state'} : unseen[s] >= Confirm]_derivedVars
=============================================================================
