--------------------------- MODULE SettingControls ---------------------------
(* One entity of a device: a number, a switch, a select, a sensor, a binary    *)
(* sensor or a button (number.py, switch.py, select.py, sensor.py,             *)
(* binary_sensor.py, button.py, entity.py).  An entity shows one reading of    *)
(* the coordinator's store.  It appears at once, or when its accessory         *)
(* reports; it starts with the value Home Assistant restored; after a service  *)
(* call it shows what was asked for a few seconds; and it writes to Home       *)
(* Assistant's state machine only what the write gate takes for a change.      *)
EXTENDS Naturals

CONSTANTS
    Unreported,   \* no reading under the key
    Unknown,      \* the reading is None
    High,         \* readings are 0..High, a derived limit is one of 1..High
    FirstNew,     \* premise: while Home Assistant shows a value the gate has not
                  \* recorded (the live one of an entity just added), no update
                  \* brings the value it did record
    LimitsStay    \* premise: the same of a limit, and a limit stays once reported

\* "ocean2" is a switch of an Ocean 2, "wallbox" a switch or select of a wallbox behind
\* a PowerOcean, "own" a number of a wallbox alone, "solar" a sensor that waits for a
\* reading other than zero.
Kinds == {"number", "own", "switch", "ocean2", "wallbox", "select", "sensor", "solar",
          "binary", "button"}
Values == 0..High
Readings == Values \cup {Unreported, Unknown}
Stray == High    \* an option the entity does not have, of a select or a sensor

VARIABLES
    kind,
    store,     \* coordinator.data: the reading, the limit of a number's range
    online,    \* the coordinator is available
    link,      \* the wallbox's write route, and whether its connection is up
    control,   \* the entity: at absent, pending or here; optimistic lock and value,
               \* restored value
    last,      \* the write gate: the value, availability and bounds last written
    ha,        \* the state machine: what it shows, available or not
    owned,     \* the entity registry has the entity from an earlier run
    settled    \* history: the entity has taken in everything the store says

controlVars == <<kind, store, online, link, control, last, ha, owned, settled>>

Number == kind \in {"number", "own"}
Switch == kind \in {"switch", "ocean2", "wallbox"}
Sensor == kind \in {"sensor", "solar"}
Optimistic == kind \in {"number", "switch", "ocean2", "select"}
Restores == Sensor \/ kind \in {"number", "own", "switch", "ocean2"}
Gated == kind \notin {"select", "button"}

-----------------------------------------------------------------------------
(* What an entity shows.  A reading that is None shows as unknown; only a      *)
(* missing one falls back.                                                     *)

Live(fallback) == IF store.reading = Unreported THEN fallback ELSE store.reading

\* native_value of a number, is_on of a switch, current_option, native_value of a sensor
NumberValue == Live(control.restored)
SwitchValue == IF control.locked THEN control.wanted
               ELSE Live(IF kind = "wallbox" THEN Unknown ELSE control.restored)
SelectValue == IF control.locked THEN control.wanted
               ELSE IF Live(Unknown) = Stray THEN Unknown ELSE Live(Unknown)
SensorValue == IF kind = "sensor" /\ store.reading = Stray THEN control.restored
               ELSE Live(control.restored)
Value == CASE Number -> NumberValue [] Switch -> SwitchValue [] kind = "select" -> SelectValue
           [] Sensor -> SensorValue [] kind = "binary" -> Live(Unknown) [] OTHER -> Unknown

\* _derived_bounds, or the declared range.
Bounds == IF kind = "number" THEN store.limit ELSE Unreported
InRange(v) == Bounds = Unreported \/ v <= Bounds

\* The connection a wallbox's control is written over, resolved on every read.
NumberLink == link.route = "own" /\ link.up
SwitchLink == link.route = "sibling" /\ link.up
ButtonLink == link.route # "none" /\ link.up
Available == online /\ (kind = "own" => NumberLink) /\ (kind = "wallbox" => SwitchLink)
                    /\ (kind = "button" => ButtonLink)

State == [on |-> Available, value |-> Value, bounds |-> Bounds]
Same(one, other) == one.on = other.on /\ (one.on => one = other)

-----------------------------------------------------------------------------
(* Adding an entity.  The sentinel of the availability is what Home Assistant  *)
(* writes on add; the value's is the restored one, if there is one and, but    *)
(* for a sensor, no live one.                                                  *)

Absent == [at |-> "absent", locked |-> FALSE, wanted |-> 0, restored |-> Unknown]

\* v is what Home Assistant kept: an option the sensor no longer has and a number out
\* of its range are discarded.
Restored(v) ==
    IF /\ Restores /\ v # Unknown
       /\ IF Sensor THEN kind = "sensor" => v # Stray
          ELSE store.reading = Unreported /\ (Number => InRange(v))
    THEN v ELSE Unknown

\* (faulty: an entity counts as available when it is added)
LateSentinel(v) == [on |-> TRUE, value |-> Restored(v), bounds |-> Unreported]
\* EcoFlowWriteGateMixin.async_added_to_hass and those of the platforms
Sentinel(v) == [on |-> Available, value |-> Restored(v), bounds |-> Unreported]

Added(v) ==
    /\ control' = [Absent EXCEPT !.at = "here", !.restored = Restored(v)']
    /\ last' = Sentinel(v)'
    /\ ha' = State'

\* The coordinator may have data of the first refresh or none.
ControlsInit ==
    /\ kind \in Kinds
    /\ store \in [reading : Readings, limit : IF kind = "number" THEN 1..High ELSE {Unreported}]
    /\ online \in BOOLEAN
    /\ link \in IF kind \in {"own", "wallbox", "button"}
                THEN [route : {"own", "sibling", "none"}, up : BOOLEAN]
                ELSE {[route |-> "none", up |-> FALSE]}
    /\ owned \in IF kind = "solar" THEN BOOLEAN ELSE {FALSE}
    /\ control = Absent
    /\ last = [on |-> FALSE, value |-> Unknown, bounds |-> Unreported] /\ ha = last
    /\ settled = FALSE

\* reading_reported: a retracted reading is a reported one.
Reported(reading) == IF kind = "solar" THEN reading \notin {Unreported, Unknown, 0}
                     ELSE reading # Unreported

\* async_setup_entry: an accessory's entity waits for its reading.
SetUp(ready, v) ==
    /\ control.at = "absent"
    /\ UNCHANGED <<kind, store, online, link, owned, settled>>
    /\ IF ready THEN Added(v)
       ELSE control' = [control EXCEPT !.at = "pending"] /\ UNCHANGED <<last, ha>>
AtOnce(accessory) == ~accessory \/ Reported(store.reading)

\* The platforms: a control of a wallbox exists on one write route, a sensor the owner
\* has already does not wait again.
SetUpNumber(accessory, v) ==
    Number /\ (kind = "own" => link.route = "own") /\ SetUp(AtOnce(accessory), v)
SetUpSwitch(accessory, v) ==
    Switch /\ (kind = "wallbox" => link.route = "sibling") /\ SetUp(AtOnce(accessory), v)
SetUpSelect(accessory, v) == kind = "select" /\ SetUp(AtOnce(accessory), v)
SetUpSensor(accessory, v) == Sensor /\ SetUp(AtOnce(accessory) \/ owned, v)
SetUpBinary(accessory, v) == kind = "binary" /\ SetUp(AtOnce(accessory), v)
SetUpButton(accessory, v) ==
    kind = "button" /\ link.route # "none" /\ SetUp(AtOnce(accessory), v)

\* _check_for_accessory
Watch(v) == IF Reported(store.reading)' THEN Added(v) ELSE UNCHANGED <<control, last, ha>>

-----------------------------------------------------------------------------
(* The write gate.                                                             *)

\* (faulty: only the value is compared)
SameValue(new) == new.value = last.value
\* _write_state_if_changed: nothing observable has changed.
Unchanged(new) == new.value = last.value /\ new.on = last.on

\* (faulty: the bounds go out with the next change of the value)
NeverMove(new) == FALSE
\* _bounds_moved
BoundsMoved(new) == new.bounds # Unreported /\ new.bounds # last.bounds

\* _handle_coordinator_update, once the lock is out of the way.
Publish ==
    LET new == State'
    IN IF Gated /\ ~BoundsMoved(new) /\ Unchanged(new) THEN UNCHANGED <<last, ha>>
       ELSE /\ last' = [new EXCEPT !.bounds = IF @ = Unreported THEN last.bounds ELSE @]
            /\ ha' = new

\* A rollback the entity has not seen lifts the lock of a number and of an Ocean 2
\* switch; the other switches only take note of it.
LiftsLock(rollback) == rollback /\ kind \in {"number", "ocean2"}
\* (faulty: the lock outlives the rollback)
KeepsLock(rollback) == control.locked
StaysLocked(rollback) == control.locked /\ ~LiftsLock(rollback)

\* Numbers and selects ignore what comes in during the lock.
Ignored(rollback) == kind \in {"number", "select"} /\ StaysLocked(rollback)

\* async_set_updated_data or async_update_listeners.
Update(reading, limit, on, rollback, v) ==
    /\ control.at # "absent"
    /\ rollback => control.at = "here" /\ Optimistic
    /\ UNCHANGED <<kind, link, owned>>
    /\ store' = [reading |-> reading, limit |-> limit] /\ online' = on
    /\ (LimitsStay /\ ha.bounds # last.bounds) => limit # last.bounds
    /\ settled' = (~control.locked \/ Switch \/ (rollback /\ kind = "number"))
    /\ IF control.at = "pending" THEN Watch(v)
       ELSE /\ control' = [control EXCEPT !.locked = StaysLocked(rollback)]
            /\ IF Ignored(rollback) THEN UNCHANGED <<last, ha>> ELSE Publish
    /\ (FirstNew /\ ~control.locked /\ ha.value # last.value) => Value' # last.value

-----------------------------------------------------------------------------
(* Service calls whose write was sent: what was asked is written past the gate *)
(* and locked.  A call that is refused, or whose send fails, changes nothing,  *)
(* and a wallbox's controls only follow its reports.                           *)

Applied(seeds, v) ==
    /\ control.at = "here" /\ Available
    /\ UNCHANGED <<kind, online, link, owned>>
    /\ store' = [store EXCEPT !.reading = IF seeds THEN v ELSE @]
    /\ control' = [control EXCEPT !.locked = TRUE, !.wanted = v]
    /\ ha' = State'
    /\ last' = [last EXCEPT !.value = v, !.on = Available]
    /\ settled' = FALSE

\* async_set_native_value, _send_command, async_select_option: two of the switches seed
\* the store.
SetNumber(v) == kind = "number" /\ InRange(v) /\ Applied(TRUE, v)
TurnSwitch(v) == kind \in {"switch", "ocean2"}
                 /\ \E seeds \in BOOLEAN : (seeds => kind = "switch") /\ Applied(seeds, v)
SelectOption(v) == kind = "select" /\ v # Stray /\ Applied(TRUE, v)

LockLapses ==
    /\ control.locked
    /\ control' = [control EXCEPT !.locked = FALSE]
    /\ settled' = FALSE
    /\ UNCHANGED <<kind, store, online, link, last, ha, owned>>

\* The limit's own control is set (set_device_value tells no listener).
LimitSet(limit) ==
    /\ kind = "number" /\ limit # store.limit
    /\ (LimitsStay /\ ha.bounds # last.bounds) => limit # last.bounds
    /\ store' = [store EXCEPT !.limit = limit] /\ settled' = FALSE
    /\ UNCHANGED <<kind, online, link, control, last, ha, owned>>

\* Devices of the entry come and go, a connection rises and falls, and this
\* coordinator's listeners are not told.
LinkChanges ==
    /\ kind \in {"own", "wallbox", "button"} /\ control.at = "here"
    /\ link' \in [route : {"own", "sibling", "none"}, up : BOOLEAN] /\ settled' = FALSE
    /\ UNCHANGED <<kind, store, online, control, last, ha, owned>>

LimitsNext ==
    IF kind # "number" THEN {Unreported}
    ELSE IF LimitsStay /\ store.limit # Unreported THEN 1..High ELSE {Unreported} \cup 1..High

ControlsNext ==
    \/ \E accessory \in BOOLEAN, v \in Values \cup {Unknown} :
          \/ SetUpNumber(accessory, v) \/ SetUpSwitch(accessory, v) \/ SetUpSelect(accessory, v)
          \/ SetUpSensor(accessory, v) \/ SetUpBinary(accessory, v) \/ SetUpButton(accessory, v)
    \/ \E reading \in Readings, limit \in LimitsNext, on, rollback \in BOOLEAN,
          v \in Values \cup {Unknown} :
          /\ reading = Unreported => store.reading = Unreported
          /\ control.at # "pending" => v = Unknown
          /\ Update(reading, limit, on, rollback, v)
    \/ \E v \in Values : SetNumber(v) \/ TurnSwitch(v) \/ SelectOption(v)
    \/ LockLapses \/ LinkChanges
    \/ \E limit \in 1..High : LimitSet(limit)

-----------------------------------------------------------------------------
\* After an update that reached it past the optimistic lock, Home Assistant shows
\* the entity as it is, value, availability and bounds, and an accessory that has
\* reported has its entity: no change is swallowed by the gate ("an availability flip
\* with an unchanged value must still reach the state machine"), by the lock after a
\* rollback, or by the bounds' own comparison ("a battery-limit change would otherwise
\* leave stale bounds published").
PublishedCurrent ==
    settled => /\ control.at = "here" => Same(ha, State)
               /\ Reported(store.reading) => control.at = "here"
=============================================================================
