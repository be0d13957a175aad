---------------------------- MODULE FrameReadings ----------------------------
(* Devices that send what has changed.  A frame holds some of the fields, and  *)
(* _apply_data merges what a parser reads from it into what came before, so a  *)
(* field that is left out keeps its reading: right for a value that did not    *)
(* change, wrong for one the device has no more to say about.  One device of   *)
(* each family with a rule for that: a smart plug whose relay is off, a WAVE 3 *)
(* that changes its mode, a storage channel of a Smart Home Panel 2, the       *)
(* remaining times of a DELTA 3, the power blocks of an Ocean 2, and the       *)
(* system block of a STREAM in a group.                                        *)
EXTENDS Integers

CONSTANTS
    FlagsTogether,   \* a panel sends both flags of a channel when one changes
    TimesWithState,  \* a DELTA 3 sends both times with the direction
    MaxChanges

VARIABLES
    family,    \* the device
    device,    \* what it does
    told,      \* what it said of each field last
    shown,     \* _device_data
    lastCurrent,   \* _plug_last_current_a
    changes

readingVars == <<family, device, told, shown, lastCurrent, changes>>

None == -100     \* a reading that was taken back; numbers beside it
Families == {"plug", "wave3", "panel", "delta3", "ocean2", "stream"}

\* What a device of each family may do.  A smart plug draws its load while its relay is on;
\* a panel's channel is ready or connected while a battery is in it.
Devices == [
    plug   |-> [relay : 0..1, load : 1..2],
    wave3  |-> [mode : 0..1, cooling : 1..2, fan : 1..2],
    panel  |-> [ready : 0..1, connected : 0..1, level : 1..2],
    delta3 |-> [charges : 0..1, full : 1..2, empty : 1..2],
    ocean2 |-> [power : {-1, 0, 1}],
    stream |-> [leads : 0..1, charge : 0..1, load : 0..1]]

\* How it says so.  Block 65.20 of an Ocean 2 has the other sign; a unit of a group that
\* does not work out the system block sends it as zeros.
Wire(f, d) ==
    CASE f = "plug"   -> [switch |-> d.relay, current |-> d.relay * d.load]
      [] f = "wave3"  -> [mode |-> d.mode, list |-> <<d.cooling, d.fan>>]
      [] f = "panel"  -> [ready |-> d.ready, connected |-> d.connected, level |-> d.level]
      [] f = "delta3" -> [state |-> d.charges, charging |-> d.full, discharging |-> d.empty]
      [] f = "ocean2" -> [flow |-> d.power, summary |-> 0 - d.power]
      [] f = "stream" -> [unit |-> <<d.charge, d.leads * d.charge, d.leads * d.load>>]

Fields(f) == DOMAIN Wire(f, CHOOSE d \in Devices[f] : TRUE)

\* A plug says nothing of the current while its relay is off.
Says(field, d) == ~(family = "plug" /\ field = "current" /\ d.relay = 0)
Unsaid == {x \in Fields(family) :
              Says(x, device) /\ (x \in DOMAIN told => told[x] # Wire(family, device)[x])}

ReadingsInit ==
    /\ family \in Families /\ device \in Devices[family]
    /\ told = [x \in {} |-> 0] /\ shown = [x \in {} |-> 0]
    /\ lastCurrent = None /\ changes = 0

-----------------------------------------------------------------------------
(* The parsers.  A frame is a function of the fields it holds.                 *)

Has(frame, x) == x \in DOMAIN frame
Nil == [x \in {} |-> 0]
One(reading, value) == [x \in {reading} |-> value]
\* What came before, with the new merged into it.
Merged(new, old) ==
    [x \in DOMAIN new \cup DOMAIN old |-> IF x \in DOMAIN new THEN new[x] ELSE old[x]]
Taken(frame, x) == IF Has(frame, x) THEN One(x, frame[x]) ELSE Nil
Latest(frame, x, old) ==
    IF Has(frame, x) THEN frame[x] ELSE IF x \in DOMAIN shown THEN shown[x] ELSE old

\* _hold_plug_current_while_off
RememberedCurrent(frame) == IF Has(frame, "current") THEN frame["current"] ELSE lastCurrent
HeldCurrent(frame) ==
    LET relay == Latest(frame, "switch", None)
        last == RememberedCurrent(frame)
    IN  CASE relay = 0 -> One("current", 0)
          [] relay = 1 /\ last # None -> One("current", last)
          [] OTHER -> Taken(frame, "current")
PlugReadings(frame) == Merged(HeldCurrent(frame), Taken(frame, "switch"))

\* resolve_active_mode, from all that was read so far.
TargetOfFrame(frame) ==
    IF Has(frame, "mode") /\ Has(frame, "list") THEN One("target", frame["list"][frame["mode"] + 1]) ELSE Nil
ActiveTarget(frame) ==
    IF ~Has(frame, "mode") /\ "mode" \notin DOMAIN shown THEN Nil
    ELSE LET list == IF Has(frame, "list") THEN frame["list"]
                     ELSE IF "list" \in DOMAIN shown THEN shown["list"] ELSE <<None, None>>
         IN  One("target", list[Latest(frame, "mode", None) + 1])
Wave3Readings(frame) ==
    Merged(ActiveTarget(frame), Merged(Taken(frame, "mode"), Taken(frame, "list")))

\* _parse_push: a channel that is in use publishes its level, one whose flags both say no takes it back.
InUse(frame) == \E x \in {"ready", "connected"} : Has(frame, x) /\ frame[x] = 1
NeverUnplugged(frame) == FALSE
Unplugged(frame) == \A x \in {"ready", "connected"} : Has(frame, x) /\ frame[x] = 0
PanelReadings(frame) ==
    IF InUse(frame) THEN Taken(frame, "level")
    ELSE IF Unplugged(frame) THEN One("level", None) ELSE Nil

\* parse_delta3_http_quota: a time counts for the direction the frame names.
TimeOf(frame, x, direction) ==
    IF ~Has(frame, "state") \/ ~Has(frame, x) THEN Nil
    ELSE One(x, IF frame["state"] = direction THEN frame[x] ELSE None)
Delta3Readings(frame) ==
    Merged(TimeOf(frame, "charging", 1),
           Merged(TimeOf(frame, "discharging", 0), Taken(frame, "state")))

\* _parse_telemetry and _finalize: both directions are written whenever one is read.
BatteryPower(frame) == IF Has(frame, "flow") THEN frame["flow"] ELSE 0 - frame["summary"]
Halves(w) == [charge |-> IF w > 0 THEN w ELSE 0, discharge |-> IF w < 0 THEN 0 - w ELSE 0]
Ocean2Readings(frame) ==
    LET w == BatteryPower(frame) IN Merged(Halves(w), One("power", w))

\* _finalize_stream_state: a system charge of zero beside a unit's own is no reading.
Follows(frame) == frame["unit"][2] = 0 /\ frame["unit"][1] > 0
StreamReadings(frame) == One("load", IF Follows(frame) THEN None ELSE frame["unit"][3])

ReadingsOf(frame) ==
    CASE family = "plug"   -> PlugReadings(frame)
      [] family = "wave3"  -> Wave3Readings(frame)
      [] family = "panel"  -> PanelReadings(frame)
      [] family = "delta3" -> Delta3Readings(frame)
      [] family = "ocean2" -> Ocean2Readings(frame)
      [] family = "stream" -> StreamReadings(frame)

-----------------------------------------------------------------------------
Change ==
    /\ changes < MaxChanges /\ changes' = changes + 1
    /\ device' \in Devices[family] \ {device}
    /\ UNCHANGED <<family, told, shown, lastCurrent>>

\* What a frame may hold: the changed fields and any others.
Flags == {"ready", "connected"}
FlagsWhole(sent) == FlagsTogether /\ sent \cap Flags # {} => Flags \subseteq sent
TimesWhole(sent) == TimesWithState /\ "state" \in sent => Fields("delta3") \subseteq sent

FrameArrives ==
    \E sent \in (SUBSET Fields(family)) \ {{}} :
        /\ FlagsWhole(sent) /\ TimesWhole(sent)
        /\ LET frame == [x \in sent |-> Wire(family, device)[x]]
           IN /\ told' = Merged(frame, told)
              /\ shown' = Merged(ReadingsOf(frame), shown)
              /\ lastCurrent' = IF family = "plug" THEN RememberedCurrent(frame) ELSE lastCurrent
        /\ UNCHANGED <<family, device, changes>>

ReadingsNext == Change \/ FrameArrives

-----------------------------------------------------------------------------
Shows(x, value) == x \in DOMAIN shown /\ shown[x] = value
Silent(x) == x \in DOMAIN shown => shown[x] = None

PlugRight == Shows("current", device.relay * device.load)
Wave3Right == Shows("target", IF device.mode = 0 THEN device.cooling ELSE device.fan)
PanelRight == device.ready + device.connected = 0 => Silent("level")
Delta3Right == Silent(IF device.charges = 1 THEN "discharging" ELSE "charging")
Ocean2Right == Shows("power", device.power)
StreamRight == device.leads = 0 /\ device.charge > 0 => Silent("load")

\* The two halves of a signed power, which are summed apart, never run on side by side.
HalvesAgree ==
    "power" \in DOMAIN shown =>
        /\ shown["charge"] - shown["discharge"] = shown["power"]
        /\ shown["charge"] = 0 \/ shown["discharge"] = 0

\* Once a device has nothing left to say, whatever its frames held: a plug that is off
\* shows no current and one that is on its load, a WAVE 3 the setpoint of the mode it is
\* in, a panel no level of a battery that is gone, a DELTA 3 no time for the direction it
\* does not run in, an Ocean 2 its power, and a unit that follows no load of the house.  What an Ocean 2
\* charges and discharges is its power at any time (_apply_data merging the parsers' readings).
ReadingsRight ==
    /\ HalvesAgree
    /\ Unsaid = {} =>
          CASE family = "plug"   -> PlugRight
            [] family = "wave3"  -> Wave3Right
            [] family = "panel"  -> PanelRight
            [] family = "delta3" -> Delta3Right
            [] family = "ocean2" -> Ocean2Right
            [] family = "stream" -> StreamRight
=============================================================================
