---------------------------- MODULE SettingFrames ----------------------------
(* What the frame of one setting carries, and what the device makes of it      *)
(* (ecoflow/energy_stream.py, delta3_commands.py, wave3_commands.py,           *)
(* ocean2_commands.py, stream_ac5000_commands.py, and the writes of            *)
(* coordinator/set_commands.py that build from them).  Some settings travel    *)
(* alone, some only as a group, some as bits or bytes of one value, some       *)
(* express "off" by being absent: every frame says something about settings    *)
(* nobody asked to change, and takes that from what the device last reported.  *)
(* ConfigWrites says when such a write may run beside others; here one write   *)
(* is under way at a time, and the owner uses the app beside it.               *)
EXTENDS Naturals

CONSTANTS
    Unreported,   \* the store's value of a setting no report has brought
    NoFrame,
    Top           \* the settings take 0..Top, a switch 0 and 1

VARIABLES
    form,      \* the group of settings the device has
    settings,  \* the device's values
    known,     \* the store's: as last reported, or as last written
    outgoing,  \* the frame under way: what was asked, and its fields
    fresh,     \* a settings report has come since the last write left
    edited     \* history: settings the owner has changed since the last report

frameVars == <<form, settings, known, outgoing, fresh, edited>>

SettingsOf ==
    [timer   |-> {"armed", "power", "plan"},
     feed    |-> {"armed", "power", "plan", "repeat"},
     limits  |-> {"reserve", "app", "ems"},
     plus    |-> {"reserve", "app"},
     stream  |-> {"charge", "discharge", "reserve"},
     pile    |-> {"solarBit", "priceBit", "led", "level"},
     current |-> {"custom", "max", "mode"},
     relayed |-> {"running"},
     own     |-> {"running", "current"},
     rod     |-> {"run", "temp"},
     delta3  |-> {"acPower", "mode", "limited", "cutoff"},
     band    |-> {"lower", "upper"},
     grid    |-> {"output", "input", "field4"},
     ocean2  |-> {"reserve", "ratio"},
     ocean2follows |-> {"reserve", "ratio", "storm"}]

Forms == DOMAIN SettingsOf
Settings == SettingsOf[form]

\* The integration writes these; the others only the app does.
Written == Settings \ {"plan", "repeat", "ems", "field4", "ratio"}

Switches == {"armed", "running", "solarBit", "priceBit", "limited", "run", "storm"}
ValuesOf(x) == IF x \in Switches THEN 0..1 ELSE 0..Top

\* One setting may be missing from the store, none may be wrong yet.  A task is
\* reported whole, so its repeat is not missing alone.
FramesInit ==
    /\ form \in Forms
    /\ settings \in [Settings -> 0..Top] /\ \A x \in Settings : settings[x] \in ValuesOf(x)
    /\ \E missing \in {{}} \cup {{s} : s \in Settings \ {"repeat"}} :
           known = [s \in Settings |-> IF s \in missing THEN Unreported ELSE settings[s]]
    /\ outgoing = NoFrame /\ fresh = TRUE /\ edited = {}

\* A frame's body: its fields with their values.  A zero is a value: it is
\* written, and only the two builders below leave one out.
Field(s, v) == [x \in {s} |-> v]
Asked(these, s, v) == [x \in these |-> IF x = s THEN v ELSE known[x]]

-----------------------------------------------------------------------------
(* The schedules of a PowerOcean.  "Off" is the missing flag, and a full body  *)
(* without the flag disarms the task.                                          *)

ArmFlag(on) == IF on = 1 THEN {"armed"} ELSE {}

\* (faulty: the power change leaves the flag to a second frame)
TimerFrameBare(s, v) == Asked(IF s = "armed" THEN ArmFlag(v) ELSE {"power", "plan"}, s, v)
TimerFrame(s, v) ==
    Asked(IF s = "armed" THEN ArmFlag(v) ELSE {"power", "plan"} \cup ArmFlag(known["armed"]), s, v)

\* A daily task has no repeat parameter: the report says so, and 0 stands for it.
RepeatParam == IF known["repeat"] = 0 THEN {} ELSE {"repeat"}
FeedFrame(s, v) ==
    Asked(IF s = "armed" THEN ArmFlag(v)
          ELSE {"power", "plan"} \cup RepeatParam \cup ArmFlag(known["armed"]), s, v)

\* What must have been reported: the flag, and what a full body hands back.
TimerEchoed(s) == IF s = "armed" THEN {"armed"} ELSE {"armed", "plan"}
FeedEchoed(s) == IF s = "armed" THEN {"armed"} ELSE {"armed", "plan"}

(* The battery limits of a PowerOcean: one surplus value for the app and for   *)
(* the EMS, which the Plus family does not have; moving one slider past the    *)
(* other takes the other along.                                                *)

LimitPair(s, v) ==
    IF s = "reserve" THEN <<v, IF known["app"] > v THEN known["app"] ELSE v>>
    ELSE <<IF known["reserve"] < v THEN known["reserve"] ELSE v, v>>

\* (faulty: the surplus is written to the app's field alone on every model)
LimitsFrameApp(s, v) ==
    LET pair == LimitPair(s, v) IN [reserve |-> pair[1], app |-> pair[2]]
LimitsFrame(s, v) ==
    LET pair == LimitPair(s, v)
    IN IF form = "plus" THEN [reserve |-> pair[1], app |-> pair[2]]
       ELSE [reserve |-> pair[1], app |-> pair[2], ems |-> pair[2]]

LimitPartner(s) == IF s = "reserve" THEN {"app"} ELSE {"reserve"}

(* The limits of a BK-series Stream: the reserve travels alone, the limits     *)
(* only as a group of three.                                                   *)

StreamReserveFrame(v) == Field("reserve", v)
StreamLimitsFrame(s, v) == Asked({"charge", "discharge", "reserve"}, s, v)
StreamLimitsInOrder(s, v) ==
    LET body == StreamLimitsFrame(s, v) IN body["discharge"] <= body["charge"]

(* A wallbox: all switches in one byte, the display in one block, and the      *)
(* settings that travel alone; its charge action has one code on each route.   *)

SwitchBits(s, v) == Asked({"solarBit", "priceBit"}, s, v)
\* (faulty: the other half of the block is sent as zero)
DisplayBlockBare(s, v) == [x \in {"led", "level"} |-> IF x = s THEN v ELSE 0]
DisplayBlock(s, v) == Asked({"led", "level"}, s, v)

MaxCurrentFrame(v) == Field("max", v)
ModeFrame(v) == Field("mode", v)
CustomCurrentFrame(v) == Field("custom", v)
CustomInRange(v) == known["max"] # Unreported => v <= known["max"]

RelayedCodes == <<1, 2>>           \* of stop and start
OwnCodes == <<2, 1>>
RelayedAction(v) == Field("onOff", RelayedCodes[v + 1])
OwnAction(v) == Field("chargeCtrl", OwnCodes[v + 1])
OwnCurrent(v) == [current |-> v, workMode |-> 2]

(* The heating rod: exactly one setting per frame, the zero explicit.          *)
RodFrame(s, v) == Field(s, v)

(* A Delta 3: charge power and charge mode only together, as custom; a port's  *)
(* flag and cutoff in one item; everything else alone.                         *)

Custom == 0
ChargePowerFrame(v) == [acPower |-> v, mode |-> Custom]
PortItem(s, v) == Asked({"limited", "cutoff"}, s, v)

(* A Wave 3's temperature band, an AC 5000's grid power, an Ocean 2's reserve. *)
BandFrame(s, v) == Asked({"lower", "upper"}, s, v)
BandWideEnough(s, v) == LET body == BandFrame(s, v) IN body["upper"] >= body["lower"] + 1

GridOutputFrame(v) == Asked({"output", "field4"}, "output", v)
GridInputFrame(v) == Field("input", v)

\* The ceiling goes up with the reserve on the models where it follows.
Ratio(v) == IF form = "ocean2follows" /\ v > known["ratio"] THEN v ELSE known["ratio"]
Ocean2ReserveFrame(v) == [reserve |-> v, ratio |-> Ratio(v)]
Ocean2StormFrame(v) == Field("storm", v)
UnderRatio(v) == form = "ocean2follows" \/ v <= known["ratio"]

-----------------------------------------------------------------------------
\* What a write needs to have been reported, or it is refused.
Needs(s) ==
    CASE form = "timer" -> TimerEchoed(s)
      [] form = "feed" -> FeedEchoed(s)
      [] form \in {"limits", "plus"} -> LimitPartner(s)
      [] form = "stream" /\ s # "reserve" -> Settings
      [] s \in {"solarBit", "priceBit"} -> {"solarBit", "priceBit"}
      [] s \in {"led", "level"} -> {"led", "level"}
      [] s \in {"limited", "cutoff"} -> {"limited", "cutoff"} \ {s}
      [] form = "band" -> {"lower", "upper"} \ {s}
      [] s = "output" -> {"field4"}
      [] form \in {"ocean2", "ocean2follows"} /\ s = "reserve" -> {"ratio"}
      [] OTHER -> {}

Accepts(s, v) ==
    CASE form = "stream" /\ s # "reserve" -> StreamLimitsInOrder(s, v)
      [] s = "custom" -> CustomInRange(v)
      [] form = "band" -> BandWideEnough(s, v)
      [] form \in {"ocean2", "ocean2follows"} /\ s = "reserve" -> UnderRatio(v)
      [] OTHER -> TRUE

Body(s, v) ==
    CASE form = "timer" -> TimerFrame(s, v)
      [] form = "feed" -> FeedFrame(s, v)
      [] form \in {"limits", "plus"} -> LimitsFrame(s, v)
      [] form = "stream" /\ s = "reserve" -> StreamReserveFrame(v)
      [] form = "stream" /\ s # "reserve" -> StreamLimitsFrame(s, v)
      [] s \in {"solarBit", "priceBit"} -> SwitchBits(s, v)
      [] s \in {"led", "level"} -> DisplayBlock(s, v)
      [] s = "custom" -> CustomCurrentFrame(v)
      [] s = "max" -> MaxCurrentFrame(v)
      [] s = "mode" -> ModeFrame(v)
      [] form = "relayed" -> RelayedAction(v)
      [] form = "own" /\ s = "running" -> OwnAction(v)
      [] form = "own" /\ s = "current" -> OwnCurrent(v)
      [] form = "rod" -> RodFrame(s, v)
      [] s = "acPower" -> ChargePowerFrame(v)
      [] s \in {"limited", "cutoff"} -> PortItem(s, v)
      [] form = "band" -> BandFrame(s, v)
      [] s = "output" -> GridOutputFrame(v)
      [] s = "input" -> GridInputFrame(v)
      [] form \in {"ocean2", "ocean2follows"} /\ s = "reserve" -> Ocean2ReserveFrame(v)
      [] s = "storm" -> Ocean2StormFrame(v)

\* The wallbox's bits and block are built from a report that came after the last
\* write, an Ocean 2's from a snapshot it answers; both ends of a band come from
\* one call (premise: or from a report as recent).
FromReport == form \in {"pile", "band", "ocean2", "ocean2follows"}

\* Where a write is not confirmed by a report, the store takes what was sent (of a
\* Delta 3's frame only what was asked).
SeedsStore == form \in {"timer", "feed", "limits", "plus", "stream", "delta3", "grid"}

Ask(s, v) ==
    /\ outgoing = NoFrame
    /\ FromReport => fresh
    /\ \A x \in Needs(s) : known[x] # Unreported
    /\ Accepts(s, v)
    /\ outgoing' = [setting |-> s, value |-> v, body |-> Body(s, v)]
    /\ fresh' = FALSE
    /\ UNCHANGED <<form, settings, known, edited>>

\* The device applies the body.  A task's flag is off when it is missing (a zero
\* in its place changes nothing), and so is the repeat of a full body; an
\* incomplete group is dropped without an answer.
Incomplete(body) ==
    \/ form = "stream" /\ DOMAIN body # {"reserve"} /\ DOMAIN body # Settings
    \/ form = "delta3" /\ "acPower" \in DOMAIN body /\ "mode" \notin DOMAIN body

TaskTakes(body, x) ==
    IF x = "armed" THEN IF x \notin DOMAIN body THEN 0 ELSE IF body[x] = 0 THEN settings[x] ELSE 1
    ELSE IF x \in DOMAIN body THEN body[x]
    ELSE IF x = "repeat" /\ "plan" \in DOMAIN body THEN 0 ELSE settings[x]

Takes(body, x) ==
    CASE form \in {"timer", "feed"} -> TaskTakes(body, x)
      [] x = "running" /\ "onOff" \in DOMAIN body -> body["onOff"] - 1
      [] x = "running" /\ "chargeCtrl" \in DOMAIN body -> 2 - body["chargeCtrl"]
      [] OTHER -> IF x \in DOMAIN body THEN body[x] ELSE settings[x]

DeviceTakes ==
    /\ outgoing # NoFrame
    /\ settings' = IF Incomplete(outgoing.body) THEN settings
                   ELSE [x \in Settings |-> Takes(outgoing.body, x)]
    /\ known' = [x \in Settings |->
                    IF ~SeedsStore THEN known[x]
                    ELSE IF x = outgoing.setting THEN outgoing.value
                    ELSE IF x \in DOMAIN outgoing.body /\ form # "delta3" THEN outgoing.body[x]
                    ELSE known[x]]
    /\ outgoing' = NoFrame
    /\ edited' = edited \ (DOMAIN outgoing.body \cup {outgoing.setting})
    /\ UNCHANGED <<form, fresh>>

FrameLost ==
    /\ outgoing # NoFrame /\ outgoing' = NoFrame
    /\ UNCHANGED <<form, settings, known, fresh, edited>>

\* A report brings every setting; it is not under way while a write is (see
\* ConfigWrites for the ones that are).
ReportComes ==
    /\ outgoing = NoFrame
    /\ known' = settings /\ fresh' = TRUE /\ edited' = {}
    /\ UNCHANGED <<form, settings, outgoing>>

OwnerEdits(x, v) ==
    /\ edited \subseteq {x} /\ settings[x] # v
    /\ settings' = [settings EXCEPT ![x] = v]
    /\ edited' = {x}
    /\ UNCHANGED <<form, known, outgoing, fresh>>

FramesNext ==
    \/ \E s \in Written : \E v \in ValuesOf(s) : Ask(s, v)
    \/ DeviceTakes \/ FrameLost \/ ReportComes
    \/ \E x \in Settings : \E v \in ValuesOf(x) : OwnerEdits(x, v)

-----------------------------------------------------------------------------
\* Settings that move with the asked one by design: the pair of limits may not
\* cross and has one surplus, a charge power means the custom mode, an Ocean 2's
\* ceiling stays above its reserve.
MovesAlong(s, v) ==
    CASE form \in {"limits", "plus"} ->
            {"ems"} \cup {x \in {"reserve"} : settings[x] > v} \cup {x \in {"app"} : settings[x] < v}
      [] s = "acPower" -> {"mode"}
      [] form = "ocean2follows" /\ s = "reserve" -> {x \in {"ratio"} : settings[x] < v}
      [] OTHER -> {}

\* A frame the device takes sets what was asked, and leaves every other setting as
\* it is unless the owner has changed it since the last report: a companion that is
\* left out, sent as zero, guessed, or taken from a stale copy moves one nobody
\* touched ("a full body clears the enable flag, so the caller has to say whether
\* to carry it").
NothingElseMoves ==
    [][DeviceTakes =>
        /\ settings'[outgoing.setting] = outgoing.value
        /\ \A x \in Settings \ ({outgoing.setting} \cup edited
                                  \cup MovesAlong(outgoing.setting, outgoing.value)) :
               settings'[x] = settings[x]
        /\ form = "limits" /\ "ems" \notin edited => settings'["ems"] = settings'["app"]
      ]_frameVars
=============================================================================
