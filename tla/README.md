# Formal models of ecoflow-energy-ha

TLA+ modules for the Home Assistant integration in
`src/custom_components/ecoflow_energy/` (below: `B/`), the TLC configurations
that check them on small instances, and TLAPS proofs of what matters most for
every value of their constants.

The integration drives EcoFlow devices. One *coordinator* per device keeps the
device's last values, receives frames over MQTT (a Paho network thread), polls
over HTTP or Modbus, and sends settings. Entities read the coordinator's store.
Three kinds of thread meet in it: Home Assistant's event loop, the executor
workers that run blocking calls, and Paho's network thread. Everything on the
event loop is atomic from one `await` to the next, and the models' steps follow
that: one action is one handler up to its next `await`, lock or thread change.

## 1. Inventory

| component | state it keeps | what is hard | what makes it correct | modules |
|---|---|---|---|---|
| Battery-limit write cycle, `B/coordinator/set_commands.py` 404-746 | pending pair, timer, revisions, outcome, rollback baseline | several publishes in flight, out of order, failing, cancelled; unload meanwhile | the sliders never stay on a value the device did not take; every cycle is resolved | SocCycle, SocSliders |
| Entities, `B/number.py`, `switch.py`, `select.py`, `sensor.py`, `binary_sensor.py`, `button.py`, `entity.py` | optimistic value and lock, last written value, bounds | an update swallowed by a lock or by the write gate; an accessory that reports late | Home Assistant shows what the store holds | SocSliders, SettingControls |
| Climate entity, `B/climate.py` | the mode it waits for | a set point sent while the unit still switches modes | the set point lands | WaveClimate |
| MQTT wrapper, `B/ecoflow/cloud_mqtt.py` | Paho client, `connected`, certificate, broker, attempts, lock | reconnects overlapping on workers, callbacks from the network thread | one live client; the connection comes back | MqttLink |
| Sign-in and certificates, `B/coordinator/setup.py`, `credentials.py`, `B/ecoflow/app_api.py`, `enhanced_auth.py`, `iot_api.py` | token, host, cached certificate | hosts that refuse, err or are silent; three requests at once | the newest certificate arrives; the user is asked only after an answer | SignIn, CloudLink |
| Watchdog and polls, `B/coordinator/availability.py`, `http_poll.py` | stale stage, failure and refusal counts | silence, failures and pushes that reset one another | a device is unavailable only when nothing vouches for it | Availability |
| Energy counters, `B/ecoflow/energy_integrator.py`, `state_apply.py` 1034-1251 | total, candidate, dirty mark, state file | glitches both ways, half-written files, saves on another thread | what is shown falls only on two readings that agree | EnergyTotals |
| Derived readings, `state_apply.py` | state of charge, battery state and its timer | figures that come alone or together, silence | no figure stands in for a better one | DerivedReadings |
| Linked units, `state_apply.py` 146-365, `parsers/stream_ac5000_proto.py` | claims, signs, hand-overs | two coordinators and several connections | the sign is the unit's own | LinkedUnits |
| Ingest and parsers, `B/coordinator/mqtt_ingest.py`, `B/ecoflow/parsers/`, `B/ecoflow/proto/` | serial numbering, schedule list, last frame | bundles, duplicate copies, partial frames, two threads | a reading is the newest one of its own device part | PowerOceanFrames, FrameReadings |
| Wallbox settings and charging, `set_commands.py`, `state_apply.py` 396-554 | tickets, pending record, latest report, wake event | one byte for three switches, a queue, lost wake-ups, lagging reports | a confirmed switch stays, others are left alone, every call ends, a press reported done happened | SettingsQueue, ReadBack, WallboxActions |
| Heating rods, `set_commands.py` | the same pending record | two rods share the PowerOcean's keys | the mode confirmed is the rod's | RodWrites |
| Ocean 2 writes, `set_commands.py` 1219-1555 | record per key, read-back timers | answers crossing timers, refusals from another thread | unconfirmed values are put back, refused ones not shown | OptimisticValue, Ocean2Write |
| Settings that share a frame, `set_commands.py` 948-1836, `B/ecoflow/energy_stream.py`, `*_commands.py` | config lock, schedule latch, task list | a stale companion, a failed second frame, absent fields that mean "off" | no other setting moves | ConfigWrites, TaskWrites, SettingFrames |
| Surplus auto-sync, `state_apply.py` 841-1032 | record, echoes, grace, throttle | alternation of user, app and EMS | it gives up; it never drags back | SurplusSync |
| Local Modbus, `B/coordinator/local_modbus.py`, `modbus_link.py`, `B/repairs.py` | heartbeat task, window, held counters, notices | a beat acknowledged too late, polls beside settings | the switch is honest, a meter never falls | LocalControl, LocalReadings |
| Entry lifecycle, `B/__init__.py`, `B/device_probe.py` | coordinators, probes, capture window | partial failure, a probe's reconnect thread | nothing is left running, a capture ends | EntryLifecycle |
| Dialogs, `B/config_flow*.py` | what each read when it opened | several dialogs open at once | an entry has what its mode needs, and serves it | EntryFlows |
| Charging history, `B/charging_history.py`, `B/ecoflow/charging_history.py`, `app_api.py` | ledgers, limits | lost writes, damage, restarts, clock changes | no order lost, the cloud is spared | ChargingHistory |
| Raw capture, `B/ecoflow/frame_capture.py` | buckets, samples, counts | caps, a clock set back | kept and dropped add up | FrameBuffer |

Keepalive timers, diagnostics and the definition tables and texts have no
protocol of their own. `PROJECT.json` lists every component with its status.

How they interact: frames reach a coordinator through the ingest (network
thread), which hands readings to the event loop; applying them feeds the
counters, the derived readings, the auto-sync, the confirmation of pending writes
and the entities. A service call goes from an entity to a setter, which waits in
the executor for the broker's acknowledgement and on the event loop for a
report. The watchdog, the credential refresh and the shutdown act on the
connection those writes use.

## 2. How the project is built

Each component is a module of its own, with its state, an initial predicate, one
action per handler and its properties. Components that share state are composed
directly: SocSliders extends SocCycle; WallboxActions and RodWrites extend
ReadBack; Ocean2Write, ConfigWrites and TaskWrites share the config lock and
the shutdown in DeviceWrites.

Components that a coordinator never has at once, or that share no state, are
composed by a *selector* variable that says which of them a behaviour follows;
the others stay in one state. This costs the sum of their state spaces, not the
product, and loses nothing, since no action reads another part's variables.

| module | selector | parts |
|---|---|---|
| CloudLink | `followed` | MqttLink, SignIn |
| DeviceValues | `followed` | EnergyTotals, DerivedReadings, LinkedUnits, PowerOceanFrames, FrameReadings |
| DeviceReads | `followed` | SurplusSync, Availability, FrameBuffer, LocalControl, LocalReadings, SettingControls |
| DeviceWrites | `family` | Ocean2Write, ConfigWrites, TaskWrites, SettingFrames, WaveClimate |
| ConfirmedWrites | `followed` | SettingsQueue, WallboxActions, RodWrites |
| AccountEntry | `part` | EntryLifecycle, ChargingHistory, EntryFlows |

Conventions. Definitions marked "(faulty: ...)" belong to no specification: each
is a plausible bug in the definition after it, and the property `PROJECT.json`
names beside it fails when it takes that definition's place. A *premise* is a
constant that restricts the environment; with it switched off the property named
beside it in section 5 fails, which shows what the code relies on. A *history*
variable records the past and guards nothing.

### What each module abstracts

- **SocCycle**, **SocSliders**. Request revision *r* is also the name of the
  flush and of the executor job that carry it; writer 0 is the auto-sync's
  direct write. `wire` is a set of published frames: the device may apply them in
  any order, late or never. Levels are a few integers.
- **MqttLink**. `client` is what the Paho object holds. A worker's `job` is its
  position in `try_reconnect` / `force_reconnect`. Certificates and brokers are
  numbered and only the newest pair is accepted. Subscriptions, topics and a
  Paho constructor that fails are left out.
- **SignIn**. A host is up, answers with an error, or is silent; it knows the
  account or not. `signing` holds what the setup, the refresh and the rotation
  are at. With keys, the device is one whose client reports refusals.
- **EnergyTotals**. One counter; `pc` gives the two saving threads their steps
  (snapshot, truncate, write, clear the mark). Power counts in the energy it adds
  per interval; elapsed time is short, normal or a gap. Rounding is left out.
- **DerivedReadings**, **LinkedUnits**, **PowerOceanFrames**, **FrameReadings**.
  Readings are few values; a frame is the set of fields it holds. In
  LinkedUnits the run has AC 5000 units only (`Streams = {}`). Packs are numbered
  by serial; those without one fall back to their position, and the JSON path
  numbers by sorted key, which is left out.
- **SettingsQueue**. A pass through the locked section is one step unless it
  sends; the settings byte is a function from switches to BOOLEAN. Calls' slots
  are reused, so a behaviour has any number of calls.
- **ReadBack**, **WallboxActions**, **RodWrites**. One record at a time;
  `since` is the history of what the written setting was since the record was
  made.
- **Ocean2Write**. The device and the app are any frame and any refusal at any
  time; the reserve's companion is whether a frame carried it.
- **ConfigWrites**, **TaskWrites**, **SettingFrames**. A setting is a level or a
  flag; a frame is what it says about each setting. Builders of
  `energy_stream.py` that nothing calls (the legacy SoC limit, feed mode and
  power, the backup event) are left out.
- **WaveClimate**. Frames keep their order, so what the unit makes of one is
  decided as it is sent.
- **SurplusSync**, **Availability**. Percentages are compared for equality only;
  time is in ticks of the check interval.
- **FrameBuffer**. The buffer as a probe uses it; a slot's width is in fractions
  of a tick.
- **LocalControl**, **LocalReadings**. A tick happens only when nothing due is
  left; a poll's verdict is any. Register decoding is left out.
- **SettingControls**. One entity of any platform with one reading: a number's
  bounds follow another entity or another unit.
- **EntryLifecycle**, **EntryFlows**, **ChargingHistory**. An order is one unit
  of energy; a dialog is what it holds between two awaits. In EntryFlows the
  options for raw capture and vehicle energy are only changes of the entry's
  data; the removal of an entry is left out.

## 3. Runs

| run | instance | what it shows |
|---|---|---|
| soc_cycle | 3 requests, 1 auto-sync write or change in the app | the baseline and the sliders hold only values the device took (`ShownTaken`); after an unload only the device's reports change anything (`FrozenByShutdown`) |
| soc_sliders | 2 requests, 1 auto-sync write, fairness | every cycle resolves; a rollback reaches the sliders at once |
| mqtt_link | 2 workers, 2 attempts, 1 outage, 1 renewal with a move, an unload; 2 hosts, 1 renewal, 2 troubles; fairness | one client at a time, it comes back; the user is asked rightly, the newest certificate arrives |
| mqtt_standard_broker | developer keys, broker moves | **violation**, finding 1 |
| values | totals 40, 43, 100, 500 (implausible), powers 2, 90 (implausible), 3 frames, 1 crash, 1 stop, 1 failed save; 2 units; 2 packs and inverters; 3 changes | counters, state of charge, battery state, signs, numbering, partial frames |
| energy_placeholder | a power reading, then a total | **violation**, finding 2 |
| queue | 2 callers, 2 switches, 2 levels, 2 rods, 2 writes and 1 report under way | what is confirmed happened and stands, the newest choice is sent, other switches are untouched |
| queue_live | 2 callers, 1 switch, no premise on late writes, fairness | every call ends |
| writes | 2 calls, 2 levels, 2 reports, 2 frames, 3 task slots | no other setting moves; the AC 5000 never has two whole-day tasks; Ocean 2 refines OptimisticValue; a set point lands |
| reads | 3 percentages, 2 telemetry and 3 write types, 4 switch calls, 2 settings | the auto-sync gives up; availability, recording, switch, notices, meter and entity are honest |
| account | 2 coordinators, 4 probes; 2 chargers, 2 orders; 2 entries, 2 dialogs, 3 openings | nothing is left running, captures end, orders stay, the cloud is spared, entries are whole |
| entry_capture | a setup that outlasts the capture window | **violation**, finding 3 |

Why the bounds are enough. Three requests give an older publish that ends after a
newer one with a third behind them, the least that tells "newest", "latest" and
"any" apart. Two workers are the least that overlap, and the lock admits no
third. Two attempts let a cycle of attempts be used up and reopen. Three frames
are a reading, a jump and its confirmation, or a reading before a restart and two
after it. Two callers let one send while the other queues behind it, is woken,
replaces it or is cancelled. Five frames fill a bucket, thin it and evict a type.
Two hosts give every mixture of knowing and not knowing an account. Three changes
of a device let one be missed, made good and missed again. Two entries and two
dialogs give a crossing of any two; three openings let a third follow it.
`CHECK_DEADLOCK FALSE` is set where the bounds can be used up or the entry
unloaded, so the system may really stop. Symmetry is used in safety runs only,
over values that are compared for equality alone.

Fairness. The event loop runs due timers and ready tasks, and an executor job
ends (its wait is bounded by `PUBLISH_ACK_TIMEOUT_S`): weak fairness of those
steps. Nothing is assumed of the user, the device or the wallbox. Strong fairness
is used where the code's queueing gives it: a job handed to the executor waits
for a worker in its turn; `asyncio.Lock` is first come, first served; a deadline
is absolute and passes however often its sleeper is woken; Paho's handshake is
shorter than the backoff between two reconnects. MqttLink and SignIn also assume
that an outage ends, the latter however often setups are retried meanwhile.

## 4. Findings

1. `mqtt_standard_broker`: with developer keys a moved broker is only stored, and
   Paho retries at the old address with the new certificate for ever
   (`credentials.py:128` against `credentials.py:35-39`).
2. `energy_placeholder`: the internal zero of a counter that was only seeded is
   published (`state_apply.py:1236` against `state_apply.py:1199-1204`).
3. `entry_capture`: a capture whose window closes during a setup arms no timer
   (`__init__.py:124` against `__init__.py:117`).

## 5. What the properties rely on

Each of these can be reproduced by changing one constant or checking one more
property of the module named; they are no runs of their own.

| module | change | what fails | why |
|---|---|---|---|
| SocCycle | slider levels that overlap | ShownTaken | the clamped companion of a frame is neither shown nor stored (`number.py:904`) |
| MqttLink | `AppAuth = FALSE`, broker down at setup | NeverGivesUp | nothing dials again (`setup.py:238`) |
| MqttLink | property StoppedMeansSilent | itself | a queued reconnect job revives the link after the unload (`setup.py:328`) |
| SignIn | `OneVoice = FALSE` | AskedRightly | a foreign region's refusal counts when the home host is silent |
| SignIn | `Reachable = FALSE` | AskedRightly | a refresh never asks `app_api.unreachable`, so an outage asks the user to sign in (`credentials.py:86-92` against `EnhancedAuthUnreachable`) |
| SignIn | `KeysServed = FALSE` | CertificateArrives | a developer entry whose first request fails, or is taken for a second one within a minute of the machine's start (`_last_fetch_ts = 0.0` against `time.monotonic()`), runs without MQTT until it is reloaded |
| EnergyTotals | property CleanStopSaves | itself | a reading integrated during a periodic flush is lost by a clean stop (`energy_integrator.py:358`) |
| DerivedReadings | property EmptyShowsEmpty | itself | an empty unit of a system keeps the system's figure (`_resolve_soc`) |
| LinkedUnits | `WholeLists = FALSE` | SignRight | a list that leaves a unit out proves a sign that is wrong |
| PowerOceanFrames | `FirstReadable = FALSE`, `Prompt = FALSE` | FirstCopyShown, RodIdle | an unreadable first copy lets the older second one through; a late hand-over brings a cleared share back |
| FrameReadings | `FlagsTogether`, `TimesWithState = FALSE` | ReadingsRight | a panel frame with one channel's zero flags retracts the whole block; a state without its times leaves the old ones |
| SettingsQueue, ReadBack | `Prompt`, `PromptFrames = FALSE` | OthersUntouched, PressHappened, RodTookIt | a report from before a lost write is read as its confirmation |
| Ocean2Write | properties NothingLeftArmed, SeedResolves (`Overlap = {"expire"}`) | themselves | a write may be superseded between its timers |
| ConfigWrites | `Hurried = TRUE` | OthersKept | a report from before a write puts its companion back |
| SettingFrames | (reading) | - | the DELTA 3 port priorities travel as a pair without the lock, and the flag is seeded only after the send (`switch.py:441-468`) |
| WaveClimate | `SettledFirst = FALSE`, `RestartSettles = TRUE` | SetpointLands | the store's old mode ends the wait at once (`climate.py:372`) |
| SurplusSync | `EchoPrompt = FALSE` | NeverDragsBack | an echo older than the last setting counts |
| FrameBuffer | property UntrackedAreNames | itself | the count of untracked types counts frames (`frame_capture.py:1476`) |
| LocalControl | `Latency > Margin` | NeverRetaken | a beat can take control back; and turning off late leaves the unit under control for its lapse (`local_modbus.py:11-14`) |
| SettingControls | `FirstNew`, `LimitsStay = FALSE` | PublishedCurrent | a seeded last value swallows the first update (`sensor.py:379-383`); bounds that vanish, or that an optimistic write published, are not recorded (`number.py:610-622`) |
| EntryLifecycle | `StopInSetup = TRUE` | NothingUnowned | a stop during a setup leaves what was built |
| EntryFlows | property CloudOrLocal; all entries in EntryWhole; `Hasty = TRUE` | themselves; ServesItsData | one device can be in a cloud and a local entry; crossing dialogs mix the data of two modes; a save during a setup is not picked up (`__init__.py:777-781`) |

Smaller notes from reading the code. With two rods the run step can be skipped on
the other rod's report. A Solar or Manual call that finds both settings shown
sends nothing. A power factor of 0 from the smart meter stays beside incremental
power. `_switch_target_error` checks only the standard side. An older poll that
waits for its fault list may overwrite a setting that was just confirmed. The
outage notice stays while the device answers with a refusal. The notice "two
frames from two threads" has no order anywhere.

## 6. Proofs

`tlapm` checks every theorem to its leaves, from the named assumptions of the
modules only.

**SocCycleProofs** (battery-limit cycle). The invariant ties the timer to a pending
newest request and every claimed revision to a flush in flight of the current
generation. It is needed because the safety properties say nothing of what a
flush still under way may do once a cycle was closed and reopened. From it:
types, no open cycle without work, no completion of another cycle, the baseline
is the newest acknowledged pair, nothing in flight once the client is down; and
as action properties that acknowledged revisions never go back and shutdown
freezes the store. That a resolved cycle shows only values the device took
(`ShownTaken`) needs the premise that the sliders' ranges do not reach into each
other, as in the runs.

**CloudLinkProofs** (connection and sign-in). For the connection the invariant is
about the reconnect lock: who holds it, and what the client and the flag can be at
each step of its holder. From it: no Paho client is dropped with its thread running,
for any number of workers, and the connected flag is the current client's. For the
sign-in it follows a request from host to host: while one is on its round either no
host is down or every one is, so a sign-in that was answered at all has been judged
by each host it passed, and the host that granted it knows the account. So the user
is asked only after a judgement (`AskedRightly`), for any number of hosts and any
overlap of setup, refresh and rotation, under `OneVoice` and `Reachable`; each is
needed (section 5). Both are carried over to `CloudSpec`.

**DeviceWritesProofs** (the writes of one coordinator). Writes with read-back: the
lock, the value that would be put back, and what the coordinator knows of the unit.
From them: a refused choice is not shown, a choice goes only for its own reason, and
both settings implement `OptimisticValue` step by step, under
`"request" \notin Overlap` (the overlap that section 5 reports as a finding). Grouped
settings: the value a device has or will have once every frame under way has landed is
that of the last such frame naming it; a stream or pair writes with the store still and
equal to it, and a schedule's flag, while held, is contradicted by no frame and by no
report but those from before it. So what a write carries along is right
(`OthersKept`), for any number of calls, frames and reports, under `~Hurried`. Air
conditioner: a call nobody switched under finds the mode shown until its own frame has
switched it, and what the store shows after that the unit reported once it had settled;
so its set point lands, under `SettledFirst` and `~RestartSettles`. Scheduled tasks:
whatever is lost or late, a frame and the coordinator's view name an owner's task as it
is, or a number no owner's task has; and unless a send failed, the view says of each kind
what the device will have once the removals under way are done, and a whole-day task is
added only when nothing will be left. So only the owner ends an owner's task and the
device never holds two whole-day ones (`TasksKept`), with no premise. Settings sent as
frames: a field that no frame under way names is at the device what the coordinator shows
or what the owner has set since, and a field a frame carries along is one the device
itself has reported; so a frame for one setting moves no other (`NothingElseMoves`), for
any values and all groups, with no premise. At the end each is carried over to
`DeviceSpec`, the composition the run checks.

**DeviceReadsProofs** (what becomes of what is heard). Each part of `DeviceReads` has
an invariant: loops, calls and two sums of times that bound how long the switch may
say on after a unit let go (local control); age of the data plus time to the next
check (availability); shown is the counter or at most the floor it was restored with
(local counters); automatic writes as boxes of a finite table of what app and EMS may
still say (auto-sync); what the gate recorded is what Home Assistant shows but for
values just added (entities). Of a recording, a history keeps a frame of every slot in
which the type was heard: slots that double keep together what shared a slot, and
thinning takes one frame of each run. A slot grows with every turn of the loop, so the
loop ends with its budget held once a slot is wider than any span, and the branch that
would throw the oldest frame away is never taken (`RecordingWhole`, for finitely many
types and no other premise). The sums and the loops are recursive functions; what they
compute is proved by a least counterexample, since the library's induction theorems
cannot be cited. The premises are those of the runs: `Latency <= Margin` for a loop
that never retakes; `EchoPrompt` for `NeverDragsBack`; `FirstNew` and `LimitsStay` for
`PublishedCurrent`. Each part's own specification is implied by the composition, so
its theorems carry over.

**DeviceValuesProofs** (values a coordinator works out). For the counters: a candidate
is the device's last total, the stored total covers what was restored, and what is
shown is never above the stored one, so it can fall only with that. For a Stream's
charge: a unit that sends zero for the system never latches. For the battery state:
while a candidate is timed, no other band was seen for as long. For linked units: ages
fall along the pushes, so once a unit takes what others hand over, everything still
under way is newer than its own last push (`Lag < HoldFor`). Their signs: a sum over the
units of a stream that has one unit is that unit's value and a sum over all is the
system's, so a sign is what that unit did (`SignRight`, under `WholeLists`). Partial
frames: for each family, what the store shows of a field that the device could still
leave out, and what the next frame must then hold (`ReadingsRight`, under
`FlagsTogether` and `TimesWithState`). A PowerOcean's frames: what a task will show once
the messages under way are applied is what the parser last read of it, which is what the
first copy of the last list said; that sum does not change when a message is applied.
Packs get their numbers once, inverters from a whole list or not at all, and a slot has
shown only what has its number. So `FramesReadRight` holds however late the event loop is,
under `FirstReadable` and with no more inverters than slots. For the rods a message that
clears one names every share the store has, which needs `Prompt` (`RodIdle`). Section 5
has the counterexamples without these premises.

**AccountEntryProofs** (the config entry). The invariants follow the probes through a
setup and a stop, the timer of a capture, the ledger and its copies on disk, the
stamps of the account's limits beside the true time, and what a dialog knows of its
entry while it is alone on it. Premises: `~StopInSetup` (nothing unowned),
`~SlowSetup` (captures end), `~Hasty` (entries kept), each a finding or a limit
of section 5.

**ConfirmedWritesProofs** (writes confirmed by a report). For the wallbox's queue: a
call is where record, ticket and lock say it is, and a sleeper has what it waits
for ahead of it; no premise, so a newer call always wins and no wake-up is lost.
Under `Prompt`, a report recorded since the last write is the byte, so a write of
one switch leaves the others. For presses and rods: a record belongs to a call
that is out; under `PromptFrames`, what was reported since a write left was true
since then, so a confirmed write was taken; and under `~LateWrites` only the last
write under way may still change a rod, so a confirmed mode stands.

The constants are otherwise free: sets of any size (finite where a cardinality is
taken), markers that are no members, thresholds in their order.

Only model-checked: liveness under fairness, which is out of the prover's reach
(`CycleResolves`, `RollbackReaches`, `ComesBack`, `CertificateArrives`, `CallsEnd`).
Every other property of a passing run has a theorem.

## 7. Not modelled

- Keepalive timers, diagnostics, definition tables, translations: no protocol.
- Decoding of registers and protobuf fields, sums and unit conversions of single
  readings, request signing and decryption: pure conversions.
- The monotonic filter of the ingest (which keys it owns is a question about two
  tables), the dispatch of families other than PowerOcean, and single-value
  settings, which carry nothing along.
- Migrations of entries, removal of entries and entities, and the registry
  clean-up of stale accessory entities (`sensor.py:229-252`).
- The reactivation message of the watchdog, topics and subscriptions, the
  latency probe and the listen-only capture of the MQTT wrapper.
- The novelty frames of a configured device's capture and the masking of
  identifiers.
