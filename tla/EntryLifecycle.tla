---------------------------- MODULE EntryLifecycle ----------------------------
(* The life of a config entry with account sign-in (__init__.py): its          *)
(* coordinators, the raw data capture with its window, and the listen-only     *)
(* probes of the devices that have no parser (device_probe.py).  Home          *)
(* Assistant sets the entry up, reloads it when its data changes, retries a    *)
(* setup that failed, and may stop at any time; a probe's session may drop at  *)
(* any time, and a reconnect runs in a thread of its own.                      *)
EXTENDS Naturals, FiniteSets

CONSTANTS
    Coordinators,
    Probes,       \* probe objects; each setup that captures makes new ones
    Skipped,      \* how many devices of the entry have no parser
    SlowSetup,    \* the capture's window may close while the entry is set up
    StopInSetup   \* Home Assistant may stop while the entry is set up

ASSUME EntryAssumption == Skipped \in 1..Cardinality(Probes)

VARIABLES
    running,      \* Home Assistant runs
    entry,        \* "idle", "coordinators", "probes", "platforms" (of the setup),
                  \* "loaded", "unloading", "failed"
    live,         \* the coordinators whose client is up
    stored,       \* the coordinators are in hass.data, and the stop listener waits
    flag, open,   \* CONF_RAW_CAPTURE, and its window
    captureOn,    \* as the setup read it
    timer,        \* the window's timer is armed
    listening,    \* the update listener is registered
    changed,      \* a reload has been asked for
    unused,       \* probe objects not made yet
    mine,         \* the probes of this setup
    held,         \* DATA_DEVICE_PROBES of the entry
    watched,      \* the probes' watchdog runs
    up,           \* the probes with a session
    stopped,      \* the probes with _stopped
    attempt,      \* where a probe's reconnect is: "none", "checked" or "tried"
    stopping      \* the probes whose disconnect is under way

haVars == <<running, entry, changed, listening>>
captureVars == <<flag, open, captureOn, timer>>
ownerVars == <<live, stored>>
madeVars == <<unused, mine, held, watched>>
sessionVars == <<up, stopped, attempt, stopping>>
entryVars == <<haVars, captureVars, ownerVars, madeVars, sessionVars>>

InSetup == entry \in {"coordinators", "probes", "platforms"}

EntryInit ==
    /\ running = TRUE /\ entry = "idle" /\ changed = FALSE /\ listening = FALSE
    /\ flag \in BOOLEAN /\ open = flag /\ captureOn = FALSE /\ timer = FALSE
    /\ live = {} /\ stored = FALSE
    /\ unused = Probes /\ mine = {} /\ held = {} /\ watched = FALSE
    /\ up = {} /\ stopped = {} /\ attempt = [p \in Probes |-> "none"] /\ stopping = {}

-----------------------------------------------------------------------------
(* One probe (UnroutedDeviceProbe).                                            *)

\* async_stop: the flag goes up first, then the session is taken down in a thread.
Stop(probes) ==
    /\ stopped' = stopped \cup probes
    /\ stopping' = stopping \cup probes

StopEnds(p) ==
    /\ p \in stopping /\ stopping' = stopping \ {p}
    /\ up' = up \ {p}
    /\ UNCHANGED <<haVars, captureVars, ownerVars, madeVars, stopped, attempt>>

\* async_check_connection, on the watchdog's tick; _reconnect checks the flag again.
WatchdogTicks(p) ==
    /\ watched /\ p \in mine \ (stopped \cup up) /\ attempt[p] = "none"
    /\ attempt' = [attempt EXCEPT ![p] = "checked"]
    /\ UNCHANGED <<haVars, captureVars, ownerVars, madeVars, up, stopped, stopping>>

ReconnectTries(p) ==
    /\ attempt[p] = "checked" /\ attempt' = [attempt EXCEPT ![p] = "tried"]
    /\ up' \in {up, up \cup {p}}
    /\ UNCHANGED <<haVars, captureVars, ownerVars, madeVars, stopped, stopping>>

LeaveUp(p) == up                           \* (faulty)
\* A stop may have come while the attempt ran, and may have missed what it built.
TakeDown(p) == IF p \in stopped THEN up \ {p} ELSE up

ReconnectEnds(p) ==
    /\ attempt[p] = "tried" /\ attempt' = [attempt EXCEPT ![p] = "none"]
    /\ up' = TakeDown(p)
    /\ UNCHANGED <<haVars, captureVars, ownerVars, madeVars, stopped, stopping>>

SessionDrops(p) ==
    /\ p \in up /\ up' = up \ {p}
    /\ UNCHANGED <<haVars, captureVars, ownerVars, madeVars, stopped, attempt, stopping>>

-----------------------------------------------------------------------------
(* async_setup_entry.  A setup that fails runs the callbacks it has registered *)
(* so far: they shut the coordinators down, cancel the timer, the watchdog and *)
(* the listeners, and stop the probes nobody else will stop.                   *)

StopOrphans == Stop(held) /\ held' = {}

RunCallbacks ==
    /\ StopOrphans
    /\ live' = {} /\ timer' = FALSE /\ watched' = FALSE /\ listening' = FALSE
    /\ stored' = FALSE /\ mine' = {}
    /\ UNCHANGED <<up, attempt, unused>>

\* An expired capture is switched off, and does not reload what is not loaded yet.
SetupStarts ==
    /\ entry = "idle" /\ running /\ entry' = "coordinators"
    /\ captureOn' = (flag /\ open) /\ flag' = captureOn'
    /\ changed' = FALSE
    /\ UNCHANGED <<running, listening, open, timer, ownerVars, madeVars, sessionVars>>

CoordinatorUp(c) ==
    /\ entry = "coordinators" /\ c \notin live /\ live' = live \cup {c}
    /\ UNCHANGED <<haVars, captureVars, stored, madeVars, sessionVars>>

\* The coordinators go into hass.data, and the listener for the stop is registered.
CoordinatorsStored ==
    /\ entry = "coordinators" /\ live = Coordinators
    /\ stored' = TRUE /\ entry' = IF captureOn THEN "probes" ELSE "platforms"
    /\ UNCHANGED <<running, changed, listening, captureVars, live, madeVars, sessionVars>>

\* async_start_probes, up to the next device; a probe is kept if it did not connect.
ProbeStarts(p) ==
    /\ entry = "probes" /\ p \in unused /\ Cardinality(mine) < Skipped
    /\ unused' = unused \ {p} /\ mine' = mine \cup {p}
    /\ up' \in {up, up \cup {p}}
    /\ UNCHANGED <<haVars, captureVars, ownerVars, held, watched, stopped, attempt, stopping>>

ProbesOnly == open /\ mine # {}              \* (faulty: without probes no timer is armed)
\* The timer ends the whole capture, the probes' part of it and the coordinators'.
ExpiryArmed == open

\* With every probe started, or none when the sign-in of the probes failed.
ProbesStarted ==
    /\ entry = "probes" /\ Cardinality(mine) \in {0, Skipped}
    /\ entry' = "platforms"
    /\ held' = mine /\ watched' = (mine # {})
    /\ timer' = ExpiryArmed
    /\ UNCHANGED <<running, changed, listening, flag, open, captureOn, ownerVars, unused, mine, sessionVars>>

PlatformsUp ==
    /\ entry = "platforms" /\ entry' = "loaded" /\ listening' = TRUE
    /\ UNCHANGED <<running, changed, captureVars, ownerVars, madeVars, sessionVars>>

\* A first refresh that fails, or a platform that does; Home Assistant retries.
SetupFails ==
    /\ entry \in {"coordinators", "platforms"} /\ entry' = "idle"
    /\ RunCallbacks
    /\ UNCHANGED <<running, changed, flag, open, captureOn>>

-----------------------------------------------------------------------------
(* The capture's window, and changes of the entry's data.                      *)

\* async_update_entry: a registered listener asks for a reload.
DataChanges == changed' = (changed \/ listening)

WindowCloses ==
    /\ open /\ open' = FALSE
    /\ InSetup => SlowSetup
    /\ UNCHANGED <<haVars, flag, captureOn, timer, ownerVars, madeVars, sessionVars>>

TimerFires ==
    /\ timer /\ ~open /\ timer' = FALSE
    /\ flag' = FALSE /\ DataChanges
    /\ UNCHANGED <<running, entry, listening, open, captureOn, ownerVars, madeVars, sessionVars>>

\* The options flow: a capture is switched on, with a new window, or off.  One whose
\* window has closed gets a new window; a timer that is due runs before that.
OptionsSet(on) ==
    /\ entry \in {"loaded", "idle"} /\ running
    /\ flag # on \/ (on /\ ~open /\ ~timer)
    /\ flag' = on /\ open' = on /\ DataChanges
    /\ UNCHANGED <<running, entry, listening, captureOn, timer, ownerVars, madeVars, sessionVars>>

-----------------------------------------------------------------------------
(* async_unload_entry, for a reload.                                           *)

\* The platforms are unloaded; then the probes are told to stop, the timer and the
\* watchdog still running.
UnloadStarts ==
    /\ entry = "loaded" /\ running /\ changed
    /\ \/ /\ entry' = "unloading" /\ Stop(held) /\ held' = {} /\ stored' = FALSE
       \/ entry' = "failed" /\ UNCHANGED <<held, stored, stopped, stopping>>
    /\ UNCHANGED <<running, changed, listening, captureVars, live, unused, mine, watched, up, attempt>>

UnloadEnds ==
    /\ entry = "unloading" /\ stopping \cap mine = {}
    /\ entry' = "idle" /\ RunCallbacks
    /\ UNCHANGED <<running, changed, flag, open, captureOn>>

\* EVENT_HOMEASSISTANT_STOP: the entry is not unloaded, its listener stops what it finds.
HomeAssistantStops ==
    /\ running /\ running' = FALSE
    /\ InSetup => StopInSetup
    /\ IF stored THEN live' = {} /\ Stop(held) ELSE UNCHANGED <<live, stopped, stopping>>
    /\ UNCHANGED <<entry, changed, listening, captureVars, stored, madeVars, up, attempt>>

EntryNext ==
    \/ SetupStarts \/ CoordinatorsStored \/ ProbesStarted \/ PlatformsUp \/ SetupFails
    \/ WindowCloses \/ TimerFires \/ UnloadStarts \/ UnloadEnds \/ HomeAssistantStops
    \/ \E c \in Coordinators : CoordinatorUp(c)
    \/ \E on \in BOOLEAN : OptionsSet(on)
    \/ \E p \in Probes :
          \/ ProbeStarts(p) \/ StopEnds(p) \/ WatchdogTicks(p)
          \/ ReconnectTries(p) \/ ReconnectEnds(p) \/ SessionDrops(p)

EntrySpec == EntryInit /\ [][EntryNext]_entryVars

-----------------------------------------------------------------------------
\* What still works on a probe's session and will see that it was stopped.
Settling(p) == p \in stopping \/ attempt[p] # "none"

\* No connection outlives its owner: one is up only for a setup, an entry that is loaded
\* or one that could not be unloaded, while Home Assistant runs, or until the stop that
\* is under way has reached it ("leaving a live connection and a paho thread that nothing
\* ever tears down"; "they are never disconnected" on a stop).
NothingUnowned ==
    /\ \A p \in up : Settling(p) \/ (p \in mine /\ p \notin stopped /\ entry # "idle")
    /\ live # {} => entry # "idle"
    /\ ~running /\ entry \in {"idle", "loaded", "failed"} =>
          live = {} /\ \A p \in up : Settling(p)

\* A capture that runs in a loaded entry has something that ends it: the timer of its
\* window, or a reload that was asked for ("Switch the capture off when its window
\* closes, without a restart", _async_schedule_raw_capture_expiry).
CaptureHasAnEnd == entry = "loaded" /\ captureOn => timer \/ changed
=============================================================================
