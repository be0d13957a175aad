---------------------------- MODULE LocalControl ----------------------------
(* Modbus control of a local PowerOcean (coordinator/local_modbus.py): a       *)
(* heartbeat keeps the unit under control, and the unit returns to the app     *)
(* when no beat reaches it for Lapse ticks.  Turning on writes a first beat    *)
(* and starts a loop; turning off stops the loop and writes nothing.  All      *)
(* requests (polls, beats, settings) take turns on one connection.             *)
(*                                                                             *)
(* Time is in ticks; a tick happens only when nothing that is due now is left  *)
(* to do.  The coordinator counts the unit's window from the acknowledgement   *)
(* of a beat, which comes up to Latency ticks after the unit has taken it.     *)
EXTENDS Integers, FiniteSets

CONSTANTS
    Calls,      \* callers of async_set_control, each with one call at a time
    Free,       \* nobody holds the connection
    Interval,   \* LOCAL_MODBUS_HEARTBEAT_INTERVAL_S
    Lapse,      \* LOCAL_MODBUS_HEARTBEAT_LAPSE_S
    Margin,     \* _BEAT_WINDOW_MARGIN_S
    Latency,    \* from the unit's taking a beat to its acknowledgement
    MaxHold,    \* the longest one request sequence holds the connection
    MaxCalls    \* bound on the calls made

ASSUME ControlAssumption ==
    /\ Calls \cap {Free, "poll", "beat"} = {} /\ Free \notin {"poll", "beat"}
    /\ {Interval, Lapse, Margin, Latency, MaxHold, MaxCalls} \subseteq Nat
    /\ Interval > 0 /\ Lapse > Margin

VARIABLES
    wanted,     \* _control_wanted
    enabled,    \* control_enabled
    closed,     \* _closed
    call,       \* per caller: "idle", "queued" (for _control_lock), "waiting"
                \* (for the connection) or "writing" its first beat
    loop,       \* the registered heartbeat: "none", "sleep", "await" or "write"
    due,        \* ticks until the loop wakes, or until its beat is given up
    dying,      \* a cancelled loop that has not ended yet
    sinceAck,   \* ticks since _last_beat_ack
    link,       \* who holds the connection
    held,       \* ticks it has been held
    sent,       \* ticks since the unit took the beat being written, or -1
    unit,       \* ticks until the unit lets go; below 0: the app has it
    trusted,    \* the device answers its polls and has the right serial
    calls,      \* calls made so far
    last        \* history: what the latest call asked for

controlVars == <<wanted, enabled, closed, call, loop, due, dying, sinceAck, link, held,
                 sent, unit, trusted, calls, last>>
linkVars == <<link, held, sent>>
loopVars == <<loop, due, dying, sinceAck>>

\* Bounds of the two clocks: what lies beyond them makes no difference.
Gone == -1 - Latency - Interval
LongestSilence == Lapse + Interval

ControlInit ==
    /\ wanted = FALSE /\ enabled = FALSE /\ closed = FALSE
    /\ call = [c \in Calls |-> "idle"]
    /\ loop = "none" /\ due = 0 /\ dying = FALSE /\ sinceAck = 0
    /\ link = Free /\ held = 0 /\ sent = -1
    /\ unit = Gone /\ trusted = TRUE
    /\ calls = 0 /\ last = "off"

Idle(c) == call[c] = "idle"
FreeLink == link' = Free /\ held' = 0 /\ sent' = -1

\* _cancel_heartbeat: the task is cancelled where it waits, its request given up.
CancelHeartbeat ==
    /\ wanted' = FALSE /\ enabled' = FALSE /\ loop' = "none" /\ due' = 0
    /\ dying' = (dying \/ loop # "none")
    /\ IF link = "beat" THEN FreeLink ELSE UNCHANGED linkVars

TurnOff ==
    /\ calls < MaxCalls /\ calls' = calls + 1 /\ last' = "off"
    /\ CancelHeartbeat
    /\ UNCHANGED <<closed, call, sinceAck, unit, trusted>>

\* _close, on unload.
Close ==
    /\ ~closed /\ closed' = TRUE
    /\ CancelHeartbeat
    /\ UNCHANGED <<call, sinceAck, unit, trusted, calls, last>>

\* The switch can only be turned on while its entity is available.
TurnOn(c) ==
    /\ Idle(c) /\ trusted /\ ~closed
    /\ calls < MaxCalls /\ calls' = calls + 1 /\ last' = "on"
    /\ wanted' = TRUE
    /\ call' = [call EXCEPT ![c] = "queued"]
    /\ UNCHANGED <<enabled, closed, loopVars, linkVars, unit, trusted>>

\* Nothing to do, or the first beat waits for the connection.
Enter(c) ==
    /\ call[c] = "queued" /\ \A d \in Calls : call[d] \in {"idle", "queued"}
    /\ call' = [call EXCEPT ![c] = IF closed \/ ~wanted \/ enabled THEN "idle" ELSE "waiting"]
    /\ UNCHANGED <<wanted, enabled, closed, loopVars, linkVars, unit, trusted, calls, last>>

TakeLink(who) == link = Free /\ link' = who /\ held' = 0 /\ sent' = -1

WriteFirstBeat(c) ==
    /\ call[c] = "waiting" /\ TakeLink(c)
    /\ call' = [call EXCEPT ![c] = "writing"]
    /\ UNCHANGED <<wanted, enabled, closed, loopVars, unit, trusted, calls, last>>

StillWantedAlways == TRUE                  \* (faulty: what came meanwhile is ignored)
\* Checked again once the first beat is acknowledged.
StillWanted == ~closed /\ wanted

FirstBeatAcked(c) ==
    /\ call[c] = "writing" /\ sent >= 0
    /\ call' = [call EXCEPT ![c] = "idle"] /\ FreeLink
    /\ IF StillWanted /\ loop = "none"
         THEN enabled' = TRUE /\ loop' = "sleep" /\ due' = Interval /\ sinceAck' = 0
         ELSE UNCHANGED <<enabled, loop, due, sinceAck>>
    /\ UNCHANGED <<wanted, closed, dying, unit, trusted, calls, last>>

\* Not acknowledged: the call raises and nothing is started.
FirstBeatFails(c) ==
    /\ call[c] \in {"waiting", "writing"}
    /\ call' = [call EXCEPT ![c] = "idle"]
    /\ IF link = c THEN FreeLink ELSE UNCHANGED linkVars
    /\ UNCHANGED <<wanted, enabled, closed, loopVars, unit, trusted, calls, last>>

-----------------------------------------------------------------------------
(* The heartbeat loop.                                                         *)

\* _window_left
WindowLeft == Lapse - sinceAck
UsedUp == WindowLeft <= Margin

\* _heartbeat_lapsed of the registered loop.
Lapsed ==
    /\ loop' = "none" /\ due' = 0 /\ wanted' = FALSE /\ enabled' = FALSE
    /\ UNCHANGED <<dying, sinceAck>>

\* The whole wait of a beat, the wait for the connection included.
BeatTimeout == WindowLeft - Margin

\* The loop wakes: nothing is written to a device that does not answer, and
\* nothing once the window is used up.
BeatDue ==
    /\ loop = "sleep" /\ due = 0
    /\ IF ~trusted \/ UsedUp THEN Lapsed
       ELSE /\ loop' = "await" /\ due' = BeatTimeout
            /\ UNCHANGED <<wanted, enabled, dying, sinceAck>>
    /\ UNCHANGED <<closed, call, linkVars, unit, trusted, calls, last>>

BeatWrites ==
    /\ loop = "await" /\ due > 0 /\ TakeLink("beat")
    /\ loop' = "write"
    /\ UNCHANGED <<wanted, enabled, closed, call, due, dying, sinceAck, unit, trusted, calls, last>>

BeatAcked ==
    /\ loop = "write" /\ sent >= 0
    /\ loop' = "sleep" /\ due' = Interval /\ sinceAck' = 0 /\ FreeLink
    /\ UNCHANGED <<wanted, enabled, closed, call, dying, unit, trusted, calls, last>>

\* A Modbus exception ends the heartbeat at once.
BeatRefused ==
    /\ loop = "write" /\ sent < 0 /\ Lapsed /\ FreeLink
    /\ UNCHANGED <<closed, call, unit, trusted, calls, last>>

\* No answer, no connection or the timeout: tried again at the next interval.
BeatFails ==
    /\ loop \in {"await", "write"}
    /\ loop = "await" => due = 0
    /\ IF link = "beat" THEN FreeLink ELSE UNCHANGED linkVars
    /\ IF UsedUp THEN Lapsed
       ELSE /\ loop' = "sleep" /\ due' = Interval
            /\ UNCHANGED <<wanted, enabled, dying, sinceAck>>
    /\ UNCHANGED <<closed, call, unit, trusted, calls, last>>

\* (faulty: switches the live loop off)
GhostLapses == wanted' = FALSE /\ enabled' = FALSE /\ UNCHANGED <<loop, due, sinceAck>>
\* The loop that ends on an unexpected error is no longer the registered one.
GhostEndsQuietly == UNCHANGED <<loop, due, wanted, enabled, sinceAck>>

\* A cancelled loop ends, quietly or with an error of the connection.
GhostEnds ==
    /\ dying /\ dying' = FALSE
    /\ GhostEndsQuietly
    /\ UNCHANGED <<closed, call, linkVars, unit, trusted, calls, last>>

-----------------------------------------------------------------------------
(* The connection, the unit and the polls.                                     *)

\* The unit takes the beat that is being written.
UnitTakes ==
    /\ link \in Calls \cup {"beat"} /\ sent = -1
    /\ sent' = 0 /\ unit' = Lapse
    /\ UNCHANGED <<wanted, enabled, closed, call, loopVars, link, held, trusted, calls, last>>

PollBegins ==
    /\ ~closed /\ TakeLink("poll")
    /\ UNCHANGED <<wanted, enabled, closed, call, loopVars, unit, trusted, calls, last>>

\* Also a setting and its read-back, which leave trusted as it is.
PollEnds ==
    /\ link = "poll" /\ FreeLink
    /\ trusted' \in BOOLEAN
    /\ UNCHANGED <<wanted, enabled, closed, call, loopVars, unit, calls, last>>

AtMost(n, limit) == IF n > limit THEN limit ELSE n
Countdown(n, limit) == IF n > limit THEN n - 1 ELSE n

\* Whatever has a time limit is done before the clock passes it.
Tick ==
    /\ loop # "none" => due > 0
    /\ link # Free => held < MaxHold
    /\ sent >= 0 => sent < Latency
    /\ due' = Countdown(due, 0)
    /\ sinceAck' = IF loop = "none" THEN 0 ELSE AtMost(sinceAck + 1, LongestSilence)
    /\ held' = IF link = Free THEN 0 ELSE held + 1
    /\ sent' = IF sent >= 0 THEN sent + 1 ELSE sent
    /\ unit' = Countdown(unit, Gone)
    /\ UNCHANGED <<wanted, enabled, closed, call, loop, dying, link, trusted, calls, last>>

ControlNext ==
    \/ \E c \in Calls :
          \/ TurnOn(c) \/ Enter(c) \/ WriteFirstBeat(c) \/ FirstBeatAcked(c) \/ FirstBeatFails(c)
    \/ TurnOff \/ Close
    \/ BeatDue \/ BeatWrites \/ BeatAcked \/ BeatRefused \/ BeatFails \/ GhostEnds
    \/ UnitTakes \/ PollBegins \/ PollEnds \/ Tick

ControlSpec == ControlInit /\ [][ControlNext]_controlVars

-----------------------------------------------------------------------------
\* Once turned off or unloaded, control stays off, whatever turn-on calls are still
\* writing their first beat ("the last call to arrive is the one that holds").
LastCallHolds == last = "off" \/ closed => ~enabled /\ loop = "none"

\* The switch shows on only while a loop keeps the unit under control.  Once the unit
\* has let go it is late by what the latest acknowledgement was late, and by the rest of
\* one interval: a beat that fails shortly before the window is used up is followed by a
\* full sleep ("the coordinator then stops beating, reports control off").
SwitchHonest ==
    (enabled <=> loop # "none") /\ (enabled => unit > Margin - Interval - Latency)

\* A unit that has let go comes under control again only through the first beat of a
\* turn-on call, never through a late beat of the loop ("a beat acknowledged after
\* the unit let go would take control again without anybody asking for it").
NeverRetaken ==
    [][unit < 0 /\ unit' > 0 => link \in Calls]_controlVars
=============================================================================
