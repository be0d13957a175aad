---------------------------- MODULE ConfigWrites ----------------------------
(* Settings that share a frame with other settings                             *)
(* (coordinator/set_commands.py, coordinator/state_apply.py).  The frame must  *)
(* carry the settings nobody asked to change as the device has them, so a      *)
(* write reads them from the store, under _device_config_lock.                 *)
(*   stream    the BK-series limits carry the backup reserve along, which has  *)
(*             a short frame of its own; seeded after the send                 *)
(*   ac5000    every setting of the pair travels in every frame (SoC limits,   *)
(*             backup reserve flag and level); seeded after the send           *)
(*   schedule  the power of a PowerOcean task carries its arming flag, which   *)
(*             has a short frame; seeded before the send, and the flag is held *)
(*             against reports that predate it                                 *)
(* "short" and "full" are one setting of each kind.                            *)
EXTENDS Naturals, Sequences, FiniteSets

CONSTANTS
    Calls,        \* the service calls, each with one write at a time
    NoCall,
    Values,       \* of either setting
    Unset,        \* no hold
    MaxReports,   \* bound on the reports under way
    MaxFrames,    \* bound on the frames under way
    Hurried       \* an arming flag may be written again while the last one, or a
                  \* report from before it, is under way

Fields == {"short", "full"}
Styles == {"stream", "ac5000", "schedule"}

VARIABLES
    style,      \* the device's family
    write,      \* per call: its write
    lock,       \* the call that holds _device_config_lock
    store,      \* the coordinator's values
    held,       \* _schedule_armed_latch: the flag held, or Unset
    device,     \* the device's values
    frames,     \* frames under way to it
    reports,    \* reports under way from it
    coming,     \* history: its values once it has taken the frames under way
    unsure,     \* history: settings whose last send failed, with no report since
    shutdown    \* _shutdown

vars == <<style, write, lock, store, held, device, frames, reports, coming, unsure,
          shutdown>>
linkVars == <<device, frames, reports, coming>>

Idle == [at |-> "idle", field |-> "short", value |-> Unset, frame |-> <<>>]

Init ==
    /\ style \in Styles
    /\ write = [c \in Calls |-> Idle] /\ lock = NoCall
    /\ device \in [Fields -> Values] /\ store = device /\ coming = device
    /\ held = Unset
    /\ frames = <<>> /\ reports = <<>>
    /\ unsure = {} /\ shutdown = FALSE

Over(values, frame) == [f \in Fields |-> IF f \in DOMAIN frame THEN frame[f] ELSE values[f]]

\* The settings a write of this one carries.
Carried(f) == IF f = "full" \/ style = "ac5000" THEN Fields ELSE {f}
Frame(f, v) == [g \in Carried(f) |-> IF g = f THEN v ELSE store[g]]

\* Nothing under way would change what the store has of the device.
Settled == frames = <<>> /\ \A i \in DOMAIN reports : reports[i] = device

LockFree == lock = NoCall

HoldNothing(f, v) == Unset                 \* (faulty: no hold)
\* latch_schedule_armed
Hold(f, v) == IF f = "short" THEN v ELSE held

\* A schedule write refuses on a stopped coordinator; the frame is built from the
\* store, and a schedule shows its value before it is sent.
Write(c, f, v) ==
    /\ write[c].at = "idle" /\ LockFree
    /\ style = "schedule" => ~shutdown /\ (f = "short" => Hurried \/ Settled)
    /\ style # "schedule" => reports = <<>>    \* (premise: no report older than the write)
    /\ write' = [write EXCEPT ![c] =
                    [at |-> "sending", field |-> f, value |-> store[f], frame |-> Frame(f, v)]]
    /\ lock' = c
    /\ IF style = "schedule"
         THEN store' = [store EXCEPT ![f] = v] /\ held' = Hold(f, v)
         ELSE UNCHANGED <<store, held>>
    /\ UNCHANGED <<style, linkVars, unsure, shutdown>>

\* The executor's publish.
Publish(c) ==
    /\ write[c].at = "sending" /\ Len(frames) < MaxFrames
    /\ write' = [write EXCEPT ![c].at = "published"]
    /\ frames' = Append(frames, write[c].frame)
    /\ coming' = Over(coming, write[c].frame)
    \* A setting that was unsure when the frame was built stays so.
    /\ unsure' = unsure \cup {g \in DOMAIN write[c].frame \ {write[c].field} :
                                write[c].frame[g] # coming[g]}
    /\ UNCHANGED <<style, lock, store, held, device, reports, shutdown>>

\* _seed_device_values, before the lock is released.
Seeded(c) == IF style = "schedule" THEN store ELSE Over(store, write[c].frame)

Delivered(c) ==
    /\ write[c].at = "published"
    /\ store' = Seeded(c)
    /\ unsure' = unsure \ {write[c].field}
    /\ write' = [write EXCEPT ![c] = Idle] /\ lock' = NoCall
    /\ UNCHANGED <<style, held, linkVars, shutdown>>

\* No acknowledgement; the frame may have been taken all the same.
NotDelivered(c) ==
    /\ write[c].at \in {"sending", "published"}
    /\ IF style = "schedule"
         THEN /\ store' = [store EXCEPT ![write[c].field] = write[c].value]
              /\ held' = IF write[c].field = "short" THEN Unset ELSE held
         ELSE UNCHANGED <<store, held>>
    /\ unsure' = unsure \cup DOMAIN write[c].frame
    /\ write' = [write EXCEPT ![c] = Idle] /\ lock' = NoCall
    /\ UNCHANGED <<style, linkVars, shutdown>>

DeviceTakes ==
    /\ frames # <<>>
    /\ device' = Over(device, Head(frames)) /\ frames' = Tail(frames)
    /\ UNCHANGED <<style, write, lock, store, held, reports, coming, unsure, shutdown>>

DeviceReports ==
    /\ Len(reports) < MaxReports
    /\ style # "schedule" => frames = <<>> /\ lock = NoCall    \* (premise, as above)
    /\ reports' = Append(reports, device)
    /\ UNCHANGED <<style, write, lock, store, held, device, frames, coming, unsure, shutdown>>

\* _resolve_schedule_armed: an agreeing report ends the hold, another is dropped.
Dropped(report) == held # Unset /\ report["short"] # held

ReportArrives ==
    /\ reports # <<>>
    /\ LET report == Head(reports)
       IN  /\ store' = IF Dropped(report) THEN [report EXCEPT !["short"] = store["short"]]
                       ELSE report
           /\ held' = IF Dropped(report) THEN held ELSE Unset
           /\ unsure' = {f \in unsure : ~Settled \/ report[f] # device[f]}
    /\ reports' = Tail(reports)
    /\ UNCHANGED <<style, write, lock, device, frames, coming, shutdown>>

\* The hold outlasts a report that was under way when the flag was written.
HoldExpires ==
    /\ held # Unset
    /\ Settled /\ \A c \in Calls : write[c].at = "idle"
    /\ held' = Unset
    /\ UNCHANGED <<style, write, lock, store, linkVars, unsure, shutdown>>

Shutdown ==
    /\ ~shutdown /\ shutdown' = TRUE
    /\ UNCHANGED <<style, write, lock, store, held, linkVars, unsure>>

Next ==
    \/ \E c \in Calls :
          \/ \E f \in Fields, v \in Values : Write(c, f, v)
          \/ Publish(c) \/ Delivered(c) \/ NotDelivered(c)
    \/ DeviceTakes \/ DeviceReports \/ ReportArrives \/ HoldExpires \/ Shutdown

Spec == Init /\ [][Next]_vars

-----------------------------------------------------------------------------
\* A write of one setting never moves another: what its frame carries along is what
\* the device has or is about to have, however many calls, older frames and (for the
\* schedules) older reports are under way ("re-arming a schedule the owner had just
\* disarmed ... is the one side effect this write exists to avoid").  Unknown are only
\* settings whose own last send failed.
OthersKept ==
    [][\A c \in Calls, f \in Fields, v \in Values : Write(c, f, v) =>
          \A g \in Carried(f) \ {f} : g \in unsure \/ Frame(f, v)[g] = coming[g]]_vars
=============================================================================
