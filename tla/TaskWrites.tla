----------------------------- MODULE TaskWrites -----------------------------
(* The STREAM AC 5000 has no power setpoint: a scheduled task is the setpoint  *)
(* (coordinator/set_commands.py, ecoflow/parsers/stream_ac5000_proto.py).  A   *)
(* power write changes the one settable task of its kind in place, or adds a   *)
(* whole-day task, and first removes a whole-day task of the other kind: two   *)
(* whole-day tasks overlap and the device acts on neither.  Whole-day windows  *)
(* are only ever written by this integration; the owner's have times.          *)
(*                                                                             *)
(* A task list that arrives is as new as the device is: no list from before a  *)
(* frame arrives after it.  Powers, charge limits and on/off travel as         *)
(* reported and are left out.                                                  *)
EXTENDS Naturals, Sequences, FiniteSets, FiniteSetsExt, SequencesExt

CONSTANTS
    Calls,     \* the service calls, each with one write at a time
    NoCall,
    MaxSlot,   \* bound on the task numbers
    MaxFrames  \* bound on the frames under way when a call begins

Kinds == {"charge", "discharge"}
Other(kind) == IF kind = "charge" THEN "discharge" ELSE "charge"
\* A solar-only charge task has no power to set.
Task == [kind : Kinds, day : BOOLEAN, solar : BOOLEAN, slot : 1..MaxSlot]
OwnersTask == {t \in Task : ~t.day /\ (t.solar => t.kind = "charge")}

VARIABLES
    write,   \* per call: where it is and what it still has to send
    lock,    \* _device_config_lock
    view,    \* the scheduled_* keys of the store
    tasks,   \* the device's task list
    frames,  \* frames under way to it
    unsure   \* history: a send failed, and no list has shown its outcome and
             \* that of the writes made meanwhile to be in order

vars == <<write, lock, view, tasks, frames, unsure>>

DayTasks == {t \in tasks : t.day}
Settable(list, kind) == {t \in list : t.kind = kind /\ ~t.solar}

\* _finalize_task: the keys describe the one settable task of a kind.
ViewOf(list) ==
    [slotMax |-> Max({0} \cup {t.slot : t \in list}),
     of |-> [kind \in Kinds |->
        LET some == Settable(list, kind)
            one == Cardinality(some) = 1
        IN  [count |-> Cardinality({t \in list : t.kind = kind}),
             settable |-> Cardinality(some),
             day |-> one /\ \A t \in some : t.day,
             slot |-> IF one THEN Max({t.slot : t \in some}) ELSE 0]]]   \* 0: not known

Nothing == [count |-> 0, settable |-> 0, day |-> FALSE, slot |-> 0]
Idle == [at |-> "idle", kind |-> "charge", frame |-> <<>>]

Init ==
    /\ tasks \in {{}} \cup {{t} : t \in OwnersTask}
    /\ view = ViewOf(tasks)
    /\ write = [c \in Calls |-> Idle] /\ lock = NoCall
    /\ frames = <<>> /\ unsure = FALSE

AnyOther(kind) == view.of[Other(kind)].count = 1   \* (faulty: the owner's window too)
\* The other kind has exactly one task, and it is a whole-day one.
OtherDay(kind) == LET o == view.of[Other(kind)] IN o.count = 1 /\ o.settable = 1 /\ o.day

Frame(op, kind, day, slot) ==
    [op |-> op, task |-> [kind |-> kind, day |-> day, solar |-> FALSE, slot |-> slot]]

\* The frame that sets the power: an update in place, or a new whole-day task.
PowerFrame(kind) ==
    LET own == view.of[kind]
    IN  IF own.settable = 1 THEN Frame("update", kind, own.day, own.slot)
        ELSE Frame("add", kind, TRUE, view.slotMax + 1)

\* Neither refused as "not ready" nor as a conflict.
Allowed(kind) ==
    LET own == view.of[kind]
        other == view.of[Other(kind)]
    IN  /\ OtherDay(kind) => other.slot # 0
        /\ IF own.settable = 1 THEN own.slot # 0
           ELSE /\ own.count = 0 /\ (other.count = 0 \/ OtherDay(kind))
                /\ view.slotMax < MaxSlot

SetPower(c, kind) ==
    /\ write[c].at = "idle" /\ lock = NoCall
    /\ Allowed(kind) /\ Len(frames) <= MaxFrames
    /\ lock' = c
    /\ IF OtherDay(kind)
         THEN /\ write' = [write EXCEPT ![c] = [at |-> "removing", kind |-> kind,
                                                frame |-> PowerFrame(kind)]]
              /\ frames' = Append(frames, Frame("remove", Other(kind), TRUE,
                                                view.of[Other(kind)].slot))
         ELSE /\ write' = [write EXCEPT ![c] = [at |-> "writing", kind |-> kind,
                                                frame |-> PowerFrame(kind)]]
              /\ frames' = Append(frames, PowerFrame(kind))
    /\ UNCHANGED <<view, tasks, unsure>>

\* _remove_stream_ac5000_task: the removed task is forgotten, then its successor sent.
RemoveDone(c) ==
    /\ write[c].at = "removing"
    /\ view' = [view EXCEPT !.of[Other(write[c].kind)] = Nothing]
    /\ write' = [write EXCEPT ![c].at = "writing"]
    /\ frames' = Append(frames, write[c].frame)
    /\ UNCHANGED <<lock, tasks, unsure>>

SeededNothing(c) == view                   \* (faulty: left to the next list)
\* Seeded so that a second write before the next list updates the new task.
Seeded(c) ==
    IF write[c].frame.op = "update" THEN view
    ELSE [slotMax |-> write[c].frame.task.slot,
          of |-> [view.of EXCEPT ![write[c].kind] =
                      [count |-> 1, settable |-> 1, day |-> TRUE, slot |-> 0]]]

WriteDone(c) ==
    /\ write[c].at = "writing"
    /\ view' = Seeded(c)
    /\ write' = [write EXCEPT ![c] = Idle] /\ lock' = NoCall
    /\ UNCHANGED <<tasks, frames, unsure>>

\* No acknowledgement: nothing more is sent.  The frame may be lost or arrive.
SendFails(c) ==
    /\ write[c].at # "idle"
    /\ write' = [write EXCEPT ![c] = Idle] /\ lock' = NoCall
    /\ frames' \in {frames} \cup (IF frames = <<>> THEN {} ELSE {Front(frames)})
    /\ unsure' = TRUE
    /\ UNCHANGED <<view, tasks>>

-----------------------------------------------------------------------------
Without(slot) == {t \in tasks : t.slot # slot}

DeviceTakes ==
    /\ frames # <<>>
    /\ LET f == Head(frames)
       IN  tasks' = CASE f.op = "remove" -> Without(f.task.slot)
                      [] f.op = "update" -> IF Without(f.task.slot) = tasks THEN tasks
                                            ELSE Without(f.task.slot) \cup {f.task}
                      [] f.op = "add" -> tasks \cup {f.task}
    /\ frames' = Tail(frames)
    /\ UNCHANGED <<write, lock, view, unsure>>

\* A get-all answer carries the list; a frame without one changes nothing.
ListArrives ==
    /\ frames = <<>>
    /\ view' = ViewOf(tasks)
    /\ unsure' = (unsure /\ (lock # NoCall \/ Cardinality(DayTasks) > 1))
    /\ UNCHANGED <<write, lock, tasks, frames>>

\* The owner edits the list in the app, and the device reports it.
OwnerEdits ==
    /\ frames = <<>> /\ lock = NoCall
    /\ \/ \E t \in tasks : tasks' = tasks \ {t}
       \/ \E t \in OwnersTask : (\A u \in tasks : u.slot # t.slot) /\ tasks' = tasks \cup {t}
    /\ view' = ViewOf(tasks')
    /\ UNCHANGED <<write, lock, frames, unsure>>

Next ==
    \/ \E c \in Calls :
          \/ \E kind \in Kinds : SetPower(c, kind)
          \/ RemoveDone(c) \/ WriteDone(c) \/ SendFails(c)
    \/ DeviceTakes \/ ListArrives \/ OwnerEdits

Spec == Init /\ [][Next]_vars

-----------------------------------------------------------------------------
\* The device never holds two whole-day tasks, of one kind or of both ("two whole-day
\* tasks overlap and the device then acts on neither"), unless a send whose outcome
\* is not known was followed by another write before the next list.
OneDayTask == unsure \/ Cardinality({t \in tasks : t.day}) <= 1

\* "A task of the other kind with the owner's own window is never removed", and an
\* update keeps its window: only the owner changes the owner's tasks.
OwnersTasksStay ==
    [][\A t \in tasks : ~t.day /\ t \notin tasks' => OwnerEdits]_vars
=============================================================================
