------------------------------- MODULE ReadBack -------------------------------
(* The one write a coordinator waits on (core.PendingDeviceWrite,              *)
(* coordinator/set_commands.py).  A write checks, records itself and is sent   *)
(* under _pending_write_lock; it then waits outside the lock until a frame     *)
(* that arrives shows what it asked for, or its window is over.  A press that  *)
(* finds a record, a stopped coordinator or no route is refused and leaves     *)
(* nothing behind.  WallboxActions and RodWrites say what is written.          *)
EXTENDS Naturals, Sequences

CONSTANTS
    Calls,        \* the service calls, each with one write at a time
    NoCall,
    PromptFrames  \* a write leaves only once nothing older is on its way here
                  \* (PendingDeviceWrite: "the mqtt_ingest path does not stamp one")

VARIABLES
    call,       \* per call: where it is and what it asked for
    slot,       \* _pending_write: the call whose record it is, or NoCall
    resolved,   \* that record's future has its result
    sender,     \* the call that holds _pending_write_lock over its send
    stopped,    \* _shutdown
    since       \* history: what the written setting has been since the record was made

slotVars == <<call, slot, resolved, sender, stopped, since>>

Asked == [at |-> "idle"]

SlotInit ==
    /\ call = [c \in Calls |-> Asked]
    /\ slot = NoCall /\ resolved = FALSE /\ sender = NoCall
    /\ stopped = FALSE /\ since = {}

At(c, place) == call[c].at = place

\* The checks every write begins with.
MayPublish(c) == At(c, "idle") /\ sender = NoCall /\ ~stopped /\ slot = NoCall

\* The record exists before the frame leaves.
Records(c, asked, now) ==
    /\ call' = [call EXCEPT ![c] = asked]
    /\ slot' = c /\ resolved' = FALSE /\ sender' = c
    /\ since' = {now}

\* (faulty: the record of a cancelled press stays)
ClearedOnResult(c) == IF slot = c /\ At(c, "confirming") THEN NoCall ELSE slot

\* _clear_pending_write: the record goes if it is still this call's.
Cleared(c) == IF slot = c THEN NoCall ELSE slot

\* The call ends, with its result or with an error.
Ends(c) ==
    /\ call' = [call EXCEPT ![c] = Asked]
    /\ slot' = Cleared(c)
    /\ resolved' = (resolved /\ slot # c)
    /\ sender' = IF sender = c THEN NoCall ELSE sender
    /\ since' = IF slot = c THEN {} ELSE since
    /\ UNCHANGED stopped

\* The broker acknowledged the frame: the lock is free, the wait begins.
Delivered(c) ==
    /\ At(c, "sending")
    /\ call' = [call EXCEPT ![c].at = "confirming"]
    /\ sender' = NoCall
    /\ UNCHANGED <<slot, resolved, stopped, since>>

\* It did not (the device may take the frame all the same).
NotDelivered(c) == At(c, "sending") /\ Ends(c)

\* The window is over, or the shutdown cancelled the future.
Unconfirmed(c) == At(c, "confirming") /\ ~(slot = c /\ resolved) /\ Ends(c)

\* The caller is cancelled at its await.
Cancelled(c) == call[c].at # "idle" /\ Ends(c)

Confirmed(c) == At(c, "confirming") /\ slot = c /\ resolved

\* async_shutdown: the future is cancelled and the record dropped.
Stops ==
    /\ ~stopped /\ stopped' = TRUE
    /\ slot' = NoCall /\ resolved' = FALSE /\ since' = {}
    /\ UNCHANGED <<call, sender>>

-----------------------------------------------------------------------------
\* A record never outlives its call ("A record that outlived a cancelled press
\* would refuse every later press as in progress until the entry reloaded"), and
\* no two writes are out at once.
RecordHasCall ==
    /\ slot # NoCall => call[slot].at \in {"sending", "confirming"}
    /\ ~stopped => \A c \in Calls : call[c].at # "idle" => slot = c
=============================================================================
