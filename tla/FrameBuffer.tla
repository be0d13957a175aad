----------------------------- MODULE FrameBuffer -----------------------------
(* TypedFrameBuffer (ecoflow/frame_capture.py): the frames a raw data capture  *)
(* keeps.  Every message type has a bucket of its own with a thinned history,  *)
(* one frame per time slot, and its newest frame; the number of types is       *)
(* capped, for telemetry and for writes apart, and a write that repeats like   *)
(* telemetry makes room for one that is new.                                   *)
(*                                                                             *)
(* The buffer as the device probe uses it, which hands over no readings.       *)
(* Timestamps are whole ticks; a slot's width is in 1/SamplesMax of a tick.    *)
EXTENDS Integers, FiniteSets, SequencesExt

CONSTANTS
    Telemetry, Writes,   \* message types
    KeysMax,             \* keys_max
    WriteReserve,        \* write_reserve
    SamplesMax,          \* per_key_max - 1
    Periodic,            \* _PERIODIC_WRITE_MIN_SEEN
    MaxClock, MaxFrames  \* bounds on the clock and on the frames heard

ASSUME BufferAssumption ==
    /\ {KeysMax, WriteReserve, SamplesMax, Periodic} \subseteq Nat \ {0}
    /\ MaxClock \in Nat /\ MaxFrames \in Nat
    /\ IsFiniteSet(Telemetry) /\ IsFiniteSet(Writes)

VARIABLES
    clock,       \* the wall clock
    tracked,     \* the types with a bucket, in the order they got it
    bucket,      \* by type: width, samples, latest, seen and the start of it
    named,       \* _dropped_per_key, 0 for a type not in it
    untracked,   \* _dropped_keys_untracked
    evicted,     \* the types in _write_keys_evicted
    lost,        \* _dropped_frames
    received,    \* history: the frames of each type
    since        \* history: the frames of a type since it got its bucket

countVars == <<named, untracked, evicted, lost>>
bufferVars == <<clock, tracked, bucket, countVars, received, since>>

Types == Telemetry \cup Writes
NoFrame == [ts |-> 0, n |-> 0]
NoBucket == [start |-> 0, width |-> 0, samples |-> <<>>, latest |-> NoFrame, seen |-> 0]

BufferInit ==
    /\ clock \in {0, MaxClock} /\ tracked = <<>> /\ bucket = [k \in Types |-> NoBucket]
    /\ named = [k \in Types |-> 0] /\ untracked = 0 /\ evicted = {} /\ lost = 0
    /\ received = [k \in Types |-> 0] /\ since = [k \in Types |-> {}]

-----------------------------------------------------------------------------
(* The thinned history of one type.                                            *)

\* A frame from before the first one, after the clock was set back, shares its slot.
Clamped(offset) == IF offset > 0 THEN offset ELSE 0

\* _slot; until the budget is exceeded every frame has a slot of its own.
Slot(frame, b) ==
    IF b.width = 0 THEN frame.n ELSE (Clamped(frame.ts - b.start) * SamplesMax) \div b.width

\* The newest kept frame speaks for its slot: a frame joins only from another one.
Joined(kept, frame, b) ==
    IF kept # <<>> /\ Slot(frame, b) = Slot(Last(kept), b) THEN kept ELSE Append(kept, frame)

EverySecond(b) == [i \in 1..((Len(b.samples) + 1) \div 2) |-> b.samples[2 * i - 1]]  \* (faulty)
\* _thin_to_slots: the earliest of each run of frames in one slot.
Thinned(b) ==
    LET thin[i \in 0..Len(b.samples)] ==
            IF i = 0 THEN <<>> ELSE Joined(thin[i - 1], b.samples[i], b)
    IN  thin[Len(b.samples)]

\* One turn of the loop in _sample: the slots double, and if even a slot wider than the
\* whole span does not merge anything the oldest frame goes.
Widened(b) ==
    LET span == Last(b.samples).ts - b.start
        wider == [b EXCEPT !.width = IF @ > 0 THEN 2 * @ ELSE IF span > 0 THEN span ELSE 1]
        thinned == Thinned(wider)
        stuck == /\ Len(thinned) >= Len(b.samples)
                 /\ \A i \in DOMAIN b.samples : wider.width > (b.samples[i].ts - b.start) * SamplesMax
    IN  [wider EXCEPT !.samples = IF stuck THEN Tail(thinned) ELSE thinned]

\* The loop; it ends within as many turns as the widest span can need (DeviceReadsProofs).
Turns == MaxClock * SamplesMax + 1
Fitted(b) ==
    LET fit[turn \in 0..Turns] ==
            IF turn = 0 THEN b
            ELSE LET sofar == fit[turn - 1]
                 IN  IF Len(sofar.samples) <= SamplesMax THEN sofar ELSE Widened(sofar)
    IN  fit[Turns]

\* _sample.
Sampled(b, frame) ==
    LET kept == Joined(b.samples, frame, b)
    IN  IF kept = b.samples THEN b ELSE Fitted([b EXCEPT !.samples = kept])

-----------------------------------------------------------------------------
(* add.                                                                        *)

Class(k) == IF k \in Writes THEN Writes ELSE Telemetry
HasSlotFor(k, types) ==
    Cardinality(ToSet(types) \cap Class(k)) < IF k \in Writes THEN WriteReserve ELSE KeysMax

\* Where the writes that repeat like telemetry are, and the one of them seen most often;
\* the longest tracked of equals.
Repeating == {i \in DOMAIN tracked : tracked[i] \in Writes /\ bucket[tracked[i]].seen >= Periodic}
Seen(i) == bucket[tracked[i]].seen
BusiestPlace ==
    CHOOSE i \in Repeating : \A j \in Repeating : Seen(j) < Seen(i) \/ (Seen(j) = Seen(i) /\ i <= j)
Busiest == tracked[BusiestPlace]

\* What an evicted type was seen counts as dropped, under its name.
GivenUp(k) == bucket[k].seen

Stored(k, b) ==
    LET frame == [ts |-> clock, n |-> b.seen + 1]
        older == IF b.seen = 0 THEN [b EXCEPT !.start = clock] ELSE Sampled(b, b.latest)
    IN  [older EXCEPT !.latest = frame, !.seen = @ + 1]

Heard(k) == received' = [received EXCEPT ![k] = @ + 1]

AddTracked(k) ==
    /\ k \in ToSet(tracked)
    /\ bucket' = [bucket EXCEPT ![k] = Stored(k, @)]
    /\ since' = [since EXCEPT ![k] = @ \cup {bucket'[k].latest}]
    /\ Heard(k) /\ UNCHANGED <<clock, tracked, countVars>>

AddNew(k) ==
    /\ k \notin ToSet(tracked) /\ HasSlotFor(k, tracked)
    /\ tracked' = Append(tracked, k)
    /\ bucket' = [bucket EXCEPT ![k] = Stored(k, NoBucket)]
    /\ since' = [since EXCEPT ![k] = {bucket'[k].latest}]
    /\ Heard(k) /\ UNCHANGED <<clock, countVars>>

\* The reserve is full: a periodic write makes room for one that never did.
AddEvicting(k) ==
    /\ k \in Writes \ (ToSet(tracked) \cup evicted) /\ ~HasSlotFor(k, tracked)
    /\ Repeating # {}
    /\ tracked' = Append(RemoveAt(tracked, BusiestPlace), k)
    /\ bucket' = [bucket EXCEPT ![Busiest] = NoBucket, ![k] = Stored(k, NoBucket)]
    /\ since' = [since EXCEPT ![Busiest] = {}, ![k] = {bucket'[k].latest}]
    /\ evicted' = evicted \cup {Busiest}
    /\ named' = [named EXCEPT ![Busiest] = @ + GivenUp(Busiest)]
    /\ lost' = lost + GivenUp(Busiest)
    /\ Heard(k) /\ UNCHANGED <<clock, untracked>>

\* _note_dropped: the names are capped too.
Drop(k) ==
    /\ k \notin ToSet(tracked) /\ ~HasSlotFor(k, tracked)
    /\ k \in Telemetry \cup evicted \/ Repeating = {}
    /\ lost' = lost + 1
    /\ IF named[k] > 0 \/ Cardinality({t \in Types : named[t] > 0}) < KeysMax
         THEN named' = [named EXCEPT ![k] = @ + 1] /\ UNCHANGED untracked
         ELSE untracked' = untracked + 1 /\ UNCHANGED named
    /\ Heard(k) /\ UNCHANGED <<clock, tracked, bucket, evicted, since>>

\* Time passes, or an NTP correction sets the clock back.
ClockMoves(to) ==
    /\ to # clock /\ clock' = to
    /\ UNCHANGED <<tracked, bucket, countVars, received, since>>

Total(counts) ==
    LET Sum[s \in SUBSET DOMAIN counts] ==
          IF s = {} THEN 0 ELSE LET k == CHOOSE x \in s : TRUE IN counts[k] + Sum[s \ {k}]
    IN  Sum[DOMAIN counts]
FramesHeard == Total(received)

BufferNext ==
    \/ /\ FramesHeard < MaxFrames
       /\ \E k \in Types : AddTracked(k) \/ AddNew(k) \/ AddEvicting(k) \/ Drop(k)
    \/ \E to \in 0..MaxClock : ClockMoves(to)

BufferSpec == BufferInit /\ [][BufferNext]_bufferVars

-----------------------------------------------------------------------------
Kept(k) == ToSet(bucket[k].samples) \cup {bucket[k].latest}

\* However long a type is recorded, however its timestamps jump and whatever is evicted:
\* its budget holds, its first and its newest frame are kept, and so is a frame of every
\* slot in which it was heard ("the first and the newest frame of every type are always
\* kept"; "every later slot in which the device said anything is represented"); and every
\* frame is counted once, under its type or as dropped ("a reader can tell a saturated
\* capture from a complete one").
RecordingWhole ==
    /\ \A k \in ToSet(tracked) :
          /\ Len(bucket[k].samples) <= SamplesMax
          /\ \E frame \in Kept(k) : frame.n = 1
          /\ \A frame \in since[k] \ {bucket[k].latest} :
                \E sample \in ToSet(bucket[k].samples) :
                    Slot(sample, bucket[k]) = Slot(frame, bucket[k])
    /\ Total(received) = Total([k \in Types |-> bucket[k].seen]) + lost

\* "Past the cap only the count of further distinct names is kept" (_note_dropped).
UntrackedAreNames ==
    untracked <= Cardinality({k \in Types \ ToSet(tracked) : received[k] > 0 /\ named[k] = 0})
=============================================================================
