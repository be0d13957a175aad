-------------------------- MODULE DeviceWritesProofs --------------------------
(* Theorems about DeviceWrites, for any number of calls and any values.        *)
(*                                                                             *)
(* Ocean2Write: both settings implement OptimisticValue, a choice is taken     *)
(* back for a reason of its own only, and a refused choice is not shown.  At   *)
(* most one call publishes at a time (LockInv).  The value a key shows         *)
(* unconfirmed belongs to the write its record names, or to the one that a     *)
(* call still publishing has replaced and may have to put back (SeedInv).      *)
(* What a write would put back was reported by the unit (KnownInv): this is    *)
(* what _ocean2_last_reported is for, and it needs the seed's owner.           *)
(*                                                                             *)
(* ConfigWrites (GroupInv), WaveClimate (ClimateInv), TaskWrites (TaskInv) and *)
(* SettingFrames (FrameInv) follow, and at the end the device the coordinator  *)
(* serves, of any family.                                                      *)
EXTENDS DeviceWrites, SequenceTheorems, FiniteSetTheorems, WellFoundedInduction, TLAPS

Pool == Levels \cup Switch \cup {Unset}
MaybeWrite == Writes \cup {NoWrite}
WriteType == [key : Keys, pre : Pool, written : Pool, timers : SUBSET Timers, seen : BOOLEAN,
              reported : BOOLEAN, rejected : BOOLEAN, recent : BOOLEAN]

Ocean2Types ==
    /\ at \in [Writes -> {"new", "asking", "publishing", "ended"}]
    /\ write \in [Writes -> WriteType]
    /\ replaced \in [Writes -> MaybeWrite]
    /\ record \in [Keys -> MaybeWrite]
    /\ holder \in MaybeWrite
    /\ store \in [Keys -> Pool]
    /\ seed \in [Keys -> MaybeWrite]
    /\ told \in [Keys -> SUBSET Pool]

Publishing(w) == at[w] = "publishing"
Recorded(k) == record[k] # NoWrite
Seeded(k) == seed[k] # NoWrite

\* The lock's holder is the one call between its start and its end.
LockInv == \A w \in Writes : at[w] \in {"asking", "publishing"} <=> holder = w

\* What a call that publishes leaves in the records.
PublishInv ==
    \A w \in Writes :
        /\ at[w] # "ended" => write[w].timers = {}
        /\ replaced[w] # NoWrite =>
              Publishing(w) /\ at[replaced[w]] = "ended" /\ write[replaced[w]].key = write[w].key
        /\ Publishing(w) =>
              /\ write[w].written \in Value(write[w].key)
              /\ record[write[w].key] \in {w, NoWrite}
              /\ shutdown \/ record[write[w].key] = w
              /\ write[w].rejected => ~Seeded(write[w].key)

RecordInv ==
    \A k \in Keys : Recorded(k) =>
        write[record[k]].key = k /\ at[record[k]] \in {"publishing", "ended"}

\* Whose choice a key shows.
SeedInv ==
    \A k \in Keys : Seeded(k) =>
        /\ write[seed[k]].key = k /\ at[seed[k]] = "ended"
        /\ ~write[seed[k]].reported /\ ~write[seed[k]].rejected
        /\ Recorded(k) /\ at[record[k]] = "ended" => record[k] = seed[k]
        /\ \A w \in Writes :
              Publishing(w) /\ write[w].key = k /\ replaced[w] # NoWrite => replaced[w] = seed[k]

\* An unconfirmed choice has a record, or a call that will put its record back.
FollowedInv ==
    ~shutdown =>
        \A k \in Keys : Seeded(k) =>
            /\ Recorded(k)
            /\ Publishing(record[k]) => replaced[record[k]] # NoWrite /\ ~write[record[k]].reported

\* Until its request is out a write may have seen a snapshot from before it.
SeenInv ==
    \A k \in Keys : Seeded(k) /\ ~shutdown /\ write[seed[k]].seen => "request" \in write[seed[k]].timers

\* What is shown without a choice, and what would be put back, was reported.
KnownInv ==
    ~shutdown =>
        /\ \A k \in Keys : ~Seeded(k) => store[k] \in told[k] \cup {Unset}
        /\ \A w \in Writes : write[w].pre \in told[write[w].key] \cup {Unset}

Ocean2Inv == Ocean2Types /\ LockInv /\ PublishInv /\ RecordInv /\ SeedInv
FollowInv == Ocean2Inv /\ FollowedInv /\ SeenInv /\ KnownInv

-----------------------------------------------------------------------------
LEMMA Distinct == NoWrite \notin Writes /\ Unset \notin Levels \cup Switch
  BY Ocean2Assumption

LEMMA FreshType ==
  ASSUME NEW k \in Keys, NEW p \in Pool, NEW v \in Pool
  PROVE  Fresh(k, p, v) \in WriteType
  BY DEF Fresh, WriteType

LEMMA UpdatedType ==
  ASSUME NEW r \in WriteType, NEW T \in SUBSET Timers, NEW a \in BOOLEAN, NEW b \in BOOLEAN
  PROVE  /\ [r EXCEPT !.timers = T] \in WriteType
         /\ [r EXCEPT !.timers = T, !.seen = a] \in WriteType
         /\ [r EXCEPT !.timers = T, !.recent = a] \in WriteType
         /\ [r EXCEPT !.reported = a, !.timers = T] \in WriteType
         /\ [r EXCEPT !.rejected = a] \in WriteType
         /\ [r EXCEPT !.seen = a, !.reported = b] \in WriteType
  BY DEF WriteType

\* Every write is a record of the type, and so are its parts.
LEMMA WriteParts ==
  ASSUME Ocean2Types, NEW w \in Writes
  PROVE  /\ write[w] \in WriteType
         /\ write[w].key \in Keys /\ write[w].pre \in Pool /\ write[w].written \in Pool
         /\ write[w].timers \subseteq Timers
         /\ write[w].seen \in BOOLEAN
  BY DEF Ocean2Types, WriteType

LEMMA InitHolds == Init => FollowInv
<1> SUFFICES ASSUME Init PROVE FollowInv
  OBVIOUS
<1> USE Distinct DEF Init
<1>1. Fresh("reserve", Unset, Unset) \in WriteType
  BY FreshType DEF Keys, Pool
<1>2. Ocean2Types
  BY <1>1 DEF Ocean2Types, MaybeWrite, Pool
<1>3. LockInv /\ RecordInv /\ SeedInv /\ FollowedInv /\ SeenInv
  BY DEF LockInv, RecordInv, SeedInv, FollowedInv, SeenInv, Recorded, Seeded
<1>4. PublishInv
  BY DEF PublishInv, Publishing, Fresh
<1>5. KnownInv
  BY DEF KnownInv, Fresh, Seeded
<1> QED
  BY <1>2, <1>3, <1>4, <1>5 DEF FollowInv, Ocean2Inv

-----------------------------------------------------------------------------
LEMMA AskStep ==
  ASSUME Ocean2Inv, NEW w \in Writes, AskSnapshot(w)
  PROVE  Ocean2Inv'
<1> USE Distinct DEF Ocean2Inv, recordVars, storeVars, AskSnapshot
<1>1. Ocean2Types'
  BY SMT DEF Ocean2Types, WriteType, MaybeWrite, Pool
<1>2. LockInv'
  BY SMT DEF Ocean2Types, MaybeWrite, LockInv
<1>3. PublishInv'
  BY SMT DEF Ocean2Types, MaybeWrite, WriteType, LockInv, PublishInv, RecordInv, SeedInv, Publishing, Recorded, Seeded
<1>4. RecordInv'
  BY SMT DEF Ocean2Types, MaybeWrite, WriteType, LockInv, PublishInv, RecordInv, Publishing, Recorded
<1>5. SeedInv'
  BY SMT DEF Ocean2Types, MaybeWrite, WriteType, LockInv, PublishInv, RecordInv, SeedInv, Publishing, Recorded, Seeded
<1> QED
  BY <1>1, <1>2, <1>3, <1>4, <1>5

LEMMA GiveUpStep ==
  ASSUME Ocean2Inv, NEW w \in Writes, GiveUp(w)
  PROVE  Ocean2Inv'
<1> USE Distinct DEF Ocean2Inv, recordVars, storeVars, GiveUp
<1>1. Ocean2Types'
  BY SMT DEF Ocean2Types, WriteType, MaybeWrite, Pool
<1>2. LockInv'
  BY SMT DEF Ocean2Types, MaybeWrite, LockInv
<1>3. PublishInv'
  BY SMT DEF Ocean2Types, MaybeWrite, WriteType, LockInv, PublishInv, RecordInv, SeedInv, Publishing, Recorded, Seeded
<1>4. RecordInv'
  BY SMT DEF Ocean2Types, MaybeWrite, WriteType, LockInv, PublishInv, RecordInv, Publishing, Recorded
<1>5. SeedInv'
  BY SMT DEF Ocean2Types, MaybeWrite, WriteType, LockInv, PublishInv, RecordInv, SeedInv, Publishing, Recorded, Seeded
<1> QED
  BY <1>1, <1>2, <1>3, <1>4, <1>5

LEMMA PublishStep ==
  ASSUME Ocean2Inv, NEW w \in Writes, NEW k \in Keys, NEW v \in Value(k),
         at[w] = "asking" \/ (at[w] = "new" /\ holder = NoWrite), Publish(w, k, v)
  PROVE  Ocean2Inv'
<1> USE Distinct DEF Ocean2Inv, recordVars, storeVars, Publish, Fresh
<1>1. Ocean2Types'
  <2>1. LastReported(k) \in Pool
    BY WriteParts DEF LastReported, Ocean2Types, MaybeWrite
  <2>2. Fresh(k, LastReported(k), v) \in WriteType
    BY <2>1, FreshType DEF Value, Pool
  <2>3. write' \in [Writes -> WriteType]
    BY <2>2 DEF Ocean2Types
  <2> QED
    BY <2>3, SMT DEF Ocean2Types, MaybeWrite
<1>2. LockInv'
  BY SMT DEF Ocean2Types, MaybeWrite, LockInv
<1>3. PublishInv'
  BY SMT DEF Ocean2Types, MaybeWrite, WriteType, LockInv, PublishInv, RecordInv, SeedInv, Publishing, Recorded, Seeded
<1>4. RecordInv'
  BY SMT DEF Ocean2Types, MaybeWrite, WriteType, LockInv, PublishInv, RecordInv, Publishing, Recorded
<1>5. SeedInv'
  BY SMT DEF Ocean2Types, MaybeWrite, WriteType, LockInv, PublishInv, RecordInv, SeedInv, Publishing, Recorded, Seeded
<1> QED
  BY <1>1, <1>2, <1>3, <1>4, <1>5

LEMMA PublishFailsStep ==
  ASSUME Ocean2Inv, NEW w \in Writes, PublishFails(w)
  PROVE  Ocean2Inv'
<1> USE Distinct DEF Ocean2Inv, recordVars, storeVars, PublishFails, Reinstated
<1>1. Ocean2Types'
  BY SMT DEF Ocean2Types, WriteType, MaybeWrite, Pool
<1>2. LockInv'
  BY SMT DEF Ocean2Types, MaybeWrite, LockInv
<1>3. PublishInv'
  BY SMT DEF Ocean2Types, MaybeWrite, WriteType, LockInv, PublishInv, RecordInv, SeedInv, Publishing, Recorded, Seeded
<1>4. RecordInv'
  BY SMT DEF Ocean2Types, MaybeWrite, WriteType, LockInv, PublishInv, RecordInv, Publishing, Recorded
<1>5. SeedInv'
  BY SMT DEF Ocean2Types, MaybeWrite, WriteType, LockInv, PublishInv, RecordInv, SeedInv, Publishing, Recorded, Seeded
<1> QED
  BY <1>1, <1>2, <1>3, <1>4, <1>5

LEMMA PublishDoneFacts ==
  ASSUME Ocean2Types, NEW w \in Writes, PublishDone(w)
  PROVE  /\ Publishing(w)
         /\ write' \in [Writes -> WriteType]
         /\ \A x \in Writes :
               /\ write'[x].key = write[x].key /\ write'[x].pre = write[x].pre
               /\ write'[x].written = write[x].written /\ write'[x].seen = write[x].seen
               /\ write'[x].rejected = write[x].rejected
               /\ x # w => write'[x].timers \subseteq write[x].timers
               /\ x = w /\ ~write[w].rejected /\ ~shutdown => "request" \in write'[w].timers
               /\ x # w => write'[x].reported = write[x].reported
               /\ x = w /\ ~write[w].rejected => ~write'[x].reported
         /\ replaced' = [replaced EXCEPT ![w] = NoWrite]
         /\ holder' = NoWrite /\ at' = [at EXCEPT ![w] = "ended"]
         /\ told' = told /\ shutdown' = shutdown
         /\ write[w].rejected =>
               record' = [record EXCEPT ![write[w].key] = NoWrite] /\ store' = store /\ seed' = seed
         /\ ~write[w].rejected =>
               /\ record' = record
               /\ store' = [store EXCEPT ![write[w].key] = write[w].written]
               /\ seed' = [seed EXCEPT ![write[w].key] = w]
<1> DEFINE calm == IF replaced[w] = NoWrite THEN write ELSE [write EXCEPT ![replaced[w]].timers = {}]
<1>1. \A x \in Writes : write[x] \in WriteType /\ [write[x] EXCEPT !.timers = {}] \in WriteType
  BY WriteParts, UpdatedType
<1>2. /\ calm \in [Writes -> WriteType]
      /\ \A x \in Writes :
            /\ calm[x].key = write[x].key /\ calm[x].pre = write[x].pre
            /\ calm[x].written = write[x].written /\ calm[x].seen = write[x].seen
            /\ calm[x].rejected = write[x].rejected /\ calm[x].reported = write[x].reported
            /\ calm[x].timers \subseteq write[x].timers
  <2>1. CASE replaced[w] = NoWrite
    BY <2>1 DEF Ocean2Types
  <2>2. CASE replaced[w] # NoWrite
    BY <1>1, <2>2, SMT DEF Ocean2Types, MaybeWrite, WriteType
  <2> QED
    BY <2>1, <2>2
<1>3. CASE write[w].rejected
  <2>1. write' = calm
    BY <1>3 DEF PublishDone, RefusedMeanwhile
  <2> QED
    BY <1>2, <1>3, <2>1 DEF PublishDone, RefusedMeanwhile, Publishing, storeVars
<1>4. CASE ~write[w].rejected
  <2>1. write' = [calm EXCEPT ![w] = [calm[w] EXCEPT !.reported = FALSE, !.timers = Armed(w)]]
    BY <1>2, <1>4 DEF PublishDone, RefusedMeanwhile
  <2>2. calm[w] \in WriteType
    BY <1>2
  <2>3. [calm[w] EXCEPT !.reported = FALSE, !.timers = Armed(w)] \in WriteType
    BY <2>2, UpdatedType DEF Armed
  <2> HIDE DEF calm
  <2>4. /\ write'[w] = [calm[w] EXCEPT !.reported = FALSE, !.timers = Armed(w)]
        /\ \A x \in Writes : x # w => write'[x] = calm[x]
    BY <1>2, <2>1
  <2>5. write' \in [Writes -> WriteType]
    BY <1>2, <2>3, <2>1
  <2>7. /\ write'[w].key = calm[w].key /\ write'[w].pre = calm[w].pre
        /\ write'[w].written = calm[w].written /\ write'[w].seen = calm[w].seen
        /\ write'[w].rejected = calm[w].rejected
        /\ ~write'[w].reported /\ write'[w].timers = Armed(w)
    BY <2>2, <2>4 DEF WriteType
  <2>6. \A x \in Writes :
          /\ write'[x].key = write[x].key /\ write'[x].pre = write[x].pre
          /\ write'[x].written = write[x].written /\ write'[x].seen = write[x].seen
          /\ write'[x].rejected = write[x].rejected
          /\ x # w => write'[x].timers \subseteq write[x].timers
          /\ x # w => write'[x].reported = write[x].reported
          /\ x = w => ~write'[x].reported /\ write'[x].timers = Armed(w)
    <3> SUFFICES ASSUME NEW x \in Writes
                 PROVE  /\ write'[x].key = write[x].key /\ write'[x].pre = write[x].pre
                        /\ write'[x].written = write[x].written /\ write'[x].seen = write[x].seen
                        /\ write'[x].rejected = write[x].rejected
                        /\ x # w => write'[x].timers \subseteq write[x].timers
                        /\ x # w => write'[x].reported = write[x].reported
                        /\ x = w => ~write'[x].reported /\ write'[x].timers = Armed(w)
      OBVIOUS
    <3>1. CASE x = w
      BY <1>2, <2>7, <3>1, Zenon
    <3>2. CASE x # w
      BY <1>2, <2>4, <3>2, Zenon
    <3> QED
      BY <3>1, <3>2
  <2>8. ~shutdown => "request" \in Armed(w)
    BY DEF Armed, Timers
  <2>9. /\ Publishing(w)
        /\ replaced' = [replaced EXCEPT ![w] = NoWrite]
        /\ holder' = NoWrite /\ at' = [at EXCEPT ![w] = "ended"]
        /\ told' = told /\ shutdown' = shutdown
        /\ record' = record
        /\ store' = [store EXCEPT ![write[w].key] = write[w].written]
        /\ seed' = [seed EXCEPT ![write[w].key] = w]
    BY <1>4 DEF PublishDone, RefusedMeanwhile, Publishing
  <2> QED
    BY <1>4, <2>5, <2>6, <2>8, <2>9, Zenon
<1> QED
  BY <1>3, <1>4

LEMMA PublishDoneStep ==
  ASSUME Ocean2Inv, NEW w \in Writes, PublishDone(w)
  PROVE  Ocean2Inv'
<1>1. Ocean2Types
  BY DEF Ocean2Inv
<1> USE <1>1, PublishDoneFacts, WriteParts, Distinct DEF Ocean2Inv
<1>2. Ocean2Types'
  <2>1. CASE write[w].rejected
    BY <2>1, SMT DEF Ocean2Types, MaybeWrite
  <2>2. CASE ~write[w].rejected
    BY <2>2, SMT DEF Ocean2Types, MaybeWrite
  <2> QED
    BY <2>1, <2>2
<1>3. LockInv'
  <2>1. holder' = NoWrite /\ at' = [at EXCEPT ![w] = "ended"] /\ Publishing(w)
    OBVIOUS
  <2> QED
    BY <2>1, SMT DEF Ocean2Types, MaybeWrite, LockInv, Publishing
<1>4. PublishInv'
  BY SMT DEF Ocean2Types, MaybeWrite, LockInv, PublishInv, Publishing, Seeded
<1>5. RecordInv'
  BY SMT DEF Ocean2Types, MaybeWrite, RecordInv, Recorded
<1>6. SeedInv'
  <2>1. CASE write[w].rejected
    BY <2>1, SMT DEF Ocean2Types, MaybeWrite, LockInv, PublishInv, RecordInv, SeedInv, Publishing,
                     Recorded, Seeded
  <2>2. CASE ~write[w].rejected
    BY <2>2, SMT DEF Ocean2Types, MaybeWrite, LockInv, PublishInv, RecordInv, SeedInv, Publishing,
                     Recorded, Seeded
  <2> QED
    BY <2>1, <2>2
<1> QED
  BY <1>2, <1>3, <1>4, <1>5, <1>6

LEMMA RequestStep ==
  ASSUME Ocean2Inv, NEW w \in Writes, RequestFires(w)
  PROVE  Ocean2Inv'
<1> USE Distinct DEF Ocean2Inv, recordVars, storeVars, RequestFires, IsCurrent
<1>1. Ocean2Types'
  <2>1. [write[w] EXCEPT !.timers = @ \ {"request"}, !.seen = @ /\ ~IsCurrent(w)] \in WriteType
    BY WriteParts, UpdatedType DEF IsCurrent
  <2> QED
    BY <2>1 DEF Ocean2Types
<1>2. LockInv'
  BY SMT DEF Ocean2Types, MaybeWrite, LockInv
<1>3. PublishInv'
  BY SMT DEF Ocean2Types, MaybeWrite, WriteType, LockInv, PublishInv, RecordInv, SeedInv, Publishing, Recorded, Seeded
<1>4. RecordInv'
  BY SMT DEF Ocean2Types, MaybeWrite, WriteType, LockInv, PublishInv, RecordInv, Publishing, Recorded
<1>5. SeedInv'
  BY SMT DEF Ocean2Types, MaybeWrite, WriteType, LockInv, PublishInv, RecordInv, SeedInv, Publishing, Recorded, Seeded
<1> QED
  BY <1>1, <1>2, <1>3, <1>4, <1>5

LEMMA RetryStep ==
  ASSUME Ocean2Inv, NEW w \in Writes, RetryFires(w)
  PROVE  Ocean2Inv'
<1> USE Distinct DEF Ocean2Inv, recordVars, storeVars, RetryFires
<1>1. Ocean2Types'
  <2>1. [write[w] EXCEPT !.timers = @ \ {"retry"}, !.recent = FALSE] \in WriteType
    BY WriteParts, UpdatedType
  <2> QED
    BY <2>1 DEF Ocean2Types
<1>2. LockInv'
  BY SMT DEF Ocean2Types, MaybeWrite, LockInv
<1>3. PublishInv'
  BY SMT DEF Ocean2Types, MaybeWrite, WriteType, LockInv, PublishInv, RecordInv, SeedInv, Publishing, Recorded, Seeded
<1>4. RecordInv'
  BY SMT DEF Ocean2Types, MaybeWrite, WriteType, LockInv, PublishInv, RecordInv, Publishing, Recorded
<1>5. SeedInv'
  BY SMT DEF Ocean2Types, MaybeWrite, WriteType, LockInv, PublishInv, RecordInv, SeedInv, Publishing, Recorded, Seeded
<1> QED
  BY <1>1, <1>2, <1>3, <1>4, <1>5

LEMMA ExpireFacts ==
  ASSUME Ocean2Types, NEW w \in Writes, ExpireFires(w)
  PROVE  /\ write[w].timers = {"expire"}
         /\ write' \in [Writes -> WriteType]
         /\ \A x \in Writes :
               /\ write'[x].key = write[x].key /\ write'[x].pre = write[x].pre
               /\ write'[x].written = write[x].written /\ write'[x].seen = write[x].seen
               /\ write'[x].rejected = write[x].rejected /\ write'[x].reported = write[x].reported
               /\ x # w => write'[x].timers = write[x].timers
               /\ x = w => write'[x].timers = {}
         /\ UNCHANGED <<at, replaced, holder, told, shutdown>>
         /\ ~IsCurrent(w) => UNCHANGED <<record, store, seed>>
         /\ IsCurrent(w) => record' = [record EXCEPT ![write[w].key] = NoWrite]
         /\ IsCurrent(w) /\ write[w].seen => UNCHANGED <<store, seed>>
         /\ IsCurrent(w) /\ ~write[w].seen =>
               /\ store' = [store EXCEPT ![write[w].key] = write[w].pre]
               /\ seed' = [seed EXCEPT ![write[w].key] = NoWrite]
<1>1. write[w] \in WriteType /\ [write[w] EXCEPT !.timers = {}] \in WriteType
  BY WriteParts, UpdatedType
<1>2. write' \in [Writes -> WriteType]
  BY <1>1 DEF ExpireFires, Ocean2Types
<1>3. \A x \in Writes :
         /\ write'[x].key = write[x].key /\ write'[x].pre = write[x].pre
         /\ write'[x].written = write[x].written /\ write'[x].seen = write[x].seen
         /\ write'[x].rejected = write[x].rejected /\ write'[x].reported = write[x].reported
         /\ x # w => write'[x].timers = write[x].timers
         /\ x = w => write'[x].timers = {}
  BY <1>1, SMT DEF ExpireFires, Ocean2Types, WriteType
<1> QED
  BY <1>2, <1>3 DEF ExpireFires, Restore, storeVars

LEMMA ExpireStep ==
  ASSUME Ocean2Inv, NEW w \in Writes, ExpireFires(w)
  PROVE  Ocean2Inv'
<1>1. Ocean2Types
  BY DEF Ocean2Inv
<1> USE <1>1, ExpireFacts, WriteParts, Distinct DEF Ocean2Inv
<1>2. Ocean2Types'
  BY SMT DEF Ocean2Types, MaybeWrite
<1>3. LockInv' /\ RecordInv'
  BY SMT DEF Ocean2Types, MaybeWrite, LockInv, RecordInv, Recorded
<1>4. PublishInv'
  <2>1. CASE IsCurrent(w)
    <3>1. at[w] = "ended" /\ record[write[w].key] = w
      BY <2>1 DEF PublishInv, IsCurrent
    <3>2. ASSUME NEW x \in Writes, Publishing(x)
          PROVE  record'[write[x].key] \in {x, NoWrite} /\ (shutdown \/ record'[write[x].key] = x)
      BY <2>1, <3>1, <3>2, SMT DEF PublishInv, Publishing, Ocean2Types, MaybeWrite
    <3>3. \A k \in Keys : ~Seeded(k) => ~Seeded(k)'
      BY <2>1, SMT DEF Seeded, Ocean2Types
    <3>4. ASSUME NEW x \in Writes
          PROVE  /\ at'[x] # "ended" => write'[x].timers = {}
                 /\ replaced'[x] # NoWrite =>
                       /\ at'[x] = "publishing" /\ at'[replaced'[x]] = "ended"
                       /\ write'[replaced'[x]].key = write'[x].key
      BY <3>1, SMT DEF PublishInv, Publishing, Ocean2Types, MaybeWrite
    <3>5. ASSUME NEW x \in Writes, Publishing(x)
          PROVE  /\ write'[x].written \in Value(write'[x].key)
                 /\ write'[x].rejected => seed'[write'[x].key] = NoWrite
      BY <3>3, <3>5 DEF PublishInv, Seeded
    <3> QED
      BY <3>2, <3>4, <3>5 DEF PublishInv, Publishing, Seeded
  <2>2. CASE ~IsCurrent(w)
    BY <2>2, SMT DEF Ocean2Types, MaybeWrite, PublishInv, RecordInv, Publishing, Recorded, Seeded
  <2> QED
    BY <2>1, <2>2
<1>5. SeedInv'
  <2>1. CASE IsCurrent(w) /\ write[w].seen
    BY <2>1, SMT DEF Ocean2Types, MaybeWrite, PublishInv, RecordInv, SeedInv, Publishing, Recorded,
                     Seeded, IsCurrent
  <2>2. CASE IsCurrent(w) /\ ~write[w].seen
    BY <2>2, SMT DEF Ocean2Types, MaybeWrite, PublishInv, RecordInv, SeedInv, Publishing, Recorded,
                     Seeded, IsCurrent
  <2>3. CASE ~IsCurrent(w)
    BY <2>3, SMT DEF Ocean2Types, MaybeWrite, SeedInv, Publishing, Recorded, Seeded
  <2> QED
    BY <2>1, <2>2, <2>3
<1> QED
  BY <1>2, <1>3, <1>4, <1>5

LEMMA RefusalFacts ==
  ASSUME Ocean2Types, NEW w \in Writes, RefusalRuns(w)
  PROVE  /\ w \in refusals
         /\ write' \in [Writes -> WriteType]
         /\ \A x \in Writes :
               /\ write'[x].key = write[x].key /\ write'[x].pre = write[x].pre
               /\ write'[x].written = write[x].written /\ write'[x].seen = write[x].seen
               /\ write'[x].timers = write[x].timers /\ write'[x].reported = write[x].reported
               /\ x # w \/ ~IsCurrent(w) => write'[x].rejected = write[x].rejected
         /\ UNCHANGED <<at, replaced, record, holder, told, shutdown>>
         /\ ~IsCurrent(w) => UNCHANGED <<store, seed>>
         /\ IsCurrent(w) =>
               /\ store' = [store EXCEPT ![write[w].key] = write[w].pre]
               /\ seed' = [seed EXCEPT ![write[w].key] = NoWrite]
<1>1. write[w] \in WriteType /\ [write[w] EXCEPT !.rejected = TRUE] \in WriteType
  BY WriteParts, UpdatedType
<1>2. CASE IsCurrent(w)
  <2>1. write' = [write EXCEPT ![w] = [write[w] EXCEPT !.rejected = TRUE]]
    BY <1>2 DEF RefusalRuns
  <2>2. write' \in [Writes -> WriteType]
    BY <1>1, <2>1 DEF Ocean2Types
  <2>3. /\ write'[w] = [write[w] EXCEPT !.rejected = TRUE]
        /\ \A x \in Writes : x # w => write'[x] = write[x]
    BY <2>1 DEF Ocean2Types
  <2>4. /\ write'[w].key = write[w].key /\ write'[w].pre = write[w].pre
        /\ write'[w].written = write[w].written /\ write'[w].seen = write[w].seen
        /\ write'[w].timers = write[w].timers /\ write'[w].reported = write[w].reported
    BY <1>1, <2>3 DEF WriteType
  <2> QED
    BY <1>2, <2>2, <2>3, <2>4 DEF RefusalRuns, Restore
<1>3. CASE ~IsCurrent(w)
  BY <1>3 DEF RefusalRuns, storeVars, Ocean2Types
<1> QED
  BY <1>2, <1>3

LEMMA RefusalRunsStep ==
  ASSUME Ocean2Inv, NEW w \in Writes, RefusalRuns(w)
  PROVE  Ocean2Inv'
<1>1. Ocean2Types
  BY DEF Ocean2Inv
<1> USE <1>1, RefusalFacts, WriteParts, Distinct DEF Ocean2Inv
<1>2. Ocean2Types'
  BY SMT DEF Ocean2Types, MaybeWrite
<1>3. LockInv' /\ RecordInv'
  BY SMT DEF Ocean2Types, MaybeWrite, LockInv, RecordInv, Recorded
<1>4. PublishInv'
  <2>1. CASE IsCurrent(w)
    <3>1. \A k \in Keys : ~Seeded(k) => ~Seeded(k)'
      BY <2>1, SMT DEF Seeded, Ocean2Types
    <3>2. ~Seeded(write[w].key)'
      BY <2>1, SMT DEF Seeded, Ocean2Types
    <3>3. ASSUME NEW x \in Writes, Publishing(x), write'[x].rejected
          PROVE  ~Seeded(write[x].key)'
      <4>1. CASE x = w
        BY <3>2, <4>1
      <4>2. CASE x # w
        BY <3>1, <3>3, <4>2 DEF PublishInv
      <4> QED
        BY <4>1, <4>2
    <3>4. ASSUME NEW x \in Writes
          PROVE  /\ at'[x] # "ended" => write'[x].timers = {}
                 /\ replaced'[x] # NoWrite =>
                       /\ at'[x] = "publishing" /\ at'[replaced'[x]] = "ended"
                       /\ write'[replaced'[x]].key = write'[x].key
      BY SMT DEF PublishInv, Publishing, Ocean2Types, MaybeWrite
    <3>5. ASSUME NEW x \in Writes, Publishing(x)
          PROVE  /\ write'[x].written \in Value(write'[x].key)
                 /\ record'[write'[x].key] \in {x, NoWrite}
                 /\ shutdown' \/ record'[write'[x].key] = x
                 /\ write'[x].rejected => seed'[write'[x].key] = NoWrite
      BY <3>3, <3>5 DEF PublishInv, Seeded
    <3> QED
      BY <3>4, <3>5 DEF PublishInv, Publishing, Seeded
  <2>2. CASE ~IsCurrent(w)
    BY <2>2, SMT DEF Ocean2Types, MaybeWrite, PublishInv, RecordInv, Publishing, Recorded, Seeded
  <2> QED
    BY <2>1, <2>2
<1>5. SeedInv'
  <2>1. CASE IsCurrent(w)
    <3>1. \A k \in Keys : seed'[k] = IF k = write[w].key THEN NoWrite ELSE seed[k]
      BY <2>1, SMT DEF Ocean2Types
    <3>2. \A k \in Keys : Seeded(k)' => seed'[k] = seed[k] /\ Seeded(k) /\ k # write[w].key
      BY <3>1 DEF Seeded
    <3>3. ASSUME NEW k \in Keys, Seeded(k)'
          PROVE  ~write'[seed[k]].rejected
      BY <3>2, <3>3, SMT DEF SeedInv, Seeded, Ocean2Types, MaybeWrite
    <3> QED
      BY <3>2, <3>3, SMT DEF SeedInv, Publishing, Recorded, Seeded, Ocean2Types, MaybeWrite
  <2>2. CASE ~IsCurrent(w)
    BY <2>2, SMT DEF Ocean2Types, MaybeWrite, SeedInv, Publishing, Recorded, Seeded
  <2> QED
    BY <2>1, <2>2
<1> QED
  BY <1>2, <1>3, <1>4, <1>5

LEMMA RefusalArrivesStep ==
  ASSUME Ocean2Inv, NEW k \in Keys, RefusalArrives(k)
  PROVE  Ocean2Inv'
<1> USE Distinct DEF Ocean2Inv, recordVars, storeVars, RefusalArrives
<1>1. Ocean2Types'
  BY SMT DEF Ocean2Types, WriteType, MaybeWrite, Pool
<1>2. LockInv'
  BY SMT DEF Ocean2Types, MaybeWrite, LockInv
<1>3. PublishInv'
  BY SMT DEF Ocean2Types, MaybeWrite, WriteType, LockInv, PublishInv, RecordInv, SeedInv, Publishing, Recorded, Seeded
<1>4. RecordInv'
  BY SMT DEF Ocean2Types, MaybeWrite, WriteType, LockInv, PublishInv, RecordInv, Publishing, Recorded
<1>5. SeedInv'
  BY SMT DEF Ocean2Types, MaybeWrite, WriteType, LockInv, PublishInv, RecordInv, SeedInv, Publishing, Recorded, Seeded
<1> QED
  BY <1>1, <1>2, <1>3, <1>4, <1>5

LEMMA SnapshotFacts ==
  ASSUME Ocean2Types, NEW reading \in Snapshots, SnapshotArrives(reading)
  PROVE  /\ store' \in [Keys -> Pool] /\ \A k \in Keys : store'[k] \in Value(k)
         /\ told' \in [Keys -> SUBSET Pool] /\ \A k \in Keys : told'[k] = told[k] \cup {store'[k]}
         /\ seed' = [k \in Keys |-> NoWrite]
         /\ write' \in [Writes -> WriteType]
         /\ \A w \in Writes :
               /\ write'[w].key = write[w].key /\ write'[w].pre = write[w].pre
               /\ write'[w].written = write[w].written /\ write'[w].timers = write[w].timers
               /\ write'[w].rejected = write[w].rejected
         /\ UNCHANGED <<at, replaced, record, holder, refusals, shutdown>>
<1>1. reading \in [Keys -> Pool] /\ \A k \in Keys : reading[k] \in Value(k)
  BY DEF Snapshots, Keys, Pool, Value
<1>2. \A w \in Writes :
          /\ write[w] \in WriteType
          /\ [write[w] EXCEPT !.seen = TRUE, !.reported = TRUE] \in WriteType
  BY WriteParts, UpdatedType
<1>3. write' \in [Writes -> WriteType]
  BY <1>2 DEF SnapshotArrives
<1>4. \A w \in Writes :
          /\ write'[w].key = write[w].key /\ write'[w].pre = write[w].pre
          /\ write'[w].written = write[w].written /\ write'[w].timers = write[w].timers
          /\ write'[w].rejected = write[w].rejected
  BY <1>2 DEF SnapshotArrives, WriteType
<1>5. /\ store' = reading /\ told' = [k \in Keys |-> told[k] \cup {reading[k]}]
      /\ seed' = [k \in Keys |-> NoWrite]
      /\ UNCHANGED <<at, replaced, record, holder, refusals, shutdown>>
  BY DEF SnapshotArrives
<1>6. told' \in [Keys -> SUBSET Pool] /\ \A k \in Keys : told'[k] = told[k] \cup {store'[k]}
  BY <1>1, <1>5, SMT DEF Ocean2Types
<1> QED
  BY <1>1, <1>3, <1>4, <1>5, <1>6

LEMMA SnapshotStep ==
  ASSUME Ocean2Inv, NEW reading \in Snapshots, SnapshotArrives(reading)
  PROVE  Ocean2Inv'
<1>1. Ocean2Types
  BY DEF Ocean2Inv
<1> USE <1>1, SnapshotFacts, Distinct DEF Ocean2Inv
<1>2. Ocean2Types'
  BY DEF Ocean2Types, MaybeWrite
<1>3. LockInv' /\ RecordInv'
  BY DEF LockInv, RecordInv, Recorded, Ocean2Types, MaybeWrite
<1>4. PublishInv'
  BY DEF PublishInv, Publishing, Seeded, Ocean2Types, MaybeWrite, WriteType
<1>5. SeedInv'
  BY DEF SeedInv, Seeded
<1> QED
  BY <1>2, <1>3, <1>4, <1>5 DEF Ocean2Inv

LEMMA ShutdownStep ==
  ASSUME Ocean2Inv,  Shutdown
  PROVE  Ocean2Inv'
<1> USE Distinct DEF Ocean2Inv, recordVars, storeVars, Shutdown, IsCurrent
<1>1. Ocean2Types'
  <2>1. \A w \in Writes : [write[w] EXCEPT !.timers = {}] \in WriteType /\ write[w] \in WriteType
    BY WriteParts, UpdatedType
  <2> QED
    BY <2>1, SMT DEF Ocean2Types, MaybeWrite
<1>2. LockInv'
  BY SMT DEF Ocean2Types, MaybeWrite, LockInv
<1>3. PublishInv'
  BY SMT DEF Ocean2Types, MaybeWrite, WriteType, LockInv, PublishInv, RecordInv, SeedInv, Publishing, Recorded, Seeded
<1>4. RecordInv'
  BY SMT DEF Ocean2Types, MaybeWrite, WriteType, LockInv, PublishInv, RecordInv, Publishing, Recorded
<1>5. SeedInv'
  BY SMT DEF Ocean2Types, MaybeWrite, WriteType, LockInv, PublishInv, RecordInv, SeedInv, Publishing, Recorded, Seeded
<1> QED
  BY <1>1, <1>2, <1>3, <1>4, <1>5

LEMMA Ocean2StepHolds == Ocean2Inv /\ [Next]_vars => Ocean2Inv'
<1> SUFFICES ASSUME Ocean2Inv, [Next]_vars PROVE Ocean2Inv'
  OBVIOUS
<1>1. ASSUME NEW w \in Writes, SendReserve(w) \/ SendStormGuard(w) PROVE Ocean2Inv'
  <2>1. PICK k \in Keys : \E v \in Value(k) : Publish(w, k, v)
    BY <1>1 DEF SendReserve, SendStormGuard, Keys, Value
  <2>2. at[w] = "asking" \/ (at[w] = "new" /\ holder = NoWrite)
    BY <1>1 DEF SendReserve, SendStormGuard
  <2> QED
    BY <2>1, <2>2, PublishStep
<1>2. CASE UNCHANGED <<at, recordVars, holder, storeVars, shutdown>>
  BY <1>2 DEF recordVars, storeVars, Ocean2Inv, Ocean2Types, LockInv, PublishInv, RecordInv, SeedInv,
              Publishing, Recorded, Seeded
<1>3. PropertyPush \/ UNCHANGED vars => UNCHANGED <<at, recordVars, holder, storeVars, shutdown>>
  BY DEF PropertyPush, vars, recordVars, storeVars
<1> QED
  BY <1>1, <1>2, <1>3, AskStep, GiveUpStep, PublishFailsStep, PublishDoneStep, RequestStep, RetryStep,
     ExpireStep, RefusalRunsStep, RefusalArrivesStep, SnapshotStep, ShutdownStep DEF Next

\* The inductive invariant of the writes, whatever timers run out while a newer write
\* is published: who holds the lock, what the records name and whose choice is shown.
THEOREM Ocean2Invariant == Spec => []Ocean2Inv
<1>1. Init => Ocean2Inv
  BY InitHolds DEF FollowInv
<1> QED
  BY <1>1, Ocean2StepHolds, PTL DEF Spec

\* A refused choice is never shown (the two orders of _ocean2_reject_write and the end of
\* _ocean2_publish).
THEOREM RefusedIsNotShown == Spec => []RefusedNotShown
<1>1. Ocean2Inv => RefusedNotShown
  BY DEF Ocean2Inv, SeedInv, Seeded, RefusedNotShown
<1> QED
  BY <1>1, Ocean2Invariant, PTL

\* An older write's timer or refusal never takes a newer choice away (_ocean2_is_current).
THEOREM OnlyItsOwnReason == Spec => OwnReason
<1>1. ASSUME Ocean2Inv, [Next]_vars, NEW k \in Keys, Seeded(k), seed'[k] # seed[k], seed'[k] = NoWrite
      PROVE  \/ \E reading \in Snapshots : SnapshotArrives(reading)
             \/ record[k] = seed[k] /\ ExpireFires(record[k])
             \/ record[k] \in refusals /\ RefusalRuns(record[k])
  <2> USE Distinct DEF Ocean2Inv
  <2>1. ASSUME NEW w \in Writes, ExpireFires(w)
        PROVE  record[k] = seed[k] /\ ExpireFires(record[k])
    <3>1. IsCurrent(w) /\ k = write[w].key
      BY <1>1, <2>1, ExpireFacts, WriteParts, SMT DEF Ocean2Types
    <3>2. record[k] = w
      BY <3>1 DEF IsCurrent
    <3>3. at[w] = "ended"
      BY <1>1, <2>1, ExpireFacts DEF PublishInv
    <3> QED
      BY <1>1, <2>1, <3>2, <3>3 DEF SeedInv, Recorded
  <2>2. ASSUME NEW w \in Writes, RefusalRuns(w)
        PROVE  record[k] \in refusals /\ RefusalRuns(record[k])
    <3>1. IsCurrent(w) /\ k = write[w].key
      BY <1>1, <2>2, RefusalFacts, WriteParts, SMT DEF Ocean2Types
    <3>2. record[k] = w
      BY <3>1 DEF IsCurrent
    <3> QED
      BY <1>1, <2>2, <3>2, RefusalFacts
  <2>3. ASSUME NEW w \in Writes, PublishDone(w) PROVE FALSE
    <3>1. seed' = seed \/ seed' = [seed EXCEPT ![write[w].key] = w]
      BY <1>1, <2>3, PublishDoneFacts
    <3> QED
      BY <1>1, <3>1, WriteParts DEF Ocean2Types
  <2>4. ASSUME seed' = seed PROVE FALSE
    BY <1>1, <2>4
  <2>5. ASSUME NEW w \in Writes,
               \/ AskSnapshot(w) \/ GiveUp(w) \/ SendReserve(w) \/ SendStormGuard(w)
               \/ PublishFails(w) \/ RequestFires(w) \/ RetryFires(w)
        PROVE  seed' = seed
    BY <2>5 DEF AskSnapshot, GiveUp, SendReserve, SendStormGuard, Publish, PublishFails, RequestFires,
                RetryFires, storeVars
  <2>6. ASSUME PropertyPush \/ Shutdown \/ UNCHANGED vars \/ \E q \in Keys : RefusalArrives(q)
        PROVE  seed' = seed
    BY <2>6 DEF PropertyPush, Shutdown, RefusalArrives, vars, storeVars
  <2> QED
    BY <1>1, <2>1, <2>2, <2>3, <2>4, <2>5, <2>6 DEF Next
<1>2. Ocean2Inv /\ [Next]_vars => [GoesForAReason]_vars
  BY <1>1 DEF Seeded, GoesForAReason
<1> QED
  BY <1>2, Ocean2Invariant, PTL DEF Spec, OwnReason

-----------------------------------------------------------------------------
(* The second part: what is shown was reported, or is followed up.             *)

Following == FollowedInv /\ SeenInv /\ KnownInv

LEMMA ReportedIsKnown ==
  ASSUME FollowInv, ~shutdown, NEW k \in Keys, \A x \in Writes : ~Publishing(x)
  PROVE  LastReported(k) \in told[k] \cup {Unset}
<1> USE Distinct DEF FollowInv, Ocean2Inv, Ocean2Types, MaybeWrite
<1>1. CASE Recorded(k) /\ ~write[record[k]].reported
  <2>1. LastReported(k) = write[record[k]].pre
    BY <1>1 DEF LastReported, Recorded
  <2> QED
    BY <1>1, <2>1 DEF RecordInv, Recorded, KnownInv
<1>2. CASE ~(Recorded(k) /\ ~write[record[k]].reported)
  <2>1. LastReported(k) = store[k]
    BY <1>2 DEF LastReported, Recorded
  <2>2. ~Seeded(k)
    BY <1>2 DEF FollowedInv, SeedInv, RecordInv, Publishing, Recorded, Seeded
  <2> QED
    BY <2>1, <2>2 DEF KnownInv
<1> QED
  BY <1>1, <1>2

LEMMA FollowPublish ==
  ASSUME FollowInv, NEW w \in Writes, NEW k \in Keys, NEW v \in Value(k),
         at[w] = "asking" \/ (at[w] = "new" /\ holder = NoWrite), Publish(w, k, v)
  PROVE  Following'
<1> SUFFICES ASSUME ~shutdown PROVE Following'
  BY DEF Publish, Following, FollowedInv, SeenInv, KnownInv
<1> USE Distinct DEF FollowInv, Ocean2Inv, storeVars
<1>1. \A x \in Writes : ~Publishing(x)
  BY DEF LockInv, Publishing, Ocean2Types, MaybeWrite
<1>2. LastReported(k) \in told[k] \cup {Unset}
  BY <1>1, ReportedIsKnown
<1>3. /\ write'[w].key = k /\ write'[w].pre = LastReported(k) /\ ~write'[w].reported
      /\ \A x \in Writes : x # w => write'[x] = write[x]
      /\ replaced'[w] = record[k] /\ at'[w] = "publishing"
      /\ record'[k] = w /\ \A q \in Keys : q # k => record'[q] = record[q]
      /\ \A x \in Writes : x # w => at'[x] = at[x]
      /\ UNCHANGED <<store, seed, told, shutdown>>
  BY DEF Publish, Fresh, Ocean2Types
<1>4. \A q \in Keys : (Seeded(q) => seed[q] # w /\ seed[q] \in Writes) /\ record[q] # w
  BY <1>1 DEF SeedInv, RecordInv, Seeded, Recorded, Publishing, Ocean2Types, MaybeWrite
<1>5. FollowedInv'
  BY <1>1, <1>3, <1>4, SMT DEF FollowedInv, Publishing, Recorded, Seeded, Ocean2Types, MaybeWrite
<1>6. SeenInv'
  BY <1>3, <1>4 DEF SeenInv, Seeded
<1>7. KnownInv'
  BY <1>2, <1>3 DEF KnownInv, Seeded
<1> QED
  BY <1>5, <1>6, <1>7 DEF Following

LEMMA FollowPublishFails ==
  ASSUME FollowInv, NEW w \in Writes, PublishFails(w)
  PROVE  Following'
<1> USE Distinct DEF FollowInv, Ocean2Inv, storeVars, PublishFails, Reinstated
<1>1. FollowedInv'
  BY WriteParts, SMT
  DEF FollowedInv, PublishInv, RecordInv, LockInv, Publishing, Recorded, Seeded, Ocean2Types, MaybeWrite
<1>2. SeenInv' /\ KnownInv'
  BY DEF SeenInv, KnownInv, Seeded
<1> QED
  BY <1>1, <1>2 DEF Following

LEMMA PublishDoneTimers ==
  ASSUME Ocean2Types, NEW w \in Writes, PublishDone(w),
         NEW x \in Writes, x # w, x # replaced[w]
  PROVE  write'[x].timers = write[x].timers
<1> DEFINE calm == IF replaced[w] = NoWrite THEN write ELSE [write EXCEPT ![replaced[w]].timers = {}]
<1>1. calm[x] = write[x] /\ calm = [y \in Writes |-> calm[y]]
  BY DEF Ocean2Types, MaybeWrite
<1>2. CASE write[w].rejected
  BY <1>1, <1>2 DEF PublishDone, RefusedMeanwhile
<1>3. CASE ~write[w].rejected
  <2>1. write' = [calm EXCEPT ![w] = [calm[w] EXCEPT !.reported = FALSE, !.timers = Armed(w)]]
    BY <1>3 DEF PublishDone, RefusedMeanwhile
  <2>2. write'[x] = calm[x]
    BY <1>1, <2>1
  <2> QED
    BY <1>1, <2>2
<1> QED
  BY <1>2, <1>3

LEMMA FollowPublishDone ==
  ASSUME FollowInv, NEW w \in Writes, PublishDone(w)
  PROVE  Following'
<1>1. Ocean2Types
  BY DEF FollowInv, Ocean2Inv
<1> SUFFICES ASSUME ~shutdown PROVE Following'
  BY <1>1, PublishDoneFacts DEF Following, FollowedInv, SeenInv, KnownInv
<1> USE <1>1, PublishDoneFacts, WriteParts, Distinct DEF FollowInv, Ocean2Inv
<1>2. \A x \in Writes : Publishing(x) => x = w
  BY SMT DEF LockInv, Publishing, Ocean2Types, MaybeWrite
<1>3. record[write[w].key] = w /\ \A q \in Keys : record[q] = w => q = write[w].key
  BY DEF PublishInv, RecordInv, Recorded, Ocean2Types, MaybeWrite
<1>4. CASE write[w].rejected
  <2>1. ~Seeded(write[w].key)
    BY <1>4 DEF PublishInv
  <2>2. FollowedInv'
    BY <1>2, <1>3, <1>4, <2>1, SMT DEF FollowedInv, Publishing, Recorded, Seeded, Ocean2Types, MaybeWrite
  <2>3. SeenInv'
    <3>1. \A q \in Keys : Seeded(q) => seed[q] # w /\ seed[q] # replaced[w] /\ seed[q] \in Writes
      BY <2>1 DEF SeedInv, PublishInv, Publishing, Seeded, Ocean2Types, MaybeWrite
    <3>2. \A q \in Keys : Seeded(q) => write'[seed[q]].timers = write[seed[q]].timers
      BY <3>1, PublishDoneTimers
    <3>3. seed' = seed /\ shutdown' = shutdown /\ \A x \in Writes : write'[x].seen = write[x].seen
      BY <1>4
    <3> HIDE PublishDoneFacts
    <3> QED
      BY <3>1, <3>2, <3>3 DEF SeenInv, Seeded
  <2>4. KnownInv'
    BY <1>4 DEF KnownInv, Seeded
  <2> QED
    BY <2>2, <2>3, <2>4 DEF Following
<1>5. CASE ~write[w].rejected
  <2> DEFINE k == write[w].key
  <2>1. /\ k \in Keys /\ store' = [store EXCEPT ![k] = write[w].written]
        /\ seed' = [seed EXCEPT ![k] = w] /\ record' = record /\ told' = told
    BY <1>5
  <2>2. /\ seed'[k] = w /\ seed'[k] # NoWrite
        /\ \A q \in Keys : q # k => seed'[q] = seed[q] /\ store'[q] = store[q]
    BY <2>1 DEF Ocean2Types
  <2>3. FollowedInv'
    <3>1. record[k] = w /\ ~Publishing(w)'
      BY <1>3, WriteParts DEF Publishing, Ocean2Types
    <3>2. ASSUME NEW q \in Keys, q # k, seed'[q] # NoWrite
          PROVE  Recorded(q) /\ record[q] \in Writes /\ record[q] # w /\ ~Publishing(record[q])
      <4>1. Recorded(q)
        BY <2>2, <3>2 DEF FollowedInv, Seeded
      <4>2. record[q] \in Writes /\ record[q] # w
        BY <1>3, <3>2, <4>1 DEF Recorded, Ocean2Types, MaybeWrite
      <4> QED
        BY <1>2, <4>1, <4>2
    <3>3. \A x \in Writes : ~Publishing(x) => ~Publishing(x)'
      BY DEF Publishing, Ocean2Types
    <3> QED
      BY <2>1, <3>1, <3>2, <3>3 DEF FollowedInv, Recorded, Seeded, Publishing
  <2>4. SeenInv'
    <3>1. ASSUME NEW q \in Keys, seed'[q] # NoWrite, write'[seed'[q]].seen
          PROVE  "request" \in write'[seed'[q]].timers
      <4>1. CASE q = k
        <5>1. "request" \in write'[w].timers
          BY <1>5
        <5> QED
          BY <2>2, <4>1, <5>1
      <4>2. CASE q # k
        <5>1. seed'[q] = seed[q] /\ seed[q] \in Writes
          BY <2>2, <3>1, <4>2 DEF Ocean2Types, MaybeWrite
        <5>2. write[seed[q]].key = q /\ at[seed[q]] = "ended"
          BY <3>1, <5>1 DEF SeedInv, Seeded
        <5>3. seed[q] # w
          BY <4>2, <5>2
        <5>4. replaced[w] = NoWrite \/ (replaced[w] \in Writes /\ write[replaced[w]].key = k)
          BY DEF PublishInv, Publishing, Ocean2Types, MaybeWrite
        <5>5. seed[q] # replaced[w]
          BY <4>2, <5>1, <5>2, <5>4
        <5>6. write'[seed[q]].timers = write[seed[q]].timers
          BY <5>1, <5>3, <5>5, PublishDoneTimers
        <5>7. write[seed[q]].seen
          BY <3>1, <5>1
        <5>8. "request" \in write[seed[q]].timers
          BY <3>1, <5>1, <5>7 DEF SeenInv, Seeded
        <5> QED
          BY <5>1, <5>6, <5>8
      <4> QED
        BY <4>1, <4>2
    <3> QED
      BY <3>1 DEF SeenInv, Seeded
  <2>5. KnownInv'
    <3>1. ASSUME NEW q \in Keys, seed'[q] = NoWrite PROVE store'[q] \in told'[q] \cup {Unset}
      <4>1. q # k
        BY <2>2, <3>1
      <4>2. seed[q] = NoWrite /\ store'[q] = store[q]
        BY <2>2, <3>1, <4>1
      <4>3. told'[q] = told[q]
        BY <2>1
      <4> QED
        BY <4>2, <4>3 DEF KnownInv, Seeded
    <3> QED
      BY <3>1 DEF KnownInv, Seeded
  <2> QED
    BY <2>3, <2>4, <2>5 DEF Following
<1> QED
  BY <1>4, <1>5

\* The one place where the timers' order matters: a request that runs out while a newer
\* write of its key is published would leave its write with a snapshot it has not asked for.
LEMMA FollowRequest ==
  ASSUME FollowInv, "request" \notin Overlap, NEW w \in Writes, RequestFires(w)
  PROVE  Following'
<1> USE Distinct DEF FollowInv, Ocean2Inv, storeVars
<1>1. /\ \A x \in Writes : x # w => write'[x] = write[x]
      /\ write'[w].key = write[w].key /\ write'[w].pre = write[w].pre
      /\ write'[w].reported = write[w].reported
      /\ write'[w].seen => ~IsCurrent(w)
      /\ UNCHANGED <<at, replaced, record, store, seed, told, shutdown>>
  <2>1. write[w] \in WriteType
    BY WriteParts
  <2>2. /\ \A x \in Writes : x # w => write'[x] = write[x]
        /\ write'[w] = [write[w] EXCEPT !.timers = @ \ {"request"}, !.seen = @ /\ ~IsCurrent(w)]
        /\ UNCHANGED <<at, replaced, record, store, seed, told, shutdown>>
    BY DEF RequestFires, Ocean2Types
  <2>3. write'[w].key = write[w].key /\ write'[w].pre = write[w].pre /\ write'[w].reported = write[w].reported
    BY <2>1, <2>2 DEF WriteType
  <2>4. write'[w].seen = (write[w].seen /\ ~IsCurrent(w))
    BY <2>1, <2>2 DEF WriteType
  <2> QED
    BY <2>2, <2>3, <2>4
<1>2. FollowedInv'
  <2>1. \A x \in Writes : write'[x].reported = write[x].reported
    BY <1>1
  <2> QED
    BY <1>1, <2>1 DEF FollowedInv, Publishing, Recorded, Seeded, Ocean2Types, MaybeWrite
<1>3. ASSUME NEW k \in Keys, seed[k] = w, ~shutdown PROVE IsCurrent(w)
  <2>1. write[w].key = k /\ Seeded(k) /\ Recorded(k)
    BY <1>3 DEF SeedInv, FollowedInv, Seeded
  <2>2. ~Publishing(record[k])
    BY <2>1 DEF RequestFires, MayFire, Publishing, RecordInv, Recorded, Ocean2Types, MaybeWrite
  <2> QED
    BY <1>3, <2>1, <2>2 DEF SeedInv, RecordInv, IsCurrent, Publishing
<1>4. SeenInv'
  BY <1>1, <1>3 DEF SeenInv, Seeded, Ocean2Types, MaybeWrite
<1>5. KnownInv'
  BY <1>1 DEF KnownInv, Seeded
<1> QED
  BY <1>2, <1>4, <1>5 DEF Following

LEMMA FollowRetry ==
  ASSUME FollowInv, NEW w \in Writes, RetryFires(w)
  PROVE  Following'
<1> USE Distinct DEF FollowInv, Ocean2Inv, storeVars
<1>1. write[w] \in WriteType
  BY WriteParts
<1>2. /\ \A x \in Writes : x # w => write'[x] = write[x]
      /\ write'[w] = [write[w] EXCEPT !.timers = @ \ {"retry"}, !.recent = FALSE]
      /\ UNCHANGED <<at, replaced, record, store, seed, told, shutdown>>
  BY DEF RetryFires, Ocean2Types
<1>3. /\ write'[w].key = write[w].key /\ write'[w].pre = write[w].pre
      /\ write'[w].reported = write[w].reported /\ write'[w].seen = write[w].seen
      /\ write'[w].timers = write[w].timers \ {"retry"}
  BY <1>1, <1>2 DEF WriteType
<1>4. \A x \in Writes :
        /\ write'[x].key = write[x].key /\ write'[x].pre = write[x].pre
        /\ write'[x].reported = write[x].reported /\ write'[x].seen = write[x].seen
        /\ "request" \in write[x].timers => "request" \in write'[x].timers
  BY <1>2, <1>3
<1> HIDE <1>3
<1>5. FollowedInv'
  BY <1>2, <1>4 DEF FollowedInv, Publishing, Recorded, Seeded, Ocean2Types, MaybeWrite
<1>6. SeenInv'
  BY <1>2, <1>4 DEF SeenInv, Seeded, Ocean2Types, MaybeWrite
<1>7. KnownInv'
  BY <1>2, <1>4 DEF KnownInv, Seeded
<1> QED
  BY <1>5, <1>6, <1>7 DEF Following

LEMMA FollowExpire ==
  ASSUME FollowInv, NEW w \in Writes, ExpireFires(w)
  PROVE  Following'
<1>1. Ocean2Types
  BY DEF FollowInv, Ocean2Inv
<1> USE <1>1, ExpireFacts, WriteParts, Distinct DEF FollowInv, Ocean2Inv
<1>2. at[w] = "ended"
  BY DEF PublishInv
<1>3. ASSUME NEW k \in Keys, seed[k] = w, ~shutdown PROVE ~write[w].seen
  BY <1>3 DEF SeenInv, Seeded
<1>4. SeenInv'
  <2>1. \A k \in Keys : seed'[k] # NoWrite => seed'[k] = seed[k] /\ seed[k] \in Writes
    <3>1. CASE IsCurrent(w) /\ ~write[w].seen
      BY <3>1, SMT DEF Ocean2Types, MaybeWrite
    <3>2. CASE ~(IsCurrent(w) /\ ~write[w].seen)
      BY <3>2 DEF Ocean2Types, MaybeWrite
    <3> QED
      BY <3>1, <3>2
  <2> QED
    BY <1>3, <2>1 DEF SeenInv, Seeded
<1>5. CASE ~IsCurrent(w)
  <2>1. FollowedInv' /\ KnownInv'
    BY <1>5 DEF FollowedInv, KnownInv, Publishing, Recorded, Seeded, Ocean2Types, MaybeWrite
  <2> QED
    BY <1>4, <2>1 DEF Following
<1>6. CASE IsCurrent(w)
  <2>1. record[write[w].key] = w
    BY <1>6 DEF IsCurrent
  <2>2. Seeded(write[w].key) => seed[write[w].key] = w
    BY <1>2, <2>1 DEF SeedInv, Recorded
  <2>3. ~shutdown => seed'[write[w].key] = NoWrite
    <3>1. CASE write[w].seen
      BY <1>3, <1>6, <2>2, <3>1 DEF Seeded
    <3>2. CASE ~write[w].seen
      BY <1>6, <3>2 DEF Ocean2Types
    <3> QED
      BY <3>1, <3>2
  <2>4. \A k \in Keys : k # write[w].key =>
            seed'[k] = seed[k] /\ store'[k] = store[k] /\ record'[k] = record[k]
    <3>1. CASE write[w].seen
      BY <1>6, <3>1, SMT DEF Ocean2Types
    <3>2. CASE ~write[w].seen
      BY <1>6, <3>2, SMT DEF Ocean2Types
    <3> QED
      BY <3>1, <3>2
  <2>5. FollowedInv'
    BY <2>3, <2>4, SMT DEF FollowedInv, Publishing, Recorded, Seeded, Ocean2Types, MaybeWrite
  <2>6. ~shutdown => store'[write[w].key] \in told[write[w].key] \cup {Unset}
    <3>1. CASE write[w].seen
      BY <1>6, <2>3, <3>1 DEF KnownInv, Seeded
    <3>2. CASE ~write[w].seen
      BY <1>6, <3>2 DEF KnownInv, Ocean2Types
    <3> QED
      BY <3>1, <3>2
  <2>7. KnownInv'
    BY <2>4, <2>6 DEF KnownInv, Seeded
  <2> QED
    BY <1>4, <2>5, <2>7 DEF Following
<1> QED
  BY <1>5, <1>6

LEMMA FollowRefusal ==
  ASSUME FollowInv, NEW w \in Writes, RefusalRuns(w)
  PROVE  Following'
<1>1. Ocean2Types
  BY DEF FollowInv, Ocean2Inv
<1> USE <1>1, RefusalFacts, WriteParts, Distinct DEF FollowInv, Ocean2Inv
<1>2. \A k \in Keys :
        \/ seed'[k] = seed[k] /\ store'[k] = store[k]
        \/ IsCurrent(w) /\ k = write[w].key /\ seed'[k] = NoWrite /\ store'[k] = write[w].pre
  <2>1. CASE IsCurrent(w)
    BY <2>1, SMT DEF Ocean2Types
  <2>2. CASE ~IsCurrent(w)
    BY <2>2
  <2> QED
    BY <2>1, <2>2
<1>3. FollowedInv'
  BY <1>2 DEF FollowedInv, Publishing, Recorded, Seeded, Ocean2Types, MaybeWrite
<1>4. SeenInv'
  BY <1>2 DEF SeenInv, Seeded, Ocean2Types, MaybeWrite
<1>5. KnownInv'
  BY <1>2 DEF KnownInv, Seeded
<1> QED
  BY <1>3, <1>4, <1>5 DEF Following

LEMMA FollowSnapshot ==
  ASSUME FollowInv, NEW reading \in Snapshots, SnapshotArrives(reading)
  PROVE  Following'
<1>1. Ocean2Types
  BY DEF FollowInv, Ocean2Inv
<1> USE <1>1, SnapshotFacts, WriteParts, Distinct DEF FollowInv, Ocean2Inv
<1>2. FollowedInv' /\ SeenInv'
  BY DEF FollowedInv, SeenInv, Seeded
<1>3. KnownInv'
  BY DEF KnownInv, Seeded
<1> QED
  BY <1>2, <1>3 DEF Following

LEMMA FollowOthers ==
  ASSUME FollowInv,
         \/ \E w \in Writes : AskSnapshot(w) \/ GiveUp(w)
         \/ \E k \in Keys : RefusalArrives(k)
         \/ PropertyPush \/ Shutdown \/ UNCHANGED vars
  PROVE  Following'
<1> USE Distinct DEF FollowInv, Ocean2Inv, storeVars, recordVars
<1>1. CASE Shutdown
  BY <1>1 DEF Shutdown, Following, FollowedInv, SeenInv, KnownInv
<1>2. CASE PropertyPush \/ UNCHANGED vars \/ \E k \in Keys : RefusalArrives(k)
  <2>1. UNCHANGED <<at, recordVars, storeVars, shutdown>>
    BY <1>2 DEF PropertyPush, vars, RefusalArrives
  <2> QED
    BY <2>1 DEF Following, FollowedInv, SeenInv, KnownInv, Publishing, Recorded, Seeded
<1>3. ASSUME NEW w \in Writes, AskSnapshot(w) \/ GiveUp(w) PROVE Following'
  <2>1. /\ UNCHANGED <<recordVars, storeVars, shutdown>>
        /\ \A x \in Writes : Publishing(x)' => Publishing(x)
    BY <1>3 DEF AskSnapshot, GiveUp, Publishing, Ocean2Types
  <2> QED
    BY <2>1 DEF Following, FollowedInv, SeenInv, KnownInv, Recorded, Seeded, Ocean2Types, MaybeWrite
<1> QED
  BY <1>1, <1>2, <1>3

LEMMA FollowStep ==
  ASSUME "request" \notin Overlap
  PROVE  FollowInv /\ [Next]_vars => FollowInv'
<1> SUFFICES ASSUME FollowInv, [Next]_vars PROVE FollowInv'
  OBVIOUS
<1>1. Ocean2Inv'
  BY Ocean2StepHolds DEF FollowInv
<1>2. ASSUME NEW w \in Writes, SendReserve(w) \/ SendStormGuard(w) PROVE Following'
  <2>1. PICK k \in Keys : \E v \in Value(k) : Publish(w, k, v)
    BY <1>2 DEF SendReserve, SendStormGuard, Keys, Value
  <2>2. at[w] = "asking" \/ (at[w] = "new" /\ holder = NoWrite)
    BY <1>2 DEF SendReserve, SendStormGuard
  <2> QED
    BY <2>1, <2>2, FollowPublish
<1>3. Following'
  BY <1>2, FollowPublishFails, FollowPublishDone, FollowRequest, FollowRetry, FollowExpire,
     FollowRefusal, FollowSnapshot, FollowOthers DEF Next
<1> QED
  BY <1>1, <1>3 DEF FollowInv, Following

\* What is shown unconfirmed is followed up, and what would be put back was reported.
THEOREM ChoicesAreFollowed ==
  ASSUME "request" \notin Overlap PROVE Spec => []FollowInv
<1>1. FollowInv /\ [Next]_vars => FollowInv'
  BY FollowStep
<1> QED
  BY <1>1, InitHolds, PTL DEF Spec

-----------------------------------------------------------------------------
(* Every step is, for each key, a step of OptimisticValue.                     *)

KeyStep(k) ==
    LET same(f) == f'[k] = f[k]
    IN  \/ same(store) /\ same(told)
             /\ (seed'[k] # NoWrite <=> Seeded(k)) /\ (record'[k] # NoWrite <=> Recorded(k))
        \/ store'[k] \in Value(k) /\ told'[k] = told[k] \cup {store'[k]}
             /\ seed'[k] = NoWrite /\ (record'[k] # NoWrite <=> Recorded(k))
        \/ ~Recorded(k) /\ record'[k] # NoWrite
             /\ same(store) /\ same(told) /\ same(seed)
        \/ Recorded(k) /\ record'[k] # NoWrite
             /\ store'[k] \in Value(k) /\ seed'[k] # NoWrite /\ same(told)
        \/ Recorded(k) /\ store'[k] \in told[k] \cup {Unset} /\ seed'[k] = NoWrite /\ same(told)
        \/ Recorded(k) /\ record'[k] = NoWrite
             /\ ~Seeded(k) /\ same(store) /\ same(told) /\ same(seed)

LEMMA KeyPublish ==
  ASSUME Ocean2Types, NEW w \in Writes, NEW q \in Keys, NEW v \in Value(q), Publish(w, q, v),
         NEW k \in Keys
  PROVE  KeyStep(k)
<1>1. /\ UNCHANGED <<store, told, seed>> /\ record' = [record EXCEPT ![q] = w] /\ w # NoWrite
  BY Distinct DEF Publish, storeVars
<1> QED
  BY <1>1 DEF KeyStep, Seeded, Recorded, Ocean2Types

LEMMA KeyPublishFails ==
  ASSUME FollowInv, ~shutdown, NEW w \in Writes, PublishFails(w), NEW k \in Keys
  PROVE  KeyStep(k)
<1> USE DEF FollowInv, Ocean2Inv
<1>1. /\ UNCHANGED <<store, told, seed>> /\ Publishing(w) /\ write[w].key \in Keys
      /\ record' = [record EXCEPT ![write[w].key] = replaced[w]]
  BY WriteParts DEF PublishFails, Reinstated, Publishing, storeVars
<1>2. record[write[w].key] = w /\ w # NoWrite
  BY <1>1, Distinct DEF PublishInv
<1>3. replaced[w] = NoWrite => ~Seeded(write[w].key)
  BY <1>1, <1>2 DEF FollowedInv
<1> QED
  BY <1>1, <1>2, <1>3 DEF KeyStep, Seeded, Recorded, Ocean2Types

LEMMA KeyPublishDone ==
  ASSUME FollowInv, ~shutdown, NEW w \in Writes, PublishDone(w), NEW k \in Keys
  PROVE  KeyStep(k)
<1> USE DEF FollowInv, Ocean2Inv
<1>1. Publishing(w) /\ write[w].key \in Keys /\ told' = told
  BY PublishDoneFacts, WriteParts
<1>2. record[write[w].key] = w /\ w # NoWrite
  BY <1>1, Distinct DEF PublishInv
<1>3. CASE write[w].rejected
  <2>1. record' = [record EXCEPT ![write[w].key] = NoWrite] /\ store' = store /\ seed' = seed
    BY <1>3, PublishDoneFacts
  <2>2. ~Seeded(write[w].key)
    BY <1>1, <1>3 DEF PublishInv
  <2> QED
    BY <1>1, <1>2, <2>1, <2>2 DEF KeyStep, Seeded, Recorded, Ocean2Types
<1>4. CASE ~write[w].rejected
  <2>1. /\ record' = record /\ store' = [store EXCEPT ![write[w].key] = write[w].written]
        /\ seed' = [seed EXCEPT ![write[w].key] = w]
    BY <1>4, PublishDoneFacts
  <2>2. write[w].written \in Value(write[w].key)
    BY <1>1 DEF PublishInv
  <2> QED
    BY <1>1, <1>2, <2>1, <2>2 DEF KeyStep, Seeded, Recorded, Ocean2Types
<1> QED
  BY <1>3, <1>4

LEMMA KeyExpire ==
  ASSUME FollowInv, ~shutdown, NEW w \in Writes, ExpireFires(w), NEW k \in Keys
  PROVE  KeyStep(k)
<1> USE DEF FollowInv, Ocean2Inv
<1>1. told' = told /\ write[w].timers = {"expire"} /\ write[w].key \in Keys /\ w # NoWrite
  BY ExpireFacts, WriteParts, Distinct
<1>2. CASE ~IsCurrent(w)
  BY <1>1, <1>2, ExpireFacts DEF KeyStep, Seeded, Recorded
<1>3. CASE IsCurrent(w)
  <2>1. record[write[w].key] = w /\ record' = [record EXCEPT ![write[w].key] = NoWrite]
    BY <1>3, ExpireFacts DEF IsCurrent
  <2>2. at[w] = "ended"
    BY <1>1 DEF PublishInv
  <2>3. CASE write[w].seen
    <3>1. store' = store /\ seed' = seed
      BY <1>3, <2>3, ExpireFacts
    <3>2. Seeded(write[w].key) => seed[write[w].key] = w
      BY <1>1, <2>1, <2>2 DEF SeedInv, Recorded
    <3>3. ~Seeded(write[w].key)
      BY <1>1, <2>3, <3>2 DEF SeenInv
    <3> QED
      BY <1>1, <2>1, <3>1, <3>3 DEF KeyStep, Seeded, Recorded, Ocean2Types
  <2>4. CASE ~write[w].seen
    <3>1. /\ store' = [store EXCEPT ![write[w].key] = write[w].pre]
          /\ seed' = [seed EXCEPT ![write[w].key] = NoWrite]
      BY <1>3, <2>4, ExpireFacts
    <3>2. write[w].pre \in told[write[w].key] \cup {Unset}
      BY DEF KnownInv
    <3> QED
      BY <1>1, <2>1, <3>1, <3>2 DEF KeyStep, Seeded, Recorded, Ocean2Types
  <2> QED
    BY <2>3, <2>4
<1> QED
  BY <1>2, <1>3

LEMMA KeyRefusal ==
  ASSUME FollowInv, ~shutdown, NEW w \in Writes, RefusalRuns(w), NEW k \in Keys
  PROVE  KeyStep(k)
<1> USE DEF FollowInv, Ocean2Inv
<1>1. told' = told /\ record' = record /\ write[w].key \in Keys /\ w # NoWrite
  BY RefusalFacts, WriteParts, Distinct
<1>2. CASE ~IsCurrent(w)
  BY <1>1, <1>2, RefusalFacts DEF KeyStep, Seeded, Recorded
<1>3. CASE IsCurrent(w)
  <2>1. /\ store' = [store EXCEPT ![write[w].key] = write[w].pre]
        /\ seed' = [seed EXCEPT ![write[w].key] = NoWrite]
        /\ record[write[w].key] = w
    BY <1>3, RefusalFacts DEF IsCurrent
  <2>2. write[w].pre \in told[write[w].key] \cup {Unset}
    BY DEF KnownInv
  <2> QED
    BY <1>1, <2>1, <2>2 DEF KeyStep, Seeded, Recorded, Ocean2Types
<1> QED
  BY <1>2, <1>3

LEMMA KeySnapshot ==
  ASSUME Ocean2Types, NEW reading \in Snapshots, SnapshotArrives(reading), NEW k \in Keys
  PROVE  KeyStep(k)
<1>1. reading[k] \in Value(k)
  BY DEF Snapshots, Keys, Value
<1> QED
  BY <1>1 DEF SnapshotArrives, KeyStep, Recorded

LEMMA KeyOthers ==
  ASSUME \/ \E w \in Writes : AskSnapshot(w) \/ GiveUp(w) \/ RequestFires(w) \/ RetryFires(w)
         \/ \E q \in Keys : RefusalArrives(q)
         \/ PropertyPush \/ UNCHANGED vars,
         NEW k \in Keys
  PROVE  KeyStep(k) /\ shutdown' = shutdown
<1>1. UNCHANGED <<record, store, seed, told, shutdown>>
  BY DEF AskSnapshot, GiveUp, RequestFires, RetryFires, RefusalArrives, PropertyPush, vars,
         recordVars, storeVars
<1> QED
  BY <1>1 DEF KeyStep, Seeded, Recorded

LEMMA EveryStep ==
  ASSUME FollowInv, [Next]_vars, NEW k \in Keys
  PROVE  shutdown' \/ (~shutdown /\ UNCHANGED shutdown /\ KeyStep(k))
<1>1. Ocean2Types
  BY DEF FollowInv, Ocean2Inv
<1>2. ASSUME NEW w \in Writes, SendReserve(w) \/ SendStormGuard(w)
      PROVE  KeyStep(k) /\ shutdown' = shutdown
  <2>1. PICK q \in Keys : \E v \in Value(q) : Publish(w, q, v)
    BY <1>2 DEF SendReserve, SendStormGuard, Keys, Value
  <2> QED
    BY <1>1, <2>1, KeyPublish DEF Publish
<1>3. CASE Shutdown
  BY <1>3 DEF Shutdown
<1>4. \/ \E w \in Writes : \/ PublishFails(w) \/ PublishDone(w) \/ ExpireFires(w) \/ RefusalRuns(w)
      \/ \E reading \in Snapshots : SnapshotArrives(reading)
      => shutdown' = shutdown
  BY DEF PublishFails, PublishDone, ExpireFires, RefusalRuns, SnapshotArrives
<1>5. CASE shutdown
  BY <1>2, <1>3, <1>4, <1>5, KeyOthers DEF Next
<1>6. CASE ~shutdown
  BY <1>1, <1>2, <1>3, <1>4, <1>6, KeyPublishFails, KeyPublishDone, KeyExpire, KeyRefusal,
     KeySnapshot, KeyOthers DEF Next
<1> QED
  BY <1>5, <1>6

LEMMA ReserveStep ==
  ASSUME FollowInv, [Next]_vars
  PROVE  [Reserve!Next]_(Reserve!vars)
<1>1. CASE shutdown'
  BY <1>1 DEF Reserve!Next
<1>2. CASE ~shutdown'
  <2>1. ~shutdown /\ UNCHANGED shutdown /\ KeyStep("reserve")
    BY <1>2, EveryStep DEF Keys
  <2>2. Value("reserve") = Levels
    BY DEF Value
  <2> QED
    BY <2>1, <2>2 DEF KeyStep, Seeded, Recorded, Reserve!Next, Reserve!vars, Reserve!Report,
       Reserve!Begin, Reserve!Choose, Reserve!TakeBack, Reserve!End, Reserve!Known
<1> QED
  BY <1>1, <1>2

LEMMA StormGuardStep ==
  ASSUME FollowInv, [Next]_vars
  PROVE  [StormGuard!Next]_(StormGuard!vars)
<1>1. CASE shutdown'
  BY <1>1 DEF StormGuard!Next
<1>2. CASE ~shutdown'
  <2>1. ~shutdown /\ UNCHANGED shutdown /\ KeyStep("storm")
    BY <1>2, EveryStep DEF Keys
  <2>2. Value("storm") = Switch
    BY DEF Value
  <2> QED
    BY <2>1, <2>2 DEF KeyStep, Seeded, Recorded, StormGuard!Next, StormGuard!vars, StormGuard!Report,
       StormGuard!Begin, StormGuard!Choose, StormGuard!TakeBack, StormGuard!End, StormGuard!Known
<1> QED
  BY <1>1, <1>2

\* Both settings show a reported value or a choice that is followed up, whatever the unit
\* answers, loses or refuses (_ocean2_publish, _ocean2_reject_write,
\* _arm_ocean2_readback).
THEOREM SettingsAreOptimisticValues ==
  ASSUME "request" \notin Overlap PROVE Spec => Ocean2Honest
<1>1. Init => Reserve!Init /\ StormGuard!Init
  BY DEF Init, Keys, Reserve!Init, StormGuard!Init
<1>2. FollowInv /\ [Next]_vars => [Reserve!Next]_(Reserve!vars) /\ [StormGuard!Next]_(StormGuard!vars)
  BY ReserveStep, StormGuardStep
<1> QED
  BY <1>1, <1>2, ChoicesAreFollowed, PTL DEF Spec, Ocean2Honest, Reserve!Spec, StormGuard!Spec
-----------------------------------------------------------------------------
(* ConfigWrites.  What the frames under way will make of the device is         *)
(* `coming`.  A stream or pair writes with no report under way, so under the   *)
(* lock the store stands still and is what is coming.  Of a schedule only the  *)
(* flag matters: while it is held the store keeps it and the reports go over   *)
(* from the old flag to the held one once; and when it is not held, unless a   *)
(* failed send left it open, everything under way has the one flag.            *)

PartFrames == UNION {[S -> Levels] : S \in SUBSET Group!Fields}
WholeFrames == [Group!Fields -> Levels]
GroupCalls ==
    [at : {"idle", "sending", "published"}, field : Group!Fields, value : Levels \cup {Unset}, frame : PartFrames]

GroupTypes ==
    /\ style \in Group!Styles
    /\ values \in WholeFrames /\ device \in WholeFrames /\ coming \in WholeFrames
    /\ held \in Levels \cup {Unset}
    /\ reports \in Seq(WholeFrames) /\ groupFrames \in Seq(PartFrames)
    /\ groupWrite \in [Writes -> GroupCalls]

Sending(w) == groupWrite[w].at = "sending"
Published(w) == groupWrite[w].at = "published"
FrameOf(w) == groupWrite[w].frame

\* The lock's holder is the one call under way; a frame says its setting.
GroupLockInv ==
    \A w \in Writes :
        /\ groupWrite[w].at # "idle" <=> holder = w
        /\ groupWrite[w].at # "idle" => /\ DOMAIN FrameOf(w) = Group!Carried(groupWrite[w].field)
                                        /\ groupWrite[w].value \in Levels

\* The last frame under way that says a setting decides what it will be.
ComingInv ==
    \A f \in Group!Fields :
        /\ (\A i \in DOMAIN groupFrames : f \notin DOMAIN groupFrames[i]) => coming[f] = device[f]
        /\ \A i \in DOMAIN groupFrames :
              f \in DOMAIN groupFrames[i] /\ (\A j \in DOMAIN groupFrames : j > i => f \notin DOMAIN groupFrames[j])
                 => coming[f] = groupFrames[i][f]

\* A stream or a pair.
PairInv ==
    /\ held = Unset
    /\ reports # <<>> => /\ groupFrames = <<>> /\ holder = NoWrite
                         /\ \A i \in DOMAIN reports : reports[i] = device
    /\ \A w \in Writes :
          /\ Sending(w) => \A g \in DOMAIN FrameOf(w) \ {groupWrite[w].field} : FrameOf(w)[g] = values[g]
          /\ Published(w) => \A g \in DOMAIN FrameOf(w) : FrameOf(w)[g] = coming[g]
    /\ \A g \in Group!Fields : \/ g \in unsure \/ values[g] = coming[g]
                               \/ \E w \in Writes : Published(w) /\ g \in DOMAIN FrameOf(w)

\* The flag of a schedule.
FlagSending == \E w \in Writes : Sending(w) /\ groupWrite[w].field = "short"
FlagOut == \E w \in Writes : Published(w) /\ groupWrite[w].field = "short"

HeldInv ==
    held # Unset =>
        /\ values["short"] = held
        /\ \A w \in Writes : Sending(w) /\ groupWrite[w].field = "full" => FrameOf(w)["short"] = held
        /\ ~FlagSending =>
              /\ coming["short"] = held
              /\ \A i \in DOMAIN groupFrames :
                    "short" \in DOMAIN groupFrames[i] => groupFrames[i]["short"] = held
              /\ \A i \in DOMAIN reports : reports[i]["short"] = held =>
                    /\ device["short"] = held
                    /\ \A j \in DOMAIN reports : i <= j => reports[j]["short"] = held

FlagSendingInv ==
    \A w \in Writes : Sending(w) /\ groupWrite[w].field = "short" =>
        /\ groupFrames = <<>> /\ \A i \in DOMAIN reports : reports[i] = device
        /\ values["short"] = FrameOf(w)["short"]
        /\ held = FrameOf(w)["short"] \/ (held = Unset /\ device["short"] = FrameOf(w)["short"])

Steady ==
    /\ values["short"] = coming["short"] /\ device["short"] = coming["short"]
    /\ \A i \in DOMAIN groupFrames :
          "short" \in DOMAIN groupFrames[i] => groupFrames[i]["short"] = coming["short"]
    /\ \A i \in DOMAIN reports : reports[i]["short"] = coming["short"]

SteadyInv == held = Unset /\ ~FlagSending /\ ("short" \notin unsure \/ FlagOut) => Steady

FlagInv == HeldInv /\ FlagSendingInv /\ SteadyInv

GroupInv ==
    /\ GroupTypes /\ GroupLockInv /\ ComingInv
    /\ IF style = "schedule" THEN FlagInv ELSE PairInv

\* A part of the settings is a frame, and the empty frame is none of them.
LEMMA FrameFacts ==
  /\ \A S \in SUBSET Group!Fields : [S -> Levels] \subseteq PartFrames
  /\ \A p \in PartFrames : DOMAIN p \subseteq Group!Fields /\ \A x \in DOMAIN p : p[x] \in Levels
  /\ Group!Idle \in GroupCalls
<1>1. <<>> \in [{} -> Levels]
  OBVIOUS
<1>2. <<>> \in PartFrames
  BY <1>1 DEF PartFrames
<1>3. Group!Idle \in GroupCalls
  BY <1>2 DEF Group!Idle, GroupCalls, Group!Fields
<1> QED
  BY <1>3 DEF PartFrames

LEMMA OverFacts ==
  ASSUME NEW p \in PartFrames, NEW v \in WholeFrames
  PROVE  /\ Group!Over(v, p) \in WholeFrames
         /\ \A f \in Group!Fields : Group!Over(v, p)[f] = IF f \in DOMAIN p THEN p[f] ELSE v[f]
  BY FrameFacts DEF Group!Over, WholeFrames

\* What a call is made of.
LEMMA CallFacts ==
  ASSUME GroupTypes, NEW w \in Writes
  PROVE  /\ groupWrite[w] \in GroupCalls /\ groupWrite[w].field \in Group!Fields
         /\ groupWrite[w].value \in Levels \cup {Unset} /\ FrameOf(w) \in PartFrames
         /\ groupWrite[w].at \in {"idle", "sending", "published"}
<1>1. groupWrite[w] \in GroupCalls
  BY DEF GroupTypes
<1> QED
  BY <1>1, Zenon DEF GroupCalls, FrameOf

LEMMA GroupInitHolds == ASSUME Group!Init PROVE GroupInv
<1>1. GroupTypes
  BY FrameFacts DEF Group!Init, GroupTypes, WholeFrames
<1>2. \A w \in Writes : groupWrite[w] = Group!Idle /\ groupWrite[w].at = "idle"
  BY DEF Group!Init, Group!Idle
<1>3. GroupLockInv
  BY <1>2, Ocean2Assumption DEF Group!Init, GroupLockInv
<1>4. ComingInv
  BY DEF Group!Init, ComingInv
<1>5. PairInv
  BY <1>2 DEF Group!Init, PairInv, Sending, Published, FrameOf
<1>6. FlagInv
  BY <1>2 DEF Group!Init, FlagInv, HeldInv, FlagSendingInv, SteadyInv, Steady, Sending
<1> QED
  BY <1>1, <1>3, <1>4, <1>5, <1>6 DEF GroupInv

\* A write begins: nothing of it is under way yet.
LEMMA WriteHolds ==
  ASSUME ~Hurried, GroupInv, NEW c \in Writes, NEW f \in Group!Fields, NEW v \in Levels, Group!Write(c, f, v)
  PROVE  GroupInv'
<1> DEFINE new == [at |-> "sending", field |-> f, value |-> values[f], frame |-> Group!Frame(f, v)]
<1>1. /\ groupWrite[c].at = "idle" /\ holder = NoWrite /\ holder' = c
      /\ groupWrite' = [groupWrite EXCEPT ![c] = new]
      /\ UNCHANGED <<style, device, groupFrames, reports, coming, unsure>>
  BY DEF Group!Write, Group!LockFree, Group!linkVars
<1>2. /\ Group!Frame(f, v) \in PartFrames
      /\ DOMAIN Group!Frame(f, v) = Group!Carried(f)
      /\ \A g \in Group!Carried(f) : Group!Frame(f, v)[g] = IF g = f THEN v ELSE values[g]
      /\ Group!Carried(f) \subseteq Group!Fields /\ f \in Group!Carried(f)
  <2>1. Group!Carried(f) \subseteq Group!Fields /\ f \in Group!Carried(f)
    BY DEF Group!Carried
  <2>2. Group!Frame(f, v) \in [Group!Carried(f) -> Levels]
    BY <2>1 DEF Group!Frame, GroupInv, GroupTypes, WholeFrames
  <2> QED
    BY <2>1, <2>2, FrameFacts DEF Group!Frame
<1>3. /\ new \in GroupCalls /\ new.at = "sending" /\ new.field = f /\ new.frame = Group!Frame(f, v)
      /\ new.value \in Levels
  BY <1>2 DEF GroupCalls, GroupInv, GroupTypes, WholeFrames
<1> HIDE DEF new
<1>4. /\ groupWrite' \in [Writes -> GroupCalls]
      /\ \A w \in Writes : groupWrite'[w] = IF w = c THEN new ELSE groupWrite[w]
  BY <1>1, <1>3 DEF GroupInv, GroupTypes
<1>5. \A w \in Writes : groupWrite[w].at = "idle"
  BY <1>1, Ocean2Assumption DEF GroupInv, GroupLockInv
<1>6. /\ values' \in WholeFrames /\ held' \in Levels \cup {Unset}
      /\ \A g \in Group!Fields : values'[g] = IF style = "schedule" /\ g = f THEN v ELSE values[g]
      /\ style # "schedule" => held' = held /\ reports = <<>>
      /\ style = "schedule" => /\ held' = IF f = "short" THEN v ELSE held
                               /\ f = "short" => Group!Settled
  BY DEF Group!Write, Group!Hold, GroupInv, GroupTypes, WholeFrames
<1>7. GroupTypes'
  BY <1>1, <1>4, <1>6 DEF GroupInv, GroupTypes
<1>8. GroupLockInv'
  <2>1. ASSUME NEW w \in Writes PROVE groupWrite'[w].at # "idle" <=> holder' = w
    BY <1>1, <1>3, <1>4, <1>5
  <2>2. /\ \A w \in Writes : groupWrite'[w].at # "idle" => w = c
        /\ groupWrite'[c].field = f /\ groupWrite'[c].frame = Group!Frame(f, v) /\ groupWrite'[c].value \in Levels
    BY <1>3, <1>4, <1>5
  <2>3. DOMAIN groupWrite'[c].frame = IF f = "full" \/ style' = "ac5000" THEN Group!Fields ELSE {f}
    BY <1>1, <1>2, <2>2 DEF Group!Carried
  <2> QED
    BY <2>1, <2>2, <2>3 DEF GroupLockInv, FrameOf, Group!Carried
<1>9. ComingInv'
  BY <1>1 DEF GroupInv, ComingInv
<1>10. CASE style # "schedule"
  <2>1. PairInv
    BY <1>10 DEF GroupInv
  <2>2. \A w \in Writes : /\ Sending(w)' => w = c
                          /\ ~Published(w)' /\ ~Published(w)
    BY <1>3, <1>4, <1>5 DEF Sending, Published
  <2>3. \A g \in DOMAIN groupWrite'[c].frame \ {groupWrite'[c].field} : groupWrite'[c].frame[g] = values'[g]
    BY <1>2, <1>3, <1>4, <1>6, <1>10
  <2>4. \A g \in Group!Fields : g \in unsure' \/ values'[g] = coming'[g]
    BY <1>1, <1>6, <1>10, <2>1, <2>2 DEF PairInv
  <2>5. PairInv'
    BY <1>1, <1>6, <1>10, <2>1, <2>2, <2>3, <2>4 DEF PairInv, FrameOf
  <2> QED
    BY <1>1, <1>7, <1>8, <1>9, <1>10, <2>5 DEF GroupInv
<1>11. CASE style = "schedule"
  <2>1. FlagInv
    BY <1>11 DEF GroupInv
  <2>2. /\ \A w \in Writes : (Sending(w)' <=> w = c) /\ ~Published(w)' /\ ~Published(w) /\ ~Sending(w)
        /\ groupWrite'[c].field = f
    BY <1>3, <1>4, <1>5 DEF Sending, Published
  <2>3. ~FlagOut /\ ~FlagOut' /\ ~FlagSending /\ (FlagSending' <=> f = "short")
    BY <2>2 DEF FlagOut, FlagSending
  <2>4. Unset \notin Levels
    BY Ocean2Assumption
  <2>5. CASE f = "short"
    <3>1. groupWrite'[c].frame["short"] = v
      BY <1>2, <1>3, <1>4, <2>5
    <3>2. values'["short"] = v /\ held' = v /\ held' # Unset
      BY <1>6, <1>11, <2>4, <2>5 DEF Group!Fields
    <3>3. groupFrames = <<>> /\ \A i \in DOMAIN reports : reports[i] = device
      BY <1>6, <1>11, <2>5 DEF Group!Settled
    <3>4. HeldInv'
      BY <2>2, <2>3, <2>5, <3>2 DEF HeldInv
    <3>5. FlagSendingInv'
      BY <1>1, <2>2, <3>1, <3>2, <3>3 DEF FlagSendingInv, FrameOf
    <3> QED
      BY <1>1, <1>7, <1>8, <1>9, <1>11, <3>2, <3>4, <3>5 DEF GroupInv, FlagInv, SteadyInv
  <2>6. CASE f = "full"
    <3>1. groupWrite'[c].frame["short"] = values["short"] /\ values'["short"] = values["short"] /\ held' = held
      BY <1>2, <1>3, <1>4, <1>6, <1>11, <2>6 DEF Group!Fields, Group!Carried
    <3>2. HeldInv'
      BY <1>1, <2>1, <2>2, <2>3, <2>6, <3>1 DEF FlagInv, HeldInv, FrameOf
    <3>3. FlagSendingInv'
      BY <2>2, <2>6 DEF FlagSendingInv
    <3>4. SteadyInv'
      BY <1>1, <2>1, <2>3, <2>6, <3>1 DEF FlagInv, SteadyInv, Steady
    <3> QED
      BY <1>1, <1>7, <1>8, <1>9, <1>11, <3>2, <3>3, <3>4 DEF GroupInv, FlagInv
  <2> QED
    BY <2>5, <2>6 DEF Group!Fields
<1> QED
  BY <1>10, <1>11

\* A call goes on: only its place changes.
LEMMA CallMoves ==
  ASSUME GroupTypes, NEW c \in Writes, groupWrite' = [groupWrite EXCEPT ![c].at = "published"]
  PROVE  /\ groupWrite' \in [Writes -> GroupCalls]
         /\ \A w \in Writes : /\ groupWrite'[w].at = IF w = c THEN "published" ELSE groupWrite[w].at
                              /\ groupWrite'[w].field = groupWrite[w].field
                              /\ groupWrite'[w].frame = groupWrite[w].frame
                              /\ groupWrite'[w].value = groupWrite[w].value
<1> DEFINE new == [groupWrite[c] EXCEPT !.at = "published"]
<1>1. /\ new \in GroupCalls /\ new.at = "published" /\ new.field = groupWrite[c].field
      /\ new.frame = groupWrite[c].frame /\ new.value = groupWrite[c].value
  BY CallFacts DEF GroupCalls
<1>2. groupWrite' = [groupWrite EXCEPT ![c] = new]
  BY DEF GroupTypes
<1> HIDE DEF new
<1> QED
  BY <1>1, <1>2 DEF GroupTypes

\* The frame leaves: it is the last one, and decides what it says.
LEMMA PublishHolds == ASSUME GroupInv, NEW c \in Writes, Group!Publish(c) PROVE GroupInv'
<1> DEFINE frame == FrameOf(c)
           field == groupWrite[c].field
<1>1. /\ Sending(c) /\ groupWrite' = [groupWrite EXCEPT ![c].at = "published"]
      /\ groupFrames' = Append(groupFrames, frame) /\ coming' = Group!Over(coming, frame)
      /\ unsure' = unsure \cup {g \in DOMAIN frame \ {field} : frame[g] # coming[g]}
      /\ UNCHANGED <<style, holder, values, held, device, reports>>
  BY DEF Group!Publish, Sending, FrameOf
<1>2. /\ frame \in PartFrames /\ field \in Group!Fields /\ GroupTypes
      /\ DOMAIN frame = Group!Carried(field) /\ field \in DOMAIN frame /\ DOMAIN frame \subseteq Group!Fields
      /\ holder = c /\ style \in Group!Styles
  <2>1. /\ frame \in PartFrames /\ field \in Group!Fields /\ GroupTypes
        /\ DOMAIN frame = Group!Carried(field) /\ holder = c /\ style \in Group!Styles
    BY <1>1, CallFacts DEF GroupInv, GroupLockInv, GroupTypes, Sending
  <2> QED
    BY <2>1, FrameFacts DEF Group!Carried
<1>3. /\ groupWrite' \in [Writes -> GroupCalls]
      /\ \A w \in Writes : /\ groupWrite'[w].at = IF w = c THEN "published" ELSE groupWrite[w].at
                           /\ groupWrite'[w].field = groupWrite[w].field
                           /\ groupWrite'[w].frame = groupWrite[w].frame
                           /\ groupWrite'[w].value = groupWrite[w].value
  BY <1>1, <1>2, CallMoves
<1> HIDE DEF frame, field
<1>4. /\ coming' \in WholeFrames
      /\ \A g \in Group!Fields : coming'[g] = IF g \in DOMAIN frame THEN frame[g] ELSE coming[g]
  BY <1>1, <1>2, OverFacts DEF GroupTypes
<1>5. /\ groupFrames' \in Seq(PartFrames) /\ DOMAIN groupFrames' = 1..Len(groupFrames) + 1
      /\ DOMAIN groupFrames = 1..Len(groupFrames) /\ Len(groupFrames) \in Nat
      /\ groupFrames'[Len(groupFrames) + 1] = frame
      /\ \A i \in DOMAIN groupFrames : groupFrames'[i] = groupFrames[i]
  BY <1>1, <1>2 DEF GroupTypes
<1>6. GroupTypes'
  BY <1>1, <1>2, <1>3, <1>4, <1>5 DEF GroupTypes
<1>7. GroupLockInv'
  <2>1. \A w \in Writes : groupWrite[w].at # "idle" <=> w = c
    BY <1>1, <1>2 DEF GroupInv, GroupLockInv, Sending
  <2>2. \A w \in Writes : groupWrite'[w].at # "idle" => w = c
    BY <1>3, <2>1
  <2>3. /\ groupWrite'[c].at = "published" /\ groupWrite'[c].field = field /\ groupWrite'[c].frame = frame
        /\ groupWrite'[c].value \in Levels
    BY <1>1, <1>3 DEF frame, field, FrameOf, GroupInv, GroupLockInv, Sending
  <2>4. DOMAIN frame = IF field = "full" \/ style' = "ac5000" THEN Group!Fields ELSE {field}
    BY <1>1, <1>2 DEF Group!Carried
  <2>5. \A w \in Writes : groupWrite'[w].at # "idle" <=> holder' = w
    BY <1>1, <1>2, <2>2, <2>3
  <2> QED
    BY <2>2, <2>3, <2>4, <2>5 DEF GroupLockInv, FrameOf, Group!Carried
<1>8. ComingInv'
  <2> SUFFICES ASSUME NEW f \in Group!Fields
               PROVE  /\ (\A i \in DOMAIN groupFrames' : f \notin DOMAIN groupFrames'[i]) => coming'[f] = device[f]
                      /\ \A i \in DOMAIN groupFrames' :
                            /\ f \in DOMAIN groupFrames'[i]
                            /\ \A j \in DOMAIN groupFrames' : j > i => f \notin DOMAIN groupFrames'[j]
                            => coming'[f] = groupFrames'[i][f]
    BY <1>1 DEF ComingInv
  <2> DEFINE last == Len(groupFrames) + 1
  <2>1. /\ last \in DOMAIN groupFrames' /\ groupFrames'[last] = frame
        /\ \A i \in DOMAIN groupFrames' : i = last \/ (i \in DOMAIN groupFrames /\ i < last)
        /\ DOMAIN groupFrames \subseteq DOMAIN groupFrames'
    BY <1>5
  <2> HIDE DEF last
  <2>2. CASE f \in DOMAIN frame
    BY <1>4, <1>5, <2>1, <2>2
  <2>3. CASE f \notin DOMAIN frame
    <3>1. coming'[f] = coming[f]
      BY <1>4, <2>3
    <3>2. (\A i \in DOMAIN groupFrames : f \notin DOMAIN groupFrames[i]) => coming[f] = device[f]
      BY DEF GroupInv, ComingInv
    <3>3. (\A i \in DOMAIN groupFrames' : f \notin DOMAIN groupFrames'[i]) => coming'[f] = device[f]
      BY <1>5, <2>1, <3>1, <3>2
    <3>4. ASSUME NEW i \in DOMAIN groupFrames', f \in DOMAIN groupFrames'[i],
                 \A j \in DOMAIN groupFrames' : j > i => f \notin DOMAIN groupFrames'[j]
          PROVE  coming'[f] = groupFrames'[i][f]
      <4>1. i \in DOMAIN groupFrames /\ f \in DOMAIN groupFrames[i] /\ groupFrames'[i] = groupFrames[i]
        BY <1>5, <2>1, <2>3, <3>4
      <4>2. \A j \in DOMAIN groupFrames : j > i => f \notin DOMAIN groupFrames[j]
        BY <1>5, <2>1, <3>4
      <4> QED
        BY <3>1, <4>1, <4>2 DEF GroupInv, ComingInv
    <3> QED
      BY <3>3, <3>4
  <2> QED
    BY <2>2, <2>3
<1>9. \A w \in Writes : w # c => ~Sending(w) /\ ~Published(w) /\ ~Sending(w)' /\ ~Published(w)'
  BY <1>2, <1>3 DEF GroupInv, GroupLockInv, Sending, Published
<1>10. Published(c)' /\ ~Sending(c)' /\ ~Published(c)
  BY <1>1, <1>3 DEF Sending, Published
<1>11. CASE style # "schedule"
  <2>1. PairInv
    BY <1>11 DEF GroupInv
  <2>2. reports = <<>>
    BY <1>2, <2>1, Ocean2Assumption DEF PairInv
  <2>3. \A g \in DOMAIN frame : frame[g] = coming'[g]
    BY <1>2, <1>4
  <2>4. \A g \in Group!Fields : g \in DOMAIN frame \/ g \in unsure' \/ values'[g] = coming'[g]
    BY <1>1, <1>4, <1>9, <1>10, <2>1 DEF PairInv
  <2>5. groupWrite'[c].frame = frame
    BY <1>3 DEF frame, FrameOf
  <2>6. PairInv'
    <3>1. held' = Unset /\ reports' = <<>>
      BY <1>1, <2>1, <2>2 DEF PairInv
    <3>2. ASSUME NEW w \in Writes, Published(w)'
          PROVE  \A g \in DOMAIN groupWrite'[w].frame : groupWrite'[w].frame[g] = coming'[g]
      BY <1>9, <2>3, <2>5, <3>2
    <3>3. \A w \in Writes : ~Sending(w)'
      BY <1>9, <1>10
    <3> QED
      BY <1>10, <2>4, <2>5, <3>1, <3>2, <3>3 DEF PairInv, FrameOf
  <2> QED
    BY <1>1, <1>6, <1>7, <1>8, <1>11, <2>6 DEF GroupInv
<1>12. CASE style = "schedule"
  <2>1. FlagInv
    BY <1>12 DEF GroupInv
  <2>2. ~FlagSending' /\ ~FlagOut /\ (FlagSending <=> field = "short") /\ (FlagOut' <=> field = "short")
    <3>1. groupWrite'[c].field = field /\ groupWrite[c].field = field
      BY <1>3 DEF field
    <3> QED
      BY <1>1, <1>9, <1>10, <3>1 DEF FlagSending, FlagOut
  <2>3. "short" \in DOMAIN frame /\ coming'["short"] = frame["short"]
    BY <1>2, <1>4, <1>12 DEF Group!Carried, Group!Fields
  <2>4. FlagSendingInv'
    BY <1>9, <1>10 DEF FlagSendingInv
  <2>5. \A w \in Writes : ~Sending(w)'
    BY <1>9, <1>10
  <2>6. CASE field = "short"
    <3>1. /\ groupFrames = <<>> /\ \A i \in DOMAIN reports : reports[i] = device
          /\ values["short"] = frame["short"]
          /\ held = frame["short"] \/ (held = Unset /\ device["short"] = frame["short"])
      BY <1>1, <2>1, <2>6 DEF FlagInv, FlagSendingInv, frame, field
    <3>2. \A i \in DOMAIN groupFrames' : groupFrames'[i] = frame
      BY <1>5, <3>1
    <3>3. HeldInv'
      BY <1>1, <2>3, <2>5, <3>1, <3>2 DEF HeldInv
    <3>4. SteadyInv'
      <4> SUFFICES ASSUME held' = Unset PROVE Steady'
        BY DEF SteadyInv
      <4>1. frame["short"] \in Levels
        BY <1>2, <2>3, FrameFacts
      <4>2. device["short"] = frame["short"]
        BY <1>1, <3>1, <4>1, Ocean2Assumption
      <4> QED
        BY <1>1, <2>3, <3>1, <3>2, <4>2 DEF Steady
    <3> QED
      BY <1>1, <1>6, <1>7, <1>8, <1>12, <2>4, <3>3, <3>4 DEF GroupInv, FlagInv
  <2>7. CASE field = "full"
    <3>1. \A i \in DOMAIN groupFrames' : (i \in DOMAIN groupFrames /\ groupFrames'[i] = groupFrames[i])
                                            \/ groupFrames'[i] = frame
      BY <1>5
    <3>2. ~FlagSending /\ ~FlagOut /\ ~FlagOut'
      BY <2>2, <2>7
    <3>3. HeldInv'
      <4> SUFFICES ASSUME held # Unset PROVE HeldInv'
        BY <1>1 DEF HeldInv
      <4>1. /\ frame["short"] = held /\ values["short"] = held
            /\ \A i \in DOMAIN groupFrames :
                  "short" \in DOMAIN groupFrames[i] => groupFrames[i]["short"] = held
            /\ \A i \in DOMAIN reports : reports[i]["short"] = held =>
                  /\ device["short"] = held
                  /\ \A j \in DOMAIN reports : i <= j => reports[j]["short"] = held
        BY <1>1, <2>1, <2>7, <3>2 DEF FlagInv, HeldInv, frame, field
      <4> QED
        BY <1>1, <2>3, <2>5, <3>1, <4>1 DEF HeldInv
    <3>4. SteadyInv'
      <4> SUFFICES ASSUME held = Unset, "short" \notin unsure' PROVE Steady'
        BY <1>1, <3>2 DEF SteadyInv
      <4>1. Steady /\ frame["short"] = coming["short"]
        BY <1>1, <2>1, <2>3, <2>7, <3>2 DEF FlagInv, SteadyInv
      <4> QED
        BY <1>1, <2>3, <3>1, <4>1 DEF Steady
    <3> QED
      BY <1>1, <1>6, <1>7, <1>8, <1>12, <2>4, <3>3, <3>4 DEF GroupInv, FlagInv
  <2> QED
    BY <1>2, <2>6, <2>7 DEF Group!Fields
<1> QED
  BY <1>11, <1>12

\* The call ends, acknowledged or not: the lock is free, and no other call was under way.
LEMMA EndFacts ==
  ASSUME GroupInv, NEW c \in Writes, groupWrite[c].at # "idle",
         groupWrite' = [groupWrite EXCEPT ![c] = Group!Idle], holder' = NoWrite, style' = style
  PROVE  /\ groupWrite' \in [Writes -> GroupCalls] /\ GroupLockInv'
         /\ \A w \in Writes : ~Sending(w)' /\ ~Published(w)' /\ (w # c => ~Sending(w) /\ ~Published(w))
         /\ holder = c
<1>1. holder = c /\ \A w \in Writes : w # c => groupWrite[w].at = "idle"
  BY DEF GroupInv, GroupLockInv
<1>2. /\ groupWrite' \in [Writes -> GroupCalls]
      /\ \A w \in Writes : groupWrite'[w] = IF w = c THEN Group!Idle ELSE groupWrite[w]
  BY FrameFacts DEF GroupInv, GroupTypes
<1>3. \A w \in Writes : groupWrite'[w].at = "idle"
  BY <1>1, <1>2 DEF Group!Idle
<1> QED
  BY <1>1, <1>2, <1>3, Ocean2Assumption DEF GroupLockInv, Sending, Published

\* The acknowledgement: the store takes what was sent.
LEMMA DeliveredHolds == ASSUME GroupInv, NEW c \in Writes, Group!Delivered(c) PROVE GroupInv'
<1> DEFINE frame == FrameOf(c)
           field == groupWrite[c].field
<1>1. /\ Published(c) /\ values' = (IF style = "schedule" THEN values ELSE Group!Over(values, frame))
      /\ unsure' = unsure \ {field} /\ groupWrite' = [groupWrite EXCEPT ![c] = Group!Idle] /\ holder' = NoWrite
      /\ UNCHANGED <<style, held, device, groupFrames, reports, coming>>
  BY DEF Group!Delivered, Group!Seeded, Group!linkVars, Published, FrameOf
<1>2. /\ frame \in PartFrames /\ field \in Group!Fields /\ GroupTypes
      /\ DOMAIN frame = Group!Carried(field) /\ field \in DOMAIN frame
  <2>1. /\ frame \in PartFrames /\ field \in Group!Fields /\ GroupTypes /\ DOMAIN frame = Group!Carried(field)
    BY <1>1, CallFacts DEF GroupInv, GroupLockInv, GroupTypes, Published
  <2> QED
    BY <2>1 DEF Group!Carried
<1>3. /\ groupWrite' \in [Writes -> GroupCalls] /\ GroupLockInv'
      /\ \A w \in Writes : ~Sending(w)' /\ ~Published(w)' /\ (w # c => ~Sending(w) /\ ~Published(w))
      /\ holder = c /\ ~Sending(c)
  BY <1>1, EndFacts DEF Published, Sending
<1> HIDE DEF frame, field
<1>4. /\ values' \in WholeFrames
      /\ style # "schedule" =>
            \A g \in Group!Fields : values'[g] = IF g \in DOMAIN frame THEN frame[g] ELSE values[g]
  BY <1>1, <1>2, OverFacts DEF GroupTypes
<1>5. GroupTypes' /\ ComingInv'
  BY <1>1, <1>2, <1>3, <1>4 DEF GroupInv, GroupTypes, ComingInv
<1>6. CASE style # "schedule"
  <2>1. PairInv
    BY <1>6 DEF GroupInv
  <2>2. reports = <<>>
    BY <1>3, <2>1, Ocean2Assumption DEF PairInv
  <2>3. \A g \in DOMAIN frame : frame[g] = coming[g]
    BY <1>1, <2>1 DEF PairInv, frame
  <2>4. \A g \in Group!Fields : g \in unsure' \/ values'[g] = coming'[g]
    <3> SUFFICES ASSUME NEW g \in Group!Fields, g \notin DOMAIN frame
                 PROVE  g \in unsure' \/ values'[g] = coming'[g]
      BY <1>1, <1>4, <1>6, <2>3
    <3>1. g \in unsure \/ values[g] = coming[g]
      BY <1>3, <2>1 DEF PairInv, frame
    <3> QED
      BY <1>1, <1>2, <1>4, <1>6, <3>1
  <2>5. PairInv'
    BY <1>1, <1>3, <2>1, <2>2, <2>4 DEF PairInv
  <2> QED
    BY <1>1, <1>3, <1>5, <1>6, <2>5 DEF GroupInv
<1>7. CASE style = "schedule"
  <2>1. FlagInv /\ values' = values
    BY <1>1, <1>7 DEF GroupInv
  <2>2. ~FlagSending /\ ~FlagSending' /\ ~FlagOut' /\ (field = "short" => FlagOut)
    BY <1>1, <1>3 DEF FlagSending, FlagOut, field
  <2>3. HeldInv'
    BY <1>1, <1>3, <2>1, <2>2 DEF FlagInv, HeldInv
  <2>4. FlagSendingInv'
    BY <1>3 DEF FlagSendingInv
  <2>5. SteadyInv'
    <3> SUFFICES ASSUME held = Unset, "short" \notin unsure' PROVE Steady'
      BY <1>1, <2>2 DEF SteadyInv
    <3>1. Steady
      BY <1>1, <2>1, <2>2 DEF FlagInv, SteadyInv
    <3> QED
      BY <1>1, <2>1, <3>1 DEF Steady
  <2> QED
    BY <1>1, <1>3, <1>5, <1>7, <2>3, <2>4, <2>5 DEF GroupInv, FlagInv
<1> QED
  BY <1>6, <1>7

\* No acknowledgement: everything the frame says is open.
LEMMA NotDeliveredHolds == ASSUME GroupInv, NEW c \in Writes, Group!NotDelivered(c) PROVE GroupInv'
<1> DEFINE frame == FrameOf(c)
           field == groupWrite[c].field
<1>1. /\ Sending(c) \/ Published(c)
      /\ IF style = "schedule"
           THEN /\ values' = [values EXCEPT ![field] = groupWrite[c].value]
                /\ held' = IF field = "short" THEN Unset ELSE held
           ELSE UNCHANGED <<values, held>>
      /\ unsure' = unsure \cup DOMAIN frame
      /\ groupWrite' = [groupWrite EXCEPT ![c] = Group!Idle] /\ holder' = NoWrite
      /\ UNCHANGED <<style, device, groupFrames, reports, coming>>
  BY DEF Group!NotDelivered, Group!linkVars, Sending, Published, FrameOf
<1>2. /\ frame \in PartFrames /\ field \in Group!Fields /\ GroupTypes
      /\ DOMAIN frame = Group!Carried(field) /\ field \in DOMAIN frame
  <2>1. /\ frame \in PartFrames /\ field \in Group!Fields /\ GroupTypes /\ DOMAIN frame = Group!Carried(field)
    BY <1>1, CallFacts DEF GroupInv, GroupLockInv, GroupTypes, Published, Sending
  <2> QED
    BY <2>1 DEF Group!Carried
<1>3. /\ groupWrite' \in [Writes -> GroupCalls] /\ GroupLockInv'
      /\ \A w \in Writes : ~Sending(w)' /\ ~Published(w)' /\ (w # c => ~Sending(w) /\ ~Published(w))
      /\ holder = c
  BY <1>1, EndFacts DEF Published, Sending
<1>4. groupWrite[c].value \in Levels
  BY <1>1 DEF GroupInv, GroupLockInv, Sending, Published
<1> HIDE DEF frame, field
<1>5. values' \in WholeFrames /\ held' \in Levels \cup {Unset}
  BY <1>1, <1>2, <1>4 DEF GroupTypes, WholeFrames
<1>6. GroupTypes' /\ ComingInv'
  BY <1>1, <1>2, <1>3, <1>5 DEF GroupInv, GroupTypes, ComingInv
<1>7. CASE style # "schedule"
  <2>1. PairInv /\ values' = values /\ held' = held
    BY <1>1, <1>7 DEF GroupInv
  <2>2. reports = <<>>
    BY <1>3, <2>1, Ocean2Assumption DEF PairInv
  <2>3. \A g \in Group!Fields : g \in unsure' \/ values'[g] = coming'[g]
    <3> SUFFICES ASSUME NEW g \in Group!Fields, g \notin DOMAIN frame
                 PROVE  g \in unsure' \/ values'[g] = coming'[g]
      BY <1>1
    <3>1. g \in unsure \/ values[g] = coming[g]
      BY <1>3, <2>1 DEF PairInv, frame
    <3> QED
      BY <1>1, <2>1, <3>1
  <2>4. PairInv'
    BY <1>1, <1>3, <2>1, <2>2, <2>3 DEF PairInv
  <2> QED
    BY <1>1, <1>3, <1>6, <1>7, <2>4 DEF GroupInv
<1>8. CASE style = "schedule"
  <2>1. FlagInv
    BY <1>8 DEF GroupInv
  <2>2. ~FlagSending' /\ ~FlagOut' /\ "short" \in unsure' /\ (field = "full" => ~FlagSending)
    <3>1. "short" \in DOMAIN frame
      BY <1>2, <1>8 DEF Group!Carried, Group!Fields
    <3>2. field = "full" => groupWrite[c].field = "full"
      BY DEF field
    <3> QED
      BY <1>1, <1>3, <3>1, <3>2 DEF FlagSending, FlagOut
  <2>3. SteadyInv' /\ FlagSendingInv'
    BY <1>3, <2>2 DEF SteadyInv, FlagSendingInv
  <2>4. HeldInv'
    <3> SUFFICES ASSUME held' # Unset PROVE HeldInv'
      BY DEF HeldInv
    <3>1. field = "full" /\ held' = held
      BY <1>1, <1>2, <1>8 DEF Group!Fields
    <3>2. values'["short"] = values["short"]
      BY <1>1, <1>2, <1>8, <3>1 DEF GroupTypes, WholeFrames, Group!Fields
    <3> QED
      BY <1>1, <1>3, <2>1, <2>2, <3>1, <3>2 DEF FlagInv, HeldInv
  <2> QED
    BY <1>1, <1>3, <1>6, <1>8, <2>3, <2>4 DEF GroupInv, FlagInv
<1> QED
  BY <1>7, <1>8

\* With no frame under way the device has what was coming.
LEMMA ArrivedAll == ASSUME GroupTypes, ComingInv, groupFrames = <<>> PROVE coming = device
  BY DEF GroupTypes, ComingInv, WholeFrames

\* The device takes the first frame.
LEMMA GroupTakesHolds == ASSUME GroupInv, Group!DeviceTakes PROVE GroupInv'
<1> DEFINE head == groupFrames[1]
<1>1. /\ groupFrames # <<>> /\ device' = Group!Over(device, Head(groupFrames)) /\ groupFrames' = Tail(groupFrames)
      /\ UNCHANGED <<style, groupWrite, holder, values, held, reports, coming, unsure>>
  BY DEF Group!DeviceTakes
<1>2. /\ groupFrames' \in Seq(PartFrames) /\ Head(groupFrames) = head /\ head \in PartFrames
      /\ 1 \in DOMAIN groupFrames
      /\ \A i \in DOMAIN groupFrames' : i + 1 \in DOMAIN groupFrames /\ groupFrames'[i] = groupFrames[i + 1]
      /\ \A i \in DOMAIN groupFrames : i # 1 => i - 1 \in DOMAIN groupFrames' /\ groupFrames'[i - 1] = groupFrames[i]
      /\ DOMAIN groupFrames \subseteq Nat \ {0} /\ DOMAIN groupFrames' \subseteq Nat \ {0}
  BY <1>1 DEF GroupInv, GroupTypes
<1> HIDE DEF head
<1>3. /\ device' \in WholeFrames
      /\ \A f \in Group!Fields : device'[f] = IF f \in DOMAIN head THEN head[f] ELSE device[f]
  BY <1>1, <1>2, OverFacts DEF GroupInv, GroupTypes
<1>4. GroupTypes'
  BY <1>1, <1>2, <1>3 DEF GroupInv, GroupTypes
<1>5. GroupLockInv'
  BY <1>1 DEF GroupInv, GroupLockInv, FrameOf, Group!Carried
<1>6. ComingInv'
  <2> SUFFICES ASSUME NEW f \in Group!Fields
               PROVE  /\ (\A i \in DOMAIN groupFrames' : f \notin DOMAIN groupFrames'[i]) => coming[f] = device'[f]
                      /\ \A i \in DOMAIN groupFrames' :
                            /\ f \in DOMAIN groupFrames'[i]
                            /\ \A j \in DOMAIN groupFrames' : j > i => f \notin DOMAIN groupFrames'[j]
                            => coming[f] = groupFrames'[i][f]
    BY <1>1 DEF ComingInv
  <2>1. /\ (\A i \in DOMAIN groupFrames : f \notin DOMAIN groupFrames[i]) => coming[f] = device[f]
        /\ \A i \in DOMAIN groupFrames :
              f \in DOMAIN groupFrames[i] /\ (\A j \in DOMAIN groupFrames : j > i => f \notin DOMAIN groupFrames[j])
                 => coming[f] = groupFrames[i][f]
    BY DEF GroupInv, ComingInv
  <2>2. ASSUME \A i \in DOMAIN groupFrames' : f \notin DOMAIN groupFrames'[i] PROVE coming[f] = device'[f]
    <3>1. \A i \in DOMAIN groupFrames : i # 1 => f \notin DOMAIN groupFrames[i]
      BY <1>2, <2>2
    <3>2. CASE f \in DOMAIN head
      <4>1. \A j \in DOMAIN groupFrames : j > 1 => f \notin DOMAIN groupFrames[j]
        BY <1>2, <3>1
      <4> QED
        BY <1>2, <1>3, <2>1, <3>2, <4>1 DEF head
    <3>3. CASE f \notin DOMAIN head
      BY <1>2, <1>3, <2>1, <3>1, <3>3 DEF head
    <3> QED
      BY <3>2, <3>3
  <2>3. ASSUME NEW i \in DOMAIN groupFrames', f \in DOMAIN groupFrames'[i],
               \A j \in DOMAIN groupFrames' : j > i => f \notin DOMAIN groupFrames'[j]
        PROVE  coming[f] = groupFrames'[i][f]
    <3>1. i + 1 \in DOMAIN groupFrames /\ groupFrames'[i] = groupFrames[i + 1] /\ i \in Nat \ {0}
      BY <1>2
    <3>2. ASSUME NEW j \in DOMAIN groupFrames, j > i + 1 PROVE f \notin DOMAIN groupFrames[j]
      <4>1. j # 1 /\ j - 1 > i /\ j \in Nat
        BY <1>2, <3>1, <3>2
      <4> QED
        BY <1>2, <2>3, <4>1
    <3> QED
      BY <2>1, <2>3, <3>1, <3>2
  <2> QED
    BY <2>2, <2>3
<1>7. CASE style # "schedule"
  <2>1. PairInv /\ reports = <<>>
    BY <1>1, <1>7 DEF GroupInv, PairInv
  <2>2. PairInv'
    BY <1>1, <2>1 DEF PairInv, Sending, Published, FrameOf
  <2> QED
    BY <1>1, <1>4, <1>5, <1>6, <1>7, <2>2 DEF GroupInv
<1>8. CASE style = "schedule"
  <2>1. FlagInv
    BY <1>8 DEF GroupInv
  <2>2. ~FlagSending /\ (FlagSending' <=> FlagSending) /\ (FlagOut' <=> FlagOut)
        /\ \A w \in Writes : Sending(w)' <=> Sending(w)
    BY <1>1, <2>1 DEF FlagInv, FlagSendingInv, FlagSending, FlagOut, Sending, Published
  <2>3. \A i \in DOMAIN groupFrames' : \E j \in DOMAIN groupFrames : groupFrames'[i] = groupFrames[j]
    BY <1>2
  <2>4. device'["short"] = IF "short" \in DOMAIN head THEN head["short"] ELSE device["short"]
    BY <1>3 DEF Group!Fields
  <2>5. HeldInv'
    <3> SUFFICES ASSUME held # Unset PROVE HeldInv'
      BY <1>1 DEF HeldInv
    <3>1. /\ values["short"] = held /\ coming["short"] = held
          /\ \A w \in Writes : Sending(w) /\ groupWrite[w].field = "full" => FrameOf(w)["short"] = held
          /\ \A i \in DOMAIN groupFrames :
                "short" \in DOMAIN groupFrames[i] => groupFrames[i]["short"] = held
          /\ \A i \in DOMAIN reports : reports[i]["short"] = held =>
                /\ device["short"] = held
                /\ \A j \in DOMAIN reports : i <= j => reports[j]["short"] = held
      BY <2>1, <2>2 DEF FlagInv, HeldInv
    <3>2. device["short"] = held => device'["short"] = held
      BY <1>2, <2>4, <3>1 DEF head
    <3> QED
      BY <1>1, <2>2, <2>3, <3>1, <3>2 DEF HeldInv, FrameOf
  <2>6. FlagSendingInv'
    BY <1>1, <2>2 DEF FlagSendingInv, FlagSending
  <2>7. SteadyInv'
    <3> SUFFICES ASSUME Steady PROVE Steady'
      BY <1>1, <2>1, <2>2 DEF FlagInv, SteadyInv
    <3>1. device'["short"] = coming["short"]
      BY <1>2, <2>4 DEF Steady, head
    <3> QED
      BY <1>1, <2>3, <3>1 DEF Steady
  <2> QED
    BY <1>1, <1>4, <1>5, <1>6, <1>8, <2>5, <2>6, <2>7 DEF GroupInv, FlagInv
<1> QED
  BY <1>7, <1>8

\* The device reports what it has.
LEMMA GroupReportsHolds == ASSUME GroupInv, Group!DeviceReports PROVE GroupInv'
<1>1. /\ style # "schedule" => groupFrames = <<>> /\ holder = NoWrite
      /\ reports' = Append(reports, device)
      /\ UNCHANGED <<style, groupWrite, holder, values, held, device, groupFrames, coming, unsure>>
  BY DEF Group!DeviceReports
<1>2. /\ reports' \in Seq(WholeFrames) /\ DOMAIN reports' = 1..Len(reports) + 1 /\ Len(reports) \in Nat
      /\ DOMAIN reports = 1..Len(reports)
      /\ reports'[Len(reports) + 1] = device
      /\ \A i \in DOMAIN reports : reports'[i] = reports[i]
  BY <1>1 DEF GroupInv, GroupTypes
<1>3. GroupTypes' /\ GroupLockInv' /\ ComingInv'
  BY <1>1, <1>2 DEF GroupInv, GroupTypes, GroupLockInv, ComingInv, FrameOf, Group!Carried
<1>4. \A i \in DOMAIN reports' : (i \in DOMAIN reports /\ reports'[i] = reports[i])
                                    \/ (i = Len(reports) + 1 /\ reports'[i] = device)
  BY <1>2
<1>5. CASE style # "schedule"
  <2>1. PairInv
    BY <1>5 DEF GroupInv
  <2>2. \A i \in DOMAIN reports' : reports'[i] = device
    BY <1>4, <2>1 DEF PairInv
  <2>3. PairInv'
    BY <1>1, <1>5, <2>1, <2>2 DEF PairInv, Sending, Published, FrameOf
  <2> QED
    BY <1>1, <1>3, <1>5, <2>3 DEF GroupInv
<1>6. CASE style = "schedule"
  <2>1. FlagInv
    BY <1>6 DEF GroupInv
  <2>2. (FlagSending' <=> FlagSending) /\ (FlagOut' <=> FlagOut) /\ \A w \in Writes : Sending(w)' <=> Sending(w)
    BY <1>1 DEF FlagSending, FlagOut, Sending, Published
  <2>3. HeldInv'
    <3> SUFFICES ASSUME held # Unset, ~FlagSending
                 PROVE  \A i \in DOMAIN reports' : reports'[i]["short"] = held =>
                            /\ device["short"] = held
                            /\ \A j \in DOMAIN reports' : i <= j => reports'[j]["short"] = held
      BY <1>1, <2>1, <2>2 DEF FlagInv, HeldInv, FrameOf
    <3>1. \A i \in DOMAIN reports : reports[i]["short"] = held =>
              device["short"] = held /\ \A j \in DOMAIN reports : i <= j => reports[j]["short"] = held
      BY <2>1 DEF FlagInv, HeldInv
    <3> QED
      BY <1>2, <1>4, <3>1
  <2>4. FlagSendingInv'
    BY <1>1, <1>4, <2>1, <2>2 DEF FlagInv, FlagSendingInv, FrameOf
  <2>5. SteadyInv'
    BY <1>1, <1>4, <2>1, <2>2 DEF FlagInv, SteadyInv, Steady
  <2> QED
    BY <1>1, <1>3, <1>6, <2>3, <2>4, <2>5 DEF GroupInv, FlagInv
<1> QED
  BY <1>5, <1>6

\* The coordinator applies the first report, without a flag that is held against it.
LEMMA GroupHearsHolds == ASSUME GroupInv, Group!ReportArrives PROVE GroupInv'
<1> DEFINE report == reports[1]
           dropped2 == held # Unset /\ report["short"] # held
<1>1. /\ reports # <<>> /\ Head(reports) = report
      /\ values' = (IF dropped2 THEN [report EXCEPT !["short"] = values["short"]] ELSE report)
      /\ held' = (IF dropped2 THEN held ELSE Unset)
      /\ unsure' = {f \in unsure : ~Group!Settled \/ report[f] # device[f]}
      /\ reports' = Tail(reports)
      /\ UNCHANGED <<style, groupWrite, holder, device, groupFrames, coming>>
  <2>1. reports # <<>> /\ Head(reports) = report
    BY DEF Group!ReportArrives, GroupInv, GroupTypes
  <2> QED
    BY <2>1 DEF Group!ReportArrives, Group!Dropped
<1>2. /\ reports' \in Seq(WholeFrames) /\ report \in WholeFrames /\ 1 \in DOMAIN reports
      /\ \A i \in DOMAIN reports' : i + 1 \in DOMAIN reports /\ reports'[i] = reports[i + 1]
      /\ DOMAIN reports \subseteq Nat \ {0} /\ DOMAIN reports' \subseteq Nat \ {0}
  BY <1>1 DEF GroupInv, GroupTypes
<1>3. \A i \in DOMAIN reports' : \E j \in DOMAIN reports : reports'[i] = reports[j]
  BY <1>2
<1>4. /\ values' \in WholeFrames /\ held' \in Levels \cup {Unset}
      /\ values'["short"] = IF dropped2 THEN values["short"] ELSE report["short"]
  BY <1>1, <1>2 DEF GroupInv, GroupTypes, WholeFrames, Group!Fields
<1>5. GroupTypes' /\ GroupLockInv' /\ ComingInv'
  BY <1>1, <1>2, <1>4 DEF GroupInv, GroupTypes, GroupLockInv, ComingInv, FrameOf, Group!Carried
<1> HIDE DEF report
<1>6. CASE style # "schedule"
  <2>1. PairInv
    BY <1>6 DEF GroupInv
  <2>2. /\ groupFrames = <<>> /\ holder = NoWrite /\ held = Unset /\ report = device
        /\ \A i \in DOMAIN reports' : reports'[i] = device
    BY <1>1, <1>2, <1>3, <2>1 DEF PairInv, report
  <2>3. coming = device
    BY <2>2, ArrivedAll DEF GroupInv
  <2>4. values' = device /\ held' = Unset
    BY <1>1, <2>2
  <2>5. \A w \in Writes : ~Sending(w) /\ ~Published(w) /\ ~Sending(w)' /\ ~Published(w)'
    BY <1>1, <2>2, Ocean2Assumption DEF GroupInv, GroupLockInv, Sending, Published
  <2>6. PairInv'
    BY <1>1, <2>2, <2>3, <2>4, <2>5 DEF PairInv
  <2> QED
    BY <1>1, <1>5, <1>6, <2>6 DEF GroupInv
<1>7. CASE style = "schedule"
  <2>1. FlagInv
    BY <1>7 DEF GroupInv
  <2>2. (FlagSending' <=> FlagSending) /\ (FlagOut' <=> FlagOut) /\ \A w \in Writes : Sending(w)' <=> Sending(w)
    BY <1>1 DEF FlagSending, FlagOut, Sending, Published
  <2>3. FlagSendingInv'
    <3> SUFFICES ASSUME NEW w \in Writes, Sending(w), groupWrite[w].field = "short"
                 PROVE  /\ groupFrames' = <<>> /\ \A i \in DOMAIN reports' : reports'[i] = device'
                        /\ values'["short"] = FrameOf(w)["short"]
                        /\ held' = FrameOf(w)["short"] \/ (held' = Unset /\ device'["short"] = FrameOf(w)["short"])
      BY <1>1, <2>2 DEF FlagSendingInv, FrameOf
    <3>1. /\ groupFrames = <<>> /\ \A i \in DOMAIN reports : reports[i] = device
          /\ values["short"] = FrameOf(w)["short"]
          /\ held = FrameOf(w)["short"] \/ (held = Unset /\ device["short"] = FrameOf(w)["short"])
      BY <2>1 DEF FlagInv, FlagSendingInv
    <3>2. report = device
      BY <1>2, <3>1 DEF report
    <3>3. groupFrames' = <<>> /\ \A i \in DOMAIN reports' : reports'[i] = device'
      BY <1>1, <1>3, <3>1
    <3>4. CASE dropped2
      BY <1>1, <1>4, <3>1, <3>3, <3>4
    <3>5. CASE ~dropped2
      <4>1. values' = device /\ held' = Unset /\ device' = device
        BY <1>1, <3>2, <3>5
      <4>2. FrameOf(w)["short"] # Unset
        BY <3>1, Ocean2Assumption DEF GroupInv, GroupTypes, WholeFrames, Group!Fields
      <4>3. device["short"] = FrameOf(w)["short"]
        BY <3>1, <3>2, <3>5, <4>2
      <4> QED
        BY <3>3, <4>1, <4>3
    <3> QED
      BY <3>4, <3>5
  <2>4. HeldInv'
    <3> SUFFICES ASSUME dropped2 PROVE HeldInv'
      BY <1>1 DEF HeldInv
    <3>1. held' = held /\ values'["short"] = values["short"] /\ held # Unset
      BY <1>1, <1>4
    <3>2. ASSUME ~FlagSending
          PROVE  \A i \in DOMAIN reports' : reports'[i]["short"] = held =>
                    device["short"] = held /\ \A j \in DOMAIN reports' : i <= j => reports'[j]["short"] = held
      <4>1. \A i \in DOMAIN reports : reports[i]["short"] = held =>
                device["short"] = held /\ \A j \in DOMAIN reports : i <= j => reports[j]["short"] = held
        BY <2>1, <3>1, <3>2 DEF FlagInv, HeldInv
      <4> SUFFICES ASSUME NEW i \in DOMAIN reports', reports'[i]["short"] = held
                   PROVE  device["short"] = held /\ \A j \in DOMAIN reports' : i <= j => reports'[j]["short"] = held
        OBVIOUS
      <4>2. /\ i + 1 \in DOMAIN reports /\ reports[i + 1]["short"] = held
            /\ \A j \in DOMAIN reports' : j + 1 \in DOMAIN reports /\ reports'[j] = reports[j + 1]
                                          /\ (i <= j => i + 1 <= j + 1)
        BY <1>2
      <4> QED
        BY <4>1, <4>2
    <3> QED
      BY <1>1, <2>1, <2>2, <3>1, <3>2 DEF FlagInv, HeldInv, FrameOf
  <2>5. SteadyInv'
    <3> SUFFICES ASSUME held' = Unset, ~FlagSending, "short" \notin unsure' \/ FlagOut PROVE Steady'
      BY <2>2 DEF SteadyInv
    <3>1. ~dropped2 /\ values'["short"] = report["short"]
      BY <1>1, <1>4
    <3>2. CASE held # Unset
      <4>1. report["short"] = held /\ coming["short"] = held
        BY <2>1, <3>1, <3>2 DEF FlagInv, HeldInv
      <4>2. /\ device["short"] = held /\ \A j \in DOMAIN reports : 1 <= j => reports[j]["short"] = held
            /\ \A i \in DOMAIN groupFrames :
                  "short" \in DOMAIN groupFrames[i] => groupFrames[i]["short"] = held
        BY <1>2, <2>1, <3>2, <4>1 DEF FlagInv, HeldInv, report
      <4>3. \A j \in DOMAIN reports' : reports'[j]["short"] = held
        BY <1>2, <4>2
      <4> QED
        BY <1>1, <3>1, <4>1, <4>2, <4>3 DEF Steady
    <3>3. CASE held = Unset /\ ("short" \notin unsure \/ FlagOut)
      <4>1. Steady
        BY <2>1, <3>3 DEF FlagInv, SteadyInv
      <4> QED
        BY <1>1, <1>2, <1>3, <3>1, <4>1 DEF Steady, report
    <3>4. CASE held = Unset /\ "short" \in unsure /\ ~FlagOut
      <4>1. Group!Settled /\ report["short"] = device["short"]
        BY <1>1, <3>4
      <4>2. groupFrames = <<>> /\ coming = device /\ \A i \in DOMAIN reports : reports[i] = device
        BY <4>1, ArrivedAll DEF Group!Settled, GroupInv
      <4> QED
        BY <1>1, <1>3, <3>1, <4>1, <4>2 DEF Steady
    <3> QED
      BY <3>2, <3>3, <3>4
  <2> QED
    BY <1>1, <1>5, <1>7, <2>3, <2>4, <2>5 DEF GroupInv, FlagInv
<1> QED
  BY <1>6, <1>7

\* A hold that ran out, with nothing under way against it.
LEMMA HoldExpiresHolds == ASSUME GroupInv, Group!HoldExpires PROVE GroupInv'
<1>1. /\ held # Unset /\ Group!Settled /\ held' = Unset /\ \A c \in Writes : groupWrite[c].at = "idle"
      /\ UNCHANGED <<style, groupWrite, holder, values, device, groupFrames, reports, coming, unsure>>
  BY DEF Group!HoldExpires, Group!linkVars
<1>2. style = "schedule" /\ FlagInv
  BY <1>1 DEF GroupInv, PairInv
<1>3. ~FlagSending /\ ~FlagSending' /\ \A w \in Writes : ~Sending(w)'
  BY <1>1 DEF FlagSending, Sending
<1>4. groupFrames = <<>> /\ coming = device /\ \A i \in DOMAIN reports : reports[i] = device
  BY <1>1, ArrivedAll DEF Group!Settled, GroupInv
<1>5. values["short"] = held /\ coming["short"] = held
  BY <1>1, <1>2, <1>3 DEF FlagInv, HeldInv
<1>6. FlagInv'
  BY <1>1, <1>3, <1>4, <1>5 DEF FlagInv, HeldInv, FlagSendingInv, SteadyInv, Steady
<1>7. GroupTypes' /\ GroupLockInv' /\ ComingInv'
  BY <1>1 DEF GroupInv, GroupTypes, GroupLockInv, ComingInv, FrameOf, Group!Carried
<1> QED
  BY <1>1, <1>2, <1>6, <1>7 DEF GroupInv

\* Every step of the grouped writes.
LEMMA GroupStepHolds == ASSUME ~Hurried, GroupInv, Group!Next PROVE GroupInv'
<1>1. CASE Group!Shutdown
  BY <1>1 DEF Group!Shutdown, Group!linkVars, GroupInv, GroupTypes, GroupLockInv, ComingInv, PairInv, FlagInv,
     HeldInv, FlagSendingInv, SteadyInv, Steady, FlagSending, FlagOut, Sending, Published, FrameOf, Group!Carried
<1>2. ASSUME NEW c \in Writes, \/ \E f \in Group!Fields, v \in Levels : Group!Write(c, f, v)
                               \/ Group!Publish(c) \/ Group!Delivered(c) \/ Group!NotDelivered(c)
      PROVE  GroupInv'
  BY <1>2, WriteHolds, PublishHolds, DeliveredHolds, NotDeliveredHolds
<1> QED
  BY <1>1, <1>2, GroupTakesHolds, GroupReportsHolds, GroupHearsHolds, HoldExpiresHolds DEF Group!Next

\* What a write carries along is coming, or open.
LEMMA OthersStepHolds ==
  ASSUME GroupInv, NEW c \in Writes, NEW f \in Group!Fields, NEW v \in Levels, Group!Write(c, f, v),
         NEW g \in Group!Carried(f) \ {f}
  PROVE  g \in unsure \/ Group!Frame(f, v)[g] = coming[g]
<1>1. /\ holder = NoWrite /\ g \in Group!Fields /\ Group!Frame(f, v)[g] = values[g]
  BY DEF Group!Write, Group!LockFree, Group!Carried, Group!Frame
<1>2. \A w \in Writes : ~Sending(w) /\ ~Published(w)
  BY <1>1, Ocean2Assumption DEF GroupInv, GroupLockInv, Sending, Published
<1>3. CASE style # "schedule"
  BY <1>1, <1>2, <1>3 DEF GroupInv, PairInv
<1>4. CASE style = "schedule"
  <2>1. g = "short" /\ FlagInv /\ ~FlagSending
    BY <1>2, <1>4 DEF GroupInv, Group!Carried, Group!Fields, FlagSending
  <2> QED
    BY <1>1, <2>1 DEF FlagInv, HeldInv, SteadyInv, Steady
<1> QED
  BY <1>3, <1>4

-----------------------------------------------------------------------------
(* WaveClimate.  Until its own frame switches the mode, a call nobody has      *)
(* switched under finds the mode shown; and while it waits, the store can show *)
(* the asked mode only once the unit has settled in it.                        *)

Places == {"idle", "stopping", "starting", "switching", "waiting", "setting"}
ModesOff == Climate!Modes \cup {"off"}
ClimateCalls == [at : Places, mode : ModesOff, gate : ModesOff \cup {"store"}, lapsed : BOOLEAN]

SettledInv == ~unit.deaf /\ unit.mode = shown.mode
SwitchedInv(m) == unit.on /\ unit.mode = m /\ (shown.mode = m => ~unit.deaf)
UntouchedInv(m) == unit.mode # m /\ shown.mode # m
ReadyInv(m) == unit.on /\ ~unit.deaf /\ unit.mode = m

ClimateTypes ==
    /\ unit \in [on : BOOLEAN, mode : Climate!Modes, deaf : BOOLEAN]
    /\ shown \in [on : BOOLEAN, mode : Climate!Modes]
    /\ climate \in [Writes -> ClimateCalls] /\ mine \subseteq Writes
    /\ \A c \in Writes : climate[c].at \in {"starting", "switching"} => climate[c].mode # "off"

\* What a call nobody has switched under may count on, at each of its places.
CallInv(c) ==
    LET call == climate[c]
    IN  /\ call.gate \in {"store", call.mode}
        /\ call.at \in {"stopping", "starting", "switching"} => SettledInv
        /\ call.at = "stopping" => call.gate = "store"
        /\ call.at = "switching" => unit.on \/ UntouchedInv(call.mode)
        /\ call.at = "waiting" => SwitchedInv(call.mode) \/ UntouchedInv(call.mode)
        /\ call.at = "setting" /\ call.gate # "store" /\ ~call.lapsed => ReadyInv(call.mode)

ClimateInv == ClimateTypes /\ ~dropped /\ \A c \in mine : CallInv(c)

LEMMA CallParts ==
  ASSUME ClimateTypes, NEW c \in Writes
  PROVE  /\ climate[c] \in ClimateCalls /\ climate[c].mode \in ModesOff /\ climate[c].at \in Places
         /\ climate[c].gate \in ModesOff \cup {"store"}
         /\ unit.mode \in Climate!Modes /\ shown.mode \in Climate!Modes
<1>1. climate[c] \in ClimateCalls
  BY DEF ClimateTypes
<1> QED
  BY <1>1, Zenon DEF ClimateTypes, ClimateCalls

LEMMA ClimateInitHolds == ASSUME Climate!ClimateInit PROVE ClimateInv
  BY DEF Climate!ClimateInit, ClimateInv, ClimateTypes, ClimateCalls, Climate!Resting, ModesOff, Places, Climate!Modes

LEMMA StartHolds ==
  ASSUME SettledFirst, ClimateInv, NEW c \in Writes, NEW m \in ModesOff, Climate!SetTemperature(c, m)
  PROVE  ClimateInv'
<1> DEFINE new == [at |-> IF m = Climate!HvacMode THEN "setting"
                          ELSE IF m = "off" THEN "stopping"
                          ELSE IF shown.on THEN "switching" ELSE "starting",
                   mode |-> m, lapsed |-> FALSE,
                   gate |-> IF m \in {Climate!HvacMode, "off"} THEN "store" ELSE m]
<1>1. /\ climate' = [climate EXCEPT ![c] = new] /\ mine' = mine \cup {c}
      /\ UNCHANGED <<unit, shown, dropped>> /\ ~unit.deaf /\ unit.mode = shown.mode
  BY DEF Climate!SetTemperature
<1>2. new \in ClimateCalls
  BY DEF ClimateCalls, Places, ModesOff
<1>3. shown.on => Climate!HvacMode = shown.mode
  BY DEF Climate!HvacMode
<1>4. /\ new.mode = m /\ new.gate \in {"store", m} /\ new.at # "waiting"
      /\ new.at = "setting" => new.gate = "store"
      /\ new.at = "stopping" => new.gate = "store"
      /\ new.at \in {"starting", "switching"} => m # "off"
      /\ new.at = "switching" => shown.on /\ m # Climate!HvacMode
  OBVIOUS
<1> HIDE DEF new
<1>5. ClimateTypes'
  <2>1. \A d \in Writes : climate'[d] = IF d = c THEN new ELSE climate[d]
    BY <1>1 DEF ClimateInv, ClimateTypes
  <2> QED
    BY <1>1, <1>2, <1>4, <2>1 DEF ClimateInv, ClimateTypes
<1>6. ASSUME NEW d \in mine' PROVE CallInv(d)'
  <2>1. CASE d = c
    <3>1. climate'[d] = new
      BY <1>1, <2>1 DEF ClimateInv, ClimateTypes
    <3> QED
      BY <1>1, <1>3, <1>4, <3>1 DEF CallInv, SettledInv, UntouchedInv
  <2>2. CASE d # c
    <3>1. climate'[d] = climate[d] /\ CallInv(d)
      BY <1>1, <1>6, <2>2 DEF ClimateInv, ClimateTypes
    <3> QED
      BY <1>1, <3>1 DEF CallInv, SettledInv, SwitchedInv, UntouchedInv, ReadyInv
  <2> QED
    BY <2>1, <2>2
<1> QED
  BY <1>1, <1>5, <1>6 DEF ClimateInv

\* A call goes on to its next place, and only it may still count on the unit.
LEMMA MovedOn ==
  ASSUME ClimateInv, NEW c \in Writes, NEW place \in Places, NEW lapsed \in BOOLEAN,
         place \in {"starting", "switching"} => climate[c].mode # "off",
         climate' = [climate EXCEPT ![c] = [climate[c] EXCEPT !.at = place, !.lapsed = lapsed]]
  PROVE  /\ climate' \in [Writes -> ClimateCalls]
         /\ \A d \in Writes : climate'[d].at \in {"starting", "switching"} => climate'[d].mode # "off"
         /\ climate'[c].at = place /\ climate'[c].lapsed = lapsed
         /\ climate'[c].mode = climate[c].mode /\ climate'[c].gate = climate[c].gate
         /\ \A d \in Writes : d # c => climate'[d] = climate[d]
<1>1. climate[c] \in ClimateCalls
  BY DEF ClimateInv, ClimateTypes
<1> DEFINE moved == [climate[c] EXCEPT !.at = place, !.lapsed = lapsed]
<1>2. /\ moved \in ClimateCalls /\ moved.at = place /\ moved.lapsed = lapsed
      /\ moved.mode = climate[c].mode /\ moved.gate = climate[c].gate
  BY <1>1 DEF ClimateCalls
<1> HIDE DEF moved
<1>3. \A d \in Writes : climate'[d] = IF d = c THEN moved ELSE climate[d]
  BY DEF ClimateInv, ClimateTypes, moved
<1>4. climate' \in [Writes -> ClimateCalls]
  BY <1>2 DEF ClimateInv, ClimateTypes, moved
<1> QED
  BY <1>2, <1>3, <1>4 DEF ClimateInv, ClimateTypes

\* Only the place changes.
LEMMA PlaceOnly ==
  ASSUME ClimateInv, NEW c \in Writes, NEW place \in Places, Climate!Goes(c, place)
  PROVE  climate' = [climate EXCEPT ![c] = [climate[c] EXCEPT !.at = place, !.lapsed = climate[c].lapsed]]
<1>1. climate[c] \in ClimateCalls
  BY DEF ClimateInv, ClimateTypes
<1>2. [climate[c] EXCEPT !.at = place, !.lapsed = climate[c].lapsed] = [climate[c] EXCEPT !.at = place]
  BY <1>1 DEF ClimateCalls
<1> QED
  BY <1>2 DEF Climate!Goes, ClimateInv, ClimateTypes

\* A frame of a call: nobody else counts on the unit after it.
LEMMA SendHolds ==
  ASSUME ~RestartSettles, ClimateInv, NEW c \in Writes,
         Climate!SendPowerOff(c) \/ Climate!SendPowerOn(c) \/ Climate!SendMode(c)
  PROVE  ClimateInv'
<1>1. mine' = mine \cap {c} /\ UNCHANGED <<shown, dropped>>
  BY DEF Climate!SendPowerOff, Climate!SendPowerOn, Climate!SendMode
<1>2. c \in mine => CallInv(c)
  BY DEF ClimateInv
<1>3. unit \in [on : BOOLEAN, mode : Climate!Modes, deaf : BOOLEAN]
  BY DEF ClimateInv, ClimateTypes
<1>4. climate[c].lapsed \in BOOLEAN /\ climate[c].mode \in ModesOff
  BY Zenon DEF ClimateInv, ClimateTypes, ClimateCalls
<1>5. CASE Climate!SendPowerOff(c)
  <2>1. climate[c].at = "stopping" /\ Climate!Goes(c, "setting") /\ unit' = [unit EXCEPT !.on = FALSE, !.deaf = FALSE]
    BY <1>5 DEF Climate!SendPowerOff
  <2>2. /\ climate' \in [Writes -> ClimateCalls]
        /\ \A d \in Writes : climate'[d].at \in {"starting", "switching"} => climate'[d].mode # "off"
        /\ climate'[c].at = "setting" /\ climate'[c].mode = climate[c].mode /\ climate'[c].gate = climate[c].gate
    BY <1>4, <2>1, PlaceOnly, MovedOn DEF Places
  <2>3. unit' \in [on : BOOLEAN, mode : Climate!Modes, deaf : BOOLEAN]
    BY <1>3, <2>1
  <2>4. c \in mine => CallInv(c)'
    BY <1>2, <2>1, <2>2 DEF CallInv
  <2> QED
    BY <1>1, <2>2, <2>3, <2>4 DEF ClimateInv, ClimateTypes
<1>6. CASE Climate!SendPowerOn(c)
  <2>1. climate[c].at = "starting" /\ Climate!Goes(c, "switching") /\ climate[c].mode # "off"
    BY <1>6 DEF Climate!SendPowerOn, ClimateInv, ClimateTypes
  <2>2. /\ climate' \in [Writes -> ClimateCalls]
        /\ \A d \in Writes : climate'[d].at \in {"starting", "switching"} => climate'[d].mode # "off"
        /\ climate'[c].at = "switching" /\ climate'[c].mode = climate[c].mode /\ climate'[c].gate = climate[c].gate
    BY <1>4, <2>1, PlaceOnly, MovedOn DEF Places
  <2>3. unit' = [unit EXCEPT !.on = TRUE, !.deaf = unit.deaf \/ (RestartSettles /\ ~unit.on)]
    BY <1>6 DEF Climate!SendPowerOn
  <2>4. /\ unit' \in [on : BOOLEAN, mode : Climate!Modes, deaf : BOOLEAN]
        /\ unit'.on /\ (unit'.deaf => unit.deaf) /\ unit'.mode = unit.mode
    BY <1>3, <2>3
  <2>5. c \in mine => CallInv(c)'
    BY <1>1, <1>2, <2>1, <2>2, <2>4 DEF CallInv, SettledInv
  <2> QED
    BY <1>1, <2>2, <2>4, <2>5 DEF ClimateInv, ClimateTypes
<1>7. CASE Climate!SendMode(c)
  <2>1. climate[c].at = "switching" /\ Climate!Goes(c, "waiting") /\ climate[c].mode \in Climate!Modes
    BY <1>4, <1>7 DEF Climate!SendMode, ClimateInv, ClimateTypes, ModesOff
  <2>2. /\ climate' \in [Writes -> ClimateCalls]
        /\ \A d \in Writes : climate'[d].at \in {"starting", "switching"} => climate'[d].mode # "off"
        /\ climate'[c].at = "waiting" /\ climate'[c].mode = climate[c].mode /\ climate'[c].gate = climate[c].gate
    BY <1>4, <2>1, PlaceOnly, MovedOn DEF Places
  <2>3. CASE unit.on
    <3>1. unit' = [unit EXCEPT !.mode = climate[c].mode, !.deaf = unit.deaf \/ unit.mode # climate[c].mode]
      BY <1>7, <2>3 DEF Climate!SendMode
    <3>2. /\ unit' \in [on : BOOLEAN, mode : Climate!Modes, deaf : BOOLEAN]
          /\ unit'.on /\ (unit'.deaf => unit.deaf \/ unit.mode # climate[c].mode) /\ unit'.mode = climate[c].mode
      BY <1>3, <2>1, <2>3, <3>1
    <3>3. c \in mine => CallInv(c)'
      BY <1>1, <1>2, <2>1, <2>2, <3>2 DEF CallInv, SettledInv, SwitchedInv
    <3> QED
      BY <1>1, <2>2, <3>2, <3>3 DEF ClimateInv, ClimateTypes
  <2>4. CASE ~unit.on
    <3>1. unit' = unit
      BY <1>7, <2>4 DEF Climate!SendMode
    <3>2. c \in mine => CallInv(c)'
      BY <1>1, <1>2, <2>1, <2>2, <2>4, <3>1 DEF CallInv, UntouchedInv
    <3> QED
      BY <1>1, <2>2, <3>1, <3>2 DEF ClimateInv, ClimateTypes
  <2> QED
    BY <2>3, <2>4
<1> QED
  BY <1>5, <1>6, <1>7

\* The wait ends, by the store or by the clock.
LEMMA WaitHolds ==
  ASSUME ClimateInv, NEW c \in Writes, Climate!ModeShown(c) \/ Climate!WaitLapses(c)
  PROVE  ClimateInv'
<1>1. UNCHANGED <<unit, shown, mine, dropped>> /\ climate[c].at = "waiting"
  BY DEF Climate!ModeShown, Climate!WaitLapses
<1>2. climate[c] \in ClimateCalls /\ climate[c].lapsed \in BOOLEAN
  <2>1. climate[c] \in ClimateCalls
    BY DEF ClimateInv, ClimateTypes
  <2> QED
    BY <2>1, Zenon DEF ClimateCalls
<1>3. PICK lapsed \in BOOLEAN :
        /\ climate' = [climate EXCEPT ![c] = [climate[c] EXCEPT !.at = "setting", !.lapsed = lapsed]]
        /\ ~lapsed => shown.mode = climate[c].mode
  <2>1. CASE Climate!ModeShown(c)
    BY <1>2, <2>1, PlaceOnly DEF Climate!ModeShown, Climate!WaitOver, Places
  <2>2. CASE Climate!WaitLapses(c)
    BY <2>2 DEF Climate!WaitLapses, ClimateInv, ClimateTypes
  <2> QED
    BY <2>1, <2>2
<1>4. /\ climate' \in [Writes -> ClimateCalls]
      /\ \A d \in Writes : climate'[d].at \in {"starting", "switching"} => climate'[d].mode # "off"
      /\ climate'[c].at = "setting" /\ climate'[c].lapsed = lapsed
      /\ climate'[c].mode = climate[c].mode /\ climate'[c].gate = climate[c].gate
      /\ \A d \in Writes : d # c => climate'[d] = climate[d]
  BY <1>3, MovedOn DEF Places
<1>5. ASSUME NEW d \in mine PROVE CallInv(d)'
  <2>1. CallInv(d) /\ d \in Writes
    BY DEF ClimateInv, ClimateTypes
  <2>2. CASE d = c
    BY <1>1, <1>3, <1>4, <2>1, <2>2 DEF CallInv, SwitchedInv, UntouchedInv, ReadyInv
  <2>3. CASE d # c
    BY <1>1, <1>4, <2>1, <2>3 DEF CallInv, SettledInv, SwitchedInv, UntouchedInv, ReadyInv
  <2> QED
    BY <2>2, <2>3
<1> QED
  BY <1>1, <1>4, <1>5 DEF ClimateInv, ClimateTypes

\* The set point leaves or a frame is lost: the call rests.
LEMMA EndHolds ==
  ASSUME ClimateInv, NEW c \in Writes, Climate!SendSetpoint(c) \/ Climate!SendFails(c)
  PROVE  ClimateInv'
<1>1. /\ climate' = [climate EXCEPT ![c] = Climate!Resting] /\ mine' = mine \ {c}
      /\ UNCHANGED <<unit, shown>>
  BY DEF Climate!SendSetpoint, Climate!SendFails
<1>2. Climate!Resting \in ClimateCalls /\ Climate!Resting.at = "idle"
  BY DEF Climate!Resting, ClimateCalls, Places, ModesOff
<1>3. /\ climate' \in [Writes -> ClimateCalls]
      /\ \A d \in Writes : climate'[d] = IF d = c THEN Climate!Resting ELSE climate[d]
  BY <1>1, <1>2 DEF ClimateInv, ClimateTypes
<1>4. ClimateTypes'
  BY <1>1, <1>2, <1>3 DEF ClimateInv, ClimateTypes
<1>5. ~dropped'
  <2>1. CASE Climate!SendFails(c)
    BY <2>1 DEF Climate!SendFails, ClimateInv
  <2>2. CASE Climate!SendSetpoint(c)
    <3>1. ASSUME ~Climate!Refused(c), climate[c].gate # "store", c \in mine, ~climate[c].lapsed PROVE Climate!Lands
      <4>1. CallInv(c) /\ climate[c].at = "setting"
        BY <2>2, <3>1 DEF Climate!SendSetpoint, ClimateInv
      <4>2. climate[c].gate = climate[c].mode /\ climate[c].gate \in Climate!WithSetpoint
        BY <3>1, <4>1 DEF CallInv, Climate!Refused, Climate!GateMode
      <4> QED
        BY <3>1, <4>1, <4>2 DEF CallInv, ReadyInv, Climate!Lands
    <3> QED
      BY <2>2, <3>1 DEF Climate!SendSetpoint, ClimateInv
  <2> QED
    BY <2>1, <2>2
<1>6. ASSUME NEW d \in mine' PROVE CallInv(d)'
  <2>1. CallInv(d) /\ climate'[d] = climate[d]
    BY <1>1, <1>3, <1>6 DEF ClimateInv, ClimateTypes
  <2> QED
    BY <1>1, <2>1 DEF CallInv, SettledInv, SwitchedInv, UntouchedInv, ReadyInv
<1> QED
  BY <1>4, <1>5, <1>6 DEF ClimateInv

\* The unit reports, or its owner switches it, under everybody.
LEMMA UnitHolds ==
  ASSUME SettledFirst, ClimateInv,
         Climate!Reports \/ Climate!ReportsRunning
            \/ \E on \in BOOLEAN, m \in Climate!Modes : Climate!OwnerSwitches(on, m)
  PROVE  ClimateInv'
<1>1. /\ unit \in [on : BOOLEAN, mode : Climate!Modes, deaf : BOOLEAN]
      /\ shown \in [on : BOOLEAN, mode : Climate!Modes]
  BY DEF ClimateInv, ClimateTypes
<1>2. CASE Climate!Reports
  <2>1. /\ unit' = [unit EXCEPT !.deaf = FALSE] /\ shown' = [on |-> unit.on, mode |-> unit.mode]
        /\ UNCHANGED <<climate, mine, dropped>>
    BY <1>2 DEF Climate!Reports
  <2>2. /\ unit' \in [on : BOOLEAN, mode : Climate!Modes, deaf : BOOLEAN]
        /\ shown' \in [on : BOOLEAN, mode : Climate!Modes]
        /\ ~unit'.deaf /\ unit'.mode = unit.mode /\ shown'.mode = unit.mode /\ (unit.on => unit'.on)
    BY <1>1, <2>1
  <2>3. ASSUME NEW d \in mine PROVE CallInv(d)'
    <3>1. CallInv(d)
      BY DEF ClimateInv
    <3> QED
      BY <2>1, <2>2, <3>1 DEF CallInv, SettledInv, SwitchedInv, UntouchedInv, ReadyInv
  <2> QED
    BY <2>1, <2>2, <2>3 DEF ClimateInv, ClimateTypes
<1>3. CASE Climate!ReportsRunning
  <2>1. shown' = [shown EXCEPT !.on = unit.on] /\ UNCHANGED <<unit, climate, mine, dropped>>
    BY <1>3 DEF Climate!ReportsRunning
  <2>2. shown' \in [on : BOOLEAN, mode : Climate!Modes] /\ shown'.mode = shown.mode
    BY <1>1, <2>1
  <2>3. ASSUME NEW d \in mine PROVE CallInv(d)'
    <3>1. CallInv(d)
      BY DEF ClimateInv
    <3> QED
      BY <2>1, <2>2, <3>1 DEF CallInv, SettledInv, SwitchedInv, UntouchedInv, ReadyInv
  <2> QED
    BY <2>1, <2>2, <2>3 DEF ClimateInv, ClimateTypes
<1>4. ASSUME NEW on \in BOOLEAN, NEW m \in Climate!Modes, Climate!OwnerSwitches(on, m) PROVE ClimateInv'
  <2>1. /\ unit' = [on |-> on, mode |-> m, deaf |-> ~SettledFirst /\ on /\ (unit.deaf \/ m # unit.mode)]
        /\ shown' = [on |-> on, mode |-> m] /\ mine' = {} /\ UNCHANGED <<climate, dropped>>
    BY <1>4 DEF Climate!OwnerSwitches
  <2> QED
    BY <2>1 DEF ClimateInv, ClimateTypes
<1> QED
  BY <1>2, <1>3, <1>4

LEMMA ClimateStepHolds ==
  ASSUME SettledFirst, ~RestartSettles, ClimateInv, Climate!ClimateNext PROVE ClimateInv'
<1>1. ASSUME NEW c \in Writes, NEW m \in ModesOff, Climate!SetTemperature(c, m) PROVE ClimateInv'
  BY <1>1, StartHolds
<1> QED
  BY <1>1, SendHolds, WaitHolds, EndHolds, UnitHolds DEF Climate!ClimateNext, ModesOff

-----------------------------------------------------------------------------
(* TaskWrites.  Only the owner's tasks are never renumbered: whatever is lost  *)
(* or late, a frame and the view name an owner's task as it is, or a number no *)
(* owner's task has (OwnersInv).  Unless a send failed, the view says of each  *)
(* kind what the device will have once the removals under way are done         *)
(* (Agrees), and a task is added only when nothing will be left (DayInv).      *)

TaskFrame == [op : {"remove", "update", "add"}, task : Tasks!Task]
TaskCalls == [at : {"idle", "removing", "writing"}, kind : Tasks!Kinds, frame : TaskFrame \cup {<<>>}]
KindView == [count : Nat, settable : Nat, day : BOOLEAN, slot : 0..MaxSlot]
Views == [slotMax : 0..MaxSlot, of : [Tasks!Kinds -> KindView]]

TaskTypes ==
    /\ tasks \subseteq Tasks!Task /\ IsFiniteSet(tasks)
    /\ view \in Views
    /\ taskFrames \in Seq(TaskFrame)
    /\ taskWrite \in [Writes -> TaskCalls]

TaskLockInv ==
    \A c \in Writes :
        /\ taskWrite[c].at # "idle" <=> holder = c
        /\ taskWrite[c].at # "idle" =>
              /\ taskWrite[c].frame \in TaskFrame /\ taskWrite[c].frame.op \in {"update", "add"}
              /\ taskWrite[c].frame.task.kind = taskWrite[c].kind

\* What a frame or the view may say of a number.
NotOwned(slot) == \A t \in tasks : ~t.day => t.slot # slot
Keeps(f) == IF f.op = "update" /\ ~f.task.day THEN f.task \in tasks ELSE NotOwned(f.task.slot)
Known(k) == view.of[k].settable = 1 /\ view.of[k].slot # 0
TaskOf(k) == [kind |-> k, day |-> view.of[k].day, solar |-> FALSE, slot |-> view.of[k].slot]

OwnersInv ==
    /\ \A t, u \in tasks : ~t.day /\ t.slot = u.slot => t = u
    /\ \A i \in DOMAIN taskFrames :
          Keeps(taskFrames[i]) /\ (taskFrames[i].op = "add" => taskFrames[i].task.day)
    /\ \A c \in Writes : taskWrite[c].at # "idle" =>
          /\ Keeps(taskWrite[c].frame)
          /\ taskWrite[c].frame.op = "add" =>
                taskWrite[c].frame.task.day /\ \A t \in tasks : ~t.day => t.slot <= taskWrite[c].frame.task.slot
    /\ \A t \in tasks : ~t.day => t.slot <= view.slotMax
    /\ \A k \in Tasks!Kinds : Known(k) => Keeps([op |-> "update", task |-> TaskOf(k)])

\* A number whose removal is under way.
Gone(slot) == \E i \in DOMAIN taskFrames : taskFrames[i].op = "remove" /\ taskFrames[i].task.slot = slot

Agrees(k) ==
    LET of == view.of[k]
    IN  /\ Known(k) => TaskOf(k) \in tasks /\ ~Gone(of.slot)
        /\ of.count = 1 => \A t, u \in tasks :
                t.kind = k /\ u.kind = k /\ ~Gone(t.slot) /\ ~Gone(u.slot) => t = u
        /\ of.count = 0 => of.settable = 0 /\ \A t \in tasks : t.kind = k => Gone(t.slot)

\* After an add nothing more is written before the next list.
Waits(k) ==
    /\ view.of[k].count = 1 /\ view.of[k].settable = 1 /\ view.of[k].day /\ view.of[k].slot = 0
    /\ view.of[Tasks!Other(k)].settable # 1

FramesInv ==
    \A i \in DOMAIN taskFrames :
        /\ taskFrames[i].op = "update" =>
              /\ taskFrames[i].task \in tasks
              /\ \A j \in DOMAIN taskFrames :
                    j < i /\ taskFrames[j].op = "remove" => taskFrames[j].task.slot # taskFrames[i].task.slot
        /\ taskFrames[i].op = "add" => i = Len(taskFrames) /\ \A t \in tasks : Gone(t.slot)

\* What the view says while the lock is free, and while each step of a call is out.
FreeInv ==
    holder = NoWrite =>
        /\ \A k \in Tasks!Kinds : Agrees(k)
        /\ \A i \in DOMAIN taskFrames : taskFrames[i].op = "add" => Waits(taskFrames[i].task.kind)

RemovingInv(c) ==
    LET k == taskWrite[c].kind
        f == taskWrite[c].frame
    IN  /\ Agrees(k)
        /\ \A t \in tasks : t.kind # k => Gone(t.slot)
        /\ f.op = "update" => f.task \in tasks /\ ~Gone(f.task.slot)
        /\ f.op = "add" => \A t \in tasks : Gone(t.slot)
        /\ \A i \in DOMAIN taskFrames : taskFrames[i].op # "add"

UpdatingInv ==
    /\ \A k \in Tasks!Kinds : Agrees(k)
    /\ \A i \in DOMAIN taskFrames : taskFrames[i].op # "add"

AddingInv(c) ==
    LET f == taskWrite[c].frame
        o == Tasks!Other(taskWrite[c].kind)
    IN  /\ Agrees(o) /\ view.of[o].settable # 1
        /\ \A t \in tasks : Gone(t.slot) \/ t = f.task
        /\ \A i \in DOMAIN taskFrames : taskFrames[i].op = "add" => taskFrames[i].task = f.task

CallsInv ==
    \A c \in Writes :
        /\ taskWrite[c].at = "removing" => RemovingInv(c)
        /\ taskWrite[c].at = "writing" /\ taskWrite[c].frame.op = "update" => UpdatingInv
        /\ taskWrite[c].at = "writing" /\ taskWrite[c].frame.op = "add" => AddingInv(c)

DaysInv == \A t, u \in tasks : t.day /\ u.day => t = u
DayInv == ~taskUnsure => DaysInv /\ FramesInv /\ FreeInv /\ CallsInv

TaskInv == TaskTypes /\ TaskLockInv /\ OwnersInv /\ DayInv

-----------------------------------------------------------------------------
\* A non-empty set of numbers has a least one, and a bounded one a greatest.
LEMMA NatHasMin ==
  ASSUME NEW T \in SUBSET Nat, T # {}
  PROVE  \E x \in T : \A y \in T : x <= y
<1>1. PICK x \in T : \A y \in T : ~(<<y, x>> \in OpToRel(<, Nat))
  BY NatLessThanWellFounded, WFMin
<1>2. \A y \in T : ~(y < x)
  BY <1>1 DEF OpToRel
<1> QED
  BY <1>2

LEMMA MaxFacts ==
  ASSUME NEW n \in Nat, NEW T \in SUBSET (0..n), T # {}
  PROVE  Tasks!Max(T) \in T /\ \A y \in T : y <= Tasks!Max(T)
<1> DEFINE M == {n - x : x \in T}
<1>1. T \subseteq Int /\ \A x \in T : n - x \in Nat
  OBVIOUS
<1>2. M \in SUBSET Nat /\ M # {}
  BY <1>1
<1>3. PICK m \in M : \A y \in M : m <= y
  BY <1>2, NatHasMin
<1>4. PICK x \in T : m = n - x
  OBVIOUS
<1>5. \A y \in T : x >= y
  <2> TAKE y \in T
  <2>1. n - y \in M
    OBVIOUS
  <2>2. n - x <= n - y
    BY <1>3, <1>4, <2>1
  <2> QED
    BY <1>1, <2>2
<1> QED
  BY <1>5 DEF Tasks!Max

\* The instance counts as the library does.
LEMMA SameCardinality == ASSUME NEW T PROVE Tasks!Cardinality(T) = Cardinality(T)
  BY DEF Cardinality, Tasks!Cardinality

LEMMA CountFacts ==
  ASSUME NEW T, IsFiniteSet(T)
  PROVE  /\ Cardinality(T) \in Nat
         /\ Cardinality(T) = 0 <=> T = {}
         /\ Cardinality(T) = 1 <=> \E t : T = {t}
  BY FS_CardinalityType, FS_EmptySet, FS_Singleton

\* What the keys of a kind say of a list (_finalize_task).
LEMMA ViewFacts ==
  ASSUME NEW T \in SUBSET Tasks!Task, IsFiniteSet(T)
  PROVE  /\ Tasks!ViewOf(T) \in Views
         /\ \A t \in T : t.slot <= Tasks!ViewOf(T).slotMax
         /\ \A k \in Tasks!Kinds :
               /\ Tasks!ViewOf(T).of[k].count = 0 =>
                     Tasks!ViewOf(T).of[k].settable = 0 /\ \A t \in T : t.kind # k
               /\ Tasks!ViewOf(T).of[k].count = 1 => \A t, u \in T : t.kind = k /\ u.kind = k => t = u
               /\ Tasks!ViewOf(T).of[k].settable = 1 =>
                     [kind |-> k, day |-> Tasks!ViewOf(T).of[k].day, solar |-> FALSE,
                      slot |-> Tasks!ViewOf(T).of[k].slot] \in T
<1> DEFINE Slots == {0} \cup {t.slot : t \in T}
           Of(k) == {t \in T : t.kind = k}
           Some(k) == {t \in T : t.kind = k /\ ~t.solar}
           day(k) == Tasks!Cardinality(Some(k)) = 1 /\ \A t \in Some(k) : t.day
           slot(k) == IF Tasks!Cardinality(Some(k)) = 1 THEN Tasks!Max({t.slot : t \in Some(k)}) ELSE 0
           kv(k) == [count |-> Tasks!Cardinality(Of(k)), settable |-> Tasks!Cardinality(Some(k)),
                     day |-> day(k), slot |-> slot(k)]
<1>1. \A t \in T : t.slot \in 1..MaxSlot /\ t.day \in BOOLEAN /\ t.solar \in BOOLEAN
  BY DEF Tasks!Task
<1>2. Tasks!Max(Slots) \in 0..MaxSlot /\ \A t \in T : t.slot <= Tasks!Max(Slots)
  <2>1. Slots \in SUBSET (0..MaxSlot) /\ Slots # {}
    BY <1>1, DeviceAssumption
  <2>2. Tasks!Max(Slots) \in Slots /\ \A y \in Slots : y <= Tasks!Max(Slots)
    BY <2>1, MaxFacts, DeviceAssumption
  <2> QED
    BY <2>1, <2>2
<1>3. Tasks!ViewOf(T) = [slotMax |-> Tasks!Max(Slots), of |-> [k \in Tasks!Kinds |-> kv(k)]]
  BY DEF Tasks!ViewOf, Tasks!Settable
<1>4. ASSUME NEW k \in Tasks!Kinds
      PROVE  /\ kv(k) \in KindView
             /\ kv(k).count = 0 => kv(k).settable = 0 /\ \A t \in T : t.kind # k
             /\ kv(k).count = 1 => \A t, u \in T : t.kind = k /\ u.kind = k => t = u
             /\ kv(k).settable = 1 => [kind |-> k, day |-> kv(k).day, solar |-> FALSE, slot |-> kv(k).slot] \in T
  <2>1. /\ IsFiniteSet(Of(k)) /\ IsFiniteSet(Some(k)) /\ Some(k) \subseteq Of(k)
    BY FS_Subset
  <2>2. /\ kv(k).count = Cardinality(Of(k)) /\ kv(k).settable = Cardinality(Some(k))
        /\ kv(k).day = day(k) /\ kv(k).slot = slot(k)
    BY SameCardinality
  <2>3. /\ kv(k).count \in Nat /\ kv(k).settable \in Nat
        /\ kv(k).count = 0 <=> Of(k) = {}
        /\ kv(k).settable = 0 <=> Some(k) = {}
        /\ kv(k).count = 1 <=> \E t : Of(k) = {t}
        /\ kv(k).settable = 1 <=> \E t : Some(k) = {t}
    <3>1. /\ Cardinality(Of(k)) \in Nat /\ (Cardinality(Of(k)) = 0 <=> Of(k) = {})
          /\ Cardinality(Of(k)) = 1 <=> \E t : Of(k) = {t}
      <4> HIDE DEF Of
      <4> QED
        BY <2>1, CountFacts
    <3>2. /\ Cardinality(Some(k)) \in Nat /\ (Cardinality(Some(k)) = 0 <=> Some(k) = {})
          /\ Cardinality(Some(k)) = 1 <=> \E t : Some(k) = {t}
      <4> HIDE DEF Some
      <4> QED
        BY <2>1, CountFacts
    <3> HIDE DEF kv, Of, Some
    <3> QED
      BY <2>2, <3>1, <3>2
  <2>4. kv(k).settable # 1 => slot(k) = 0
    OBVIOUS
  <2>5. ASSUME kv(k).settable = 1
        PROVE  /\ slot(k) \in 1..MaxSlot
               /\ [kind |-> k, day |-> day(k), solar |-> FALSE, slot |-> slot(k)] \in T
    <3>1. PICK t : Some(k) = {t}
      BY <2>3, <2>5
    <3>2. t \in T /\ t.kind = k /\ ~t.solar /\ t.slot \in 1..MaxSlot /\ t.day \in BOOLEAN /\ t.solar = FALSE
      BY <1>1, <3>1
    <3>3. {x.slot : x \in Some(k)} = {t.slot}
      BY <3>1
    <3>4. Tasks!Max({t.slot}) = t.slot
      BY <3>2 DEF Tasks!Max
    <3>5. slot(k) = t.slot
      BY <2>5, <3>3, <3>4
    <3>6. day(k) = t.day
      <4>1. Tasks!Cardinality(Some(k)) = 1
        BY <2>5
      <4>2. (\A x \in Some(k) : x.day) <=> t.day
        BY <3>1
      <4> QED
        BY <3>2, <4>1, <4>2
    <3>7. t = [kind |-> t.kind, day |-> t.day, solar |-> t.solar, slot |-> t.slot]
      BY <3>2 DEF Tasks!Task
    <3> QED
      BY <3>2, <3>5, <3>6, <3>7
  <2>6. day(k) \in BOOLEAN
    OBVIOUS
  <2>7. kv(k) \in KindView
    BY <2>2, <2>3, <2>4, <2>5, <2>6, DeviceAssumption DEF KindView
  <2> QED
    BY <2>1, <2>2, <2>3, <2>5, <2>7
<1> HIDE DEF kv, Slots
<1>5. Tasks!ViewOf(T).slotMax = Tasks!Max(Slots) /\ \A k \in Tasks!Kinds : Tasks!ViewOf(T).of[k] = kv(k)
  BY <1>3
<1>6. Tasks!ViewOf(T) \in Views
  <2>1. [k \in Tasks!Kinds |-> kv(k)] \in [Tasks!Kinds -> KindView]
    BY <1>4
  <2> QED
    BY <1>2, <1>3, <2>1 DEF Views
<1> HIDE DEF Of, Some, day, slot
<1>7. ASSUME NEW k \in Tasks!Kinds
      PROVE  /\ Tasks!ViewOf(T).of[k].count = 0 =>
                   Tasks!ViewOf(T).of[k].settable = 0 /\ \A t \in T : t.kind # k
             /\ Tasks!ViewOf(T).of[k].count = 1 => \A t, u \in T : t.kind = k /\ u.kind = k => t = u
             /\ Tasks!ViewOf(T).of[k].settable = 1 =>
                   [kind |-> k, day |-> Tasks!ViewOf(T).of[k].day, solar |-> FALSE,
                    slot |-> Tasks!ViewOf(T).of[k].slot] \in T
  <2>1. Tasks!ViewOf(T).of[k] = kv(k)
    BY <1>5
  <2>2. /\ kv(k).count = 0 => kv(k).settable = 0 /\ \A t \in T : t.kind # k
        /\ kv(k).count = 1 => \A t, u \in T : t.kind = k /\ u.kind = k => t = u
        /\ kv(k).settable = 1 => [kind |-> k, day |-> kv(k).day, solar |-> FALSE, slot |-> kv(k).slot] \in T
    BY <1>4
  <2> QED
    BY <2>1, <2>2, Zenon
<1> QED
  BY <1>2, <1>5, <1>6, <1>7, Zenon

\* A frame sent, and one taken.
LEMMA Appended ==
  ASSUME taskFrames \in Seq(TaskFrame), NEW f \in TaskFrame, taskFrames' = Append(taskFrames, f)
  PROVE  /\ taskFrames' \in Seq(TaskFrame)
         /\ Len(taskFrames') = Len(taskFrames) + 1 /\ Len(taskFrames) \in Nat
         /\ taskFrames'[Len(taskFrames')] = f /\ Len(taskFrames') \in DOMAIN taskFrames'
         /\ \A i \in DOMAIN taskFrames : i \in DOMAIN taskFrames' /\ taskFrames'[i] = taskFrames[i] /\ i < Len(taskFrames')
         /\ \A i \in DOMAIN taskFrames' :
               i \in Nat /\ i <= Len(taskFrames') /\ (i \in DOMAIN taskFrames \/ i = Len(taskFrames'))
         /\ \A x : Gone(x)' <=> Gone(x) \/ (f.op = "remove" /\ f.task.slot = x)
<1>1. /\ taskFrames' \in Seq(TaskFrame) /\ Len(taskFrames) \in Nat
      /\ Len(taskFrames') = Len(taskFrames) + 1
      /\ taskFrames'[Len(taskFrames')] = f /\ Len(taskFrames') \in DOMAIN taskFrames'
      /\ \A i \in DOMAIN taskFrames : i \in DOMAIN taskFrames' /\ taskFrames'[i] = taskFrames[i] /\ i < Len(taskFrames')
      /\ \A i \in DOMAIN taskFrames' :
            i \in Nat /\ i <= Len(taskFrames') /\ (i \in DOMAIN taskFrames \/ i = Len(taskFrames'))
  OBVIOUS
<1>2. ASSUME NEW x PROVE Gone(x)' <=> Gone(x) \/ (f.op = "remove" /\ f.task.slot = x)
  BY <1>1 DEF Gone
<1> QED
  BY <1>1, <1>2

LEMMA Taken ==
  ASSUME taskFrames \in Seq(TaskFrame), taskFrames # <<>>, taskFrames' = Tail(taskFrames)
  PROVE  /\ taskFrames' \in Seq(TaskFrame) /\ 1 \in DOMAIN taskFrames
         /\ Head(taskFrames) = taskFrames[1] /\ taskFrames[1] \in TaskFrame
         /\ Len(taskFrames) = Len(taskFrames') + 1 /\ Len(taskFrames') \in Nat
         /\ \A i \in DOMAIN taskFrames' :
               i \in Nat /\ i + 1 \in DOMAIN taskFrames /\ taskFrames'[i] = taskFrames[i + 1] /\ 1 < i + 1
         /\ \A x : Gone(x) <=> Gone(x)' \/ (taskFrames[1].op = "remove" /\ taskFrames[1].task.slot = x)
<1>1. /\ taskFrames' \in Seq(TaskFrame) /\ 1 \in DOMAIN taskFrames
      /\ Head(taskFrames) = taskFrames[1] /\ taskFrames[1] \in TaskFrame
      /\ Len(taskFrames) = Len(taskFrames') + 1 /\ Len(taskFrames') \in Nat
      /\ \A i \in DOMAIN taskFrames' :
            i \in Nat /\ i + 1 \in DOMAIN taskFrames /\ taskFrames'[i] = taskFrames[i + 1] /\ 1 < i + 1
      /\ \A i \in DOMAIN taskFrames : i = 1 \/ (i - 1 \in DOMAIN taskFrames' /\ taskFrames'[i - 1] = taskFrames[i])
  OBVIOUS
<1>2. ASSUME NEW x PROVE Gone(x) <=> Gone(x)' \/ (taskFrames[1].op = "remove" /\ taskFrames[1].task.slot = x)
  <2>1. ASSUME Gone(x) PROVE Gone(x)' \/ (taskFrames[1].op = "remove" /\ taskFrames[1].task.slot = x)
    <3>1. PICK i \in DOMAIN taskFrames : taskFrames[i].op = "remove" /\ taskFrames[i].task.slot = x
      BY <2>1 DEF Gone
    <3>2. CASE i # 1
      <4>1. i - 1 \in DOMAIN taskFrames' /\ taskFrames'[i - 1] = taskFrames[i]
        BY <1>1, <3>2
      <4> QED
        BY <3>1, <4>1 DEF Gone
    <3> QED
      BY <3>1, <3>2
  <2>2. ASSUME Gone(x)' PROVE Gone(x)
    BY <1>1, <2>2 DEF Gone
  <2> QED
    BY <1>1, <2>1, <2>2 DEF Gone
<1> QED
  BY <1>1, <1>2

LEMMA ViewParts ==
  ASSUME TaskTypes, NEW k \in Tasks!Kinds
  PROVE  /\ view.slotMax \in 0..MaxSlot /\ view.of[k] \in KindView
         /\ view.of[k].count \in Nat /\ view.of[k].settable \in Nat
         /\ view.of[k].day \in BOOLEAN /\ view.of[k].slot \in 0..MaxSlot
<1>1. view \in Views
  BY DEF TaskTypes
<1>2. view.slotMax \in 0..MaxSlot /\ view.of[k] \in KindView
  BY <1>1 DEF Views
<1> QED
  BY <1>2, Zenon DEF KindView

LEMMA TaskCallParts ==
  ASSUME TaskTypes, NEW c \in Writes
  PROVE  /\ taskWrite[c] \in TaskCalls /\ taskWrite[c].at \in {"idle", "removing", "writing"}
         /\ taskWrite[c].kind \in Tasks!Kinds
<1>1. taskWrite[c] \in TaskCalls
  BY DEF TaskTypes
<1> QED
  BY <1>1, Zenon DEF TaskCalls

LEMMA TaskParts ==
  ASSUME TaskTypes, NEW t \in tasks
  PROVE  t \in Tasks!Task /\ t.kind \in Tasks!Kinds /\ t.day \in BOOLEAN /\ t.slot \in 1..MaxSlot
<1>1. t \in Tasks!Task
  BY DEF TaskTypes
<1> QED
  BY <1>1, Zenon DEF Tasks!Task

LEMMA OtherKind ==
  ASSUME NEW k \in Tasks!Kinds
  PROVE  /\ Tasks!Other(k) \in Tasks!Kinds /\ Tasks!Other(k) # k
         /\ \A q \in Tasks!Kinds : q = k \/ q = Tasks!Other(k)
         /\ Tasks!Other(Tasks!Other(k)) = k
  BY DEF Tasks!Other, Tasks!Kinds

\* With no frame under way, a list the device sends says how it is.
LEMMA Listed ==
  ASSUME tasks' \in SUBSET Tasks!Task, IsFiniteSet(tasks'), view' = Tasks!ViewOf(tasks'), taskFrames' = <<>>,
         \A t, u \in tasks' : ~t.day /\ t.slot = u.slot => t = u
  PROVE  /\ view' \in Views
         /\ \A t \in tasks' : t.slot <= view'.slotMax
         /\ \A k \in Tasks!Kinds : (Known(k) => Keeps([op |-> "update", task |-> TaskOf(k)]))' /\ Agrees(k)'
<1>1. view' \in Views /\ \A t \in tasks' : t.slot <= view'.slotMax
  BY ViewFacts
<1>2. ASSUME NEW k \in Tasks!Kinds
      PROVE  /\ view'.of[k].count = 0 => view'.of[k].settable = 0 /\ \A t \in tasks' : t.kind # k
             /\ view'.of[k].count = 1 => \A t, u \in tasks' : t.kind = k /\ u.kind = k => t = u
             /\ view'.of[k].settable = 1 => TaskOf(k)' \in tasks'
  BY ViewFacts DEF TaskOf
<1>3. \A x : ~Gone(x)'
  BY DEF Gone
<1>4. ASSUME NEW k \in Tasks!Kinds PROVE Agrees(k)'
  BY <1>2, <1>3 DEF Agrees, Known
<1>5. ASSUME NEW k \in Tasks!Kinds, Known(k)' PROVE Keeps([op |-> "update", task |-> TaskOf(k)])'
  <2>1. TaskOf(k)' \in tasks'
    BY <1>2, <1>5 DEF Known
  <2>2. CASE ~TaskOf(k)'.day
    BY <2>1, <2>2 DEF Keeps
  <2>3. CASE TaskOf(k)'.day
    <3>1. \A t \in tasks' : ~t.day => t.slot # TaskOf(k)'.slot
      BY <2>1, <2>3
    <3> QED
      BY <2>3, <3>1 DEF Keeps, NotOwned
  <2> QED
    BY <2>2, <2>3
<1> QED
  BY <1>1, <1>4, <1>5

LEMMA TaskInitHolds == ASSUME Tasks!Init PROVE TaskInv
<1>1. /\ view = Tasks!ViewOf(tasks) /\ taskFrames = <<>> /\ holder = NoWrite
      /\ taskWrite = [c \in Writes |-> Tasks!Idle] /\ ~taskUnsure
  BY DEF Tasks!Init
<1>2. tasks \subseteq Tasks!Task /\ IsFiniteSet(tasks) /\ \A t, u \in tasks : t = u /\ ~t.day
  BY FS_EmptySet, FS_Singleton DEF Tasks!Init, Tasks!OwnersTask
<1>3. /\ view \in Views
      /\ \A t \in tasks : t.slot <= view.slotMax
      /\ \A k \in Tasks!Kinds :
            /\ view.of[k].count = 0 => view.of[k].settable = 0 /\ \A t \in tasks : t.kind # k
            /\ view.of[k].settable = 1 => TaskOf(k) \in tasks
  BY <1>1, <1>2, ViewFacts DEF TaskOf
<1>4. TaskTypes
  BY <1>1, <1>2, <1>3 DEF TaskTypes, TaskCalls, Tasks!Idle, Tasks!Kinds
<1>5. \A c \in Writes : taskWrite[c].at = "idle"
  BY <1>1 DEF Tasks!Idle
<1>6. TaskLockInv
  BY <1>1, <1>5, Ocean2Assumption DEF TaskLockInv
<1>7. \A x : ~Gone(x)
  BY <1>1 DEF Gone
<1>8. OwnersInv
  <2>1. ASSUME NEW k \in Tasks!Kinds, Known(k) PROVE Keeps([op |-> "update", task |-> TaskOf(k)])
    <3>1. TaskOf(k) \in tasks
      BY <1>3, <2>1 DEF Known
    <3> QED
      BY <1>2, <3>1 DEF Keeps
  <2> QED
    BY <1>1, <1>2, <1>3, <1>5, <2>1 DEF OwnersInv
<1>9. \A k \in Tasks!Kinds : Agrees(k)
  BY <1>2, <1>3, <1>7 DEF Agrees, Known
<1> QED
  BY <1>1, <1>2, <1>4, <1>5, <1>6, <1>8, <1>9 DEF TaskInv, DayInv, DaysInv, FramesInv, FreeInv, CallsInv

\* What a power write finds and sends.
LEMMA PowerFacts ==
  ASSUME TaskTypes, OwnersInv, NEW k \in Tasks!Kinds, Tasks!Allowed(k)
  PROVE  LET p == Tasks!PowerFrame(k)
             o == Tasks!Other(k)
         IN  /\ p \in TaskFrame /\ p.op \in {"update", "add"} /\ p.task.kind = k /\ Keeps(p)
             /\ p.op = "add" => /\ p.task.day /\ \A t \in tasks : ~t.day => t.slot <= p.task.slot
                                /\ view.of[k].count = 0 /\ (view.of[o].count = 0 \/ Tasks!OtherDay(k))
             /\ p.op = "update" => Known(k) /\ p.task = TaskOf(k)
             /\ Tasks!OtherDay(k) => Known(o) /\ view.of[o].count = 1 /\ view.of[o].day
<1> DEFINE o == Tasks!Other(k)
           p == Tasks!PowerFrame(k)
<1>1. /\ view.of[k].slot \in 0..MaxSlot /\ view.slotMax \in 0..MaxSlot /\ view.of[k].day \in BOOLEAN
      /\ view.of[k].settable \in Nat /\ MaxSlot \in Nat
  BY ViewParts, DeviceAssumption
<1>2. Tasks!OtherDay(k) => Known(o) /\ view.of[o].count = 1 /\ view.of[o].day
  BY DEF Tasks!Allowed, Tasks!OtherDay, Known
<1>3. CASE view.of[k].settable = 1
  <2>1. Known(k)
    BY <1>3 DEF Tasks!Allowed, Known
  <2>2. p = [op |-> "update", task |-> TaskOf(k)]
    BY <1>3 DEF Tasks!PowerFrame, Tasks!Frame, TaskOf
  <2>3. TaskOf(k) \in Tasks!Task
    BY <1>1, <2>1 DEF TaskOf, Tasks!Task, Known
  <2>4. p \in TaskFrame /\ p.op = "update" /\ p.task = TaskOf(k) /\ p.task.kind = k
    BY <2>2, <2>3 DEF TaskFrame, TaskOf
  <2>5. Keeps(p)
    BY <2>1, <2>2 DEF OwnersInv
  <2> QED
    BY <1>2, <2>1, <2>4, <2>5
<1>4. CASE view.of[k].settable # 1
  <2>1. p = [op |-> "add", task |-> [kind |-> k, day |-> TRUE, solar |-> FALSE, slot |-> view.slotMax + 1]]
    BY <1>4 DEF Tasks!PowerFrame, Tasks!Frame
  <2>2. view.slotMax < MaxSlot /\ view.of[k].count = 0 /\ (view.of[o].count = 0 \/ Tasks!OtherDay(k))
    BY <1>4 DEF Tasks!Allowed
  <2>3. [kind |-> k, day |-> TRUE, solar |-> FALSE, slot |-> view.slotMax + 1] \in Tasks!Task
    BY <1>1, <2>2 DEF Tasks!Task
  <2>4. p \in TaskFrame /\ p.op = "add" /\ p.task.kind = k /\ p.task.day /\ p.task.slot = view.slotMax + 1
    BY <2>1, <2>3 DEF TaskFrame
  <2>5. \A t \in tasks : ~t.day => t.slot <= view.slotMax /\ t.slot \in Nat
    BY TaskParts DEF OwnersInv
  <2>6. \A t \in tasks : ~t.day => t.slot <= p.task.slot /\ t.slot # p.task.slot
    BY <1>1, <2>4, <2>5
  <2>7. Keeps(p)
    BY <2>4, <2>6 DEF Keeps, NotOwned
  <2> QED
    BY <1>2, <2>2, <2>4, <2>6, <2>7
<1> QED
  BY <1>3, <1>4

\* A kind no frame has removed is told apart from the other by its number.
LEMMA ApartInView ==
  ASSUME TaskTypes, OwnersInv, DaysInv, NEW t \in tasks, NEW u \in tasks, t.slot = u.slot
  PROVE  t = u
  BY TaskParts DEF OwnersInv, DaysInv

\* While an add is on its way no call is let through.
LEMMA NothingAdded ==
  ASSUME TaskTypes, FreeInv, holder = NoWrite, NEW k \in Tasks!Kinds, Tasks!Allowed(k), NEW i \in DOMAIN taskFrames
  PROVE  taskFrames[i].op # "add"
<1> SUFFICES ASSUME taskFrames[i].op = "add" PROVE FALSE
  OBVIOUS
<1>1. taskFrames[i] \in TaskFrame
  BY DEF TaskTypes
<1>2. taskFrames[i].task.kind \in Tasks!Kinds
  BY <1>1 DEF TaskFrame, Tasks!Task
<1>3. Waits(taskFrames[i].task.kind)
  BY DEF FreeInv
<1>4. CASE taskFrames[i].task.kind = k
  BY <1>3, <1>4 DEF Waits, Tasks!Allowed
<1>5. CASE taskFrames[i].task.kind = Tasks!Other(k)
  BY <1>3, <1>5 DEF Waits, Tasks!Allowed, Tasks!OtherDay
<1> QED
  BY <1>2, <1>4, <1>5, OtherKind

\* What a frame sent leaves of the order of the frames.
LEMMA FrameSent ==
  ASSUME TaskTypes, FramesInv, \A i \in DOMAIN taskFrames : taskFrames[i].op # "add",
         NEW f \in TaskFrame, taskFrames' = Append(taskFrames, f), tasks' = tasks,
         f.op = "update" => f.task \in tasks /\ ~Gone(f.task.slot),
         f.op = "add" => \A t \in tasks : Gone(t.slot)
  PROVE  FramesInv'
<1>1. /\ Len(taskFrames') = Len(taskFrames) + 1 /\ Len(taskFrames) \in Nat
      /\ taskFrames'[Len(taskFrames')] = f
      /\ \A i \in DOMAIN taskFrames : taskFrames'[i] = taskFrames[i] /\ i < Len(taskFrames')
      /\ \A i \in DOMAIN taskFrames' :
            i \in Nat /\ i <= Len(taskFrames') /\ (i \in DOMAIN taskFrames \/ i = Len(taskFrames'))
      /\ \A x : Gone(x) => Gone(x)'
  BY Appended DEF TaskTypes
<1> SUFFICES ASSUME NEW i \in DOMAIN taskFrames'
             PROVE  /\ taskFrames'[i].op = "update" =>
                       /\ taskFrames'[i].task \in tasks
                       /\ \A j \in DOMAIN taskFrames' :
                             j < i /\ taskFrames'[j].op = "remove" => taskFrames'[j].task.slot # taskFrames'[i].task.slot
                    /\ taskFrames'[i].op = "add" => i = Len(taskFrames') /\ \A t \in tasks : Gone(t.slot)
  BY <1>1 DEF FramesInv
<1>2. CASE i \in DOMAIN taskFrames
  <2>1. \A j \in DOMAIN taskFrames' : j < i => j \in DOMAIN taskFrames
    BY <1>1, <1>2
  <2> QED
    BY <1>1, <1>2, <2>1 DEF FramesInv
<1>3. CASE i = Len(taskFrames')
  <2>1. ASSUME f.op = "update", NEW j \in DOMAIN taskFrames', j < i, taskFrames'[j].op = "remove"
        PROVE  taskFrames'[j].task.slot # f.task.slot
    <3>1. j \in DOMAIN taskFrames /\ taskFrames[j] = taskFrames'[j]
      BY <1>1, <1>3, <2>1
    <3> QED
      BY <2>1, <3>1 DEF Gone
  <2> QED
    BY <1>1, <1>3, <2>1
<1> QED
  BY <1>1, <1>2, <1>3

\* A power write begins: the frame that removes the other kind's task, or the one that sets.
LEMMA SetPowerHolds ==
  ASSUME TaskInv, NEW c \in Writes, NEW k \in Tasks!Kinds, Tasks!SetPower(c, k)
  PROVE  TaskInv'
<1> DEFINE o == Tasks!Other(k)
           p == Tasks!PowerFrame(k)
           r == Tasks!Frame("remove", o, TRUE, view.of[o].slot)
           new(place) == [at |-> place, kind |-> k, frame |-> p]
<1>1. /\ taskWrite[c].at = "idle" /\ holder = NoWrite /\ holder' = c /\ Tasks!Allowed(k)
      /\ UNCHANGED <<view, tasks, taskUnsure>>
      /\ Tasks!OtherDay(k) => /\ taskWrite' = [taskWrite EXCEPT ![c] = new("removing")]
                              /\ taskFrames' = Append(taskFrames, r)
      /\ ~Tasks!OtherDay(k) => /\ taskWrite' = [taskWrite EXCEPT ![c] = new("writing")]
                               /\ taskFrames' = Append(taskFrames, p)
  BY DEF Tasks!SetPower
<1>2. TaskTypes /\ TaskLockInv /\ OwnersInv
  BY DEF TaskInv
<1>3. /\ p \in TaskFrame /\ p.op \in {"update", "add"} /\ p.task.kind = k /\ Keeps(p)
      /\ p.op = "add" => /\ p.task.day /\ \A t \in tasks : ~t.day => t.slot <= p.task.slot
                         /\ view.of[k].count = 0 /\ (view.of[o].count = 0 \/ Tasks!OtherDay(k))
      /\ p.op = "update" => Known(k) /\ p.task = TaskOf(k)
      /\ Tasks!OtherDay(k) => Known(o) /\ view.of[o].count = 1 /\ view.of[o].day
  BY <1>1, <1>2, PowerFacts
<1>4. o \in Tasks!Kinds /\ o # k /\ \A q \in Tasks!Kinds : q = k \/ q = o
  BY OtherKind
<1>5. Tasks!OtherDay(k) => /\ r \in TaskFrame /\ r.op = "remove" /\ r.task.slot = view.of[o].slot
                          /\ NotOwned(r.task.slot)
  <2>1. ASSUME Tasks!OtherDay(k)
        PROVE  [kind |-> o, day |-> TRUE, solar |-> FALSE, slot |-> view.of[o].slot] \in Tasks!Task
    BY <1>2, <1>3, <1>4, <2>1, ViewParts DEF Tasks!Task, Known
  <2>2. ASSUME Tasks!OtherDay(k) PROVE NotOwned(view.of[o].slot)
    <3>1. Keeps([op |-> "update", task |-> TaskOf(o)]) /\ TaskOf(o).day
      BY <1>2, <1>3, <1>4, <2>2 DEF OwnersInv, TaskOf
    <3> QED
      BY <3>1 DEF Keeps, TaskOf
  <2> QED
    BY <2>1, <2>2 DEF Tasks!Frame, TaskFrame
<1> DEFINE g == IF Tasks!OtherDay(k) THEN r ELSE p
           here == IF Tasks!OtherDay(k) THEN "removing" ELSE "writing"
<1>6. /\ taskFrames' = Append(taskFrames, g) /\ g \in TaskFrame /\ taskWrite' = [taskWrite EXCEPT ![c] = new(here)]
  BY <1>1, <1>3, <1>5
<1>7. /\ taskWrite'[c] = new(here) /\ \A d \in Writes : d # c => taskWrite'[d] = taskWrite[d]
      /\ \A d \in Writes : taskWrite[d].at = "idle"
  BY <1>1, <1>2, <1>6, Ocean2Assumption DEF TaskTypes, TaskLockInv
<1>8. \A f : Keeps(f)' <=> Keeps(f)
  BY <1>1 DEF Keeps, NotOwned
<1>9. Keeps(g) /\ (g.op = "add" => g.task.day)
  BY <1>3, <1>5 DEF Keeps
<1> HIDE DEF p, r
<1>10. /\ taskFrames' \in Seq(TaskFrame)
       /\ Len(taskFrames') = Len(taskFrames) + 1 /\ Len(taskFrames) \in Nat
       /\ taskFrames'[Len(taskFrames')] = g /\ Len(taskFrames') \in DOMAIN taskFrames'
       /\ \A i \in DOMAIN taskFrames : i \in DOMAIN taskFrames' /\ taskFrames'[i] = taskFrames[i] /\ i < Len(taskFrames')
       /\ \A i \in DOMAIN taskFrames' :
             i \in Nat /\ i <= Len(taskFrames') /\ (i \in DOMAIN taskFrames \/ i = Len(taskFrames'))
       /\ \A x : Gone(x)' <=> Gone(x) \/ (g.op = "remove" /\ g.task.slot = x)
  <2> HIDE DEF g
  <2> QED
    BY <1>2, <1>6, Appended DEF TaskTypes
<1>11. TaskTypes' /\ TaskLockInv'
  <2>1. new(here) \in TaskCalls
    BY <1>3 DEF TaskCalls
  <2>2. TaskTypes'
    BY <1>1, <1>2, <1>6, <1>10, <2>1 DEF TaskTypes
  <2>3. TaskLockInv'
    BY <1>1, <1>2, <1>3, <1>7, Ocean2Assumption DEF TaskLockInv
  <2> QED
    BY <2>2, <2>3
<1>12. OwnersInv'
  <2>1. \A i \in DOMAIN taskFrames' : Keeps(taskFrames'[i]) /\ (taskFrames'[i].op = "add" => taskFrames'[i].task.day)
    <3> HIDE DEF g
    <3> QED
      BY <1>2, <1>9, <1>10 DEF OwnersInv
  <2>2. \A d \in Writes : taskWrite'[d].at # "idle" => taskWrite'[d].frame = p
    BY <1>7
  <2> QED
    BY <1>1, <1>2, <1>3, <1>8, <2>1, <2>2 DEF OwnersInv, Known, TaskOf
<1>13. ASSUME ~taskUnsure PROVE DaysInv' /\ FramesInv' /\ FreeInv' /\ CallsInv'
  <2>1. DaysInv /\ FramesInv /\ FreeInv /\ \A q \in Tasks!Kinds : Agrees(q)
    BY <1>1, <1>13 DEF TaskInv, DayInv, FreeInv
  <2>2. \A i \in DOMAIN taskFrames : taskFrames[i].op # "add"
    BY <1>1, <1>2, <2>1, NothingAdded
  <2>3. ASSUME p.op = "update" PROVE p.task = TaskOf(k) /\ TaskOf(k) \in tasks /\ ~Gone(TaskOf(k).slot)
    BY <1>3, <2>1, <2>3 DEF Agrees, TaskOf
  <2>4. ASSUME p.op = "add" PROVE \A t \in tasks : t.kind = k => Gone(t.slot)
    BY <1>3, <2>1, <2>4 DEF Agrees
  <2>5. DaysInv' /\ FreeInv'
    BY <1>1, <2>1, Ocean2Assumption DEF DaysInv, FreeInv
  <2>6. CASE Tasks!OtherDay(k)
    <3>1. g = r /\ here = "removing" /\ r.op = "remove" /\ r.task.slot = view.of[o].slot
      BY <1>5, <2>6
    <3>2. TaskOf(o) \in tasks /\ TaskOf(o).kind = o /\ TaskOf(o).slot = view.of[o].slot /\ ~Gone(view.of[o].slot)
      BY <1>3, <1>4, <2>1, <2>6 DEF Agrees, TaskOf
    <3>3. \A t \in tasks : t.kind # k => Gone(t.slot)'
      <4> TAKE t \in tasks
      <4> SUFFICES ASSUME t.kind # k, ~Gone(t.slot) PROVE t = TaskOf(o)
        BY <1>10, <3>1, <3>2
      <4>1. t.kind = o
        BY <1>2, <1>4, TaskParts
      <4> QED
        BY <1>3, <1>4, <2>1, <2>6, <3>2, <4>1 DEF Agrees
    <3>5. Agrees(k)'
      <4>1. TaskOf(k).kind = k /\ TaskOf(k).slot = view.of[k].slot
        BY DEF TaskOf
      <4>2. ASSUME Known(k) PROVE ~Gone(view.of[k].slot) /\ view.of[k].slot # view.of[o].slot
        <5>1. TaskOf(k) \in tasks /\ ~Gone(view.of[k].slot)
          BY <2>1, <4>2 DEF Agrees
        <5> QED
          BY <1>2, <1>4, <2>1, <3>2, <4>1, <5>1, ApartInView
      <4>3. /\ \A x : Gone(x) => Gone(x)'
            /\ (Known(k)' <=> Known(k)) /\ TaskOf(k)' = TaskOf(k)
        BY <1>1, <1>10 DEF Known, TaskOf
      <4>4. Known(k) => ~Gone(view.of[k].slot)'
        <5>1. \A x : ~Gone(x) /\ x # view.of[o].slot => ~Gone(x)'
          BY <1>10, <3>1
        <5> QED
          BY <1>1, <4>2, <5>1 DEF Gone
      <4> QED
        BY <1>1, <2>1, <4>3, <4>4 DEF Agrees
    <3>6. FramesInv'
      BY <1>1, <1>2, <1>6, <2>1, <2>2, <3>1, FrameSent
    <3>7. RemovingInv(c)'
      <4> DEFINE GoneThen(x) == \E i \in DOMAIN taskFrames' : taskFrames'[i].op = "remove" /\ taskFrames'[i].task.slot = x
      <4>1. taskWrite'[c].kind = k /\ taskWrite'[c].frame = p
        BY <1>7
      <4>2. ASSUME p.op = "update" PROVE p.task \in tasks /\ ~GoneThen(p.task.slot)
        <5>1. p.task \in tasks /\ ~Gone(p.task.slot) /\ p.task.kind = k
          BY <1>3, <2>3, <4>2
        <5>2. p.task.slot # view.of[o].slot
          BY <1>2, <1>4, <2>1, <3>2, <5>1, ApartInView
        <5>3. \A x : GoneThen(x) <=> Gone(x) \/ x = view.of[o].slot
          BY <1>10, <3>1 DEF Gone
        <5> QED
          BY <5>1, <5>2, <5>3
      <4>3. p.op = "add" => \A t \in tasks : Gone(t.slot)'
        BY <1>10, <2>4, <3>3
      <4>4. \A i \in DOMAIN taskFrames' : taskFrames'[i].op # "add"
        BY <1>10, <2>2, <3>1
      <4> QED
        BY <1>1, <3>3, <3>5, <4>1, <4>2, <4>3, <4>4 DEF RemovingInv, Gone
    <3>8. CallsInv'
      BY <1>7, <3>1, <3>7 DEF CallsInv
    <3> QED
      BY <2>5, <3>6, <3>8
  <2>7. CASE ~Tasks!OtherDay(k)
    <3>1. g = p /\ here = "writing" /\ \A x : Gone(x)' <=> Gone(x)
      BY <1>3, <1>10, <2>7
    <3>2. \A q \in Tasks!Kinds : Agrees(q)'
      BY <1>1, <2>1, <3>1 DEF Agrees, Known, TaskOf
    <3>3. p.op = "add" => view.of[o].count = 0 /\ view.of[o].settable = 0 /\ \A t \in tasks : Gone(t.slot)
      <4> SUFFICES ASSUME p.op = "add" PROVE view.of[o].count = 0 /\ view.of[o].settable = 0 /\ \A t \in tasks : Gone(t.slot)
        OBVIOUS
      <4>1. view.of[o].count = 0 /\ view.of[o].settable = 0 /\ \A t \in tasks : t.kind = o => Gone(t.slot)
        BY <1>3, <1>4, <2>1, <2>7 DEF Agrees
      <4> QED
        BY <1>2, <1>4, <2>4, <4>1, TaskParts
    <3>4. FramesInv'
      BY <1>1, <1>2, <1>3, <1>6, <2>1, <2>2, <2>3, <3>1, <3>3, FrameSent
    <3>5. ASSUME p.op = "update" PROVE UpdatingInv'
      BY <1>10, <2>2, <3>1, <3>2, <3>5 DEF UpdatingInv
    <3>6. ASSUME p.op = "add" PROVE AddingInv(c)'
      <4>1. taskWrite'[c].kind = k /\ taskWrite'[c].frame = p
        BY <1>7
      <4>2. \A i \in DOMAIN taskFrames' : taskFrames'[i].op = "add" => taskFrames'[i].task = p.task
        BY <1>10, <2>2, <3>1
      <4> QED
        BY <1>1, <1>4, <3>1, <3>2, <3>3, <3>6, <4>1, <4>2 DEF AddingInv
    <3>7. CallsInv'
      BY <1>7, <3>1, <3>5, <3>6 DEF CallsInv
    <3> QED
      BY <2>5, <3>4, <3>7
  <2> QED
    BY <2>6, <2>7
<1> QED
  BY <1>1, <1>11, <1>12, <1>13 DEF TaskInv, DayInv

\* The removed task is forgotten, and its successor sent.
LEMMA RemoveDoneHolds == ASSUME TaskInv, NEW c \in Writes, Tasks!RemoveDone(c) PROVE TaskInv'
<1> PICK k : k = taskWrite[c].kind
  OBVIOUS
<1> PICK f : f = taskWrite[c].frame
  OBVIOUS
<1> DEFINE o == Tasks!Other(k)
<1>1. /\ taskWrite[c].at = "removing" /\ taskFrames' = Append(taskFrames, f)
      /\ taskWrite' = [taskWrite EXCEPT ![c].at = "writing"]
      /\ view' = [view EXCEPT !.of[o] = Tasks!Nothing]
      /\ UNCHANGED <<holder, tasks, taskUnsure>>
  BY DEF Tasks!RemoveDone
<1>2. TaskTypes /\ TaskLockInv /\ OwnersInv
  BY DEF TaskInv
<1>3. /\ holder = c /\ f \in TaskFrame /\ f.op \in {"update", "add"} /\ f.task.kind = k /\ Keeps(f)
      /\ f.op = "add" => f.task.day
  BY <1>1, <1>2 DEF TaskLockInv, OwnersInv
<1>4. k \in Tasks!Kinds /\ o \in Tasks!Kinds /\ o # k /\ \A q \in Tasks!Kinds : q = k \/ q = o
  BY <1>2, TaskCallParts, OtherKind
<1>5. /\ taskWrite'[c].at = "writing" /\ taskWrite'[c].kind = k /\ taskWrite'[c].frame = f
      /\ taskWrite' \in [Writes -> TaskCalls]
      /\ \A d \in Writes : d # c => taskWrite'[d] = taskWrite[d] /\ taskWrite[d].at = "idle"
  <2>1. taskWrite[c] \in TaskCalls
    BY <1>2 DEF TaskTypes
  <2>2. DEFINE new == [taskWrite[c] EXCEPT !.at = "writing"]
  <2>3. new \in TaskCalls /\ new.at = "writing" /\ new.kind = k /\ new.frame = f
    BY <2>1 DEF TaskCalls
  <2> HIDE DEF new
  <2>4. taskWrite' = [taskWrite EXCEPT ![c] = new]
    BY <1>1 DEF new
  <2> QED
    BY <1>2, <1>3, <2>3, <2>4 DEF TaskTypes, TaskLockInv
<1>6. /\ view' \in Views /\ view'.slotMax = view.slotMax
      /\ view'.of[o] = Tasks!Nothing /\ view'.of[k] = view.of[k]
  <2>1. Tasks!Nothing \in KindView
    BY DeviceAssumption DEF Tasks!Nothing, KindView
  <2> QED
    BY <1>1, <1>2, <1>4, <2>1 DEF TaskTypes, Views
<1> HIDE DEF o
<1>7. /\ taskFrames' \in Seq(TaskFrame)
      /\ taskFrames'[Len(taskFrames')] = f
      /\ \A i \in DOMAIN taskFrames : taskFrames'[i] = taskFrames[i]
      /\ \A i \in DOMAIN taskFrames' : i \in DOMAIN taskFrames \/ i = Len(taskFrames')
      /\ \A x : Gone(x)' <=> Gone(x)
  BY <1>1, <1>2, <1>3, Appended DEF TaskTypes
<1>8. TaskTypes' /\ TaskLockInv'
  BY <1>1, <1>2, <1>3, <1>5, <1>6, <1>7 DEF TaskTypes, TaskLockInv
<1>9. OwnersInv'
  <2>1. \A x : Keeps(x)' <=> Keeps(x)
    BY <1>1 DEF Keeps, NotOwned
  <2>2. \A i \in DOMAIN taskFrames' : Keeps(taskFrames'[i]) /\ (taskFrames'[i].op = "add" => taskFrames'[i].task.day)
    BY <1>2, <1>3, <1>7 DEF OwnersInv
  <2>3. ~Known(o)' /\ (Known(k)' <=> Known(k)) /\ TaskOf(k)' = TaskOf(k)
    BY <1>6 DEF Known, TaskOf, Tasks!Nothing
  <2>4. \A d \in Writes : taskWrite'[d].at # "idle" => d = c /\ taskWrite[d].at # "idle" /\ taskWrite'[d].frame = taskWrite[d].frame
    BY <1>1, <1>5
  <2>5. \A q \in Tasks!Kinds : Known(q)' => Known(q) /\ TaskOf(q)' = TaskOf(q)
    BY <1>4, <2>3
  <2> QED
    BY <1>1, <1>2, <1>6, <2>1, <2>2, <2>4, <2>5 DEF OwnersInv
<1>10. ASSUME ~taskUnsure PROVE DaysInv' /\ FramesInv' /\ FreeInv' /\ CallsInv'
  <2>1. DaysInv /\ FramesInv /\ RemovingInv(c)
    BY <1>1, <1>10 DEF TaskInv, DayInv, CallsInv
  <2>2. /\ Agrees(k) /\ \A t \in tasks : t.kind # k => Gone(t.slot)
        /\ f.op = "update" => f.task \in tasks /\ ~Gone(f.task.slot)
        /\ f.op = "add" => \A t \in tasks : Gone(t.slot)
        /\ \A i \in DOMAIN taskFrames : taskFrames[i].op # "add"
    BY <2>1 DEF RemovingInv
  <2>3. FramesInv'
    BY <1>1, <1>2, <1>3, <2>1, <2>2, FrameSent
  <2>4. DaysInv' /\ FreeInv'
    BY <1>1, <1>3, <2>1, Ocean2Assumption DEF DaysInv, FreeInv
  <2>5. Agrees(k)'
    <3>1. (Known(k)' <=> Known(k)) /\ TaskOf(k)' = TaskOf(k)
      BY <1>6 DEF Known, TaskOf
    <3>2. Gone(view.of[k].slot)' <=> Gone(view.of[k].slot)
      <4>1. PICK x : x = view.of[k].slot /\ x = view'.of[k].slot
        BY <1>6
      <4>2. Gone(x)' <=> Gone(x)
        BY <1>7
      <4>3. Gone(view.of[k].slot) <=> Gone(x)
        BY <4>1
      <4>4. Gone(view.of[k].slot)' <=> Gone(x)'
        BY <4>1 DEF Gone
      <4> QED
        BY <4>2, <4>3, <4>4
    <3> QED
      BY <1>1, <1>6, <1>7, <2>2, <3>1, <3>2 DEF Agrees
  <2>6. Agrees(o)' /\ view'.of[o].settable # 1
    BY <1>1, <1>4, <1>6, <1>7, <2>2 DEF Agrees, Known, Tasks!Nothing
  <2>7. f.op = "update" => UpdatingInv'
    BY <1>4, <1>7, <2>2, <2>5, <2>6 DEF UpdatingInv
  <2>8. f.op = "add" => AddingInv(c)'
    BY <1>1, <1>5, <1>7, <2>2, <2>6 DEF AddingInv, o
  <2> QED
    BY <1>5, <2>3, <2>4, <2>7, <2>8 DEF CallsInv
<1> QED
  BY <1>1, <1>8, <1>9, <1>10 DEF TaskInv, DayInv

\* A call that ends leaves the others where they are.
LEMMA CallEnds ==
  ASSUME TaskTypes, TaskLockInv, NEW c \in Writes, taskWrite[c].at # "idle",
         taskWrite' = [taskWrite EXCEPT ![c] = Tasks!Idle], holder' = NoWrite
  PROVE  /\ holder = c /\ taskWrite' \in [Writes -> TaskCalls] /\ TaskLockInv'
         /\ \A d \in Writes : taskWrite'[d].at = "idle"
<1>1. Tasks!Idle \in TaskCalls /\ Tasks!Idle.at = "idle"
  BY DEF Tasks!Idle, TaskCalls, Tasks!Kinds
<1>2. holder = c /\ \A d \in Writes : d # c => taskWrite[d].at = "idle"
  BY DEF TaskLockInv
<1>3. taskWrite' \in [Writes -> TaskCalls] /\ \A d \in Writes : taskWrite'[d].at = "idle"
  BY <1>1, <1>2 DEF TaskTypes
<1> QED
  BY <1>2, <1>3, Ocean2Assumption DEF TaskLockInv

\* A write that is out is seeded: a new task has no number before the next list.
LEMMA WriteDoneHolds == ASSUME TaskInv, NEW c \in Writes, Tasks!WriteDone(c) PROVE TaskInv'
<1> PICK k : k = taskWrite[c].kind
  OBVIOUS
<1> PICK f : f = taskWrite[c].frame
  OBVIOUS
<1> DEFINE o == Tasks!Other(k)
           seeded == [count |-> 1, settable |-> 1, day |-> TRUE, slot |-> 0]
<1>1. /\ taskWrite[c].at = "writing" /\ taskWrite' = [taskWrite EXCEPT ![c] = Tasks!Idle]
      /\ holder' = NoWrite /\ UNCHANGED <<tasks, taskFrames, taskUnsure>>
      /\ f.op = "update" => view' = view
      /\ f.op # "update" => view' = [slotMax |-> f.task.slot, of |-> [view.of EXCEPT ![k] = seeded]]
  BY DEF Tasks!WriteDone, Tasks!Seeded
<1>2. TaskTypes /\ TaskLockInv /\ OwnersInv
  BY DEF TaskInv
<1>3. /\ f \in TaskFrame /\ f.op \in {"update", "add"} /\ f.task.kind = k
      /\ f.op = "add" => \A t \in tasks : ~t.day => t.slot <= f.task.slot
  BY <1>1, <1>2 DEF TaskLockInv, OwnersInv
<1>4. k \in Tasks!Kinds /\ o \in Tasks!Kinds /\ o # k /\ \A q \in Tasks!Kinds : q = k \/ q = o
  BY <1>2, TaskCallParts, OtherKind
<1>5. /\ holder = c /\ taskWrite' \in [Writes -> TaskCalls] /\ TaskLockInv'
      /\ \A d \in Writes : taskWrite'[d].at = "idle"
  BY <1>1, <1>2, CallEnds
<1>6. CASE f.op = "update"
  <2>1. view' = view
    BY <1>1, <1>6
  <2>2. TaskTypes' /\ OwnersInv'
    BY <1>1, <1>2, <1>5, <2>1 DEF TaskTypes, OwnersInv, Keeps, NotOwned, Known, TaskOf
  <2>3. ASSUME ~taskUnsure PROVE DaysInv' /\ FramesInv' /\ FreeInv' /\ CallsInv'
    <3>1. DaysInv /\ FramesInv /\ UpdatingInv
      BY <1>1, <1>6, <2>3 DEF TaskInv, DayInv, CallsInv
    <3>2. DaysInv' /\ FramesInv' /\ UpdatingInv'
      BY <1>1, <2>1, <3>1 DEF DaysInv, FramesInv, UpdatingInv, Agrees, Known, TaskOf, Gone
    <3> QED
      BY <1>5, <3>2 DEF FreeInv, CallsInv, UpdatingInv
  <2> QED
    BY <1>1, <1>5, <2>2, <2>3 DEF TaskInv, DayInv
<1>7. CASE f.op = "add"
  <2>1. f.task \in Tasks!Task /\ f.task.slot \in 1..MaxSlot
    BY <1>3, Zenon DEF TaskFrame, Tasks!Task
  <2>2. seeded \in KindView
    BY DeviceAssumption DEF KindView
  <2>3. /\ view' \in Views /\ view'.slotMax = f.task.slot
        /\ view'.of[k] = seeded /\ view'.of[o] = view.of[o]
    BY <1>1, <1>2, <1>4, <1>7, <2>1, <2>2 DEF TaskTypes, Views
  <2>4. TaskTypes'
    BY <1>1, <1>2, <1>5, <2>3 DEF TaskTypes
  <2> HIDE DEF o
  <2>5. OwnersInv'
    <3>1. \A x : Keeps(x)' <=> Keeps(x)
      BY <1>1 DEF Keeps, NotOwned
    <3>2. ~Known(k)' /\ (Known(o)' => Known(o)) /\ TaskOf(o)' = TaskOf(o)
      BY <2>3 DEF Known, TaskOf
    <3>3. \A q \in Tasks!Kinds : Known(q)' => Known(q) /\ TaskOf(q)' = TaskOf(q)
      BY <1>4, <3>2
    <3> QED
      BY <1>1, <1>2, <1>3, <1>5, <1>7, <2>3, <3>1, <3>3 DEF OwnersInv
  <2>6. ASSUME ~taskUnsure PROVE DaysInv' /\ FramesInv' /\ FreeInv' /\ CallsInv'
    <3>1. DaysInv /\ FramesInv /\ AddingInv(c)
      BY <1>1, <1>7, <2>6 DEF TaskInv, DayInv, CallsInv
    <3>2. /\ Agrees(o) /\ view.of[o].settable # 1
          /\ \A t \in tasks : Gone(t.slot) \/ t = f.task
          /\ \A i \in DOMAIN taskFrames : taskFrames[i].op = "add" => taskFrames[i].task = f.task
      BY <3>1 DEF AddingInv, o
    <3>3. DaysInv' /\ FramesInv' /\ \A x : Gone(x)' <=> Gone(x)
      BY <1>1, <3>1 DEF DaysInv, FramesInv, Gone
    <3>4. Agrees(o)'
      BY <1>1, <2>3, <3>2 DEF Agrees, Known, TaskOf, Gone
    <3>5. Agrees(k)'
      <4>1. ~Known(k)' /\ view'.of[k].count # 0
        BY <2>3 DEF Known
      <4> QED
        BY <1>1, <3>2, <3>3, <4>1 DEF Agrees
    <3>6. Waits(k)'
      BY <2>3, <3>2 DEF Waits, o
    <3>7. \A i \in DOMAIN taskFrames' : taskFrames'[i].op = "add" => taskFrames'[i].task.kind = k
      BY <1>1, <1>3, <3>2
    <3>8. FreeInv'
      <4>1. ASSUME NEW i \in DOMAIN taskFrames', taskFrames'[i].op = "add" PROVE Waits(taskFrames[i].task.kind)'
        BY <3>6, <3>7, <4>1 DEF Waits
      <4> QED
        BY <1>4, <3>4, <3>5, <4>1 DEF FreeInv
    <3> QED
      BY <1>5, <3>3, <3>8 DEF CallsInv
  <2> QED
    BY <1>1, <1>5, <2>4, <2>5, <2>6 DEF TaskInv, DayInv
<1> QED
  BY <1>3, <1>6, <1>7

\* A send fails: the frame may be lost, and what the view says is open.
LEMMA SendFailsHolds == ASSUME TaskInv, NEW c \in Writes, Tasks!SendFails(c) PROVE TaskInv'
<1>1. /\ taskWrite[c].at # "idle" /\ taskWrite' = [taskWrite EXCEPT ![c] = Tasks!Idle]
      /\ holder' = NoWrite /\ taskUnsure' /\ UNCHANGED <<view, tasks>>
      /\ taskFrames' = taskFrames \/ (taskFrames # <<>> /\ taskFrames' = SubSeq(taskFrames, 1, Len(taskFrames) - 1))
  BY DEF Tasks!SendFails, Tasks!Front
<1>2. TaskTypes /\ TaskLockInv /\ OwnersInv
  BY DEF TaskInv
<1>3. /\ taskWrite' \in [Writes -> TaskCalls] /\ TaskLockInv'
      /\ \A d \in Writes : taskWrite'[d].at = "idle"
  BY <1>1, <1>2, CallEnds
<1>4. /\ taskFrames' \in Seq(TaskFrame)
      /\ \A i \in DOMAIN taskFrames' : i \in DOMAIN taskFrames /\ taskFrames'[i] = taskFrames[i]
  BY <1>1, <1>2 DEF TaskTypes
<1>5. TaskTypes'
  BY <1>1, <1>2, <1>3, <1>4 DEF TaskTypes
<1>6. OwnersInv'
  BY <1>1, <1>2, <1>3, <1>4 DEF OwnersInv, Keeps, NotOwned, Known, TaskOf
<1> QED
  BY <1>1, <1>3, <1>5, <1>6 DEF TaskInv, DayInv

\* What the device makes of the first frame: the owner's tasks are as they were.
LEMMA TakesFacts ==
  ASSUME TaskTypes, OwnersInv, Tasks!DeviceTakes
  PROVE  LET f == taskFrames[1]
         IN  /\ taskFrames # <<>> /\ taskFrames' = Tail(taskFrames) /\ f \in TaskFrame /\ Keeps(f)
             /\ UNCHANGED <<taskWrite, holder, view, taskUnsure>>
             /\ f.op = "remove" => tasks' = {t \in tasks : t.slot # f.task.slot}
             /\ f.op = "update" =>
                   tasks' = tasks \/ tasks' = {t \in tasks : t.slot # f.task.slot} \cup {f.task}
             /\ f.op = "add" => tasks' = tasks \cup {f.task} /\ f.task.day
             /\ tasks' \subseteq Tasks!Task /\ IsFiniteSet(tasks')
             /\ \A t : ~t.day => (t \in tasks <=> t \in tasks')
<1> DEFINE f == taskFrames[1]
           rest == {t \in tasks : t.slot # f.task.slot}
<1>1. /\ taskFrames # <<>> /\ taskFrames' = Tail(taskFrames) /\ UNCHANGED <<taskWrite, holder, view, taskUnsure>>
  BY DEF Tasks!DeviceTakes
<1>2. /\ 1 \in DOMAIN taskFrames /\ Head(taskFrames) = f /\ f \in TaskFrame
  BY <1>1 DEF TaskTypes
<1>3. Keeps(f) /\ (f.op = "add" => f.task.day)
  BY <1>2 DEF OwnersInv
<1>4. f.op \in {"remove", "update", "add"} /\ f.task \in Tasks!Task
  BY <1>2, Zenon DEF TaskFrame
<1>5. tasks' = CASE f.op = "remove" -> rest
                 [] f.op = "update" -> (IF rest = tasks THEN tasks ELSE rest \cup {f.task})
                 [] f.op = "add" -> tasks \cup {f.task}
  BY <1>2, Zenon DEF Tasks!DeviceTakes, Tasks!Without
<1> HIDE DEF f
<1>6. /\ f.op = "remove" => tasks' = rest
      /\ f.op = "update" => tasks' = tasks \/ tasks' = rest \cup {f.task}
      /\ f.op = "add" => tasks' = tasks \cup {f.task}
  <2>1. "remove" # "update" /\ "remove" # "add" /\ "update" # "add"
    OBVIOUS
  <2> QED
    BY <1>5, <2>1, Zenon
<1>7. IsFiniteSet(rest) /\ IsFiniteSet(rest \cup {f.task}) /\ IsFiniteSet(tasks \cup {f.task}) /\ IsFiniteSet(tasks)
  <2>1. IsFiniteSet(tasks) /\ rest \subseteq tasks
    BY DEF TaskTypes
  <2>2. IsFiniteSet(rest)
    BY <2>1, FS_Subset
  <2> QED
    BY <2>1, <2>2, FS_AddElement
<1>8. tasks' \subseteq Tasks!Task /\ IsFiniteSet(tasks')
  BY <1>4, <1>6, <1>7 DEF TaskTypes
<1>9. ASSUME NEW t, ~t.day PROVE t \in tasks <=> t \in tasks'
  <2>1. ASSUME f.op = "update", ~f.task.day, t \in tasks PROVE t.slot = f.task.slot => t = f.task
    BY <1>3, <1>9, <2>1 DEF Keeps, OwnersInv
  <2>2. f.op = "update" /\ ~f.task.day => f.task \in tasks
    BY <1>3 DEF Keeps
  <2>3. ~(f.op = "update" /\ ~f.task.day) => \A u \in tasks : ~u.day => u.slot # f.task.slot
    BY <1>3 DEF Keeps, NotOwned
  <2>4. CASE f.op = "remove"
    BY <1>6, <1>9, <2>3, <2>4
  <2>5. CASE f.op = "update"
    BY <1>6, <1>9, <2>1, <2>2, <2>3, <2>5
  <2>6. CASE f.op = "add"
    BY <1>3, <1>6, <1>9, <2>6
  <2> QED
    BY <1>4, <2>4, <2>5, <2>6
<1> QED
  BY <1>1, <1>2, <1>3, <1>6, <1>8, <1>9 DEF f

LEMMA TakesHolds == ASSUME TaskInv, Tasks!DeviceTakes PROVE TaskInv'
<1> PICK f : f = taskFrames[1]
  OBVIOUS
<1>1. TaskTypes /\ TaskLockInv /\ OwnersInv
  BY DEF TaskInv
<1>2. /\ taskFrames # <<>> /\ taskFrames' = Tail(taskFrames) /\ f \in TaskFrame /\ Keeps(f)
      /\ UNCHANGED <<taskWrite, holder, view, taskUnsure>>
      /\ f.op = "remove" => tasks' = {t \in tasks : t.slot # f.task.slot}
      /\ f.op = "update" => tasks' = tasks \/ tasks' = {t \in tasks : t.slot # f.task.slot} \cup {f.task}
      /\ f.op = "add" => tasks' = tasks \cup {f.task} /\ f.task.day
      /\ tasks' \subseteq Tasks!Task /\ IsFiniteSet(tasks')
      /\ \A t : ~t.day => (t \in tasks <=> t \in tasks')
  BY <1>1, TakesFacts
<1>3. /\ taskFrames' \in Seq(TaskFrame) /\ 1 \in DOMAIN taskFrames
      /\ Len(taskFrames) = Len(taskFrames') + 1 /\ Len(taskFrames') \in Nat
      /\ \A i \in DOMAIN taskFrames' :
            i \in Nat /\ i + 1 \in DOMAIN taskFrames /\ taskFrames'[i] = taskFrames[i + 1] /\ 1 < i + 1
      /\ \A x : Gone(x) <=> Gone(x)' \/ (f.op = "remove" /\ f.task.slot = x)
  BY <1>1, <1>2, Taken DEF TaskTypes
<1>4. f.op \in {"remove", "update", "add"}
  BY <1>2, Zenon DEF TaskFrame
<1>5. TaskTypes' /\ TaskLockInv'
  BY <1>1, <1>2, <1>3 DEF TaskTypes, TaskLockInv
<1>6. OwnersInv'
  <2>1. \A x : Keeps(x) => Keeps(x)'
    BY <1>2 DEF Keeps, NotOwned
  <2>2. ASSUME NEW t \in tasks', NEW u \in tasks', ~t.day, t.slot = u.slot PROVE t = u
    <3>1. t \in tasks
      BY <1>2, <2>2
    <3>2. CASE u \in tasks
      BY <1>1, <2>2, <3>1, <3>2 DEF OwnersInv
    <3>3. CASE u \notin tasks
      <4>1. u = f.task /\ f.op \in {"update", "add"} /\ u.day
        BY <1>2, <1>4, <3>3
      <4>2. NotOwned(u.slot)
        BY <1>2, <4>1 DEF Keeps
      <4> QED
        BY <2>2, <3>1, <4>2 DEF NotOwned
    <3> QED
      BY <3>2, <3>3
  <2>3. \A i \in DOMAIN taskFrames' : Keeps(taskFrames'[i]) /\ (taskFrames'[i].op = "add" => taskFrames'[i].task.day)
    BY <1>1, <1>3 DEF OwnersInv
  <2>4. \A q \in Tasks!Kinds : (Known(q)' <=> Known(q)) /\ TaskOf(q)' = TaskOf(q)
    BY <1>2 DEF Known, TaskOf
  <2> QED
    BY <1>1, <1>2, <2>1, <2>2, <2>3, <2>4 DEF OwnersInv
<1>7. ASSUME ~taskUnsure PROVE DaysInv' /\ FramesInv' /\ FreeInv' /\ CallsInv'
  <2>1. DaysInv /\ FramesInv /\ FreeInv /\ CallsInv
    BY <1>7 DEF TaskInv, DayInv
  <2>2. f.op = "update" => tasks' = tasks
    <3> SUFFICES ASSUME f.op = "update" PROVE tasks' = tasks
      OBVIOUS
    <3>1. f.task \in tasks
      BY <1>3, <2>1 DEF FramesInv
    <3>2. \A t \in tasks : t.slot = f.task.slot => t = f.task
      BY <1>1, <2>1, <3>1, ApartInView
    <3> QED
      BY <1>2, <3>1, <3>2
  <2>3. f.op = "add" => tasks = {} /\ taskFrames' = <<>> /\ tasks' = {f.task}
    <3> SUFFICES ASSUME f.op = "add" PROVE tasks = {} /\ taskFrames' = <<>> /\ tasks' = {f.task}
      OBVIOUS
    <3>1. 1 = Len(taskFrames) /\ \A t \in tasks : Gone(t.slot)
      BY <1>3, <2>1 DEF FramesInv
    <3>2. taskFrames' = <<>>
      BY <1>3, <3>1
    <3>3. \A x : ~Gone(x)
      BY <1>3, <3>2 DEF Gone
    <3> QED
      BY <1>2, <3>1, <3>2, <3>3
  \* What is left once the removals are done is what was, or what was added.
  <2>4. /\ \A t \in tasks' : Gone(t.slot)' \/ (t \in tasks /\ ~Gone(t.slot)) \/ (f.op = "add" /\ t = f.task)
        /\ \A t \in tasks : Gone(t.slot) \/ (t \in tasks' /\ ~Gone(t.slot)')
        /\ \A x : ~Gone(x) => ~Gone(x)'
        /\ \A t \in tasks' : Gone(t.slot) => Gone(t.slot)' \/ (f.op = "add" /\ t = f.task)
    BY <1>2, <1>3, <1>4, <2>2, <2>3
  <2>5. DaysInv'
    BY <1>2, <1>4, <2>1, <2>2, <2>3 DEF DaysInv
  <2>6. FramesInv'
    <3> SUFFICES ASSUME NEW i \in DOMAIN taskFrames'
                 PROVE  /\ taskFrames'[i].op = "update" =>
                           /\ taskFrames'[i].task \in tasks'
                           /\ \A j \in DOMAIN taskFrames' :
                                 j < i /\ taskFrames'[j].op = "remove" => taskFrames'[j].task.slot # taskFrames'[i].task.slot
                        /\ taskFrames'[i].op = "add" => i = Len(taskFrames') /\ \A t \in tasks' : Gone(t.slot)'
      BY DEF FramesInv
    <3>1. i + 1 \in DOMAIN taskFrames /\ taskFrames'[i] = taskFrames[i + 1] /\ 1 < i + 1 /\ f.op # "add"
      BY <1>3, <2>3
    <3>2. ASSUME taskFrames'[i].op = "update"
          PROVE  /\ taskFrames'[i].task \in tasks'
                 /\ \A j \in DOMAIN taskFrames' :
                       j < i /\ taskFrames'[j].op = "remove" => taskFrames'[j].task.slot # taskFrames'[i].task.slot
      <4>1. /\ taskFrames[i + 1].task \in tasks
            /\ f.op = "remove" => f.task.slot # taskFrames[i + 1].task.slot
        BY <1>3, <2>1, <3>1, <3>2 DEF FramesInv
      <4>2. taskFrames'[i].task \in tasks'
        BY <1>2, <1>4, <2>2, <3>1, <4>1
      <4>3. ASSUME NEW j \in DOMAIN taskFrames', j < i, taskFrames'[j].op = "remove"
            PROVE  taskFrames'[j].task.slot # taskFrames'[i].task.slot
        <5>1. j + 1 \in DOMAIN taskFrames /\ taskFrames'[j] = taskFrames[j + 1] /\ j + 1 < i + 1
          BY <1>3, <4>3
        <5> QED
          BY <2>1, <3>1, <3>2, <4>3, <5>1 DEF FramesInv
      <4> QED
        BY <4>2, <4>3
    <3>3. ASSUME taskFrames'[i].op = "add" PROVE i = Len(taskFrames') /\ \A t \in tasks' : Gone(t.slot)'
      <4>1. i + 1 = Len(taskFrames) /\ \A t \in tasks : Gone(t.slot)
        BY <2>1, <3>1, <3>3 DEF FramesInv
      <4> QED
        BY <1>3, <2>4, <3>1, <4>1
    <3> QED
      BY <3>2, <3>3
  <2>7. ASSUME NEW q \in Tasks!Kinds, Agrees(q), f.op # "add" \/ f.task.kind # q PROVE Agrees(q)'
    <3>1. (Known(q) => TaskOf(q) \in tasks /\ ~Gone(view.of[q].slot))'
      <4> SUFFICES ASSUME Known(q) PROVE TaskOf(q) \in tasks' /\ ~Gone(view.of[q].slot)'
        BY <1>2 DEF Known, TaskOf, Gone
      <4>1. TaskOf(q) \in tasks /\ ~Gone(view.of[q].slot) /\ TaskOf(q).slot = view.of[q].slot
        BY <2>7 DEF Agrees, TaskOf
      <4>2. TaskOf(q) \in tasks'
        BY <2>4, <4>1
      <4>3. PICK x : x = view.of[q].slot
        OBVIOUS
      <4>4. ~Gone(x)'
        BY <2>4, <4>1, <4>3
      <4> QED
        BY <1>2, <4>2, <4>3, <4>4 DEF Gone
    <3>2. ASSUME view.of[q].count = 1, NEW t \in tasks', NEW u \in tasks', t.kind = q, u.kind = q, ~Gone(t.slot)', ~Gone(u.slot)'
          PROVE  t = u
      <4>1. t \in tasks /\ ~Gone(t.slot) /\ u \in tasks /\ ~Gone(u.slot)
        BY <2>4, <2>7, <3>2
      <4> QED
        BY <2>7, <3>2, <4>1 DEF Agrees
    <3>3. ASSUME view.of[q].count = 0 PROVE view.of[q].settable = 0 /\ \A t \in tasks' : t.kind = q => Gone(t.slot)'
      <4>1. view.of[q].settable = 0 /\ \A t \in tasks : t.kind = q => Gone(t.slot)
        BY <2>7, <3>3 DEF Agrees
      <4> QED
        BY <2>4, <2>7, <4>1
    <3> QED
      BY <1>2, <3>1, <3>2, <3>3 DEF Agrees
  <2>8. FreeInv'
    <3> SUFFICES ASSUME holder = NoWrite
                 PROVE  /\ \A k \in Tasks!Kinds : Agrees(k)'
                        /\ \A i \in DOMAIN taskFrames' : taskFrames'[i].op = "add" => Waits(taskFrames[i].task.kind)'
      BY <1>2 DEF FreeInv
    <3>1. \A k \in Tasks!Kinds : Agrees(k)
      BY <2>1 DEF FreeInv
    <3>2. ASSUME f.op = "add", NEW k \in Tasks!Kinds, f.task.kind = k PROVE Agrees(k)'
      <4>1. Waits(f.task.kind)
        BY <1>3, <2>1, <3>2 DEF FreeInv
      <4>2. view.of[k].count = 1 /\ ~Known(k)
        BY <3>2, <4>1 DEF Waits, Known
      <4> QED
        BY <1>2, <2>3, <3>2, <4>2 DEF Agrees, Known
    <3>3. ASSUME NEW i \in DOMAIN taskFrames', taskFrames'[i].op = "add" PROVE Waits(taskFrames[i].task.kind)'
      <4>1. Waits(taskFrames[i + 1].task.kind)
        BY <1>3, <2>1, <3>3 DEF FreeInv
      <4> QED
        BY <1>2, <1>3, <4>1 DEF Waits
    <3> QED
      BY <2>7, <3>1, <3>2, <3>3
  <2>9. ASSUME NEW c \in Writes, taskWrite[c].at = "removing" PROVE RemovingInv(c)'
    <3> PICK k : k = taskWrite[c].kind
      OBVIOUS
    <3> PICK g : g = taskWrite[c].frame
      OBVIOUS
    <3>1. /\ Agrees(k) /\ \A t \in tasks : t.kind # k => Gone(t.slot)
          /\ g.op = "update" => g.task \in tasks /\ ~Gone(g.task.slot)
          /\ g.op = "add" => \A t \in tasks : Gone(t.slot)
          /\ \A i \in DOMAIN taskFrames : taskFrames[i].op # "add"
      BY <2>1, <2>9 DEF CallsInv, RemovingInv
    <3>2. f.op # "add" /\ k \in Tasks!Kinds
      BY <1>1, <1>3, <3>1, TaskCallParts
    <3>3. Agrees(k)'
      BY <2>7, <3>1, <3>2
    <3>4. \A t \in tasks' : t.kind # k => Gone(t.slot)'
      BY <2>4, <3>1, <3>2
    <3>5. g.op = "update" => g.task \in tasks' /\ ~Gone(g.task.slot)'
      BY <2>4, <3>1
    <3>6. g.op = "add" => \A t \in tasks' : Gone(t.slot)'
      BY <2>4, <3>1, <3>2
    <3>7. \A i \in DOMAIN taskFrames' : taskFrames'[i].op # "add"
      BY <1>3, <3>1
    <3> QED
      BY <1>2, <3>3, <3>4, <3>5, <3>6, <3>7 DEF RemovingInv, Gone
  <2>10. ASSUME UpdatingInv PROVE UpdatingInv'
    <3>1. f.op # "add" /\ \A i \in DOMAIN taskFrames' : taskFrames'[i].op # "add"
      BY <1>3, <2>10 DEF UpdatingInv
    <3> QED
      BY <2>7, <2>10, <3>1 DEF UpdatingInv
  <2>11. ASSUME NEW c \in Writes, taskWrite[c].at = "writing", taskWrite[c].frame.op = "add" PROVE AddingInv(c)'
    <3> PICK k : k = taskWrite[c].kind
      OBVIOUS
    <3> PICK g : g = taskWrite[c].frame
      OBVIOUS
    <3> PICK o : o = Tasks!Other(k)
      OBVIOUS
    <3>1. /\ Agrees(o) /\ view.of[o].settable # 1
          /\ \A t \in tasks : Gone(t.slot) \/ t = g.task
          /\ \A i \in DOMAIN taskFrames : taskFrames[i].op = "add" => taskFrames[i].task = g.task
      BY <2>1, <2>11 DEF CallsInv, AddingInv
    <3>2. k \in Tasks!Kinds /\ o \in Tasks!Kinds /\ o # k /\ g.task.kind = k
      BY <1>1, <2>11, TaskCallParts, OtherKind DEF TaskLockInv
    <3>3. f.op = "add" => f.task = g.task
      BY <1>3, <3>1
    <3>4. Agrees(o)'
      BY <2>7, <3>1, <3>2, <3>3
    <3>5. \A t \in tasks' : Gone(t.slot)' \/ t = g.task
      BY <2>4, <3>1, <3>3
    <3>6. \A i \in DOMAIN taskFrames' : taskFrames'[i].op = "add" => taskFrames'[i].task = g.task
      BY <1>3, <3>1
    <3>7. taskWrite'[c].kind = k /\ taskWrite'[c].frame = g /\ view'.of[o].settable # 1
      BY <1>2, <3>1
    <3> QED
      BY <3>4, <3>5, <3>6, <3>7 DEF AddingInv
  <2>12. CallsInv'
    BY <1>2, <2>1, <2>9, <2>10, <2>11 DEF CallsInv
  <2> QED
    BY <2>5, <2>6, <2>8, <2>12
<1> QED
  BY <1>2, <1>5, <1>6, <1>7 DEF TaskInv, DayInv

\* A list that arrives settles what a lost send left open.
LEMMA ListArrivesHolds == ASSUME TaskInv, Tasks!ListArrives PROVE TaskInv'
<1>1. /\ taskFrames = <<>> /\ taskFrames' = <<>> /\ view' = Tasks!ViewOf(tasks')
      /\ taskUnsure' = (taskUnsure /\ (holder # NoWrite \/ Tasks!Cardinality(Tasks!DayTasks) > 1))
      /\ UNCHANGED <<taskWrite, holder, tasks>>
  BY DEF Tasks!ListArrives
<1>2. TaskTypes /\ TaskLockInv /\ OwnersInv
  BY DEF TaskInv
<1>3. /\ view' \in Views
      /\ \A t \in tasks' : t.slot <= view'.slotMax
      /\ \A k \in Tasks!Kinds : (Known(k) => Keeps([op |-> "update", task |-> TaskOf(k)]))' /\ Agrees(k)'
  <2>1. tasks' \in SUBSET Tasks!Task /\ IsFiniteSet(tasks') /\ \A t, u \in tasks' : ~t.day /\ t.slot = u.slot => t = u
    BY <1>1, <1>2 DEF TaskTypes, OwnersInv
  <2> QED
    BY <1>1, <2>1, Listed
<1>4. TaskTypes' /\ TaskLockInv'
  BY <1>1, <1>2, <1>3 DEF TaskTypes, TaskLockInv
<1>5. OwnersInv'
  <2>1. \A x : Keeps(x)' <=> Keeps(x)
    BY <1>1 DEF Keeps, NotOwned
  <2> QED
    BY <1>1, <1>2, <1>3, <2>1 DEF OwnersInv
<1>6. ASSUME ~taskUnsure' PROVE DaysInv' /\ FramesInv' /\ FreeInv' /\ CallsInv'
  <2>0. \A k \in Tasks!Kinds : Agrees(k)'
    BY <1>3
  <2>1. FramesInv' /\ FreeInv'
    BY <1>1, <2>0 DEF FramesInv, FreeInv
  <2>2. \A x : Gone(x)' <=> Gone(x)
    BY <1>1 DEF Gone
  <2>3. CASE ~taskUnsure
    <3>1. DaysInv /\ CallsInv
      BY <2>3 DEF TaskInv, DayInv
    <3>2. ASSUME NEW c \in Writes, taskWrite[c].at = "removing" PROVE RemovingInv(c)'
      <4>1. RemovingInv(c) /\ taskWrite[c].kind \in Tasks!Kinds
        BY <1>2, <3>1, <3>2, TaskCallParts DEF CallsInv
      <4>2. Agrees(taskWrite[c].kind)'
        <5> PICK k : k = taskWrite[c].kind
          OBVIOUS
        <5>1. Agrees(k)'
          BY <2>0, <4>1
        <5> QED
          BY <1>1, <5>1 DEF Agrees, Known, TaskOf, Gone
      <4> QED
        BY <1>1, <4>1, <4>2 DEF RemovingInv, Gone
    <3>3. UpdatingInv'
      BY <1>1, <2>0 DEF UpdatingInv
    <3>4. ASSUME NEW c \in Writes, taskWrite[c].at = "writing", taskWrite[c].frame.op = "add" PROVE AddingInv(c)'
      <4> PICK k : k = taskWrite[c].kind
        OBVIOUS
      <4> PICK g : g = taskWrite[c].frame
        OBVIOUS
      <4> PICK o : o = Tasks!Other(k)
        OBVIOUS
      <4>1. \A t \in tasks : Gone(t.slot) \/ t = g.task
        BY <3>1, <3>4 DEF CallsInv, AddingInv
      <4>2. k \in Tasks!Kinds /\ o \in Tasks!Kinds /\ o # k /\ g.task.kind = k
        BY <1>2, <3>4, TaskCallParts, OtherKind DEF TaskLockInv
      <4>3. \A t \in tasks' : t.kind = k
        BY <1>1, <4>1, <4>2 DEF Gone
      <4>4. view'.of[o].settable # 1
        <5> SUFFICES ASSUME view'.of[o].settable = 1 PROVE FALSE
          OBVIOUS
        <5>1. [kind |-> o, day |-> view'.of[o].day, solar |-> FALSE, slot |-> view'.of[o].slot] \in tasks'
          BY <1>1, <1>4, <4>2, ViewFacts DEF TaskTypes
        <5> QED
          BY <4>2, <4>3, <5>1
      <4>5. Agrees(o)' /\ taskWrite'[c].kind = k /\ taskWrite'[c].frame = g
        BY <1>1, <1>3, <4>2
      <4>6. \A t \in tasks' : Gone(t.slot)' \/ t = g.task
        BY <1>1, <2>2, <4>1
      <4> QED
        BY <1>1, <4>4, <4>5, <4>6 DEF AddingInv
    <3> QED
      BY <1>1, <2>1, <3>1, <3>2, <3>3, <3>4 DEF DaysInv, CallsInv
  <2>4. CASE taskUnsure
    <3>1. holder = NoWrite /\ ~(Tasks!Cardinality(Tasks!DayTasks) > 1)
      BY <1>1, <1>6, <2>4
    <3>2. \A c \in Writes : taskWrite'[c].at = "idle"
      BY <1>1, <1>2, <3>1, Ocean2Assumption DEF TaskLockInv
    <3>3. DaysInv
      <4>1. PICK D : D = Tasks!DayTasks
        OBVIOUS
      <4>2. IsFiniteSet(D) /\ D = {t \in tasks : t.day}
        BY <1>2, <4>1, FS_Subset DEF TaskTypes, Tasks!DayTasks
      <4>3. Cardinality(D) \in Nat /\ ~(Cardinality(D) > 1)
        BY <3>1, <4>1, <4>2, SameCardinality, CountFacts
      <4>4. D = {} \/ \E t : D = {t}
        <5>1. Cardinality(D) = 0 \/ Cardinality(D) = 1
          BY <4>3
        <5> QED
          BY <4>2, <5>1, CountFacts, Zenon
      <4> QED
        BY <4>2, <4>4 DEF DaysInv
    <3> QED
      BY <1>1, <2>1, <3>2, <3>3 DEF DaysInv, CallsInv
  <2> QED
    BY <2>3, <2>4
<1> QED
  BY <1>4, <1>5, <1>6 DEF TaskInv, DayInv

\* The owner's edit shows in the list that comes with it.
LEMMA OwnerEditsHolds == ASSUME TaskInv, Tasks!OwnerEdits PROVE TaskInv'
<1>1. /\ taskFrames = <<>> /\ taskFrames' = <<>> /\ holder = NoWrite /\ view' = Tasks!ViewOf(tasks')
      /\ UNCHANGED <<taskWrite, holder, taskUnsure>>
      /\ \/ \E t \in tasks : tasks' = tasks \ {t}
         \/ \E t \in Tasks!OwnersTask : (\A u \in tasks : u.slot # t.slot) /\ tasks' = tasks \cup {t}
  BY DEF Tasks!OwnerEdits
<1>2. TaskTypes /\ TaskLockInv /\ OwnersInv
  BY DEF TaskInv
<1>3. IsFiniteSet(tasks) /\ tasks \subseteq Tasks!Task /\ \A t, u \in tasks : ~t.day /\ t.slot = u.slot => t = u
  BY <1>2 DEF TaskTypes, OwnersInv
<1>4. /\ tasks' \in SUBSET Tasks!Task /\ IsFiniteSet(tasks')
      /\ \A t, u \in tasks' : ~t.day /\ t.slot = u.slot => t = u
      /\ \A t \in tasks' : t.day => t \in tasks
  <2>1. ASSUME NEW t \in tasks, tasks' = tasks \ {t}
        PROVE  /\ tasks' \in SUBSET Tasks!Task /\ IsFiniteSet(tasks')
               /\ \A x, u \in tasks' : ~x.day /\ x.slot = u.slot => x = u
               /\ \A x \in tasks' : x.day => x \in tasks
    BY <1>3, <2>1, FS_Subset
  <2>2. ASSUME NEW t \in Tasks!OwnersTask, \A u \in tasks : u.slot # t.slot, tasks' = tasks \cup {t}
        PROVE  /\ tasks' \in SUBSET Tasks!Task /\ IsFiniteSet(tasks')
               /\ \A x, u \in tasks' : ~x.day /\ x.slot = u.slot => x = u
               /\ \A x \in tasks' : x.day => x \in tasks
    <3>1. t \in Tasks!Task /\ ~t.day
      BY DEF Tasks!OwnersTask
    <3>2. IsFiniteSet(tasks')
      BY <1>3, <2>2, FS_AddElement
    <3> QED
      BY <1>3, <2>2, <3>1, <3>2
  <2> QED
    BY <1>1, <2>1, <2>2
<1>5. /\ view' \in Views
      /\ \A t \in tasks' : t.slot <= view'.slotMax
      /\ \A k \in Tasks!Kinds : (Known(k) => Keeps([op |-> "update", task |-> TaskOf(k)]))' /\ Agrees(k)'
  BY <1>1, <1>4, Listed
<1>6. \A c \in Writes : taskWrite'[c].at = "idle"
  BY <1>1, <1>2, Ocean2Assumption DEF TaskLockInv
<1>7. TaskTypes' /\ TaskLockInv'
  BY <1>1, <1>2, <1>4, <1>5 DEF TaskTypes, TaskLockInv
<1>8. OwnersInv'
  BY <1>1, <1>4, <1>5, <1>6 DEF OwnersInv
<1>9. ASSUME ~taskUnsure PROVE DaysInv' /\ FramesInv' /\ FreeInv' /\ CallsInv'
  <2>1. DaysInv'
    BY <1>4, <1>9 DEF TaskInv, DayInv, DaysInv
  <2> QED
    <3>1. \A k \in Tasks!Kinds : Agrees(k)'
      BY <1>5
    <3>2. FramesInv' /\ FreeInv'
      BY <1>1, <3>1 DEF FramesInv, FreeInv
    <3> QED
      BY <1>6, <2>1, <3>2 DEF CallsInv
<1> QED
  BY <1>1, <1>7, <1>8, <1>9 DEF TaskInv, DayInv

LEMMA TaskStepHolds == ASSUME TaskInv, Tasks!Next PROVE TaskInv'
  BY SetPowerHolds, RemoveDoneHolds, WriteDoneHolds, SendFailsHolds, TakesHolds, ListArrivesHolds,
     OwnerEditsHolds DEF Tasks!Next

LEMMA TaskStays == ASSUME TaskInv, UNCHANGED <<holder, taskVars>> PROVE TaskInv'
  BY DEF taskVars, TaskInv, TaskTypes, TaskLockInv, OwnersInv, DayInv, DaysInv, FramesInv, FreeInv, CallsInv,
     RemovingInv, UpdatingInv, AddingInv, Agrees, Waits, Known, TaskOf, Gone, Keeps, NotOwned

\* Only the owner's edits end an owner's task.
LEMMA OwnersStayStep ==
  ASSUME TaskInv, Tasks!Next, NEW t \in tasks, ~t.day, t \notin tasks' PROVE Tasks!OwnerEdits
<1>1. CASE Tasks!DeviceTakes
  BY <1>1, TakesFacts DEF TaskInv
<1>2. ASSUME tasks' = tasks PROVE FALSE
  BY <1>2
<1> QED
  BY <1>1, <1>2 DEF Tasks!Next, Tasks!SetPower, Tasks!RemoveDone, Tasks!WriteDone, Tasks!SendFails, Tasks!ListArrives

LEMMA OneDay == ASSUME TaskInv PROVE Tasks!OneDayTask
<1>1. PICK D : D = {t \in tasks : t.day}
  OBVIOUS
<1>2. IsFiniteSet(D)
  BY <1>1, FS_Subset DEF TaskInv, TaskTypes
<1>3. ASSUME ~taskUnsure PROVE D = {} \/ \E t : D = {t}
  <2>1. \A t, u \in D : t = u
    BY <1>1, <1>3 DEF TaskInv, DayInv, DaysInv
  <2> QED
    BY <2>1
<1>4. ASSUME ~taskUnsure PROVE Tasks!Cardinality(D) <= 1
  <2>1. Cardinality(D) = 0 \/ Cardinality(D) = 1
    BY <1>2, <1>3, <1>4, CountFacts, Zenon
  <2> QED
    BY <2>1, SameCardinality
<1> QED
  BY <1>1, <1>4 DEF Tasks!OneDayTask

-----------------------------------------------------------------------------
(* SettingFrames: where a write builds on the store, the store has what the    *)
(* device has, but for what the owner has changed since (KnownFits).  It must: *)
(* a frame under way carries its neighbours as the store has them (RightBody), *)
(* and the device sets them.                                                   *)

Noted(x) == known[x] # Unset
Fits(x) == Noted(x) => known[x] = settings[x]

FrameTypes ==
    /\ form \in Frames!Forms
    /\ settings \in [Frames!Settings -> 0..Top] /\ DOMAIN known = Frames!Settings
    /\ \A x \in Frames!Settings :
          /\ settings[x] \in Frames!ValuesOf(x)
          /\ known[x] \in Frames!ValuesOf(x) \cup {Unset}
    /\ edited \subseteq Frames!Settings
    /\ form = "feed" => Noted("repeat")

\* Where the store is built on, it has what the device has, unless the owner has
\* changed it since.  A Delta 3's charge mode is the exception: a charge power takes
\* it along and the store does not learn of it.
KnownFits ==
    \A x \in Frames!Settings \ edited : (form = "delta3" => x # "mode") => Fits(x)
BuiltOn == Frames!SeedsStore \/ (Frames!FromReport /\ (fresh \/ outgoing # NoWrite))

\* A frame that carries its neighbours as the store has them, but for those that
\* move along.
PlainBody(s, v, b) ==
    /\ s \in DOMAIN b /\ b[s] = v
    /\ ~Frames!Incomplete(b)
    /\ \A x \in (DOMAIN b \cap Frames!Settings) \ {s} :
          /\ b[x] \in Frames!ValuesOf(x)
          /\ \/ Noted(x) /\ b[x] = known[x]
             \/ form \in {"limits", "plus"} /\ x = "ems"
             \/ form \in {"limits", "plus"} /\ x = "app" /\ Noted(x) /\ b[x] = v /\ known[x] <= v
             \/ form \in {"limits", "plus"} /\ x = "reserve" /\ Noted(x) /\ b[x] = v /\ v <= known[x]
             \/ s = "acPower" /\ x = "mode"
             \/ form = "ocean2follows" /\ s = "reserve" /\ x = "ratio" /\ Noted(x) /\ b[x] = v /\ known[x] < v
    /\ form = "limits" => {"app", "ems"} \subseteq DOMAIN b /\ b["ems"] = b["app"]
    /\ form \in {"current", "rod"} => DOMAIN b = {s}
    /\ form = "delta3" /\ "mode" \in DOMAIN b => s \in {"acPower", "mode"}

\* A frame of a task says "off" by leaving the flag out.
TaskBody(s, v, b) ==
    /\ IF s = "armed" THEN DOMAIN b = (IF v = 1 THEN {"armed"} ELSE {})
       ELSE /\ {"power", "plan"} \subseteq DOMAIN b /\ b["power"] = v /\ s = "power"
            /\ b["plan"] = known["plan"] /\ Noted("plan") /\ Noted("armed")
            /\ "armed" \in DOMAIN b <=> known["armed"] = 1
            /\ form = "feed" =>
                  IF known["repeat"] = 0 THEN "repeat" \notin DOMAIN b
                  ELSE "repeat" \in DOMAIN b /\ b["repeat"] = known["repeat"]
    /\ "armed" \in DOMAIN b => b["armed"] = 1

ActionBody(s, v, b) ==
    IF form = "relayed" THEN DOMAIN b = {"onOff"} /\ b["onOff"] = v + 1
    ELSE IF s = "running" THEN DOMAIN b = {"chargeCtrl"} /\ b["chargeCtrl"] = 2 - v
    ELSE DOMAIN b = {"current", "workMode"} /\ b["current"] = v

RightBody(s, v, b) ==
    IF form \in {"timer", "feed"} THEN TaskBody(s, v, b)
    ELSE IF form \in {"relayed", "own"} THEN ActionBody(s, v, b)
    ELSE PlainBody(s, v, b)

FrameInv ==
    /\ FrameTypes
    /\ BuiltOn => KnownFits
    /\ outgoing # NoWrite =>
          /\ ~fresh
          /\ outgoing.setting \in Frames!Written
          /\ outgoing.value \in Frames!ValuesOf(outgoing.setting)
          /\ RightBody(outgoing.setting, outgoing.value, outgoing.body)

LEMMA FormsAre ==
  Frames!Forms = {"timer", "feed", "limits", "plus", "stream", "pile", "current", "relayed", "own", "rod",
                  "delta3", "band", "grid", "ocean2", "ocean2follows"}
  BY DEF Frames!Forms, Frames!SettingsOf

LEMMA SettingsAre ==
  /\ form = "timer" => Frames!Settings = {"armed", "power", "plan"}
  /\ form = "feed" => Frames!Settings = {"armed", "power", "plan", "repeat"}
  /\ form = "limits" => Frames!Settings = {"reserve", "app", "ems"}
  /\ form = "plus" => Frames!Settings = {"reserve", "app"}
  /\ form = "stream" => Frames!Settings = {"charge", "discharge", "reserve"}
  /\ form = "pile" => Frames!Settings = {"solarBit", "priceBit", "led", "level"}
  /\ form = "current" => Frames!Settings = {"custom", "max", "mode"}
  /\ form = "relayed" => Frames!Settings = {"running"}
  /\ form = "own" => Frames!Settings = {"running", "current"}
  /\ form = "rod" => Frames!Settings = {"run", "temp"}
  /\ form = "delta3" => Frames!Settings = {"acPower", "mode", "limited", "cutoff"}
  /\ form = "band" => Frames!Settings = {"lower", "upper"}
  /\ form = "grid" => Frames!Settings = {"output", "input", "field4"}
  /\ form = "ocean2" => Frames!Settings = {"reserve", "ratio"}
  /\ form = "ocean2follows" => Frames!Settings = {"reserve", "ratio", "storm"}
  BY DEF Frames!Settings, Frames!SettingsOf

LEMMA TaskBuilt ==
  ASSUME FrameTypes, form \in {"timer", "feed"}, NEW s \in Frames!Written, NEW v \in Frames!ValuesOf(s),
         \A x \in Frames!Needs(s) : Noted(x)
  PROVE  TaskBody(s, v, Frames!Body(s, v))
<1>1. s \in {"armed", "power"}
  BY SettingsAre DEF Frames!Written
<1>2. s = "power" => Noted("armed") /\ Noted("plan")
  BY <1>1 DEF Frames!Needs, Frames!TimerEchoed, Frames!FeedEchoed
<1>3. PICK b : b = Frames!Body(s, v)
  OBVIOUS
<1>4. PICK these : /\ b = Frames!Asked(these, s, v)
                   /\ s = "armed" => these = Frames!ArmFlag(v)
                   /\ s = "power" => these = {"power", "plan"} \cup Frames!ArmFlag(known["armed"])
                                             \cup (IF form = "feed" THEN Frames!RepeatParam ELSE {})
  <2>1. CASE form = "timer"
    <3>1. b = Frames!TimerFrame(s, v)
      BY <1>1, <1>3, <2>1 DEF Frames!Body
    <3> QED
      BY <1>1, <2>1, <3>1 DEF Frames!TimerFrame
  <2>2. CASE form = "feed"
    <3>1. b = Frames!FeedFrame(s, v)
      BY <1>1, <1>3, <2>2 DEF Frames!Body
    <3> QED
      BY <1>1, <2>2, <3>1 DEF Frames!FeedFrame
  <2> QED
    BY <2>1, <2>2
<1>5. DOMAIN b = these /\ \A x \in these : b[x] = IF x = s THEN v ELSE known[x]
  BY <1>4 DEF Frames!Asked
<1>6. CASE s = "armed"
  <2>1. these = IF v = 1 THEN {"armed"} ELSE {}
    BY <1>4, <1>6 DEF Frames!ArmFlag
  <2> QED
    BY <1>3, <1>5, <1>6, <2>1 DEF TaskBody
<1>7. CASE s = "power"
  <2>1. /\ "armed" \in these <=> known["armed"] = 1
        /\ form = "feed" => ("repeat" \in these <=> known["repeat"] # 0)
        /\ {"power", "plan"} \subseteq these
    BY <1>4, <1>7 DEF Frames!ArmFlag, Frames!RepeatParam
  <2> QED
    BY <1>2, <1>3, <1>5, <1>7, <2>1 DEF TaskBody
<1> QED
  BY <1>1, <1>6, <1>7

LEMMA ActionBuilt ==
  ASSUME form \in {"relayed", "own"}, NEW s \in Frames!Written, NEW v \in Frames!ValuesOf(s)
  PROVE  ActionBody(s, v, Frames!Body(s, v))
<1>1. s \in {"running", "current"} /\ (form = "relayed" => s = "running")
  BY SettingsAre DEF Frames!Written
<1>2. s = "running" => v \in 0..1
  BY DEF Frames!ValuesOf, Frames!Switches
<1>3. PICK b : b = Frames!Body(s, v)
  OBVIOUS
<1>4. CASE form = "relayed"
  <2>1. b = Frames!RelayedAction(v)
    BY <1>1, <1>3, <1>4 DEF Frames!Body
  <2> QED
    BY <1>1, <1>2, <1>3, <1>4, <2>1 DEF ActionBody, Frames!RelayedAction, Frames!RelayedCodes, Frames!Field
<1>5. CASE form = "own" /\ s = "running"
  <2>1. b = Frames!OwnAction(v)
    BY <1>3, <1>5 DEF Frames!Body
  <2> QED
    BY <1>2, <1>3, <1>5, <2>1 DEF ActionBody, Frames!OwnAction, Frames!OwnCodes, Frames!Field
<1>6. CASE form = "own" /\ s = "current"
  <2>1. b = Frames!OwnCurrent(v)
    BY <1>3, <1>6 DEF Frames!Body
  <2> QED
    BY <1>3, <1>6, <2>1 DEF ActionBody, Frames!OwnCurrent
<1> QED
  BY <1>1, <1>4, <1>5, <1>6

LEMMA PlainBuilt ==
  ASSUME FrameTypes, form \notin {"timer", "feed", "relayed", "own"},
         NEW s \in Frames!Written, NEW v \in Frames!ValuesOf(s),
         \A x \in Frames!Needs(s) : Noted(x), Frames!Accepts(s, v)
  PROVE  PlainBody(s, v, Frames!Body(s, v))
<1>1. PICK b : b = Frames!Body(s, v)
  OBVIOUS
<1>2. form \in Frames!Forms /\ form # "timer" /\ form # "feed" /\ form # "relayed" /\ form # "own"
  BY DEF FrameTypes
<1>3. ASSUME b = Frames!Field(s, v), form # "limits", form = "stream" => s = "reserve", s # "acPower"
      PROVE  PlainBody(s, v, b)
  BY <1>2, <1>3 DEF PlainBody, Frames!Field, Frames!Incomplete
<1>4. ASSUME NEW these, b = Frames!Asked(these, s, v), s \in these, these \subseteq Frames!Settings,
             \A x \in these \ {s} : Noted(x),
             form \notin {"limits", "delta3", "current", "rod"}, form = "stream" => these = Frames!Settings
      PROVE  PlainBody(s, v, b)
  BY <1>2, <1>4 DEF PlainBody, Noted, Frames!Asked, Frames!Incomplete, FrameTypes
<1>5. CASE form \in {"limits", "plus"}
  <2>1. b = Frames!LimitsFrame(s, v) /\ s \in {"reserve", "app"}
    BY <1>1, <1>5, SettingsAre DEF Frames!Body, Frames!Written
  <2>2. \A x \in Frames!LimitPartner(s) : Noted(x)
    BY <1>5, <2>1 DEF Frames!Needs
  <2> QED
    BY <1>1, <1>5, <2>1, <2>2, SettingsAre, DeviceAssumption
    DEF PlainBody, Noted, Frames!LimitsFrame, Frames!LimitPair, Frames!LimitPartner, Frames!Incomplete, FrameTypes, Frames!ValuesOf,
        Frames!Switches
<1>6. CASE form = "stream"
  <2>1. s \in {"charge", "discharge", "reserve"}
    BY <1>6, SettingsAre DEF Frames!Written
  <2>2. CASE s = "reserve"
    <3>1. b = Frames!Field(s, v)
      BY <1>1, <1>6, <2>2 DEF Frames!Body, Frames!StreamReserveFrame
    <3> QED
      BY <1>1, <1>3, <1>6, <2>2, <3>1
  <2>3. CASE s # "reserve"
    <3>1. b = Frames!Asked(Frames!Settings, s, v)
      BY <1>1, <1>6, <2>1, <2>3, SettingsAre DEF Frames!Body, Frames!StreamLimitsFrame
    <3>2. Frames!Needs(s) = Frames!Settings
      BY <1>6, <2>1, <2>3 DEF Frames!Needs
    <3> QED
      BY <1>1, <1>4, <1>6, <3>1, <3>2 DEF Frames!Written
  <2> QED
    BY <2>2, <2>3
<1>7. CASE form = "pile"
  <2>1. s \in {"solarBit", "priceBit", "led", "level"}
    BY <1>7, SettingsAre DEF Frames!Written
  <2>2. CASE s \in {"solarBit", "priceBit"}
    <3>1. b = Frames!Asked({"solarBit", "priceBit"}, s, v) /\ Frames!Needs(s) = {"solarBit", "priceBit"}
      BY <1>1, <1>7, <2>2 DEF Frames!Body, Frames!SwitchBits, Frames!Needs
    <3> QED
      BY <1>1, <1>4, <1>7, <2>2, <3>1, SettingsAre
  <2>3. CASE s \in {"led", "level"}
    <3>1. b = Frames!Asked({"led", "level"}, s, v) /\ Frames!Needs(s) = {"led", "level"}
      BY <1>1, <1>7, <2>3 DEF Frames!Body, Frames!DisplayBlock, Frames!Needs
    <3> QED
      BY <1>1, <1>4, <1>7, <2>3, <3>1, SettingsAre
  <2> QED
    BY <2>1, <2>2, <2>3
<1>8. CASE form \in {"current", "rod"}
  <2>1. s \in {"custom", "max", "mode", "run", "temp"} /\ (form = "rod" => s \in {"run", "temp"})
        /\ (form = "current" => s \in {"custom", "max", "mode"})
    BY <1>8, SettingsAre DEF Frames!Written
  <2>2. b = Frames!Field(s, v)
    BY <1>1, <1>8, <2>1 DEF Frames!Body, Frames!CustomCurrentFrame, Frames!MaxCurrentFrame, Frames!ModeFrame, Frames!RodFrame
  <2> QED
    BY <1>1, <1>3, <1>8, <2>1, <2>2
<1>9. CASE form = "delta3"
  <2>1. s \in {"acPower", "mode", "limited", "cutoff"}
    BY <1>9, SettingsAre DEF Frames!Written
  <2>2. CASE s = "acPower"
    <3>1. b = Frames!ChargePowerFrame(v)
      BY <1>1, <1>9, <2>2 DEF Frames!Body
    <3> QED
      BY <1>1, <1>9, <2>2, <3>1, DeviceAssumption
      DEF PlainBody, Frames!ChargePowerFrame, Frames!Custom, Frames!Incomplete, Frames!ValuesOf, Frames!Switches
  <2>3. CASE s = "mode"
    <3>1. b = Frames!Field(s, v)
      BY <1>1, <1>9, <2>3 DEF Frames!Body, Frames!ModeFrame
    <3> QED
      BY <1>1, <1>3, <1>9, <2>3, <3>1
  <2>4. CASE s \in {"limited", "cutoff"}
    <3>1. b = Frames!Asked({"limited", "cutoff"}, s, v) /\ Frames!Needs(s) = {"limited", "cutoff"} \ {s}
      BY <1>1, <1>9, <2>4 DEF Frames!Body, Frames!PortItem, Frames!Needs
    <3> QED
      BY <1>1, <1>2, <1>9, <2>4, <3>1, SettingsAre DEF PlainBody, Noted, Frames!Asked, Frames!Incomplete, FrameTypes
  <2> QED
    BY <2>1, <2>2, <2>3, <2>4
<1>10. CASE form = "band"
  <2>1. s \in {"lower", "upper"}
    BY <1>10, SettingsAre DEF Frames!Written
  <2>2. b = Frames!Asked({"lower", "upper"}, s, v) /\ Frames!Needs(s) = {"lower", "upper"} \ {s}
    BY <1>1, <1>10, <2>1 DEF Frames!Body, Frames!BandFrame, Frames!Needs
  <2> QED
    BY <1>1, <1>4, <1>10, <2>1, <2>2, SettingsAre
<1>11. CASE form = "grid"
  <2>1. s \in {"output", "input"}
    BY <1>11, SettingsAre DEF Frames!Written
  <2>2. CASE s = "output"
    <3>1. b = Frames!Asked({"output", "field4"}, s, v) /\ Frames!Needs(s) = {"field4"}
      BY <1>1, <1>11, <2>2 DEF Frames!Body, Frames!GridOutputFrame, Frames!Needs
    <3> QED
      BY <1>1, <1>4, <1>11, <2>2, <3>1, SettingsAre
  <2>3. CASE s = "input"
    <3>1. b = Frames!Field(s, v)
      BY <1>1, <1>11, <2>3 DEF Frames!Body, Frames!GridInputFrame
    <3> QED
      BY <1>1, <1>3, <1>11, <2>3, <3>1
  <2> QED
    BY <2>1, <2>2, <2>3
<1>12. CASE form \in {"ocean2", "ocean2follows"}
  <2>1. s \in {"reserve", "storm"}
    BY <1>12, SettingsAre DEF Frames!Written
  <2>2. CASE s = "reserve"
    <3>1. b = Frames!Ocean2ReserveFrame(v) /\ Noted("ratio") /\ Frames!UnderRatio(v)
      BY <1>1, <1>12, <2>2 DEF Frames!Body, Frames!Needs, Frames!Accepts
    <3>2. known["ratio"] \in 0..Top /\ v \in 0..Top
      BY <1>12, <2>2, <3>1, SettingsAre DEF FrameTypes, Noted, Frames!ValuesOf, Frames!Switches
    <3> QED
      BY <1>1, <1>12, <2>2, <3>1, <3>2, DeviceAssumption
      DEF PlainBody, Frames!Ocean2ReserveFrame, Frames!Ratio, Frames!UnderRatio, Frames!Incomplete, Frames!ValuesOf, Frames!Switches
  <2>3. CASE s = "storm"
    <3>1. b = Frames!Field(s, v)
      BY <1>1, <1>12, <2>3 DEF Frames!Body, Frames!Ocean2StormFrame
    <3> QED
      BY <1>1, <1>3, <1>12, <2>3, <3>1
  <2> QED
    BY <2>1, <2>2, <2>3
<1> QED
  BY <1>2, <1>5, <1>6, <1>7, <1>8, <1>9, <1>10, <1>11, <1>12, FormsAre

\* What the device and the store make of a frame.
Stored(s, v, b, x) ==
    IF ~Frames!SeedsStore THEN known[x]
    ELSE IF x = s THEN v
    ELSE IF x \in DOMAIN b /\ form # "delta3" THEN b[x]
    ELSE known[x]

LEMMA FrameTaken ==
  ASSUME FrameTypes, BuiltOn => KnownFits, NEW s \in Frames!Written, NEW v \in Frames!ValuesOf(s), NEW b,
         RightBody(s, v, b), outgoing # NoWrite
  PROVE  /\ ~Frames!Incomplete(b)
         /\ Frames!Takes(b, s) = v
         /\ \A x \in Frames!Settings :
               /\ Frames!Takes(b, x) \in Frames!ValuesOf(x)
               /\ Stored(s, v, b, x) \in Frames!ValuesOf(x) \cup {Unset}
               /\ x \notin {s} \cup edited \cup Frames!MovesAlong(s, v) => Frames!Takes(b, x) = settings[x]
               /\ /\ Frames!SeedsStore /\ x \notin edited \ (DOMAIN b \cup {s})
                  /\ form = "delta3" => x # "mode"
                  => Stored(s, v, b, x) \in {Unset, Frames!Takes(b, x)}
         /\ form = "limits" /\ "ems" \notin edited => Frames!Takes(b, "ems") = Frames!Takes(b, "app")
         /\ form = "feed" => Stored(s, v, b, "repeat") # Unset
<1>1. CASE form \in {"timer", "feed"}
  <2>1. s \in {"armed", "power"} /\ s \in Frames!Settings
    BY <1>1, SettingsAre DEF Frames!Written
  <2>2. TaskBody(s, v, b)
    BY <1>1 DEF RightBody
  <2>3. KnownFits /\ Frames!SeedsStore
    BY <1>1 DEF BuiltOn, Frames!SeedsStore
  <2>4. \A x \in Frames!Settings : Frames!Takes(b, x) = Frames!TaskTakes(b, x)
    BY <1>1, SettingsAre DEF Frames!Takes
  <2>5. CASE s = "armed"
    <3>1. v \in 0..1 /\ DOMAIN b = (IF v = 1 THEN {"armed"} ELSE {}) /\ ("armed" \in DOMAIN b => b["armed"] = 1)
      BY <2>2, <2>5 DEF TaskBody, Frames!ValuesOf, Frames!Switches
    <3>2. Frames!Takes(b, "armed") = v
      BY <2>1, <2>4, <2>5, <3>1 DEF Frames!TaskTakes
    <3>3. \A x \in Frames!Settings \ {"armed"} : Frames!Takes(b, x) = settings[x]
      BY <2>4, <3>1 DEF Frames!TaskTakes
    <3>4. \A x \in Frames!Settings \ {"armed"} : Stored(s, v, b, x) = known[x]
      BY <2>3, <2>5, <3>1 DEF Stored
    <3>5. Stored(s, v, b, "armed") = v
      BY <2>3, <2>5 DEF Stored
    <3>6. \A x \in Frames!Settings \ {"armed"} : /\ x \notin edited => known[x] = Unset \/ known[x] = settings[x]
                                               /\ known[x] \in Frames!ValuesOf(x) \cup {Unset}
                                               /\ settings[x] \in Frames!ValuesOf(x)
      BY <1>1, <2>3 DEF FrameTypes, KnownFits, Fits, Noted
    <3>7. ~Frames!Incomplete(b) /\ form # "limits" /\ v \in Frames!ValuesOf("armed")
      BY <1>1, <2>5 DEF Frames!Incomplete
    <3>8. form = "feed" => Stored(s, v, b, "repeat") # Unset
      BY <3>4, SettingsAre DEF FrameTypes, Noted
    <3>9. \A x \in Frames!Settings : x # "armed" => x \notin DOMAIN b
      BY <3>1
    <3> QED
      BY <2>5, <3>2, <3>3, <3>4, <3>5, <3>6, <3>7, <3>8, <3>9
  <2>6. CASE s = "power"
    <3>1. /\ {"power", "plan"} \subseteq DOMAIN b /\ b["power"] = v
          /\ b["plan"] = known["plan"] /\ Noted("plan") /\ Noted("armed")
          /\ "armed" \in DOMAIN b <=> known["armed"] = 1
          /\ "armed" \in DOMAIN b => b["armed"] = 1
      BY <2>2, <2>6 DEF TaskBody
    <3>2. form = "feed" =>
             IF known["repeat"] = 0 THEN "repeat" \notin DOMAIN b
             ELSE "repeat" \in DOMAIN b /\ b["repeat"] = known["repeat"]
      BY <2>2, <2>6 DEF TaskBody
    <3>3. known["armed"] \in 0..1 /\ known["plan"] \in 0..Top /\ (form = "feed" => known["repeat"] \in 0..Top)
      BY <1>1, <3>1, SettingsAre DEF FrameTypes, Noted, Frames!ValuesOf, Frames!Switches
    <3>4. /\ Frames!Takes(b, "power") = v /\ Frames!Takes(b, "plan") = known["plan"]
          /\ Frames!Takes(b, "armed") = known["armed"]
          /\ form = "feed" => Frames!Takes(b, "repeat") = known["repeat"]
      BY <1>1, <2>4, <3>1, <3>2, <3>3, SettingsAre DEF Frames!TaskTakes
    <3>5. /\ Stored(s, v, b, "power") = v /\ Stored(s, v, b, "plan") = known["plan"]
          /\ Stored(s, v, b, "armed") = known["armed"]
          /\ form = "feed" => Stored(s, v, b, "repeat") = known["repeat"]
      BY <1>1, <2>3, <2>6, <3>1, <3>2 DEF Stored
    <3>6. \A x \in Frames!Settings : x # s => Frames!Takes(b, x) = known[x] /\ Stored(s, v, b, x) = known[x] /\ known[x] \in Frames!ValuesOf(x)
      BY <1>1, <2>6, <3>3, <3>4, <3>5, SettingsAre DEF Frames!ValuesOf, Frames!Switches
    <3>7. Noted("armed") /\ Noted("plan") /\ (form = "feed" => Noted("repeat"))
      BY <3>1 DEF FrameTypes
    <3>8. \A x \in Frames!Settings : x # s => Noted(x)
      BY <1>1, <2>6, <3>7, SettingsAre
    <3> QED
      BY <1>1, <2>1, <2>3, <2>6, <3>4, <3>5, <3>6, <3>8 DEF FrameTypes, KnownFits, Fits, Noted, Frames!Incomplete
  <2> QED
    BY <2>1, <2>5, <2>6
<1>2. CASE form \in {"relayed", "own"}
  <2>1. s \in {"running", "current"} /\ (form = "relayed" => s = "running") /\ s \in Frames!Settings
    BY <1>2, SettingsAre DEF Frames!Written
  <2>2. ActionBody(s, v, b)
    BY <1>2 DEF RightBody
  <2>3. \A x \in Frames!Settings : Stored(s, v, b, x) = known[x]
    BY <1>2 DEF Stored, Frames!SeedsStore
  <2>4. ~Frames!SeedsStore
    BY <1>2 DEF Frames!SeedsStore
  <2>5. s = "running" => v \in 0..1
    BY DEF Frames!ValuesOf, Frames!Switches
  <2>6. \A x \in Frames!Settings : Frames!Takes(b, x) = IF x = s THEN v ELSE settings[x]
    <3>1. CASE s = "running" /\ form = "relayed"
      BY <2>2, <2>5, <3>1, SettingsAre DEF Frames!Takes, ActionBody
    <3>2. CASE s = "running" /\ form = "own"
      BY <2>2, <2>5, <3>2, SettingsAre DEF Frames!Takes, ActionBody
    <3>3. CASE s = "current"
      BY <1>2, <2>1, <2>2, <3>3, SettingsAre DEF Frames!Takes, ActionBody
    <3> QED
      BY <1>2, <2>1, <3>1, <3>2, <3>3
  <2> QED
    BY <1>2, <2>1, <2>3, <2>4, <2>6 DEF FrameTypes, Frames!Incomplete
<1>3. CASE form \notin {"timer", "feed", "relayed", "own"}
  <2>1. PlainBody(s, v, b) /\ s \in Frames!Settings
    BY <1>3 DEF RightBody, Frames!Written
  <2>2. \A x \in Frames!Settings : x # "running"
    BY <1>3, SettingsAre, FormsAre DEF FrameTypes
  <2>3. \A x \in Frames!Settings : Frames!Takes(b, x) = IF x \in DOMAIN b THEN b[x] ELSE settings[x]
    BY <1>3, <2>2 DEF Frames!Takes
  <2>4. Frames!Takes(b, s) = v /\ ~Frames!Incomplete(b)
    BY <2>1, <2>3 DEF PlainBody
  <2>5. form = "limits" => Frames!Takes(b, "ems") = Frames!Takes(b, "app")
    BY <2>1, <2>3, SettingsAre DEF PlainBody
  <2>6. \A x \in Frames!Settings :
           /\ Frames!Takes(b, x) \in Frames!ValuesOf(x)
           /\ Stored(s, v, b, x) \in Frames!ValuesOf(x) \cup {Unset}
    BY <2>1, <2>3 DEF PlainBody, Stored, FrameTypes
  <2>7. ASSUME NEW x \in Frames!Settings, x \notin {s} \cup edited \cup Frames!MovesAlong(s, v)
        PROVE  Frames!Takes(b, x) = settings[x]
    <3>1. CASE x \notin DOMAIN b
      BY <2>3, <3>1
    <3>2. CASE x \in DOMAIN b
      <4>1. Frames!Takes(b, x) = b[x] /\ x # s
        BY <2>3, <2>7, <3>2
      <4>2. form \notin {"current", "rod"}
        BY <2>1, <3>2, <4>1 DEF PlainBody
      <4>3. KnownFits
        BY <1>3, <4>2, FormsAre DEF BuiltOn, FrameTypes, Frames!SeedsStore, Frames!FromReport
      <4>4. settings[x] \in 0..Top /\ v \in 0..Top \cup 0..1 /\ Top \in Nat
        BY DeviceAssumption DEF FrameTypes, Frames!ValuesOf
      <4>5. (form = "delta3" => x # "mode") => known[x] = Unset \/ known[x] = settings[x]
        BY <2>7, <4>3 DEF KnownFits, Fits, Noted
      <4>6. CASE form \in {"limits", "plus"}
        <5>1. s \in {"reserve", "app"} /\ x \in {"reserve", "app", "ems"}
          BY <4>6, SettingsAre DEF Frames!Written
        <5>2. x # "ems" /\ (x = "reserve" => ~(settings[x] > v)) /\ (x = "app" => ~(settings[x] < v))
          BY <2>7, <4>6, <5>1 DEF Frames!MovesAlong
        <5> QED
          BY <2>1, <3>2, <4>1, <4>4, <4>5, <4>6, <5>1, <5>2, DeviceAssumption DEF PlainBody, Noted
      <4>7. CASE form = "ocean2follows"
        <5>1. s \in {"reserve", "storm"} /\ x \in {"reserve", "ratio", "storm"}
          BY <4>7, SettingsAre DEF Frames!Written
        <5>2. s = "reserve" /\ x = "ratio" => ~(settings[x] < v)
          BY <2>7, <4>7 DEF Frames!MovesAlong
        <5> QED
          BY <2>1, <3>2, <4>1, <4>4, <4>5, <4>7, <5>1, <5>2, DeviceAssumption DEF PlainBody, Noted
      <4>8. CASE form = "delta3"
        <5>1. s \in {"acPower", "mode", "limited", "cutoff"}
          BY <4>8, SettingsAre DEF Frames!Written
        <5>2. s = "acPower" => x # "mode"
          BY <2>7, <4>8 DEF Frames!MovesAlong
        <5>3. x # "mode"
          BY <2>1, <3>2, <4>1, <4>8, <5>2 DEF PlainBody
        <5> QED
          BY <2>1, <3>2, <4>1, <4>5, <4>8, <5>3 DEF PlainBody, Noted
      <4>9. CASE form \notin {"limits", "plus", "ocean2follows", "delta3"}
        <5>1. x = "mode" => s # "acPower"
          BY <2>7, <4>9, <2>1, <1>3, SettingsAre, FormsAre DEF FrameTypes
        <5> QED
          BY <2>1, <3>2, <4>1, <4>5, <4>9, <5>1 DEF PlainBody, Noted
      <4> QED
        BY <4>6, <4>7, <4>8, <4>9
    <3> QED
      BY <3>1, <3>2
  <2>8. ASSUME NEW x \in Frames!Settings, Frames!SeedsStore, x \notin edited \ (DOMAIN b \cup {s}), form = "delta3" => x # "mode"
        PROVE  Stored(s, v, b, x) \in {Unset, Frames!Takes(b, x)}
    <3>1. KnownFits
      BY <2>8 DEF BuiltOn
    <3>2. CASE x = s
      BY <2>4, <2>8, <3>2 DEF Stored
    <3>3. CASE x # s /\ x \in DOMAIN b
      BY <2>1, <2>3, <2>8, <3>3 DEF Stored, PlainBody
    <3>4. CASE x # s /\ x \notin DOMAIN b
      BY <2>3, <2>8, <3>1, <3>4 DEF Stored, KnownFits, Fits, Noted
    <3> QED
      BY <3>2, <3>3, <3>4
  <2> QED
    BY <1>3, <2>4, <2>5, <2>6, <2>7, <2>8
<1> QED
  BY <1>1, <1>2, <1>3

LEMMA BodyStays ==
  ASSUME NEW s, NEW v, NEW b, RightBody(s, v, b), UNCHANGED <<form, known>> PROVE RightBody(s, v, b)'
<1>1. Frames!Incomplete(b)' <=> Frames!Incomplete(b)
  BY DEF Frames!Incomplete, Frames!Settings
<1>2. Frames!Settings' = Frames!Settings
  BY DEF Frames!Settings
<1>3. TaskBody(s, v, b) => TaskBody(s, v, b)'
  BY DEF TaskBody, Noted
<1>4. ActionBody(s, v, b) => ActionBody(s, v, b)'
  BY DEF ActionBody
<1>5. PlainBody(s, v, b) => PlainBody(s, v, b)'
  BY <1>1, <1>2 DEF PlainBody, Noted
<1> QED
  BY <1>3, <1>4, <1>5 DEF RightBody

LEMMA FramesInitHolds == ASSUME Frames!FramesInit PROVE FrameInv
<1>1. PICK missing : /\ known = [s \in Frames!Settings |-> IF s \in missing THEN Unset ELSE settings[s]]
                     /\ missing = {} \/ \E s \in Frames!Settings \ {"repeat"} : missing = {s}
  BY DEF Frames!FramesInit
<1>2. "repeat" \notin missing /\ DOMAIN known = Frames!Settings
      /\ \A s \in Frames!Settings : known[s] = IF s \in missing THEN Unset ELSE settings[s]
  BY <1>1
<1>3. /\ form \in Frames!Forms /\ settings \in [Frames!Settings -> 0..Top]
      /\ \A x \in Frames!Settings : settings[x] \in Frames!ValuesOf(x)
      /\ outgoing = NoWrite /\ edited = {}
  BY DEF Frames!FramesInit
<1>4. \A x \in Frames!Settings : settings[x] # Unset /\ settings[x] \in 0..Top
  BY <1>3, DeviceAssumption
<1>5. form = "feed" => Noted("repeat")
  BY <1>2, <1>4, SettingsAre DEF Noted
<1>6. FrameTypes
  BY <1>2, <1>3, <1>5 DEF FrameTypes
<1>7. KnownFits
  BY <1>2 DEF KnownFits, Fits, Noted
<1> QED
  BY <1>3, <1>6, <1>7 DEF FrameInv

LEMMA AskHolds ==
  ASSUME FrameInv, NEW s \in Frames!Written, NEW v \in Frames!ValuesOf(s), Frames!Ask(s, v) PROVE FrameInv'
<1>1. UNCHANGED <<form, settings, known, edited>> /\ (Frames!FromReport => fresh)
      /\ (\A x \in Frames!Needs(s) : Noted(x)) /\ Frames!Accepts(s, v)
  BY DEF Frames!Ask, Noted
<1>2. PICK b : b = Frames!Body(s, v)
  OBVIOUS
<1>3. outgoing'.setting = s /\ outgoing'.value = v /\ outgoing'.body = b
  BY <1>2 DEF Frames!Ask
<1>4. RightBody(s, v, b)
  BY <1>1, <1>2, TaskBuilt, ActionBuilt, PlainBuilt DEF RightBody, FrameInv
<1>5. RightBody(s, v, b)'
  BY <1>1, <1>4, BodyStays
<1>6. Frames!Settings' = Frames!Settings /\ Frames!Written' = Frames!Written
      /\ Frames!Forms' = Frames!Forms /\ (Frames!SeedsStore' <=> Frames!SeedsStore) /\ (Frames!FromReport' <=> Frames!FromReport)
  BY <1>1 DEF Frames!Settings, Frames!Written, Frames!SeedsStore, Frames!FromReport
<1>7. FrameTypes'
  BY <1>1, <1>6 DEF FrameInv, FrameTypes, Noted
<1>8. KnownFits => KnownFits'
  BY <1>1, <1>6 DEF KnownFits, Fits, Noted
<1>9. BuiltOn' => KnownFits
  BY <1>1, <1>6 DEF BuiltOn, FrameInv
<1> QED
  BY <1>3, <1>5, <1>6, <1>7, <1>8, <1>9 DEF FrameInv, Frames!Ask

LEMMA FrameTakesHolds ==
  ASSUME FrameInv, Frames!DeviceTakes
  PROVE  /\ FrameInv'
         /\ settings'[outgoing.setting] = outgoing.value
         /\ \A x \in Frames!Settings \ ({outgoing.setting} \cup edited
                                           \cup Frames!MovesAlong(outgoing.setting, outgoing.value)) :
                settings'[x] = settings[x]
         /\ form = "limits" /\ "ems" \notin edited => settings'["ems"] = settings'["app"]
<1>1. PICK s, v, b : s = outgoing.setting /\ v = outgoing.value /\ b = outgoing.body
  OBVIOUS
<1>2. /\ outgoing # NoWrite /\ outgoing' = NoWrite /\ UNCHANGED <<form, fresh>>
      /\ edited' = edited \ (DOMAIN b \cup {s})
  BY <1>1 DEF Frames!DeviceTakes
<1>3. s \in Frames!Written /\ v \in Frames!ValuesOf(s) /\ RightBody(s, v, b) /\ s \in Frames!Settings
      /\ FrameTypes /\ (BuiltOn => KnownFits)
  BY <1>1, <1>2 DEF FrameInv, Frames!Written
<1>4. /\ ~Frames!Incomplete(b)
      /\ Frames!Takes(b, s) = v
      /\ \A x \in Frames!Settings :
            /\ Frames!Takes(b, x) \in Frames!ValuesOf(x)
            /\ Stored(s, v, b, x) \in Frames!ValuesOf(x) \cup {Unset}
            /\ x \notin {s} \cup edited \cup Frames!MovesAlong(s, v) => Frames!Takes(b, x) = settings[x]
            /\ /\ Frames!SeedsStore /\ x \notin edited \ (DOMAIN b \cup {s})
               /\ form = "delta3" => x # "mode"
               => Stored(s, v, b, x) \in {Unset, Frames!Takes(b, x)}
      /\ form = "limits" /\ "ems" \notin edited => Frames!Takes(b, "ems") = Frames!Takes(b, "app")
      /\ form = "feed" => Stored(s, v, b, "repeat") # Unset
  BY <1>2, <1>3, FrameTaken
<1>5. settings' = [x \in Frames!Settings |-> Frames!Takes(b, x)]
  BY <1>1, <1>4 DEF Frames!DeviceTakes
<1>6. known' = [x \in Frames!Settings |-> Stored(s, v, b, x)]
  BY <1>1 DEF Frames!DeviceTakes, Stored
<1>7. /\ DOMAIN settings' = Frames!Settings /\ DOMAIN known' = Frames!Settings
      /\ \A x \in Frames!Settings : settings'[x] = Frames!Takes(b, x) /\ known'[x] = Stored(s, v, b, x)
  BY <1>5, <1>6
<1>8. Frames!Settings' = Frames!Settings /\ (Frames!SeedsStore' <=> Frames!SeedsStore)
  BY <1>2 DEF Frames!Settings, Frames!SeedsStore
<1>9. FrameTypes'
  <2>1. \A x \in Frames!Settings : Frames!ValuesOf(x) \subseteq 0..Top
    BY DeviceAssumption DEF Frames!ValuesOf
  <2>2. settings' \in [Frames!Settings -> 0..Top]
    BY <1>4, <1>5, <2>1
  <2>3. form = "feed" => known'["repeat"] # Unset
    BY <1>4, <1>7, SettingsAre
  <2>4. edited' \subseteq Frames!Settings
    BY <1>2, <1>3 DEF FrameTypes
  <2>5. Frames!Forms' = Frames!Forms
    OBVIOUS
  <2> QED
    BY <1>2, <1>3, <1>4, <1>7, <1>8, <2>2, <2>3, <2>4, <2>5 DEF FrameTypes, Noted
<1>10. BuiltOn' => KnownFits'
  <2>1. ASSUME Frames!SeedsStore PROVE KnownFits'
    BY <1>2, <1>4, <1>7, <1>8, <2>1 DEF KnownFits, Fits, Noted
  <2>2. Frames!FromReport' <=> Frames!FromReport
    BY <1>2 DEF Frames!FromReport
  <2>3. ~fresh'
    BY <1>2 DEF FrameInv
  <2> QED
    BY <1>2, <1>8, <2>1, <2>2, <2>3 DEF BuiltOn
<1>11. FrameInv'
  BY <1>2, <1>9, <1>10 DEF FrameInv
<1> QED
  BY <1>1, <1>3, <1>4, <1>7, <1>11, SettingsAre

LEMMA OthersHold ==
  ASSUME FrameInv, Frames!FrameLost \/ Frames!ReportComes PROVE FrameInv'
<1>1. form' = form /\ settings' = settings /\ outgoing' = NoWrite
  BY DEF Frames!FrameLost, Frames!ReportComes
<1>2. Frames!Settings' = Frames!Settings /\ Frames!Forms' = Frames!Forms
      /\ (Frames!SeedsStore' <=> Frames!SeedsStore) /\ (Frames!FromReport' <=> Frames!FromReport)
  BY <1>1 DEF Frames!Settings, Frames!SeedsStore, Frames!FromReport
<1>3. CASE Frames!FrameLost
  <2>1. known' = known /\ edited' = edited /\ fresh' = fresh /\ outgoing # NoWrite
    BY <1>3 DEF Frames!FrameLost
  <2>2. FrameTypes'
    BY <1>1, <1>2, <2>1 DEF FrameInv, FrameTypes, Noted
  <2>3. KnownFits => KnownFits'
    BY <1>1, <1>2, <2>1 DEF KnownFits, Fits, Noted
  <2>4. BuiltOn' => BuiltOn
    BY <1>1, <1>2, <2>1 DEF BuiltOn
  <2> QED
    BY <1>1, <2>2, <2>3, <2>4 DEF FrameInv
<1>4. CASE Frames!ReportComes
  <2>1. known' = settings /\ edited' = {}
    BY <1>4 DEF Frames!ReportComes
  <2>2. \A x \in Frames!Settings : settings[x] \in 0..Top /\ settings[x] # Unset
    BY DeviceAssumption DEF FrameInv, FrameTypes
  <2>3. FrameTypes'
    BY <1>1, <1>2, <2>1, <2>2, SettingsAre DEF FrameInv, FrameTypes, Noted
  <2>4. KnownFits'
    BY <1>1, <1>2, <2>1 DEF KnownFits, Fits, Noted
  <2> QED
    BY <1>1, <2>3, <2>4 DEF FrameInv
<1> QED
  BY <1>3, <1>4

LEMMA EditHolds ==
  ASSUME FrameInv, NEW x \in Frames!Settings, NEW v \in Frames!ValuesOf(x), Frames!OwnerEdits(x, v)
  PROVE  FrameInv'
<1>1. /\ edited \subseteq {x} /\ settings' = [settings EXCEPT ![x] = v] /\ edited' = {x}
      /\ UNCHANGED <<form, known, outgoing, fresh>>
  BY DEF Frames!OwnerEdits
<1>2. Frames!Settings' = Frames!Settings /\ Frames!Forms' = Frames!Forms /\ Frames!Written' = Frames!Written
      /\ (Frames!SeedsStore' <=> Frames!SeedsStore) /\ (Frames!FromReport' <=> Frames!FromReport)
  BY <1>1 DEF Frames!Settings, Frames!SeedsStore, Frames!FromReport, Frames!Written
<1>3. v \in 0..Top
  BY DeviceAssumption DEF Frames!ValuesOf
<1>4. settings' \in [Frames!Settings -> 0..Top] /\ settings'[x] = v
      /\ \A y \in Frames!Settings : y # x => settings'[y] = settings[y]
  BY <1>1, <1>3 DEF FrameInv, FrameTypes
<1>5. FrameTypes'
  BY <1>1, <1>2, <1>4 DEF FrameInv, FrameTypes, Noted
<1>6. KnownFits => KnownFits'
  BY <1>1, <1>2, <1>4 DEF KnownFits, Fits, Noted
<1>7. BuiltOn' => BuiltOn
  BY <1>1, <1>2 DEF BuiltOn
<1>8. \A s, w, b : RightBody(s, w, b) => RightBody(s, w, b)'
  BY <1>1, BodyStays
<1> QED
  BY <1>1, <1>2, <1>5, <1>6, <1>7, <1>8 DEF FrameInv

LEMMA FrameStepHolds == ASSUME FrameInv, Frames!FramesNext PROVE FrameInv'
  BY AskHolds, FrameTakesHolds, OthersHold, EditHolds DEF Frames!FramesNext

LEMMA FramesStay == ASSUME FrameInv, UNCHANGED frameVars PROVE FrameInv'
<1>1. UNCHANGED <<form, settings, known, outgoing, fresh, edited>>
  BY DEF frameVars
<1>2. Frames!Settings' = Frames!Settings /\ Frames!Forms' = Frames!Forms /\ Frames!Written' = Frames!Written
      /\ (Frames!SeedsStore' <=> Frames!SeedsStore) /\ (Frames!FromReport' <=> Frames!FromReport)
  BY <1>1 DEF Frames!Settings, Frames!SeedsStore, Frames!FromReport, Frames!Written
<1>3. FrameTypes'
  BY <1>1, <1>2 DEF FrameInv, FrameTypes, Noted
<1>4. KnownFits => KnownFits'
  BY <1>1, <1>2 DEF KnownFits, Fits, Noted
<1>5. BuiltOn' => BuiltOn
  BY <1>1, <1>2 DEF BuiltOn
<1>6. \A s, w, b : RightBody(s, w, b) => RightBody(s, w, b)'
  BY <1>1, BodyStays
<1> QED
  BY <1>1, <1>2, <1>3, <1>4, <1>5, <1>6 DEF FrameInv

-----------------------------------------------------------------------------
(* The coordinator of one device: each step is a step of the writes of its     *)
(* family, and leaves the state of the others alone.                           *)

\* A step of the device is one of its family's writes, or none of the part's.
LEMMA PartSteps ==
  ASSUME [DeviceNext]_deviceVars
  PROVE  /\ family' = family /\ (family # "ocean2" => shutdown' = shutdown \/ shutdown')
         /\ family = "ocean2" => [Next]_vars
         /\ family # "ocean2" => UNCHANGED oceanVars
         /\ family = "grouped" => Group!Next \/ UNCHANGED <<holder, groupVars>>
         /\ family # "grouped" => UNCHANGED groupVars
         /\ family = "climate" => Climate!ClimateNext \/ UNCHANGED climateVars
         /\ family # "climate" => UNCHANGED climateVars
         /\ family = "tasks" => Tasks!Next \/ UNCHANGED <<holder, taskVars>>
         /\ family # "tasks" => UNCHANGED taskVars
         /\ family = "frames" => Frames!FramesNext \/ UNCHANGED frameVars
         /\ family # "frames" => UNCHANGED frameVars
<1>1. CASE UNCHANGED deviceVars
  BY <1>1 DEF deviceVars, oceanVars, groupVars, taskVars, frameVars, climateVars, vars
<1>2. CASE Ocean2Step
  BY <1>2 DEF Ocean2Step
<1>3. CASE GroupedStep
  <2>1. shutdown' = shutdown \/ shutdown'
    BY <1>3 DEF GroupedStep, Group!Next, Group!Write, Group!Publish, Group!Delivered, Group!NotDelivered,
       Group!DeviceTakes, Group!DeviceReports, Group!ReportArrives, Group!HoldExpires, Group!Shutdown
  <2> QED
    BY <1>3, <2>1 DEF GroupedStep
<1>4. CASE TasksStep
  BY <1>4 DEF TasksStep
<1>5. CASE FramesStep
  BY <1>5 DEF FramesStep
<1>6. CASE ClimateStep
  BY <1>6 DEF ClimateStep
<1> QED
  BY <1>1, <1>2, <1>3, <1>4, <1>5, <1>6 DEF DeviceNext

LEMMA GroupStays == ASSUME GroupInv, UNCHANGED <<holder, groupVars>> PROVE GroupInv'
  BY DEF groupVars, GroupInv, GroupTypes, GroupLockInv, ComingInv, PairInv, FlagInv, HeldInv,
     FlagSendingInv, SteadyInv, Steady, FlagSending, FlagOut, Sending, Published, FrameOf, Group!Carried

LEMMA ClimateStays == ASSUME ClimateInv, UNCHANGED climateVars PROVE ClimateInv'
  BY DEF climateVars, ClimateInv, ClimateTypes, CallInv, SettledInv, SwitchedInv, UntouchedInv, ReadyInv

\* No write of an Ocean 2 device was refused that is still shown, on any device
\* (_ocean2_reject_write and the end of _ocean2_publish).
THEOREM DeviceShowsNoRefusal == DeviceSpec => []RefusedNotShown
<1> DEFINE Served == IF family = "ocean2" THEN Ocean2Inv ELSE \A k \in Keys : ~Seeded(k)
<1>1. DeviceInit => Served
  BY InitHolds DEF DeviceInit, FollowInv, Init, Seeded
<1>2. ASSUME Served, [DeviceNext]_deviceVars PROVE Served'
  <2>1. CASE family = "ocean2"
    BY <1>2, <2>1, PartSteps, Ocean2StepHolds
  <2>2. CASE family # "ocean2"
    BY <1>2, <2>2, PartSteps DEF oceanVars, Seeded
  <2> QED
    BY <2>1, <2>2
<1>3. Served => RefusedNotShown
  BY DEF Ocean2Inv, SeedInv, Seeded, RefusedNotShown
<1> HIDE DEF Served
<1> QED
  BY <1>1, <1>2, <1>3, PTL DEF DeviceSpec

\* Both settings of an Ocean 2 device are optimistic values on every coordinator; the
\* other families have no such setting and never show one (set_commands.py).
THEOREM DeviceIsOptimistic ==
  ASSUME "request" \notin Overlap PROVE DeviceSpec => Ocean2Honest
<1> DEFINE Served == family = "ocean2" => FollowInv
<1>1. DeviceInit => Served /\ Reserve!Init /\ StormGuard!Init
  BY InitHolds DEF DeviceInit, Init, Keys, Reserve!Init, StormGuard!Init
<1>2. ASSUME Served, [DeviceNext]_deviceVars
      PROVE  Served' /\ [Reserve!Next]_(Reserve!vars) /\ [StormGuard!Next]_(StormGuard!vars)
  <2>1. CASE family = "ocean2"
    BY <1>2, <2>1, PartSteps, FollowStep, ReserveStep, StormGuardStep
  <2>2. CASE family # "ocean2"
    <3>1. UNCHANGED <<store, seed, told, record>> /\ family' # "ocean2" /\ (shutdown' = shutdown \/ shutdown')
      BY <1>2, <2>2, PartSteps DEF oceanVars
    <3> QED
      BY <3>1 DEF Reserve!Next, StormGuard!Next, Reserve!vars, StormGuard!vars
  <2> QED
    BY <2>1, <2>2
<1> HIDE DEF Served
<1> QED
  BY <1>1, <1>2, PTL DEF DeviceSpec, Ocean2Honest, Reserve!Spec, StormGuard!Spec

\* A write of one setting carries the others along as they are or are about to be
\* (_build_frame of the grouped writes, latch_schedule_armed, _resolve_schedule_armed).
THEOREM OthersAreKept == ASSUME ~Hurried PROVE DeviceSpec => OthersKept
<1> DEFINE Served == IF family = "grouped" THEN GroupInv ELSE groupWrite = [w \in Writes |-> Group!Idle]
<1>1. DeviceInit => Served
  BY GroupInitHolds DEF DeviceInit
<1>2. ASSUME Served, [DeviceNext]_deviceVars PROVE Served'
  <2>1. CASE family = "grouped"
    BY <1>2, <2>1, PartSteps, GroupStepHolds, GroupStays
  <2>2. CASE family # "grouped"
    BY <1>2, <2>2, PartSteps DEF groupVars, Group!Idle
  <2> QED
    BY <2>1, <2>2
<1>3. ASSUME Served, [DeviceNext]_deviceVars
      PROVE  [\A c \in Writes, f \in Group!Fields, v \in Levels : Group!Write(c, f, v) =>
                  \A g \in Group!Carried(f) \ {f} : g \in unsure \/ Group!Frame(f, v)[g] = coming[g]]_(Group!vars)
  <2>1. CASE family = "grouped"
    BY <1>3, <2>1, OthersStepHolds
  <2>2. CASE family # "grouped"
    <3>1. groupWrite' = groupWrite /\ groupWrite = [w \in Writes |-> Group!Idle]
      BY <1>3, <2>2, PartSteps DEF groupVars
    <3>2. ASSUME NEW c \in Writes, NEW f \in Group!Fields, NEW v \in Levels, Group!Write(c, f, v) PROVE FALSE
      <4>1. groupWrite[c].at = "idle" /\ groupWrite'[c].at = "sending"
        BY <3>1, <3>2 DEF Group!Write, Group!Idle
      <4> QED
        BY <3>1, <4>1
    <3> QED
      BY <3>2
  <2> QED
    BY <2>1, <2>2
<1> HIDE DEF Served
<1> QED
  BY <1>1, <1>2, <1>3, PTL DEF DeviceSpec, OthersKept, Group!OthersKept

\* The device never holds two whole-day tasks, and only the owner's edits end an owner's
\* task (async_set_stream_ac5000_task_power, _remove_stream_ac5000_task).
THEOREM TasksAreKept == DeviceSpec => TasksKept
<1> DEFINE Served == IF family = "tasks" THEN TaskInv ELSE tasks = {}
<1>1. DeviceInit => Served
  BY TaskInitHolds DEF DeviceInit
<1>2. ASSUME Served, [DeviceNext]_deviceVars PROVE Served'
  <2>1. CASE family = "tasks"
    BY <1>2, <2>1, PartSteps, TaskStepHolds, TaskStays
  <2>2. CASE family # "tasks"
    BY <1>2, <2>2, PartSteps DEF taskVars
  <2> QED
    BY <2>1, <2>2
<1>3. Served => Tasks!OneDayTask
  <2>1. Tasks!Cardinality({}) = 0
    BY SameCardinality, FS_EmptySet
  <2>2. CASE tasks = {}
    BY <2>1, <2>2 DEF Tasks!OneDayTask
  <2> QED
    BY <2>2, OneDay
<1>4. ASSUME Served, [DeviceNext]_deviceVars
      PROVE  [\A t \in tasks : ~t.day /\ t \notin tasks' => Tasks!OwnerEdits]_(Tasks!vars)
  <2>1. CASE family = "tasks"
    <3>1. CASE Tasks!Next
      BY <1>4, <2>1, <3>1, OwnersStayStep
    <3>2. CASE UNCHANGED <<holder, taskVars>>
      BY <3>2 DEF taskVars
    <3> QED
      BY <1>4, <2>1, <3>1, <3>2, PartSteps
  <2>2. CASE family # "tasks"
    BY <1>4, <2>2
  <2> QED
    BY <2>1, <2>2
<1> HIDE DEF Served
<1> QED
  BY <1>1, <1>2, <1>3, <1>4, PTL DEF DeviceSpec, TasksKept, Tasks!OwnersTasksStay

\* A set point sent after a switch of the mode lands: the wait for the unit's own report
\* outlasts the window in which it hears nothing (_async_wait_for_mode).
THEOREM SetpointsLand ==
  ASSUME SettledFirst, ~RestartSettles PROVE DeviceSpec => []SetpointLands
<1> DEFINE Served == IF family = "climate" THEN ClimateInv ELSE ~dropped
<1>1. DeviceInit => Served
  BY ClimateInitHolds DEF DeviceInit
<1>2. ASSUME Served, [DeviceNext]_deviceVars PROVE Served'
  <2>1. CASE family = "climate"
    BY <1>2, <2>1, PartSteps, ClimateStepHolds, ClimateStays
  <2>2. CASE family # "climate"
    BY <1>2, <2>2, PartSteps DEF climateVars
  <2> QED
    BY <2>1, <2>2
<1>3. Served => SetpointLands
  BY DEF ClimateInv, SetpointLands, Climate!SetpointLands
<1> HIDE DEF Served
<1> QED
  BY <1>1, <1>2, <1>3, PTL DEF DeviceSpec

\* A frame of one setting moves that setting, what moves along with it by design, and no
\* other that the owner has left alone since the last report, in any of the groups of
\* settings (build_timer_task_set_payload and the builders beside it).
THEOREM FramesMoveNothingElse == DeviceSpec => NothingElseMoves
<1> DEFINE Served == IF family = "frames" THEN FrameInv ELSE outgoing = NoWrite
           Moved ==
               /\ settings'[outgoing.setting] = outgoing.value
               /\ \A x \in Frames!Settings \ ({outgoing.setting} \cup edited
                                                 \cup Frames!MovesAlong(outgoing.setting, outgoing.value)) :
                      settings'[x] = settings[x]
               /\ form = "limits" /\ "ems" \notin edited => settings'["ems"] = settings'["app"]
<1>1. DeviceInit => Served
  BY FramesInitHolds DEF DeviceInit
<1>2. ASSUME Served, [DeviceNext]_deviceVars PROVE Served'
  <2>1. CASE family = "frames"
    BY <1>2, <2>1, PartSteps, FrameStepHolds, FramesStay
  <2>2. CASE family # "frames"
    BY <1>2, <2>2, PartSteps DEF frameVars
  <2> QED
    BY <2>1, <2>2
<1>3. ASSUME Served, [DeviceNext]_deviceVars PROVE [Frames!DeviceTakes => Moved]_(Frames!frameVars)
  <2>1. CASE family = "frames"
    BY <1>3, <2>1, FrameTakesHolds
  <2>2. CASE family # "frames"
    <3>1. ~Frames!DeviceTakes
      BY <1>3, <2>2 DEF Frames!DeviceTakes
    <3> QED
      BY <3>1
  <2> QED
    BY <2>1, <2>2
<1> HIDE DEF Served
<1> QED
  BY <1>1, <1>2, <1>3, PTL DEF DeviceSpec, NothingElseMoves, Frames!NothingElseMoves
=============================================================================
