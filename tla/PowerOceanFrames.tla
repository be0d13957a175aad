--------------------------- MODULE PowerOceanFrames ---------------------------
(* How a PowerOcean's frames become readings.  A frame is an envelope of       *)
(* headers, each with a command and a payload of its own; the network thread   *)
(* decodes them (proto/runtime.py), numbers packs and inverters by serial,     *)
(* keeps what it knows of the schedule list (parsers/powerocean_proto.py,      *)
(* mqtt_ingest.py), and posts one merged message to the event loop.  The reply *)
(* to a get-all carries most commands twice and the copies may disagree.       *)
(* Serials are numbers, for their order.                                       *)
EXTENDS Integers, Sequences, FiniteSets, SequencesExt

CONSTANTS
    Tasks,          \* schedule slots
    Packs, PackSlots,          \* battery packs; the five pack entities
    Inverters, InverterSlots,  \* inverters run in parallel; PARALLEL_UNIT_MAX
    FirstReadable,  \* the first copy of a list in a reply can always be read
    Prompt,         \* the event loop applies a message before the next is parsed
    MaxSent, MaxStarts

VARIABLES
    sent, starts,  \* frames and reloads so far
    known,      \* _schedule_indices, _feed_schedule_indices
    packNo,     \* _bp_sn_to_index
    inverterNo, \* _unit_sn_to_index
    posted,     \* call_soon_threadsafe: messages the loop has not applied
    store,      \* _device_data
    said,       \* history: each list as the device held it when it sent the newest one read
    called      \* history: the serials whose readings a number has shown

parserVars == <<known, packNo, inverterNo>>
frameVars == <<sent, starts, parserVars, posted, store, said, called>>

Slots == {<<"pack", n>> : n \in 1..PackSlots} \cup {<<"inverter", n>> : n \in 1..InverterSlots}
Rod == <<"rod", 0>>
Share == <<"share", 0>>
Live == <<"live", 0>>
Lists == {"timer", "feed"}      \* charge tasks and feed-to-grid tasks

Nothing == [key \in {} |-> ""]
One(key, value) == [x \in {key} |-> value]
Merged(new, old) ==
    [key \in DOMAIN new \cup DOMAIN old |-> IF key \in DOMAIN new THEN new[key] ELSE old[key]]

FramesInit ==
    /\ sent = 0 /\ starts = 0
    /\ known = [l \in Lists |-> {}] /\ packNo = Nothing /\ inverterNo = Nothing
    /\ posted = <<>> /\ store = Nothing
    /\ said = [l \in Lists |-> {}] /\ called = [s \in Slots |-> {}]

-----------------------------------------------------------------------------
(* Decoding one header.                                                        *)

Header(cmd, form, body) == [cmd |-> cmd, form |-> form, body |-> body]

\* "flagged" is marked as masked and is not; "sealed" is masked without the sequence
\* number that unmasks it.  A payload of no bytes has no form.
Forms == {"plain", "masked", "flagged", "sealed"}
Plain(list) == IF list = {} THEN "empty" ELSE "plain"
FormsOf(list) == IF list = {} THEN {"empty"} ELSE Forms

\* The readings of a payload to try, best first: "noise" holds no declared field.
Candidates(form) ==
    CASE form = "plain"   -> <<"content">>
      [] form = "masked"  -> <<"content", "noise">>
      [] form = "flagged" -> <<"noise", "content">>
      [] OTHER            -> <<>>
CarriesNothing(form) == form = "empty"
MeansEmpty(cmd) == cmd \in Lists

Decodes(h) ==
    \/ Contains(Candidates(h.form), "content")
    \/ CarriesNothing(h.form) /\ MeansEmpty(h.cmd)

-----------------------------------------------------------------------------
(* Reading one header into the message, with what the network thread keeps.    *)

LastCopyWins(cmd) == FALSE
FirstCopyWins(cmd) == cmd \in Lists \cup {"live", "inverters"}

\* Serials without a number get the next ones, in the order of their places.
NextNumbers(numbers, place) ==
    LET new == DOMAIN place \ DOMAIN numbers
        Before(s) == {r \in new : place[r] <= place[s]}
    IN  Merged(numbers, [s \in new |-> Cardinality(DOMAIN numbers) + Cardinality(Before(s))])

\* Packs are numbered as they come; a message is read for as many as there are entities.
Listed(packs) == {packs[i] : i \in {j \in DOMAIN packs : j <= PackSlots}}
FirstAt(packs, s) == CHOOSE i \in DOMAIN packs : packs[i] = s /\ \A j \in DOMAIN packs : packs[j] = s => i <= j
PackNumbers(numbers, packs) == NextNumbers(numbers, [s \in Listed(packs) |-> FirstAt(packs, s)])

\* Inverters are numbered from a list that has them all, in the order of their serials.
AnyRows(rows) == rows # {}
Complete(rows) == Cardinality(rows) >= InverterSlots
InverterNumbers(numbers, rows) ==
    LET all == NextNumbers(numbers, [s \in rows |-> s])
    IN  IF Complete(rows) THEN [s \in {x \in DOMAIN all : all[x] <= InverterSlots} |-> all[s]]
        ELSE numbers

Shown(kind, numbers, serials, slots) ==
    LET numbered == {s \in serials : s \in DOMAIN numbers /\ numbers[s] <= slots}
    IN  [key \in {<<kind, numbers[s]>> : s \in numbered} |->
            CHOOSE s \in numbered : numbers[s] = key[2]]

\* A list is whole: a task that was in the one before and is not in this is gone.
ReadTasks(l, list, before) ==
    [key \in {l} \X (list \cup before) |-> IF key[2] \in list THEN "held" ELSE "gone"]
ReadPacks(numbers, packs) == Shown("pack", PackNumbers(numbers, packs), Listed(packs), PackSlots)
ReadInverters(numbers, rows) == Shown("inverter", InverterNumbers(numbers, rows), rows, InverterSlots)

\* An idle rod draws from nothing; only a share that was published before is cleared.
ClearedNothing(merged) == {}
Cleared(merged) == ({Share} \cap DOMAIN store) \ DOMAIN merged
ReadRod(merged, runs) ==
    IF runs THEN One(Rod, "runs") ELSE Merged(One(Rod, "idle"), [key \in Cleared(merged) |-> "zero"])

\* A report without the total says nothing.
ReadShare(share) == IF share = "bare" THEN Nothing ELSE One(Share, share)

ListOf(h) == IF CarriesNothing(h.form) THEN {} ELSE h.body
Read(p, h) ==
    CASE h.cmd \in Lists      -> ReadTasks(h.cmd, ListOf(h), p.known[h.cmd])
      [] h.cmd = "packs"     -> ReadPacks(p.packNo, h.body)
      [] h.cmd = "inverters" -> ReadInverters(p.inverterNo, h.body)
      [] h.cmd = "rod"       -> ReadRod(p.merged, h.body)
      [] h.cmd = "share"     -> ReadShare(h.body)
      [] h.cmd = "live"      -> One(Live, h.body)

ReadHeader(p, h) ==
    IF ~Decodes(h) \/ (FirstCopyWins(h.cmd) /\ h.cmd \in p.copied) THEN p
    ELSE [merged     |-> Merged(Read(p, h), p.merged),
          copied     |-> p.copied \cup {h.cmd},
          known      |-> [l \in Lists |-> IF l = h.cmd THEN ListOf(h) ELSE p.known[l]],
          packNo     |-> IF h.cmd = "packs" THEN PackNumbers(p.packNo, h.body) ELSE p.packNo,
          inverterNo |-> IF h.cmd = "inverters" THEN InverterNumbers(p.inverterNo, h.body)
                         ELSE p.inverterNo]

\* What the headers 1..n add up to.
ReadFrame(headers) ==
    LET UpTo[n \in 0..Len(headers)] ==
            IF n = 0 THEN [merged |-> Nothing, copied |-> {}, known |-> known,
                           packNo |-> packNo, inverterNo |-> inverterNo]
            ELSE ReadHeader(UpTo[n - 1], headers[n])
    IN  UpTo[Len(headers)]

-----------------------------------------------------------------------------
(* _on_mqtt_message, on the network thread.                                    *)

IsReading(topic) == topic # "set"

\* The list a frame speaks for is its first copy, if any copy can be read.
FirstList(l, headers) ==
    LET copies == {i \in DOMAIN headers : headers[i].cmd = l}
    IN  IF \A i \in copies : headers[i].form = "sealed" THEN said[l]
        ELSE headers[CHOOSE i \in copies : \A j \in copies : i <= j].body

Receive(topic, headers) ==
    /\ sent < MaxSent /\ sent' = sent + 1
    /\ Prompt => posted = <<>>
    /\ LET read == ReadFrame(headers)
       IN IF IsReading(topic)
          THEN /\ known' = read.known /\ packNo' = read.packNo /\ inverterNo' = read.inverterNo
               /\ posted' = IF read.merged = Nothing THEN posted ELSE Append(posted, read.merged)
          ELSE UNCHANGED <<parserVars, posted>>
    /\ said' = IF topic = "set" THEN said ELSE [l \in Lists |-> FirstList(l, headers)]
    /\ UNCHANGED <<starts, store, called>>

-----------------------------------------------------------------------------
(* What the device sends.                                                      *)

\* The first copy is the current one, the second one that may be older; the inverter
\* that works reports before the one that repeats an old state.
GetAllReply ==
    \E l \in Lists, list, older \in SUBSET Tasks, packs \in SetToSeqs(Packs) :
        \E first \in FormsOf(list) :
            /\ FirstReadable => first # "sealed"
            /\ Receive("reply", <<Header("live", "plain", "working"), Header(l, first, list),
                                  Header("packs", "plain", packs),
                                  Header("live", "plain", "cached"), Header(l, Plain(older), older)>>)

PushList == \E l \in Lists, list \in SUBSET Tasks : \E form \in FormsOf(list) :
                Receive("push", <<Header(l, form, list)>>)
PushPack == \E pack \in Packs : Receive("push", <<Header("packs", "plain", <<pack>>)>>)
PushInverters == \E rows \in (SUBSET Inverters) \ {{}} :
                     Receive("push", <<Header("inverters", "plain", rows)>>)
PushShare == \E share \in {"bare", "zero", "some"} :
                 Receive("push", <<Header("share", "plain", share)>>)
PushRod == \E runs \in BOOLEAN : Receive("push", <<Header("rod", "plain", runs)>>)

\* The owner's app writes a list; the write reaches every client of the account.
AppWrites == \E l \in Lists, list \in (SUBSET Tasks) \ {{}} :
                 Receive("set", <<Header(l, Plain(list), list)>>)

-----------------------------------------------------------------------------
(* _apply_data, on the event loop.                                             *)

Apply ==
    /\ posted # <<>>
    /\ store' = Merged(Head(posted), store)
    /\ called' = [s \in Slots |->
                     called[s] \cup (IF s \in DOMAIN Head(posted) THEN {Head(posted)[s]} ELSE {})]
    /\ posted' = Tail(posted)
    /\ UNCHANGED <<sent, starts, parserVars, said>>

\* The entry is reloaded: what the loop has not applied is dropped, the store starts empty.
Restart ==
    /\ starts < MaxStarts /\ starts' = starts + 1
    /\ posted' = <<>> /\ store' = Nothing
    /\ known' = [l \in Lists |-> {}] /\ packNo' = Nothing /\ inverterNo' = Nothing
    /\ said' = [l \in Lists |-> {}] /\ called' = [s \in Slots |-> IF s[1] = "pack" THEN {} ELSE called[s]]
    /\ UNCHANGED sent

FramesNext ==
    \/ GetAllReply \/ PushList \/ PushPack \/ PushInverters \/ PushShare \/ PushRod \/ AppWrites
    \/ Apply \/ Restart

-----------------------------------------------------------------------------
\* What is shown of the schedules and of a pair's work is what the device said last:
\* never a second copy, a request, or a list that could not be read.
FirstCopyShown ==
    posted = <<>> =>
        /\ \A l \in Lists, t \in Tasks :
              (<<l, t>> \in DOMAIN store /\ store[<<l, t>>] = "held") <=> t \in said[l]
        /\ Live \in DOMAIN store => store[Live] = "working"

\* A pack entity shows one pack for as long as the entry is loaded, an inverter's one
\* inverter over restarts too.
NumbersStand == \A s \in Slots : Cardinality(called[s]) <= 1

\* A report of 0 W leaves no source with a share.
RodIdle ==
    [][(Apply /\ Rod \in DOMAIN Head(posted) /\ store'[Rod] = "idle")
        => (Share \in DOMAIN store' => store'[Share] = "zero")]_frameVars
=============================================================================
