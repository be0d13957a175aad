-------------------------- MODULE DeviceValuesProofs --------------------------
(* Theorems of DeviceValues.  The parts share no state, so each has its own    *)
(* invariant, proved for the part alone: that of the energy counters, of the   *)
(* two readings that are worked out, of the linked units and the sign of their *)
(* power, of the devices that send partial frames, and of a PowerOcean's       *)
(* frames.  The last section lifts them to the behaviours that follow one part.*)
EXTENDS DeviceValues, SequenceTheorems, FiniteSetTheorems, WellFoundedInduction, NaturalsInduction, TLAPS

-----------------------------------------------------------------------------
(* An energy counter.  A candidate is the device's last total, which is near   *)
(* the stored one or waits to be confirmed; and what is shown is never above   *)
(* the stored total, so it can only fall with that.                            *)

CandidateInv == candidate # Absent => prev = candidate
NearInv == undisturbed /\ prev # Absent => Known /\ (Near(prev, mem.kwh) \/ candidate = prev)
DataInv == data # Absent => data <= mem.kwh
ShownInv ==
    phase = "live" => /\ shown = IF data # Absent THEN data ELSE restored
                      /\ lowered => data # Absent

EnergyInv == TypeOK /\ CandidateInv /\ NearInv /\ CoversRestored /\ DataInv /\ ShownInv

\* What the total and its neighbours are, and how near they can be.
LEMMA TotalFacts ==
  ASSUME TypeOK
  PROVE  /\ mem.kwh \in Int /\ mem.kwh >= Absent /\ mem.kwh <= MaxTotal /\ mem.power \in Nat
         /\ candidate \in Int /\ candidate >= Absent /\ prev \in Int /\ prev >= Absent
         /\ data \in Int /\ restored \in Int /\ shown \in Int
         /\ data >= Absent /\ restored >= Absent /\ shown >= Absent
         /\ restored <= MaxTotal /\ Absent = -1
         /\ MaxTotal \in Nat /\ Floor \in Nat
<1>1. Totals \subseteq Int /\ \A x \in Totals : x >= -1 /\ x <= MaxTotal
  BY EnergyAssumption DEF Totals, Absent
<1>2. /\ candidate \in Totals /\ data \in Totals /\ restored \in Totals /\ shown \in Totals
      /\ prev \in Totals /\ mem \in States
  BY DEF TypeOK
<1>3. mem.kwh \in Totals /\ mem.power \in {w \in Powers : w <= MaxPower} \cup {0}
  BY <1>2 DEF States
<1>4. mem.power \in Nat
  <2>1. Powers \subseteq Nat
    BY EnergyAssumption
  <2>2. CASE mem.power = 0
    BY <2>2
  <2>3. CASE mem.power \in Powers
    BY <2>1, <2>3
  <2> QED
    BY <1>3, <2>2, <2>3
<1>6. Absent = -1
  BY DEF Absent
<1>5. MaxTotal \in Nat /\ Floor \in Nat
  BY EnergyAssumption
<1> QED
  BY <1>1, <1>2, <1>3, <1>4, <1>5, <1>6

\* The tolerance is never negative.
LEMMA NearItself == ASSUME NEW x \in Int PROVE Near(x, x)
  BY EnergyAssumption DEF Near, Distance

\* Nothing was counted yet.
LEMMA EnergyInitHolds == ASSUME Init PROVE EnergyInv
<1>1. TypeOK
  <2>1. Absent \in Totals /\ NoState \in States
    BY DEF Totals, States, NoState
  <2>2. pc \in [Writers -> {"idle", "open", "write", "clear", "done"}] /\ snap \in [Writers -> States]
    BY <2>1 DEF Init
  <2>3. 0 \in 0..MaxFrames /\ 0 \in 0..MaxCrashes /\ 0 \in 0..MaxStops /\ 0 \in 0..MaxFailures
    BY EnergyAssumption
  <2> QED
    BY <2>1, <2>2, <2>3 DEF Init, TypeOK
<1> QED
  BY <1>1 DEF Init, EnergyInv, CandidateInv, NearInv, CoversRestored, DataInv, ShownInv, Absent

\* A device total: taken, kept as a candidate, or ignored.
LEMMA SetTotalFacts ==
  ASSUME EnergyInv, NEW t \in Readings, SetTotal(t)
  PROVE  /\ mem' \in States /\ candidate' \in Totals /\ prev' \in Totals
         /\ dirty' \in BOOLEAN /\ undisturbed' \in BOOLEAN /\ lowered' \in BOOLEAN
         /\ CandidateInv' /\ NearInv'
         /\ Known => mem'.kwh # Absent
         /\ Known /\ mem'.kwh < mem.kwh => lowered' /\ prev # Absent /\ Near(t, prev) /\ mem'.kwh = t /\ prev' = t
         /\ Known /\ ~Near(mem'.kwh, mem.kwh) => mem'.kwh = t /\ prev # Absent /\ Near(t, prev)
         /\ prev = t /\ t <= MaxTotal /\ undisturbed => Near(t, mem'.kwh)
         /\ lowered' /\ ~lowered => Known
         /\ lowered => lowered'
<1>t. t \in Nat /\ t # Absent /\ TypeOK
  BY EnergyAssumption DEF Absent, EnergyInv
<1>1. CASE ~Plausible(t)
  <2>1. UNCHANGED <<mem, dirty, candidate, prev>>
    BY <1>1 DEF SetTotal
  <2>2. undisturbed' = undisturbed /\ lowered' = lowered
    BY <1>1, <1>t DEF SetTotal, TypeOK
  <2>3. ~(t <= MaxTotal) /\ ~(mem'.kwh < mem.kwh) /\ Near(mem'.kwh, mem.kwh)
    BY <1>1, <2>1, TotalFacts, NearItself, <1>t DEF Plausible
  <2> QED
    BY <1>t, <2>1, <2>2, <2>3 DEF EnergyInv, CandidateInv, NearInv, TypeOK, Known
<1>2. CASE Plausible(t) /\ (~Known \/ Confirms(t) \/ Rises(t))
  <2>1. /\ mem' = [kwh |-> t, power |-> IF Known THEN mem.power ELSE 0]
        /\ dirty' = TRUE /\ candidate' = Absent /\ prev' = t
    BY <1>2 DEF SetTotal
  <2>2. undisturbed' = TRUE /\ lowered' = (lowered \/ (Confirms(t) /\ t < mem.kwh))
    BY <1>2 DEF SetTotal
  <2>3. mem'.kwh = t /\ mem' \in States
    BY <1>2, <1>t, <2>1 DEF TypeOK, States, Totals, Plausible
  <2>4. Near(t, mem'.kwh)
    BY <2>3, <1>t, NearItself
  <2>5. Known /\ ~(Confirms(t)) => t > mem.kwh /\ Near(t, mem.kwh)
    BY <1>2 DEF Rises, Agrees
  <2>6. Confirms(t) => prev # Absent /\ Near(t, prev) /\ Known
    BY DEF Confirms, EnergyInv, CandidateInv
  <2>7. lowered' \in BOOLEAN
    BY <2>2, <1>t DEF TypeOK
  <2>8. t \in Totals /\ Absent \in Totals
    BY <1>2, <1>t DEF Plausible, Totals
  <2>9. CandidateInv' /\ NearInv'
    BY <2>1, <2>3, <2>4, <1>t DEF CandidateInv, NearInv, Known
  <2>10. lowered' /\ ~lowered => Known
    BY <2>2, <2>6
  <2>11. lowered => lowered'
    BY <2>2
  <2>12. Known /\ t < mem.kwh => lowered' /\ prev # Absent /\ Near(t, prev)
    <3>1. CASE Confirms(t)
      BY <2>2, <2>6, <3>1
    <3>2. CASE ~Confirms(t)
      BY <2>5, <3>2, TotalFacts, <1>t
    <3> QED
      BY <3>1, <3>2
  <2> QED
    BY <1>t, <2>1, <2>2, <2>3, <2>4, <2>5, <2>6, <2>7, <2>8, <2>9, <2>10, <2>11, <2>12
<1>3. CASE Plausible(t) /\ ~(~Known \/ Confirms(t) \/ Rises(t))
  <2>1. /\ UNCHANGED <<mem, dirty>> /\ prev' = t
        /\ candidate' = IF Agrees(t) THEN Absent ELSE t
    BY <1>3 DEF SetTotal
  <2>2. undisturbed' = TRUE /\ lowered' = (lowered \/ FALSE)
    BY <1>3 DEF SetTotal
  <2>3. ~(mem'.kwh < mem.kwh) /\ Near(mem'.kwh, mem.kwh) /\ Known
    BY <1>3, <2>1, TotalFacts, NearItself, <1>t
  <2>4. Agrees(t) \/ candidate' = t
    BY <2>1
  <2>5. Agrees(t) => Near(t, mem'.kwh)
    BY <2>1 DEF Agrees
  <2>6. ASSUME prev = t, undisturbed PROVE Near(t, mem'.kwh)
    <3>1. CASE Near(prev, mem.kwh)
      BY <2>1, <2>6, <3>1
    <3>2. CASE candidate = prev /\ ~Near(prev, mem.kwh)
      <4>1. ~Agrees(t) /\ candidate = t /\ Near(t, t)
        BY <2>6, <3>2, <1>t, NearItself DEF Agrees
      <4> QED
        BY <4>1, <1>3, <1>t, <2>3 DEF Confirms
    <3> QED
      BY <2>6, <3>1, <3>2, <1>t DEF EnergyInv, NearInv
  <2>7. t \in Totals /\ Absent \in Totals
    BY <1>3, <1>t DEF Plausible, Totals
  <2>8. CandidateInv' /\ NearInv'
    BY <2>1, <2>3, <2>4, <2>5, <1>t DEF CandidateInv, NearInv, Known
  <2>9. lowered' = lowered
    BY <2>2, <1>t DEF TypeOK
  <2> QED
    BY <1>t, <2>1, <2>2, <2>3, <2>6, <2>7, <2>8, <2>9 DEF TypeOK, Known
<1> QED
  BY <1>1, <1>2, <1>3

\* A power reading adds energy, or seeds the counter, or is dropped.
LEMMA IntegrateFacts ==
  ASSUME EnergyInv, NEW power \in Powers, NEW elapsed, Integrate(power, elapsed)
  PROVE  /\ mem' \in States /\ UNCHANGED <<candidate, prev, lowered>>
         /\ dirty' \in BOOLEAN /\ undisturbed' \in BOOLEAN
         /\ CandidateInv' /\ NearInv'
         /\ Known => mem'.kwh >= mem.kwh
         /\ power > MaxPower => mem' = mem
<1>t. /\ power \in Nat /\ TypeOK /\ MaxPower \in Nat
      /\ mem.kwh \in Int /\ mem.kwh >= -1 /\ mem.kwh <= MaxTotal /\ mem.power \in Nat /\ MaxTotal \in Nat
  BY EnergyAssumption, TotalFacts DEF EnergyInv, Absent
<1> DEFINE half == (mem.power + power) \div 2
<1>h. half \in Nat
  BY <1>t
<1>1. /\ UNCHANGED <<candidate, prev, lowered>>
      /\ dirty' = (dirty \/ (power <= MaxPower /\ (Known => elapsed # "short")))
      /\ undisturbed' = (undisturbed /\ mem'.kwh = mem.kwh)
      /\ mem' = IF power > MaxPower THEN mem
                ELSE IF ~Known THEN [kwh |-> 0, power |-> power]
                ELSE IF elapsed = "short" THEN mem
                ELSE IF elapsed = "gap" \/ mem.kwh + half > MaxTotal THEN [mem EXCEPT !.power = power]
                ELSE [kwh |-> mem.kwh + half, power |-> power]
  BY DEF Integrate
<1> HIDE DEF half
<1>2. dirty' \in BOOLEAN /\ undisturbed' \in BOOLEAN
  BY <1>1, <1>t DEF TypeOK
<1>3. mem = [kwh |-> mem.kwh, power |-> mem.power]
  BY <1>t DEF TypeOK, States
<1>4. /\ mem' \in States /\ (Known => mem'.kwh >= mem.kwh) /\ (power > MaxPower => mem' = mem)
      /\ ~Known /\ power <= MaxPower => mem'.kwh = 0
  <2>1. CASE power > MaxPower \/ (Known /\ elapsed = "short")
    BY <1>1, <1>t, <2>1 DEF TypeOK
  <2>2. CASE ~(power > MaxPower) /\ ~Known
    BY <1>1, <1>t, <2>2 DEF States, Totals
  <2>3. CASE ~(power > MaxPower) /\ Known /\ elapsed # "short" /\ (elapsed = "gap" \/ mem.kwh + half > MaxTotal)
    BY <1>1, <1>t, <1>3, <2>3 DEF States, TypeOK
  <2>4. CASE ~(power > MaxPower) /\ Known /\ elapsed # "short" /\ ~(elapsed = "gap" \/ mem.kwh + half > MaxTotal)
    <3>1. mem' = [kwh |-> mem.kwh + half, power |-> power]
      BY <1>1, <2>4
    <3>2. mem.kwh + half \in 0..MaxTotal /\ mem.kwh + half >= mem.kwh
      BY <1>t, <1>h, <2>4 DEF Known, Absent
    <3> QED
      BY <1>t, <3>1, <3>2, <2>4 DEF States, Totals
  <2> QED
    BY <1>t, <2>1, <2>2, <2>3, <2>4
<1>5. undisturbed' => undisturbed /\ mem'.kwh = mem.kwh
  BY <1>1
<1>6. CandidateInv' /\ NearInv'
  BY <1>1, <1>5 DEF EnergyInv, CandidateInv, NearInv, Known
<1> QED
  BY <1>1, <1>2, <1>4, <1>6

\* The entity is added: what Home Assistant remembers raises the total, and shows.
LEMMA EntityAddedHolds == ASSUME EnergyInv, EntityAdded PROVE EnergyInv'
<1>t. /\ TypeOK /\ restored \in Totals /\ data \in Totals /\ mem \in States /\ Absent = -1
      /\ \A x \in Totals : x \in Int /\ x >= -1 /\ x <= MaxTotal
      /\ mem.kwh \in Totals /\ mem.power \in {w \in Powers : w <= MaxPower} \cup {0} /\ MaxTotal \in Nat
  BY EnergyAssumption DEF EnergyInv, TypeOK, Totals, States, Absent
<1>1. /\ phase = "starting" /\ phase' = "live" /\ Restore(restored)
      /\ shown' = IF data # Absent THEN data ELSE restored
      /\ lowered' = FALSE
      /\ UNCHANGED <<saveDue, data, restored, haStore, file, pc, snap, prev, clean, frames, crashes, stops, failures>>
  BY DEF EntityAdded, saveVars, boundVars
<1>2. CASE restored # Absent /\ Plausible(restored) /\ Raises(restored)
  <2>1. /\ mem' = [kwh |-> restored, power |-> IF Known THEN mem.power ELSE 0]
        /\ candidate' = IF Known THEN Absent ELSE candidate
        /\ dirty' = TRUE /\ undisturbed' = FALSE
    BY <1>1, <1>2 DEF Restore
  <2>2. mem'.kwh = restored /\ mem' \in States
    BY <1>t, <2>1 DEF States
  <2>3. candidate' = Absent \/ candidate' = candidate
    BY <2>1
  <2>4. TypeOK'
    BY <1>1, <1>t, <2>1, <2>2, <2>3 DEF TypeOK, Totals
  <2>5. CandidateInv' /\ NearInv'
    BY <1>1, <2>1, <2>3 DEF EnergyInv, CandidateInv, NearInv
  <2>6. CoversRestored'
    BY <1>1, <1>t, <2>2 DEF CoversRestored
  <2>7. restored >= mem.kwh
    BY <1>2, <1>t DEF Raises, Known
  <2>8. DataInv'
    BY <1>1, <1>t, <2>2, <2>7 DEF EnergyInv, DataInv
  <2>9. ShownInv'
    BY <1>1 DEF ShownInv
  <2> QED
    BY <2>4, <2>5, <2>6, <2>8, <2>9 DEF EnergyInv
<1>3. CASE ~(restored # Absent /\ Plausible(restored) /\ Raises(restored))
  <2>1. UNCHANGED <<mem, candidate, dirty, undisturbed>>
    BY <1>1, <1>3 DEF Restore, memVars
  <2>2. restored # Absent => mem.kwh >= restored
    BY <1>3, <1>t DEF Raises, Known, Plausible
  <2>3. TypeOK'
    BY <1>1, <1>t, <2>1 DEF TypeOK
  <2>4. CandidateInv' /\ NearInv' /\ DataInv'
    BY <1>1, <2>1 DEF EnergyInv, CandidateInv, NearInv, DataInv, Known
  <2>5. CoversRestored' /\ ShownInv'
    BY <1>1, <2>1, <2>2 DEF CoversRestored, ShownInv
  <2> QED
    BY <2>3, <2>4, <2>5 DEF EnergyInv
<1> QED
  BY <1>2, <1>3

\* A frame: what is published is the total, and nothing while there is none.
LEMMA FrameHolds ==
  ASSUME EnergyInv, NEW power \in Powers \cup {Absent}, NEW total \in Readings \cup {Absent}, NEW elapsed,
         Frame(power, total, elapsed)
  PROVE  /\ EnergyInv'
         /\ phase = "live" /\ shown # Absent /\ shown' # shown =>
               shown' > shown \/ (lowered' /\ prev # Absent /\ Near(prev', prev) /\ shown' = prev')
<1>t. /\ TypeOK /\ Absent = -1 /\ MaxPower \in Nat
      /\ \A x \in Totals : x \in Int /\ x >= -1 /\ x <= MaxTotal
      /\ mem \in States /\ mem.kwh \in Totals /\ data \in Totals /\ restored \in Totals /\ shown \in Totals
      /\ \A m \in States : m.kwh \in Totals
  BY EnergyAssumption DEF EnergyInv, TypeOK, Totals, States, Absent
<1>1. /\ phase \in {"live", "starting"} /\ phase' = phase
      /\ frames' = frames + 1 /\ frames < MaxFrames
      /\ shown' = IF phase = "live" THEN IF data' # Absent THEN data' ELSE restored ELSE shown
      /\ UNCHANGED <<saveDue, restored, haStore, file, pc, snap, clean, crashes, stops, failures>>
  BY DEF Frame, saveVars, boundVars
<1>2. /\ mem' \in States /\ candidate' \in Totals /\ prev' \in Totals
      /\ dirty' \in BOOLEAN /\ undisturbed' \in BOOLEAN /\ lowered' \in BOOLEAN
      /\ CandidateInv' /\ NearInv'
      /\ Known => mem'.kwh # Absent
      /\ Known /\ mem'.kwh < mem.kwh => lowered' /\ prev # Absent /\ Near(mem'.kwh, prev) /\ mem'.kwh = prev'
      /\ lowered' /\ ~lowered => Known
      /\ lowered => lowered'
      /\ data' = mem'.kwh \/ (data' = Absent /\ ~Known)
  <2>1. CASE FromApi /\ total # Absent
    <3>1. SetTotal(total) /\ total \in Readings /\ data' = mem'.kwh
      BY <2>1 DEF Frame
    <3> QED
      BY <3>1, SetTotalFacts
  <2>2. CASE ~(FromApi /\ total # Absent) /\ power # Absent
    <3>1. Integrate(power, elapsed) /\ power \in Powers
      BY <2>2 DEF Frame
    <3>2. /\ mem' \in States /\ UNCHANGED <<candidate, prev, lowered>>
          /\ dirty' \in BOOLEAN /\ undisturbed' \in BOOLEAN
          /\ CandidateInv' /\ NearInv'
          /\ Known => mem'.kwh >= mem.kwh
          /\ power > MaxPower => mem' = mem
      BY <3>1, IntegrateFacts
    <3>3. data' = IF power > MaxPower THEN mem.kwh ELSE IF ~Known THEN Absent ELSE mem'.kwh
      BY <2>2 DEF Frame
    <3>4. data' = mem'.kwh \/ (data' = Absent /\ ~Known)
      BY <3>2, <3>3
    <3>5. /\ Known => mem'.kwh # Absent
          /\ ~(Known /\ mem'.kwh < mem.kwh)
      BY <1>t, <3>2 DEF Known
    <3> QED
      BY <1>t, <3>2, <3>4, <3>5 DEF TypeOK
  <2>3. CASE ~(FromApi /\ total # Absent) /\ power = Absent
    <3>1. UNCHANGED <<mem, candidate, dirty, prev, undisturbed, lowered>>
      BY <2>3 DEF Frame, memVars, histVars
    <3>2. ~(power > MaxPower)
      BY <2>3, <1>t
    <3>3. data' = mem'.kwh
      BY <2>3, <3>2 DEF Frame
    <3>4. /\ Known => mem'.kwh # Absent
          /\ ~(Known /\ mem'.kwh < mem.kwh)
      BY <1>t, <3>1 DEF Known
    <3>5. CandidateInv' /\ NearInv'
      BY <3>1 DEF EnergyInv, CandidateInv, NearInv, Known
    <3> QED
      BY <1>t, <3>1, <3>3, <3>4, <3>5 DEF TypeOK
  <2> QED
    BY <2>1, <2>2, <2>3
<1>3. mem'.kwh \in Totals /\ Absent \in Totals /\ data' \in Totals
  BY <1>t, <1>2 DEF Totals
<1>4. TypeOK'
  <2>1. shown' \in Totals
    BY <1>1, <1>3, <1>t
  <2>2. frames' \in 0..MaxFrames
    BY <1>1, <1>t, EnergyAssumption DEF TypeOK
  <2> QED
    BY <1>1, <1>2, <1>3, <1>t, <2>1, <2>2 DEF TypeOK
<1>5. DataInv'
  BY <1>2, <1>3, <1>t DEF DataInv
<1>6. lowered' => data' # Absent \/ phase # "live"
  <2>1. CASE lowered /\ phase = "live"
    <3>1. Known
      BY <2>1, <1>t DEF EnergyInv, ShownInv, DataInv, Known
    <3> QED
      BY <3>1, <1>2
  <2>2. CASE ~lowered
    BY <1>2, <2>2
  <2> QED
    BY <2>1, <2>2
<1>7. ShownInv'
  BY <1>1, <1>6 DEF ShownInv
<1>8. CoversRestored'
  <2> SUFFICES ASSUME phase = "live", restored # Absent, ~lowered' PROVE mem'.kwh >= restored
    BY <1>1 DEF CoversRestored
  <2>1. ~lowered /\ mem.kwh >= restored
    BY <1>2 DEF EnergyInv, CoversRestored
  <2>2. Known
    BY <2>1, <1>t DEF Known
  <2>3. ~(mem'.kwh < mem.kwh)
    BY <1>2, <2>2
  <2>4. mem'.kwh \in Int /\ mem.kwh \in Int /\ restored \in Int
    BY <1>3, <1>t
  <2> QED
    BY <2>1, <2>3, <2>4
<1>9. ASSUME phase = "live", shown # Absent, shown' # shown
      PROVE  shown' > shown \/ (lowered' /\ prev # Absent /\ Near(prev', prev) /\ shown' = prev')
  <2>1. shown <= mem.kwh
    <3>1. CASE data # Absent
      BY <1>9, <3>1 DEF EnergyInv, ShownInv, DataInv
    <3>2. CASE data = Absent
      BY <1>9, <3>2 DEF EnergyInv, ShownInv, CoversRestored
    <3> QED
      BY <3>1, <3>2
  <2>2. Known
    BY <1>9, <1>t, <2>1 DEF Known
  <2>3. shown' = mem'.kwh
    BY <1>1, <1>2, <1>9, <2>2
  <2>4. mem'.kwh \in Int /\ mem.kwh \in Int /\ shown \in Int
    BY <1>3, <1>t
  <2>5. CASE mem'.kwh < mem.kwh
    BY <1>2, <2>2, <2>3, <2>5
  <2>6. CASE ~(mem'.kwh < mem.kwh)
    BY <1>9, <2>1, <2>3, <2>4, <2>6
  <2> QED
    BY <2>5, <2>6
<1> QED
  BY <1>2, <1>4, <1>5, <1>7, <1>8, <1>9 DEF EnergyInv

\* The writers touch the mark and the file, never the total.
LEMMA SaveHolds ==
  ASSUME EnergyInv, NEW s \in Writers,
         SaveBegins(s) \/ SaveOpens(s) \/ SaveWrites(s) \/ SaveFails(s) \/ SaveClears(s)
  PROVE  EnergyInv' /\ shown' = shown
<1>1. UNCHANGED <<phase, mem, candidate, data, restored, shown, haStore, prev, undisturbed, lowered, clean,
                  frames, crashes, stops>>
  BY DEF SaveBegins, SaveOpens, SaveWrites, SaveFails, SaveClears, memVars, histVars, boundVars
<1>2. /\ dirty' \in BOOLEAN /\ saveDue' \in BOOLEAN
  BY DEF SaveBegins, SaveOpens, SaveWrites, SaveFails, SaveClears, memVars, EnergyInv, TypeOK
<1>3. pc' \in [Writers -> {"idle", "open", "write", "clear", "done"}]
  BY DEF SaveBegins, SaveOpens, SaveWrites, SaveFails, SaveClears, EnergyInv, TypeOK
<1>4. NoState \in States
  BY DEF NoState, States, Totals
<1>5. snap' \in [Writers -> States] /\ file' \in States
  BY <1>4 DEF SaveBegins, SaveOpens, SaveWrites, SaveFails, SaveClears, EnergyInv, TypeOK
<1>6. failures' \in 0..MaxFailures
  <2>1. failures' = failures \/ (failures < MaxFailures /\ failures' = failures + 1)
    BY DEF SaveBegins, SaveOpens, SaveWrites, SaveFails, SaveClears, boundVars
  <2> QED
    BY <2>1, EnergyAssumption DEF EnergyInv, TypeOK
<1>7. TypeOK'
  BY <1>1, <1>2, <1>3, <1>5, <1>6 DEF EnergyInv, TypeOK
<1> QED
  BY <1>1, <1>7 DEF EnergyInv, CandidateInv, NearInv, CoversRestored, DataInv, ShownInv, Known

\* The entry stops, Home Assistant dies or dumps its states, and the entry starts again.
LEMMA LifeHolds ==
  ASSUME EnergyInv, SaveIntervalPasses \/ Shutdown \/ Stopped \/ Crash \/ HADumpsStates
  PROVE  EnergyInv' /\ shown' = shown
<1>t. TypeOK
  BY DEF EnergyInv
<1>1. /\ UNCHANGED <<mem, candidate, dirty, data, restored, shown, file, snap, prev, undisturbed, lowered, frames>>
      /\ phase' = phase \/ phase' \in {"down"} \/ (phase = "live" /\ phase' = "stopping")
  BY DEF SaveIntervalPasses, Shutdown, Stopped, Crash, HADumpsStates, memVars, histVars, saveVars
<1>2. pc' \in [Writers -> {"idle", "open", "write", "clear", "done"}]
  BY <1>t DEF SaveIntervalPasses, Shutdown, Stopped, Crash, HADumpsStates, saveVars, TypeOK
<1>3. clean' \in BOOLEAN /\ saveDue' \in BOOLEAN /\ haStore' \in Totals
  BY <1>t DEF SaveIntervalPasses, Shutdown, Stopped, Crash, HADumpsStates, TypeOK
<1>4. /\ stops' = stops \/ (stops < MaxStops /\ stops' = stops + 1)
      /\ crashes' = crashes \/ (crashes < MaxCrashes /\ crashes' = crashes + 1)
      /\ failures' = failures
  BY DEF SaveIntervalPasses, Shutdown, Stopped, Crash, HADumpsStates, boundVars
<1>5. TypeOK'
  BY <1>1, <1>2, <1>3, <1>4, <1>t, EnergyAssumption DEF TypeOK
<1> QED
  BY <1>1, <1>5 DEF EnergyInv, CandidateInv, NearInv, CoversRestored, DataInv, ShownInv, Known

\* A start reads the file, and what is shown stays what it was until the entity is added.
LEMMA RestartHolds == ASSUME EnergyInv, Restart PROVE EnergyInv' /\ shown' = shown /\ phase = "down"
<1>t. TypeOK
  BY DEF EnergyInv
<1>1. /\ phase = "down" /\ phase' = "starting"
      /\ mem' = IF file.kwh > MaxTotal THEN NoState ELSE file
      /\ candidate' = Absent /\ dirty' = FALSE /\ saveDue' = TRUE /\ data' = Absent /\ restored' = haStore
      /\ prev' = Absent /\ undisturbed' = TRUE /\ lowered' = FALSE /\ clean' = FALSE
      /\ UNCHANGED <<shown, haStore, file, pc, snap, frames, crashes, stops, failures>>
  BY DEF Restart, saveVars, boundVars
<1>2. mem' \in States /\ Absent \in Totals
  BY <1>1, <1>t DEF TypeOK, NoState, States, Totals
<1>3. TypeOK'
  BY <1>1, <1>2, <1>t DEF TypeOK
<1> QED
  BY <1>1, <1>3 DEF EnergyInv, CandidateInv, NearInv, CoversRestored, DataInv, ShownInv

\* Every step; and one that lowers what is shown follows two readings that agree.
LEMMA EnergyStepHolds ==
  ASSUME EnergyInv, [Next]_vars
  PROVE  /\ EnergyInv'
         /\ phase = "live" /\ shown # Absent /\ shown' # shown =>
               shown' > shown \/ (lowered' /\ prev # Absent /\ Near(prev', prev) /\ shown' = prev')
<1>1. CASE UNCHANGED vars
  <2>1. EnergyInv'
    BY <1>1 DEF vars, EnergyInv, TypeOK, CandidateInv, NearInv, CoversRestored, DataInv, ShownInv, Known
  <2>2. shown' = shown
    BY <1>1 DEF vars
  <2> QED
    BY <2>1, <2>2
<1>2. ASSUME NEW power \in Powers \cup {Absent}, NEW total \in Readings \cup {Absent}, NEW elapsed,
             Frame(power, total, elapsed)
      PROVE  /\ EnergyInv'
             /\ phase = "live" /\ shown # Absent /\ shown' # shown =>
                   shown' > shown \/ (lowered' /\ prev # Absent /\ Near(prev', prev) /\ shown' = prev')
  BY <1>2, FrameHolds
<1>3. CASE EntityAdded
  BY <1>3, EntityAddedHolds DEF EntityAdded
<1>4. CASE \/ \E s \in Writers : SaveBegins(s) \/ SaveOpens(s) \/ SaveWrites(s) \/ SaveFails(s) \/ SaveClears(s)
           \/ SaveIntervalPasses \/ Shutdown \/ Stopped \/ Crash \/ HADumpsStates
  BY <1>4, SaveHolds, LifeHolds
<1>5. CASE Restart
  BY <1>5, RestartHolds
<1> QED
  BY <1>1, <1>2, <1>3, <1>4, <1>5 DEF Next
-----------------------------------------------------------------------------
(* The state of charge of a Stream.  Once a system figure above zero came, the *)
(* unit's own stands in no more; and a unit that sends zero for the system's   *)
(* never latches, so a zero is shown only beside a unit's own figure of zero.  *)

ChargeInv ==
    /\ charge \in 0..Full /\ mean \in 0..Full
    /\ shownSoc \in Int /\ unitSoc \in Int /\ figure \in Int
    /\ computes \/ ~latched
    /\ computes /\ figure > 0 => latched /\ shownSoc = figure
    /\ ~computes /\ shownSoc = 0 => unitSoc <= 0

\* Nothing was read yet.
LEMMA ChargeInitHolds == ASSUME Derived!StreamInit PROVE ChargeInv
  BY ValuesAssumption DEF Derived!StreamInit, Derived!Means, Derived!NoReading, ChargeInv

\* The battery moves, or a frame brings either figure or both.
LEMMA ChargeStepHolds == ASSUME ChargeInv, Derived!StreamNext PROVE ChargeInv'
<1>1. CASE Derived!ChargeMoves
  BY <1>1 DEF Derived!ChargeMoves, Derived!Means, ChargeInv
<1>2. ASSUME NEW carried \in (SUBSET {"system", "unit"}) \ {{}}, Derived!StreamFrame(carried) PROVE ChargeInv'
  <2> DEFINE system == IF computes THEN mean ELSE 0
             own == Derived!UnitFigure(carried)
  <2>1. /\ own \in Int /\ system \in 0..Full
        /\ "unit" \in carried => own = IF charge > 0 THEN charge ELSE unitSoc
        /\ "unit" \notin carried => own = unitSoc
    BY ValuesAssumption DEF ChargeInv, Derived!UnitFigure
  <2>2. /\ UNCHANGED <<computes, charge, mean>>
        /\ unitSoc' = IF "unit" \in carried THEN charge ELSE unitSoc
    BY <1>2 DEF Derived!StreamFrame
  <2>3. CASE "system" \in carried
    <3>1. /\ shownSoc' = IF system = 0 /\ own > 0 THEN own ELSE system
          /\ latched' = (latched \/ system > 0)
          /\ figure' = system
      BY <1>2, <2>3 DEF Derived!StreamFrame
    <3>2. (latched' => latched \/ system > 0) /\ (system > 0 => latched')
      BY <3>1
    <3>3. computes \/ ~latched'
      BY <3>2 DEF ChargeInv
    <3>4. "unit" \in carried => own = IF charge > 0 THEN charge ELSE unitSoc
      BY <2>1
    <3> HIDE DEF own
    <3>5. computes /\ figure' > 0 => latched' /\ shownSoc' = figure'
      BY <2>1, <3>1, <3>2, ValuesAssumption
    <3>6. ~computes /\ shownSoc' = 0 => unitSoc' <= 0
      BY <2>1, <2>2, <3>1, ValuesAssumption DEF ChargeInv
    <3>7. shownSoc' \in Int /\ unitSoc' \in Int /\ figure' \in Int
      BY <2>1, <2>2, <3>1, ValuesAssumption DEF ChargeInv
    <3> QED
      BY <2>2, <3>3, <3>5, <3>6, <3>7 DEF ChargeInv
  <2>4. CASE "system" \notin carried
    <3>1. /\ shownSoc' = IF Derived!StandsIn THEN charge ELSE shownSoc
          /\ UNCHANGED <<latched, figure>>
      BY <1>2, <2>4 DEF Derived!StreamFrame
    <3>2. (latched => shownSoc' = shownSoc) /\ (~latched => shownSoc' = charge)
      BY <3>1, Zenon DEF Derived!StandsIn
    <3>3. "unit" \in carried
      <4>1. PICK x \in carried : TRUE
        OBVIOUS
      <4>2. x = "system" \/ x = "unit"
        OBVIOUS
      <4> QED
        BY <2>4, <4>1, <4>2
    <3>4. unitSoc' = charge
      BY <2>2, <3>3
    <3>5. computes \/ ~latched'
      BY <3>1 DEF ChargeInv
    <3>6. computes /\ figure' > 0 => latched' /\ shownSoc' = figure'
      BY <3>1, <3>2 DEF ChargeInv
    <3> QED
      BY <2>2, <3>1, <3>2, <3>4, <3>5, <3>6, ValuesAssumption DEF ChargeInv
  <2> QED
    BY <2>3, <2>4
<1> QED
  BY <1>1, <1>2 DEF Derived!StreamNext

-----------------------------------------------------------------------------
(* The battery state of a PowerOcean.  While a candidate is timed no other     *)
(* band has been seen, so the time it was timed is time in its band alone.     *)

BatteryInv ==
    /\ state \in Derived!States \cup {Derived!None} /\ pending \in Derived!States \cup {Derived!None}
    /\ pendingFor \in 0..Confirm /\ heldFor \in 0..Hold
    /\ unseen \in [Derived!States -> 0..Confirm]
    /\ state = Derived!None => pending = Derived!None
    /\ heldFor < Hold => pending = Derived!None
    /\ pending # Derived!None => \A s \in Derived!States \ {pending} : unseen[s] >= pendingFor

\* No state was shown yet.
LEMMA BatteryInitHolds == ASSUME Derived!BatteryInit PROVE BatteryInv
  BY ValuesAssumption DEF Derived!BatteryInit, BatteryInv

\* Time passes, or a frame brings an average; and a state is left only when due.
LEMMA BatteryStepHolds ==
  ASSUME BatteryInv, Derived!BatteryNext
  PROVE  /\ BatteryInv'
         /\ state # Derived!None /\ state' # state => \A s \in Derived!States \ {state'} : unseen[s] >= Confirm
<1>1. CASE Derived!TimePasses
  <2>1. /\ state' = state /\ pending' = pending
        /\ pendingFor' = Derived!UpTo(Confirm, pendingFor) /\ heldFor' = Derived!UpTo(Hold, heldFor)
        /\ unseen' = [s \in Derived!States |-> Derived!UpTo(Confirm, unseen[s])]
    BY <1>1 DEF Derived!TimePasses
  <2> QED
    BY <2>1, ValuesAssumption DEF BatteryInv, Derived!UpTo
<1>2. ASSUME NEW average \in Derived!Averages, Derived!PowerFrame(average)
      PROVE  /\ BatteryInv'
             /\ state # Derived!None /\ state' # state =>
                   \A s \in Derived!States \ {state'} : unseen[s] >= Confirm
  <2>1. /\ unseen' = [s \in Derived!States |-> IF s = average THEN 0 ELSE unseen[s]]
        /\ unseen' \in [Derived!States -> 0..Confirm]
        /\ \A s \in Derived!States \ {average} : unseen'[s] = unseen[s]
    BY <1>2, ValuesAssumption DEF Derived!PowerFrame, BatteryInv
  <2>2. CASE average \notin Derived!States
    BY <1>2, <2>1, <2>2 DEF Derived!PowerFrame, BatteryInv
  <2>3. CASE average \in Derived!States /\ average = state
    BY <1>2, <2>1, <2>3 DEF Derived!PowerFrame, Derived!Settled, BatteryInv
  <2>4. CASE average \in Derived!States /\ average # state /\ state # Derived!None /\ heldFor < Hold
    BY <1>2, <2>1, <2>4 DEF Derived!PowerFrame, BatteryInv
  <2>5. CASE /\ average \in Derived!States /\ average # state /\ state # Derived!None /\ ~(heldFor < Hold)
             /\ pending # average
    <3>1. pending' = average /\ pendingFor' = 0 /\ UNCHANGED <<state, heldFor>>
      BY <1>2, <2>5 DEF Derived!PowerFrame
    <3> QED
      BY <2>1, <2>5, <3>1, ValuesAssumption DEF BatteryInv
  <2>6. CASE /\ average \in Derived!States /\ average # state /\ state # Derived!None /\ ~(heldFor < Hold)
             /\ pending = average /\ pendingFor < Confirm
    <3>1. UNCHANGED <<state, pending, pendingFor, heldFor>>
      BY <1>2, <2>6 DEF Derived!PowerFrame
    <3> QED
      BY <2>1, <2>6, <3>1 DEF BatteryInv
  <2>7. CASE /\ average \in Derived!States /\ average # state /\ state # Derived!None /\ ~(heldFor < Hold)
             /\ pending = average /\ ~(pendingFor < Confirm)
    <3>1. state' = average /\ heldFor' = 0 /\ pending' = Derived!None /\ pendingFor' = pendingFor
      BY <1>2, <2>7 DEF Derived!PowerFrame
    <3>2. Derived!None \notin Derived!States
      BY DEF Derived!None, Derived!States
    <3> QED
      BY <2>1, <2>7, <3>1, <3>2, ValuesAssumption DEF BatteryInv
  <2>8. CASE average \in Derived!States /\ state = Derived!None
    <3>1. Derived!None \notin Derived!States
      BY DEF Derived!None, Derived!States
    <3>2. state' = average /\ heldFor' = 0 /\ pending' = pending /\ pendingFor' = pendingFor
      BY <1>2, <2>8, <3>1 DEF Derived!PowerFrame
    <3> QED
      BY <2>1, <2>8, <3>1, <3>2, ValuesAssumption DEF BatteryInv
  <2> QED
    BY <2>2, <2>3, <2>4, <2>5, <2>6, <2>7, <2>8 DEF BatteryInv
<1> QED
  BY <1>1, <1>2 DEF Derived!BatteryNext

-----------------------------------------------------------------------------
(* Linked units.  A push is never younger than one before it, and the own      *)
(* push a unit took is at least as old as that unit says: so once a unit is    *)
(* open to what others hand over, only later pushes are still under way.       *)

PushRecords ==
    [power : [Units -> BatteryPowers], listed : SUBSET Units, age : 0..Lag + 1, polled : BOOLEAN, flows : BOOLEAN]

UnitsInv ==
    /\ pushes \in Seq(PushRecords) /\ arrived \in [Units -> 0..Len(pushes)]
    /\ \A i, j \in DOMAIN pushes : i <= j => pushes[i].age >= pushes[j].age
    /\ sample \in [Units -> Nat] /\ pv \in [Units -> Nat]
    /\ ownAge \in [Linked!Blocks -> [Units -> 0..HoldFor]]
    /\ ownSample \in [Linked!Blocks -> [Units -> 0..Len(pushes)]]
    /\ \A b \in Linked!Blocks, u \in Units : ownSample[b][u] > 0 =>
          \/ pushes[ownSample[b][u]].age > Lag
          \/ ownAge[b][u] <= pushes[ownSample[b][u]].age
    /\ Linked!HandedNeverOlder

\* Nothing was pushed yet.
LEMMA UnitsInitHolds == ASSUME Linked!UnitsInit PROVE UnitsInv
  BY ValuesAssumption DEF Linked!UnitsInit, Linked!Blocks, Linked!HandedNeverOlder, UnitsInv

\* What a push carries.
LEMMA PushFacts ==
  ASSUME UnitsInv
  PROVE  /\ DOMAIN pushes = 1..Len(pushes) /\ Len(pushes) \in Nat
         /\ \A i \in DOMAIN pushes : pushes[i] \in PushRecords /\ pushes[i].age \in 0..Lag + 1
<1>1. \A p \in PushRecords : p.age \in 0..Lag + 1
  BY Zenon DEF PushRecords
<1>2. \A i \in DOMAIN pushes : pushes[i] \in PushRecords
  BY DEF UnitsInv
<1> QED
  BY <1>1, <1>2 DEF UnitsInv

\* A new push is the youngest.
LEMMA UnitPushes ==
  ASSUME UnitsInv, NEW push \in PushRecords, push.age = 0, pushes' = Append(pushes, push),
         UNCHANGED <<arrived, loaded, unitW, pv, ownAge, unsigned, sample, ownSample>>
  PROVE  UnitsInv'
<1>1. /\ pushes' \in Seq(PushRecords) /\ Len(pushes') = Len(pushes) + 1
      /\ \A i \in DOMAIN pushes : pushes'[i] = pushes[i]
      /\ pushes'[Len(pushes) + 1] = push /\ Len(pushes) \in Nat
      /\ DOMAIN pushes = 1..Len(pushes) /\ DOMAIN pushes' = 1..Len(pushes) + 1
  BY DEF UnitsInv
<1>2. \A i \in DOMAIN pushes : pushes[i].age >= 0 /\ pushes[i].age \in Int
  BY <1>1, PushFacts, ValuesAssumption
<1>3. \A i, j \in DOMAIN pushes' : i <= j => pushes'[i].age >= pushes'[j].age
  <2> SUFFICES ASSUME NEW i \in 1..Len(pushes) + 1, NEW j \in 1..Len(pushes) + 1, i <= j
               PROVE  pushes'[i].age >= pushes'[j].age
    BY <1>1
  <2>1. CASE j = Len(pushes) + 1 /\ i # j
    BY <1>1, <1>2, <2>1
  <2>2. CASE j # Len(pushes) + 1
    <3>1. i \in DOMAIN pushes /\ j \in DOMAIN pushes
      BY <1>1, <2>2
    <3>2. pushes[i].age >= pushes[j].age
      BY <3>1 DEF UnitsInv
    <3> QED
      BY <1>1, <3>1, <3>2
  <2>3. CASE i = Len(pushes) + 1 /\ j = i
    BY <1>1, <2>3
  <2> QED
    BY <1>1, <2>1, <2>2, <2>3
<1>4. /\ arrived' \in [Units -> 0..Len(pushes')]
      /\ ownSample' \in [Linked!Blocks -> [Units -> 0..Len(pushes')]]
  BY <1>1 DEF UnitsInv
<1>5. \A b \in Linked!Blocks, u \in Units :
          ownSample[b][u] > 0 => ownSample[b][u] \in DOMAIN pushes
  BY <1>1 DEF UnitsInv
<1> QED
  BY <1>1, <1>3, <1>4, <1>5 DEF UnitsInv, Linked!HandedNeverOlder

\* Time passes for the pushes and for the units alike.
LEMMA UnitsAge == ASSUME UnitsInv, Linked!TimePasses PROVE UnitsInv'
<1>1. /\ pushes' = [i \in DOMAIN pushes |-> [pushes[i] EXCEPT !.age = IF @ > Lag THEN @ ELSE @ + 1]]
      /\ ownAge' = [b \in Linked!Blocks |-> [u \in Units |->
                       IF ownAge[b][u] < HoldFor THEN ownAge[b][u] + 1 ELSE HoldFor]]
      /\ UNCHANGED <<arrived, loaded, unitW, pv, unsigned, sample, ownSample>>
  BY DEF Linked!TimePasses
<1>2. ASSUME NEW p \in PushRecords, NEW age \in 0..Lag + 1
      PROVE  [p EXCEPT !.age = age] \in PushRecords /\ [p EXCEPT !.age = age].age = age
  BY Zenon DEF PushRecords
<1>3. \A i \in DOMAIN pushes :
         /\ pushes'[i] \in PushRecords
         /\ pushes'[i].age = IF pushes[i].age > Lag THEN pushes[i].age ELSE pushes[i].age + 1
         /\ pushes[i].age \in 0..Lag + 1
  <2> SUFFICES ASSUME NEW i \in DOMAIN pushes
               PROVE  /\ pushes'[i] \in PushRecords
                      /\ pushes'[i].age = IF pushes[i].age > Lag THEN pushes[i].age ELSE pushes[i].age + 1
                      /\ pushes[i].age \in 0..Lag + 1
    OBVIOUS
  <2> DEFINE older == IF pushes[i].age > Lag THEN pushes[i].age ELSE pushes[i].age + 1
  <2>1. pushes[i] \in PushRecords /\ pushes[i].age \in 0..Lag + 1
    BY PushFacts
  <2>2. older \in 0..Lag + 1
    BY <2>1, ValuesAssumption
  <2>3. pushes'[i] = [pushes[i] EXCEPT !.age = older]
    BY <1>1
  <2> HIDE DEF older
  <2>4. pushes'[i] \in PushRecords /\ pushes'[i].age = older
    BY <1>2, <2>1, <2>2, <2>3
  <2> QED
    BY <2>1, <2>4 DEF older
<1>4. /\ DOMAIN pushes' = DOMAIN pushes /\ Len(pushes') = Len(pushes)
      /\ pushes' \in Seq(PushRecords)
  <2>1. DOMAIN pushes = 1..Len(pushes) /\ Len(pushes) \in Nat
    BY DEF UnitsInv
  <2>2. DOMAIN pushes' = 1..Len(pushes)
    BY <1>1, <2>1
  <2>3. pushes' \in [1..Len(pushes) -> PushRecords]
    BY <1>1, <1>3, <2>1
  <2>4. pushes' \in Seq(PushRecords)
    BY <2>1, <2>3, SeqDef
  <2> QED
    BY <2>1, <2>2, <2>4
<1>5. \A i, j \in DOMAIN pushes' : i <= j => pushes'[i].age >= pushes'[j].age
  <2> SUFFICES ASSUME NEW i \in DOMAIN pushes, NEW j \in DOMAIN pushes, i <= j
               PROVE  pushes'[i].age >= pushes'[j].age
    BY <1>4
  <2>1. pushes[i].age >= pushes[j].age
    BY DEF UnitsInv
  <2> QED
    BY <1>3, <2>1, ValuesAssumption
<1>6. ownAge' \in [Linked!Blocks -> [Units -> 0..HoldFor]]
  <2>1. HoldFor \in Nat
    BY ValuesAssumption
  <2> QED
    BY <1>1, <2>1 DEF UnitsInv
<1>7. ASSUME NEW b \in Linked!Blocks, NEW u \in Units, ownSample[b][u] > 0
      PROVE  \/ pushes'[ownSample[b][u]].age > Lag
             \/ ownAge'[b][u] <= pushes'[ownSample[b][u]].age
  <2> DEFINE i == ownSample[b][u]
             a == ownAge[b][u]
  <2>1. i \in DOMAIN pushes /\ a \in 0..HoldFor /\ ownAge'[b][u] = IF a < HoldFor THEN a + 1 ELSE HoldFor
    BY <1>1, <1>7 DEF UnitsInv
  <2>2. pushes[i].age > Lag \/ a <= pushes[i].age
    BY <1>7 DEF UnitsInv
  <2>3. /\ pushes'[i].age = IF pushes[i].age > Lag THEN pushes[i].age ELSE pushes[i].age + 1
        /\ pushes[i].age \in 0..Lag + 1
    BY <1>3, <2>1
  <2> HIDE DEF i, a
  <2>4. pushes'[i].age > Lag \/ ownAge'[b][u] <= pushes'[i].age
    BY <2>1, <2>2, <2>3, ValuesAssumption
  <2> QED
    BY <2>4 DEF i
<1> QED
  BY <1>1, <1>4, <1>5, <1>6, <1>7 DEF UnitsInv, Linked!HandedNeverOlder

\* A push arrives: at its own unit it is the newest, and elsewhere later than the own one.
LEMMA UnitsHear == ASSUME UnitsInv, NEW u \in Units, Linked!PushArrives(u) PROVE UnitsInv'
<1> DEFINE n == arrived[u] + 1
           push == pushes[n]
           proven == {v \in push.listed : Linked!Proven(push, v)}
           powers == Linked!Takers("power", u, proven)
           strings == Linked!Takers("pv", u, push.listed)
           owns == [power |-> u \in powers, pv |-> u \in strings]
<1>1. /\ arrived[u] < Len(pushes) /\ push.age <= Lag
      /\ arrived' = [arrived EXCEPT ![u] = n]
      /\ sample' = [v \in Units |-> IF v \in powers THEN n ELSE sample[v]]
      /\ pv' = [v \in Units |-> IF v \in strings THEN n ELSE pv[v]]
      /\ ownAge' = [b \in Linked!Blocks |-> [ownAge[b] EXCEPT ![u] = IF owns[b] THEN 0 ELSE @]]
      /\ ownSample' = [b \in Linked!Blocks |-> [ownSample[b] EXCEPT ![u] = IF owns[b] THEN n ELSE @]]
      /\ UNCHANGED <<pushes, loaded>>
  BY DEF Linked!PushArrives
<1>2. n \in DOMAIN pushes /\ n \in 1..Len(pushes) /\ Len(pushes) \in Nat
  BY <1>1 DEF UnitsInv
<1>3. push.age \in 0..Lag + 1
  BY <1>2, PushFacts
<1>4. /\ \A v \in powers : v # u => ownAge["power"][v] >= HoldFor
      /\ \A v \in strings : v # u => ownAge["pv"][v] >= HoldFor
  BY DEF Linked!Takers, Linked!HandedCounts
<1>o. Linked!Blocks = {"power", "pv"}
  BY DEF Linked!Blocks
<1>5. ASSUME NEW b \in Linked!Blocks, NEW v \in Units, ownAge[b][v] >= HoldFor
      PROVE  n >= ownSample[b][v]
  <2> DEFINE i == ownSample[b][v]
  <2>1. i \in 0..Len(pushes) /\ ownAge[b][v] \in 0..HoldFor
    BY DEF UnitsInv
  <2>2. CASE i > 0
    <3>1. i \in DOMAIN pushes /\ pushes[i].age \in 0..Lag + 1
      BY <2>1, <2>2, PushFacts
    <3>2. pushes[i].age > Lag
      BY <1>5, <2>1, <2>2, <3>1, ValuesAssumption DEF UnitsInv
    <3>3. n <= i => push.age >= pushes[i].age
      BY <1>2, <3>1 DEF UnitsInv
    <3> QED
      BY <1>1, <1>2, <1>3, <2>1, <3>1, <3>2, <3>3, ValuesAssumption
  <2> QED
    BY <1>2, <2>1, <2>2
<1> HIDE DEF push, proven, powers, strings
<1>6. \A b \in Linked!Blocks, v \in Units :
         /\ ownSample'[b][v] = IF v = u /\ owns[b] THEN n ELSE ownSample[b][v]
         /\ ownAge'[b][v] = IF v = u /\ owns[b] THEN 0 ELSE ownAge[b][v]
  BY <1>1 DEF UnitsInv
<1>7. /\ ownSample' \in [Linked!Blocks -> [Units -> 0..Len(pushes)]]
      /\ ownAge' \in [Linked!Blocks -> [Units -> 0..HoldFor]]
  <2>1. /\ \A b \in Linked!Blocks : ownSample[b] \in [Units -> 0..Len(pushes)]
        /\ \A b \in Linked!Blocks : ownAge[b] \in [Units -> 0..HoldFor]
    BY DEF UnitsInv
  <2> HIDE DEF n, owns
  <2>2. /\ \A b \in Linked!Blocks : [ownSample[b] EXCEPT ![u] = IF owns[b] THEN n ELSE @] \in [Units -> 0..Len(pushes)]
        /\ \A b \in Linked!Blocks : [ownAge[b] EXCEPT ![u] = IF owns[b] THEN 0 ELSE @] \in [Units -> 0..HoldFor]
    BY <1>2, <2>1, ValuesAssumption
  <2> QED
    BY <1>1, <2>2
<1>8. arrived' \in [Units -> 0..Len(pushes)] /\ sample' \in [Units -> Nat] /\ pv' \in [Units -> Nat]
  BY <1>1, <1>2 DEF UnitsInv
<1>9. ASSUME NEW b \in Linked!Blocks, NEW v \in Units, ownSample'[b][v] > 0
      PROVE  \/ pushes[ownSample'[b][v]].age > Lag
             \/ ownAge'[b][v] <= pushes[ownSample'[b][v]].age
  <2>1. CASE v = u /\ owns[b]
    <3>1. ownSample'[b][v] = n /\ ownAge'[b][v] = 0
      BY <1>6, <2>1
    <3>2. pushes[n].age \in 0..Lag + 1
      BY <1>3 DEF push
    <3> QED
      BY <3>1, <3>2, ValuesAssumption
  <2>2. CASE ~(v = u /\ owns[b])
    <3>1. ownSample'[b][v] = ownSample[b][v] /\ ownAge'[b][v] = ownAge[b][v]
      BY <1>6, <2>2
    <3> QED
      BY <1>9, <3>1 DEF UnitsInv
  <2> QED
    BY <2>1, <2>2
<1>10. Linked!HandedNeverOlder'
  <2> SUFFICES ASSUME NEW v \in Units
               PROVE  sample'[v] >= ownSample'["power"][v] /\ pv'[v] >= ownSample'["pv"][v]
    BY DEF Linked!HandedNeverOlder
  <2>1. /\ sample'[v] = IF v \in powers THEN n ELSE sample[v]
        /\ pv'[v] = IF v \in strings THEN n ELSE pv[v]
    BY <1>1
  <2>2. /\ ownSample'["power"][v] = IF v = u /\ u \in powers THEN n ELSE ownSample["power"][v]
        /\ ownSample'["pv"][v] = IF v = u /\ u \in strings THEN n ELSE ownSample["pv"][v]
    BY <1>6, <1>o
  <2>3. sample[v] >= ownSample["power"][v] /\ pv[v] >= ownSample["pv"][v]
    BY DEF UnitsInv, Linked!HandedNeverOlder
  <2>4. v \in powers /\ v # u => n >= ownSample["power"][v]
    BY <1>4, <1>5, <1>o
  <2>5. v \in strings /\ v # u => n >= ownSample["pv"][v]
    BY <1>4, <1>5, <1>o
  <2> HIDE DEF n
  <2>6. n \in Nat
    BY <1>2
  <2> QED
    BY <2>1, <2>2, <2>3, <2>4, <2>5, <2>6
<1> QED
  BY <1>1, <1>7, <1>8, <1>9, <1>10 DEF UnitsInv

\* Every step of the units, their connections and their coordinators.
LEMMA UnitsStepHolds == ASSUME UnitsInv, Linked!UnitsNext PROVE UnitsInv'
<1>1. CASE Linked!Push
  <2>1. PICK power \in [Units -> BatteryPowers], listed \in SUBSET Units, polled \in BOOLEAN, flows \in BOOLEAN :
           pushes' = Append(pushes, [power |-> power, listed |-> listed, age |-> 0, polled |-> polled, flows |-> flows])
    BY <1>1 DEF Linked!Push
  <2> DEFINE push == [power |-> power, listed |-> listed, age |-> 0, polled |-> polled, flows |-> flows]
  <2>2. push \in PushRecords /\ push.age = 0
    BY ValuesAssumption DEF PushRecords
  <2> HIDE DEF push
  <2>3. pushes' = Append(pushes, push)
    BY <2>1 DEF push
  <2> QED
    BY <1>1, <2>2, <2>3, UnitPushes DEF Linked!Push
<1>2. CASE Linked!TimePasses
  BY <1>2, UnitsAge
<1>3. ASSUME NEW u \in Units, Linked!PushArrives(u) PROVE UnitsInv'
  BY <1>3, UnitsHear
<1>4. ASSUME NEW u \in Units, Linked!PushLost(u) PROVE UnitsInv'
  <2>1. arrived' \in [Units -> 0..Len(pushes)]
    BY <1>4 DEF Linked!PushLost, UnitsInv
  <2> QED
    BY <1>4, <2>1 DEF Linked!PushLost, UnitsInv, Linked!HandedNeverOlder
<1>5. ASSUME NEW u \in Units, Linked!FullStateAsked(u) PROVE UnitsInv'
  <2>1. PICK power \in [Units -> BatteryPowers] :
           pushes' = Append(pushes, [power |-> power, listed |-> Units, age |-> 0, polled |-> TRUE, flows |-> TRUE])
    BY <1>5 DEF Linked!FullStateAsked
  <2> DEFINE push == [power |-> power, listed |-> Units, age |-> 0, polled |-> TRUE, flows |-> TRUE]
  <2>2. push \in PushRecords /\ push.age = 0
    BY ValuesAssumption DEF PushRecords
  <2> HIDE DEF push
  <2>3. pushes' = Append(pushes, push)
    BY <2>1 DEF push
  <2> QED
    BY <1>5, <2>2, <2>3, UnitPushes DEF Linked!FullStateAsked
<1>6. CASE Linked!TableGone
  BY <1>6 DEF Linked!TableGone, UnitsInv, Linked!HandedNeverOlder
<1> QED
  BY <1>1, <1>2, <1>3, <1>4, <1>5, <1>6 DEF Linked!UnitsNext

-----------------------------------------------------------------------------
(* The sign of a linked unit's power.  Where a push lists every unit, one that *)
(* moves power alone is the system, whose power is a sum over the units: the   *)
(* recursion that adds them up has a solution, and on a finite set that        *)
(* solution is the one power that is not zero.                                 *)

\* A non-empty set of numbers has a least one.
LEMMA NatHasMin ==
  ASSUME NEW T \in SUBSET Nat, T # {}
  PROVE  \E x \in T : \A y \in T : x <= y
<1>1. PICK x \in T : \A y \in T : ~(<<y, x>> \in OpToRel(<, Nat))
  BY NatLessThanWellFounded, WFMin
<1>2. \A y \in T : ~(y < x)
  BY <1>1 DEF OpToRel
<1> QED
  BY <1>2

\* The recursion over the subsets of a finite set that takes one element away has a
\* solution: one for the subsets of up to n elements gives one for those of n + 1.
LEMMA SumExists ==
  ASSUME NEW p \in [Units -> Int],
         NEW c, \A s \in SUBSET Units : s # {} => c[s] \in s
  PROVE  \E g \in [SUBSET Units -> Int] :
            \A s \in SUBSET Units : g[s] = IF s = {} THEN 0 ELSE p[c[s]] + g[s \ {c[s]}]
<1> DEFINE Eq(g, s) == g[s] = IF s = {} THEN 0 ELSE p[c[s]] + g[s \ {c[s]}]
           Upto(n) == \E g \in [SUBSET Units -> Int] : \A s \in SUBSET Units : Cardinality(s) <= n => Eq(g, s)
           Fails == {n \in Nat : ~Upto(n)}
<1>f. IsFiniteSet(Units)
  BY ValuesAssumption
<1>1. ASSUME NEW s \in SUBSET Units
      PROVE  /\ IsFiniteSet(s) /\ Cardinality(s) \in Nat /\ Cardinality(s) <= Cardinality(Units)
             /\ s # {} => /\ s \ {c[s]} \in SUBSET Units
                          /\ Cardinality(s) >= 1 /\ Cardinality(s \ {c[s]}) = Cardinality(s) - 1
  <2>1. IsFiniteSet(s) /\ Cardinality(s) <= Cardinality(Units)
    BY <1>f, FS_Subset
  <2>2. Cardinality(s) \in Nat
    BY <2>1, FS_CardinalityType
  <2>3. ASSUME s # {}
        PROVE  Cardinality(s) >= 1 /\ Cardinality(s \ {c[s]}) = Cardinality(s) - 1
    <3>1. Cardinality(s) # 0
      BY <2>1, <2>3, FS_EmptySet
    <3>2. c[s] \in s
      BY <2>3
    <3>3. Cardinality(s \ {c[s]}) = Cardinality(s) - 1
      BY <2>1, <3>2, FS_RemoveElement
    <3> QED
      BY <2>2, <3>1, <3>3
  <2> QED
    BY <2>1, <2>2, <2>3
<1>2. Upto(0)
  <2> DEFINE g == [s \in SUBSET Units |-> 0]
  <2>1. g \in [SUBSET Units -> Int] /\ \A s \in SUBSET Units : g[s] = 0
    OBVIOUS
  <2>2. ASSUME NEW s \in SUBSET Units, Cardinality(s) <= 0 PROVE s = {}
    <3>1. Cardinality(s) \in Nat /\ (s # {} => Cardinality(s) >= 1)
      BY <1>1
    <3> QED
      BY <2>2, <3>1
  <2> HIDE DEF g
  <2>3. \A s \in SUBSET Units : Cardinality(s) <= 0 => Eq(g, s)
    BY <2>1, <2>2
  <2> QED
    BY <2>1, <2>3
<1>3. ASSUME NEW n \in Nat, Upto(n) PROVE Upto(n + 1)
  <2>1. PICK g \in [SUBSET Units -> Int] : \A s \in SUBSET Units : Cardinality(s) <= n => Eq(g, s)
    BY <1>3
  <2> DEFINE h == [s \in SUBSET Units |-> IF s = {} THEN 0 ELSE p[c[s]] + g[s \ {c[s]}]]
  <2>a. ASSUME NEW s \in SUBSET Units, s # {}
        PROVE  p[c[s]] + g[s \ {c[s]}] \in Int
    BY <2>a
  <2>2. /\ h \in [SUBSET Units -> Int]
        /\ \A s \in SUBSET Units : h[s] = IF s = {} THEN 0 ELSE p[c[s]] + g[s \ {c[s]}]
    BY <2>a
  <2> HIDE DEF h
  <2>3. ASSUME NEW s \in SUBSET Units, Cardinality(s) <= n + 1 PROVE Eq(h, s)
    <3>1. CASE s = {}
      BY <2>2, <3>1
    <3>2. CASE s # {}
      <4> DEFINE r == s \ {c[s]}
      <4>a. /\ r \in SUBSET Units /\ Cardinality(r) = Cardinality(s) - 1
            /\ Cardinality(s) \in Nat
        BY <1>1, <3>2
      <4>1. r \in SUBSET Units /\ Cardinality(r) <= n
        BY <2>3, <4>a
      <4>2. h[r] = g[r]
        BY <2>1, <2>2, <4>1
      <4>3. h[s] = p[c[s]] + g[r]
        BY <2>2, <3>2
      <4> QED
        BY <3>2, <4>2, <4>3
    <3> QED
      BY <3>1, <3>2
  <2> QED
    BY <2>2, <2>3
<1> HIDE DEF Upto
<1>4. Fails = {}
  <2> SUFFICES ASSUME Fails # {} PROVE FALSE
    OBVIOUS
  <2>1. PICK m \in Fails : \A y \in Fails : m <= y
    BY NatHasMin
  <2>2. m # 0
    BY <1>2, <2>1
  <2>3. m - 1 \in Nat /\ Upto(m - 1)
    BY <2>1, <2>2
  <2>4. Upto(m - 1 + 1)
    BY <1>3, <2>3
  <2> QED
    BY <2>1, <2>4
<1>5. Cardinality(Units) \in Nat
  BY <1>f, FS_CardinalityType
<1>6. Upto(Cardinality(Units))
  BY <1>4, <1>5
<1>7. PICK g \in [SUBSET Units -> Int] : \A s \in SUBSET Units : Cardinality(s) <= Cardinality(Units) => Eq(g, s)
  BY <1>6 DEF Upto
<1>8. \A s \in SUBSET Units : Eq(g, s)
  BY <1>1, <1>7
<1> QED
  BY <1>8

\* The system power is that of the one unit that moves any.
LEMMA AloneIsSystem ==
  ASSUME NEW p, NEW v \in Units, p \in [Units -> Int], \A u \in Units \ {v} : p[u] = 0
  PROVE  Linked!SystemPower(p) = p[v]
<1>1. PICK c : c = [s \in SUBSET Units |-> CHOOSE x \in s : TRUE]
  OBVIOUS
<1>2. \A s \in SUBSET Units : s # {} => c[s] \in s
  BY <1>1
<1>f. IsFiniteSet(Units)
  BY ValuesAssumption
<1> DEFINE Total[s \in SUBSET Units] ==
             IF s = {} THEN 0 ELSE LET u == CHOOSE x \in s : TRUE IN p[u] + Total[s \ {u}]
           Solves(g) == g = [s \in SUBSET Units |->
                               IF s = {} THEN 0 ELSE LET u == CHOOSE x \in s : TRUE IN p[u] + g[s \ {u}]]
<1>3. PICK Sum : Linked!SystemPower(p) = Sum[Units] /\ Sum = CHOOSE g : Solves(g)
  <2>1. Linked!SystemPower(p) = Total[Units]
    BY DEF Linked!SystemPower
  <2>2. Total = CHOOSE g : Solves(g)
    OBVIOUS
  <2> QED
    BY <2>1, <2>2
<1>4. PICK g \in [SUBSET Units -> Int] :
         \A s \in SUBSET Units : g[s] = IF s = {} THEN 0 ELSE p[c[s]] + g[s \ {c[s]}]
  BY <1>2, SumExists
<1>5. Solves(g)
  <2> DEFINE h == [s \in SUBSET Units |-> IF s = {} THEN 0 ELSE LET u == CHOOSE x \in s : TRUE IN p[u] + g[s \ {u}]]
  <2>1. \A s \in SUBSET Units : g[s] = IF s = {} THEN 0 ELSE LET u == CHOOSE x \in s : TRUE IN p[u] + g[s \ {u}]
    BY <1>1, <1>4
  <2>2. \A s \in SUBSET Units : h[s] = IF s = {} THEN 0 ELSE LET u == CHOOSE x \in s : TRUE IN p[u] + g[s \ {u}]
    OBVIOUS
  <2>3. h = [s \in SUBSET Units |-> h[s]]
    OBVIOUS
  <2> HIDE DEF h
  <2>4. \A s \in SUBSET Units : g[s] = h[s]
    BY <2>1, <2>2
  <2>5. g = h
    BY <2>3, <2>4
  <2> QED
    BY <2>5 DEF h
<1> HIDE DEF Solves
<1>6. Solves(Sum)
  BY <1>3, <1>5
<1>7. \A s \in SUBSET Units : Sum[s] = IF s = {} THEN 0 ELSE p[c[s]] + Sum[s \ {c[s]}]
  BY <1>1, <1>6 DEF Solves
<1> DEFINE Right(s) == Sum[s] = IF v \in s THEN p[v] ELSE 0
           Wrong == {n \in Nat : \E s \in SUBSET Units : Cardinality(s) = n /\ ~Right(s)}
<1>8. Wrong = {}
  <2> SUFFICES ASSUME Wrong # {} PROVE FALSE
    OBVIOUS
  <2>1. PICK m \in Wrong : \A y \in Wrong : m <= y
    BY NatHasMin
  <2>2. PICK s \in SUBSET Units : Cardinality(s) = m /\ ~Right(s)
    BY <2>1
  <2>3. s # {}
    BY <1>7, <2>2
  <2> DEFINE r == s \ {c[s]}
  <2>4. c[s] \in s
    BY <1>2, <2>3
  <2>5. IsFiniteSet(s)
    BY <1>f, FS_Subset
  <2>6. Cardinality(r) = m - 1
    BY <2>2, <2>4, <2>5, FS_RemoveElement
  <2>7. IsFiniteSet(r) /\ r \in SUBSET Units
    BY <2>5, FS_RemoveElement
  <2>8. Cardinality(r) \in Nat
    BY <2>7, FS_CardinalityType
  <2>9. Right(r)
    BY <2>1, <2>6, <2>7, <2>8
  <2>10. Sum[s] = p[c[s]] + Sum[r]
    BY <1>7, <2>3
  <2> HIDE DEF r
  <2>11. v \in r <=> v \in s /\ v # c[s]
    BY DEF r
  <2>12. c[s] # v => p[c[s]] = 0
    BY <2>4
  <2> QED
    BY <2>2, <2>4, <2>9, <2>10, <2>11, <2>12
<1>9. Right(Units)
  <2>1. Cardinality(Units) \in Nat
    BY <1>f, FS_CardinalityType
  <2> QED
    BY <1>8, <2>1
<1> QED
  BY <1>3, <1>9

SignInv ==
    /\ sample \in [Units -> 0..Len(pushes)]
    /\ \A i \in DOMAIN pushes : pushes[i] \in PushRecords /\ pushes[i].listed = Units
    /\ Linked!SignRight

\* The count of a set, as LinkedUnits takes it.
LEMMA SameCount == ASSUME NEW T PROVE Linked!Cardinality(T) = Cardinality(T)
  BY DEF Cardinality, Linked!Cardinality

\* A direction the message proves is the unit's own.
LEMMA SignedAsMoved ==
  ASSUME NEW push \in PushRecords, push.listed = Units, NEW v \in Units, Linked!Proven(push, v)
  PROVE  Linked!Signed(push, v) = push.power[v]
<1>1. PICK p : p = push.power
  OBVIOUS
<1>2. p \in [Units -> Int]
  <2>1. push.power \in [Units -> BatteryPowers]
    BY Zenon DEF PushRecords
  <2> QED
    BY <1>1, <2>1, ValuesAssumption
<1>3. PICK m : m = Linked!Magnitude(push, v)
  OBVIOUS
<1>4. m = IF p[v] < 0 THEN -p[v] ELSE p[v]
  BY <1>1, <1>3 DEF Linked!Magnitude
<1>5. PICK d : d = Linked!Direction(push, v)
  OBVIOUS
<1>6. (m = 0 \/ d # 0) /\ Linked!Signed(push, v) = IF d > 0 THEN m ELSE -m
  BY <1>3, <1>5 DEF Linked!Proven, Linked!Signed
<1>7. d = p[v] \/ d = 0 \/ p[v] = 0
  <2>1. CASE push.polled
    BY <1>1, <1>5, <2>1 DEF Linked!Direction
  <2>2. CASE ~push.polled /\ Linked!Alone(push) /\ push.flows
    <3>1. d = Linked!SystemPower(p)
      BY <1>1, <1>5, <2>2 DEF Linked!Direction
    <3> DEFINE moving == {u \in Units : p[u] # 0}
    <3>a. moving = {u \in push.listed : push.power[u] # 0}
      BY <1>1
    <3>b. Cardinality({u \in push.listed : push.power[u] # 0}) = 1
      BY <2>2, SameCount DEF Linked!Alone
    <3> HIDE DEF moving
    <3>2. Cardinality(moving) = 1
      BY <3>a, <3>b
    <3>3. IsFiniteSet(moving)
      BY ValuesAssumption, FS_Subset DEF moving
    <3>4. PICK w : moving = {w}
      BY <3>2, <3>3, FS_Singleton
    <3>5. CASE v = w
      <4>1. \A u \in Units \ {v} : p[u] = 0
        BY <3>4, <3>5 DEF moving
      <4> QED
        BY <1>2, <3>1, <4>1, AloneIsSystem
    <3>6. CASE v # w
      BY <3>4, <3>6 DEF moving
    <3> QED
      BY <3>5, <3>6
  <2>3. CASE ~push.polled /\ ~(Linked!Alone(push) /\ push.flows)
    BY <1>5, <2>3 DEF Linked!Direction
  <2> QED
    BY <2>1, <2>2, <2>3
<1>8. p[v] \in Int
  BY <1>2
<1>9. m \in Int /\ (m = 0 <=> p[v] = 0) /\ (p[v] > 0 => m = p[v]) /\ (p[v] < 0 => m = -p[v])
  <2>1. PICK q : q = p[v]
    OBVIOUS
  <2>2. q \in Int /\ m = IF q < 0 THEN -q ELSE q
    BY <1>4, <1>8, <2>1
  <2>3. m \in Int /\ (m = 0 <=> q = 0) /\ (q > 0 => m = q) /\ (q < 0 => m = -q)
    BY <2>2
  <2> QED
    BY <2>1, <2>3
<1>10. p[v] = 0 => (IF d > 0 THEN m ELSE -m) = p[v]
  <2>1. p[v] = 0 => m = 0
    BY <1>9
  <2>2. PICK k : k = -m
    OBVIOUS
  <2>3. k \in Int /\ k + m = 0
    BY <1>9, <2>2
  <2>4. m = 0 => k = 0
    BY <2>3
  <2>5. (IF d > 0 THEN m ELSE k) = m \/ (IF d > 0 THEN m ELSE k) = k
    OBVIOUS
  <2> QED
    BY <2>1, <2>2, <2>4, <2>5
<1>11. p[v] # 0 => d = p[v]
  BY <1>6, <1>7, <1>9
<1>12. p[v] # 0 => (IF d > 0 THEN m ELSE -m) = p[v]
  BY <1>8, <1>9, <1>11
<1> QED
  BY <1>1, <1>6, <1>10, <1>12

\* No power was shown yet.
LEMMA SignInitHolds == ASSUME Linked!UnitsInit PROVE SignInv
  BY DEF Linked!UnitsInit, Linked!SignRight, SignInv

\* A new push leaves the earlier ones as they were.
LEMMA SignPushes ==
  ASSUME SignInv, pushes \in Seq(PushRecords), NEW push \in PushRecords, push.listed = Units,
         pushes' = Append(pushes, push), UNCHANGED <<unitW, sample>>
  PROVE  SignInv'
<1>1. /\ Len(pushes) \in Nat /\ Len(pushes') = Len(pushes) + 1
      /\ DOMAIN pushes = 1..Len(pushes) /\ DOMAIN pushes' = 1..Len(pushes) + 1
      /\ \A i \in DOMAIN pushes : pushes'[i] = pushes[i]
      /\ pushes'[Len(pushes) + 1] = push
  OBVIOUS
<1>2. sample' \in [Units -> 0..Len(pushes')]
  BY <1>1 DEF SignInv
<1>3. \A i \in DOMAIN pushes' : pushes'[i] \in PushRecords /\ pushes'[i].listed = Units
  BY <1>1 DEF SignInv
<1>4. ASSUME NEW u \in Units, sample[u] > 0 PROVE unitW[u] = pushes'[sample[u]].power[u]
  <2>1. sample[u] \in DOMAIN pushes
    BY <1>1, <1>4 DEF SignInv
  <2>2. unitW[u] = pushes[sample[u]].power[u]
    BY <1>4 DEF SignInv, Linked!SignRight
  <2> QED
    BY <1>1, <2>1, <2>2
<1> QED
  BY <1>2, <1>3, <1>4 DEF SignInv, Linked!SignRight

\* What a step shows anew is signed as its push proves.
LEMMA SignStepHolds ==
  ASSUME SignInv, pushes \in Seq(PushRecords), arrived \in [Units -> 0..Len(pushes)],
         WholeLists, Linked!UnitsNext
  PROVE  SignInv'
<1>o. DOMAIN pushes = 1..Len(pushes) /\ Len(pushes) \in Nat
  OBVIOUS
<1>1. CASE Linked!Push
  <2>1. PICK power \in [Units -> BatteryPowers], listed \in SUBSET Units, polled \in BOOLEAN, flows \in BOOLEAN :
           /\ listed = Units
           /\ pushes' = Append(pushes, [power |-> power, listed |-> listed, age |-> 0, polled |-> polled, flows |-> flows])
    BY <1>1 DEF Linked!Push
  <2> DEFINE push == [power |-> power, listed |-> listed, age |-> 0, polled |-> polled, flows |-> flows]
  <2>2. push \in PushRecords /\ push.listed = Units
    BY <2>1, ValuesAssumption DEF PushRecords
  <2> HIDE DEF push
  <2>3. pushes' = Append(pushes, push)
    BY <2>1 DEF push
  <2> QED
    BY <1>1, <2>2, <2>3, SignPushes DEF Linked!Push
<1>2. CASE Linked!TimePasses
  <2>1. /\ pushes' = [i \in DOMAIN pushes |-> [pushes[i] EXCEPT !.age = IF @ > Lag THEN @ ELSE @ + 1]]
        /\ UNCHANGED <<unitW, sample>>
    BY <1>2 DEF Linked!TimePasses
  <2>2. ASSUME NEW p \in PushRecords
        PROVE  p.age \in 0..Lag + 1
    BY Zenon DEF PushRecords
  <2>3. ASSUME NEW p \in PushRecords, NEW age \in 0..Lag + 1
        PROVE  /\ [p EXCEPT !.age = age] \in PushRecords
               /\ [p EXCEPT !.age = age].power = p.power /\ [p EXCEPT !.age = age].listed = p.listed
    BY Zenon DEF PushRecords
  <2>4. ASSUME NEW i \in DOMAIN pushes
        PROVE  /\ pushes'[i] \in PushRecords
               /\ pushes'[i].power = pushes[i].power /\ pushes'[i].listed = pushes[i].listed
    <3> DEFINE older == IF pushes[i].age > Lag THEN pushes[i].age ELSE pushes[i].age + 1
    <3>1. pushes[i] \in PushRecords /\ pushes[i].age \in 0..Lag + 1
      BY <2>2 DEF SignInv
    <3>2. older \in 0..Lag + 1
      BY <3>1, ValuesAssumption
    <3>3. pushes'[i] = [pushes[i] EXCEPT !.age = older]
      BY <2>1
    <3> HIDE DEF older
    <3> QED
      BY <2>3, <3>1, <3>2, <3>3
  <2>5. DOMAIN pushes' = DOMAIN pushes /\ Len(pushes') = Len(pushes)
    <3>1. DOMAIN pushes' = 1..Len(pushes)
      BY <1>o, <2>1
    <3>2. pushes' \in [1..Len(pushes) -> PushRecords]
      BY <1>o, <2>1, <2>4
    <3>3. pushes' \in Seq(PushRecords)
      BY <1>o, <3>2, SeqDef
    <3> QED
      BY <1>o, <3>1, <3>3
  <2>6. ASSUME NEW u \in Units, sample[u] > 0 PROVE unitW[u] = pushes'[sample[u]].power[u]
    <3>1. sample[u] \in DOMAIN pushes
      BY <1>o, <2>6 DEF SignInv
    <3>2. unitW[u] = pushes[sample[u]].power[u]
      BY <2>6 DEF SignInv, Linked!SignRight
    <3> QED
      BY <2>4, <3>1, <3>2
  <2> QED
    BY <2>1, <2>4, <2>5, <2>6 DEF SignInv, Linked!SignRight
<1>3. ASSUME NEW u \in Units, Linked!PushArrives(u) PROVE SignInv'
  <2> DEFINE n == arrived[u] + 1
             push == pushes[n]
             proven == {v \in push.listed : Linked!Proven(push, v)}
             powers == Linked!Takers("power", u, proven)
  <2>1. /\ arrived[u] < Len(pushes)
        /\ unitW' = [v \in Units |-> IF v \in powers THEN Linked!Signed(push, v) ELSE unitW[v]]
        /\ sample' = [v \in Units |-> IF v \in powers THEN n ELSE sample[v]]
        /\ pushes' = pushes
    BY <1>3 DEF Linked!PushArrives
  <2>2. n \in DOMAIN pushes /\ n \in 1..Len(pushes)
    BY <1>o, <2>1
  <2>3. push \in PushRecords /\ push.listed = Units
    BY <2>2 DEF SignInv
  <2>4. \A v \in powers : Linked!Proven(push, v)
    BY DEF Linked!Takers
  <2> HIDE DEF powers, push
  <2>5. \A v \in Units : v \in powers => Linked!Signed(push, v) = push.power[v]
    BY <2>3, <2>4, SignedAsMoved
  <2>6. sample' \in [Units -> 0..Len(pushes)]
    BY <2>1, <2>2 DEF SignInv
  <2>7. ASSUME NEW v \in Units, sample'[v] > 0 PROVE unitW'[v] = pushes[sample'[v]].power[v]
    <3>1. CASE v \in powers
      BY <2>1, <2>5, <3>1 DEF push
    <3>2. CASE v \notin powers
      BY <2>1, <2>7, <3>2 DEF SignInv, Linked!SignRight
    <3> QED
      BY <3>1, <3>2
  <2> QED
    BY <2>1, <2>6, <2>7 DEF SignInv, Linked!SignRight
<1>4. ASSUME NEW u \in Units, Linked!PushLost(u) PROVE SignInv'
  BY <1>4 DEF Linked!PushLost, SignInv, Linked!SignRight
<1>5. ASSUME NEW u \in Units, Linked!FullStateAsked(u) PROVE SignInv'
  <2>1. PICK power \in [Units -> BatteryPowers] :
           pushes' = Append(pushes, [power |-> power, listed |-> Units, age |-> 0, polled |-> TRUE, flows |-> TRUE])
    BY <1>5 DEF Linked!FullStateAsked
  <2> DEFINE push == [power |-> power, listed |-> Units, age |-> 0, polled |-> TRUE, flows |-> TRUE]
  <2>2. push \in PushRecords /\ push.listed = Units
    BY ValuesAssumption DEF PushRecords
  <2> HIDE DEF push
  <2>3. pushes' = Append(pushes, push)
    BY <2>1 DEF push
  <2> QED
    BY <1>5, <2>2, <2>3, SignPushes DEF Linked!FullStateAsked
<1>6. CASE Linked!TableGone
  BY <1>6 DEF Linked!TableGone, SignInv, Linked!SignRight
<1> QED
  BY <1>1, <1>2, <1>3, <1>4, <1>5, <1>6 DEF Linked!UnitsNext

-----------------------------------------------------------------------------
(* Partial frames.  What a parser keeps of one frame and reads in another is   *)
(* what the device said last of the field, and the readings that are judged    *)
(* by it are right for that.                                                   *)

PlugInv ==
    /\ DOMAIN told \subseteq {"switch", "current"}
    /\ "switch" \in DOMAIN told => told["switch"] \in 0..1 /\ Reports!Shows("switch", told["switch"])
    /\ "switch" \notin DOMAIN told => "switch" \notin DOMAIN display
    /\ "current" \in DOMAIN told => told["current"] \in 0..2 /\ lastCurrent = told["current"]
    /\ "current" \notin DOMAIN told => lastCurrent = Reports!None
    /\ "switch" \in DOMAIN told /\ told["switch"] = 0 => Reports!Shows("current", 0)
    /\ {"switch", "current"} \subseteq DOMAIN told /\ told["switch"] = 1 =>
          Reports!Shows("current", told["current"])

Wave3Inv ==
    /\ DOMAIN told \subseteq {"mode", "list"}
    /\ \A x \in {"mode", "list"} :
          /\ x \in DOMAIN told => Reports!Shows(x, told[x])
          /\ x \notin DOMAIN told => x \notin DOMAIN display
    /\ {"mode", "list"} \subseteq DOMAIN told => Reports!Shows("target", told["list"][told["mode"] + 1])

PanelInv ==
    /\ "ready" \in DOMAIN told <=> "connected" \in DOMAIN told
    /\ "ready" \in DOMAIN told /\ told["ready"] = 0 /\ told["connected"] = 0 => Reports!Silent("level")

Delta3Inv ==
    /\ "state" \in DOMAIN told /\ told["state"] = 1 => Reports!Silent("discharging")
    /\ "state" \in DOMAIN told /\ told["state"] = 0 => Reports!Silent("charging")

Ocean2Inv ==
    /\ \A x \in DOMAIN told :
         \/ "flow" \in DOMAIN told /\ Reports!Shows("power", told["flow"])
         \/ "summary" \in DOMAIN told /\ Reports!Shows("power", 0 - told["summary"])
    /\ Reports!HalvesAgree

StreamInv ==
    "unit" \in DOMAIN told /\ told["unit"][2] = 0 /\ told["unit"][1] > 0 => Reports!Silent("load")

ReadingsInv ==
    /\ family \in Reports!Families /\ device \in Reports!Devices[family]
    /\ family = "plug" => PlugInv
    /\ family = "wave3" => Wave3Inv
    /\ family = "panel" => PanelInv
    /\ family = "delta3" => Delta3Inv
    /\ family = "ocean2" => Ocean2Inv
    /\ family = "stream" => StreamInv
    /\ family # "ocean2" => "power" \notin DOMAIN display

\* What each device says of itself.
LEMMA PlugWire ==
  ASSUME NEW d \in Reports!Devices["plug"]
  PROVE  /\ DOMAIN Reports!Wire("plug", d) = {"switch", "current"}
         /\ Reports!Wire("plug", d)["switch"] = d.relay
         /\ Reports!Wire("plug", d)["current"] = d.relay * d.load
         /\ d.relay \in 0..1 /\ d.load \in 1..2 /\ d.relay * d.load \in 0..2
<1>1. d.relay \in 0..1 /\ d.load \in 1..2
  BY DEF Reports!Devices
<1>2. d.relay * d.load \in 0..2
  <2>1. CASE d.relay = 0
    BY <1>1, <2>1
  <2>2. CASE d.relay = 1
    BY <1>1, <2>2
  <2> QED
    BY <1>1, <2>1, <2>2
<1>3. Reports!Wire("plug", d) = [switch |-> d.relay, current |-> d.relay * d.load]
  BY DEF Reports!Wire
<1> QED
  BY <1>1, <1>2, <1>3

\* A frame of a smart plug: the current follows the relay.
LEMMA PlugFrame ==
  ASSUME PlugInv, NEW frame, DOMAIN frame \subseteq {"switch", "current"},
         "switch" \in DOMAIN frame => frame["switch"] \in 0..1,
         "current" \in DOMAIN frame => frame["current"] \in 0..2,
         told' = Reports!Merged(frame, told),
         NEW r, r = Reports!PlugReadings(frame), display' = Reports!Merged(r, display),
         lastCurrent' = Reports!RememberedCurrent(frame)
  PROVE  PlugInv'
<1>k. PICK kept : kept = Reports!HeldCurrent(frame)
  OBVIOUS
<1>l. PICK relay : relay = Reports!Latest(frame, "switch", Reports!None)
  OBVIOUS
<1> DEFINE some == DOMAIN frame
<1>1. /\ DOMAIN frame = some
      /\ "switch" \in some => frame["switch"] \in 0..1
      /\ "current" \in some => frame["current"] \in 0..2
  OBVIOUS
<1>2. /\ DOMAIN told' = some \cup DOMAIN told
      /\ \A x \in some : told'[x] = frame[x]
      /\ \A x \in DOMAIN told \ some : told'[x] = told[x]
  BY DEF Reports!Merged
<1>3. /\ "switch" \in DOMAIN told' => relay = told'["switch"] /\ relay \in 0..1
      /\ "switch" \notin DOMAIN told' => relay = Reports!None
  BY <1>1, <1>2, <1>l DEF PlugInv, Reports!Latest, Reports!Has, Reports!Shows
<1>4. /\ "current" \in DOMAIN told' => lastCurrent' = told'["current"] /\ told'["current"] \in 0..2
      /\ "current" \notin DOMAIN told' => lastCurrent' = Reports!None
  BY <1>1, <1>2 DEF PlugInv, Reports!RememberedCurrent, Reports!Has
<1>5. /\ relay = 0 => DOMAIN kept = {"current"} /\ kept["current"] = 0
      /\ relay = 1 /\ "current" \in DOMAIN told' =>
            DOMAIN kept = {"current"} /\ kept["current"] = told'["current"]
      /\ DOMAIN kept \subseteq {"current"}
  <2>1. CASE relay = 0
    BY <2>1, <1>k, <1>l DEF Reports!HeldCurrent, Reports!One
  <2>2. CASE relay = 1 /\ lastCurrent' # Reports!None
    <3>1. kept = Reports!One("current", lastCurrent')
      BY <2>2, <1>k, <1>l DEF Reports!HeldCurrent
    <3> QED
      BY <2>2, <3>1, <1>4 DEF Reports!One
  <2>3. CASE ~(relay = 0) /\ ~(relay = 1 /\ lastCurrent' # Reports!None)
    <3>1. kept = Reports!Taken(frame, "current")
      BY <2>3, <1>k, <1>l DEF Reports!HeldCurrent
    <3> QED
      BY <2>3, <3>1, <1>4 DEF Reports!None, Reports!Taken, Reports!Has, Reports!One, Reports!Nil
  <2> QED
    BY <2>1, <2>2, <2>3
<1>6. /\ DOMAIN r = DOMAIN kept \cup (some \cap {"switch"})
      /\ \A x \in DOMAIN kept : r[x] = kept[x]
      /\ "switch" \in some => r["switch"] = frame["switch"]
  <2>1. r = Reports!Merged(kept, Reports!Taken(frame, "switch"))
    BY <1>k DEF Reports!PlugReadings
  <2> QED
    BY <1>1, <1>5, <2>1 DEF Reports!Merged, Reports!Taken, Reports!Has, Reports!One, Reports!Nil
<1>7. /\ DOMAIN display' = DOMAIN r \cup DOMAIN display
      /\ \A x \in DOMAIN r : display'[x] = r[x]
      /\ \A x \in DOMAIN display \ DOMAIN r : display'[x] = display[x]
  BY DEF Reports!Merged
<1>8. /\ "switch" \in DOMAIN told' => /\ told'["switch"] \in 0..1
                                      /\ "switch" \in DOMAIN display'
                                      /\ display'["switch"] = told'["switch"]
      /\ "switch" \notin DOMAIN told' => "switch" \notin DOMAIN display'
  BY <1>1, <1>2, <1>5, <1>6, <1>7 DEF PlugInv, Reports!Shows
<1>9. /\ relay = 0 => "current" \in DOMAIN display' /\ display'["current"] = 0
      /\ relay = 1 /\ "current" \in DOMAIN told' =>
            "current" \in DOMAIN display' /\ display'["current"] = told'["current"]
  BY <1>5, <1>6, <1>7
<1> QED
  BY <1>1, <1>2, <1>3, <1>4, <1>8, <1>9 DEF PlugInv, Reports!Shows

\* A plug with nothing left to say shows its load.
LEMMA PlugIsRight ==
  ASSUME PlugInv, family = "plug", device \in Reports!Devices["plug"], Reports!Unsaid = {}
  PROVE  Reports!PlugRight
<1>1. Reports!Fields("plug") = {"switch", "current"}
  <2>1. \E d : d \in Reports!Devices["plug"]
    <3>1. [relay |-> 0, load |-> 1] \in Reports!Devices["plug"]
      BY DEF Reports!Devices
    <3> QED
      BY <3>1
  <2> QED
    BY <2>1, PlugWire DEF Reports!Fields
<1>2. \A x \in {"switch", "current"} :
         Reports!Says(x, device) => x \in DOMAIN told /\ told[x] = Reports!Wire("plug", device)[x]
  BY <1>1 DEF Reports!Unsaid
<1>3. Reports!Says("switch", device) /\ (device.relay # 0 => Reports!Says("current", device))
  BY DEF Reports!Says
<1>4. told["switch"] = device.relay /\ "switch" \in DOMAIN told
  BY <1>2, <1>3, PlugWire
<1>5. device.relay # 0 => "current" \in DOMAIN told /\ told["current"] = device.relay * device.load
  BY <1>2, <1>3, PlugWire
<1>6. device.relay = 0 => device.relay * device.load = 0
  BY PlugWire
<1> QED
  BY <1>4, <1>5, <1>6, PlugWire DEF PlugInv, Reports!PlugRight, Reports!Shows

\* A frame of a WAVE 3: the setpoint follows the mode and the list, whichever came last.
LEMMA Wave3Frame ==
  ASSUME Wave3Inv, NEW frame, DOMAIN frame \subseteq {"mode", "list"},
         told' = Reports!Merged(frame, told),
         NEW r, r = Reports!Wave3Readings(frame), display' = Reports!Merged(r, display)
  PROVE  Wave3Inv'
<1>k. PICK active : active = Reports!ActiveTarget(frame)
  OBVIOUS
<1>1. /\ DOMAIN told' = DOMAIN frame \cup DOMAIN told
      /\ \A x \in DOMAIN frame : told'[x] = frame[x]
      /\ \A x \in DOMAIN told \ DOMAIN frame : told'[x] = told[x]
  BY DEF Reports!Merged
<1>2. /\ DOMAIN active \subseteq {"target"}
      /\ {"mode", "list"} \subseteq DOMAIN told' =>
            "target" \in DOMAIN active /\ active["target"] = told'["list"][told'["mode"] + 1]
  <2>1. CASE ~Reports!Has(frame, "mode") /\ "mode" \notin DOMAIN display
    <3>1. active = Reports!Nil
      BY <1>k, <2>1 DEF Reports!ActiveTarget
    <3>2. "mode" \notin DOMAIN told'
      BY <1>1, <2>1 DEF Wave3Inv, Reports!Has, Reports!Shows
    <3> QED
      BY <3>1, <3>2 DEF Reports!Nil
  <2>2. CASE ~(~Reports!Has(frame, "mode") /\ "mode" \notin DOMAIN display)
    <3>1. PICK mode : mode = Reports!Latest(frame, "mode", Reports!None)
      OBVIOUS
    <3>2. PICK list : list = IF Reports!Has(frame, "list") THEN frame["list"]
                             ELSE IF "list" \in DOMAIN display THEN display["list"]
                             ELSE <<Reports!None, Reports!None>>
      OBVIOUS
    <3>3. active = Reports!One("target", list[mode + 1])
      BY <1>k, <2>2, <3>1, <3>2 DEF Reports!ActiveTarget
    <3>4. "mode" \in DOMAIN told' => mode = told'["mode"]
      BY <1>1, <3>1 DEF Wave3Inv, Reports!Latest, Reports!Has, Reports!Shows
    <3>5. "list" \in DOMAIN told' => list = told'["list"]
      BY <1>1, <3>2 DEF Wave3Inv, Reports!Has, Reports!Shows
    <3> QED
      BY <3>3, <3>4, <3>5 DEF Reports!One
  <2> QED
    BY <2>1, <2>2
<1>3. /\ DOMAIN r = DOMAIN active \cup DOMAIN frame
      /\ \A x \in DOMAIN active : r[x] = active[x]
      /\ \A x \in DOMAIN frame : r[x] = frame[x]
  <2>1. PICK rest : rest = Reports!Merged(Reports!Taken(frame, "mode"), Reports!Taken(frame, "list"))
    OBVIOUS
  <2>2. DOMAIN rest = DOMAIN frame /\ \A x \in DOMAIN frame : rest[x] = frame[x]
    BY <2>1 DEF Reports!Merged, Reports!Taken, Reports!Has, Reports!One, Reports!Nil
  <2>3. r = Reports!Merged(active, rest)
    BY <1>k, <2>1 DEF Reports!Wave3Readings
  <2> QED
    BY <1>2, <2>2, <2>3 DEF Reports!Merged
<1>4. /\ DOMAIN display' = DOMAIN r \cup DOMAIN display
      /\ \A x \in DOMAIN r : display'[x] = r[x]
      /\ \A x \in DOMAIN display \ DOMAIN r : display'[x] = display[x]
  BY DEF Reports!Merged
<1>5. ASSUME NEW x \in {"mode", "list"}
      PROVE  /\ x \in DOMAIN told' => x \in DOMAIN display' /\ display'[x] = told'[x]
             /\ x \notin DOMAIN told' => x \notin DOMAIN display'
  <2>1. x \notin DOMAIN active
    BY <1>2
  <2> QED
    BY <1>1, <1>3, <1>4, <2>1 DEF Wave3Inv, Reports!Shows
<1> QED
  BY <1>1, <1>2, <1>3, <1>4, <1>5 DEF Wave3Inv, Reports!Shows

\* A frame of a panel: one without the flags says nothing of a battery that is gone.
LEMMA PanelFrame ==
  ASSUME PanelInv, NEW frame, "ready" \in DOMAIN frame <=> "connected" \in DOMAIN frame,
         told' = Reports!Merged(frame, told),
         NEW r, r = Reports!PanelReadings(frame), display' = Reports!Merged(r, display)
  PROVE  PanelInv'
<1>1. /\ DOMAIN told' = DOMAIN frame \cup DOMAIN told
      /\ \A x \in DOMAIN frame : told'[x] = frame[x]
      /\ \A x \in DOMAIN told \ DOMAIN frame : told'[x] = told[x]
  BY DEF Reports!Merged
<1>2. CASE "ready" \in DOMAIN frame /\ frame["ready"] = 0 /\ frame["connected"] = 0
  <2>1. r = Reports!One("level", Reports!None)
    BY <1>2 DEF Reports!PanelReadings, Reports!InUse, Reports!Unplugged, Reports!Has
  <2>2. "level" \in DOMAIN display' /\ display'["level"] = Reports!None
    BY <2>1 DEF Reports!Merged, Reports!One
  <2> QED
    BY <1>1, <1>2, <2>2 DEF PanelInv, Reports!Silent
<1>3. CASE "ready" \in DOMAIN frame /\ ~(frame["ready"] = 0 /\ frame["connected"] = 0)
  BY <1>1, <1>3 DEF PanelInv
<1>4. CASE "ready" \notin DOMAIN frame
  <2>1. r = Reports!Nil
    BY <1>4 DEF Reports!PanelReadings, Reports!InUse, Reports!Unplugged, Reports!Has
  <2>2. /\ DOMAIN display' = DOMAIN display
        /\ \A x \in DOMAIN display : display'[x] = display[x]
    BY <2>1 DEF Reports!Merged, Reports!Nil
  <2> QED
    BY <1>1, <1>4, <2>2 DEF PanelInv, Reports!Silent
<1> QED
  BY <1>2, <1>3, <1>4

\* A frame of a DELTA 3: with the direction come both times, and one is taken back.
LEMMA Delta3Frame ==
  ASSUME Delta3Inv, NEW frame,
         "state" \in DOMAIN frame =>
            {"charging", "discharging"} \subseteq DOMAIN frame /\ frame["state"] \in 0..1,
         told' = Reports!Merged(frame, told),
         NEW r, r = Reports!Delta3Readings(frame), display' = Reports!Merged(r, display)
  PROVE  Delta3Inv'
<1>1. /\ DOMAIN told' = DOMAIN frame \cup DOMAIN told
      /\ \A x \in DOMAIN frame : told'[x] = frame[x]
      /\ \A x \in DOMAIN told \ DOMAIN frame : told'[x] = told[x]
  BY DEF Reports!Merged
<1>2. PICK c : c = Reports!TimeOf(frame, "charging", 1)
  OBVIOUS
<1>3. PICK d : d = Reports!TimeOf(frame, "discharging", 0)
  OBVIOUS
<1>4. PICK s : s = Reports!Taken(frame, "state")
  OBVIOUS
<1>5. PICK rest : rest = Reports!Merged(d, s)
  OBVIOUS
<1>6. r = Reports!Merged(c, rest)
  BY <1>2, <1>3, <1>4, <1>5 DEF Reports!Delta3Readings
<1>7. CASE "state" \in DOMAIN frame
  <2>1. /\ DOMAIN c = {"charging"} /\ DOMAIN d = {"discharging"} /\ DOMAIN s = {"state"}
        /\ frame["state"] = 0 => c["charging"] = Reports!None
        /\ frame["state"] = 1 => d["discharging"] = Reports!None
    BY <1>2, <1>3, <1>4, <1>7 DEF Reports!TimeOf, Reports!Taken, Reports!Has, Reports!One
  <2>2. "discharging" \in DOMAIN rest /\ rest["discharging"] = d["discharging"]
    BY <1>5, <2>1 DEF Reports!Merged
  <2>3. /\ {"charging", "discharging"} \subseteq DOMAIN r
        /\ r["charging"] = c["charging"] /\ r["discharging"] = d["discharging"]
    BY <1>6, <2>1, <2>2 DEF Reports!Merged
  <2>4. /\ {"charging", "discharging"} \subseteq DOMAIN display'
        /\ display'["charging"] = c["charging"] /\ display'["discharging"] = d["discharging"]
    BY <2>3 DEF Reports!Merged
  <2> QED
    BY <1>1, <1>7, <2>1, <2>4 DEF Delta3Inv, Reports!Silent
<1>8. CASE "state" \notin DOMAIN frame
  <2>1. DOMAIN c = {} /\ DOMAIN d = {} /\ DOMAIN s = {}
    BY <1>2, <1>3, <1>4, <1>8 DEF Reports!TimeOf, Reports!Taken, Reports!Has, Reports!Nil
  <2>2. DOMAIN rest = {}
    BY <1>5, <2>1 DEF Reports!Merged
  <2>3. DOMAIN r = {}
    BY <1>6, <2>1, <2>2 DEF Reports!Merged
  <2>4. /\ DOMAIN display' = DOMAIN display
        /\ \A x \in DOMAIN display : display'[x] = display[x]
    BY <2>3 DEF Reports!Merged
  <2> QED
    BY <1>1, <1>8, <2>4 DEF Delta3Inv, Reports!Silent
<1> QED
  BY <1>7, <1>8

\* A frame of an Ocean 2: either block gives the power, and the halves go with it.
LEMMA Ocean2Frame ==
  ASSUME Ocean2Inv, NEW frame, DOMAIN frame \subseteq {"flow", "summary"}, DOMAIN frame # {},
         \A x \in DOMAIN frame : frame[x] \in Int,
         told' = Reports!Merged(frame, told),
         NEW r, r = Reports!Ocean2Readings(frame), display' = Reports!Merged(r, display)
  PROVE  Ocean2Inv'
<1>1. /\ DOMAIN told' = DOMAIN frame \cup DOMAIN told
      /\ \A x \in DOMAIN frame : told'[x] = frame[x]
  BY DEF Reports!Merged
<1>2. PICK w : w = Reports!BatteryPower(frame)
  OBVIOUS
<1>3. /\ w \in Int
      /\ \/ "flow" \in DOMAIN frame /\ w = frame["flow"]
         \/ "summary" \in DOMAIN frame /\ w = 0 - frame["summary"]
  BY <1>2 DEF Reports!BatteryPower, Reports!Has
<1>4. PICK h : h = Reports!Halves(w)
  OBVIOUS
<1>5. /\ DOMAIN h = {"charge", "discharge"}
      /\ h["charge"] - h["discharge"] = w /\ (h["charge"] = 0 \/ h["discharge"] = 0)
  BY <1>3, <1>4 DEF Reports!Halves
<1>6. r = Reports!Merged(h, Reports!One("power", w))
  BY <1>2, <1>4 DEF Reports!Ocean2Readings
<1>7. /\ {"charge", "discharge", "power"} \subseteq DOMAIN r
      /\ r["charge"] = h["charge"] /\ r["discharge"] = h["discharge"] /\ r["power"] = w
  BY <1>5, <1>6 DEF Reports!Merged, Reports!One
<1>8. /\ {"charge", "discharge", "power"} \subseteq DOMAIN display'
      /\ display'["charge"] = h["charge"] /\ display'["discharge"] = h["discharge"]
      /\ display'["power"] = w
  BY <1>7 DEF Reports!Merged
<1>9. Reports!HalvesAgree'
  BY <1>5, <1>8 DEF Reports!HalvesAgree
<1>10. \/ "flow" \in DOMAIN told' /\ w = told'["flow"]
       \/ "summary" \in DOMAIN told' /\ w = 0 - told'["summary"]
  BY <1>1, <1>3
<1> QED
  BY <1>8, <1>9, <1>10 DEF Ocean2Inv, Reports!Shows

\* A frame of a STREAM's unit: a zero beside a charge of its own takes the load back.
LEMMA StreamFrame ==
  ASSUME NEW frame, DOMAIN frame = {"unit"},
         told' = Reports!Merged(frame, told),
         NEW r, r = Reports!StreamReadings(frame), display' = Reports!Merged(r, display)
  PROVE  StreamInv'
<1>1. told'["unit"] = frame["unit"]
  BY DEF Reports!Merged
<1>2. PICK load : load = IF Reports!Follows(frame) THEN Reports!None ELSE frame["unit"][3]
  OBVIOUS
<1>3. r = Reports!One("load", load)
  BY <1>2 DEF Reports!StreamReadings
<1>4. "load" \in DOMAIN display' /\ display'["load"] = load
  BY <1>3 DEF Reports!Merged, Reports!One
<1> QED
  BY <1>1, <1>2, <1>4 DEF StreamInv, Reports!Silent, Reports!Follows

\* Only an Ocean 2's readings hold a power.
LEMMA NoPower ==
  ASSUME family \in Reports!Families, family # "ocean2", NEW frame, NEW r, r = Reports!ReadingsOf(frame)
  PROVE  "power" \notin DOMAIN r
<1>t. ASSUME NEW x \in {"mode", "list", "state", "switch", "current", "level"},
             NEW t, t = Reports!Taken(frame, x)
      PROVE  DOMAIN t \subseteq {x}
  BY <1>t DEF Reports!Taken, Reports!Has, Reports!One, Reports!Nil
<1>1. CASE family = "plug"
  <2>1. PICK h : h = Reports!HeldCurrent(frame)
    OBVIOUS
  <2>2. PICK t : t = Reports!Taken(frame, "switch")
    OBVIOUS
  <2>3. PICK u : u = Reports!Taken(frame, "current")
    OBVIOUS
  <2>4. DOMAIN t \subseteq {"switch"} /\ DOMAIN u \subseteq {"current"}
    BY <1>t, <2>2, <2>3
  <2>5. h = u \/ \E v : h = Reports!One("current", v)
    BY <2>1, <2>3 DEF Reports!HeldCurrent
  <2>6. "power" \notin DOMAIN h
    BY <2>4, <2>5 DEF Reports!One
  <2>7. r = Reports!Merged(h, t)
    BY <1>1, <2>1, <2>2 DEF Reports!ReadingsOf, Reports!PlugReadings
  <2> QED
    BY <2>4, <2>6, <2>7 DEF Reports!Merged
<1>2. CASE family = "wave3"
  <2>1. PICK a : a = Reports!ActiveTarget(frame)
    OBVIOUS
  <2>2. PICK t : t = Reports!Taken(frame, "mode")
    OBVIOUS
  <2>3. PICK u : u = Reports!Taken(frame, "list")
    OBVIOUS
  <2>4. PICK b : b = Reports!Merged(t, u)
    OBVIOUS
  <2>5. DOMAIN t \subseteq {"mode"} /\ DOMAIN u \subseteq {"list"}
    BY <1>t, <2>2, <2>3
  <2>6. DOMAIN a \subseteq {"target"}
    BY <2>1 DEF Reports!ActiveTarget, Reports!Nil, Reports!One
  <2>7. r = Reports!Merged(a, b)
    BY <1>2, <2>1, <2>2, <2>3, <2>4 DEF Reports!ReadingsOf, Reports!Wave3Readings
  <2>8. "power" \notin DOMAIN b
    BY <2>4, <2>5 DEF Reports!Merged
  <2> QED
    BY <2>6, <2>7, <2>8 DEF Reports!Merged
<1>3. CASE family = "panel"
  <2>1. PICK t : t = Reports!Taken(frame, "level")
    OBVIOUS
  <2>2. DOMAIN t \subseteq {"level"}
    BY <1>t, <2>1
  <2>3. r = t \/ r = Reports!One("level", Reports!None) \/ r = Reports!Nil
    BY <1>3, <2>1 DEF Reports!ReadingsOf, Reports!PanelReadings
  <2> QED
    BY <2>2, <2>3 DEF Reports!One, Reports!Nil
<1>4. CASE family = "delta3"
  <2>1. PICK c : c = Reports!TimeOf(frame, "charging", 1)
    OBVIOUS
  <2>2. PICK d : d = Reports!TimeOf(frame, "discharging", 0)
    OBVIOUS
  <2>3. PICK s : s = Reports!Taken(frame, "state")
    OBVIOUS
  <2>4. PICK b : b = Reports!Merged(d, s)
    OBVIOUS
  <2>5. DOMAIN s \subseteq {"state"}
    BY <1>t, <2>3
  <2>6. DOMAIN c \subseteq {"charging"} /\ DOMAIN d \subseteq {"discharging"}
    BY <2>1, <2>2 DEF Reports!TimeOf, Reports!Nil, Reports!One
  <2>7. r = Reports!Merged(c, b)
    BY <1>4, <2>1, <2>2, <2>3, <2>4 DEF Reports!ReadingsOf, Reports!Delta3Readings
  <2>8. "power" \notin DOMAIN b
    BY <2>4, <2>5, <2>6 DEF Reports!Merged
  <2> QED
    BY <2>6, <2>7, <2>8 DEF Reports!Merged
<1>5. CASE family = "stream"
  BY <1>5 DEF Reports!ReadingsOf, Reports!StreamReadings, Reports!One
<1> QED
  BY <1>1, <1>2, <1>3, <1>4, <1>5 DEF Reports!Families

\* The fields of each device, and what it says in them.
LEMMA FieldsOf ==
  ASSUME NEW f \in Reports!Families, NEW d \in Reports!Devices[f], NEW w, w = Reports!Wire(f, d)
  PROVE  /\ f = "plug" => DOMAIN w = {"switch", "current"}
         /\ f = "wave3" => DOMAIN w = {"mode", "list"} /\ w["mode"] = d.mode /\ w["list"] = <<d.cooling, d.fan>>
         /\ f = "panel" => DOMAIN w = {"ready", "connected", "level"} /\ w["ready"] = d.ready /\ w["connected"] = d.connected
         /\ f = "delta3" => DOMAIN w = {"state", "charging", "discharging"} /\ w["state"] = d.charges
         /\ f = "ocean2" => DOMAIN w = {"flow", "summary"} /\ w["flow"] = d.power /\ w["summary"] = 0 - d.power
         /\ f = "stream" => DOMAIN w = {"unit"} /\ w["unit"] = <<d.charge, d.leads * d.charge, d.leads * d.load>>
  BY DEF Reports!Wire, Reports!Families

\* There is a device of every family.
LEMMA SomeDevice ==
  ASSUME NEW f \in Reports!Families
  PROVE  \E d : d \in Reports!Devices[f]
<1>1. /\ [relay |-> 0, load |-> 1] \in Reports!Devices["plug"]
      /\ [mode |-> 0, cooling |-> 1, fan |-> 1] \in Reports!Devices["wave3"]
      /\ [ready |-> 0, connected |-> 0, level |-> 1] \in Reports!Devices["panel"]
      /\ [charges |-> 0, full |-> 1, empty |-> 1] \in Reports!Devices["delta3"]
      /\ [power |-> 0] \in Reports!Devices["ocean2"]
      /\ [leads |-> 0, charge |-> 0, load |-> 0] \in Reports!Devices["stream"]
  BY DEF Reports!Devices
<1> QED
  BY <1>1 DEF Reports!Families

\* The fields do not depend on what the device does.
LEMMA Fieldnames ==
  ASSUME NEW f \in Reports!Families, NEW d \in Reports!Devices[f]
  PROVE  Reports!Fields(f) = DOMAIN Reports!Wire(f, d)
<1>1. PICK c : c = CHOOSE x \in Reports!Devices[f] : TRUE
  OBVIOUS
<1>2. c \in Reports!Devices[f]
  BY <1>1
<1>3. PICK w : w = Reports!Wire(f, c)
  OBVIOUS
<1>4. PICK v : v = Reports!Wire(f, d)
  OBVIOUS
<1>5. DOMAIN w = DOMAIN v
  BY <1>2, <1>3, <1>4, FieldsOf DEF Reports!Families
<1>6. Reports!Fields(f) = DOMAIN w
  BY <1>1, <1>3 DEF Reports!Fields
<1> QED
  BY <1>4, <1>5, <1>6

\* A frame that arrives holds some fields of the device, as it has them.
LEMMA FrameFields ==
  ASSUME ReadingsInv, Reports!FrameArrives
  PROVE  \E frame, r, w :
           /\ w = Reports!Wire(family, device)
           /\ DOMAIN frame \subseteq DOMAIN w /\ DOMAIN frame # {}
           /\ \A x \in DOMAIN frame : frame[x] = w[x]
           /\ FlagsTogether /\ family = "panel" =>
                 ("ready" \in DOMAIN frame <=> "connected" \in DOMAIN frame)
           /\ TimesWithState /\ family = "delta3" /\ "state" \in DOMAIN frame => DOMAIN frame = DOMAIN w
           /\ told' = Reports!Merged(frame, told)
           /\ r = Reports!ReadingsOf(frame) /\ display' = Reports!Merged(r, display)
           /\ family = "plug" => lastCurrent' = Reports!RememberedCurrent(frame)
           /\ UNCHANGED <<family, device>>
<1>1. PICK w : w = Reports!Wire(family, device)
  OBVIOUS
<1>2. Reports!Fields(family) = DOMAIN w
  BY <1>1, Fieldnames DEF ReadingsInv
<1>3. PICK some \in (SUBSET Reports!Fields(family)) \ {{}} :
         /\ Reports!FlagsWhole(some) /\ Reports!TimesWhole(some)
         /\ LET frame == [x \in some |-> Reports!Wire(family, device)[x]]
            IN /\ told' = Reports!Merged(frame, told)
               /\ display' = Reports!Merged(Reports!ReadingsOf(frame), display)
               /\ lastCurrent' = IF family = "plug" THEN Reports!RememberedCurrent(frame) ELSE lastCurrent
         /\ UNCHANGED <<family, device, changes>>
  BY DEF Reports!FrameArrives
<1>4. PICK frame : frame = [x \in some |-> Reports!Wire(family, device)[x]]
  OBVIOUS
<1>5. /\ told' = Reports!Merged(frame, told)
      /\ display' = Reports!Merged(Reports!ReadingsOf(frame), display)
      /\ family = "plug" => lastCurrent' = Reports!RememberedCurrent(frame)
  BY <1>3, <1>4
<1>6. PICK r : r = Reports!ReadingsOf(frame)
  OBVIOUS
<1>7. DOMAIN frame = some /\ \A x \in DOMAIN frame : frame[x] = w[x]
  BY <1>1, <1>4
<1>8. some \subseteq DOMAIN w /\ some # {}
  BY <1>2, <1>3
<1>9. FlagsTogether => ("ready" \in some <=> "connected" \in some)
  BY <1>3 DEF Reports!FlagsWhole, Reports!Flags
<1>10. ASSUME TimesWithState, family = "delta3", "state" \in some
       PROVE  some = DOMAIN w
  BY <1>2, <1>3, <1>8, <1>10 DEF Reports!TimesWhole
<1>11. display' = Reports!Merged(r, display)
  BY <1>5, <1>6
<1> QED
  BY <1>1, <1>3, <1>5, <1>6, <1>7, <1>8, <1>9, <1>10, <1>11

\* What was read is right once nothing is left to say.
LEMMA ReadingsAreRight == ASSUME ReadingsInv PROVE Reports!ReadingsRight
<1>1. PICK w : w = Reports!Wire(family, device)
  OBVIOUS
<1>2. Reports!Fields(family) = DOMAIN w
  BY <1>1, Fieldnames DEF ReadingsInv
<1>3. Reports!HalvesAgree
  BY DEF ReadingsInv, Ocean2Inv, Reports!HalvesAgree
<1>4. ASSUME Reports!Unsaid = {}
      PROVE  \A x \in DOMAIN w : Reports!Says(x, device) => x \in DOMAIN told /\ told[x] = w[x]
  BY <1>1, <1>2, <1>4 DEF Reports!Unsaid
<1>5. ASSUME Reports!Unsaid = {}, family # "plug"
      PROVE  \A x \in DOMAIN w : x \in DOMAIN told /\ told[x] = w[x]
  BY <1>4, <1>5 DEF Reports!Says
<1>6. ASSUME Reports!Unsaid = {}, family = "plug"
      PROVE  Reports!PlugRight
  BY <1>6, PlugIsRight DEF ReadingsInv
<1>7. ASSUME Reports!Unsaid = {}, family = "wave3"
      PROVE  Reports!Wave3Right
  <2>1. device.mode \in 0..1
    BY <1>7 DEF ReadingsInv, Reports!Devices
  <2>2. /\ {"mode", "list"} \subseteq DOMAIN told
        /\ told["mode"] = device.mode /\ told["list"] = <<device.cooling, device.fan>>
    BY <1>1, <1>5, <1>7, FieldsOf DEF ReadingsInv
  <2>3. Reports!Shows("target", told["list"][told["mode"] + 1])
    BY <1>7, <2>2 DEF ReadingsInv, Wave3Inv
  <2>4. told["list"][told["mode"] + 1] = IF device.mode = 0 THEN device.cooling ELSE device.fan
    BY <2>1, <2>2
  <2> QED
    BY <2>3, <2>4 DEF Reports!Wave3Right, Reports!Shows
<1>8. ASSUME Reports!Unsaid = {}, family = "panel"
      PROVE  Reports!PanelRight
  <2>1. device.ready \in 0..1 /\ device.connected \in 0..1
    BY <1>8 DEF ReadingsInv, Reports!Devices
  <2>2. /\ {"ready", "connected"} \subseteq DOMAIN told
        /\ told["ready"] = device.ready /\ told["connected"] = device.connected
    BY <1>1, <1>5, <1>8, FieldsOf DEF ReadingsInv
  <2> QED
    BY <1>8, <2>1, <2>2 DEF ReadingsInv, PanelInv, Reports!PanelRight
<1>9. ASSUME Reports!Unsaid = {}, family = "delta3"
      PROVE  Reports!Delta3Right
  <2>1. device.charges \in 0..1
    BY <1>9 DEF ReadingsInv, Reports!Devices
  <2>2. "state" \in DOMAIN told /\ told["state"] = device.charges
    BY <1>1, <1>5, <1>9, FieldsOf DEF ReadingsInv
  <2> QED
    BY <1>9, <2>1, <2>2 DEF ReadingsInv, Delta3Inv, Reports!Delta3Right
<1>10. ASSUME Reports!Unsaid = {}, family = "ocean2"
       PROVE  Reports!Ocean2Right
  <2>1. device.power \in {-1, 0, 1}
    BY <1>10 DEF ReadingsInv, Reports!Devices
  <2>2. /\ {"flow", "summary"} \subseteq DOMAIN told
        /\ told["flow"] = device.power /\ told["summary"] = 0 - device.power
    BY <1>1, <1>5, <1>10, FieldsOf DEF ReadingsInv
  <2>3. Reports!Shows("power", told["flow"]) \/ Reports!Shows("power", 0 - told["summary"])
    BY <1>10, <2>2 DEF ReadingsInv, Ocean2Inv
  <2> QED
    BY <2>1, <2>2, <2>3 DEF Reports!Ocean2Right, Reports!Shows
<1>11. ASSUME Reports!Unsaid = {}, family = "stream"
       PROVE  Reports!StreamRight
  <2>1. device.leads \in 0..1 /\ device.charge \in 0..1
    BY <1>11 DEF ReadingsInv, Reports!Devices
  <2>2. /\ "unit" \in DOMAIN told
        /\ told["unit"] = <<device.charge, device.leads * device.charge, device.leads * device.load>>
    BY <1>1, <1>5, <1>11, FieldsOf DEF ReadingsInv
  <2>3. device.leads = 0 => device.leads * device.charge = 0
    BY <2>1
  <2>4. StreamInv
    BY <1>11 DEF ReadingsInv
  <2> QED
    BY <2>1, <2>2, <2>3, <2>4 DEF StreamInv, Reports!StreamRight
<1> QED
  BY <1>3, <1>6, <1>7, <1>8, <1>9, <1>10, <1>11 DEF Reports!ReadingsRight, ReadingsInv, Reports!Families

\* Nothing was said or shown yet.
LEMMA ReadingsInitHolds == ASSUME Reports!ReadingsInit PROVE ReadingsInv
  BY DEF Reports!ReadingsInit, ReadingsInv, PlugInv, Wave3Inv, PanelInv, Delta3Inv, Ocean2Inv, StreamInv,
         Reports!HalvesAgree

\* The device changes, or a frame of it arrives.
LEMMA ReadingsStepHolds ==
  ASSUME ReadingsInv, Reports!ReadingsNext, FlagsTogether, TimesWithState
  PROVE  ReadingsInv'
<1>1. CASE Reports!Change
  <2>1. device' \in Reports!Devices[family] /\ UNCHANGED <<family, told, display, lastCurrent>>
    BY <1>1 DEF Reports!Change
  <2> QED
    BY <2>1 DEF ReadingsInv, PlugInv, Wave3Inv, PanelInv, Delta3Inv, Ocean2Inv, StreamInv,
         Reports!HalvesAgree, Reports!Shows, Reports!Silent
<1>2. CASE Reports!FrameArrives
  <2>1. PICK frame, r, w :
           /\ w = Reports!Wire(family, device)
           /\ DOMAIN frame \subseteq DOMAIN w /\ DOMAIN frame # {}
           /\ \A x \in DOMAIN frame : frame[x] = w[x]
           /\ FlagsTogether /\ family = "panel" =>
                 ("ready" \in DOMAIN frame <=> "connected" \in DOMAIN frame)
           /\ TimesWithState /\ family = "delta3" /\ "state" \in DOMAIN frame => DOMAIN frame = DOMAIN w
           /\ told' = Reports!Merged(frame, told)
           /\ r = Reports!ReadingsOf(frame) /\ display' = Reports!Merged(r, display)
           /\ family = "plug" => lastCurrent' = Reports!RememberedCurrent(frame)
           /\ UNCHANGED <<family, device>>
    BY <1>2, FrameFields
  <2>2. family \in Reports!Families /\ device \in Reports!Devices[family]
    BY DEF ReadingsInv
  <2>3. ASSUME family = "plug" PROVE PlugInv'
    <3>1. DOMAIN w = {"switch", "current"} /\ w["switch"] \in 0..1 /\ w["current"] \in 0..2
      BY <2>1, <2>2, <2>3, PlugWire
    <3>2. r = Reports!PlugReadings(frame)
      BY <2>1, <2>3 DEF Reports!ReadingsOf
    <3> QED
      BY <2>1, <2>3, <3>1, <3>2, PlugFrame DEF ReadingsInv
  <2>4. ASSUME family = "wave3" PROVE Wave3Inv'
    <3>1. DOMAIN w = {"mode", "list"}
      BY <2>1, <2>2, <2>4, FieldsOf
    <3>2. r = Reports!Wave3Readings(frame)
      BY <2>1, <2>4 DEF Reports!ReadingsOf
    <3> QED
      BY <2>1, <2>4, <3>1, <3>2, Wave3Frame DEF ReadingsInv
  <2>5. ASSUME family = "panel" PROVE PanelInv'
    <3>1. r = Reports!PanelReadings(frame)
      BY <2>1, <2>5 DEF Reports!ReadingsOf
    <3> QED
      BY <2>1, <2>5, <3>1, PanelFrame DEF ReadingsInv
  <2>6. ASSUME family = "delta3" PROVE Delta3Inv'
    <3>1. r = Reports!Delta3Readings(frame)
      BY <2>1, <2>6 DEF Reports!ReadingsOf
    <3>2. device.charges \in 0..1
      BY <2>2, <2>6 DEF Reports!Devices
    <3>3. DOMAIN w = {"state", "charging", "discharging"} /\ w["state"] = device.charges
      BY <2>1, <2>2, <2>6, FieldsOf
    <3> QED
      BY <2>1, <2>6, <3>1, <3>2, <3>3, Delta3Frame DEF ReadingsInv
  <2>7. ASSUME family = "ocean2" PROVE Ocean2Inv'
    <3>1. r = Reports!Ocean2Readings(frame)
      BY <2>1, <2>7 DEF Reports!ReadingsOf
    <3>2. device.power \in {-1, 0, 1}
      BY <2>2, <2>7 DEF Reports!Devices
    <3>3. DOMAIN w = {"flow", "summary"} /\ w["flow"] = device.power /\ w["summary"] = 0 - device.power
      BY <2>1, <2>2, <2>7, FieldsOf
    <3>4. \A x \in DOMAIN frame : frame[x] \in Int
      BY <2>1, <3>2, <3>3
    <3> QED
      BY <2>1, <2>7, <3>1, <3>3, <3>4, Ocean2Frame DEF ReadingsInv
  <2>8. ASSUME family = "stream" PROVE StreamInv'
    <3>1. r = Reports!StreamReadings(frame)
      BY <2>1, <2>8 DEF Reports!ReadingsOf
    <3>2. DOMAIN w = {"unit"}
      BY <2>1, <2>2, <2>8, FieldsOf
    <3>3. DOMAIN frame = {"unit"}
      BY <2>1, <3>2
    <3> QED
      BY <2>1, <3>1, <3>3, StreamFrame
  <2>9. ASSUME family # "ocean2" PROVE "power" \notin DOMAIN display'
    <3>1. "power" \notin DOMAIN r
      BY <2>1, <2>2, <2>9, NoPower
    <3>2. "power" \notin DOMAIN display
      BY <2>9 DEF ReadingsInv
    <3>3. display' = Reports!Merged(r, display)
      BY <2>1
    <3> QED
      BY <3>1, <3>2, <3>3 DEF Reports!Merged
  <2> QED
    BY <2>1, <2>2, <2>3, <2>4, <2>5, <2>6, <2>7, <2>8, <2>9 DEF ReadingsInv
<1> QED
  BY <1>1, <1>2 DEF Reports!ReadingsNext

-----------------------------------------------------------------------------
(* A PowerOcean's frames.  The parser's lists are those the device said last,  *)
(* and they are what the store will show once the messages under way are       *)
(* applied: whether a message waits or not, the sum is the same.  Numbers are  *)
(* given once, so that what a slot has shown is whatever has its number; the   *)
(* inverters' numbers come from a complete list or not at all.                 *)

\* Serials with the numbers 1, 2, ...
Numbering(f) ==
    /\ IsFiniteSet(DOMAIN f)
    /\ \A s \in DOMAIN f : f[s] \in 1..Cardinality(DOMAIN f)
    /\ \A s, u \in DOMAIN f : f[s] = f[u] => s = u

\* What a pair's list numbers, whenever it comes.
PairNumbers == Frames!InverterNumbers(Frames!Nothing, Inverters)

NamedAs(numbers, n, x) == x \in DOMAIN numbers /\ numbers[x] = n

MessageRight(m, numbers) ==
    /\ \A n \in 1..PackSlots : <<"pack", n>> \in DOMAIN m => NamedAs(numbers, n, m[<<"pack", n>>])
    /\ \A n \in 1..InverterSlots :
          <<"inverter", n>> \in DOMAIN m => NamedAs(PairNumbers, n, m[<<"inverter", n>>])
    /\ Frames!Live \in DOMAIN m => m[Frames!Live] = "working"

\* What a key will show once the messages under way are applied to the store.
WillShow(messages, store, key, value) ==
    \/ /\ \A i \in 1..Len(messages) : key \notin DOMAIN messages[i]
       /\ key \in DOMAIN store /\ store[key] = value
    \/ \E i \in 1..Len(messages) :
          /\ key \in DOMAIN messages[i] /\ messages[i][key] = value
          /\ \A j \in 1..Len(messages) : i < j => key \notin DOMAIN messages[j]

RangeOf(messages) == {messages[i] : i \in DOMAIN messages}

CalledInv ==
    /\ DOMAIN called = Frames!Slots
    /\ \A n \in 1..PackSlots : \A x \in called[<<"pack", n>>] : NamedAs(packNo, n, x)
    /\ \A n \in 1..InverterSlots : \A x \in called[<<"inverter", n>>] : NamedAs(PairNumbers, n, x)

ListsInv ==
    \A l \in Frames!Lists :
        /\ known[l] = said[l]
        /\ \A t \in Tasks : WillShow(posted, held, <<l, t>>, "held") <=> t \in known[l]

BundleInv ==
    /\ Numbering(packNo)
    /\ inverterNo \in {Frames!Nothing, PairNumbers}
    /\ posted \in Seq(RangeOf(posted))
    /\ \A i \in 1..Len(posted) : MessageRight(posted[i], packNo)
    /\ Frames!Live \in DOMAIN held => held[Frames!Live] = "working"
    /\ CalledInv /\ ListsInv

\* A message with an idle rod says no share, and clears the one in the store.
ClearsRod(m, store) ==
    (Frames!Rod \in DOMAIN m /\ m[Frames!Rod] = "idle") =>
        /\ Frames!Share \in DOMAIN store => Frames!Share \in DOMAIN m
        /\ Frames!Share \in DOMAIN m => m[Frames!Share] = "zero"

\* A message that clears a rod is applied to the store it was made from.
RodInv ==
    /\ posted \in Seq(RangeOf(posted)) /\ Len(posted) <= 1
    /\ \A i \in 1..Len(posted) : ClearsRod(posted[i], held)


LEMMA BundleCount == ASSUME NEW T PROVE Frames!Cardinality(T) = Cardinality(T)
  BY DEF Cardinality, Frames!Cardinality

Places(place) ==
    /\ IsFiniteSet(DOMAIN place) /\ \A s \in DOMAIN place : place[s] \in Int
    /\ \A s, u \in DOMAIN place : place[s] = place[u] => s = u

Extends(next, numbers) == \A s \in DOMAIN numbers : s \in DOMAIN next /\ next[s] = numbers[s]

\* New serials get the next numbers, and keep them apart.
LEMMA NumbersFacts ==
  ASSUME NEW numbers, Numbering(numbers), NEW place, Places(place), NEW next, next = Frames!NextNumbers(numbers, place)
  PROVE  /\ Numbering(next) /\ DOMAIN next = DOMAIN numbers \cup DOMAIN place
         /\ Extends(next, numbers)
<1> DEFINE new == DOMAIN place \ DOMAIN numbers
           Before(s) == {r \in new : place[r] <= place[s]}
<1>1. PICK c, d : c = Cardinality(DOMAIN numbers) /\ d = Cardinality(new)
  OBVIOUS
<1>2. IsFiniteSet(new) /\ IsFiniteSet(DOMAIN numbers) /\ new \cap DOMAIN numbers = {}
  <2>1. new \in SUBSET (DOMAIN place)
    OBVIOUS
  <2> QED
    BY <2>1, FS_Subset DEF Numbering, Places
<1>3. c \in Nat /\ d \in Nat
  BY <1>1, <1>2, FS_CardinalityType
<1>4. DOMAIN next = DOMAIN numbers \cup new
  BY DEF Frames!NextNumbers, Frames!Merged
<1>5. \A s \in DOMAIN numbers : next[s] = numbers[s]
  BY DEF Frames!NextNumbers, Frames!Merged
<1>6. \A s \in new : next[s] = c + Cardinality(Before(s))
  BY <1>1, BundleCount DEF Frames!NextNumbers, Frames!Merged
<1>7. Cardinality(DOMAIN next) = c + d
  <2>1. Cardinality(new \cap DOMAIN numbers) = 0
    BY <1>2, FS_EmptySet
  <2>2. Cardinality(DOMAIN numbers \cup new) = c + d - Cardinality(DOMAIN numbers \cap new)
    BY <1>1, <1>2, FS_Union
  <2>3. DOMAIN numbers \cap new = new \cap DOMAIN numbers
    OBVIOUS
  <2> QED
    BY <1>3, <1>4, <2>1, <2>2, <2>3
<1>8. IsFiniteSet(DOMAIN next)
  <2>1. IsFiniteSet(DOMAIN numbers \cup new)
    BY <1>2, FS_Union
  <2> QED
    BY <1>4, <2>1
<1>9. ASSUME NEW s \in new
      PROVE  /\ IsFiniteSet(Before(s)) /\ Cardinality(Before(s)) \in Nat
             /\ 1 <= Cardinality(Before(s)) /\ Cardinality(Before(s)) <= d
  <2>1. Before(s) \in SUBSET new /\ s \in Before(s)
    BY DEF Places
  <2>2. IsFiniteSet(Before(s)) /\ Cardinality(Before(s)) <= d
    BY <1>1, <1>2, <2>1, FS_Subset
  <2>3. Cardinality(Before(s)) \in Nat /\ Cardinality(Before(s)) # 0
    BY <2>1, <2>2, FS_CardinalityType, FS_EmptySet
  <2> QED
    BY <2>2, <2>3
<1>10. ASSUME NEW s \in new, NEW u \in new, Cardinality(Before(s)) = Cardinality(Before(u)) PROVE s = u
  <2>0. place[s] \in Int /\ place[u] \in Int /\ (place[s] = place[u] => s = u)
    BY DEF Places
  <2>1. CASE place[s] <= place[u]
    <3>1. Before(s) \in SUBSET Before(u)
      BY <2>0, <2>1 DEF Places
    <3>2. Before(s) = Before(u)
      BY <1>9, <1>10, <3>1, FS_Subset
    <3>3. u \in Before(u)
      BY <2>0
    <3>4. place[u] <= place[s]
      BY <3>2, <3>3
    <3> QED
      BY <2>0, <2>1, <3>4
  <2>2. CASE place[u] <= place[s]
    <3>1. Before(u) \in SUBSET Before(s)
      BY <2>0, <2>2 DEF Places
    <3>2. Before(s) = Before(u)
      BY <1>9, <1>10, <3>1, FS_Subset
    <3>3. s \in Before(s)
      BY <2>0
    <3>4. place[s] <= place[u]
      BY <3>2, <3>3
    <3> QED
      BY <2>0, <2>2, <3>4
  <2> QED
    BY <2>0, <2>1, <2>2
<1> HIDE DEF new, Before
<1>11. \A s \in DOMAIN numbers : numbers[s] \in 1..c
  BY <1>1 DEF Numbering
<1>12. \A s \in DOMAIN next : next[s] \in 1..(c + d)
  BY <1>3, <1>4, <1>5, <1>6, <1>9, <1>11
<1>13. ASSUME NEW s \in DOMAIN next, NEW u \in DOMAIN next, next[s] = next[u] PROVE s = u
  <2>1. CASE s \in DOMAIN numbers /\ u \in DOMAIN numbers
    BY <1>5, <1>13, <2>1 DEF Numbering
  <2>2. CASE s \in new /\ u \in new
    <3>1. Cardinality(Before(s)) = Cardinality(Before(u))
      BY <1>3, <1>6, <1>9, <1>13, <2>2
    <3> QED
      BY <1>10, <2>2, <3>1
  <2>3. ASSUME NEW x \in DOMAIN numbers, NEW y \in new PROVE next[x] # next[y]
    BY <1>3, <1>5, <1>6, <1>9, <1>11, <2>3
  <2> QED
    BY <1>4, <1>13, <2>1, <2>2, <2>3
<1>14. DOMAIN next = DOMAIN numbers \cup DOMAIN place
  BY <1>4 DEF new
<1> QED
  BY <1>5, <1>7, <1>8, <1>12, <1>13, <1>14 DEF Numbering, Extends

\* No pack goes over to another number.
LEMMA PacksFacts ==
  ASSUME NEW numbers, Numbering(numbers), NEW packs, DOMAIN packs \subseteq Nat,
         \A i \in DOMAIN packs : packs[i] \in Packs,
         NEW next, next = Frames!PackNumbers(numbers, packs)
  PROVE  Numbering(next) /\ Extends(next, numbers)
<1> DEFINE at(s) == {i \in DOMAIN packs : packs[i] = s}
<1>1. PICK place : place = [s \in Frames!Listed(packs) |-> Frames!FirstAt(packs, s)]
  OBVIOUS
<1>2. \A s \in Frames!Listed(packs) : s \in Packs /\ at(s) # {}
  BY DEF Frames!Listed
<1>3. IsFiniteSet(Frames!Listed(packs))
  <2>1. Frames!Listed(packs) \in SUBSET Packs
    BY <1>2
  <2> QED
    BY <2>1, FS_Subset, ValuesAssumption
<1>4. ASSUME NEW s \in Frames!Listed(packs) PROVE place[s] \in DOMAIN packs /\ packs[place[s]] = s
  <2>1. at(s) \in SUBSET Nat /\ at(s) # {}
    BY <1>2
  <2>2. \E x \in at(s) : \A y \in at(s) : x <= y
    BY <2>1, NatHasMin
  <2>3. \E i \in DOMAIN packs : packs[i] = s /\ \A j \in DOMAIN packs : packs[j] = s => i <= j
    BY <2>2
  <2>4. place[s] = CHOOSE i \in DOMAIN packs : packs[i] = s /\ \A j \in DOMAIN packs : packs[j] = s => i <= j
    BY <1>1 DEF Frames!FirstAt
  <2> QED
    BY <2>3, <2>4
<1>5. DOMAIN place = Frames!Listed(packs)
  BY <1>1
<1>6. \A s \in DOMAIN place : place[s] \in Int
  BY <1>4, <1>5
<1>7. \A s, u \in DOMAIN place : place[s] = place[u] => s = u
  BY <1>4, <1>5
<1>8. next = Frames!NextNumbers(numbers, place)
  BY <1>1 DEF Frames!PackNumbers
<1>9. Places(place)
  BY <1>3, <1>5, <1>6, <1>7 DEF Places
<1> QED
  BY <1>8, <1>9, NumbersFacts, Zenon

LEMMA NothingNumbered == Numbering(Frames!Nothing) /\ DOMAIN Frames!Nothing = {}
<1>1. DOMAIN Frames!Nothing = {}
  BY DEF Frames!Nothing
<1> QED
  BY <1>1, FS_EmptySet DEF Numbering

\* The inverters of a system that has as many as there are slots, or fewer, are numbered
\* from the one list that brings them all.
LEMMA PairFacts ==
  ASSUME Cardinality(Inverters) <= InverterSlots
  PROVE  /\ Numbering(PairNumbers)
         /\ \A rows \in SUBSET Inverters, numbers \in {Frames!Nothing, PairNumbers} :
                Frames!InverterNumbers(numbers, rows) \in {Frames!Nothing, PairNumbers}
<1> DEFINE place == [s \in Inverters |-> s]
           First == Frames!NextNumbers(Frames!Nothing, place)
           Again == Frames!NextNumbers(First, place)
<1>1. IsFiniteSet(Inverters) /\ Inverters \subseteq Nat /\ InverterSlots \in Nat
  BY ValuesAssumption
<1>2. Cardinality(Inverters) \in Nat
  BY <1>1, FS_CardinalityType
<1>3. /\ DOMAIN place = Inverters /\ \A s \in DOMAIN place : place[s] \in Int
      /\ \A s, u \in DOMAIN place : place[s] = place[u] => s = u
  BY <1>1
<1>a. Places(place)
  BY <1>1, <1>3 DEF Places
<1>4. Numbering(First) /\ DOMAIN First = Inverters
  <2> HIDE DEF place
  <2>1. DOMAIN First = {} \cup Inverters /\ Numbering(First)
    BY <1>3, <1>a, NumbersFacts, NothingNumbered, Zenon
  <2> QED
    BY <2>1
<1>5. Numbering(Again) /\ DOMAIN Again = Inverters /\ \A s \in Inverters : Again[s] = First[s]
  <2> HIDE DEF place, First
  <2>1. DOMAIN Again = DOMAIN First \cup DOMAIN place /\ Numbering(Again) /\ Extends(Again, First)
    BY <1>4, <1>a, NumbersFacts, Zenon
  <2> QED
    BY <1>3, <1>4, <2>1 DEF Extends
<1>6. First = [s \in Inverters |-> First[s]]
  BY <1>4 DEF Frames!NextNumbers, Frames!Merged
<1>7. Again = [s \in Inverters |-> Again[s]]
  BY <1>5 DEF Frames!NextNumbers, Frames!Merged
<1>8. Again = First
  BY <1>5, <1>6, <1>7
<1>9. \A s \in Inverters : First[s] <= InverterSlots
  BY <1>1, <1>2, <1>4 DEF Numbering
<1> HIDE DEF First, Again
<1>10. Frames!Complete(Inverters) => PairNumbers = First
  <2>1. Frames!Complete(Inverters) => PairNumbers = [s \in {x \in DOMAIN First : First[x] <= InverterSlots} |-> First[s]]
    BY DEF PairNumbers, Frames!InverterNumbers, First
  <2>2. {x \in DOMAIN First : First[x] <= InverterSlots} = Inverters
    BY <1>4, <1>9
  <2> QED
    BY <1>6, <2>1, <2>2
<1>11. ~Frames!Complete(Inverters) => PairNumbers = Frames!Nothing
  BY DEF PairNumbers, Frames!InverterNumbers
<1>12. Numbering(PairNumbers)
  BY <1>4, <1>10, <1>11, NothingNumbered
<1>13. ASSUME NEW rows \in SUBSET Inverters, NEW numbers \in {Frames!Nothing, PairNumbers}
       PROVE  Frames!InverterNumbers(numbers, rows) \in {Frames!Nothing, PairNumbers}
  <2>1. CASE ~Frames!Complete(rows)
    BY <2>1 DEF Frames!InverterNumbers
  <2>2. CASE Frames!Complete(rows)
    <3>1. Cardinality(rows) >= InverterSlots /\ Cardinality(rows) <= Cardinality(Inverters)
      BY <1>1, <2>2, FS_Subset, BundleCount DEF Frames!Complete
    <3>2. IsFiniteSet(rows)
      BY <1>1, FS_Subset
    <3>3. Cardinality(rows) \in Nat
      BY <3>2, FS_CardinalityType
    <3>4. Cardinality(Inverters) = Cardinality(rows)
      BY <1>1, <1>2, <3>1, <3>3
    <3>5. rows = Inverters
      BY <1>1, <3>4, FS_Subset
    <3>6. CASE numbers = Frames!Nothing
      BY <3>5, <3>6 DEF PairNumbers
    <3>7. CASE numbers = PairNumbers
      <4>1. numbers = First
        BY <1>10, <2>2, <3>5, <3>7
      <4>2. Frames!InverterNumbers(numbers, rows) = [s \in {x \in DOMAIN Again : Again[x] <= InverterSlots} |-> Again[s]]
        BY <2>2, <3>5, <4>1 DEF Frames!InverterNumbers, Again
      <4>3. {x \in DOMAIN Again : Again[x] <= InverterSlots} = Inverters
        BY <1>5, <1>9
      <4> QED
        BY <1>6, <1>8, <3>7, <4>1, <4>2, <4>3
    <3> QED
      BY <3>6, <3>7
  <2> QED
    BY <2>1, <2>2
<1> QED
  BY <1>12, <1>13


\* A message in the making says the lists as the parser knows them, and names packs and
\* inverters by their numbers.
ListsRight(p) ==
    \A l \in Frames!Lists, t \in Tasks :
        IF <<l, t>> \in DOMAIN p.merged THEN p.merged[<<l, t>>] = "held" <=> t \in p.known[l]
        ELSE t \in p.known[l] <=> t \in known[l]

ReadRight(p) ==
    /\ Numbering(p.packNo) /\ Extends(p.packNo, packNo)
    /\ p.inverterNo \in {Frames!Nothing, PairNumbers}
    /\ MessageRight(p.merged, p.packNo)
    /\ ListsRight(p)

HeaderFits(p, h) ==
    /\ h.cmd = "packs" => DOMAIN h.body \subseteq Nat /\ \A i \in DOMAIN h.body : h.body[i] \in Packs
    /\ h.cmd = "inverters" => h.body \in SUBSET Inverters
    /\ h.cmd = "live" => h.body = "working" \/ "live" \in p.copied
    /\ h.cmd \in Frames!Lists \cup {"packs", "inverters", "rod", "share", "live"}

LEMMA MergedRight ==
  ASSUME NEW numbers, NEW new, NEW old, MessageRight(new, numbers), MessageRight(old, numbers),
         NEW m, m = Frames!Merged(new, old)
  PROVE  MessageRight(m, numbers)
<1>1. /\ DOMAIN m = DOMAIN new \cup DOMAIN old
      /\ \A key \in DOMAIN m : m[key] = IF key \in DOMAIN new THEN new[key] ELSE old[key]
  BY DEF Frames!Merged
<1> QED
  BY <1>1 DEF MessageRight

LEMMA StillRight ==
  ASSUME NEW m, NEW numbers, NEW next, MessageRight(m, numbers), Extends(next, numbers)
  PROVE  MessageRight(m, next)
  BY DEF MessageRight, Extends, NamedAs

LEMMA ShownFacts ==
  ASSUME NEW kind, NEW numbers, NEW serials, NEW slots, NEW m, m = Frames!Shown(kind, numbers, serials, slots)
  PROVE  \A key \in DOMAIN m : \E n : key = <<kind, n>> /\ m[key] \in serials /\ NamedAs(numbers, n, m[key])
<1> DEFINE numbered == {s \in serials : s \in DOMAIN numbers /\ numbers[s] <= slots}
<1>1. /\ DOMAIN m = {<<kind, numbers[s]>> : s \in numbered}
      /\ \A key \in DOMAIN m : m[key] = CHOOSE s \in numbered : numbers[s] = key[2]
  BY DEF Frames!Shown
<1>2. ASSUME NEW key \in DOMAIN m
      PROVE  \E n : key = <<kind, n>> /\ m[key] \in serials /\ NamedAs(numbers, n, m[key])
  <2>1. PICK s \in numbered : key = <<kind, numbers[s]>>
    BY <1>1, <1>2
  <2>2. m[key] = CHOOSE x \in numbered : numbers[x] = numbers[s]
    BY <1>1, <1>2, <2>1
  <2>3. m[key] \in numbered /\ numbers[m[key]] = numbers[s]
    BY <2>1, <2>2
  <2> QED
    BY <2>1, <2>3 DEF NamedAs
<1> QED
  BY <1>2

\* What a header of each command says, of the packs and inverters by their new numbers.
News(p, h, m) ==
    /\ h.cmd \in Frames!Lists =>
          /\ DOMAIN m = {h.cmd} \X (Frames!ListOf(h) \cup p.known[h.cmd])
          /\ \A key \in DOMAIN m : m[key] = IF key[2] \in Frames!ListOf(h) THEN "held" ELSE "gone"
    /\ h.cmd = "packs" => \A key \in DOMAIN m : \E n : key = <<"pack", n>>
                             /\ NamedAs(Frames!PackNumbers(p.packNo, h.body), n, m[key])
    /\ h.cmd = "inverters" => \A key \in DOMAIN m : \E n : key = <<"inverter", n>>
                                 /\ NamedAs(Frames!InverterNumbers(p.inverterNo, h.body), n, m[key])
    /\ h.cmd \in {"rod", "share"} => DOMAIN m \subseteq {Frames!Rod, Frames!Share}
    /\ h.cmd = "live" => DOMAIN m = {Frames!Live} /\ m[Frames!Live] = h.body

LEMMA NewsFacts ==
  ASSUME NEW p, NEW h, NEW m, m = Frames!Read(p, h),
         h.cmd \in Frames!Lists \cup {"packs", "inverters", "rod", "share", "live"}
  PROVE  News(p, h, m)
<1>1. CASE h.cmd \in Frames!Lists
  <2>1. m = Frames!ReadTasks(h.cmd, Frames!ListOf(h), p.known[h.cmd])
    BY <1>1 DEF Frames!Read, Frames!Lists
  <2> QED
    BY <1>1, <2>1 DEF News, Frames!ReadTasks, Frames!Lists
<1>2. CASE h.cmd = "packs"
  <2>1. PICK numbers : numbers = Frames!PackNumbers(p.packNo, h.body)
    OBVIOUS
  <2>2. m = Frames!Shown("pack", numbers, Frames!Listed(h.body), PackSlots)
    BY <1>2, <2>1 DEF Frames!Read, Frames!ReadPacks, Frames!Lists
  <2>3. \A key \in DOMAIN m : \E n : key = <<"pack", n>> /\ NamedAs(numbers, n, m[key])
    BY <2>2, ShownFacts
  <2> QED
    BY <1>2, <2>1, <2>3 DEF News, Frames!Lists
<1>3. CASE h.cmd = "inverters"
  <2>1. PICK numbers : numbers = Frames!InverterNumbers(p.inverterNo, h.body)
    OBVIOUS
  <2>2. m = Frames!Shown("inverter", numbers, h.body, InverterSlots)
    BY <1>3, <2>1 DEF Frames!Read, Frames!ReadInverters, Frames!Lists
  <2>3. \A key \in DOMAIN m : \E n : key = <<"inverter", n>> /\ NamedAs(numbers, n, m[key])
    BY <2>2, ShownFacts
  <2> QED
    BY <1>3, <2>1, <2>3 DEF News, Frames!Lists
<1>4. CASE h.cmd = "rod"
  <2>1. m = Frames!ReadRod(p.merged, h.body)
    BY <1>4 DEF Frames!Read, Frames!Lists
  <2> QED
    BY <1>4, <2>1 DEF News, Frames!ReadRod, Frames!One, Frames!Merged, Frames!Cleared, Frames!Lists
<1>5. CASE h.cmd = "share"
  <2>1. m = Frames!ReadShare(h.body)
    BY <1>5 DEF Frames!Read, Frames!Lists
  <2> QED
    BY <1>5, <2>1 DEF News, Frames!ReadShare, Frames!One, Frames!Nothing, Frames!Lists
<1>6. CASE h.cmd = "live"
  <2>1. m = Frames!One(Frames!Live, h.body)
    BY <1>6 DEF Frames!Read, Frames!Lists
  <2> QED
    BY <1>6, <2>1 DEF News, Frames!One, Frames!Lists
<1> QED
  BY <1>1, <1>2, <1>3, <1>4, <1>5, <1>6

\* Reading one more header keeps a message right.
LEMMA HeaderHolds ==
  ASSUME Cardinality(Inverters) <= InverterSlots,
         NEW p, ReadRight(p), NEW h, HeaderFits(p, h), NEW q, q = Frames!ReadHeader(p, h)
  PROVE  ReadRight(q)
<1>1. CASE q = p
  BY <1>1
<1>2. CASE q # p
  <2>1. PICK m : m = Frames!Read(p, h)
    OBVIOUS
  <2>2. ~(~Frames!Decodes(h) \/ (Frames!FirstCopyWins(h.cmd) /\ h.cmd \in p.copied))
    BY <1>2 DEF Frames!ReadHeader
  <2>3. /\ q.merged = Frames!Merged(m, p.merged)
        /\ \A l \in Frames!Lists : q.known[l] = IF l = h.cmd THEN Frames!ListOf(h) ELSE p.known[l]
        /\ q.packNo = IF h.cmd = "packs" THEN Frames!PackNumbers(p.packNo, h.body) ELSE p.packNo
        /\ q.inverterNo = IF h.cmd = "inverters" THEN Frames!InverterNumbers(p.inverterNo, h.body)
                          ELSE p.inverterNo
    BY <2>1, <2>2 DEF Frames!ReadHeader
  <2>4. Numbering(q.packNo) /\ Extends(q.packNo, p.packNo)
    <3>1. CASE h.cmd = "packs"
      <4>1. DOMAIN h.body \subseteq Nat /\ \A i \in DOMAIN h.body : h.body[i] \in Packs
        BY <3>1 DEF HeaderFits
      <4>2. q.packNo = Frames!PackNumbers(p.packNo, h.body)
        BY <2>3, <3>1
      <4>3. Numbering(p.packNo)
        BY DEF ReadRight
      <4> QED
        BY <4>1, <4>2, <4>3, PacksFacts
    <3>2. CASE h.cmd # "packs"
      BY <2>3, <3>2 DEF ReadRight, Extends
    <3> QED
      BY <3>1, <3>2
  <2>5. Extends(q.packNo, packNo)
    BY <2>4 DEF ReadRight, Extends
  <2>6. q.inverterNo \in {Frames!Nothing, PairNumbers}
    <3>1. CASE h.cmd = "inverters"
      <4>1. h.body \in SUBSET Inverters /\ p.inverterNo \in {Frames!Nothing, PairNumbers}
        BY <3>1 DEF HeaderFits, ReadRight
      <4>2. q.inverterNo = Frames!InverterNumbers(p.inverterNo, h.body)
        BY <2>3, <3>1
      <4> QED
        BY <4>1, <4>2, PairFacts
    <3>2. CASE h.cmd # "inverters"
      BY <2>3, <3>2 DEF ReadRight
    <3> QED
      BY <3>1, <3>2
  <2>a. h.cmd \in Frames!Lists \cup {"packs", "inverters", "rod", "share", "live"}
    BY DEF HeaderFits
  <2>b. /\ h.cmd \in Frames!Lists =>
              /\ DOMAIN m = {h.cmd} \X (Frames!ListOf(h) \cup p.known[h.cmd])
              /\ \A key \in DOMAIN m : m[key] = IF key[2] \in Frames!ListOf(h) THEN "held" ELSE "gone"
        /\ h.cmd = "packs" => \A key \in DOMAIN m : \E n : key = <<"pack", n>> /\ NamedAs(q.packNo, n, m[key])
        /\ h.cmd = "inverters" =>
              \A key \in DOMAIN m : \E n : key = <<"inverter", n>> /\ NamedAs(q.inverterNo, n, m[key])
        /\ h.cmd \in {"rod", "share"} => DOMAIN m \subseteq {Frames!Rod, Frames!Share}
        /\ h.cmd = "live" => DOMAIN m = {Frames!Live} /\ m[Frames!Live] = h.body
    <3>1. /\ h.cmd \in Frames!Lists =>
               /\ DOMAIN m = {h.cmd} \X (Frames!ListOf(h) \cup p.known[h.cmd])
               /\ \A key \in DOMAIN m : m[key] = IF key[2] \in Frames!ListOf(h) THEN "held" ELSE "gone"
          /\ h.cmd = "packs" => \A key \in DOMAIN m : \E n : key = <<"pack", n>>
                                  /\ NamedAs(Frames!PackNumbers(p.packNo, h.body), n, m[key])
          /\ h.cmd = "inverters" => \A key \in DOMAIN m : \E n : key = <<"inverter", n>>
                                      /\ NamedAs(Frames!InverterNumbers(p.inverterNo, h.body), n, m[key])
          /\ h.cmd \in {"rod", "share"} => DOMAIN m \subseteq {Frames!Rod, Frames!Share}
          /\ h.cmd = "live" => DOMAIN m = {Frames!Live} /\ m[Frames!Live] = h.body
      <4>1. News(p, h, m)
        BY <2>1, <2>a, NewsFacts, Zenon
      <4> QED
        BY <4>1, Zenon DEF News
    <3>2. ASSUME h.cmd = "packs"
          PROVE  \A key \in DOMAIN m : \E n : key = <<"pack", n>> /\ NamedAs(q.packNo, n, m[key])
      <4>1. Frames!PackNumbers(p.packNo, h.body) = q.packNo
        BY <2>3, <3>2
      <4> QED
        BY <3>1, <3>2, <4>1, Zenon
    <3>3. ASSUME h.cmd = "inverters"
          PROVE  \A key \in DOMAIN m : \E n : key = <<"inverter", n>> /\ NamedAs(q.inverterNo, n, m[key])
      <4>1. Frames!InverterNumbers(p.inverterNo, h.body) = q.inverterNo
        BY <2>3, <3>3
      <4> QED
        BY <3>1, <3>3, <4>1, Zenon
    <3> QED
      BY <3>1, <3>2, <3>3, Zenon
  <2>7. MessageRight(m, q.packNo)
    <3>1. CASE h.cmd \in Frames!Lists
      BY <2>b, <3>1 DEF MessageRight, Frames!Lists, Frames!Live
    <3>2. CASE h.cmd = "packs"
      BY <2>b, <3>2 DEF MessageRight, Frames!Live
    <3>3. CASE h.cmd = "inverters"
      <4>1. q.inverterNo = Frames!Nothing => DOMAIN m = {}
        BY <2>b, <3>3, NothingNumbered DEF NamedAs
      <4> QED
        BY <2>6, <2>b, <3>3, <4>1 DEF MessageRight, Frames!Live
    <3>4. CASE h.cmd \in {"rod", "share"}
      BY <2>b, <3>4 DEF MessageRight, Frames!Live, Frames!Rod, Frames!Share
    <3>5. CASE h.cmd = "live"
      <4>1. h.body = "working"
        BY <2>2, <3>5 DEF HeaderFits, Frames!FirstCopyWins
      <4> QED
        BY <2>b, <3>5, <4>1 DEF MessageRight, Frames!Live
    <3> QED
      BY <2>a, <3>1, <3>2, <3>3, <3>4, <3>5
  <2>8. MessageRight(q.merged, q.packNo)
    <3>1. MessageRight(p.merged, q.packNo)
      BY <2>4, StillRight DEF ReadRight
    <3> QED
      BY <2>3, <2>7, <3>1, MergedRight
  <2>9. ListsRight(q)
    <3>1. /\ DOMAIN q.merged = DOMAIN m \cup DOMAIN p.merged
          /\ \A key \in DOMAIN q.merged : q.merged[key] = IF key \in DOMAIN m THEN m[key] ELSE p.merged[key]
      BY <2>3 DEF Frames!Merged
    <3>2. CASE h.cmd \in Frames!Lists
      <4>1. PICK list : list = Frames!ListOf(h)
        OBVIOUS
      <4>3. /\ DOMAIN m = {h.cmd} \X (list \cup p.known[h.cmd])
            /\ \A key \in DOMAIN m : m[key] = IF key[2] \in list THEN "held" ELSE "gone"
        BY <2>b, <3>2, <4>1
      <4>4. ASSUME NEW l \in Frames!Lists, NEW t \in Tasks
            PROVE  IF <<l, t>> \in DOMAIN q.merged THEN q.merged[<<l, t>>] = "held" <=> t \in q.known[l]
                   ELSE t \in q.known[l] <=> t \in known[l]
        <5>1. IF <<l, t>> \in DOMAIN p.merged THEN p.merged[<<l, t>>] = "held" <=> t \in p.known[l]
              ELSE t \in p.known[l] <=> t \in known[l]
          BY DEF ReadRight, ListsRight
        <5>2. CASE l = h.cmd
          <6>1. q.known[l] = list
            BY <2>3, <4>1, <5>2
          <6>2. CASE t \in list \cup p.known[l]
            <7>1. <<l, t>> \in DOMAIN m
              BY <4>3, <5>2, <6>2
            <7>2. q.merged[<<l, t>>] = IF t \in list THEN "held" ELSE "gone"
              BY <3>1, <4>3, <7>1
            <7> QED
              BY <3>1, <6>1, <7>1, <7>2
          <6>3. CASE t \notin list \cup p.known[l]
            <7>1. <<l, t>> \notin DOMAIN m
              BY <4>3, <5>2, <6>3
            <7> QED
              BY <3>1, <5>1, <6>1, <6>3, <7>1
          <6> QED
            BY <6>2, <6>3
        <5>3. CASE l # h.cmd
          <6>1. q.known[l] = p.known[l]
            BY <2>3, <5>3
          <6>2. <<l, t>> \notin DOMAIN m
            BY <4>3, <5>3
          <6> QED
            BY <3>1, <5>1, <6>1, <6>2
        <5> QED
          BY <5>2, <5>3
      <4> QED
        BY <4>4 DEF ListsRight
    <3>3. CASE h.cmd \notin Frames!Lists
      <4>1. \A l \in Frames!Lists : q.known[l] = p.known[l]
        BY <2>3, <3>3
      <4>2. h.cmd \in {"packs", "inverters", "rod", "share", "live"}
        BY <2>a, <3>3
      <4>3. \A l \in Frames!Lists, t \in Tasks : <<l, t>> \notin DOMAIN m
        BY <2>b, <4>2 DEF Frames!Lists, Frames!Rod, Frames!Share, Frames!Live
      <4> QED
        BY <3>1, <4>1, <4>3 DEF ReadRight, ListsRight
    <3> QED
      BY <3>2, <3>3
  <2> QED
    BY <2>4, <2>5, <2>6, <2>8, <2>9 DEF ReadRight
<1> QED
  BY <1>1, <1>2

\* A message before its first header.
Empty == [merged |-> Frames!Nothing, copied |-> {}, known |-> known, packNo |-> packNo, inverterNo |-> inverterNo]

\* What the headers of a frame add up to, one after the other.
Steps(u, headers, k) ==
    /\ u = [n \in 0..k |-> u[n]] /\ u[0] = Empty
    /\ \A n \in 1..k : u[n] = Frames!ReadHeader(u[n - 1], headers[n])

LEMMA StepsExist ==
  ASSUME NEW headers, NEW N \in Nat
  PROVE  \E u : Steps(u, headers, N)
<1> DEFINE Failing == {k \in 0..N : \A u : ~Steps(u, headers, k)}
<1>1. CASE Failing = {}
  <2>1. N \notin Failing
    BY <1>1
  <2> QED
    BY <2>1
<1>2. CASE Failing # {}
  <2>1. PICK k \in Failing : \A y \in Failing : k <= y
    <3>1. Failing \in SUBSET Nat
      OBVIOUS
    <3> QED
      BY <1>2, <3>1, NatHasMin
  <2>2. k \in 0..N /\ \A u : ~Steps(u, headers, k)
    BY <2>1
  <2>3. CASE k = 0
    <3>1. Steps([n \in 0..0 |-> Empty], headers, 0)
      BY DEF Steps
    <3> QED
      BY <2>2, <2>3, <3>1
  <2>4. CASE k # 0
    <3>1. k - 1 \in 0..N /\ ~(k <= k - 1) /\ k \in Nat \ {0}
      BY <2>2, <2>4
    <3>2. k - 1 \notin Failing
      BY <2>1, <3>1
    <3>3. PICK u : Steps(u, headers, k - 1)
      BY <3>1, <3>2
    <3>4. PICK r : r = Frames!ReadHeader(u[k - 1], headers[k])
      OBVIOUS
    <3>5. PICK v : v = [n \in 0..k |-> IF n = k THEN r ELSE u[n]]
      OBVIOUS
    <3>6. v = [n \in 0..k |-> v[n]] /\ v[k] = r /\ \A n \in 0..(k - 1) : v[n] = u[n]
      BY <3>1, <3>5
    <3>7. v[0] = Empty
      BY <3>1, <3>3, <3>6 DEF Steps
    <3>8. ASSUME NEW n \in 1..k PROVE v[n] = Frames!ReadHeader(v[n - 1], headers[n])
      <4>1. CASE n = k
        <5>0. k - 1 \in 0..(k - 1)
          BY <3>1
        <5>1. v[n - 1] = u[k - 1] /\ v[n] = r /\ headers[n] = headers[k]
          BY <5>0, <3>6, <4>1, Zenon
        <5> QED
          BY <3>4, <5>1, Zenon
      <4>2. CASE n # k
        <5>0. n \in 1..(k - 1) /\ n \in 0..(k - 1) /\ n - 1 \in 0..(k - 1)
          BY <3>1, <4>2
        <5>1. v[n] = u[n] /\ v[n - 1] = u[n - 1]
          BY <5>0, <3>6, Zenon
        <5>2. \A i \in 1..(k - 1) : u[i] = Frames!ReadHeader(u[i - 1], headers[i])
          BY <3>3, Zenon DEF Steps
        <5> QED
          BY <5>0, <5>1, <5>2, Zenon
      <4> QED
        BY <4>1, <4>2
    <3>9. Steps(v, headers, k)
      BY <3>6, <3>7, <3>8, Zenon DEF Steps
    <3> QED
      BY <2>2, <3>9
  <2> QED
    BY <2>3, <2>4
<1> QED
  BY <1>1, <1>2

LEMMA FrameSteps ==
  ASSUME NEW headers, Len(headers) \in Nat
  PROVE  \E u : Steps(u, headers, Len(headers)) /\ Frames!ReadFrame(headers) = u[Len(headers)]
<1>0. PICK N, q : N = Len(headers) /\ N \in Nat /\ q = Frames!ReadFrame(headers)
  OBVIOUS
<1> DEFINE Solves(g) == g = [n \in 0..Len(headers) |->
                                IF n = 0 THEN [merged |-> Frames!Nothing, copied |-> {}, known |-> known,
                                               packNo |-> packNo, inverterNo |-> inverterNo]
                                ELSE Frames!ReadHeader(g[n - 1], headers[n])]
           u == CHOOSE g : Solves(g)
<1>1. q = u[Len(headers)]
  BY <1>0 DEF Frames!ReadFrame
<1>2. PICK w : Steps(w, headers, N)
  BY <1>0, StepsExist
<1>3. Solves(w)
  <2>1. /\ w = [n \in 0..N |-> w[n]] /\ w[0] = Empty
        /\ \A n \in 1..N : w[n] = Frames!ReadHeader(w[n - 1], headers[n])
    BY <1>2, Zenon DEF Steps
  <2>2. \A n \in 0..N : w[n] = IF n = 0 THEN Empty ELSE Frames!ReadHeader(w[n - 1], headers[n])
    <3>1. \A n \in 0..N : n # 0 => n \in 1..N
      OBVIOUS
    <3> QED
      BY <2>1, <3>1, Zenon
  <2>3. w = [n \in 0..N |-> IF n = 0 THEN Empty ELSE Frames!ReadHeader(w[n - 1], headers[n])]
    BY <2>1, <2>2, Zenon
  <2> QED
    BY <1>0, <2>3, Zenon DEF Empty
<1>4. Solves(u)
  BY <1>3, Zenon
<1>5. Steps(u, headers, N)
  <2>1. u = [n \in 0..N |-> IF n = 0 THEN Empty ELSE Frames!ReadHeader(u[n - 1], headers[n])]
    BY <1>0, <1>4, Zenon DEF Empty
  <2>2. \A n \in 0..N : u[n] = IF n = 0 THEN Empty ELSE Frames!ReadHeader(u[n - 1], headers[n])
    <3> HIDE DEF u
    <3> QED
      BY <2>1, Zenon
  <2>3. u[0] = Empty
    BY <1>0, <2>2
  <2>4. \A n \in 1..N : u[n] = Frames!ReadHeader(u[n - 1], headers[n])
    <3>1. \A n \in 1..N : n # 0 /\ n \in 0..N
      OBVIOUS
    <3> HIDE DEF u
    <3> QED
      BY <2>2, <3>1, Zenon
  <2>5. u = [n \in 0..N |-> u[n]]
    <3> HIDE DEF u
    <3> QED
      BY <2>1, <2>2, Zenon
  <2> HIDE DEF u
  <2> QED
    BY <2>3, <2>4, <2>5, Zenon DEF Steps
<1> QED
  BY <1>0, <1>1, <1>5, Zenon

\* Which headers are read.
LEMMA DecodeFacts ==
  ASSUME NEW h
  PROVE  /\ h.form \in {"plain", "masked", "flagged"} => Frames!Decodes(h)
         /\ h.form = "empty" /\ h.cmd \in Frames!Lists => Frames!Decodes(h)
         /\ h.form = "sealed" => ~Frames!Decodes(h)
<1>1. CASE h.form = "plain"
  <2>1. Frames!Candidates(h.form) = <<"content">>
    BY <1>1 DEF Frames!Candidates
  <2> QED
    BY <1>1, <2>1 DEF Frames!Decodes, Frames!Contains
<1>2. CASE h.form = "masked"
  <2>1. Frames!Candidates(h.form) = <<"content", "noise">>
    BY <1>2 DEF Frames!Candidates
  <2> QED
    BY <1>2, <2>1 DEF Frames!Decodes, Frames!Contains
<1>3. CASE h.form = "flagged"
  <2>1. Frames!Candidates(h.form) = <<"noise", "content">>
    BY <1>3 DEF Frames!Candidates
  <2> QED
    BY <1>3, <2>1 DEF Frames!Decodes, Frames!Contains
<1>4. CASE h.form = "empty"
  BY <1>4 DEF Frames!Decodes, Frames!CarriesNothing, Frames!MeansEmpty
<1>5. CASE h.form = "sealed"
  <2>1. Frames!Candidates(h.form) = <<>>
    BY <1>5 DEF Frames!Candidates
  <2>2. ~Frames!CarriesNothing(h.form)
    BY <1>5 DEF Frames!CarriesNothing
  <2>3. ~Frames!Contains(Frames!Candidates(h.form), "content")
    BY <2>1 DEF Frames!Contains
  <2> QED
    BY <1>5, <2>2, <2>3 DEF Frames!Decodes
<1> QED
  BY <1>1, <1>2, <1>3, <1>4, <1>5

LEMMA HeaderRead ==
  ASSUME NEW p, NEW h, NEW q, q = Frames!ReadHeader(p, h)
  PROVE  /\ ~Frames!Decodes(h) => q = p
         /\ h.cmd \in Frames!Lists \cup {"live"} /\ h.cmd \in p.copied => q = p
         /\ Frames!Decodes(h) /\ h.cmd \notin p.copied =>
              /\ q.copied = p.copied \cup {h.cmd}
              /\ \A l \in Frames!Lists : q.known[l] = IF l = h.cmd THEN Frames!ListOf(h) ELSE p.known[l]
         /\ Frames!Decodes(h) /\ h.cmd \notin Frames!Lists =>
              /\ q.copied \in {p.copied, p.copied \cup {h.cmd}}
              /\ \A l \in Frames!Lists : q.known[l] = p.known[l]
<1>1. Frames!FirstCopyWins(h.cmd) <=> h.cmd \in Frames!Lists \cup {"live", "inverters"}
  BY DEF Frames!FirstCopyWins
<1>2. CASE ~Frames!Decodes(h) \/ (Frames!FirstCopyWins(h.cmd) /\ h.cmd \in p.copied)
  <2>1. q = p
    BY <1>2 DEF Frames!ReadHeader
  <2> QED
    BY <1>2, <2>1
<1>3. CASE ~(~Frames!Decodes(h) \/ (Frames!FirstCopyWins(h.cmd) /\ h.cmd \in p.copied))
  <2>1. /\ q.copied = p.copied \cup {h.cmd}
        /\ \A l \in Frames!Lists : q.known[l] = IF l = h.cmd THEN Frames!ListOf(h) ELSE p.known[l]
    BY <1>3 DEF Frames!ReadHeader
  <2> QED
    BY <1>1, <1>3, <2>1
<1> QED
  BY <1>2, <1>3

\* What reading a first copy leaves.
Taken(p, h, q) ==
    /\ q.copied = p.copied \cup {h.cmd}
    /\ \A l \in Frames!Lists : q.known[l] = IF l = h.cmd THEN Frames!ListOf(h) ELSE p.known[l]

LEMMA HeaderTaken ==
  ASSUME NEW p, NEW h, Frames!Decodes(h), h.cmd \notin p.copied, NEW q, q = Frames!ReadHeader(p, h)
  PROVE  Taken(p, h, q)
BY DEF Taken, Frames!FirstCopyWins, Frames!ReadHeader

LEMMA EmptyRight ==
  ASSUME BundleInv
  PROVE  ReadRight(Empty)
BY DEF BundleInv, ReadRight, Empty, Extends, MessageRight, ListsRight, Frames!Nothing

\* What the schedules are after a frame, as the parser knows them.
FrameRight(q, headers) ==
    /\ ReadRight(q)
    /\ \A l \in Frames!Lists : q.known[l] = Frames!FirstList(l, headers)

LEMMA OneHeader ==
  ASSUME BundleInv, Cardinality(Inverters) <= InverterSlots, NEW h, HeaderFits(Empty, h),
         NEW q, q = Frames!ReadFrame(<<h>>)
  PROVE  ReadRight(q) /\ q = Frames!ReadHeader(Empty, h)
<1>1. PICK headers : headers = <<h>>
  OBVIOUS
<1>2. Len(headers) = 1 /\ 1 \in Nat /\ headers[1] = h
  BY <1>1
<1>3. PICK u : Steps(u, headers, 1) /\ q = u[1]
  <2>1. q = Frames!ReadFrame(headers) /\ 1 = Len(headers)
    BY <1>1, <1>2
  <2>2. \E u : Steps(u, headers, Len(headers)) /\ Frames!ReadFrame(headers) = u[Len(headers)]
    BY <1>2, FrameSteps, Zenon
  <2> QED
    BY <2>1, <2>2, Zenon
<1>4. u[0] = Empty /\ u[1] = Frames!ReadHeader(u[1 - 1], headers[1])
  <2>1. 1 \in 1..1
    OBVIOUS
  <2> QED
    BY <1>3, <2>1, Zenon DEF Steps
<1>5. q = Frames!ReadHeader(Empty, h)
  <2>1. 1 - 1 = 0
    OBVIOUS
  <2> QED
    BY <1>2, <1>3, <1>4, <2>1, Zenon
<1>6. ReadRight(q)
  BY <1>5, EmptyRight, HeaderHolds
<1> QED
  BY <1>5, <1>6

LEMMA OtherHeader ==
  ASSUME BundleInv, Cardinality(Inverters) <= InverterSlots, NEW h, HeaderFits(Empty, h),
         h.form = "plain", h.cmd \notin Frames!Lists, NEW q, q = Frames!ReadFrame(<<h>>)
  PROVE  FrameRight(q, <<h>>)
<1>1. ReadRight(q) /\ q = Frames!ReadHeader(Empty, h)
  BY OneHeader
<1>2. Frames!Decodes(h)
  BY DecodeFacts
<1>3. \A l \in Frames!Lists : q.known[l] = Empty.known[l]
  BY <1>1, <1>2, HeaderRead
<1>4. ASSUME NEW l \in Frames!Lists PROVE q.known[l] = Frames!FirstList(l, <<h>>)
  <2>1. {i \in DOMAIN <<h>> : <<h>>[i].cmd = l} = {}
    <3>1. DOMAIN <<h>> = {1} /\ <<h>>[1] = h
      OBVIOUS
    <3> QED
      BY <3>1
  <2>2. Frames!FirstList(l, <<h>>) = said[l]
    BY <2>1 DEF Frames!FirstList
  <2>3. Empty.known[l] = known[l] /\ known[l] = said[l]
    BY DEF Empty, BundleInv, ListsInv
  <2> QED
    BY <1>3, <2>2, <2>3
<1> QED
  BY <1>1, <1>4 DEF FrameRight

LEMMA FormFacts ==
  ASSUME NEW h, h.form \in Frames!FormsOf(h.body)
  PROVE  h.form \in {"plain", "masked", "flagged", "sealed"} \/ (h.form = "empty" /\ h.body = {})
BY DEF Frames!FormsOf, Frames!Forms

LEMMA ListHeader ==
  ASSUME BundleInv, Cardinality(Inverters) <= InverterSlots, NEW h, h.cmd \in Frames!Lists,
         h.form \in Frames!FormsOf(h.body), NEW q, q = Frames!ReadFrame(<<h>>)
  PROVE  FrameRight(q, <<h>>)
<1>1. HeaderFits(Empty, h)
  BY DEF HeaderFits, Frames!Lists
<1>2. ReadRight(q) /\ q = Frames!ReadHeader(Empty, h)
  BY <1>1, OneHeader
<1>3. DOMAIN <<h>> = {1} /\ <<h>>[1] = h
  OBVIOUS
<1>4. ASSUME NEW l \in Frames!Lists PROVE q.known[l] = Frames!FirstList(l, <<h>>)
  <2>1. PICK copies : copies = {i \in DOMAIN <<h>> : <<h>>[i].cmd = l}
    OBVIOUS
  <2>2. copies = IF h.cmd = l THEN {1} ELSE {}
    BY <1>3, <2>1
  <2>3. Frames!FirstList(l, <<h>>) = IF \A i \in copies : <<h>>[i].form = "sealed" THEN said[l]
                                     ELSE <<h>>[CHOOSE i \in copies : \A j \in copies : i <= j].body
    BY <2>1 DEF Frames!FirstList
  <2>4. Empty.known[l] = known[l] /\ known[l] = said[l] /\ Empty.copied = {}
    BY DEF Empty, BundleInv, ListsInv
  <2>5. CASE h.form = "sealed"
    <3>1. q = Empty
      BY <1>2, <2>5, DecodeFacts, HeaderRead
    <3> QED
      BY <1>3, <2>2, <2>3, <2>4, <2>5, <3>1
  <2>6. CASE h.form # "sealed"
    <3>1. h.form \in {"plain", "masked", "flagged"} \/ (h.form = "empty" /\ h.body = {})
      BY <2>6, FormFacts
    <3>2. Frames!Decodes(h)
      BY <3>1, DecodeFacts
    <3>3. q.known[l] = IF l = h.cmd THEN Frames!ListOf(h) ELSE Empty.known[l]
      BY <1>2, <2>4, <3>2, HeaderRead
    <3>4. Frames!ListOf(h) = h.body
      BY <3>1 DEF Frames!ListOf, Frames!CarriesNothing
    <3>5. CASE l = h.cmd
      <4>1. copies = {1}
        BY <2>2, <3>5
      <4>2. (CHOOSE i \in copies : \A j \in copies : i <= j) = 1
        BY <4>1
      <4>3. Frames!FirstList(l, <<h>>) = <<h>>[1].body
        BY <1>3, <2>3, <2>6, <4>1, <4>2
      <4> QED
        BY <1>3, <3>3, <3>4, <3>5, <4>3
    <3>6. CASE l # h.cmd
      BY <2>2, <2>3, <2>4, <3>3, <3>6
    <3> QED
      BY <3>5, <3>6
  <2> QED
    BY <2>5, <2>6
<1> QED
  BY <1>2, <1>4 DEF FrameRight

\* The reply to a get-all: of two copies of a list, or of a pair's work, the first counts.
LEMMA ReplyRight ==
  ASSUME BundleInv, Cardinality(Inverters) <= InverterSlots,
         NEW l \in Frames!Lists, NEW h1, NEW h2, NEW h3, NEW h4, NEW h5,
         h1.cmd = "live", h1.form = "plain", h1.body = "working",
         h2.cmd = l, h2.form \in Frames!FormsOf(h2.body), h2.form # "sealed",
         h3.cmd = "packs", h3.form = "plain",
         DOMAIN h3.body \subseteq Nat, \A i \in DOMAIN h3.body : h3.body[i] \in Packs,
         h4.cmd = "live", h4.form = "plain",
         h5.cmd = l, h5.form = Frames!Plain(h5.body),
         NEW headers, headers = <<h1, h2, h3, h4, h5>>, NEW q, q = Frames!ReadFrame(headers)
  PROVE  FrameRight(q, headers)
<1>1. /\ Len(headers) = 5 /\ 5 \in Nat /\ DOMAIN headers = 1..5
      /\ headers[1] = h1 /\ headers[2] = h2 /\ headers[3] = h3 /\ headers[4] = h4 /\ headers[5] = h5
  OBVIOUS
<1>2. PICK u : Steps(u, headers, 5) /\ q = u[5]
  <2>1. \E u : Steps(u, headers, Len(headers)) /\ Frames!ReadFrame(headers) = u[Len(headers)]
    BY <1>1, FrameSteps, Zenon
  <2> QED
    BY <1>1, <2>1, Zenon
<1>3. /\ u[0] = Empty
      /\ u[1] = Frames!ReadHeader(u[0], h1)
      /\ u[2] = Frames!ReadHeader(u[1], h2)
      /\ u[3] = Frames!ReadHeader(u[2], h3)
      /\ u[4] = Frames!ReadHeader(u[3], h4)
      /\ u[5] = Frames!ReadHeader(u[4], h5)
  <2>1. u[0] = Empty /\ \A n \in 1..5 : u[n] = Frames!ReadHeader(u[n - 1], headers[n])
    BY <1>2, Zenon DEF Steps
  <2>2. /\ 1 \in 1..5 /\ 2 \in 1..5 /\ 3 \in 1..5 /\ 4 \in 1..5 /\ 5 \in 1..5
        /\ 1 - 1 = 0 /\ 2 - 1 = 1 /\ 3 - 1 = 2 /\ 4 - 1 = 3 /\ 5 - 1 = 4
    OBVIOUS
  <2>3. /\ u[1] = Frames!ReadHeader(u[1 - 1], headers[1])
        /\ u[2] = Frames!ReadHeader(u[2 - 1], headers[2])
        /\ u[3] = Frames!ReadHeader(u[3 - 1], headers[3])
        /\ u[4] = Frames!ReadHeader(u[4 - 1], headers[4])
        /\ u[5] = Frames!ReadHeader(u[5 - 1], headers[5])
    BY <2>1, <2>2, Zenon
  <2> QED
    BY <1>1, <2>1, <2>2, <2>3, Zenon
<1>4. PICK p1, p2, p3, p4 : p1 = u[1] /\ p2 = u[2] /\ p3 = u[3] /\ p4 = u[4]
  OBVIOUS
<1>5. /\ p1 = Frames!ReadHeader(Empty, h1)
      /\ p2 = Frames!ReadHeader(p1, h2)
      /\ p3 = Frames!ReadHeader(p2, h3)
      /\ p4 = Frames!ReadHeader(p3, h4)
      /\ q = Frames!ReadHeader(p4, h5)
  BY <1>2, <1>3, <1>4, Zenon
<1>6. Frames!Decodes(h1) /\ Frames!Decodes(h3) /\ Frames!Decodes(h4) /\ Frames!Decodes(h5)
  <2>1. h5.form \in {"plain", "empty"}
    BY DEF Frames!Plain
  <2> QED
    BY <2>1, DecodeFacts
<1>7. /\ "live" \notin Frames!Lists /\ "packs" \notin Frames!Lists /\ "live" # "packs"
      /\ l # "live" /\ l # "packs"
  BY DEF Frames!Lists
<1>8. /\ Empty.copied = {} /\ Empty.known = known /\ known[l] = said[l]
      /\ \A k \in Frames!Lists : known[k] = said[k]
  BY DEF Empty, BundleInv, ListsInv
<1>9. /\ p1.copied = {"live"} /\ \A k \in Frames!Lists : p1.known[k] = known[k]
  BY <1>5, <1>6, <1>7, <1>8, HeaderRead
<1>10. /\ p2.copied = {"live", l}
       /\ \A k \in Frames!Lists : p2.known[k] = IF k = l THEN h2.body ELSE known[k]
  <2>1. h2.form \in {"plain", "masked", "flagged"} \/ (h2.form = "empty" /\ h2.body = {})
    BY FormFacts
  <2>2. Frames!Decodes(h2)
    BY <2>1, DecodeFacts
  <2>3. Frames!ListOf(h2) = h2.body
    BY <2>1 DEF Frames!ListOf, Frames!CarriesNothing
  <2>4. h2.cmd \notin p1.copied
    BY <1>7, <1>9
  <2>5. /\ p2.copied = p1.copied \cup {h2.cmd}
        /\ \A k \in Frames!Lists : p2.known[k] = IF k = h2.cmd THEN Frames!ListOf(h2) ELSE p1.known[k]
    <3>1. Taken(p1, h2, p2)
      BY <1>5, <2>2, <2>4, HeaderTaken, Zenon
    <3> QED
      BY <3>1, Zenon DEF Taken
  <2> QED
    BY <1>9, <2>3, <2>5
<1>12. /\ p3.copied \in {p2.copied, p2.copied \cup {"packs"}}
       /\ \A k \in Frames!Lists : p3.known[k] = p2.known[k]
  BY <1>5, <1>6, <1>7, HeaderRead
<1>13. p4 = p3
  <2>1. "live" \in p3.copied
    BY <1>10, <1>12
  <2> QED
    BY <1>5, <2>1, HeaderRead
<1>14. \A k \in Frames!Lists : q.known[k] = IF k = l THEN h2.body ELSE known[k]
  <2>1. h5.cmd \in p4.copied
    BY <1>10, <1>12, <1>13
  <2>2. q = p4
    BY <1>5, <2>1, HeaderRead
  <2> QED
    BY <1>10, <1>12, <1>13, <2>2
<1>15. ASSUME NEW k \in Frames!Lists PROVE q.known[k] = Frames!FirstList(k, headers)
  <2>1. PICK copies : copies = {i \in DOMAIN headers : headers[i].cmd = k}
    OBVIOUS
  <2>2. Frames!FirstList(k, headers) = IF \A i \in copies : headers[i].form = "sealed" THEN said[k]
                                       ELSE headers[CHOOSE i \in copies : \A j \in copies : i <= j].body
    BY <2>1 DEF Frames!FirstList
  <2>3. k # "live" /\ k # "packs"
    BY <1>7
  <2>4. CASE k # l
    <3>1. copies = {}
      BY <1>1, <2>1, <2>3, <2>4
    <3> QED
      BY <1>8, <1>14, <2>2, <2>4, <3>1
  <2>5. CASE k = l
    <3>1. copies = {2, 5}
      BY <1>1, <2>1, <2>3, <2>5
    <3>2. (CHOOSE i \in copies : \A j \in copies : i <= j) = 2
      BY <3>1
    <3>3. ~\A i \in copies : headers[i].form = "sealed"
      BY <1>1, <3>1
    <3> QED
      BY <1>1, <1>14, <2>2, <2>5, <3>2, <3>3
  <2> QED
    BY <2>4, <2>5
<1>16. ReadRight(q)
  <2>1. HeaderFits(Empty, h1) /\ HeaderFits(p1, h2) /\ HeaderFits(p2, h3) /\ HeaderFits(p3, h4) /\ HeaderFits(p4, h5)
    <3>1. HeaderFits(Empty, h1)
      BY DEF HeaderFits
    <3>2. HeaderFits(p1, h2) /\ HeaderFits(p4, h5)
      BY DEF HeaderFits, Frames!Lists
    <3>3. HeaderFits(p2, h3)
      BY DEF HeaderFits
    <3>4. HeaderFits(p3, h4)
      BY <1>10, <1>12 DEF HeaderFits
    <3> QED
      BY <3>1, <3>2, <3>3, <3>4
  <2>2. ReadRight(p1)
    BY <1>5, <2>1, EmptyRight, HeaderHolds, Zenon
  <2>3. ReadRight(p2)
    BY <1>5, <2>1, <2>2, HeaderHolds, Zenon
  <2>4. ReadRight(p3)
    BY <1>5, <2>1, <2>3, HeaderHolds, Zenon
  <2>5. ReadRight(p4)
    BY <1>5, <2>1, <2>4, HeaderHolds, Zenon
  <2> QED
    BY <1>5, <2>1, <2>5, HeaderHolds, Zenon
<1> QED
  BY <1>15, <1>16, Zenon DEF FrameRight

LEMMA RangeFacts ==
  ASSUME NEW S, NEW t \in Seq(S)
  PROVE  t \in Seq(RangeOf(t))
<1>1. PICK n, R : n = Len(t) /\ R = RangeOf(t)
  OBVIOUS
<1>2. n \in Nat /\ DOMAIN t = 1..n /\ t \in [1..n -> S]
  BY <1>1, LenProperties
<1>3. t \in [1..n -> R]
  BY <1>1, <1>2 DEF RangeOf
<1>4. Seq(R) = UNION {[1..k -> R] : k \in Nat}
  BY SeqDef
<1> QED
  BY <1>1, <1>2, <1>3, <1>4

\* A sequence and the one with a message more.
OneMore(s, m, t) ==
    /\ t \in Seq(RangeOf(t)) /\ Len(s) \in Nat /\ Len(t) = Len(s) + 1
    /\ t[Len(s) + 1] = m /\ \A i \in 1..Len(s) : t[i] = s[i]

LEMMA AppendFacts ==
  ASSUME NEW s, s \in Seq(RangeOf(s)), NEW m, NEW t, t = Append(s, m)
  PROVE  OneMore(s, m, t)
<1>1. PICK S : S = RangeOf(s) \cup {m}
  OBVIOUS
<1>2. s \in Seq(S)
  <2>1. \A i \in 1..Len(s) : s[i] \in S
    BY <1>1 DEF RangeOf
  <2> QED
    BY <2>1
<1>3. /\ t \in Seq(S) /\ Len(s) \in Nat /\ Len(t) = Len(s) + 1
      /\ t[Len(s) + 1] = m /\ \A i \in 1..Len(s) : t[i] = s[i]
  BY <1>1, <1>2
<1>4. t \in Seq(RangeOf(t))
  BY <1>3, RangeFacts
<1> QED
  BY <1>3, <1>4 DEF OneMore

LEMMA TailFacts ==
  ASSUME NEW s, s \in Seq(RangeOf(s)), s # <<>>, NEW t, t = Tail(s)
  PROVE  /\ t \in Seq(RangeOf(t)) /\ Len(s) \in Nat /\ Len(t) \in Nat /\ Len(s) = Len(t) + 1
         /\ Head(s) = s[1] /\ \A i \in 1..Len(t) : t[i] = s[i + 1]
<1>1. PICK S : S = RangeOf(s)
  OBVIOUS
<1>2. s \in Seq(S)
  BY <1>1
<1>3. /\ t \in Seq(S) /\ Len(s) \in Nat /\ Len(t) \in Nat /\ Len(s) = Len(t) + 1
      /\ Head(s) = s[1] /\ \A i \in 1..Len(t) : t[i] = s[i + 1]
  BY <1>2
<1>4. t \in Seq(RangeOf(t))
  BY <1>3, RangeFacts
<1> QED
  BY <1>3, <1>4

\* A message more decides the keys it has, and leaves the rest.
LEMMA ShowAppended ==
  ASSUME NEW s, s \in Seq(RangeOf(s)), NEW m, NEW t, t = Append(s, m), NEW store, NEW key, NEW value
  PROVE  WillShow(t, store, key, value) <=>
            IF key \in DOMAIN m THEN m[key] = value ELSE WillShow(s, store, key, value)
<1>1. PICK n : n = Len(s)
  OBVIOUS
<1>2. n \in Nat /\ Len(t) = n + 1 /\ t[n + 1] = m /\ \A i \in 1..n : t[i] = s[i]
  <2>1. OneMore(s, m, t)
    BY AppendFacts
  <2> QED
    BY <1>1, <2>1 DEF OneMore
<1>3. CASE key \in DOMAIN m
  <2>1. WillShow(t, store, key, value) => m[key] = value
    BY <1>2, <1>3 DEF WillShow
  <2>2. m[key] = value => WillShow(t, store, key, value)
    BY <1>2, <1>3 DEF WillShow
  <2> QED
    BY <1>3, <2>1, <2>2
<1>4. CASE key \notin DOMAIN m
  <2>1. WillShow(t, store, key, value) => WillShow(s, store, key, value)
    BY <1>1, <1>2, <1>4 DEF WillShow
  <2>2. WillShow(s, store, key, value) => WillShow(t, store, key, value)
    BY <1>1, <1>2, <1>4 DEF WillShow
  <2> QED
    BY <1>4, <2>1, <2>2
<1> QED
  BY <1>3, <1>4

\* Applying the oldest message changes nothing of what the keys will show.
LEMMA ShowApplied ==
  ASSUME NEW s, s \in Seq(RangeOf(s)), s # <<>>, NEW t, t = Tail(s), NEW store, NEW key, NEW value,
         NEW next, next = Frames!Merged(Head(s), store)
  PROVE  WillShow(t, next, key, value) <=> WillShow(s, store, key, value)
<1>1. PICK n, m : n = Len(t) /\ m = s[1]
  OBVIOUS
<1>2. n \in Nat /\ Len(s) = n + 1 /\ Head(s) = m /\ \A i \in 1..n : t[i] = s[i + 1]
  BY <1>1, TailFacts
<1>3. /\ DOMAIN next = DOMAIN m \cup DOMAIN store
      /\ \A x \in DOMAIN next : next[x] = IF x \in DOMAIN m THEN m[x] ELSE store[x]
  BY <1>2 DEF Frames!Merged
<1>4. \A i \in 2..(n + 1) : i - 1 \in 1..n /\ t[i - 1] = s[i]
  BY <1>2
<1>5. CASE \A i \in 1..n : key \notin DOMAIN t[i]
  <2>1. \A i \in 2..(n + 1) : key \notin DOMAIN s[i]
    BY <1>4, <1>5
  <2>2. WillShow(t, next, key, value) <=> key \in DOMAIN next /\ next[key] = value
    BY <1>1, <1>5 DEF WillShow
  <2>3. CASE key \in DOMAIN m
    <3>1. WillShow(s, store, key, value) <=> m[key] = value
      BY <1>1, <1>2, <2>1, <2>3 DEF WillShow
    <3> QED
      BY <1>3, <2>2, <2>3, <3>1
  <2>4. CASE key \notin DOMAIN m
    <3>1. \A i \in 1..(n + 1) : key \notin DOMAIN s[i]
      BY <1>1, <1>2, <2>1, <2>4
    <3>2. WillShow(s, store, key, value) <=> key \in DOMAIN store /\ store[key] = value
      BY <1>2, <3>1 DEF WillShow
    <3> QED
      BY <1>3, <2>2, <2>4, <3>2
  <2> QED
    BY <2>3, <2>4
<1>6. CASE \E i \in 1..n : key \in DOMAIN t[i]
  <2>1. ASSUME WillShow(t, next, key, value) PROVE WillShow(s, store, key, value)
    <3>1. PICK i \in 1..n : /\ key \in DOMAIN t[i] /\ t[i][key] = value
                            /\ \A j \in 1..n : i < j => key \notin DOMAIN t[j]
      BY <1>1, <1>6, <2>1 DEF WillShow
    <3>2. i + 1 \in 1..(n + 1) /\ key \in DOMAIN s[i + 1] /\ s[i + 1][key] = value
      BY <1>2, <3>1
    <3>3. \A j \in 1..(n + 1) : i + 1 < j => key \notin DOMAIN s[j]
      <4>1. ASSUME NEW j \in 1..(n + 1), i + 1 < j PROVE key \notin DOMAIN s[j]
        <5>1. j \in 2..(n + 1) /\ i < j - 1
          BY <3>1, <4>1
        <5> QED
          BY <1>4, <3>1, <5>1
      <4> QED
        BY <4>1
    <3> QED
      BY <1>2, <3>2, <3>3 DEF WillShow
  <2>2. ASSUME WillShow(s, store, key, value) PROVE WillShow(t, next, key, value)
    <3>1. PICK k \in 1..n : key \in DOMAIN s[k + 1]
      BY <1>2, <1>6
    <3>2. PICK i \in 1..(n + 1) : /\ key \in DOMAIN s[i] /\ s[i][key] = value
                                  /\ \A j \in 1..(n + 1) : i < j => key \notin DOMAIN s[j]
      <4>1. k + 1 \in 1..(n + 1)
        BY <1>2, <3>1
      <4> QED
        BY <1>2, <2>2, <3>1, <4>1 DEF WillShow
    <3>3. i \in 2..(n + 1)
      BY <1>2, <3>1, <3>2
    <3>4. i - 1 \in 1..n /\ key \in DOMAIN t[i - 1] /\ t[i - 1][key] = value
      BY <1>4, <3>2, <3>3
    <3>5. \A j \in 1..n : i - 1 < j => key \notin DOMAIN t[j]
      <4>1. ASSUME NEW j \in 1..n, i - 1 < j PROVE key \notin DOMAIN t[j]
        <5>1. j + 1 \in 1..(n + 1) /\ i < j + 1
          BY <1>2, <3>3, <4>1
        <5> QED
          BY <1>2, <3>2, <5>1
      <4> QED
        BY <4>1
    <3> QED
      BY <1>1, <3>4, <3>5 DEF WillShow
  <2> QED
    BY <2>1, <2>2
<1> QED
  BY <1>5, <1>6

LEMMA BundleInitial ==
  ASSUME Frames!FramesInit
  PROVE  BundleInv
<1>1. Numbering(packNo)
  <2>1. packNo = Frames!Nothing
    BY DEF Frames!FramesInit
  <2> QED
    BY <2>1, NothingNumbered
<1>2. inverterNo = Frames!Nothing /\ posted = <<>> /\ held = Frames!Nothing
  BY DEF Frames!FramesInit
<1>3. posted \in Seq(RangeOf(posted)) /\ Len(posted) = 0
  BY <1>2, EmptySeq
<1>4. DOMAIN held = {}
  BY <1>2 DEF Frames!Nothing
<1>5. CalledInv
  <2>1. called = [s \in Frames!Slots |-> {}]
    BY DEF Frames!FramesInit
  <2> QED
    BY <2>1 DEF CalledInv, Frames!Slots
<1>6. ListsInv
  <2>1. known = [l \in Frames!Lists |-> {}] /\ said = [l \in Frames!Lists |-> {}]
    BY DEF Frames!FramesInit
  <2>2. \A key, value : ~WillShow(posted, held, key, value)
    BY <1>3, <1>4 DEF WillShow
  <2> QED
    BY <2>1, <2>2 DEF ListsInv
<1> QED
  BY <1>1, <1>2, <1>3, <1>4, <1>5, <1>6 DEF BundleInv

LEMMA BundleSame ==
  ASSUME BundleInv, UNCHANGED <<known, packNo, inverterNo, posted, held, said, called>>
  PROVE  BundleInv'
BY DEF BundleInv, CalledInv, ListsInv

\* A frame read right leaves the bundle right, posted or not.
LEMMA PostRight ==
  ASSUME BundleInv, NEW headers, NEW q, FrameRight(q, headers),
         known' = q.known, packNo' = q.packNo, inverterNo' = q.inverterNo,
         posted' = IF q.merged = Frames!Nothing THEN posted ELSE Append(posted, q.merged),
         said' = [l \in Frames!Lists |-> Frames!FirstList(l, headers)],
         held' = held, called' = called
  PROVE  BundleInv'
<1> DEFINE m == q.merged
<1>1. /\ Numbering(q.packNo) /\ Extends(q.packNo, packNo)
      /\ q.inverterNo \in {Frames!Nothing, PairNumbers}
      /\ MessageRight(m, q.packNo) /\ ListsRight(q)
  BY DEF FrameRight, ReadRight
<1>2. posted \in Seq(RangeOf(posted))
  BY DEF BundleInv
<1>3. ASSUME NEW i \in 1..Len(posted) PROVE MessageRight(posted[i], q.packNo)
  <2>1. MessageRight(posted[i], packNo)
    BY DEF BundleInv
  <2> QED
    BY <1>1, <2>1, StillRight
<1>4. PICK t : t = posted'
  OBVIOUS
<1>5. /\ t \in Seq(RangeOf(t))
      /\ \A i \in 1..Len(t) : MessageRight(t[i], q.packNo)
      /\ \A key, value : WillShow(t, held, key, value) <=>
            IF key \in DOMAIN m THEN m[key] = value ELSE WillShow(posted, held, key, value)
  <2>1. CASE m = Frames!Nothing
    <3>1. t = posted /\ DOMAIN m = {}
      BY <1>4, <2>1 DEF Frames!Nothing
    <3> QED
      BY <1>2, <1>3, <3>1
  <2>2. CASE m # Frames!Nothing
    <3>1. t = Append(posted, m)
      BY <1>4, <2>2
    <3> HIDE DEF m
    <3>2. /\ t \in Seq(RangeOf(t)) /\ Len(posted) \in Nat /\ Len(t) = Len(posted) + 1
          /\ t[Len(posted) + 1] = m /\ \A i \in 1..Len(posted) : t[i] = posted[i]
      <4>1. OneMore(posted, m, t)
        BY <1>2, <3>1, AppendFacts, Zenon
      <4> QED
        BY <4>1, Zenon DEF OneMore
    <3>3. \A i \in 1..Len(t) : MessageRight(t[i], q.packNo)
      <4>1. \A i \in 1..Len(t) : i \in 1..Len(posted) \/ i = Len(posted) + 1
        BY <3>2
      <4>2. \A i \in 1..Len(t) : MessageRight(t[i], q.packNo) \/ t[i] = m
        BY <1>3, <3>2, <4>1, Zenon
      <4> QED
        BY <1>1, <4>2, Zenon
    <3>4. \A key, value : WillShow(t, held, key, value) <=>
            IF key \in DOMAIN m THEN m[key] = value ELSE WillShow(posted, held, key, value)
      BY <1>2, <3>1, ShowAppended, Zenon
    <3> QED
      BY <3>2, <3>3, <3>4
  <2> QED
    BY <2>1, <2>2
<1>6. CalledInv'
  <2>1. \A n, x : NamedAs(packNo, n, x) => NamedAs(q.packNo, n, x)
    BY <1>1 DEF NamedAs, Extends
  <2> QED
    BY <2>1 DEF BundleInv, CalledInv
<1>7. ListsInv'
  <2>1. ASSUME NEW l \in Frames!Lists
        PROVE  /\ q.known[l] = said'[l]
               /\ \A x \in Tasks : WillShow(t, held, <<l, x>>, "held") <=> x \in q.known[l]
    <3>1. q.known[l] = Frames!FirstList(l, headers)
      BY DEF FrameRight
    <3>2. ASSUME NEW x \in Tasks PROVE WillShow(t, held, <<l, x>>, "held") <=> x \in q.known[l]
      <4>1. WillShow(posted, held, <<l, x>>, "held") <=> x \in known[l]
        BY DEF BundleInv, ListsInv
      <4>2. IF <<l, x>> \in DOMAIN m THEN m[<<l, x>>] = "held" <=> x \in q.known[l]
            ELSE x \in q.known[l] <=> x \in known[l]
        BY <1>1 DEF ListsRight
      <4>3. WillShow(t, held, <<l, x>>, "held") <=>
              IF <<l, x>> \in DOMAIN m THEN m[<<l, x>>] = "held" ELSE WillShow(posted, held, <<l, x>>, "held")
        BY <1>5
      <4> QED
        BY <4>1, <4>2, <4>3
    <3>3. said'[l] = Frames!FirstList(l, headers)
      BY Zenon
    <3> QED
      BY <3>1, <3>2, <3>3
  <2> QED
    BY <1>4, <2>1 DEF ListsInv
<1>8. Frames!Live \in DOMAIN held => held[Frames!Live] = "working"
  BY DEF BundleInv
<1> QED
  BY <1>1, <1>4, <1>5, <1>6, <1>7, <1>8 DEF BundleInv

LEMMA ApplyRight ==
  ASSUME BundleInv, Frames!Apply
  PROVE  BundleInv'
<1>1. PICK m, t, next : m = Head(posted) /\ t = Tail(posted) /\ next = held'
  OBVIOUS
<1>2. /\ posted # <<>> /\ posted' = t /\ next = Frames!Merged(m, held)
      /\ called' = [s \in Frames!Slots |-> called[s] \cup (IF s \in DOMAIN m THEN {m[s]} ELSE {})]
      /\ known' = known /\ packNo' = packNo /\ inverterNo' = inverterNo /\ said' = said
  BY <1>1 DEF Frames!Apply, Frames!parserVars
<1>3. posted \in Seq(RangeOf(posted))
  BY DEF BundleInv
<1>4. /\ t \in Seq(RangeOf(t)) /\ Len(t) \in Nat /\ Len(posted) = Len(t) + 1
      /\ m = posted[1] /\ \A i \in 1..Len(t) : t[i] = posted[i + 1]
  BY <1>1, <1>2, <1>3, TailFacts
<1>5. MessageRight(m, packNo) /\ \A i \in 1..Len(t) : MessageRight(t[i], packNo)
  <2>1. \A i \in 1..Len(posted) : MessageRight(posted[i], packNo)
    BY DEF BundleInv
  <2>2. 1 \in 1..Len(posted) /\ \A i \in 1..Len(t) : i + 1 \in 1..Len(posted)
    BY <1>4
  <2> QED
    BY <1>4, <2>1, <2>2, Zenon
<1>6. /\ DOMAIN next = DOMAIN m \cup DOMAIN held
      /\ \A x \in DOMAIN next : next[x] = IF x \in DOMAIN m THEN m[x] ELSE held[x]
  BY <1>2 DEF Frames!Merged
<1>7. Frames!Live \in DOMAIN next => next[Frames!Live] = "working"
  BY <1>5, <1>6 DEF BundleInv, MessageRight
<1>8. CalledInv'
  <2>1. /\ \A n \in 1..PackSlots : \A x \in called[<<"pack", n>>] : NamedAs(packNo, n, x)
        /\ \A n \in 1..InverterSlots : \A x \in called[<<"inverter", n>>] : NamedAs(PairNumbers, n, x)
    BY DEF BundleInv, CalledInv
  <2>2. DOMAIN called' = Frames!Slots
    BY <1>2
  <2>3. \A s \in Frames!Slots : called'[s] = called[s] \cup (IF s \in DOMAIN m THEN {m[s]} ELSE {})
    BY <1>2
  <2>4. ASSUME NEW n \in 1..PackSlots, NEW x \in called'[<<"pack", n>>] PROVE NamedAs(packNo, n, x)
    <3>1. <<"pack", n>> \in Frames!Slots
      BY DEF Frames!Slots
    <3>2. x \in called[<<"pack", n>>] \/ (<<"pack", n>> \in DOMAIN m /\ x = m[<<"pack", n>>])
      BY <2>3, <2>4, <3>1
    <3> QED
      BY <1>5, <2>1, <3>2 DEF MessageRight
  <2>5. ASSUME NEW n \in 1..InverterSlots, NEW x \in called'[<<"inverter", n>>] PROVE NamedAs(PairNumbers, n, x)
    <3>1. <<"inverter", n>> \in Frames!Slots
      BY DEF Frames!Slots
    <3>2. x \in called[<<"inverter", n>>] \/ (<<"inverter", n>> \in DOMAIN m /\ x = m[<<"inverter", n>>])
      BY <2>3, <2>5, <3>1
    <3> QED
      BY <1>5, <2>1, <3>2 DEF MessageRight
  <2>6. PairNumbers' = PairNumbers
    BY DEF PairNumbers
  <2> QED
    BY <1>2, <2>2, <2>4, <2>5, <2>6 DEF CalledInv
<1>9. ListsInv'
  <2>1. ASSUME NEW l \in Frames!Lists
        PROVE  /\ known[l] = said[l]
               /\ \A x \in Tasks : WillShow(t, next, <<l, x>>, "held") <=> x \in known[l]
    <3>1. /\ known[l] = said[l]
          /\ \A x \in Tasks : WillShow(posted, held, <<l, x>>, "held") <=> x \in known[l]
      BY DEF BundleInv, ListsInv
    <3>2. \A key, value : WillShow(t, next, key, value) <=> WillShow(posted, held, key, value)
      BY <1>1, <1>2, <1>3, ShowApplied, Zenon
    <3> QED
      BY <3>1, <3>2
  <2> QED
    BY <1>1, <1>2, <2>1 DEF ListsInv
<1>10. Numbering(packNo) /\ inverterNo \in {Frames!Nothing, PairNumbers}
  BY DEF BundleInv
<1> QED
  BY <1>1, <1>2, <1>4, <1>5, <1>7, <1>8, <1>9, <1>10 DEF BundleInv

LEMMA RestartRight ==
  ASSUME BundleInv, Frames!Restart
  PROVE  BundleInv'
<1>1. /\ posted' = <<>> /\ held' = Frames!Nothing
      /\ known' = [l \in Frames!Lists |-> {}] /\ packNo' = Frames!Nothing /\ inverterNo' = Frames!Nothing
      /\ said' = [l \in Frames!Lists |-> {}]
      /\ called' = [s \in Frames!Slots |-> IF s[1] = "pack" THEN {} ELSE called[s]]
  BY DEF Frames!Restart
<1>2. Numbering(packNo')
  BY <1>1, NothingNumbered
<1>3. posted' \in Seq(RangeOf(posted')) /\ Len(posted') = 0
  BY <1>1, EmptySeq
<1>4. DOMAIN held' = {}
  BY <1>1 DEF Frames!Nothing
<1>5. CalledInv'
  <2>1. DOMAIN called' = Frames!Slots
    BY <1>1
  <2>2. \A n \in 1..PackSlots : called'[<<"pack", n>>] = {}
    BY <1>1 DEF Frames!Slots
  <2>3. \A n \in 1..InverterSlots : called'[<<"inverter", n>>] = called[<<"inverter", n>>]
    BY <1>1 DEF Frames!Slots
  <2>4. \A n \in 1..InverterSlots : \A x \in called[<<"inverter", n>>] : NamedAs(PairNumbers, n, x)
    BY DEF BundleInv, CalledInv
  <2>5. PairNumbers' = PairNumbers
    BY DEF PairNumbers
  <2> QED
    BY <2>1, <2>2, <2>3, <2>4, <2>5 DEF CalledInv
<1>6. ListsInv'
  <2>1. PICK s, h : s = posted' /\ h = held'
    OBVIOUS
  <2>2. \A key, value : ~WillShow(s, h, key, value)
    BY <1>3, <1>4, <2>1 DEF WillShow
  <2> QED
    BY <1>1, <2>1, <2>2 DEF ListsInv
<1> QED
  BY <1>1, <1>2, <1>3, <1>4, <1>5, <1>6 DEF BundleInv

LEMMA ReceiveRight ==
  ASSUME BundleInv, NEW topic, topic # "set", NEW headers, Frames!Receive(topic, headers),
         NEW q, q = Frames!ReadFrame(headers), FrameRight(q, headers)
  PROVE  BundleInv'
<1>1. /\ known' = q.known /\ packNo' = q.packNo /\ inverterNo' = q.inverterNo
      /\ posted' = IF q.merged = Frames!Nothing THEN posted ELSE Append(posted, q.merged)
  BY Zenon DEF Frames!Receive, Frames!IsReading
<1>2. /\ said' = [l \in Frames!Lists |-> Frames!FirstList(l, headers)]
      /\ held' = held /\ called' = called
  BY Zenon DEF Frames!Receive
<1> QED
  BY <1>1, <1>2, PostRight, Zenon

\* What a frame other than a list consists of.
OtherFits(h) ==
    /\ h.form = "plain" /\ h.cmd \in {"packs", "inverters", "rod", "share"}
    /\ h.cmd = "packs" => \E pack \in Packs : h.body = <<pack>>
    /\ h.cmd = "inverters" => h.body \in SUBSET Inverters

LEMMA OtherRight ==
  ASSUME BundleInv, Cardinality(Inverters) <= InverterSlots,
         NEW h, OtherFits(h), Frames!Receive("push", <<h>>)
  PROVE  BundleInv'
<1>1. HeaderFits(Empty, h)
  BY DEF HeaderFits, OtherFits
<1>2. h.form = "plain" /\ h.cmd \notin Frames!Lists
  BY DEF OtherFits, Frames!Lists
<1>3. PICK q : q = Frames!ReadFrame(<<h>>)
  OBVIOUS
<1>4. FrameRight(q, <<h>>)
  BY <1>1, <1>2, <1>3, OtherHeader
<1> QED
  BY <1>3, <1>4, ReceiveRight, Zenon

LEMMA ListRight ==
  ASSUME BundleInv, Cardinality(Inverters) <= InverterSlots, NEW h, h.cmd \in Frames!Lists,
         h.form \in Frames!FormsOf(h.body), Frames!Receive("push", <<h>>)
  PROVE  BundleInv'
<1>1. PICK q : q = Frames!ReadFrame(<<h>>)
  OBVIOUS
<1>2. FrameRight(q, <<h>>)
  BY <1>1, ListHeader, Zenon
<1> QED
  BY <1>1, <1>2, ReceiveRight, Zenon

LEMMA GetAllRight ==
  ASSUME FirstReadable, BundleInv, Cardinality(Inverters) <= InverterSlots, Frames!GetAllReply
  PROVE  BundleInv'
<1>1. PICK l \in Frames!Lists, list \in SUBSET Tasks, older \in SUBSET Tasks, packs \in Frames!SetToSeqs(Packs) :
        \E first \in Frames!FormsOf(list) :
            /\ FirstReadable => first # "sealed"
            /\ Frames!Receive("reply", <<Frames!Header("live", "plain", "working"), Frames!Header(l, first, list),
                                         Frames!Header("packs", "plain", packs),
                                         Frames!Header("live", "plain", "cached"),
                                         Frames!Header(l, Frames!Plain(older), older)>>)
  BY Zenon DEF Frames!GetAllReply
<1>2. PICK first \in Frames!FormsOf(list) :
            /\ first # "sealed"
            /\ Frames!Receive("reply", <<Frames!Header("live", "plain", "working"), Frames!Header(l, first, list),
                                         Frames!Header("packs", "plain", packs),
                                         Frames!Header("live", "plain", "cached"),
                                         Frames!Header(l, Frames!Plain(older), older)>>)
  BY <1>1
<1>3. PICK h1, h2, h3, h4, h5 :
        /\ h1 = Frames!Header("live", "plain", "working") /\ h2 = Frames!Header(l, first, list)
        /\ h3 = Frames!Header("packs", "plain", packs) /\ h4 = Frames!Header("live", "plain", "cached")
        /\ h5 = Frames!Header(l, Frames!Plain(older), older)
  OBVIOUS
<1>4. PICK headers, q : headers = <<h1, h2, h3, h4, h5>> /\ q = Frames!ReadFrame(headers)
  OBVIOUS
<1>5. Frames!Receive("reply", headers)
  BY <1>2, <1>3, <1>4, Zenon
<1>6. DOMAIN packs \subseteq Nat /\ \A i \in DOMAIN packs : packs[i] \in Packs
  <2>1. PICK n : n = Cardinality(Packs) /\ n \in Nat
    BY ValuesAssumption, FS_CardinalityType DEF ValuesAssumption
  <2>2. Frames!Cardinality(Packs) = n
    BY <2>1, BundleCount
  <2>3. packs \in [1..n -> Packs]
    BY <2>2 DEF Frames!SetToSeqs
  <2> QED
    BY <2>1, <2>3
<1>7. /\ h1.cmd = "live" /\ h1.form = "plain" /\ h1.body = "working"
      /\ h2.cmd = l /\ h2.form = first /\ h2.body = list
      /\ h3.cmd = "packs" /\ h3.form = "plain" /\ h3.body = packs
      /\ h4.cmd = "live" /\ h4.form = "plain"
      /\ h5.cmd = l /\ h5.form = Frames!Plain(older) /\ h5.body = older
  BY <1>3 DEF Frames!Header
<1>8. h2.form \in Frames!FormsOf(h2.body) /\ h2.form # "sealed" /\ h5.form = Frames!Plain(h5.body)
  BY <1>2, <1>7
<1>9. DOMAIN h3.body \subseteq Nat /\ \A i \in DOMAIN h3.body : h3.body[i] \in Packs
  BY <1>6, <1>7, Zenon
<1>10. FrameRight(q, headers)
  BY <1>4, <1>7, <1>8, <1>9, ReplyRight, Zenon
<1>11. "reply" # "set"
  OBVIOUS
<1> QED
  BY <1>4, <1>5, <1>10, <1>11, ReceiveRight, Zenon

LEMMA BundleStep ==
  ASSUME FirstReadable, BundleInv, Cardinality(Inverters) <= InverterSlots, Frames!FramesNext
  PROVE  BundleInv'
<1>1. CASE Frames!GetAllReply
  BY <1>1, GetAllRight
<1>2. CASE Frames!PushList
  <2>0. PICK l \in Frames!Lists, list \in SUBSET Tasks : \E form \in Frames!FormsOf(list) :
            Frames!Receive("push", <<Frames!Header(l, form, list)>>)
    BY <1>2, Zenon DEF Frames!PushList
  <2>1. PICK form \in Frames!FormsOf(list) : Frames!Receive("push", <<Frames!Header(l, form, list)>>)
    BY <2>0
  <2>2. PICK h : h = Frames!Header(l, form, list)
    OBVIOUS
  <2>3. h.cmd = l /\ h.form = form /\ h.body = list
    BY <2>2 DEF Frames!Header
  <2>4. Frames!Receive("push", <<h>>)
    BY <2>1, <2>2, Zenon
  <2>5. h.cmd \in Frames!Lists /\ h.form \in Frames!FormsOf(h.body)
    BY <2>3
  <2> QED
    BY <2>4, <2>5, ListRight, Zenon
<1>3. CASE Frames!PushPack
  <2>1. PICK pack \in Packs : Frames!Receive("push", <<Frames!Header("packs", "plain", <<pack>>)>>)
    BY <1>3, Zenon DEF Frames!PushPack
  <2>2. PICK h : h = Frames!Header("packs", "plain", <<pack>>)
    OBVIOUS
  <2>3. OtherFits(h)
    BY <2>2 DEF Frames!Header, OtherFits
  <2>4. Frames!Receive("push", <<h>>)
    BY <2>1, <2>2, Zenon
  <2> QED
    BY <2>3, <2>4, OtherRight, Zenon
<1>4. CASE Frames!PushInverters
  <2>1. PICK rows \in (SUBSET Inverters) \ {{}} : Frames!Receive("push", <<Frames!Header("inverters", "plain", rows)>>)
    BY <1>4, Zenon DEF Frames!PushInverters
  <2>2. PICK h : h = Frames!Header("inverters", "plain", rows)
    OBVIOUS
  <2>3. OtherFits(h)
    BY <2>2 DEF Frames!Header, OtherFits
  <2>4. Frames!Receive("push", <<h>>)
    BY <2>1, <2>2, Zenon
  <2> QED
    BY <2>3, <2>4, OtherRight, Zenon
<1>5. CASE Frames!PushShare
  <2>1. PICK share \in {"bare", "zero", "some"} : Frames!Receive("push", <<Frames!Header("share", "plain", share)>>)
    BY <1>5, Zenon DEF Frames!PushShare
  <2>2. PICK h : h = Frames!Header("share", "plain", share)
    OBVIOUS
  <2>3. OtherFits(h)
    BY <2>2 DEF Frames!Header, OtherFits
  <2>4. Frames!Receive("push", <<h>>)
    BY <2>1, <2>2, Zenon
  <2> QED
    BY <2>3, <2>4, OtherRight, Zenon
<1>6. CASE Frames!PushRod
  <2>1. PICK runs \in BOOLEAN : Frames!Receive("push", <<Frames!Header("rod", "plain", runs)>>)
    BY <1>6, Zenon DEF Frames!PushRod
  <2>2. PICK h : h = Frames!Header("rod", "plain", runs)
    OBVIOUS
  <2>3. OtherFits(h)
    BY <2>2 DEF Frames!Header, OtherFits
  <2>4. Frames!Receive("push", <<h>>)
    BY <2>1, <2>2, Zenon
  <2> QED
    BY <2>3, <2>4, OtherRight, Zenon
<1>7. CASE Frames!AppWrites
  <2>1. PICK l \in Frames!Lists, list \in (SUBSET Tasks) \ {{}} :
            Frames!Receive("set", <<Frames!Header(l, Frames!Plain(list), list)>>)
    BY <1>7, Zenon DEF Frames!AppWrites
  <2>2. UNCHANGED <<known, packNo, inverterNo, posted, held, said, called>>
    BY <2>1 DEF Frames!Receive, Frames!IsReading, Frames!parserVars
  <2> QED
    BY <2>2, BundleSame
<1>8. CASE Frames!Apply
  BY <1>8, ApplyRight
<1>9. CASE Frames!Restart
  BY <1>9, RestartRight
<1> QED
  BY <1>1, <1>2, <1>3, <1>4, <1>5, <1>6, <1>7, <1>8, <1>9 DEF Frames!FramesNext

LEMMA BundleGives ==
  ASSUME BundleInv, Cardinality(Inverters) <= InverterSlots
  PROVE  FramesReadRight
<1>1. ASSUME posted = <<>>
      PROVE  /\ \A l \in Frames!Lists, t \in Tasks :
                  (<<l, t>> \in DOMAIN held /\ held[<<l, t>>] = "held") <=> t \in said[l]
             /\ Frames!Live \in DOMAIN held => held[Frames!Live] = "working"
  <2>1. Len(posted) = 0
    BY <1>1
  <2>2. \A key, value : WillShow(posted, held, key, value) <=> key \in DOMAIN held /\ held[key] = value
    BY <2>1 DEF WillShow
  <2> QED
    BY <2>2 DEF BundleInv, ListsInv
<1>2. Frames!FirstCopyShown
  BY <1>1 DEF Frames!FirstCopyShown
<1>3. ASSUME NEW s \in Frames!Slots PROVE Frames!Cardinality(called[s]) <= 1
  <2>1. \A x, y \in called[s] : x = y
    <3>1. Numbering(packNo) /\ Numbering(PairNumbers)
      BY PairFacts DEF BundleInv
    <3>2. CASE \E n \in 1..PackSlots : s = <<"pack", n>>
      BY <3>1, <3>2 DEF BundleInv, CalledInv, NamedAs, Numbering
    <3>3. CASE \E n \in 1..InverterSlots : s = <<"inverter", n>>
      BY <3>1, <3>3 DEF BundleInv, CalledInv, NamedAs, Numbering
    <3> QED
      BY <3>2, <3>3 DEF Frames!Slots
  <2>2. CASE called[s] = {}
    <3>1. Cardinality({}) = 0
      BY FS_EmptySet
    <3> QED
      BY <2>2, <3>1, BundleCount
  <2>3. CASE called[s] # {}
    <3>1. PICK x \in called[s] : TRUE
      BY <2>3
    <3>2. called[s] = {x}
      BY <2>1, <3>1
    <3>3. Cardinality({x}) = 1
      BY FS_Singleton
    <3> QED
      BY <3>2, <3>3, BundleCount
  <2> QED
    BY <2>2, <2>3
<1>4. Frames!NumbersStand
  BY <1>3 DEF Frames!NumbersStand
<1> QED
  BY <1>2, <1>4 DEF FramesReadRight

\* The commands other than a rod's own.
Commands == Frames!Lists \cup {"packs", "inverters", "share", "live"}

\* Only a rod's own report says anything of the rod.
LEMMA NoRod ==
  ASSUME NEW p, Frames!Rod \notin DOMAIN p.merged, NEW h, h.cmd \in Commands,
         NEW q, q = Frames!ReadHeader(p, h)
  PROVE  Frames!Rod \notin DOMAIN q.merged
<1>1. CASE q = p
  BY <1>1
<1>2. CASE q # p
  <2>1. PICK m : m = Frames!Read(p, h)
    OBVIOUS
  <2>2. ~(~Frames!Decodes(h) \/ (Frames!FirstCopyWins(h.cmd) /\ h.cmd \in p.copied))
    BY <1>2 DEF Frames!ReadHeader
  <2>3. q.merged = Frames!Merged(m, p.merged)
    BY <2>1, <2>2 DEF Frames!ReadHeader
  <2>4. h.cmd \in Frames!Lists \cup {"packs", "inverters", "rod", "share", "live"}
    BY DEF Commands
  <2>5. News(p, h, m)
    BY <2>1, <2>4, NewsFacts, Zenon
  <2>6. Frames!Rod \notin DOMAIN m
    <3>1. CASE h.cmd \in Frames!Lists
      BY <2>5, <3>1 DEF News, Frames!Lists, Frames!Rod
    <3>2. CASE h.cmd = "packs"
      <4>1. \A key \in DOMAIN m : \E n : key = <<"pack", n>>
        BY <2>5, <3>2, Zenon DEF News
      <4> QED
        BY <4>1 DEF Frames!Rod
    <3>3. CASE h.cmd = "inverters"
      <4>1. \A key \in DOMAIN m : \E n : key = <<"inverter", n>>
        BY <2>5, <3>3, Zenon DEF News
      <4> QED
        BY <4>1 DEF Frames!Rod
    <3>4. CASE h.cmd = "share"
      <4>1. m = Frames!ReadShare(h.body)
        BY <2>1, <3>4 DEF Frames!Read, Frames!Lists
      <4> QED
        BY <4>1 DEF Frames!ReadShare, Frames!One, Frames!Nothing, Frames!Rod, Frames!Share
    <3>5. CASE h.cmd = "live"
      BY <2>5, <3>5 DEF News, Frames!Rod, Frames!Live
    <3> QED
      BY <3>1, <3>2, <3>3, <3>4, <3>5 DEF Commands
  <2> QED
    BY <2>3, <2>6 DEF Frames!Merged
<1> QED
  BY <1>1, <1>2

LEMMA NoRodInFrame ==
  ASSUME NEW headers, Len(headers) \in Nat, \A i \in 1..Len(headers) : headers[i].cmd \in Commands,
         NEW q, q = Frames!ReadFrame(headers)
  PROVE  Frames!Rod \notin DOMAIN q.merged
<1>1. PICK N : N = Len(headers) /\ N \in Nat
  OBVIOUS
<1>2. PICK u : Steps(u, headers, N) /\ q = u[N]
  <2>1. \E u : Steps(u, headers, Len(headers)) /\ Frames!ReadFrame(headers) = u[Len(headers)]
    BY <1>1, FrameSteps, Zenon
  <2> QED
    BY <1>1, <2>1, Zenon
<1>3. u[0] = Empty /\ \A n \in 1..N : u[n] = Frames!ReadHeader(u[n - 1], headers[n])
  BY <1>2, Zenon DEF Steps
<1> DEFINE Failing == {n \in 0..N : Frames!Rod \in DOMAIN u[n].merged}
<1>4. Failing = {}
  <2>1. SUFFICES ASSUME Failing # {} PROVE FALSE
    OBVIOUS
  <2>2. PICK k \in Failing : \A y \in Failing : k <= y
    <3>1. Failing \in SUBSET Nat
      OBVIOUS
    <3> QED
      BY <2>1, <3>1, NatHasMin
  <2>3. CASE k = 0
    BY <1>3, <2>2, <2>3 DEF Empty, Frames!Nothing
  <2>4. CASE k # 0
    <3>1. k \in 1..N /\ k - 1 \in 0..N /\ ~(k <= k - 1)
      BY <1>1, <2>2, <2>4
    <3>2. Frames!Rod \notin DOMAIN u[k - 1].merged
      BY <2>2, <3>1
    <3>3. u[k] = Frames!ReadHeader(u[k - 1], headers[k])
      BY <1>3, <3>1, Zenon
    <3>4. headers[k].cmd \in Commands
      BY <1>1, <3>1
    <3>5. Frames!Rod \notin DOMAIN u[k].merged
      BY <3>2, <3>3, <3>4, NoRod, Zenon
    <3> QED
      BY <2>2, <3>5
  <2> QED
    BY <2>3, <2>4
<1>5. N \notin Failing /\ N \in 0..N
  BY <1>1, <1>4
<1> QED
  BY <1>2, <1>5

\* A rod's own report clears the share of the store it is read against.
LEMMA RodClears ==
  ASSUME NEW h, h.cmd = "rod", h.form = "plain", NEW q, q = Frames!ReadHeader(Empty, h)
  PROVE  ClearsRod(q.merged, held)
<1>1. Frames!Decodes(h) /\ ~Frames!FirstCopyWins(h.cmd)
  BY DecodeFacts DEF Frames!FirstCopyWins, Frames!Lists
<1>2. q.merged = Frames!Merged(Frames!Read(Empty, h), Empty.merged)
  BY <1>1 DEF Frames!ReadHeader
<1>3. Empty.merged = Frames!Nothing
  BY DEF Empty
<1>4. PICK m : m = Frames!Read(Empty, h)
  OBVIOUS
<1>5. m = Frames!ReadRod(Frames!Nothing, h.body)
  BY <1>3, <1>4 DEF Frames!Read, Frames!Lists
<1>6. ClearsRod(m, held)
  <2>1. CASE h.body
    <3>1. m = Frames!One(Frames!Rod, "runs")
      BY <1>5, <2>1 DEF Frames!ReadRod
    <3> QED
      BY <3>1 DEF ClearsRod, Frames!One
  <2>2. CASE ~h.body
    <3>1. PICK cleared : cleared = {Frames!Share} \cap DOMAIN held
      OBVIOUS
    <3>2. Frames!Cleared(Frames!Nothing) = cleared
      BY <3>1 DEF Frames!Cleared, Frames!Nothing
    <3>3. m = Frames!Merged(Frames!One(Frames!Rod, "idle"), [key \in cleared |-> "zero"])
      BY <1>5, <2>2, <3>2 DEF Frames!ReadRod
    <3>4. /\ DOMAIN m = {Frames!Rod} \cup cleared
          /\ \A key \in cleared : key \notin {Frames!Rod} => m[key] = "zero"
      BY <3>3 DEF Frames!Merged, Frames!One
    <3> QED
      BY <3>1, <3>4 DEF ClearsRod, Frames!Rod, Frames!Share
  <2> QED
    BY <2>1, <2>2
<1>7. DOMAIN q.merged = DOMAIN m /\ \A key \in DOMAIN m : q.merged[key] = m[key]
  BY <1>2, <1>3, <1>4 DEF Frames!Merged, Frames!Nothing
<1> QED
  BY <1>6, <1>7 DEF ClearsRod

LEMMA RodPosted ==
  ASSUME Prompt, RodInv, NEW topic, NEW headers, Frames!Receive(topic, headers),
         NEW q, q = Frames!ReadFrame(headers), ClearsRod(q.merged, held)
  PROVE  RodInv'
<1>1. posted = <<>> /\ held' = held
  BY DEF Frames!Receive
<1>2. CASE posted' = posted
  <2>1. posted' = <<>> /\ Len(posted') = 0 /\ posted' \in Seq(RangeOf(posted'))
    BY <1>1, <1>2, EmptySeq
  <2> QED
    BY <2>1 DEF RodInv
<1>3. CASE posted' # posted
  <2>1. posted' = IF q.merged = Frames!Nothing THEN posted ELSE Append(posted, q.merged)
    BY <1>3, Zenon DEF Frames!Receive
  <2>2. PICK m, t : m = q.merged /\ t = posted'
    OBVIOUS
  <2>3. t = Append(posted, m)
    BY <1>3, <2>1, <2>2
  <2>4. OneMore(posted, m, t)
    <3>1. posted \in Seq(RangeOf(posted))
      BY DEF RodInv
    <3> QED
      BY <2>3, <3>1, AppendFacts, Zenon
  <2>5. t \in Seq(RangeOf(t)) /\ Len(t) = 1 /\ t[1] = m
    <3>1. Len(posted) = 0
      BY <1>1
    <3> QED
      BY <2>4, <3>1 DEF OneMore
  <2>6. \A i \in 1..Len(t) : ClearsRod(t[i], held)
    BY <2>2, <2>5
  <2> QED
    BY <1>1, <2>2, <2>5, <2>6 DEF RodInv
<1> QED
  BY <1>2, <1>3

LEMMA OtherPosted ==
  ASSUME Prompt, RodInv, NEW topic, NEW headers, Frames!Receive(topic, headers),
         Len(headers) \in Nat, \A i \in 1..Len(headers) : headers[i].cmd \in Commands
  PROVE  RodInv'
<1>1. PICK q : q = Frames!ReadFrame(headers)
  OBVIOUS
<1>2. Frames!Rod \notin DOMAIN q.merged
  BY <1>1, NoRodInFrame, Zenon
<1>3. ClearsRod(q.merged, held)
  BY <1>2 DEF ClearsRod
<1> QED
  BY <1>1, <1>3, RodPosted, Zenon

LEMMA OnePosted ==
  ASSUME Prompt, RodInv, NEW topic, NEW h, Frames!Receive(topic, <<h>>), h.cmd \in Commands
  PROVE  RodInv'
<1>1. PICK headers : headers = <<h>>
  OBVIOUS
<1>2. Len(headers) \in Nat /\ \A i \in 1..Len(headers) : headers[i].cmd \in Commands
  BY <1>1
<1>3. Frames!Receive(topic, headers)
  BY <1>1, Zenon
<1> QED
  BY <1>2, <1>3, OtherPosted, Zenon

LEMMA RodStep ==
  ASSUME Prompt, RodInv, Frames!FramesNext
  PROVE  RodInv'
<1>1. CASE Frames!GetAllReply
  <2>1. PICK l \in Frames!Lists, list \in SUBSET Tasks, older \in SUBSET Tasks, packs \in Frames!SetToSeqs(Packs) :
          \E first \in Frames!FormsOf(list) :
              Frames!Receive("reply", <<Frames!Header("live", "plain", "working"), Frames!Header(l, first, list),
                                        Frames!Header("packs", "plain", packs),
                                        Frames!Header("live", "plain", "cached"),
                                        Frames!Header(l, Frames!Plain(older), older)>>)
    BY <1>1, Zenon DEF Frames!GetAllReply
  <2>2. PICK first \in Frames!FormsOf(list) :
              Frames!Receive("reply", <<Frames!Header("live", "plain", "working"), Frames!Header(l, first, list),
                                        Frames!Header("packs", "plain", packs),
                                        Frames!Header("live", "plain", "cached"),
                                        Frames!Header(l, Frames!Plain(older), older)>>)
    BY <2>1
  <2>3. PICK headers : headers = <<Frames!Header("live", "plain", "working"), Frames!Header(l, first, list),
                                   Frames!Header("packs", "plain", packs),
                                   Frames!Header("live", "plain", "cached"),
                                   Frames!Header(l, Frames!Plain(older), older)>>
    OBVIOUS
  <2>4. Frames!Receive("reply", headers)
    BY <2>2, <2>3, Zenon
  <2>5. Len(headers) \in Nat /\ \A i \in 1..Len(headers) : headers[i].cmd \in Commands
    BY <2>3 DEF Commands, Frames!Header
  <2> QED
    BY <2>4, <2>5, OtherPosted, Zenon
<1>2. CASE Frames!PushList
  <2>1. PICK l \in Frames!Lists, list \in SUBSET Tasks : \E form \in Frames!FormsOf(list) :
            Frames!Receive("push", <<Frames!Header(l, form, list)>>)
    BY <1>2, Zenon DEF Frames!PushList
  <2>2. PICK form \in Frames!FormsOf(list) : Frames!Receive("push", <<Frames!Header(l, form, list)>>)
    BY <2>1
  <2>3. PICK h : h = Frames!Header(l, form, list)
    OBVIOUS
  <2>4. h.cmd \in Commands
    BY <2>3 DEF Frames!Header, Commands
  <2> QED
    BY <2>2, <2>3, <2>4, OnePosted, Zenon
<1>9. CASE Frames!AppWrites
  <2>1. PICK l \in Frames!Lists, list \in (SUBSET Tasks) \ {{}} :
            Frames!Receive("set", <<Frames!Header(l, Frames!Plain(list), list)>>)
    BY <1>9, Zenon DEF Frames!AppWrites
  <2>2. PICK h : h = Frames!Header(l, Frames!Plain(list), list)
    OBVIOUS
  <2>3. h.cmd \in Commands
    BY <2>2 DEF Frames!Header, Commands
  <2> QED
    BY <2>1, <2>2, <2>3, OnePosted, Zenon
<1>3. CASE Frames!PushPack
  <2>1. PICK pack \in Packs : Frames!Receive("push", <<Frames!Header("packs", "plain", <<pack>>)>>)
    BY <1>3, Zenon DEF Frames!PushPack
  <2>2. PICK h : h = Frames!Header("packs", "plain", <<pack>>)
    OBVIOUS
  <2>3. h.cmd \in Commands
    BY <2>2 DEF Frames!Header, Commands
  <2> QED
    BY <2>1, <2>2, <2>3, OnePosted, Zenon
<1>4. CASE Frames!PushInverters
  <2>1. PICK rows \in (SUBSET Inverters) \ {{}} : Frames!Receive("push", <<Frames!Header("inverters", "plain", rows)>>)
    BY <1>4, Zenon DEF Frames!PushInverters
  <2>2. PICK h : h = Frames!Header("inverters", "plain", rows)
    OBVIOUS
  <2>3. h.cmd \in Commands
    BY <2>2 DEF Frames!Header, Commands
  <2> QED
    BY <2>1, <2>2, <2>3, OnePosted, Zenon
<1>5. CASE Frames!PushShare
  <2>1. PICK share \in {"bare", "zero", "some"} : Frames!Receive("push", <<Frames!Header("share", "plain", share)>>)
    BY <1>5, Zenon DEF Frames!PushShare
  <2>2. PICK h : h = Frames!Header("share", "plain", share)
    OBVIOUS
  <2>3. h.cmd \in Commands
    BY <2>2 DEF Frames!Header, Commands
  <2> QED
    BY <2>1, <2>2, <2>3, OnePosted, Zenon
<1>6. CASE Frames!PushRod
  <2>1. PICK runs \in BOOLEAN : Frames!Receive("push", <<Frames!Header("rod", "plain", runs)>>)
    BY <1>6, Zenon DEF Frames!PushRod
  <2>2. PICK h : h = Frames!Header("rod", "plain", runs)
    OBVIOUS
  <2>3. h.cmd = "rod" /\ h.form = "plain"
    BY <2>2 DEF Frames!Header
  <2>4. PICK headers, q : headers = <<h>> /\ q = Frames!ReadFrame(headers)
    OBVIOUS
  <2>5. Frames!Receive("push", headers)
    BY <2>1, <2>2, <2>4, Zenon
  <2>6. q = Frames!ReadHeader(Empty, h)
    <3>1. Len(headers) = 1 /\ 1 \in Nat /\ headers[1] = h
      BY <2>4
    <3>2. \E u : Steps(u, headers, Len(headers)) /\ Frames!ReadFrame(headers) = u[Len(headers)]
      BY <3>1, FrameSteps, Zenon
    <3>3. PICK u : Steps(u, headers, 1) /\ q = u[1]
      BY <2>4, <3>1, <3>2, Zenon
    <3>4. 1 \in 1..1 /\ 1 - 1 = 0
      OBVIOUS
    <3>5. u[0] = Empty /\ u[1] = Frames!ReadHeader(u[1 - 1], headers[1])
      BY <3>3, <3>4, Zenon DEF Steps
    <3> QED
      BY <3>1, <3>3, <3>4, <3>5, Zenon
  <2>7. ClearsRod(q.merged, held)
    BY <2>3, <2>6, RodClears, Zenon
  <2> QED
    BY <2>4, <2>5, <2>7, RodPosted, Zenon
<1>7. CASE Frames!Apply
  <2>1. posted # <<>> /\ posted \in Seq(RangeOf(posted)) /\ posted' = Tail(posted) /\ Len(posted) <= 1
    BY <1>7 DEF Frames!Apply, RodInv
  <2>2. PICK t : t = posted'
    OBVIOUS
  <2>3. t \in Seq(RangeOf(t)) /\ Len(t) = 0
    <3>1. PICK s : s = posted
      OBVIOUS
    <3>2. t \in Seq(RangeOf(t)) /\ Len(t) \in Nat /\ Len(s) = Len(t) + 1
      BY <2>1, <2>2, <3>1, TailFacts
    <3> QED
      BY <2>1, <3>1, <3>2
  <2> QED
    BY <2>2, <2>3 DEF RodInv
<1>8. CASE Frames!Restart
  <2>1. posted' = <<>> /\ Len(posted') = 0 /\ posted' \in Seq(RangeOf(posted'))
    BY <1>8, EmptySeq DEF Frames!Restart
  <2> QED
    BY <2>1 DEF RodInv
<1> QED
  BY <1>1, <1>2, <1>3, <1>4, <1>5, <1>6, <1>7, <1>8, <1>9 DEF Frames!FramesNext

\* What the property says of one application.
RodWritten ==
    (Frames!Apply /\ Frames!Rod \in DOMAIN Head(posted) /\ held'[Frames!Rod] = "idle")
        => (Frames!Share \in DOMAIN held' => held'[Frames!Share] = "zero")

LEMMA RodGives ==
  ASSUME RodInv
  PROVE  RodWritten
<1>1. SUFFICES ASSUME Frames!Apply, Frames!Rod \in DOMAIN Head(posted), held'[Frames!Rod] = "idle",
                      Frames!Share \in DOMAIN held'
               PROVE  held'[Frames!Share] = "zero"
  BY DEF RodWritten
<1>2. posted # <<>> /\ posted \in Seq(RangeOf(posted)) /\ held' = Frames!Merged(Head(posted), held)
  BY <1>1 DEF Frames!Apply, RodInv
<1>3. PICK m, next : m = Head(posted) /\ next = held'
  OBVIOUS
<1>4. m = posted[1] /\ 1 \in 1..Len(posted)
  BY <1>2, <1>3, TailFacts
<1>5. ClearsRod(m, held)
  BY <1>4 DEF RodInv
<1>6. /\ DOMAIN next = DOMAIN m \cup DOMAIN held
      /\ \A x \in DOMAIN next : next[x] = IF x \in DOMAIN m THEN m[x] ELSE held[x]
  BY <1>2, <1>3 DEF Frames!Merged
<1> QED
  BY <1>1, <1>3, <1>5, <1>6 DEF ClearsRod

LEMMA RodInitial ==
  ASSUME Frames!FramesInit
  PROVE  RodInv
<1>1. posted = <<>> /\ Len(posted) = 0 /\ posted \in Seq(RangeOf(posted))
  BY EmptySeq DEF Frames!FramesInit
<1> QED
  BY <1>1 DEF RodInv

LEMMA RodSame ==
  ASSUME RodInv, UNCHANGED <<posted, held>>
  PROVE  RodInv' /\ RodWritten
<1>1. RodInv'
  BY DEF RodInv
<1>2. RodWritten
  BY RodGives
<1> QED
  BY <1>1, <1>2

-----------------------------------------------------------------------------
(* The composition.  A step of one part leaves the variables of the others.    *)

ValuesInv == EnergyInv /\ ChargeInv /\ BatteryInv /\ UnitsInv

\* A step is one of a part, or leaves the part alone.
LEMMA StepParts ==
  ASSUME [ValuesNext]_valueVars
  PROVE  /\ [Next]_vars
         /\ Derived!StreamNext \/ UNCHANGED streamVars
         /\ Derived!BatteryNext \/ UNCHANGED batteryVars
         /\ Linked!UnitsNext \/ UNCHANGED unitVars
         /\ Frames!FramesNext \/ UNCHANGED bundleVars
         /\ Reports!ReadingsNext \/ UNCHANGED reportVars
<1>1. CASE CounterStep
  BY <1>1 DEF CounterStep
<1>2. CASE ChargeStep
  <2>1. UNCHANGED batteryVars
    BY <1>2 DEF ChargeStep, Derived!StreamNext, Derived!ChargeMoves, Derived!StreamFrame,
                Derived!batteryVars, batteryVars
  <2> QED
    BY <1>2, <2>1 DEF ChargeStep
<1>3. CASE BatteryStep
  <2>1. UNCHANGED streamVars
    BY <1>3 DEF BatteryStep, Derived!BatteryNext, Derived!TimePasses, Derived!PowerFrame,
                Derived!streamVars, streamVars
  <2> QED
    BY <1>3, <2>1 DEF BatteryStep
<1>4. CASE UnitsStep
  BY <1>4 DEF UnitsStep
<1>5. CASE FramesStep \/ UNCHANGED valueVars
  BY <1>5 DEF FramesStep, valueVars
<1>6. CASE ReadingsStep
  BY <1>6 DEF ReadingsStep
<1> QED
  BY <1>1, <1>2, <1>3, <1>4, <1>5, <1>6 DEF ValuesNext

\* Every step keeps the invariants of all parts.
LEMMA ValuesStepHolds == ASSUME ValuesInv, [ValuesNext]_valueVars PROVE ValuesInv'
<1>1. EnergyInv'
  BY StepParts, EnergyStepHolds DEF ValuesInv
<1>2. ChargeInv'
  <2>1. CASE UNCHANGED streamVars
    BY <2>1 DEF ValuesInv, ChargeInv, streamVars
  <2> QED
    BY <2>1, StepParts, ChargeStepHolds DEF ValuesInv
<1>3. BatteryInv'
  <2>1. CASE UNCHANGED batteryVars
    BY <2>1 DEF ValuesInv, BatteryInv, batteryVars
  <2> QED
    BY <2>1, StepParts, BatteryStepHolds DEF ValuesInv
<1>4. UnitsInv'
  <2>1. CASE UNCHANGED unitVars
    BY <2>1 DEF ValuesInv, UnitsInv, Linked!HandedNeverOlder, unitVars
  <2> QED
    BY <2>1, StepParts, UnitsStepHolds DEF ValuesInv
<1> QED
  BY <1>1, <1>2, <1>3, <1>4 DEF ValuesInv

\* The invariants of all parts hold in every behaviour.
LEMMA ValuesHold == ValuesSpec => []ValuesInv
<1>1. ValuesInit => ValuesInv
  BY EnergyInitHolds, ChargeInitHolds, BatteryInitHolds, UnitsInitHolds DEF ValuesInit, ValuesInv
<1> QED
  BY <1>1, ValuesStepHolds, PTL DEF ValuesSpec

\* The total is never below what Home Assistant restored, unless two readings lowered it:
\* whatever the file lost, held or was half written (seed_energy_total).
THEOREM RestoredIsCovered == ValuesSpec => []CoversRestored
<1>1. ValuesInv => CoversRestored
  BY DEF ValuesInv, EnergyInv
<1> QED
  BY <1>1, ValuesHold, PTL

\* One reading moves a counter only if it is plausible, two that agree settle it, and
\* what is shown falls only for those: never for a restart, a lost file or a glitch (set_total).
THEOREM CountersConfirmed == ValuesSpec => ReadingsConfirmed
<1>1. EnergyInv /\ [ValuesNext]_valueVars =>
        [\A t \in Readings : (Known /\ SetTotal(t) /\ ~Near(mem'.kwh, mem.kwh))
             => mem'.kwh = t /\ prev # Absent /\ Near(t, prev)]_vars
  <2> SUFFICES ASSUME EnergyInv, NEW t \in Readings, Known, SetTotal(t), ~Near(mem'.kwh, mem.kwh)
               PROVE  mem'.kwh = t /\ prev # Absent /\ Near(t, prev)
    OBVIOUS
  <2> QED
    BY SetTotalFacts
<1>2. EnergyInv /\ [ValuesNext]_valueVars =>
        [\A t \in Readings : (t <= MaxTotal /\ prev = t /\ undisturbed /\ Frame(Absent, t, "normal") /\ FromApi)
             => Near(t, mem'.kwh)]_vars
  <2> SUFFICES ASSUME EnergyInv, NEW t \in Readings, t <= MaxTotal, prev = t, undisturbed,
                      Frame(Absent, t, "normal"), FromApi
               PROVE  Near(t, mem'.kwh)
    OBVIOUS
  <2>1. SetTotal(t)
    BY EnergyAssumption DEF Frame, Absent
  <2> QED
    BY <2>1, SetTotalFacts
<1>3. EnergyInv /\ [ValuesNext]_valueVars =>
        [(phase = "live" /\ shown # Absent /\ shown' # shown)
             => shown' > shown \/ (lowered' /\ prev # Absent /\ Near(prev', prev) /\ shown' = prev')]_vars
  BY StepParts, EnergyStepHolds
<1>4. ValuesInv => EnergyInv
  BY DEF ValuesInv
<1> QED
  BY <1>1, <1>2, <1>3, <1>4, ValuesHold, PTL
  DEF ValuesSpec, ReadingsConfirmed, OneReadingNeverMoves, TwoReadingsSettle, FallsOnlyConfirmed

\* Once a system figure has come, the unit's own never pulls the sensor back to it, and
\* a unit that works out none shows its own charge (_resolve_soc).
THEOREM ChargeIsHonest == ValuesSpec => []ChargeHonest
<1>1. ValuesInv => ChargeHonest
  BY DEF ValuesInv, ChargeInv, ChargeHonest, Derived!ChargeHonest
<1> QED
  BY <1>1, ValuesHold, PTL

\* The battery state changes only to one whose band was the only one the average was in
\* for the whole confirmation time (_derive_battery_state).
THEOREM ChangesAreConfirmed == ValuesSpec => ChangeConfirmed
<1>1. ValuesInv /\ [ValuesNext]_valueVars =>
        [state # Derived!None /\ state' # state =>
             \A s \in Derived!States \ {state'} : unseen[s] >= Confirm]_(Derived!derivedVars)
  <2> SUFFICES ASSUME ValuesInv, [ValuesNext]_valueVars, state # Derived!None, state' # state
               PROVE  \A s \in Derived!States \ {state'} : unseen[s] >= Confirm
    OBVIOUS
  <2>1. Derived!BatteryNext
    BY StepParts DEF batteryVars
  <2> QED
    BY <2>1, BatteryStepHolds DEF ValuesInv
<1> QED
  BY <1>1, ValuesHold, PTL DEF ValuesSpec, ChangeConfirmed, Derived!ChangeConfirmed

\* What another unit's connection hands over never replaces a newer value from the
\* unit's own, however many units report one another (_resolve_unit_power).
THEOREM HandedIsNewer == ValuesSpec => []HandedNeverOlder
<1>1. ValuesInv => HandedNeverOlder
  BY DEF ValuesInv, UnitsInv, HandedNeverOlder
<1> QED
  BY <1>1, ValuesHold, PTL

\* Where a push lists every unit, no unit's power is shown with the wrong sign: it is what
\* the unit did when the push was made, whichever connection brought it and however many
\* units share one (_sign_unit_entries).
THEOREM PowersAreSigned == ASSUME WholeLists PROVE ValuesSpec => []SignRight
<1>1. ValuesInit => SignInv
  BY SignInitHolds DEF ValuesInit
<1>2. ASSUME ValuesInv, SignInv, [ValuesNext]_valueVars PROVE SignInv'
  <2>1. CASE Linked!UnitsNext
    BY <1>2, <2>1, SignStepHolds DEF ValuesInv, UnitsInv
  <2>2. CASE UNCHANGED unitVars
    BY <1>2, <2>2 DEF SignInv, Linked!SignRight, unitVars
  <2> QED
    BY <1>2, <2>1, <2>2, StepParts
<1>3. SignInv => SignRight
  BY DEF SignInv, SignRight
<1> QED
  BY <1>1, <1>2, <1>3, ValuesHold, PTL DEF ValuesSpec

\* Where a panel sends both flags of a channel and a DELTA 3 both times with the direction,
\* no reading of a device with nothing left to say is a stale one, whatever its frames held
\* and left out; and the halves of a signed power agree at any time (_apply_data).
THEOREM ReadingsAreTheDevices ==
  ASSUME FlagsTogether, TimesWithState
  PROVE  ValuesSpec => []ReadingsRight
<1>1. ValuesInit => ReadingsInv
  BY ReadingsInitHolds DEF ValuesInit
<1>2. ASSUME ReadingsInv, [ValuesNext]_valueVars PROVE ReadingsInv'
  <2>1. CASE Reports!ReadingsNext
    BY <1>2, <2>1, ReadingsStepHolds
  <2>2. CASE UNCHANGED reportVars
    BY <1>2, <2>2 DEF ReadingsInv, PlugInv, Wave3Inv, PanelInv, Delta3Inv, Ocean2Inv, StreamInv,
         Reports!HalvesAgree, Reports!Shows, Reports!Silent, reportVars
  <2> QED
    BY <1>2, <2>1, <2>2, StepParts
<1>3. ReadingsInv => ReadingsRight
  BY ReadingsAreRight DEF ReadingsRight
<1> QED
  BY <1>1, <1>2, <1>3, PTL DEF ValuesSpec

\* Where the first copy of a list can be read and a pair has no more inverters than slots,
\* what is shown of the schedules and of the work is what the device said last, however frames
\* and the event loop take turns, and no pack's or inverter's entity ever shows another one
\* (powerocean_proto.py).
THEOREM FramesAreReadRight ==
  ASSUME FirstReadable, Cardinality(Inverters) <= InverterSlots
  PROVE  ValuesSpec => []FramesReadRight
<1>1. ValuesInit => BundleInv
  BY BundleInitial DEF ValuesInit
<1>2. ASSUME BundleInv, [ValuesNext]_valueVars PROVE BundleInv'
  <2>1. CASE Frames!FramesNext
    BY <1>2, <2>1, BundleStep
  <2>2. CASE UNCHANGED bundleVars
    BY <1>2, <2>2, BundleSame DEF bundleVars
  <2> QED
    BY <2>1, <2>2, <1>2, StepParts
<1>3. BundleInv => FramesReadRight
  BY BundleGives
<1> QED
  BY <1>1, <1>2, <1>3, PTL DEF ValuesSpec

\* Where the event loop applies a message before the next frame is parsed, a rod that reports
\* 0 W leaves no source with a share (_parse_rod's readings, read against the store).
THEOREM RodsGoIdle == ASSUME Prompt PROVE ValuesSpec => RodIdle
<1>1. ValuesInit => RodInv
  BY RodInitial DEF ValuesInit
<1>2. ASSUME RodInv, [ValuesNext]_valueVars PROVE RodInv'
  <2>1. CASE Frames!FramesNext
    BY <1>2, <2>1, RodStep
  <2>2. CASE UNCHANGED bundleVars
    BY <1>2, <2>2, RodSame DEF bundleVars
  <2> QED
    BY <2>1, <2>2, <1>2, StepParts
<1>3. RodInv => [(Frames!Apply /\ Frames!Rod \in DOMAIN Head(posted) /\ held'[Frames!Rod] = "idle")
                    => (Frames!Share \in DOMAIN held' => held'[Frames!Share] = "zero")]_(Frames!frameVars)
  BY RodGives DEF RodWritten
<1> QED
  BY <1>1, <1>2, <1>3, PTL DEF ValuesSpec, RodIdle, Frames!RodIdle
=============================================================================
