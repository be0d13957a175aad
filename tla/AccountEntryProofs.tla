-------------------------- MODULE AccountEntryProofs --------------------------
(* Proofs about the config entries (AccountEntry): whose every cloud           *)
(* connection is, that the charging history keeps its orders and asks the      *)
(* cloud no more often than it may, and that the dialogs keep the entries      *)
(* whole.  The parts share no state, so each has an inductive invariant of its *)
(* own; the last section puts them together.                                   *)
EXTENDS AccountEntry, FiniteSetTheorems, TLAPS

-----------------------------------------------------------------------------
(* The life of an entry (EntryLifecycle).  The invariant follows each probe   *)
(* from the setup that makes it to the unload that tells it to stop.           *)

EntryStates == {"idle", "coordinators", "probes", "platforms", "loaded", "unloading", "failed"}

\* Whose the probes are: nobody's before a setup makes them, the setup's while they
\* start, then the entry's, and those of an unload that has told them to stop.
ProbesInv ==
    /\ entry \in EntryStates
    /\ attempt \in [Probes -> {"none", "checked", "tried"}]
    /\ mine \subseteq Probes /\ up \subseteq Probes
    /\ mine \cap unused = {} /\ stopped \cap unused = {}
    /\ entry \in {"idle", "coordinators"} => mine = {}
    /\ held = IF entry \in {"platforms", "loaded", "failed"} THEN mine ELSE {}
    /\ entry = "unloading" => mine \subseteq stopped

\* A probe that may still connect is one of the setup, or was told to stop.
SessionsInv ==
    /\ \A p \in Probes : attempt[p] # "none" => p \in stopped \/ p \in mine
    /\ \A p \in up : Settling(p) \/ (p \in mine /\ p \notin stopped)

LiveInv ==
    /\ entry = "idle" => live = {}
    /\ entry \in {"probes", "platforms", "loaded", "failed"} => stored

\* A stop that finds the entry at rest leaves nothing that works on.
StopInv ==
    ~StopInSetup /\ ~running =>
        /\ ~InSetup
        /\ entry \in {"loaded", "failed"} => live = {} /\ mine \subseteq stopped

LifeInv == ProbesInv /\ SessionsInv /\ LiveInv /\ StopInv

\* At rest there is no probe and no connection.
LEMMA LifeInitHolds == EntryInit => LifeInv
<1> SUFFICES ASSUME EntryInit PROVE LifeInv
  OBVIOUS
<1> USE DEF EntryInit, InSetup, Settling, EntryStates
<1>1. ProbesInv
  BY DEF ProbesInv
<1>2. SessionsInv
  BY DEF SessionsInv
<1>3. LiveInv /\ StopInv
  BY DEF LiveInv, StopInv
<1> QED
  BY <1>1, <1>2, <1>3 DEF LifeInv

\* The steps of one probe, which leave everything but its session alone.
LEMMA ProbeSteps ==
  ASSUME LifeInv, NEW p \in Probes,
         StopEnds(p) \/ WatchdogTicks(p) \/ ReconnectTries(p) \/ ReconnectEnds(p) \/ SessionDrops(p)
  PROVE  LifeInv'
<1> USE DEF LifeInv
<1>1. UNCHANGED <<running, entry, live, stored, unused, mine, held, stopped>>
  BY DEF StopEnds, WatchdogTicks, ReconnectTries, ReconnectEnds, SessionDrops, haVars, ownerVars, madeVars
<1>2. LiveInv' /\ StopInv'
  BY <1>1 DEF LiveInv, StopInv, InSetup
<1>3. CASE StopEnds(p)
  <2>1. stopping' = stopping \ {p} /\ up' = up \ {p} /\ attempt' = attempt
    BY <1>3 DEF StopEnds
  <2> QED
    BY <1>1, <1>2, <2>1 DEF ProbesInv, SessionsInv, Settling
<1>4. CASE WatchdogTicks(p)
  <2>1. p \in mine /\ attempt' = [attempt EXCEPT ![p] = "checked"] /\ up' = up /\ stopping' = stopping
    BY <1>4 DEF WatchdogTicks
  <2> QED
    BY <1>1, <1>2, <2>1 DEF ProbesInv, SessionsInv, Settling
<1>5. CASE ReconnectTries(p)
  <2>1. /\ attempt[p] # "none" /\ attempt' = [attempt EXCEPT ![p] = "tried"]
        /\ up' \subseteq up \cup {p} /\ stopping' = stopping
    BY <1>5 DEF ReconnectTries
  <2> QED
    BY <1>1, <1>2, <2>1 DEF ProbesInv, SessionsInv, Settling
<1>6. CASE ReconnectEnds(p)
  <2>1. /\ attempt[p] # "none" /\ attempt' = [attempt EXCEPT ![p] = "none"]
        /\ up' = IF p \in stopped THEN up \ {p} ELSE up
        /\ stopping' = stopping
    BY <1>6 DEF ReconnectEnds, TakeDown
  <2> QED
    BY <1>1, <1>2, <2>1 DEF ProbesInv, SessionsInv, Settling
<1>7. CASE SessionDrops(p)
  <2>1. up' = up \ {p} /\ attempt' = attempt /\ stopping' = stopping
    BY <1>7 DEF SessionDrops
  <2> QED
    BY <1>1, <1>2, <2>1 DEF ProbesInv, SessionsInv, Settling
<1> QED
  BY <1>3, <1>4, <1>5, <1>6, <1>7

\* A probe that starts is one of the setup that made it.
LEMMA StartStep ==
  ASSUME LifeInv, NEW p \in Probes, ProbeStarts(p)
  PROVE  LifeInv'
<1> USE DEF LifeInv
<1>1. /\ entry = "probes" /\ p \in unused /\ unused' = unused \ {p} /\ mine' = mine \cup {p}
      /\ up' \subseteq up \cup {p}
      /\ UNCHANGED <<running, entry, live, stored, held, stopped, attempt, stopping>>
  BY DEF ProbeStarts, haVars, ownerVars
<1>2. p \notin stopped
  BY <1>1 DEF ProbesInv
<1>3. ProbesInv'
  BY <1>1, <1>2 DEF ProbesInv
<1>4. SessionsInv'
  BY <1>1, <1>2 DEF ProbesInv, SessionsInv, Settling
<1>5. LiveInv' /\ StopInv'
  BY <1>1 DEF LiveInv, StopInv, InSetup
<1> QED
  BY <1>3, <1>4, <1>5

\* A setup that failed, and the end of an unload: every probe that is left is one
\* that was told to stop.
LEMMA CallbackSteps ==
  ASSUME LifeInv, SetupFails \/ UnloadEnds
  PROVE  LifeInv'
<1> USE DEF LifeInv
<1>1. /\ entry' = "idle" /\ mine' = {} /\ held' = {} /\ live' = {} /\ running' = running
      /\ stopped' = stopped \cup held /\ stopping' = stopping \cup held
      /\ UNCHANGED <<up, attempt, unused>>
      /\ entry \in {"coordinators", "platforms", "unloading"}
  BY DEF SetupFails, UnloadEnds, RunCallbacks, StopOrphans, Stop
<1>2. mine \subseteq stopped' /\ held \subseteq mine
  BY <1>1 DEF ProbesInv
<1>3. ProbesInv'
  BY <1>1, <1>2 DEF ProbesInv, EntryStates
<1>4. \A p \in mine : p \in stopped \/ p \in held
  BY <1>1, <1>2
<1>5. SessionsInv'
  BY <1>1, <1>2, <1>4 DEF ProbesInv, SessionsInv, Settling
<1>6. LiveInv' /\ StopInv'
  BY <1>1 DEF LiveInv, StopInv, InSetup
<1> QED
  BY <1>3, <1>5, <1>6

\* A setup that goes on, or gives up, hands what it made to the entry or takes it down.
LEMMA SetupSteps ==
  ASSUME LifeInv,
         SetupStarts \/ CoordinatorsStored \/ ProbesStarted \/ PlatformsUp \/ \E c \in Coordinators : CoordinatorUp(c)
  PROVE  LifeInv'
<1> USE DEF LifeInv
<1>1. UNCHANGED <<running, unused, mine, up, stopped, attempt, stopping>>
  BY DEF SetupStarts, CoordinatorsStored, ProbesStarted, PlatformsUp, CoordinatorUp, haVars, madeVars, sessionVars
<1>2. CASE SetupStarts
  <2>1. entry = "idle" /\ running /\ entry' = "coordinators" /\ held' = held /\ live' = live
    BY <1>2 DEF SetupStarts, madeVars, ownerVars
  <2> QED
    BY <1>1, <2>1 DEF ProbesInv, SessionsInv, Settling, LiveInv, StopInv, InSetup, EntryStates
<1>3. CASE CoordinatorsStored
  <2>1. entry = "coordinators" /\ entry' \in {"probes", "platforms"} /\ held' = held /\ stored'
    BY <1>3 DEF CoordinatorsStored, madeVars
  <2> QED
    BY <1>1, <2>1 DEF ProbesInv, SessionsInv, Settling, LiveInv, StopInv, InSetup, EntryStates
<1>4. CASE ProbesStarted
  <2>1. entry = "probes" /\ entry' = "platforms" /\ held' = mine /\ stored' = stored
    BY <1>4 DEF ProbesStarted, ownerVars
  <2> QED
    BY <1>1, <2>1 DEF ProbesInv, SessionsInv, Settling, LiveInv, StopInv, InSetup, EntryStates
<1>5. CASE PlatformsUp
  <2>1. /\ entry = "platforms" /\ entry' = "loaded" /\ held' = held /\ stored' = stored
    BY <1>5 DEF PlatformsUp, madeVars, ownerVars
  <2> QED
    BY <1>1, <2>1 DEF ProbesInv, SessionsInv, Settling, LiveInv, StopInv, InSetup, EntryStates
<1>6. CASE \E c \in Coordinators : CoordinatorUp(c)
  <2>1. entry = "coordinators" /\ entry' = entry /\ held' = held /\ stored' = stored
    BY <1>6 DEF CoordinatorUp, haVars, madeVars
  <2> QED
    BY <1>1, <2>1 DEF ProbesInv, SessionsInv, Settling, LiveInv, StopInv, InSetup, EntryStates
<1> QED
  BY <1>2, <1>3, <1>4, <1>5, <1>6

\* The capture and its options touch no connection.
LEMMA CaptureSteps ==
  ASSUME LifeInv, WindowCloses \/ TimerFires \/ (\E on \in BOOLEAN : OptionsSet(on)) \/ UNCHANGED entryVars
  PROVE  LifeInv'
<1>1. /\ UNCHANGED <<running, entry, live, stored, unused, mine, held>>
      /\ UNCHANGED <<up, stopped, attempt, stopping>>
  BY DEF WindowCloses, TimerFires, OptionsSet, entryVars, haVars, ownerVars, madeVars, sessionVars
<1> QED
  BY <1>1 DEF LifeInv, ProbesInv, SessionsInv, Settling, LiveInv, StopInv, InSetup

\* An unload tells the probes of the entry to stop before it ends.
LEMMA UnloadStep ==
  ASSUME LifeInv, UnloadStarts
  PROVE  LifeInv'
<1> USE DEF LifeInv
<1>1. /\ entry = "loaded" /\ running /\ running' = running
      /\ UNCHANGED <<live, unused, mine, up, attempt>>
  BY DEF UnloadStarts
<1>2. CASE entry' = "unloading" /\ Stop(held) /\ held' = {} /\ stored' = FALSE
  <2>1. stopped' = stopped \cup mine /\ stopping' = stopping \cup mine
    BY <1>1, <1>2 DEF Stop, ProbesInv
  <2> QED
    BY <1>1, <1>2, <2>1 DEF ProbesInv, SessionsInv, Settling, LiveInv, StopInv, InSetup, EntryStates
<1>3. CASE entry' = "failed" /\ UNCHANGED <<held, stored, stopped, stopping>>
  BY <1>1, <1>3 DEF ProbesInv, SessionsInv, Settling, LiveInv, StopInv, InSetup, EntryStates
<1> QED
  BY <1>2, <1>3 DEF UnloadStarts

\* A stop of Home Assistant takes down what the entry holds by then.
LEMMA StopStep ==
  ASSUME LifeInv, HomeAssistantStops
  PROVE  LifeInv'
<1> USE DEF LifeInv
<1>1. /\ InSetup => StopInSetup
      /\ UNCHANGED <<entry, stored, unused, mine, held, up, attempt>>
      /\ IF stored THEN live' = {} /\ Stop(held) ELSE UNCHANGED <<live, stopped, stopping>>
  BY DEF HomeAssistantStops, madeVars
<1>2. CASE stored
  <2>1. live' = {} /\ stopped' = stopped \cup held /\ stopping' = stopping \cup held
    BY <1>1, <1>2 DEF Stop
  <2>2. held \subseteq mine
    BY DEF ProbesInv
  <2> QED
    BY <1>1, <2>1, <2>2 DEF ProbesInv, SessionsInv, Settling, LiveInv, StopInv, InSetup
<1>3. CASE ~stored
  BY <1>1, <1>3 DEF ProbesInv, SessionsInv, Settling, LiveInv, StopInv, InSetup
<1> QED
  BY <1>2, <1>3

\* No step of the entry breaks the invariant.
LEMMA LifeStepHolds ==
  ASSUME LifeInv, [EntryNext]_entryVars
  PROVE  LifeInv'
  BY ProbeSteps, StartStep, CallbackSteps, SetupSteps, CaptureSteps, UnloadStep, StopStep DEF EntryNext

\* The invariant of the life of an entry, with every interleaving of its callbacks.
THEOREM LifeInvariant == EntrySpec => []LifeInv
<1>1. LifeInv /\ [EntryNext]_entryVars => LifeInv'
  BY LifeStepHolds
<1> QED
  BY <1>1, LifeInitHolds, PTL DEF EntrySpec

\* No connection outlives its owner, where Home Assistant does not stop during a setup:
\* a client or a probe's session is up only for a setup or an entry that is loaded, or
\* until the stop that is under way has reached it.
THEOREM EveryConnectionOwned == ASSUME ~StopInSetup PROVE EntrySpec => []NothingUnowned
<1>1. LifeInv => NothingUnowned
  <2> SUFFICES ASSUME LifeInv PROVE NothingUnowned
    OBVIOUS
  <2>1. \A p \in up : Settling(p) \/ (p \in mine /\ p \notin stopped /\ entry # "idle")
    BY DEF LifeInv, ProbesInv, SessionsInv
  <2>2. live # {} => entry # "idle"
    BY DEF LifeInv, LiveInv
  <2>3. ASSUME ~running, entry \in {"idle", "loaded", "failed"}
        PROVE  live = {} /\ \A p \in up : Settling(p)
    <3>1. live = {}
      BY <2>3 DEF LifeInv, LiveInv, StopInv
    <3>2. entry = "idle" \/ mine \subseteq stopped
      BY <2>3 DEF LifeInv, StopInv
    <3> QED
      BY <2>1, <3>1, <3>2
  <2> QED
    BY <2>1, <2>2, <2>3 DEF NothingUnowned
<1> QED
  BY <1>1, LifeInvariant, PTL

\* The same of every stop, also one during a setup, but for what was set up after it.
THEOREM EveryConnectionHasAnEntry ==
  EntrySpec => [](/\ \A p \in up : Settling(p) \/ (p \in mine /\ p \notin stopped /\ entry # "idle")
                  /\ live # {} => entry # "idle")
<1>1. LifeInv => /\ \A p \in up : Settling(p) \/ (p \in mine /\ p \notin stopped /\ entry # "idle")
                 /\ live # {} => entry # "idle"
  BY DEF LifeInv, ProbesInv, SessionsInv, LiveInv
<1> QED
  BY <1>1, LifeInvariant, PTL

-----------------------------------------------------------------------------
\* Until the entry is loaded the window of a capture is open, and then its timer is
\* armed; once loaded, the timer's end is heard by the listener.
CaptureInv ==
    /\ entry \in {"coordinators", "probes"} /\ captureOn => open
    /\ entry = "platforms" /\ captureOn => open /\ timer
    /\ entry = "loaded" => listening
    /\ entry = "loaded" /\ captureOn => timer \/ changed

\* No step leaves a capture on whose window is over, if the setup ends before it.
LEMMA CaptureStepHolds ==
  ASSUME ~SlowSetup, CaptureInv, [EntryNext]_entryVars
  PROVE  CaptureInv'
<1> USE DEF CaptureInv, InSetup
<1>1. CASE SetupStarts
  <2>1. entry' = "coordinators" /\ (captureOn' => open) /\ open' = open
    BY <1>1 DEF SetupStarts
  <2> QED
    BY <2>1
<1>2. CASE CoordinatorsStored
  BY <1>2 DEF CoordinatorsStored, captureVars
<1>3. CASE ProbesStarted
  <2>1. entry = "probes" /\ entry' = "platforms" /\ (open => timer') /\ UNCHANGED <<open, captureOn>>
    BY <1>3 DEF ProbesStarted, ExpiryArmed
  <2> QED
    BY <2>1
<1>4. CASE PlatformsUp
  BY <1>4 DEF PlatformsUp, captureVars
<1>5. CASE SetupFails \/ UnloadEnds
  <2>1. entry' = "idle"
    BY <1>5 DEF SetupFails, UnloadEnds
  <2> QED
    BY <2>1
<1>6. CASE WindowCloses
  <2>1. ~InSetup /\ UNCHANGED <<entry, listening, changed, captureOn, timer>>
    BY <1>6 DEF WindowCloses, haVars
  <2> QED
    BY <2>1
<1>7. CASE TimerFires
  <2>1. ~open /\ (changed \/ listening => changed') /\ UNCHANGED <<entry, listening, captureOn, open>>
    BY <1>7 DEF TimerFires, DataChanges
  <2> QED
    BY <2>1
<1>8. ASSUME NEW on \in BOOLEAN, OptionsSet(on) PROVE CaptureInv'
  <2>1. entry \in {"loaded", "idle"} /\ (changed => changed') /\ UNCHANGED <<entry, listening, captureOn, timer>>
    BY <1>8 DEF OptionsSet, DataChanges
  <2> QED
    BY <2>1
<1>9. CASE UnloadStarts
  <2>1. entry' \in {"unloading", "failed"}
    BY <1>9 DEF UnloadStarts
  <2> QED
    BY <2>1
<1>10. CASE HomeAssistantStops
  BY <1>10 DEF HomeAssistantStops, captureVars
<1>11. ASSUME NEW c \in Coordinators, CoordinatorUp(c) PROVE CaptureInv'
  BY <1>11 DEF CoordinatorUp, captureVars, haVars
<1>12. ASSUME NEW p \in Probes,
              \/ ProbeStarts(p) \/ StopEnds(p) \/ WatchdogTicks(p)
              \/ ReconnectTries(p) \/ ReconnectEnds(p) \/ SessionDrops(p)
       PROVE  CaptureInv'
  BY <1>12 DEF ProbeStarts, StopEnds, WatchdogTicks, ReconnectTries, ReconnectEnds, SessionDrops,
               captureVars, haVars
<1>13. CASE UNCHANGED entryVars
  BY <1>13 DEF entryVars, captureVars, haVars
<1> QED
  BY <1>1, <1>2, <1>3, <1>4, <1>5, <1>6, <1>7, <1>8, <1>9, <1>10, <1>11, <1>12, <1>13 DEF EntryNext

\* A capture in a loaded entry has something that ends it, where its window does not close
\* during the setup.
THEOREM CaptureEnds == ASSUME ~SlowSetup PROVE EntrySpec => []CaptureHasAnEnd
<1>1. EntryInit => CaptureInv
  BY DEF EntryInit, CaptureInv
<1>2. CaptureInv /\ [EntryNext]_entryVars => CaptureInv'
  BY CaptureStepHolds
<1>3. CaptureInv => CaptureHasAnEnd
  BY DEF CaptureInv, CaptureHasAnEnd
<1> QED
  BY <1>1, <1>2, <1>3, PTL DEF EntrySpec

-----------------------------------------------------------------------------
(* Charging history: what is stored and what is shown (ChargingHistory).  The  *)
(* invariant says that both are ledgers, which of the two is ahead when, and   *)
(* that neither misses an order that was published.                            *)

\* A charger that was never read has the empty ledger.
LEMMA NoOrdersIsLedger == ASSUME NEW c \in Chargers PROVE NoOrders \in Ledgers(c)
<1>1. NoOrders.orders \in [{} -> Vehicles] /\ {} \in SUBSET OrdersOf[c]
  BY DEF NoOrders
<1>2. NoOrders.totals \in [{} -> Nat] /\ {} \in SUBSET Vehicles
  BY DEF NoOrders
<1> QED
  BY <1>1, <1>2 DEF NoOrders, Ledgers, Readable

\* The totals of finitely many orders are numbers, of the vehicles they name.
LEMMA TotalsType ==
  ASSUME NEW c \in Chargers, NEW orders \in Readable(c)
  PROVE  /\ DOMAIN Totals(orders) \subseteq Vehicles
         /\ \A v \in DOMAIN Totals(orders) : Totals(orders)[v] \in Nat
<1>1. PICK os \in SUBSET OrdersOf[c] : orders \in [os -> Vehicles]
  BY DEF Readable
<1>2. IsFiniteSet(os)
  BY StoresAssumption, FS_Subset
<1>3. ASSUME NEW v PROVE Cardinality({o \in DOMAIN orders : orders[o] = v}) \in Nat
  <2>1. {o \in DOMAIN orders : orders[o] = v} \in SUBSET os
    BY <1>1
  <2> QED
    BY <1>2, <2>1, FS_Subset, FS_CardinalityType
<1> QED
  BY <1>1, <1>3 DEF Totals

\* What a read leaves: a valid ledger that names every order it named before.
LEMMA ReadLedger ==
  ASSUME NEW c \in Chargers, known[c] \in Ledgers(c), rows[c] \in Readable(c)
  PROVE  /\ AfterRead(c) \in Ledgers(c) /\ Valid(AfterRead(c))
         /\ DOMAIN known[c].orders \subseteq DOMAIN AfterRead(c).orders
<1> DEFINE orders == Merged(known[c].orders, rows[c])
           before == known[c].totals
           totals == AllTotals(before, Totals(orders))
<1>1. AfterRead(c) = [orders |-> orders, totals |-> totals]
  BY DEF AfterRead
<1>2. /\ orders \in Readable(c)
      /\ DOMAIN orders = DOMAIN known[c].orders \cup DOMAIN rows[c]
  <2>1. PICK os \in SUBSET OrdersOf[c] : known[c].orders \in [os -> Vehicles]
    BY DEF Ledgers, Readable
  <2>2. PICK read \in SUBSET OrdersOf[c] : rows[c] \in [read -> Vehicles]
    BY DEF Readable
  <2>3. orders \in [os \cup read -> Vehicles] /\ os \cup read \in SUBSET OrdersOf[c]
    BY <2>1, <2>2 DEF Merged
  <2> QED
    BY <2>1, <2>2, <2>3 DEF Readable
<1>3. PICK vs \in SUBSET Vehicles : before \in [vs -> Nat]
  BY DEF Ledgers
<1> HIDE DEF orders
<1>4. /\ DOMAIN Totals(orders) \subseteq Vehicles
      /\ \A v \in DOMAIN Totals(orders) : Totals(orders)[v] \in Nat
  BY <1>2, TotalsType
<1>5. /\ totals \in [vs \cup DOMAIN Totals(orders) -> Nat]
      /\ DOMAIN totals = vs \cup DOMAIN Totals(orders)
      /\ \A v \in DOMAIN totals :
            totals[v] = IF v \in DOMAIN Totals(orders) THEN Totals(orders)[v] ELSE 0
  BY <1>3, <1>4 DEF AllTotals
<1> HIDE DEF totals
<1>6. AfterRead(c) \in Ledgers(c)
  <2>1. vs \cup DOMAIN Totals(orders) \in SUBSET Vehicles
    BY <1>4
  <2>2. totals \in UNION {[ws -> Nat] : ws \in SUBSET Vehicles}
    BY <1>5, <2>1
  <2> QED
    BY <1>1, <1>2, <2>2 DEF Ledgers
<1>7. Valid(AfterRead(c))
  BY <1>1, <1>5 DEF Valid
<1> QED
  BY <1>1, <1>2, <1>6, <1>7

\* The store and the running entry agree on a charger but between the write and the
\* publication, when the store is ahead; and both have what was ever published.
LedgerInv(c) ==
    /\ known[c] \in Ledgers(c) /\ rows[c] \in Readable(c)
    /\ ledger[c] \notin {None, Damaged} => ledger[c] \in Ledgers(c) /\ Valid(ledger[c])
    /\ phase[c] # "idle" => restored[c]
    /\ phase[c] = "saved" => ledger[c] = AfterRead(c)
    /\ restored[c] /\ phase[c] # "saved" => known[c] = Loaded(ledger[c])
    /\ counted[c] \subseteq DOMAIN Loaded(ledger[c]).orders
    /\ restored[c] => counted[c] \subseteq DOMAIN known[c].orders

LedgersInv ==
    /\ DOMAIN ledger = Chargers /\ DOMAIN known = Chargers /\ DOMAIN rows = Chargers
    /\ DOMAIN phase = Chargers /\ DOMAIN restored = Chargers /\ DOMAIN counted = Chargers
    /\ \A c \in Chargers : LedgerInv(c)

\* An empty page is one the cloud may return.
LEMMA NoRows == ASSUME NEW c \in Chargers PROVE NoOrders.orders \in Readable(c)
  BY NoOrdersIsLedger DEF Ledgers

\* What is made of a store, good or damaged, is a ledger.
LEMMA LoadedIsLedger ==
  ASSUME NEW c \in Chargers, NEW saved, saved \notin {None, Damaged} => saved \in Ledgers(c)
  PROVE  Loaded(saved) \in Ledgers(c)
  BY NoOrdersIsLedger DEF Loaded

\* A ledger whose totals agree is loaded as it was saved.
LEMMA ValidIsLoaded ==
  ASSUME NEW c \in Chargers, NEW saved \in Ledgers(c), Valid(saved)
  PROVE  saved \notin {None, Damaged} /\ Loaded(saved) = saved
  BY StoresAssumption DEF Loaded

\* A new account has stored nothing and shows nothing.
LEMMA LedgersInitHolds == HistoryInit => LedgersInv
<1> SUFFICES ASSUME HistoryInit PROVE LedgersInv
  OBVIOUS
<1>1. ASSUME NEW c \in Chargers PROVE LedgerInv(c)
  <2>1. /\ ledger[c] = None /\ restored[c] /\ known[c] = NoOrders /\ phase[c] = "idle"
        /\ rows[c] = NoOrders.orders /\ counted[c] = {}
    BY DEF HistoryInit
  <2> QED
    BY <2>1, NoOrdersIsLedger, NoRows DEF LedgerInv, Loaded
<1> QED
  BY <1>1 DEF HistoryInit, LedgersInv

\* A charger a step leaves alone.
LEMMA LedgerUntouched ==
  ASSUME NEW d, LedgerInv(d), ledger'[d] = ledger[d], known'[d] = known[d], rows'[d] = rows[d],
         phase'[d] = phase[d], restored'[d] = restored[d], counted'[d] = counted[d]
  PROVE  LedgerInv(d)'
  BY DEF LedgerInv, AfterRead

\* A restart shows what the stores have, or nothing of one it could not read.
LEMMA RestartStep ==
  ASSUME LedgersInv, NEW unreadable, NEW damaged, Restart(unreadable, damaged)
  PROVE  LedgersInv'
<1>1. ASSUME NEW d \in Chargers PROVE LedgerInv(d)'
  <2>1. /\ ledger'[d] = IF d \in damaged THEN Damaged ELSE ledger[d]
        /\ known'[d] = IF restored'[d] THEN Loaded(ledger'[d]) ELSE NoOrders
        /\ phase'[d] = "idle" /\ rows'[d] = NoOrders.orders
        /\ counted'[d] = IF d \in damaged THEN {} ELSE counted[d]
    BY DEF Restart
  <2>2. LedgerInv(d)
    BY DEF LedgersInv
  <2>3. ledger'[d] \notin {None, Damaged} => ledger'[d] \in Ledgers(d) /\ Valid(ledger'[d])
    BY <2>1, <2>2 DEF LedgerInv
  <2>4. known'[d] \in Ledgers(d)
    BY <2>1, <2>3, LoadedIsLedger, NoOrdersIsLedger
  <2>5. counted'[d] \subseteq DOMAIN Loaded(ledger'[d]).orders
    BY <2>1, <2>2 DEF LedgerInv
  <2> QED
    BY <2>1, <2>3, <2>4, <2>5, NoRows DEF LedgerInv
<1> QED
  BY <1>1 DEF LedgersInv, Restart

\* What every other step does to the ledgers, by the charger that takes it.
LEMMA LedgerSteps ==
  ASSUME LedgersInv, NEW c \in Chargers,
         \/ RestoreAgain(c) \/ TurnedAway(c) \/ StartRead(c) \/ ReadFails(c) \/ SignInFails(c)
         \/ Save(c) \/ Publish(c) \/ \E read \in Readable(c) : ReadDone(c, read)
  PROVE  LedgersInv'
<1> USE DEF LedgersInv
<1>1. LedgerInv(c)
  OBVIOUS
<1>2. ASSUME /\ DOMAIN ledger' = Chargers /\ DOMAIN known' = Chargers /\ DOMAIN rows' = Chargers
             /\ DOMAIN phase' = Chargers /\ DOMAIN restored' = Chargers /\ DOMAIN counted' = Chargers,
             LedgerInv(c)',
             \A d \in Chargers \ {c} :
                /\ ledger'[d] = ledger[d] /\ known'[d] = known[d] /\ rows'[d] = rows[d]
                /\ phase'[d] = phase[d] /\ restored'[d] = restored[d] /\ counted'[d] = counted[d]
      PROVE  LedgersInv'
  <2>1. ASSUME NEW d \in Chargers PROVE LedgerInv(d)'
    BY <1>2, LedgerUntouched
  <2> QED
    BY <1>2, <2>1
<1>3. CASE RestoreAgain(c)
  <2>1. /\ phase[c] = "idle" /\ restored' = [restored EXCEPT ![c] = TRUE]
        /\ known' = [known EXCEPT ![c] = Loaded(ledger[c])]
        /\ UNCHANGED <<ledger, phase, rows, counted>>
    BY <1>3 DEF RestoreAgain, storeVars
  <2>2. Loaded(ledger[c]) \in Ledgers(c)
    BY <1>1, LoadedIsLedger DEF LedgerInv
  <2>3. LedgerInv(c)'
    BY <1>1, <2>1, <2>2 DEF LedgerInv
  <2> QED
    BY <1>2, <2>1, <2>3
<1>4. CASE TurnedAway(c) \/ StartRead(c) \/ ReadFails(c) \/ SignInFails(c)
  <2>1. /\ UNCHANGED <<ledger, known, rows, restored, counted>>
        /\ phase' \in {phase, [phase EXCEPT ![c] = "reading"], [phase EXCEPT ![c] = "idle"]}
        /\ phase[c] # "saved" /\ restored[c]
    BY <1>1, <1>4 DEF TurnedAway, StartRead, ReadFails, SignInFails, AtTheDoor, MayRead, storeVars, LedgerInv
  <2>2. LedgerInv(c)'
    BY <1>1, <2>1 DEF LedgerInv
  <2> QED
    BY <1>2, <2>1, <2>2
<1>5. ASSUME NEW read \in Readable(c), ReadDone(c, read) PROVE LedgersInv'
  <2>1. /\ phase[c] = "reading" /\ phase' = [phase EXCEPT ![c] = "rows"]
        /\ rows' = [rows EXCEPT ![c] = read]
        /\ UNCHANGED <<ledger, known, restored, counted>>
    BY <1>5 DEF ReadDone, storeVars
  <2>2. LedgerInv(c)'
    BY <1>1, <2>1 DEF LedgerInv
  <2> QED
    BY <1>2, <2>1, <2>2
<1>6. /\ AfterRead(c) \in Ledgers(c) /\ Valid(AfterRead(c))
      /\ DOMAIN known[c].orders \subseteq DOMAIN AfterRead(c).orders
  BY <1>1, ReadLedger DEF LedgerInv
<1>7. AfterRead(c) \notin {None, Damaged} /\ Loaded(AfterRead(c)) = AfterRead(c)
  BY <1>6, ValidIsLoaded
<1>8. CASE Save(c)
  <2>1. phase[c] = "rows" /\ UNCHANGED <<known, restored, counted>>
    BY <1>8 DEF Save
  <2>2. CASE /\ ledger' = [ledger EXCEPT ![c] = AfterRead(c)]
             /\ phase' = [phase EXCEPT ![c] = "saved"] /\ UNCHANGED rows
    <3>1. /\ ledger'[c] = AfterRead(c) /\ phase'[c] = "saved" /\ AfterRead(c)' = AfterRead(c)
      BY <2>1, <2>2 DEF AfterRead
    <3>2. counted[c] \subseteq DOMAIN AfterRead(c).orders
      BY <1>1, <1>6, <2>1 DEF LedgerInv
    <3>3. LedgerInv(c)'
      BY <1>1, <1>6, <1>7, <2>1, <2>2, <3>1, <3>2 DEF LedgerInv
    <3> QED
      BY <1>2, <2>1, <2>2, <3>3
  <2>3. CASE /\ phase' = [phase EXCEPT ![c] = "idle"]
             /\ rows' = [rows EXCEPT ![c] = NoOrders.orders] /\ UNCHANGED ledger
    <3>1. LedgerInv(c)'
      BY <1>1, <2>1, <2>3, NoRows DEF LedgerInv
    <3> QED
      BY <1>2, <2>1, <2>3, <3>1
  <2> QED
    BY <1>8, <2>2, <2>3 DEF Save
<1>9. CASE Publish(c)
  <2>1. /\ phase[c] = "saved" \/ (phase[c] = "rows" /\ AfterRead(c) = known[c])
        /\ known' = [known EXCEPT ![c] = AfterRead(c)]
        /\ counted' = [counted EXCEPT ![c] = @ \cup DOMAIN known'[c].orders]
        /\ phase' = [phase EXCEPT ![c] = "idle"] /\ rows' = [rows EXCEPT ![c] = NoOrders.orders]
        /\ UNCHANGED <<ledger, restored>>
    BY <1>9 DEF Publish, storeVars
  <2>2. /\ known'[c] = AfterRead(c) /\ phase'[c] = "idle" /\ rows'[c] = NoOrders.orders
        /\ counted'[c] = counted[c] \cup DOMAIN AfterRead(c).orders
        /\ ledger'[c] = ledger[c] /\ restored'[c] /\ restored[c]
    BY <1>1, <2>1 DEF LedgerInv
  <2>3. Loaded(ledger[c]) = AfterRead(c)
    BY <1>1, <1>7, <2>1, <2>2 DEF LedgerInv
  <2>4. counted[c] \subseteq DOMAIN AfterRead(c).orders
    BY <1>1, <1>6, <2>2 DEF LedgerInv
  <2>5. LedgerInv(c)'
    BY <1>1, <1>6, <2>2, <2>3, <2>4, NoRows DEF LedgerInv
  <2>6. \A d \in Chargers \ {c} :
           known'[d] = known[d] /\ rows'[d] = rows[d] /\ phase'[d] = phase[d] /\ counted'[d] = counted[d]
    BY <2>1
  <2> QED
    BY <1>2, <2>1, <2>5, <2>6
<1> QED
  BY <1>3, <1>4, <1>5, <1>8, <1>9

\* No step of the history breaks the invariant of the ledgers.
LEMMA LedgersStepHolds ==
  ASSUME LedgersInv, [HistoryNext]_historyVars
  PROVE  LedgersInv'
<1>1. CASE LimitsDamaged \/ Tick \/ ClockSetBack \/ UNCHANGED historyVars
  <2>1. UNCHANGED <<ledger, known, rows, phase, restored, counted>>
    BY <1>1 DEF LimitsDamaged, Tick, ClockSetBack, historyVars, storeVars, pollVars
  <2>2. ASSUME NEW d \in Chargers PROVE LedgerInv(d)'
    BY <2>1, LedgerUntouched DEF LedgersInv
  <2> QED
    BY <2>1, <2>2 DEF LedgersInv
<1> QED
  BY <1>1, RestartStep, LedgerSteps DEF HistoryNext

\* An order that was published once stays in the ledger in store and in every ledger
\* restored from it (merge_orders, valid_saved_ledger, async_restore).
THEOREM OrdersAreKept == HistorySpec => []OrdersKept
<1>1. LedgersInv /\ [HistoryNext]_historyVars => LedgersInv'
  BY LedgersStepHolds
<1>2. LedgersInv => OrdersKept
  BY DEF LedgersInv, LedgerInv, OrdersKept
<1> QED
  BY <1>1, <1>2, LedgersInitHolds, PTL DEF HistorySpec

-----------------------------------------------------------------------------
(* Charging history: how often the cloud is asked (ChargingHistory).  The      *)
(* invariant ties each stamp in the store to the true age of what it stands    *)
(* for.                                                                        *)

\* A store that lets a charger be read too early keeps everyone out for long enough.
CoversRead(saved, c) ==
    saved.reads[c] <= sinceRead[c] \/ sinceRead[c] + saved.retry >= Budget
CoversSignIn(deadline) == sinceFail + deadline >= BackOff

StampsInv ==
    /\ retry \in Nat /\ sinceFail \in 0..BackOff
    /\ sinceRead \in [Chargers -> 0..Budget]
    /\ limits \in {None, Damaged} \cup Limits
    /\ limits = None => \A c \in Chargers : sinceRead[c] >= Budget
    /\ limits \in Limits => \A c \in Chargers : CoversRead(limits, c)
    /\ unsaved => CoversSignIn(retry)
    /\ ~unsaved /\ limits = None => sinceFail >= BackOff
    /\ ~unsaved /\ limits \in Limits => CoversSignIn(limits.retry)

HistoryConstants ==
    /\ Budget \in Nat /\ BackOff \in Nat /\ Jump \in Nat
    /\ 0 < Budget /\ Budget <= BackOff
    /\ None # Damaged /\ None \notin Limits /\ Damaged \notin Limits

\* What is assumed of the budget, the back-off and the stores.
LEMMA HistoryConstantFacts == HistoryConstants
  BY HistoryAssumption, StoresAssumption, SMT DEF HistoryConstants

\* Before the first read everything is long ago.
LEMMA StampsInitHolds == HistoryInit => StampsInv
  BY HistoryConstantFacts, SMT DEF HistoryConstants, HistoryInit, StampsInv, CoversSignIn

\* The limits as they are read keep what the store keeps, a damaged one by backing off.
LEMMA LimitsNowFacts ==
  ASSUME StampsInv
  PROVE  /\ LimitsNow \in Limits /\ LimitsNow.retry <= BackOff
         /\ \A c \in Chargers : CoversRead(LimitsNow, c)
         /\ ~unsaved => CoversSignIn(LimitsNow.retry)
<1> USE HistoryConstantFacts DEF HistoryConstants, StampsInv, CoversRead, CoversSignIn
<1>1. NoLimits \in Limits /\ NoLimits.retry = 0 /\ \A c \in Chargers : NoLimits.reads[c] = Budget
  BY SMT DEF NoLimits, Limits
<1>2. CASE limits = None
  <2>1. LimitsNow = NoLimits
    BY <1>2 DEF LimitsNow
  <2> QED
    BY <1>1, <1>2, <2>1, SMT
<1>3. CASE limits = Damaged
  <2> DEFINE now == [NoLimits EXCEPT !.retry = BackOff]
  <2>1. LimitsNow = now
    BY <1>3 DEF LimitsNow
  <2>2. now \in Limits /\ now.retry = BackOff
    BY <1>1, SMT DEF Limits
  <2> HIDE DEF now
  <2> QED
    BY <2>1, <2>2, SMT
<1>4. CASE limits \in Limits
  <2> DEFINE now == Clipped(limits)
  <2>1. LimitsNow = now
    BY <1>4 DEF LimitsNow
  <2>2. /\ limits.retry \in Nat /\ \A c \in Chargers : limits.reads[c] \in Int
    BY <1>4 DEF Limits
  <2>3. /\ now \in Limits
        /\ now.retry = Sooner(limits.retry, BackOff)
        /\ \A c \in Chargers : now.reads[c] = Later(limits.reads[c], 0)
    BY <2>2, SMT DEF Clipped, Limits, Sooner, Later
  <2> HIDE DEF now
  <2>4. now.retry <= BackOff
    BY <2>2, <2>3, SMT DEF Sooner
  <2>5. ASSUME NEW c \in Chargers PROVE CoversRead(now, c)
    <3>1. now.reads[c] = Later(limits.reads[c], 0) /\ sinceRead[c] \in 0..Budget
      BY <2>3
    <3>2. CASE limits.reads[c] <= sinceRead[c]
      BY <2>2, <3>1, <3>2, SMT DEF Later
    <3>3. CASE sinceRead[c] + limits.retry >= Budget
      BY <2>2, <2>3, <3>1, <3>3, SMT DEF Sooner
    <3> QED
      BY <1>4, <3>2, <3>3
  <2>6. ~unsaved => CoversSignIn(now.retry)
    BY <1>4, <2>2, <2>3, SMT DEF Sooner
  <2> QED
    BY <2>1, <2>3, <2>4, <2>5, <2>6
<1> QED
  BY <1>2, <1>3, <1>4

\* The running client's own deadline is merged with the one in store.
LEMMA DeadlineFacts ==
  ASSUME StampsInv
  PROVE  /\ Deadline \in Nat /\ CoversSignIn(Deadline)
         /\ Deadline = 0 => LimitsNow.retry = 0
<1> USE HistoryConstantFacts DEF HistoryConstants, StampsInv, CoversSignIn
<1>1. /\ LimitsNow.retry \in Nat /\ LimitsNow.retry <= BackOff
      /\ ~unsaved => CoversSignIn(LimitsNow.retry)
  BY LimitsNowFacts DEF Limits
<1>2. Deadline = Sooner(Later(retry, LimitsNow.retry), BackOff)
  BY DEF Deadline
<1> QED
  BY <1>1, <1>2, SMT DEF Sooner, Later

\* A read that starts is due by the true clock, and so is a sign-in.
LEMMA DueFacts ==
  ASSUME StampsInv, NEW c \in Chargers, StartRead(c)
  PROVE  sinceRead[c] >= Budget /\ sinceFail >= BackOff
<1> USE HistoryConstantFacts DEF HistoryConstants
<1>1. Deadline = 0 /\ LimitsNow.reads[c] >= Budget
  BY DEF StartRead
<1>2. /\ LimitsNow.retry = 0 /\ CoversRead(LimitsNow, c) /\ CoversSignIn(0)
      /\ LimitsNow.reads[c] \in Int /\ sinceRead[c] \in Int /\ sinceFail \in Int
  BY <1>1, LimitsNowFacts, DeadlineFacts, SMT DEF Limits, StampsInv
<1> QED
  BY <1>1, <1>2, SMT DEF CoversRead, CoversSignIn

\* A charger that is turned away or let in leaves a stamp that covers its last read.
LEMMA DoorSteps ==
  ASSUME StampsInv, NEW c \in Chargers, TurnedAway(c) \/ StartRead(c)
  PROVE  StampsInv'
<1> USE HistoryConstantFacts DEF HistoryConstants
<1>1. retry' = Deadline /\ UNCHANGED <<sinceFail, unsaved>>
  BY DEF TurnedAway, StartRead, signVars
<1>2. /\ Deadline \in Nat /\ CoversSignIn(Deadline)
  BY DeadlineFacts
<1>3. /\ LimitsNow \in Limits /\ \A d \in Chargers : CoversRead(LimitsNow, d)
      /\ ~unsaved => CoversSignIn(LimitsNow.retry)
  BY LimitsNowFacts
<1>4. CASE TurnedAway(c)
  <2>1. sinceRead' = sinceRead /\ limits' = IF limits = None THEN None ELSE LimitsNow
    BY <1>4 DEF TurnedAway
  <2>2. CASE limits = None
    BY <1>1, <1>2, <2>1, <2>2 DEF StampsInv, CoversSignIn, CoversRead
  <2>3. CASE limits # None
    BY <1>1, <1>2, <1>3, <2>1, <2>3 DEF StampsInv, CoversSignIn, CoversRead
  <2> QED
    BY <2>2, <2>3
<1>5. CASE StartRead(c)
  <2> DEFINE stamped == [LimitsNow EXCEPT !.reads[c] = 0]
  <2>1. limits' = stamped /\ sinceRead' = [sinceRead EXCEPT ![c] = 0]
    BY <1>5 DEF StartRead, LostUnnoticed
  <2>2. /\ stamped \in Limits /\ stamped.retry = LimitsNow.retry /\ stamped.reads[c] = 0
        /\ \A d \in Chargers \ {c} : stamped.reads[d] = LimitsNow.reads[d]
    BY <1>3, SMT DEF Limits
  <2> HIDE DEF stamped
  <2>3. sinceRead' \in [Chargers -> 0..Budget] /\ sinceRead'[c] = 0
        /\ \A d \in Chargers \ {c} : sinceRead'[d] = sinceRead[d]
    BY <2>1, SMT DEF StampsInv
  <2>4. ASSUME NEW d \in Chargers
        PROVE  stamped.reads[d] <= sinceRead'[d] \/ sinceRead'[d] + stamped.retry >= Budget
    BY <1>3, <2>2, <2>3, SMT DEF CoversRead
  <2>5. \A d \in Chargers : CoversRead(limits, d)'
    BY <2>1, <2>4 DEF CoversRead
  <2> QED
    BY <1>1, <1>2, <1>3, <2>1, <2>2, <2>3, <2>5 DEF StampsInv, CoversSignIn
<1> QED
  BY <1>4, <1>5

\* A failed sign-in is covered by the store, or by the client if the write was lost.
LEMMA FailedSignInStep ==
  ASSUME StampsInv, NEW c \in Chargers, SignInFails(c)
  PROVE  StampsInv'
<1> USE HistoryConstantFacts DEF HistoryConstants
<1>1. /\ retry' = BackOff /\ sinceFail' = 0 /\ sinceRead' = sinceRead
      /\ \E lost \in BOOLEAN : unsaved' = lost /\ limits' = IF lost THEN limits ELSE BackedOff
  BY DEF SignInFails
<1>2. BackedOff \in Limits /\ BackedOff.retry = BackOff /\ BackedOff.reads = LimitsNow.reads
  BY LimitsNowFacts, SMT DEF BackedOff, Limits
<1>3. \A d \in Chargers : sinceRead[d] + BackOff >= Budget
  BY SMT DEF StampsInv
<1>4. CASE unsaved' /\ limits' = limits
  BY <1>1, <1>4, SMT DEF StampsInv, CoversSignIn, CoversRead
<1>5. CASE ~unsaved' /\ limits' = BackedOff
  <2>1. \A d \in Chargers : CoversRead(limits, d)'
    BY <1>1, <1>2, <1>3, <1>5 DEF CoversRead
  <2> QED
    BY <1>1, <1>2, <1>5, <2>1, SMT DEF StampsInv, CoversSignIn
<1> QED
  BY <1>1, <1>4, <1>5

\* Time that passes, and a clock that is set back, shift the stamps and the deadlines.
LEMMA ShiftFacts ==
  ASSUME StampsInv, NEW by \in Int, Shifted(by)
  PROVE  /\ retry' = Later(retry - by, 0)
         /\ limits \in {None, Damaged} => limits' = limits
         /\ limits \in Limits =>
               /\ limits' \in Limits /\ limits'.retry = Later(limits.retry - by, 0)
               /\ \A c \in Chargers : limits'.reads[c] = Sooner(limits.reads[c] + by, Budget)
<1> USE HistoryConstantFacts DEF HistoryConstants
<1>1. retry' = Later(retry - by, 0) /\ (limits \in {None, Damaged} => limits' = limits)
  BY DEF Shifted
<1>2. CASE limits \in Limits
  <2> DEFINE shifted == [reads |-> [c \in Chargers |-> Sooner(limits.reads[c] + by, Budget)],
                         retry |-> Later(limits.retry - by, 0)]
  <2>1. limits' = shifted
    BY <1>2 DEF Shifted
  <2>2. limits.retry \in Nat /\ \A c \in Chargers : limits.reads[c] \in Int
    BY <1>2 DEF Limits
  <2>3. /\ shifted \in Limits /\ shifted.retry = Later(limits.retry - by, 0)
        /\ \A c \in Chargers : shifted.reads[c] = Sooner(limits.reads[c] + by, Budget)
    BY <2>2, SMT DEF Limits, Sooner, Later
  <2> QED
    BY <1>1, <2>1, <2>3
<1> QED
  BY <1>1, <1>2

\* Time that passes uses up a stamp no faster than the budget, and a clock set back only prolongs it.
LEMMA ClockSteps ==
  ASSUME StampsInv, Tick \/ ClockSetBack
  PROVE  StampsInv'
<1> USE HistoryConstantFacts DEF HistoryConstants
<1>1. PICK by \in Int :
         /\ Shifted(by) /\ unsaved' = unsaved
         /\ \/ /\ by = 1 /\ sinceFail' = Sooner(sinceFail + 1, BackOff)
               /\ sinceRead' = [c \in Chargers |-> Sooner(sinceRead[c] + 1, Budget)]
            \/ by <= 0 /\ UNCHANGED <<sinceFail, sinceRead>>
  <2>1. CASE Tick
    BY <2>1 DEF Tick
  <2>2. CASE ClockSetBack
    <3>1. -Jump \in Int /\ -Jump <= 0
      BY SMT
    <3> QED
      BY <2>2, <3>1 DEF ClockSetBack, signVars
  <2> QED
    BY <2>1, <2>2
<1>2. /\ retry' = Later(retry - by, 0)
      /\ limits \in {None, Damaged} => limits' = limits
      /\ limits \in Limits =>
            /\ limits' \in Limits /\ limits'.retry = Later(limits.retry - by, 0)
            /\ \A c \in Chargers : limits'.reads[c] = Sooner(limits.reads[c] + by, Budget)
  BY <1>1, ShiftFacts
<1>3. /\ sinceFail' \in 0..BackOff /\ sinceRead' \in [Chargers -> 0..Budget] /\ retry' \in Nat
      /\ \A c \in Chargers : sinceRead'[c] = IF by = 1 THEN Sooner(sinceRead[c] + 1, Budget) ELSE sinceRead[c]
      /\ \A c \in Chargers : sinceRead'[c] >= sinceRead[c]
  BY <1>1, <1>2, SMT DEF StampsInv, Sooner, Later
<1>4. ASSUME NEW deadline \in Nat, sinceFail + deadline >= BackOff
      PROVE  sinceFail' + Later(deadline - by, 0) >= BackOff
  BY <1>1, <1>4, SMT DEF StampsInv, Sooner, Later
<1>5. ASSUME limits \in Limits, NEW c \in Chargers
      PROVE  limits'.reads[c] <= sinceRead'[c] \/ sinceRead'[c] + limits'.retry >= Budget
  <2>1. /\ limits.reads[c] \in Int /\ limits.retry \in Nat /\ sinceRead[c] \in 0..Budget
        /\ limits.reads[c] <= sinceRead[c] \/ sinceRead[c] + limits.retry >= Budget
    BY <1>5 DEF Limits, StampsInv, CoversRead
  <2>2. /\ limits'.retry = Later(limits.retry - by, 0)
        /\ limits'.reads[c] = Sooner(limits.reads[c] + by, Budget)
        /\ sinceRead'[c] = IF by = 1 THEN Sooner(sinceRead[c] + 1, Budget) ELSE sinceRead[c]
        /\ by = 1 \/ by <= 0
    BY <1>1, <1>2, <1>3, <1>5
  <2> QED
    BY <2>1, <2>2, SMT DEF Sooner, Later
<1>6. CASE limits \in {None, Damaged}
  <2>1. limits = None => \A c \in Chargers : sinceRead'[c] >= Budget
    BY <1>3, SMT DEF StampsInv
  <2>2. ~unsaved /\ limits = None => sinceFail' >= BackOff
    BY <1>1, SMT DEF StampsInv, CoversSignIn, Sooner
  <2>3. unsaved => sinceFail' + retry' >= BackOff
    BY <1>2, <1>4 DEF StampsInv, CoversSignIn
  <2>4. limits' = limits /\ limits' \notin Limits
    BY <1>2, <1>6
  <2> QED
    BY <1>1, <1>3, <1>6, <2>1, <2>2, <2>3, <2>4 DEF StampsInv, CoversSignIn
<1>7. CASE limits \in Limits
  <2>1. limits.retry \in Nat
    BY <1>7 DEF Limits
  <2>2. ~unsaved => sinceFail' + limits'.retry >= BackOff
    BY <1>2, <1>4, <1>7, <2>1 DEF StampsInv, CoversSignIn
  <2>3. unsaved => sinceFail' + retry' >= BackOff
    BY <1>2, <1>4 DEF StampsInv, CoversSignIn
  <2>4. \A c \in Chargers : CoversRead(limits, c)'
    BY <1>5, <1>7 DEF CoversRead
  <2>5. limits' # None /\ limits' \in Limits
    BY <1>2, <1>7
  <2> QED
    BY <1>1, <1>3, <2>2, <2>3, <2>4, <2>5 DEF StampsInv, CoversSignIn
<1> QED
  BY <1>6, <1>7 DEF StampsInv

\* No step of the history breaks the invariant of the stamps.
LEMMA StampsStepHolds ==
  ASSUME StampsInv, [HistoryNext]_historyVars
  PROVE  StampsInv'
<1> USE HistoryConstantFacts DEF HistoryConstants
<1>1. ASSUME NEW unreadable, NEW damaged, Restart(unreadable, damaged) PROVE StampsInv'
  <2>1. /\ retry' = 0 /\ sinceFail' = (IF unsaved THEN BackOff ELSE sinceFail) /\ ~unsaved'
        /\ UNCHANGED <<limits, sinceRead>>
    BY <1>1 DEF Restart
  <2>2. limits \in Limits => limits.retry \in Nat
    BY DEF Limits
  <2> QED
    BY <2>1, <2>2, SMT DEF StampsInv, CoversSignIn, CoversRead
<1>2. ASSUME NEW c \in Chargers,
             RestoreAgain(c) \/ ReadFails(c) \/ Save(c) \/ Publish(c) \/ \E read \in Readable(c) : ReadDone(c, read)
      PROVE  UNCHANGED <<limits, retry, sinceRead, sinceFail, unsaved>>
  BY <1>2 DEF RestoreAgain, ReadFails, Save, Publish, ReadDone, storeVars, signVars
<1>3. CASE UNCHANGED <<limits, retry, sinceRead, sinceFail, unsaved>>
  BY <1>3 DEF StampsInv, CoversSignIn, CoversRead
<1>4. CASE LimitsDamaged
  <2>1. limits' = Damaged /\ UNCHANGED <<retry, sinceRead, sinceFail, unsaved>>
    BY <1>4 DEF LimitsDamaged, pollVars, signVars
  <2> QED
    BY <2>1 DEF StampsInv, CoversSignIn
<1>5. CASE UNCHANGED historyVars
  BY <1>3, <1>5 DEF historyVars, storeVars, pollVars, signVars
<1> QED
  BY <1>1, <1>2, <1>3, <1>4, <1>5, DoorSteps, FailedSignInStep, ClockSteps DEF HistoryNext

\* The cloud is asked only a full budget after the charger's last read and a full back-off
\* after the account's last failed sign-in, in true time, whatever was restarted, lost,
\* damaged or set back in between (get_powerpulse_orders, _history_limits).
THEOREM CloudIsSpared == HistorySpec => CloudSpared
<1>1. StampsInv /\ [HistoryNext]_historyVars => StampsInv'
  BY StampsStepHolds
<1>2. StampsInv /\ [HistoryNext]_historyVars =>
        [\A c \in Chargers : StartRead(c) => sinceRead[c] >= Budget /\ sinceFail >= BackOff]_historyVars
  BY DueFacts
<1> QED
  BY <1>1, <1>2, StampsInitHolds, PTL DEF HistorySpec, CloudSpared

-----------------------------------------------------------------------------
(* The dialogs (EntryFlows).  The invariant says what each dialog still knows *)
(* of its entry as long as no other one was open on it.                        *)

CloudModes == {"standard", "enhanced"}
FreeSteps == {"closed", "setup sign in", "setup devices", "setup local"}
OptionSteps == {"options", "options fetch", "options account", "options keys"}
CredentialSteps == {"account", "keys", "account too"}
LocalSteps == {"menu of local", "switch"}
HeldSteps == OptionSteps \cup CredentialSteps \cup LocalSteps \cup {"menu of cloud", "local"}

DialogData ==
    [step : FreeSteps \cup HeldSteps \cup {"probing"}, entry : Entries \cup {None}, list : SUBSET Serials,
     mode : CloudModes \cup {"local", "reauth", None}, secret : Secrets \cup CloudModes \cup {"local", None},
     devices : SUBSET Serials, host : Hosts \cup {None}, released : BOOLEAN]

FlowTypes ==
    /\ entries \in [Entries -> Flows!EntryData \cup {None}]
    /\ serving \in [Entries -> {"out", "starting", "loaded", "retrying"}]
    /\ runsOn \in [Entries -> Flows!EntryData \cup {None}]
    /\ asked \in [Entries -> Nat]
    /\ dialogs \in [Dialogs -> DialogData]

\* What a dialog may rely on whatever the others do: the form it is at has what
\* the forms before it collected, and only a read holds an entry it let go of.
Sound(o, data) ==
    /\ o.entry # None => data[o.entry] # None
    /\ o.step \in FreeSteps => o.entry = None
    /\ o.step \in HeldSteps => o.entry # None
    /\ o.released => o.step = "probing" /\ o.entry # None
    /\ o.step \in {"setup sign in", "setup devices", "options fetch", "switch"} => o.mode \in CloudModes
    /\ o.step = "options account" => o.mode = "enhanced"
    /\ o.step = "options keys" => o.mode = "standard"
    /\ o.step \in {"setup devices", "account too"} => o.secret \in Secrets
    /\ o.step = "probing" => o.host \in Hosts

\* What it knows of its entry as long as no other dialog was open on it.
Knows(o, data) ==
    /\ o.step \in OptionSteps \cup CredentialSteps \cup {"menu of cloud"} => data.mode # "local"
    /\ o.step \in LocalSteps => data.mode = "local"
    /\ o.step = "options" => o.devices \subseteq o.list \cup data.devices
    /\ o.step = "options fetch" => o.devices \subseteq data.devices /\ o.secret = data.mode
    /\ o.step \in {"options account", "options keys"} =>
           /\ o.devices # {} /\ o.devices \subseteq o.list \cup data.devices
           /\ Flows!Fits(o.mode, o.devices)

SoundInv == \A d \in Dialogs : Sound(dialogs[d], entries)
KnowsInv == \A d \in Dialogs :
    dialogs[d].entry # None /\ dialogs[d].entry \notin crossed => Knows(dialogs[d], entries[dialogs[d].entry])
AloneInv == \A d, f \in Dialogs :
    d # f /\ dialogs[d].entry # None /\ dialogs[d].entry = dialogs[f].entry => dialogs[d].entry \in crossed
DialogsInv == SoundInv /\ KnowsInv /\ AloneInv

\* The setup that runs, runs on the data of the entry, because none is saved meanwhile.
ServesInv ==
    /\ Flows!ServesItsData
    /\ \A e \in Flows!Present : serving[e] = "starting" => runsOn[e] = entries[e]

FlowInv == FlowTypes /\ DialogsInv /\ Flows!OneLocalPerDevice /\ Flows!EntryWhole /\ ServesInv

\* What is assumed of the devices, accounts and hosts.
LEMMA FlowConstants ==
    /\ None \notin Secrets /\ None \notin Hosts /\ None \notin Entries /\ None \notin Flows!EntryData
    /\ Oceans \subseteq Serials /\ \A list \in Lists : list \subseteq Serials
    /\ Secrets # {} /\ Hosts # {}
    /\ \A o \in Oceans : o \notin StandardOnly /\ o \notin EnhancedOnly
  BY FlowsAssumption

\* A closed dialog is on no entry and holds none.
LEMMA ClosedIsDialog == /\ Flows!Closed \in DialogData /\ Flows!Closed.entry = None /\ ~Flows!Closed.released
                        /\ Flows!Closed.step = "closed"
  BY DEF Flows!Closed, DialogData, FreeSteps

\* Nothing is asked of a closed dialog.
LEMMA ClosedIsSound == ASSUME NEW data PROVE Sound(Flows!Closed, data)
  BY ClosedIsDialog DEF Sound, FreeSteps, HeldSteps, OptionSteps, CredentialSteps, LocalSteps

\* One dialog turns, and at most its entry or a new one is written.
LEMMA DialogsKept ==
  ASSUME FlowTypes, FlowTypes', DialogsInv, NEW d \in Dialogs, NEW o,
         dialogs' = [dialogs EXCEPT ![d] = o], crossed \subseteq crossed',
         \/ o.entry = None \/ o.entry = dialogs[d].entry
         \/ \A f \in Dialogs \ {d} : dialogs[f].entry = o.entry => o.entry \in crossed',
         \A e \in Entries : entries'[e] # entries[e] =>
             (entries[e] = None \/ e = dialogs[d].entry) /\ entries'[e] # None,
         Sound(o, entries'),
         o.entry # None /\ o.entry \notin crossed' => Knows(o, entries'[o.entry])
  PROVE  DialogsInv'
<1>1. dialogs'[d] = o /\ \A f \in Dialogs : f # d => dialogs'[f] = dialogs[f]
  BY DEF FlowTypes
<1>2. \A f \in Dialogs : dialogs[f].entry \in Entries \cup {None}
  BY DEF FlowTypes, DialogData
<1>3. ASSUME NEW f \in Dialogs, f # d, dialogs[f].entry # None
      PROVE  /\ entries[dialogs[f].entry] # None /\ entries'[dialogs[f].entry] # None
             /\ dialogs[f].entry \notin crossed => entries'[dialogs[f].entry] = entries[dialogs[f].entry]
  <2>1. entries[dialogs[f].entry] # None
    BY <1>3 DEF DialogsInv, SoundInv, Sound
  <2>2. dialogs[f].entry = dialogs[d].entry => dialogs[f].entry \in crossed
    BY <1>3 DEF DialogsInv, AloneInv
  <2> QED
    BY <2>1, <2>2, <1>2, <1>3
<1>4. SoundInv'
  <2> SUFFICES ASSUME NEW f \in Dialogs PROVE Sound(dialogs'[f], entries')
    BY DEF SoundInv
  <2>1. CASE f = d
    BY <2>1, <1>1
  <2>2. CASE f # d
    <3>1. Sound(dialogs[f], entries)
      BY DEF DialogsInv, SoundInv
    <3> QED
      BY <3>1, <2>2, <1>1, <1>3 DEF Sound
  <2> QED
    BY <2>1, <2>2
<1>5. KnowsInv'
  <2> SUFFICES ASSUME NEW f \in Dialogs, dialogs'[f].entry # None, dialogs'[f].entry \notin crossed'
               PROVE Knows(dialogs'[f], entries'[dialogs'[f].entry])
    BY DEF KnowsInv
  <2>1. CASE f = d
    BY <2>1, <1>1
  <2>2. CASE f # d
    <3>1. dialogs'[f] = dialogs[f] /\ entries'[dialogs[f].entry] = entries[dialogs[f].entry]
          /\ dialogs[f].entry \notin crossed /\ dialogs[f].entry # None
      BY <2>2, <1>1, <1>3
    <3>2. Knows(dialogs[f], entries[dialogs[f].entry])
      BY <3>1 DEF DialogsInv, KnowsInv
    <3> QED
      BY <3>1, <3>2
  <2> QED
    BY <2>1, <2>2
<1>6. AloneInv'
  <2> SUFFICES ASSUME NEW f \in Dialogs, NEW g \in Dialogs, f # g, dialogs'[f].entry # None,
                      dialogs'[f].entry = dialogs'[g].entry
               PROVE  dialogs'[f].entry \in crossed'
    BY DEF AloneInv
  <2>1. \A h \in Dialogs : h # d /\ dialogs[h].entry # None /\ dialogs[h].entry = dialogs[d].entry
            => dialogs[h].entry \in crossed
    BY DEF DialogsInv, AloneInv
  <2>2. CASE f = d
    BY <2>2, <2>1, <1>1
  <2>3. CASE g = d
    BY <2>3, <2>1, <1>1
  <2>4. CASE f # d /\ g # d
    BY <2>4, <1>1 DEF DialogsInv, AloneInv
  <2> QED
    BY <2>2, <2>3, <2>4
<1> QED
  BY <1>4, <1>5, <1>6 DEF DialogsInv

\* What a dialog that is not released may do without the entry noticing.
LEMMA Turned ==
  ASSUME FlowInv, NEW d \in Dialogs, NEW o \in DialogData, Flows!Shows(d, o), Flows!NothingSaved,
         o.entry = None \/ o.entry = dialogs[d].entry, ~dialogs[d].released,
         Sound(o, entries),
         o.entry # None /\ o.entry \notin crossed => Knows(o, entries[o.entry])
  PROVE  FlowInv'
<1> USE DEF FlowInv
<1>1. UNCHANGED <<entries, serving, runsOn, asked, opened, crossed>> /\ dialogs' = [dialogs EXCEPT ![d] = o]
  BY DEF Flows!NothingSaved, Flows!Shows
<1>2. FlowTypes'
  BY <1>1 DEF FlowTypes
<1>3. DialogsInv'
  BY <1>1, <1>2, DialogsKept
<1>4. Flows!OneLocalPerDevice' /\ Flows!EntryWhole'
  BY <1>1 DEF Flows!OneLocalPerDevice, Flows!EntryWhole, Flows!Present
<1>5. \A f \in Dialogs : dialogs[f].released => dialogs'[f] = dialogs[f]
  BY <1>1 DEF FlowTypes
<1>6. ServesInv'
  <2>1. Flows!Present' = Flows!Present
    BY <1>1 DEF Flows!Present
  <2>2. Flows!ServesItsData'
    BY <1>1, <1>5, <2>1 DEF ServesInv, Flows!ServesItsData
  <2> QED
    BY <1>1, <2>1, <2>2 DEF ServesInv
<1> QED
  BY <1>2, <1>3, <1>4, <1>6

\* A dialog that ends without saving.
LEMMA Ended ==
  ASSUME FlowInv, NEW d \in Dialogs, Flows!Ends(d), Flows!NothingSaved, ~dialogs[d].released
  PROVE  FlowInv'
  BY Turned, ClosedIsDialog, ClosedIsSound DEF Flows!Ends

\* A dialog saves its entry and ends.
LEMMA SavedAndEnded ==
  ASSUME FlowInv, ~Hasty, NEW d \in Dialogs, NEW e \in Entries, NEW data \in Flows!EntryData, NEW n \in Nat,
         e = dialogs[d].entry, Flows!Save(e, data, n), Flows!Ends(d),
         e \notin crossed => Flows!Whole(data),
         data.mode = "local" =>
             \/ entries[e].mode = "local" /\ data.devices = entries[e].devices
             \/ \A f \in Flows!Present \ {e} : data.devices \cap entries[f].devices = {},
         n = 0 => (serving[e] = "loaded" => data = entries[e]) /\ ~dialogs[d].released
  PROVE  FlowInv'
<1> USE DEF FlowInv
<1>1. /\ serving[e] # "starting" /\ entries' = [entries EXCEPT ![e] = data]
      /\ asked' = [asked EXCEPT ![e] = @ + n] /\ UNCHANGED <<serving, runsOn, opened, crossed>>
      /\ dialogs' = [dialogs EXCEPT ![d] = Flows!Closed]
  BY DEF Flows!Save, Flows!MaySave, Flows!Ends, Flows!Shows
<1>2. FlowTypes'
  BY <1>1, ClosedIsDialog DEF FlowTypes
<1>3. /\ entries'[e] = data /\ \A f \in Entries : f # e => entries'[f] = entries[f]
      /\ data # None /\ entries[e] # None
  <2>1. data # None
    BY FlowConstants
  <2>2. e # None
    BY FlowConstants
  <2>3. entries[e] # None
    BY <2>2 DEF DialogsInv, SoundInv, Sound
  <2> QED
    BY <1>1, <2>1, <2>3 DEF FlowTypes
<1>4. Flows!Present' = Flows!Present /\ e \in Flows!Present
  BY <1>3 DEF Flows!Present
<1>5. DialogsInv'
  <2>1. Sound(Flows!Closed, entries')
    BY ClosedIsSound
  <2>2. Flows!Closed.entry = None
    BY ClosedIsDialog
  <2>3. crossed \subseteq crossed'
    BY <1>1
  <2> QED
    BY <1>1, <1>2, <1>3, <2>1, <2>2, <2>3, DialogsKept
<1>6. Flows!EntryWhole'
  BY <1>1, <1>3, <1>4 DEF Flows!EntryWhole
<1>7. Flows!OneLocalPerDevice'
  <2> SUFFICES ASSUME NEW f \in Flows!Present, NEW g \in Flows!Present, f # g,
                      entries'[f].mode = "local", entries'[g].mode = "local"
               PROVE  entries'[f].devices \cap entries'[g].devices = {}
    BY <1>4 DEF Flows!OneLocalPerDevice
  <2>1. CASE f # e /\ g # e
    BY <2>1, <1>3 DEF Flows!OneLocalPerDevice, Flows!Present
  <2>2. CASE f = e
    BY <2>2, <1>3 DEF Flows!OneLocalPerDevice, Flows!Present
  <2>3. CASE g = e
    BY <2>3, <1>3 DEF Flows!OneLocalPerDevice, Flows!Present
  <2> QED
    BY <2>1, <2>2, <2>3
<1>8. ServesInv'
  <2> SUFFICES ASSUME NEW f \in Flows!Present
               PROVE  /\ asked'[f] = 0 /\ serving'[f] = "loaded" => runsOn'[f] = entries'[f]
                      /\ asked'[f] = 0 /\ serving'[f] = "out"
                            => \E g \in Dialogs : dialogs'[g].entry = f /\ dialogs'[g].released
                      /\ serving'[f] = "starting" => runsOn'[f] = entries'[f]
    BY <1>4 DEF ServesInv, Flows!ServesItsData
  <2>0. f \in Entries /\ \A g \in Dialogs : g # d => dialogs'[g] = dialogs[g]
    BY <1>1 DEF Flows!Present, FlowTypes
  <2>1. CASE f # e
    <3>1. asked'[f] = asked[f] /\ entries'[f] = entries[f] /\ serving'[f] = serving[f] /\ runsOn'[f] = runsOn[f]
      BY <2>0, <2>1, <1>1 DEF FlowTypes
    <3>2. asked[f] = 0 /\ serving[f] = "out" => \E g \in Dialogs : g # d /\ dialogs[g].entry = f /\ dialogs[g].released
      BY <2>1 DEF ServesInv, Flows!ServesItsData
    <3> QED
      BY <3>1, <3>2, <2>0 DEF ServesInv, Flows!ServesItsData
  <2>2. CASE f = e
    <3>1. asked'[e] = asked[e] + n /\ asked[e] \in Nat
      BY <1>1 DEF FlowTypes
    <3>2. asked'[e] = 0 => asked[e] = 0 /\ n = 0
      BY <3>1
    <3>3. asked[e] = 0 /\ serving[e] = "loaded" => runsOn[e] = entries[e]
      BY <1>4 DEF ServesInv, Flows!ServesItsData
    <3>4. asked[e] = 0 /\ serving[e] = "out" => \E g \in Dialogs : dialogs[g].entry = e /\ dialogs[g].released
      BY <1>4 DEF ServesInv, Flows!ServesItsData
    <3>5. asked'[e] = 0 /\ serving'[e] = "out" => \E g \in Dialogs : g # d /\ dialogs[g].entry = e /\ dialogs[g].released
      BY <3>2, <3>4, <1>1
    <3>6. asked'[e] = 0 /\ serving'[e] = "out" => \E g \in Dialogs : dialogs'[g].entry = e /\ dialogs'[g].released
      BY <3>5, <2>0
    <3> QED
      BY <2>2, <3>2, <3>3, <3>6, <1>1, <1>3
  <2> QED
    BY <2>1, <2>2
<1> QED
  BY <1>2, <1>5, <1>6, <1>7, <1>8

\* The listener or the flow reloads what is new.
LEMMA UpdateReloads ==
  ASSUME FlowInv, ~Hasty, NEW d \in Dialogs, NEW e \in Entries, NEW data \in Flows!EntryData,
         e = dialogs[d].entry, Flows!Ends(d),
         \/ Flows!Update(e, data) /\ ~dialogs[d].released
         \/ Flows!UpdateAndReload(e, data),
         e \notin crossed => Flows!Whole(data),
         data.mode = "local" =>
             \/ entries[e].mode = "local" /\ data.devices = entries[e].devices
             \/ \A f \in Flows!Present \ {e} : data.devices \cap entries[f].devices = {}
  PROVE  FlowInv'
<1>1. /\ Flows!FromListener(e, data) \in {0, 1}
      /\ Flows!FromListener(e, data) = 0 /\ serving[e] = "loaded" => data = entries[e]
  BY DEF Flows!FromListener, Flows!Listening
<1>2. Flows!FromListener(e, data) + Flows!FromFlow(e, data) = 1
  BY <1>1 DEF Flows!FromFlow
<1>3. CASE Flows!Update(e, data) /\ ~dialogs[d].released
  <2>1. Flows!Save(e, data, Flows!FromListener(e, data))
    BY <1>3 DEF Flows!Update
  <2>2. Flows!FromListener(e, data) \in Nat
    BY <1>1
  <2> QED
    BY <1>1, <1>3, <2>1, <2>2, SavedAndEnded
<1>4. CASE Flows!UpdateAndReload(e, data)
  <2>1. Flows!Save(e, data, 1)
    BY <1>4, <1>2 DEF Flows!UpdateAndReload
  <2> QED
    BY <2>1, SavedAndEnded
<1> QED
  BY <1>3, <1>4

\* A setup flow makes an entry, which Home Assistant sets up at once.
LEMMA CreatedAndEnded ==
  ASSUME FlowInv, NEW d \in Dialogs, NEW data \in Flows!EntryData, Flows!Create(data), Flows!Ends(d),
         ~dialogs[d].released, Flows!Whole(data),
         data.mode = "local" => \A f \in Flows!Present : data.devices \cap entries[f].devices = {}
  PROVE  FlowInv'
<1> USE DEF FlowInv
<1>1. PICK e \in Entries \ Flows!Present :
          /\ entries' = [entries EXCEPT ![e] = data] /\ serving' = [serving EXCEPT ![e] = "starting"]
          /\ runsOn' = [runsOn EXCEPT ![e] = data] /\ UNCHANGED <<asked, opened, crossed>>
  BY DEF Flows!Create
<1>2. dialogs' = [dialogs EXCEPT ![d] = Flows!Closed]
  BY DEF Flows!Ends, Flows!Shows
<1>3. FlowTypes'
  BY <1>1, <1>2, ClosedIsDialog DEF FlowTypes
<1>4. /\ entries'[e] = data /\ data # None /\ entries[e] = None
      /\ \A f \in Entries : f # e => entries'[f] = entries[f]
  BY <1>1, FlowConstants DEF FlowTypes, Flows!Present
<1>5. Flows!Present' = Flows!Present \cup {e}
  BY <1>1, <1>4 DEF Flows!Present
<1>6. DialogsInv'
  <2>1. Sound(Flows!Closed, entries') /\ Flows!Closed.entry = None /\ crossed \subseteq crossed'
    BY ClosedIsSound, ClosedIsDialog, <1>1
  <2> QED
    BY <1>2, <1>3, <1>4, <2>1, DialogsKept
<1>7. \A f \in Flows!Present : f \in Entries /\ f # e /\ entries'[f] = entries[f]
  BY <1>1, <1>4 DEF Flows!Present
<1>8. Flows!EntryWhole'
  BY <1>1, <1>4, <1>5, <1>7 DEF Flows!EntryWhole
<1>9. Flows!OneLocalPerDevice'
  <2> SUFFICES ASSUME NEW f \in Flows!Present', NEW g \in Flows!Present', f # g,
                      entries'[f].mode = "local", entries'[g].mode = "local"
               PROVE  entries'[f].devices \cap entries'[g].devices = {}
    BY DEF Flows!OneLocalPerDevice
  <2>1. CASE f # e /\ g # e
    BY <2>1, <1>5, <1>7 DEF Flows!OneLocalPerDevice
  <2>2. CASE f = e
    BY <2>2, <1>4, <1>5, <1>7
  <2>3. CASE g = e
    BY <2>3, <1>4, <1>5, <1>7
  <2> QED
    BY <2>1, <2>2, <2>3
<1>10. ServesInv'
  <2> SUFFICES ASSUME NEW f \in Flows!Present'
               PROVE  /\ asked'[f] = 0 /\ serving'[f] = "loaded" => runsOn'[f] = entries'[f]
                      /\ asked'[f] = 0 /\ serving'[f] = "out"
                            => \E g \in Dialogs : dialogs'[g].entry = f /\ dialogs'[g].released
                      /\ serving'[f] = "starting" => runsOn'[f] = entries'[f]
    BY DEF ServesInv, Flows!ServesItsData
  <2>1. CASE f = e
    BY <2>1, <1>1, <1>4 DEF FlowTypes
  <2>2. CASE f # e
    <3>1. f \in Flows!Present /\ f \in Entries /\ entries'[f] = entries[f]
      BY <2>2, <1>5, <1>7
    <3>2. asked'[f] = asked[f] /\ serving'[f] = serving[f] /\ runsOn'[f] = runsOn[f]
      BY <3>1, <2>2, <1>1 DEF FlowTypes
    <3>3. asked[f] = 0 /\ serving[f] = "out" => \E g \in Dialogs : g # d /\ dialogs[g].entry = f /\ dialogs[g].released
      BY <3>1 DEF ServesInv, Flows!ServesItsData
    <3>4. \A g \in Dialogs : g # d => dialogs'[g] = dialogs[g]
      BY <1>2 DEF FlowTypes
    <3> QED
      BY <3>1, <3>2, <3>3, <3>4 DEF ServesInv, Flows!ServesItsData
  <2> QED
    BY <2>1, <2>2
<1> QED
  BY <1>3, <1>6, <1>8, <1>9, <1>10

\* A reconfigure that does not save starts the entry it let go of.
LEMMA LetGo ==
  ASSUME FlowInv, NEW d \in Dialogs, NEW o \in DialogData, NEW refused, Flows!Shows(d, o), Flows!LetsGo(d, refused),
         dialogs[d].entry \in Entries,
         o.entry = None \/ o.entry = dialogs[d].entry, Sound(o, entries),
         o.entry # None /\ o.entry \notin crossed => Knows(o, entries[o.entry])
  PROVE  FlowInv'
<1> USE DEF FlowInv
<1> DEFINE e == dialogs[d].entry
<1>1. /\ dialogs' = [dialogs EXCEPT ![d] = o]
      /\ asked' = [asked EXCEPT ![e] = @ + Flows!StartsAgain(d, refused)]
      /\ UNCHANGED <<entries, serving, runsOn, opened, crossed>>
  BY DEF Flows!LetsGo, Flows!Shows
<1>2. /\ Flows!StartsAgain(d, refused) \in {0, 1}
      /\ Flows!StartsAgain(d, refused) = 0 => ~dialogs[d].released
  BY DEF Flows!StartsAgain
<1>3. FlowTypes'
  <2>1. asked' \in [Entries -> Nat]
    BY <1>1, <1>2 DEF FlowTypes
  <2> QED
    BY <1>1, <2>1 DEF FlowTypes
<1>4. DialogsInv'
  BY <1>1, <1>3, DialogsKept
<1>5. Flows!OneLocalPerDevice' /\ Flows!EntryWhole'
  BY <1>1 DEF Flows!OneLocalPerDevice, Flows!EntryWhole, Flows!Present
<1>6. ServesInv'
  <2>1. Flows!Present' = Flows!Present
    BY <1>1 DEF Flows!Present
  <2>2. ASSUME NEW f \in Entries, asked'[f] = 0
        PROVE  asked[f] = 0 /\ (f = e => ~dialogs[d].released)
    BY <2>2, <1>1, <1>2 DEF FlowTypes
  <2>3. ASSUME NEW f \in Flows!Present, asked'[f] = 0, serving'[f] = "out"
        PROVE  \E g \in Dialogs : dialogs'[g].entry = f /\ dialogs'[g].released
    <3>1. f \in Entries /\ serving[f] = "out"
      BY <2>3, <1>1 DEF Flows!Present
    <3>2. PICK g \in Dialogs : dialogs[g].entry = f /\ dialogs[g].released
      BY <3>1, <2>2, <2>3 DEF ServesInv, Flows!ServesItsData
    <3>3. g # d
      BY <3>1, <3>2, <2>2, <2>3
    <3>4. dialogs'[g] = dialogs[g]
      BY <3>3, <1>1 DEF FlowTypes
    <3> QED
      BY <3>2, <3>4
  <2>4. ASSUME NEW f \in Flows!Present, asked'[f] = 0, serving'[f] = "loaded"
        PROVE  runsOn'[f] = entries'[f]
    <3>1. f \in Entries /\ serving[f] = "loaded"
      BY <2>4, <1>1 DEF Flows!Present
    <3> QED
      BY <3>1, <2>2, <2>4, <1>1 DEF ServesInv, Flows!ServesItsData
  <2>5. \A f \in Flows!Present : serving'[f] = "starting" => runsOn'[f] = entries'[f]
    BY <1>1 DEF ServesInv
  <2> QED
    BY <2>1, <2>3, <2>4, <2>5 DEF ServesInv, Flows!ServesItsData
<1> QED
  BY <1>3, <1>4, <1>5, <1>6

\* A dialog opens: what it knows of its entry is true, and if it is not the only
\* one there, the entry is crossed.
LEMMA Opened ==
  ASSUME FlowInv, NEW d \in Dialogs, NEW o \in DialogData, Flows!Open(d, o),
         Sound(o, entries), o.entry # None => Knows(o, entries[o.entry])
  PROVE  FlowInv'
<1> USE DEF FlowInv
<1>1. /\ dialogs[d].step = "closed" /\ dialogs' = [dialogs EXCEPT ![d] = o]
      /\ crossed' = crossed \cup {e \in Flows!Present : e = o.entry /\ \E f \in Dialogs : dialogs[f].entry = e}
      /\ UNCHANGED <<entries, serving, runsOn, asked>>
  BY DEF Flows!Open, Flows!At, Flows!Shows
<1>2. FlowTypes'
  BY <1>1 DEF FlowTypes
<1>3. ~dialogs[d].released
  BY <1>1 DEF DialogsInv, SoundInv, Sound
<1>4. o.entry # None => o.entry \in Flows!Present
  BY DEF Sound, DialogData, Flows!Present
<1>5. DialogsInv'
  <2>1. crossed \subseteq crossed'
    BY <1>1
  <2>2. o.entry = None \/ \A f \in Dialogs \ {d} : dialogs[f].entry = o.entry => o.entry \in crossed'
    BY <1>1, <1>4
  <2> QED
    BY <1>1, <1>2, <2>1, <2>2, DialogsKept
<1>6. Flows!Present' = Flows!Present
  BY <1>1 DEF Flows!Present
<1>7. Flows!OneLocalPerDevice' /\ Flows!EntryWhole'
  BY <1>1, <1>6 DEF Flows!OneLocalPerDevice, Flows!EntryWhole
<1>8. ServesInv'
  <2>1. \A f \in Dialogs : dialogs[f].released => dialogs'[f] = dialogs[f]
    BY <1>1, <1>3 DEF FlowTypes
  <2>2. Flows!ServesItsData'
    BY <1>1, <1>6, <2>1 DEF ServesInv, Flows!ServesItsData
  <2> QED
    BY <1>1, <1>6, <2>2 DEF ServesInv
<1> QED
  BY <1>2, <1>5, <1>7, <1>8

\* Home Assistant sets the entry up with the data it has now.
LEMMA SetupStepsKeep ==
  ASSUME FlowInv, NEW e \in Entries, Flows!SetupBegins(e) \/ Flows!SetupEnds(e)
  PROVE  FlowInv'
<1> USE DEF FlowInv
<1>1. UNCHANGED <<entries, dialogs, opened, crossed>>
  BY DEF Flows!SetupBegins, Flows!SetupEnds
<1>2. /\ DialogsInv' /\ Flows!OneLocalPerDevice' /\ Flows!EntryWhole' /\ Flows!Present' = Flows!Present
  BY <1>1 DEF DialogsInv, SoundInv, KnowsInv, AloneInv, Flows!OneLocalPerDevice, Flows!EntryWhole, Flows!Present
<1>3. CASE Flows!SetupBegins(e)
  <2>1. /\ serving' = [serving EXCEPT ![e] = "starting"] /\ runsOn' = [runsOn EXCEPT ![e] = entries[e]]
        /\ asked' = asked \/ (asked[e] > 0 /\ asked' = [asked EXCEPT ![e] = @ - 1])
    BY <1>3 DEF Flows!SetupBegins
  <2>2. FlowTypes'
    BY <1>1, <2>1 DEF FlowTypes
  <2>3. \A f \in Entries : f # e => serving'[f] = serving[f] /\ runsOn'[f] = runsOn[f] /\ asked'[f] = asked[f]
    BY <2>1 DEF FlowTypes
  <2>4. serving'[e] = "starting" /\ runsOn'[e] = entries[e]
    BY <2>1 DEF FlowTypes
  <2>5. \A f \in Flows!Present : f \in Entries
    BY DEF Flows!Present
  <2>6. ServesInv'
    BY <1>1, <1>2, <2>3, <2>4, <2>5 DEF ServesInv, Flows!ServesItsData
  <2> QED
    BY <1>2, <2>2, <2>6
<1>4. CASE Flows!SetupEnds(e)
  <2>1. /\ serving[e] = "starting" /\ runsOn' = runsOn /\ asked' = asked
        /\ \E outcome \in {"loaded", "retrying"} : serving' = [serving EXCEPT ![e] = outcome]
    BY <1>4 DEF Flows!SetupEnds
  <2>2. FlowTypes'
    BY <1>1, <2>1 DEF FlowTypes
  <2>3. serving'[e] \in {"loaded", "retrying"} /\ \A f \in Entries : f # e => serving'[f] = serving[f]
    BY <2>1 DEF FlowTypes
  <2>4. \A f \in Flows!Present : f \in Entries
    BY DEF Flows!Present
  <2>5. ServesInv'
    BY <1>1, <1>2, <2>1, <2>3, <2>4 DEF ServesInv, Flows!ServesItsData
  <2> QED
    BY <1>2, <2>2, <2>5
<1> QED
  BY <1>3, <1>4

\* A reconfigure that turns to another host takes a running local entry down first.
LEMMA ProbesKeep ==
  ASSUME FlowInv, NEW d \in Dialogs, NEW host \in Hosts, Flows!ReconfigureProbes(d, host)
  PROVE  FlowInv'
<1> USE DEF FlowInv
<1> DEFINE e == dialogs[d].entry
           released == Flows!Releases(e, host)
<1>1. PICK device \in entries[e].devices :
          dialogs' = [dialogs EXCEPT ![d] =
              [dialogs[d] EXCEPT !.step = "probing", !.host = host, !.devices = {device}, !.released = released]]
  BY DEF Flows!ReconfigureProbes, Flows!Shows
<1>2. /\ dialogs[d].step = "local" /\ UNCHANGED <<entries, runsOn, asked, opened, crossed>>
      /\ released => serving' = [serving EXCEPT ![e] = "out"]
      /\ ~released => serving' = serving
  BY DEF Flows!ReconfigureProbes, Flows!At
<1>3. e # None /\ e \in Entries /\ entries[e] # None /\ ~dialogs[d].released
  BY <1>2 DEF DialogsInv, SoundInv, Sound, HeldSteps, FlowTypes, DialogData
<1>4. {device} \in SUBSET Serials
  BY <1>1, <1>3 DEF FlowTypes, Flows!EntryData
<1>5. released \in BOOLEAN
  BY DEF Flows!Releases
<1> DEFINE o == [dialogs[d] EXCEPT !.step = "probing", !.host = host, !.devices = {device}, !.released = released]
<1>6. o \in DialogData /\ o.step = "probing" /\ o.entry = e /\ o.host = host
  BY <1>4, <1>5 DEF FlowTypes, DialogData
<1>7. o.released = released
  BY DEF FlowTypes, DialogData
<1>8. dialogs' = [dialogs EXCEPT ![d] = o]
  BY <1>1
<1> HIDE DEF o, released
<1>9. FlowTypes'
  BY <1>2, <1>5, <1>6, <1>8, <1>3 DEF FlowTypes
<1>10. DialogsInv'
  <2>1. Sound(o, entries')
    BY <1>6, <1>2, <1>3 DEF Sound, FreeSteps, HeldSteps, OptionSteps, CredentialSteps, LocalSteps
  <2>2. Knows(o, entries'[o.entry])
    BY <1>6 DEF Knows, OptionSteps, CredentialSteps, LocalSteps
  <2> QED
    BY <2>1, <2>2, <1>2, <1>6, <1>8, <1>9, DialogsKept
<1>11. Flows!OneLocalPerDevice' /\ Flows!EntryWhole' /\ Flows!Present' = Flows!Present
  BY <1>2 DEF Flows!OneLocalPerDevice, Flows!EntryWhole, Flows!Present
<1>12. dialogs'[d] = o /\ \A f \in Dialogs : f # d => dialogs'[f] = dialogs[f]
  BY <1>8 DEF FlowTypes
<1>13. ServesInv'
  <2>1. \A f \in Flows!Present : f \in Entries
    BY DEF Flows!Present
  <2>2. CASE released
    <3>1. serving'[e] = "out" /\ \A f \in Entries : f # e => serving'[f] = serving[f]
      BY <2>2, <1>2, <1>3 DEF FlowTypes
    <3>2. o.released /\ o.entry = e
      BY <2>2, <1>6, <1>7
    <3>3. \A f \in Dialogs : dialogs[f].released => dialogs'[f] = dialogs[f]
      BY <1>3, <1>12
    <3> QED
      BY <1>2, <1>11, <1>12, <2>1, <3>1, <3>2, <3>3 DEF ServesInv, Flows!ServesItsData
  <2>3. CASE ~released
    <3>1. \A f \in Dialogs : dialogs[f].released => dialogs'[f] = dialogs[f]
      BY <1>3, <1>12
    <3> QED
      BY <1>2, <1>11, <2>3, <3>1 DEF ServesInv, Flows!ServesItsData
  <2> QED
    BY <2>2, <2>3
<1> QED
  BY <1>9, <1>10, <1>11, <1>13

\* The forms of a setup flow.
LEMMA SetupForms ==
  ASSUME FlowInv, NEW d \in Dialogs
  PROVE  /\ Flows!Close(d) => FlowInv'
         /\ \A mode \in {"standard", "enhanced", "local"} : Flows!SetupOpens(d, mode) => FlowInv'
         /\ \A secret \in Secrets, list \in Lists : Flows!SetupSignsIn(d, secret, list) => FlowInv'
         /\ \A host \in Hosts : Flows!SetupProbes(d, host) => FlowInv'
         /\ Flows!SetupReadsNothing(d) => FlowInv'
<1> USE DEF FlowInv
<1>1. dialogs[d] \in DialogData /\ Sound(dialogs[d], entries)
  BY DEF FlowTypes, DialogsInv, SoundInv
<1> USE DEF FreeSteps, HeldSteps, OptionSteps, CredentialSteps, LocalSteps, CloudModes
<1>2. dialogs[d].step # "probing" \/ dialogs[d].entry = None => ~dialogs[d].released
  BY <1>1 DEF Sound
<1>3. Flows!Close(d) => FlowInv'
  BY <1>2, Ended DEF Flows!Close, Flows!Waiting
<1>4. ASSUME NEW mode \in {"standard", "enhanced", "local"}, Flows!SetupOpens(d, mode)
      PROVE  FlowInv'
  <2> DEFINE o == [Flows!Closed EXCEPT !.step = IF mode = "local" THEN "setup local" ELSE "setup sign in", !.mode = mode]
  <2>1. Flows!Open(d, o)
    BY <1>4 DEF Flows!SetupOpens
  <2>2. o \in DialogData /\ o.entry = None /\ ~o.released
    BY DEF Flows!Closed, DialogData
  <2>3. (o.step = "setup sign in" /\ o.mode \in {"standard", "enhanced"}) \/ o.step = "setup local"
    BY DEF Flows!Closed
  <2> HIDE DEF o
  <2>4. Sound(o, entries)
    BY <2>2, <2>3 DEF Sound
  <2> QED
    BY <2>1, <2>2, <2>4, Opened
<1>5. ASSUME NEW secret \in Secrets, NEW list \in Lists, Flows!SetupSignsIn(d, secret, list)
      PROVE  FlowInv'
  <2> DEFINE o == [dialogs[d] EXCEPT !.step = "setup devices", !.secret = secret, !.list = list]
  <2>1. dialogs[d].step = "setup sign in" /\ Flows!Shows(d, o) /\ Flows!NothingSaved
    BY <1>5 DEF Flows!SetupSignsIn, Flows!At
  <2>2. dialogs[d].entry = None /\ dialogs[d].mode \in CloudModes /\ ~dialogs[d].released
    BY <1>1, <2>1 DEF Sound
  <2>3. /\ o \in DialogData /\ o.entry = None /\ o.step = "setup devices" /\ o.secret = secret
        /\ o.mode = dialogs[d].mode
    BY <1>1, <2>2, FlowConstants DEF DialogData
  <2>4. o.released = dialogs[d].released
    BY <1>1 DEF DialogData
  <2> HIDE DEF o
  <2>5. Sound(o, entries)
    BY <2>2, <2>3, <2>4 DEF Sound
  <2> QED
    BY <2>1, <2>2, <2>3, <2>5, Turned
<1>6. ASSUME NEW host \in Hosts, Flows!SetupProbes(d, host)
      PROVE  FlowInv'
  <2> DEFINE o == [dialogs[d] EXCEPT !.step = "probing", !.host = host]
  <2>1. dialogs[d].step = "setup local" /\ Flows!Shows(d, o) /\ Flows!NothingSaved
    BY <1>6 DEF Flows!SetupProbes, Flows!At
  <2>2. dialogs[d].entry = None /\ ~dialogs[d].released
    BY <1>1, <2>1 DEF Sound
  <2>3. o \in DialogData /\ o.entry = None /\ o.step = "probing" /\ o.host = host
    BY <1>1, <2>2 DEF DialogData
  <2>4. o.released = dialogs[d].released
    BY <1>1 DEF DialogData
  <2> HIDE DEF o
  <2>5. Sound(o, entries)
    BY <2>2, <2>3, <2>4 DEF Sound
  <2> QED
    BY <2>1, <2>2, <2>3, <2>5, Turned
<1>7. ASSUME Flows!SetupReadsNothing(d) PROVE FlowInv'
  <2> DEFINE o == [dialogs[d] EXCEPT !.step = "setup local"]
  <2>1. dialogs[d].entry = None /\ Flows!Shows(d, o) /\ Flows!NothingSaved
    BY <1>7 DEF Flows!SetupReadsNothing, Flows!Turns
  <2>2. o \in DialogData /\ o.entry = None /\ o.step = "setup local"
    BY <1>1, <2>1 DEF DialogData
  <2>3. o.released = dialogs[d].released
    BY <1>1 DEF DialogData
  <2> HIDE DEF o
  <2>4. Sound(o, entries)
    BY <1>2, <2>1, <2>2, <2>3 DEF Sound
  <2> QED
    BY <1>2, <2>1, <2>2, <2>4, Turned
<1> QED
  BY <1>3, <1>4, <1>5, <1>6, <1>7

\* What the flows put together is whole.
LEMMA NewEntries ==
  /\ \A mode \in CloudModes, secret \in Secrets, devices \in SUBSET Serials :
        /\ Flows!CloudEntry(mode, secret, devices) \in Flows!EntryData
        /\ Flows!CloudEntry(mode, secret, devices).mode = mode
        /\ Flows!CloudEntry(mode, secret, devices).devices = devices
        /\ devices # {} /\ Flows!Fits(mode, devices) => Flows!Whole(Flows!CloudEntry(mode, secret, devices))
  /\ \A host \in Hosts, serial \in Oceans :
        /\ Flows!LocalEntry(host, serial) \in Flows!EntryData
        /\ Flows!LocalEntry(host, serial).mode = "local"
        /\ Flows!LocalEntry(host, serial).devices = {serial}
        /\ Flows!Whole(Flows!LocalEntry(host, serial))
<1>1. ASSUME NEW mode \in CloudModes, NEW secret \in Secrets, NEW devices \in SUBSET Serials
      PROVE  /\ Flows!CloudEntry(mode, secret, devices) \in Flows!EntryData
             /\ Flows!CloudEntry(mode, secret, devices).mode = mode
             /\ Flows!CloudEntry(mode, secret, devices).devices = devices
             /\ devices # {} /\ Flows!Fits(mode, devices) => Flows!Whole(Flows!CloudEntry(mode, secret, devices))
  <2>1. CASE mode = "enhanced"
    <3>1. Flows!CloudEntry(mode, secret, devices) = [mode |-> "enhanced", method |-> "app", account |-> secret,
              keys |-> None, host |-> None, devices |-> devices]
      BY <2>1 DEF Flows!CloudEntry, Flows!AccountEntry
    <3> QED
      BY <2>1, <3>1, FlowConstants DEF Flows!EntryData, Flows!Whole
  <2>2. CASE mode = "standard"
    <3>1. Flows!CloudEntry(mode, secret, devices) = [mode |-> "standard", method |-> "developer", account |-> None,
              keys |-> secret, host |-> None, devices |-> devices]
      BY <2>2 DEF Flows!CloudEntry, Flows!KeysEntry
    <3> QED
      BY <2>2, <3>1, FlowConstants DEF Flows!EntryData, Flows!Whole
  <2> QED
    BY <2>1, <2>2 DEF CloudModes
<1>2. ASSUME NEW host \in Hosts, NEW serial \in Oceans
      PROVE  /\ Flows!LocalEntry(host, serial) \in Flows!EntryData
             /\ Flows!LocalEntry(host, serial).mode = "local"
             /\ Flows!LocalEntry(host, serial).devices = {serial}
             /\ Flows!Whole(Flows!LocalEntry(host, serial))
  BY FlowConstants DEF Flows!LocalEntry, Flows!EntryData, Flows!Whole, Flows!SingleOcean
<1> QED
  BY <1>1, <1>2

\* A setup flow makes its entry after the last look at the others.
LEMMA SetupEntries ==
  ASSUME FlowInv, NEW d \in Dialogs
  PROVE  /\ \A selected \in SUBSET Serials : Flows!SetupPicks(d, selected) => FlowInv'
         /\ \A serial \in Oceans : Flows!SetupReads(d, serial) => FlowInv'
<1> USE DEF FlowInv
<1>1. dialogs[d] \in DialogData /\ Sound(dialogs[d], entries)
  BY DEF FlowTypes, DialogsInv, SoundInv
<1>2. ASSUME NEW selected \in SUBSET Serials, Flows!SetupPicks(d, selected) PROVE FlowInv'
  <2>1. dialogs[d].step = "setup devices" /\ selected # {} /\ Flows!Fits(dialogs[d].mode, selected) /\ Flows!Ends(d)
    BY <1>2 DEF Flows!SetupPicks, Flows!At
  <2>2. ~dialogs[d].released /\ dialogs[d].mode \in CloudModes /\ dialogs[d].secret \in Secrets
    BY <1>1, <2>1 DEF Sound
  <2>3. Flows!NothingSaved \/ Flows!Create(Flows!CloudEntry(dialogs[d].mode, dialogs[d].secret, selected))
    BY <1>2 DEF Flows!SetupPicks
  <2>4. CASE Flows!NothingSaved
    BY <2>1, <2>2, <2>4, Ended
  <2>5. CASE Flows!Create(Flows!CloudEntry(dialogs[d].mode, dialogs[d].secret, selected))
    <3> DEFINE data == Flows!CloudEntry(dialogs[d].mode, dialogs[d].secret, selected)
    <3>1. data \in Flows!EntryData /\ data.mode # "local" /\ Flows!Whole(data)
      BY <2>1, <2>2, NewEntries DEF CloudModes
    <3> QED
      BY <2>1, <2>2, <2>5, <3>1, CreatedAndEnded
  <2> QED
    BY <2>3, <2>4, <2>5
<1>3. ASSUME NEW serial \in Oceans, Flows!SetupReads(d, serial) PROVE FlowInv'
  <2>1. dialogs[d].step = "probing" /\ dialogs[d].entry = None /\ Flows!Ends(d)
    BY <1>3 DEF Flows!SetupReads, Flows!At
  <2>2. ~dialogs[d].released /\ dialogs[d].host \in Hosts
    BY <1>1, <2>1 DEF Sound
  <2> DEFINE data == Flows!LocalEntry(dialogs[d].host, serial)
  <2>3. Flows!NothingSaved \/ (Flows!InNoEntry(None, serial) /\ Flows!Create(data))
    BY <1>3 DEF Flows!SetupReads
  <2>4. CASE Flows!NothingSaved
    BY <2>1, <2>2, <2>4, Ended
  <2>5. CASE Flows!InNoEntry(None, serial) /\ Flows!Create(data)
    <3>1. data \in Flows!EntryData /\ data.devices = {serial} /\ Flows!Whole(data)
      BY <2>2, NewEntries
    <3>2. \A f \in Flows!Present : {serial} \cap entries[f].devices = {}
      <4>1. \A f \in Flows!Present : f # None
        BY FlowConstants DEF Flows!Present
      <4> QED
        BY <2>5, <4>1 DEF Flows!InNoEntry, Flows!InOtherEntry
    <3> HIDE DEF data
    <3> QED
      BY <2>1, <2>2, <2>5, <3>1, <3>2, CreatedAndEnded
  <2> QED
    BY <2>3, <2>4, <2>5
<1> QED
  BY <1>2, <1>3

\* The data options save, from those of the entry.
LEMMA SavedFacts ==
  ASSUME NEW data \in Flows!EntryData, NEW mode \in CloudModes, NEW devices \in SUBSET Serials,
         NEW account \in Secrets \cup {None}, NEW keys \in Secrets \cup {None}
  PROVE  /\ Flows!Saved(data, mode, devices, account, keys) \in Flows!EntryData
         /\ Flows!Saved(data, mode, devices, account, keys).mode = mode
         /\ Flows!Saved(data, mode, devices, account, keys).devices = devices
         /\ Flows!Saved(data, mode, devices, account, keys).host = data.host
         /\ mode = "enhanced" => Flows!Saved(data, mode, devices, account, keys).account
                                     = IF account = None THEN data.account ELSE account
         /\ mode = "standard" => Flows!Saved(data, mode, devices, account, keys).keys
                                     = IF keys = None THEN data.keys ELSE keys
<1>1. CASE mode = "enhanced"
  <2> DEFINE kept == IF account = None THEN data.account ELSE account
  <2>1. Flows!Saved(data, mode, devices, account, keys)
            = [data EXCEPT !.mode = mode, !.method = "app", !.devices = devices, !.account = kept]
    BY <1>1 DEF Flows!Saved
  <2>2. kept \in Secrets \cup {None}
    BY DEF Flows!EntryData
  <2> QED
    BY <1>1, <2>1, <2>2 DEF Flows!EntryData
<1>2. CASE mode = "standard"
  <2> DEFINE kept == IF keys = None THEN data.keys ELSE keys
  <2>1. Flows!Saved(data, mode, devices, account, keys)
            = [data EXCEPT !.mode = mode, !.method = "developer", !.devices = devices, !.account = None, !.keys = kept]
    BY <1>2 DEF Flows!Saved
  <2>2. kept \in Secrets \cup {None}
    BY DEF Flows!EntryData
  <2> QED
    BY <1>2, <2>1, <2>2 DEF Flows!EntryData
<1> QED
  BY <1>1, <1>2 DEF CloudModes

\* A save of the options leaves the entry whole, if no other dialog was on it.
LEMMA OptionsSaveKeeps ==
  ASSUME FlowInv, ~Hasty, NEW d \in Dialogs, NEW e \in Entries, e = dialogs[d].entry, ~dialogs[d].released,
         NEW list \in SUBSET Serials, NEW mode \in CloudModes, NEW selected \in SUBSET Serials,
         NEW account \in Secrets \cup {None}, NEW keys \in Secrets \cup {None},
         Flows!OptionsSave(d, list, mode, selected, account, keys),
         e \notin crossed =>
             /\ entries[e].mode # "local"
             /\ selected # {} /\ selected \subseteq list \cup entries[e].devices /\ Flows!Fits(mode, selected)
             /\ mode = "enhanced" => account # None \/ entries[e].mode = "enhanced"
             /\ mode = "standard" => keys # None \/ entries[e].keys # None
  PROVE  FlowInv'
<1> USE DEF FlowInv
<1> DEFINE devices == selected \cap (list \cup entries[e].devices)
           data == Flows!Saved(entries[e], mode, devices, account, keys)
<1>1. entries[e] \in Flows!EntryData /\ entries[e] # None
  BY FlowConstants DEF FlowTypes, DialogsInv, SoundInv, Sound
<1>2. devices \in SUBSET Serials
  OBVIOUS
<1>3. Flows!Update(e, data) /\ Flows!Ends(d)
  BY DEF Flows!OptionsSave
<1>4. data \in Flows!EntryData /\ data.mode # "local"
  BY <1>1, <1>2, SavedFacts DEF CloudModes
<1>5. ASSUME e \notin crossed PROVE Flows!Whole(data)
  <2>1. Flows!Whole(entries[e])
    BY <1>1, <1>5 DEF Flows!EntryWhole, Flows!Present
  <2>2. devices = selected
    BY <1>5
  <2>3. /\ data.mode = mode /\ data.devices = selected /\ data.host = entries[e].host
        /\ mode = "enhanced" => data.account = IF account = None THEN entries[e].account ELSE account
        /\ mode = "standard" => data.keys = IF keys = None THEN entries[e].keys ELSE keys
    <3>1. /\ data.mode = mode /\ data.devices = devices /\ data.host = entries[e].host
          /\ mode = "enhanced" => data.account = IF account = None THEN entries[e].account ELSE account
          /\ mode = "standard" => data.keys = IF keys = None THEN entries[e].keys ELSE keys
      <4> HIDE DEF devices
      <4> QED
        BY <1>1, <1>2, SavedFacts
    <3> HIDE DEF data, devices
    <3> QED
      BY <3>1, <2>2
  <2>4. entries[e].mode # "local" => entries[e].host = None
    BY <2>1 DEF Flows!Whole
  <2>5. entries[e].mode = "enhanced" => entries[e].account # None
    BY <2>1 DEF Flows!Whole
  <2> HIDE DEF data, devices
  <2> QED
    BY <1>5, <2>3, <2>4, <2>5 DEF Flows!Whole, CloudModes
<1> HIDE DEF data
<1> QED
  BY <1>3, <1>4, <1>5, UpdateReloads

\* A submitted form, with the list it was made from or one that was just fetched.
LEMMA OptionsDecideKeeps ==
  ASSUME FlowInv, ~Hasty, NEW d \in Dialogs, NEW e \in Entries, e = dialogs[d].entry, ~dialogs[d].released,
         NEW list \in SUBSET Serials, NEW was, NEW mode \in CloudModes, NEW selected \in SUBSET Serials,
         Flows!OptionsDecide(d, list, was, mode, selected),
         e \notin crossed => /\ was = entries[e].mode /\ was # "local"
                             /\ selected \subseteq list \cup entries[e].devices
  PROVE  FlowInv'
<1> USE DEF FlowInv
<1> USE DEF FreeSteps, HeldSteps, OptionSteps, CredentialSteps, LocalSteps
<1>1. dialogs[d] \in DialogData /\ Sound(dialogs[d], entries) /\ selected # {} /\ Flows!Fits(mode, selected)
  BY DEF FlowTypes, DialogsInv, SoundInv, Flows!OptionsDecide
<1>2. ASSUME NEW step \in {"options account", "options keys"},
             Flows!Shows(d, [dialogs[d] EXCEPT !.step = step, !.mode = mode, !.devices = selected, !.list = list]),
             Flows!NothingSaved,
             step = "options account" => mode = "enhanced", step = "options keys" => mode = "standard"
      PROVE  FlowInv'
  <2> DEFINE o == [dialogs[d] EXCEPT !.step = step, !.mode = mode, !.devices = selected, !.list = list]
  <2>1. /\ o \in DialogData /\ o.step = step /\ o.mode = mode /\ o.devices = selected /\ o.list = list
        /\ o.entry = e
    BY <1>1 DEF DialogData
  <2>2. o.released = dialogs[d].released
    BY <1>1 DEF DialogData
  <2>3. Flows!Shows(d, o)
    BY <1>2
  <2> HIDE DEF o
  <2>4. Sound(o, entries)
    BY <1>1, <1>2, <2>1, <2>2, FlowConstants DEF Sound
  <2>5. e \notin crossed => Knows(o, entries[e])
    BY <1>1, <1>2, <2>1 DEF Knows
  <2> QED
    BY <1>2, <2>1, <2>3, <2>4, <2>5, Turned
<1>3. CASE Flows!AsksAccount(mode, was) \/ Flows!AsksKeys(mode, was, entries[e])
  <2>1. CASE Flows!AsksAccount(mode, was)
    <3>1. mode = "enhanced" /\ ~Flows!AsksKeys(mode, was, entries[e])
      BY <2>1 DEF Flows!AsksAccount, Flows!AsksKeys
    <3>2. Flows!Shows(d, [dialogs[d] EXCEPT !.step = "options account", !.mode = mode, !.devices = selected, !.list = list])
          /\ Flows!NothingSaved
      BY <2>1, <3>1 DEF Flows!OptionsDecide
    <3> QED
      BY <1>2, <3>1, <3>2
  <2>2. CASE Flows!AsksKeys(mode, was, entries[e])
    <3>1. mode = "standard" /\ ~Flows!AsksAccount(mode, was)
      BY <2>2 DEF Flows!AsksAccount, Flows!AsksKeys, CloudModes
    <3>2. Flows!Shows(d, [dialogs[d] EXCEPT !.step = "options keys", !.mode = mode, !.devices = selected, !.list = list])
          /\ Flows!NothingSaved
      BY <2>2, <3>1 DEF Flows!OptionsDecide
    <3> QED
      BY <1>2, <3>1, <3>2
  <2> QED
    BY <1>3, <2>1, <2>2
<1>4. CASE ~Flows!AsksAccount(mode, was) /\ ~Flows!AsksKeys(mode, was, entries[e])
  <2>1. Flows!OptionsSave(d, list, mode, selected, None, None)
    BY <1>4 DEF Flows!OptionsDecide
  <2>2. e \notin crossed =>
            /\ mode = "enhanced" => entries[e].mode = "enhanced"
            /\ mode = "standard" => entries[e].keys # None
    BY <1>4 DEF Flows!AsksAccount, Flows!AsksKeys
  <2> QED
    BY <1>1, <2>1, <2>2, OptionsSaveKeeps
<1> QED
  BY <1>3, <1>4

\* The forms of an options flow.
LEMMA OptionsKeep ==
  ASSUME FlowInv, ~Hasty, NEW d \in Dialogs
  PROVE  /\ \A e \in Entries, list \in Lists : Flows!OptionsOpen(d, e, list) => FlowInv'
         /\ \A mode \in {"standard", "enhanced"}, selected \in SUBSET Serials :
                Flows!OptionsSubmit(d, mode, selected) => FlowInv'
         /\ \A list \in Lists : Flows!OptionsFetched(d, list) => FlowInv'
         /\ \A secret \in Secrets : Flows!OptionsSignsIn(d, secret) => FlowInv'
<1> USE DEF FlowInv
<1> USE DEF FreeSteps, HeldSteps, OptionSteps, CredentialSteps, LocalSteps, CloudModes
<1> DEFINE e == dialogs[d].entry
<1>1. dialogs[d] \in DialogData /\ Sound(dialogs[d], entries)
  BY DEF FlowTypes, DialogsInv, SoundInv
<1>2. dialogs[d].step \in OptionSteps => e \in Entries /\ e # None /\ ~dialogs[d].released /\ entries[e] \in Flows!EntryData
  BY <1>1 DEF Sound, DialogData, FlowTypes
<1>3. e # None /\ e \notin crossed => Knows(dialogs[d], entries[e])
  BY DEF DialogsInv, KnowsInv
<1>4. ASSUME NEW f \in Entries, NEW list \in Lists, Flows!OptionsOpen(d, f, list) PROVE FlowInv'
  <2> DEFINE devices == IF list = {} THEN entries[f].devices ELSE list
             o == [Flows!Closed EXCEPT !.step = "options", !.entry = f, !.list = list, !.devices = devices]
  <2>1. entries[f] \in Flows!EntryData /\ entries[f] # None /\ entries[f].mode # "local" /\ Flows!Open(d, o)
    BY <1>4, FlowConstants DEF Flows!OptionsOpen, Flows!Present, FlowTypes
  <2>2. list \subseteq Serials /\ devices \subseteq Serials /\ devices \subseteq list \cup entries[f].devices
    BY <2>1, FlowConstants DEF Flows!EntryData
  <2> HIDE DEF devices
  <2>3. /\ o \in DialogData /\ o.step = "options" /\ o.entry = f /\ o.list = list /\ o.devices = devices
        /\ ~o.released
    BY <2>2 DEF Flows!Closed, DialogData
  <2> HIDE DEF o
  <2>4. Sound(o, entries) /\ Knows(o, entries[f])
    BY <2>1, <2>2, <2>3, FlowConstants DEF Sound, Knows
  <2> QED
    BY <2>1, <2>3, <2>4, Opened
<1>5. ASSUME NEW mode \in {"standard", "enhanced"}, NEW selected \in SUBSET Serials, Flows!OptionsSubmit(d, mode, selected)
      PROVE  FlowInv'
  <2>1. dialogs[d].step = "options" /\ selected \subseteq dialogs[d].devices
    BY <1>5 DEF Flows!OptionsSubmit, Flows!At
  <2>2. e \in Entries /\ e # None /\ ~dialogs[d].released /\ entries[e] \in Flows!EntryData
    BY <1>2, <2>1
  <2>3. e \notin crossed => entries[e].mode # "local" /\ selected \subseteq dialogs[d].list \cup entries[e].devices
    BY <1>3, <2>1, <2>2 DEF Knows
  <2>4. CASE Flows!Ends(d) /\ Flows!NothingSaved
    BY <2>2, <2>4, Ended
  <2>5. CASE Flows!OptionsDecide(d, dialogs[d].list, entries[e].mode, mode, selected)
    <3>1. dialogs[d].list \in SUBSET Serials
      BY <1>1 DEF DialogData
    <3>2. e \notin crossed => /\ entries[e].mode = entries[e].mode /\ entries[e].mode # "local"
                              /\ selected \subseteq dialogs[d].list \cup entries[e].devices
      BY <2>3
    <3>3. e = dialogs[d].entry
      OBVIOUS
    <3> HIDE DEF e, FlowInv, CloudModes, FreeSteps, HeldSteps, OptionSteps, CredentialSteps, LocalSteps
    <3>4. FlowInv /\ mode \in CloudModes
      BY DEF FlowInv, CloudModes
    <3> QED
      BY <2>2, <2>5, <3>1, <3>2, <3>3, <3>4, OptionsDecideKeeps
  <2>6. CASE /\ dialogs[d].list = {}
             /\ Flows!Shows(d, [dialogs[d] EXCEPT !.step = "options fetch", !.devices = selected, !.mode = mode,
                                                  !.secret = entries[e].mode])
             /\ Flows!NothingSaved
    <3> DEFINE o == [dialogs[d] EXCEPT !.step = "options fetch", !.devices = selected, !.mode = mode, !.secret = entries[e].mode]
    <3>1. entries[e].mode \in {"standard", "enhanced", "local"}
      BY <2>2 DEF Flows!EntryData
    <3>2. /\ o \in DialogData /\ o.step = "options fetch" /\ o.devices = selected /\ o.mode = mode
          /\ o.secret = entries[e].mode /\ o.entry = e
      BY <1>1, <3>1 DEF DialogData
    <3>3. o.released = dialogs[d].released
      BY <1>1 DEF DialogData
    <3>4. Flows!Shows(d, o)
      BY <2>6
    <3> HIDE DEF o
    <3>5. Sound(o, entries)
      BY <1>1, <2>2, <3>2, <3>3, FlowConstants DEF Sound
    <3>6. e \notin crossed => Knows(o, entries[e])
      BY <2>3, <2>6, <3>2 DEF Knows
    <3> QED
      BY <2>2, <2>6, <3>2, <3>4, <3>5, <3>6, Turned
  <2> QED
    BY <1>5, <2>4, <2>5, <2>6 DEF Flows!OptionsSubmit
<1>6. ASSUME NEW list \in Lists, Flows!OptionsFetched(d, list) PROVE FlowInv'
  <2>1. /\ dialogs[d].step = "options fetch"
        /\ Flows!OptionsDecide(d, list, dialogs[d].secret, dialogs[d].mode, dialogs[d].devices)
    BY <1>6 DEF Flows!OptionsFetched, Flows!At
  <2>2. e \in Entries /\ e # None /\ ~dialogs[d].released
    BY <1>2, <2>1
  <2>3. dialogs[d].mode \in CloudModes /\ dialogs[d].devices \in SUBSET Serials /\ list \in SUBSET Serials
    BY <1>1, <2>1, FlowConstants DEF Sound, DialogData
  <2>4. e \notin crossed => /\ dialogs[d].secret = entries[e].mode /\ dialogs[d].secret # "local"
                            /\ dialogs[d].devices \subseteq list \cup entries[e].devices
    BY <1>3, <2>1, <2>2 DEF Knows
  <2>5. e = dialogs[d].entry
    OBVIOUS
  <2> HIDE DEF e, FlowInv, CloudModes, FreeSteps, HeldSteps, OptionSteps, CredentialSteps, LocalSteps
  <2>6. FlowInv
    BY DEF FlowInv
  <2> QED
    BY <2>1, <2>2, <2>3, <2>4, <2>5, <2>6, OptionsDecideKeeps
<1>7. ASSUME NEW secret \in Secrets, Flows!OptionsSignsIn(d, secret) PROVE FlowInv'
  <2>1. \/ dialogs[d].step = "options account"
              /\ Flows!OptionsSave(d, dialogs[d].list, dialogs[d].mode, dialogs[d].devices, secret, None)
        \/ dialogs[d].step = "options keys"
              /\ Flows!OptionsSave(d, dialogs[d].list, dialogs[d].mode, dialogs[d].devices, None, secret)
    BY <1>7 DEF Flows!OptionsSignsIn, Flows!At
  <2>2. e \in Entries /\ e # None /\ ~dialogs[d].released
    BY <1>2, <2>1
  <2>3. /\ dialogs[d].devices \in SUBSET Serials /\ dialogs[d].list \in SUBSET Serials
        /\ dialogs[d].step = "options account" => dialogs[d].mode = "enhanced"
        /\ dialogs[d].step = "options keys" => dialogs[d].mode = "standard"
    BY <1>1 DEF Sound, DialogData
  <2>4. e \notin crossed => /\ entries[e].mode # "local" /\ dialogs[d].devices # {}
                            /\ dialogs[d].devices \subseteq dialogs[d].list \cup entries[e].devices
                            /\ Flows!Fits(dialogs[d].mode, dialogs[d].devices)
    BY <1>3, <2>1, <2>2 DEF Knows
  <2>5. CASE dialogs[d].step = "options account"
    <3>1. Flows!OptionsSave(d, dialogs[d].list, "enhanced", dialogs[d].devices, secret, None)
      BY <2>1, <2>3, <2>5
    <3> QED
      BY <2>2, <2>3, <2>4, <2>5, <3>1, FlowConstants, OptionsSaveKeeps
  <2>6. CASE dialogs[d].step = "options keys"
    <3>1. Flows!OptionsSave(d, dialogs[d].list, "standard", dialogs[d].devices, None, secret)
      BY <2>1, <2>3, <2>6
    <3> QED
      BY <2>2, <2>3, <2>4, <2>6, <3>1, FlowConstants, OptionsSaveKeeps
  <2> QED
    BY <2>1, <2>5, <2>6
<1> QED
  BY <1>4, <1>5, <1>6, <1>7

\* The forms that ask for credentials again.
LEMMA RenewalsKeep ==
  ASSUME FlowInv, ~Hasty, NEW d \in Dialogs, NEW secret \in Secrets,
         Flows!RenewsAccount(d, secret) \/ Flows!RenewsKeys(d, secret) \/ Flows!RenewsBoth(d, secret)
  PROVE  FlowInv'
<1> USE DEF FlowInv
<1> USE DEF FreeSteps, HeldSteps, OptionSteps, CredentialSteps, LocalSteps, CloudModes
<1> DEFINE e == dialogs[d].entry
<1>1. dialogs[d] \in DialogData /\ Sound(dialogs[d], entries) /\ dialogs[d].step \in CredentialSteps
  BY DEF FlowTypes, DialogsInv, SoundInv, Flows!RenewsAccount, Flows!RenewsKeys, Flows!RenewsBoth, Flows!At
<1>2. e \in Entries /\ e # None /\ ~dialogs[d].released /\ entries[e] \in Flows!EntryData /\ entries[e] # None
  BY <1>1, FlowConstants DEF Sound, DialogData, FlowTypes
<1>3. e \notin crossed => entries[e].mode # "local" /\ Flows!Whole(entries[e])
  BY <1>1, <1>2 DEF DialogsInv, KnowsInv, Knows, Flows!EntryWhole, Flows!Present
<1>4. ASSUME NEW data \in Flows!EntryData, Flows!Update(e, data) /\ Flows!Ends(d),
             data.mode = entries[e].mode, data.devices = entries[e].devices, data.host = entries[e].host,
             data.account = entries[e].account \/ data.account \in Secrets,
             data.keys = entries[e].keys \/ data.keys \in Secrets
      PROVE  FlowInv'
  <2>1. e \notin crossed => Flows!Whole(data)
    BY <1>3, <1>4, FlowConstants DEF Flows!Whole
  <2> QED
    BY <1>2, <1>4, <2>1, UpdateReloads
<1>5. CASE Flows!RenewsAccount(d, secret)
  <2> DEFINE data == [entries[e] EXCEPT !.account = secret]
  <2>1. Flows!Update(e, data) /\ Flows!Ends(d)
    BY <1>5 DEF Flows!RenewsAccount
  <2>2. /\ data \in Flows!EntryData /\ data.mode = entries[e].mode /\ data.devices = entries[e].devices
        /\ data.host = entries[e].host /\ data.account = secret /\ data.keys = entries[e].keys
    BY <1>2 DEF Flows!EntryData
  <2> HIDE DEF data
  <2> QED
    BY <2>1, <2>2, <1>4
<1>6. CASE Flows!RenewsKeys(d, secret)
  <2>1. dialogs[d].step = "keys"
    BY <1>6 DEF Flows!RenewsKeys, Flows!At
  <2>2. CASE entries[e].mode = "enhanced"
    <3> DEFINE o == [dialogs[d] EXCEPT !.step = "account too", !.secret = secret]
    <3>1. Flows!Shows(d, o) /\ Flows!NothingSaved
      BY <1>6, <2>2 DEF Flows!RenewsKeys
    <3>2. o \in DialogData /\ o.step = "account too" /\ o.secret = secret /\ o.entry = e
      BY <1>1 DEF DialogData
    <3>3. o.released = dialogs[d].released
      BY <1>1 DEF DialogData
    <3> HIDE DEF o
    <3>4. Sound(o, entries)
      BY <1>2, <3>2, <3>3 DEF Sound
    <3>5. e \notin crossed => Knows(o, entries[e])
      BY <1>3, <3>2 DEF Knows
    <3> QED
      BY <1>2, <3>1, <3>2, <3>4, <3>5, Turned
  <2>3. CASE entries[e].mode # "enhanced"
    <3> DEFINE data == [entries[e] EXCEPT !.keys = secret]
    <3>1. Flows!Update(e, data) /\ Flows!Ends(d)
      BY <1>6, <2>3 DEF Flows!RenewsKeys
    <3>2. /\ data \in Flows!EntryData /\ data.mode = entries[e].mode /\ data.devices = entries[e].devices
          /\ data.host = entries[e].host /\ data.keys = secret /\ data.account = entries[e].account
      BY <1>2 DEF Flows!EntryData
    <3> HIDE DEF data
    <3> QED
      BY <3>1, <3>2, <1>4
  <2> QED
    BY <2>2, <2>3
<1>7. CASE Flows!RenewsBoth(d, secret)
  <2> DEFINE data == [entries[e] EXCEPT !.keys = dialogs[d].secret, !.account = secret]
  <2>1. dialogs[d].step = "account too" /\ Flows!Update(e, data) /\ Flows!Ends(d)
    BY <1>7 DEF Flows!RenewsBoth, Flows!At
  <2>2. dialogs[d].secret \in Secrets
    BY <1>1, <2>1 DEF Sound
  <2>3. /\ data \in Flows!EntryData /\ data.mode = entries[e].mode /\ data.devices = entries[e].devices
        /\ data.host = entries[e].host /\ data.keys = dialogs[d].secret /\ data.account = secret
    BY <1>2, <2>2 DEF Flows!EntryData
  <2> HIDE DEF data
  <2> QED
    BY <2>1, <2>2, <2>3, <1>4
<1> QED
  BY <1>5, <1>6, <1>7

\* Reauth and reconfigure open on what the entry is.
LEMMA OpensKeep ==
  ASSUME FlowInv, NEW d \in Dialogs, NEW e \in Entries, Flows!ReauthStarts(d, e) \/ Flows!ReconfigureOpens(d, e)
  PROVE  FlowInv'
<1> USE DEF FreeSteps, HeldSteps, OptionSteps, CredentialSteps, LocalSteps, CloudModes
<1>1. Flows!CredentialForm(e) \in {"account", "keys"} /\ e # None
  BY FlowConstants DEF Flows!CredentialForm
<1>2. ASSUME NEW o \in DialogData, Flows!Open(d, o), e \in Flows!Present, o.entry = e, ~o.released,
             \/ o.step = "menu of local" /\ entries[e].mode = "local"
             \/ o.step \in {"account", "keys", "menu of cloud"} /\ entries[e].mode # "local"
      PROVE  FlowInv'
  <2>1. entries[e] # None
    BY <1>2 DEF Flows!Present
  <2>2. Sound(o, entries) /\ Knows(o, entries[o.entry])
    BY <1>1, <1>2, <2>1 DEF Sound, Knows
  <2> QED
    BY <1>2, <2>2, Opened
<1>3. CASE Flows!ReauthStarts(d, e)
  <2> DEFINE o == [Flows!Closed EXCEPT !.step = Flows!CredentialForm(e), !.entry = e, !.mode = "reauth"]
  <2>1. e \in Flows!Present /\ entries[e].mode # "local" /\ Flows!Open(d, o)
    BY <1>3 DEF Flows!ReauthStarts
  <2>2. o \in DialogData /\ o.entry = e /\ ~o.released /\ o.step \in {"account", "keys"}
    BY <1>1 DEF Flows!Closed, DialogData
  <2> HIDE DEF o
  <2> QED
    BY <1>2, <2>1, <2>2
<1>4. CASE Flows!ReconfigureOpens(d, e)
  <2> DEFINE step == CASE entries[e].mode = "local" -> "menu of local"
                       [] Flows!SingleOcean(entries[e].devices) /\ entries[e].mode # "local" -> "menu of cloud"
                       [] OTHER -> Flows!CredentialForm(e)
             o == [Flows!Closed EXCEPT !.entry = e, !.step = step]
  <2>1. e \in Flows!Present /\ Flows!Open(d, o)
    BY <1>4 DEF Flows!ReconfigureOpens
  <2>2. \/ step = "menu of local" /\ entries[e].mode = "local"
        \/ step \in {"account", "keys", "menu of cloud"} /\ entries[e].mode # "local"
    BY <1>1
  <2> HIDE DEF step
  <2>3. o \in DialogData /\ o.entry = e /\ ~o.released /\ o.step = step
    BY <2>2 DEF Flows!Closed, DialogData
  <2> HIDE DEF o
  <2> QED
    BY <1>2, <2>1, <2>2, <2>3
<1> QED
  BY <1>3, <1>4

\* The forms of a reconfigure.
LEMMA ReconfigureFormsKeep ==
  ASSUME FlowInv, NEW d \in Dialogs, Flows!ReconfigureChooses(d) \/ Flows!ReconfigureReadsNothing(d)
  PROVE  FlowInv'
<1> USE DEF FlowInv
<1> USE DEF FreeSteps, HeldSteps, OptionSteps, CredentialSteps, LocalSteps, CloudModes
<1> DEFINE e == dialogs[d].entry
<1>1. dialogs[d] \in DialogData /\ Sound(dialogs[d], entries)
  BY DEF FlowTypes, DialogsInv, SoundInv
<1>2. e # None => e \in Entries /\ entries[e] # None
  BY <1>1 DEF Sound, DialogData
<1>3. CASE Flows!ReconfigureChooses(d)
  <2>1. dialogs[d].step \in {"menu of cloud", "menu of local"} /\ Flows!NothingSaved
    BY <1>3 DEF Flows!ReconfigureChooses, Flows!At
  <2>2. e # None /\ ~dialogs[d].released
    BY <1>1, <2>1 DEF Sound
  <2>3. e \notin crossed => Knows(dialogs[d], entries[e])
    BY <2>2 DEF DialogsInv, KnowsInv
  <2>4. ASSUME NEW step \in {"account", "keys", "local", "switch"}, NEW mode \in CloudModes \cup {dialogs[d].mode},
               Flows!Shows(d, [dialogs[d] EXCEPT !.step = step, !.mode = mode]),
               step \in {"account", "keys"} => dialogs[d].step = "menu of cloud",
               step = "switch" => dialogs[d].step = "menu of local" /\ mode \in CloudModes
        PROVE  FlowInv'
    <3> DEFINE o == [dialogs[d] EXCEPT !.step = step, !.mode = mode]
    <3>0. mode \in CloudModes \cup {"local", "reauth", None}
      BY <1>1, <2>4 DEF DialogData
    <3>1. o \in DialogData /\ o.step = step /\ o.mode = mode /\ o.entry = e
      <4>1. o.step = step /\ o.mode = mode /\ o.entry = e
        BY <1>1 DEF DialogData
      <4>2. step \in FreeSteps \cup HeldSteps \cup {"probing"}
        OBVIOUS
      <4>3. o \in DialogData
        BY <1>1, <3>0, <4>2 DEF DialogData
      <4> QED
        BY <4>1, <4>3
    <3>2. o.released = dialogs[d].released
      BY <1>1 DEF DialogData
    <3>3. Flows!Shows(d, o)
      BY <2>4
    <3> HIDE DEF o
    <3>4. Sound(o, entries)
      BY <1>2, <2>2, <2>4, <3>1, <3>2 DEF Sound
    <3>5. e \notin crossed => Knows(o, entries[e])
      BY <2>3, <2>4, <3>1 DEF Knows
    <3> QED
      BY <2>1, <2>2, <3>1, <3>3, <3>4, <3>5, Turned
  <2>5. ASSUME NEW step, Flows!Turns(d, step)
        PROVE  Flows!Shows(d, [dialogs[d] EXCEPT !.step = step, !.mode = dialogs[d].mode])
    <3>1. [dialogs[d] EXCEPT !.step = step] = [dialogs[d] EXCEPT !.step = step, !.mode = dialogs[d].mode]
      BY <1>1 DEF DialogData
    <3> QED
      BY <2>5, <3>1 DEF Flows!Turns
  <2>6. CASE Flows!At(d, "menu of cloud") /\ Flows!Turns(d, Flows!CredentialForm(e))
    <3>1. Flows!CredentialForm(e) \in {"account", "keys"}
      BY DEF Flows!CredentialForm
    <3> QED
      BY <2>4, <2>5, <2>6, <3>1 DEF Flows!At
  <2>7. CASE Flows!Turns(d, "local")
    BY <2>4, <2>5, <2>7
  <2>8. CASE /\ Flows!At(d, "menu of local")
             /\ \E mode \in CloudModes : Flows!Shows(d, [dialogs[d] EXCEPT !.step = "switch", !.mode = mode])
    BY <2>4, <2>8 DEF Flows!At
  <2> QED
    BY <1>3, <2>6, <2>7, <2>8 DEF Flows!ReconfigureChooses
<1>4. CASE Flows!ReconfigureReadsNothing(d)
  <2> DEFINE o == [dialogs[d] EXCEPT !.step = "local", !.released = FALSE]
  <2>1. e # None /\ Flows!LetsGo(d, FALSE) /\ Flows!Shows(d, o)
    BY <1>4 DEF Flows!ReconfigureReadsNothing
  <2>2. o \in DialogData /\ o.step = "local" /\ o.entry = e /\ ~o.released
    BY <1>1 DEF DialogData
  <2> HIDE DEF o
  <2>3. Sound(o, entries)
    BY <1>2, <2>1, <2>2 DEF Sound
  <2>4. Knows(o, entries[e])
    BY <2>2 DEF Knows
  <2> QED
    BY <1>2, <2>1, <2>2, <2>3, <2>4, LetGo
<1> QED
  BY <1>3, <1>4

\* The ends of a reconfigure: a read of the device, or the account to switch to.
LEMMA ReconfigureReadsKeep ==
  ASSUME FlowInv, ~Hasty, NEW d \in Dialogs, NEW serial \in Oceans, Flows!ReconfigureReads(d, serial)
  PROVE  FlowInv'
<1> USE DEF FlowInv
<1> DEFINE e == dialogs[d].entry
<1>1. dialogs[d] \in DialogData /\ Sound(dialogs[d], entries)
  BY DEF FlowTypes, DialogsInv, SoundInv
<1>2. dialogs[d].step = "probing" /\ e # None
  BY DEF Flows!ReconfigureReads, Flows!At
<1>3. e \in Entries /\ entries[e] # None /\ dialogs[d].host \in Hosts
  BY <1>1, <1>2 DEF Sound, DialogData
<1>4. CASE serial \notin dialogs[d].devices
  <2> DEFINE o == [dialogs[d] EXCEPT !.step = "local", !.released = FALSE]
  <2>1. Flows!LetsGo(d, FALSE) /\ Flows!Shows(d, o)
    BY <1>4, Zenon DEF Flows!ReconfigureReads
  <2>2. o \in DialogData /\ o.step = "local" /\ o.entry = e /\ ~o.released
    BY <1>1 DEF DialogData, FreeSteps, HeldSteps, OptionSteps, CredentialSteps, LocalSteps
  <2> HIDE DEF o
  <2>3. Sound(o, entries)
    BY <1>2, <1>3, <2>2 DEF Sound, FreeSteps, HeldSteps, OptionSteps, CredentialSteps, LocalSteps
  <2>4. Knows(o, entries[e])
    BY <2>2 DEF Knows, OptionSteps, CredentialSteps, LocalSteps
  <2> QED
    BY <1>3, <2>1, <2>2, <2>3, <2>4, LetGo
<1>5. CASE serial \in dialogs[d].devices /\ ~Flows!InNoEntry(e, serial)
  <2>1. Flows!LetsGo(d, TRUE) /\ Flows!Ends(d)
    BY <1>5, Zenon DEF Flows!ReconfigureReads
  <2> QED
    BY <1>3, <2>1, ClosedIsDialog, ClosedIsSound, LetGo DEF Flows!Ends
<1>6. CASE serial \in dialogs[d].devices /\ Flows!InNoEntry(e, serial)
  <2> DEFINE data == Flows!LocalEntry(dialogs[d].host, serial)
  <2>1. Flows!UpdateAndReload(e, data) /\ Flows!Ends(d)
    BY <1>6, Zenon DEF Flows!ReconfigureReads
  <2>2. data \in Flows!EntryData /\ data.devices = {serial} /\ Flows!Whole(data)
    BY <1>3, NewEntries
  <2>3. \A f \in Flows!Present \ {e} : {serial} \cap entries[f].devices = {}
    BY <1>6 DEF Flows!InNoEntry, Flows!InOtherEntry
  <2> HIDE DEF data
  <2> QED
    BY <1>3, <2>1, <2>2, <2>3, UpdateReloads
<1> QED
  BY <1>4, <1>5, <1>6

\* A switch of a local entry to the cloud takes its one device along.
LEMMA ReconfigureSwitchesKeep ==
  ASSUME FlowInv, ~Hasty, NEW d \in Dialogs, NEW secret \in Secrets, NEW list \in Lists,
         Flows!ReconfigureSwitches(d, secret, list)
  PROVE  FlowInv'
<1> USE DEF FlowInv
<1> DEFINE e == dialogs[d].entry
           mode == dialogs[d].mode
<1>1. dialogs[d] \in DialogData /\ Sound(dialogs[d], entries)
  BY DEF FlowTypes, DialogsInv, SoundInv
<1>2. dialogs[d].step = "switch" /\ Flows!Ends(d)
  BY DEF Flows!ReconfigureSwitches, Flows!At
<1>3. e # None /\ e \in Entries /\ mode \in CloudModes /\ ~dialogs[d].released
  BY <1>1, <1>2 DEF Sound, DialogData, HeldSteps, LocalSteps
<1>4. entries[e] \in Flows!EntryData /\ e \in Flows!Present
  BY <1>1, <1>3 DEF Sound, FlowTypes, Flows!Present
<1>5. PICK serial \in entries[e].devices :
          Flows!NothingSaved \/ Flows!UpdateAndReload(e, Flows!CloudEntry(mode, secret, {serial}))
  BY DEF Flows!ReconfigureSwitches
<1>6. CASE Flows!NothingSaved
  BY <1>2, <1>3, <1>6, Ended
<1>7. CASE Flows!UpdateAndReload(e, Flows!CloudEntry(mode, secret, {serial}))
  <2> DEFINE data == Flows!CloudEntry(mode, secret, {serial})
  <2>1. {serial} \in SUBSET Serials
    BY <1>4, <1>5 DEF Flows!EntryData
  <2>2. data \in Flows!EntryData /\ data.mode # "local" /\ (Flows!Fits(mode, {serial}) => Flows!Whole(data))
    BY <1>3, <2>1, NewEntries DEF CloudModes
  <2>3. ASSUME e \notin crossed PROVE Flows!Fits(mode, {serial})
    <3>1. entries[e].mode = "local" /\ Flows!Whole(entries[e])
      BY <1>2, <1>3, <1>4, <2>3 DEF DialogsInv, KnowsInv, Knows, LocalSteps, Flows!EntryWhole
    <3>2. serial \in Oceans
      BY <1>5, <3>1 DEF Flows!Whole, Flows!SingleOcean
    <3> QED
      BY <3>2, FlowConstants DEF Flows!Fits
  <2> HIDE DEF data
  <2>4. Flows!UpdateAndReload(e, data)
    BY <1>7 DEF data
  <2> QED
    BY <1>2, <1>3, <2>2, <2>3, <2>4, UpdateReloads
<1> QED
  BY <1>5, <1>6, <1>7

\* No step of a dialog or of Home Assistant breaks the invariant.
LEMMA FlowStepHolds == ASSUME ~Hasty PROVE FlowInv /\ [Flows!FlowsNext]_(Flows!flowVars) => FlowInv'
<1> SUFFICES ASSUME FlowInv, [Flows!FlowsNext]_(Flows!flowVars) PROVE FlowInv'
  OBVIOUS
<1>1. CASE UNCHANGED Flows!flowVars
  <2>1. UNCHANGED <<entries, serving, runsOn, asked, dialogs, opened, crossed>>
    BY <1>1 DEF Flows!flowVars
  <2> QED
    BY <2>1 DEF FlowInv, FlowTypes, DialogsInv, SoundInv, KnowsInv, AloneInv, Flows!OneLocalPerDevice,
       Flows!EntryWhole, Flows!Present, ServesInv, Flows!ServesItsData
<1>2. CASE Flows!FlowsNext
  BY <1>2, SetupStepsKeep, SetupForms, SetupEntries, OptionsKeep, RenewalsKeep, OpensKeep, ProbesKeep,
     ReconfigureFormsKeep, ReconfigureReadsKeep, ReconfigureSwitchesKeep DEF Flows!FlowsNext
<1> QED
  BY <1>1, <1>2

\* The entries a setup left are whole and run on their data.
LEMMA FlowInitHolds == Flows!FlowsInit => FlowInv
<1> SUFFICES ASSUME Flows!FlowsInit PROVE FlowInv
  OBVIOUS
<1> DEFINE s == CHOOSE secret \in Secrets : TRUE
           h == CHOOSE host \in Hosts : TRUE
<1>1. s \in Secrets /\ h \in Hosts
  BY FlowConstants
<1>2. ASSUME NEW mode \in CloudModes, NEW ds \in Flows!Picks(mode)
      PROVE  ds \in SUBSET Serials /\ ds # {} /\ Flows!Fits(mode, ds)
  BY <1>2, FlowConstants DEF Flows!Picks, Flows!Fits
<1>3. ASSUME NEW data \in Flows!FirstEntries
      PROVE  data = None \/ (data \in Flows!EntryData /\ Flows!Whole(data))
  <2>1. CASE data = None
    BY <2>1
  <2>2. CASE \E o \in Oceans : data = Flows!LocalEntry(h, o)
    BY <1>1, <2>2, NewEntries
  <2>3. CASE \E ds \in Flows!Picks("standard") : data = Flows!KeysEntry(s, ds)
    <3>1. PICK ds \in Flows!Picks("standard") : data = Flows!KeysEntry(s, ds)
      BY <2>3
    <3>2. ds \in SUBSET Serials /\ ds # {} /\ Flows!Fits("standard", ds)
      BY <1>2 DEF CloudModes
    <3>3. data = Flows!CloudEntry("standard", s, ds)
      BY <3>1 DEF Flows!CloudEntry
    <3> QED
      BY <1>1, <3>2, <3>3, NewEntries DEF CloudModes
  <2>4. CASE \E ds \in Flows!Picks("enhanced") : data = Flows!AccountEntry(s, ds)
    <3>1. PICK ds \in Flows!Picks("enhanced") : data = Flows!AccountEntry(s, ds)
      BY <2>4
    <3>2. ds \in SUBSET Serials /\ ds # {} /\ Flows!Fits("enhanced", ds)
      BY <1>2 DEF CloudModes
    <3>3. data = Flows!CloudEntry("enhanced", s, ds)
      BY <3>1 DEF Flows!CloudEntry
    <3> QED
      BY <1>1, <3>2, <3>3, NewEntries DEF CloudModes
  <2>5. CASE \E ds \in Flows!Picks("enhanced") : data = Flows!MigratedEntry(s, ds)
    <3>1. PICK ds \in Flows!Picks("enhanced") : data = Flows!MigratedEntry(s, ds)
      BY <2>5
    <3>2. ds \in SUBSET Serials /\ ds # {} /\ Flows!Fits("enhanced", ds)
      BY <1>2 DEF CloudModes
    <3> HIDE DEF s
    <3> QED
      BY <1>1, <3>1, <3>2, FlowConstants DEF Flows!MigratedEntry, Flows!EntryData, Flows!Whole
  <2> QED
    BY <2>1, <2>2, <2>3, <2>4, <2>5 DEF Flows!FirstEntries
<1>4. /\ entries \in [Entries -> Flows!FirstEntries]
      /\ \A e, f \in Entries : e # f /\ entries[e] # None /\ entries[f] # None
             => entries[e].devices \cap entries[f].devices = {}
      /\ serving = [e \in Entries |-> IF e \in Flows!Present THEN "loaded" ELSE "out"]
      /\ runsOn = entries /\ asked = [e \in Entries |-> 0] /\ dialogs = [d \in Dialogs |-> Flows!Closed]
  BY DEF Flows!FlowsInit
<1>5. FlowTypes
  BY <1>3, <1>4, ClosedIsDialog DEF FlowTypes
<1>6. DialogsInv
  <2>1. \A d \in Dialogs : dialogs[d].entry = None
    BY <1>4, ClosedIsDialog
  <2>2. SoundInv
    BY <1>4, ClosedIsSound DEF SoundInv
  <2> QED
    BY <2>1, <2>2 DEF DialogsInv, KnowsInv, AloneInv
<1>7. Flows!OneLocalPerDevice /\ Flows!EntryWhole
  BY <1>3, <1>4 DEF Flows!OneLocalPerDevice, Flows!EntryWhole, Flows!Present
<1>8. ServesInv
  <2>1. \A e \in Flows!Present : serving[e] = "loaded" /\ runsOn[e] = entries[e]
    BY <1>4 DEF Flows!Present
  <2> QED
    BY <2>1 DEF ServesInv, Flows!ServesItsData
<1> QED
  BY <1>5, <1>6, <1>7, <1>8 DEF FlowInv

\* Whatever the dialogs do to each other, a device has one local entry, an entry
\* is whole and runs on the data that was saved last.
THEOREM EntriesAreKept == ASSUME ~Hasty PROVE Flows!FlowsSpec => []EntriesKept
<1>1. Flows!FlowsInit => FlowInv
  BY FlowInitHolds
<1>2. FlowInv /\ [Flows!FlowsNext]_(Flows!flowVars) => FlowInv'
  BY FlowStepHolds
<1>3. FlowInv => EntriesKept
  BY DEF FlowInv, EntriesKept, ServesInv
<1> QED
  BY <1>1, <1>2, <1>3, PTL DEF Flows!FlowsSpec

-----------------------------------------------------------------------------
(* The whole of it (AccountEntry).                                             *)

\* A behaviour of the composition is one of each part: what is not followed stutters.
THEOREM AccountParts == AccountSpec => EntrySpec /\ HistorySpec /\ Flows!FlowsSpec
<1>1. AccountInit => EntryInit /\ HistoryInit /\ Flows!FlowsInit
  BY DEF AccountInit
<1>2. [AccountNext]_accountVars => [EntryNext]_entryVars
  BY DEF AccountNext, accountVars, EntryStep, HistoryStep, FlowsStep
<1>3. [AccountNext]_accountVars => [HistoryNext]_historyVars
  BY DEF AccountNext, accountVars, EntryStep, HistoryStep, FlowsStep
<1>4. [AccountNext]_accountVars => [Flows!FlowsNext]_(Flows!flowVars)
  BY DEF AccountNext, accountVars, EntryStep, HistoryStep, FlowsStep, dialogVars, Flows!flowVars
<1> QED
  BY <1>1, <1>2, <1>3, <1>4, PTL DEF AccountSpec, EntrySpec, HistorySpec, Flows!FlowsSpec

\* Everything the run of the composition checks, for every value of its constants:
\* a stop does not fall into a setup, a setup ends before its capture would, and
\* no dialog saves while its entry is being set up.
THEOREM AccountSafe ==
  ASSUME ~StopInSetup, ~SlowSetup, ~Hasty
  PROVE  AccountSpec => []NothingUnowned /\ []CaptureHasAnEnd /\ []OrdersKept /\ []EntriesKept /\ CloudSpared
  BY AccountParts, EveryConnectionOwned, CaptureEnds, OrdersAreKept, EntriesAreKept, CloudIsSpared
=============================================================================
