---------------------------- MODULE ChargingHistory ----------------------------
(* The completed charging sessions of the chargers of one account              *)
(* (charging_history.py, ecoflow/charging_history.py, and the history part of  *)
(* ecoflow/app_api.py).  Each charger has a ledger of orders in a store of its *)
(* own; one client reads them all and keeps its limits in another store.  A    *)
(* store may fail to load, lose a write without saying so, or be found         *)
(* damaged, and Home Assistant may stop or reload between any two steps.       *)
(*                                                                             *)
(* An order counts one unit, so a ledger's total of a vehicle is the number of *)
(* its orders.  Times are relative: a stamp is how long ago it was by the wall *)
(* clock, a deadline how far ahead it is.                                      *)
EXTENDS Integers, FiniteSets, Functions

CONSTANTS
    Chargers, Vehicles,
    OrdersOf,   \* the orders each charger may ever have
    None, Damaged,
    Budget,     \* the time between two reads of one charger (300 s)
    BackOff,    \* the time without a sign-in after one failed (3600 s)
    Jump        \* how far the wall clock may be set back at a time

ASSUME HistoryAssumption ==
    /\ {Budget, BackOff} \subseteq Nat \ {0} /\ Jump \in Nat
    /\ Budget <= BackOff

VARIABLES
    ledger,      \* the ledger in store of each charger: [orders, totals], None or Damaged
    limits,      \* the limits in store: [reads, retry], None or Damaged
    restored,    \* ~_restore_failed
    known,       \* self.orders and self.data: [orders, totals]
    phase,       \* where the charger's poll is
    rows,        \* the orders a finished read brought
    holder,      \* _history_lock: the charger that is being read
    retry,       \* _history_retry_after of the running client
    sinceRead,   \* history: time since the charger was read from the cloud
    sinceFail,   \* history: time since a sign-in last failed
    unsaved,     \* history: only the running client knows of that
    counted      \* history: the orders published since the ledger was last damaged

storeVars == <<ledger, limits>>
pollVars == <<restored, known, phase, rows, holder, retry>>
signVars == <<sinceFail, unsaved>>
historyVars == <<storeVars, pollVars, sinceRead, signVars, counted>>

\* What a read may bring: some of the charger's orders, each under some vehicle.
Readable(c) == UNION {[os -> Vehicles] : os \in SUBSET OrdersOf[c]}

\* The contents of the two stores.
Ledgers(c) == [orders : Readable(c), totals : UNION {[vs -> Nat] : vs \in SUBSET Vehicles}]
Limits == [reads : [Chargers -> Int], retry : Nat]

ASSUME StoresAssumption ==
    /\ \A c \in Chargers : IsFiniteSet(OrdersOf[c])
    /\ \A mark \in {None, Damaged} : mark \notin Limits /\ \A c \in Chargers : mark \notin Ledgers(c)
    /\ None # Damaged

Later(t, s) == IF t > s THEN t ELSE s
Sooner(t, s) == IF t < s THEN t ELSE s

\* vehicle_totals: the vehicles some order names, each with its number of orders.
Totals(orders) ==
    [v \in {orders[o] : o \in DOMAIN orders} |-> Cardinality({o \in DOMAIN orders : orders[o] = v})]

NoOrders == [orders |-> [o \in {} |-> None], totals |-> [v \in {} |-> 0]]

\* valid_saved_ledger: the saved totals must be the ones of the saved orders.
Valid(saved) ==
    LET computed == Totals(saved.orders)
    IN  /\ DOMAIN computed \subseteq DOMAIN saved.totals
        /\ \A v \in DOMAIN saved.totals :
              saved.totals[v] = IF v \in DOMAIN computed THEN computed[v] ELSE 0

\* async_restore, when the store could be read.
Loaded(saved) == IF saved \in {None, Damaged} \/ ~Valid(saved) THEN NoOrders ELSE saved

NoLimits == [reads |-> [c \in Chargers |-> Budget], retry |-> 0]

HistoryInit ==
    /\ ledger = [c \in Chargers |-> None] /\ limits = None
    /\ restored = [c \in Chargers |-> TRUE] /\ known = [c \in Chargers |-> NoOrders]
    /\ phase = [c \in Chargers |-> "idle"] /\ rows = [c \in Chargers |-> NoOrders.orders]
    /\ holder = None /\ retry = 0
    /\ sinceRead = [c \in Chargers |-> Budget] /\ sinceFail = BackOff /\ unsaved = FALSE
    /\ counted = [c \in Chargers |-> {}]

\* async_setup_charging_history of every charger after a reload or a restart.  Some
\* ledgers fail to load, some are found damaged, and start empty.
Restart(unreadable, damaged) ==
    /\ ledger' = [c \in Chargers |-> IF c \in damaged THEN Damaged ELSE ledger[c]]
    /\ restored' = [c \in Chargers |-> c \notin unreadable]
    /\ known' = [c \in Chargers |-> IF restored'[c] THEN Loaded(ledger'[c]) ELSE NoOrders]
    /\ phase' = [c \in Chargers |-> "idle"] /\ rows' = [c \in Chargers |-> NoOrders.orders]
    /\ holder' = None /\ retry' = 0
    /\ sinceFail' = IF unsaved THEN BackOff ELSE sinceFail
    /\ unsaved' = FALSE
    /\ counted' = [c \in Chargers |-> IF c \in damaged THEN {} ELSE counted[c]]
    /\ UNCHANGED <<limits, sinceRead>>

-----------------------------------------------------------------------------
(* One poll: _async_update_data and get_powerpulse_orders.                     *)

ReadsAnyway(c) == TRUE                     \* (faulty: a failed load reads as no ledger)
MayRead(c) == restored[c]

\* A ledger that could not be loaded is loaded before anything else.
RestoreAgain(c) ==
    /\ phase[c] = "idle" /\ ~restored[c]
    /\ restored' = [restored EXCEPT ![c] = TRUE]
    /\ known' = [known EXCEPT ![c] = Loaded(ledger[c])]
    /\ UNCHANGED <<storeVars, phase, rows, holder, retry, sinceRead, signVars, counted>>

\* A stamp from the future counts as now, a deadline is never further than a full one.
Clipped(saved) ==
    [reads |-> [c \in Chargers |-> Later(saved.reads[c], 0)],
     retry |-> Sooner(saved.retry, BackOff)]

LimitsNow ==
    CASE limits = None -> NoLimits
      [] limits = Damaged -> [NoLimits EXCEPT !.retry = BackOff]
      [] OTHER -> Clipped(limits)

Deadline == Sooner(Later(retry, LimitsNow.retry), BackOff)

AtTheDoor(c) == phase[c] = "idle" /\ MayRead(c) /\ holder = None

\* Deferred by the sign-in's deadline or the charger's own; or its stamp was lost, and
\* nothing is asked of the cloud then.
TurnedAway(c) ==
    /\ AtTheDoor(c)
    /\ limits' = IF limits = None THEN None ELSE LimitsNow
    /\ retry' = Deadline
    /\ UNCHANGED <<ledger, restored, known, phase, rows, holder, sinceRead, signVars, counted>>

LostStamp == {limits}                      \* (faulty: the stamp is not read back)
LostUnnoticed == {}

\* The read is stamped, the stamp read back, and only then is the cloud asked.
StartRead(c) ==
    /\ AtTheDoor(c)
    /\ Deadline = 0 /\ LimitsNow.reads[c] >= Budget
    /\ limits' \in {[LimitsNow EXCEPT !.reads[c] = 0]} \cup LostUnnoticed
    /\ retry' = Deadline
    /\ holder' = c /\ phase' = [phase EXCEPT ![c] = "reading"]
    /\ sinceRead' = [sinceRead EXCEPT ![c] = 0]
    /\ UNCHANGED <<ledger, restored, known, rows, signVars, counted>>

\* Every page came and they agree; the cloud may have corrected or dropped orders.
ReadDone(c, read) ==
    /\ phase[c] = "reading"
    /\ phase' = [phase EXCEPT ![c] = "rows"] /\ rows' = [rows EXCEPT ![c] = read]
    /\ holder' = None
    /\ UNCHANGED <<storeVars, restored, known, retry, sinceRead, signVars, counted>>

\* Refused, timed out, incomplete, or changed while it was read: nothing is taken.
ReadFails(c) ==
    /\ phase[c] = "reading" /\ phase' = [phase EXCEPT ![c] = "idle"] /\ holder' = None
    /\ UNCHANGED <<storeVars, restored, known, rows, retry, sinceRead, signVars, counted>>

BackedOff == [LimitsNow EXCEPT !.retry = BackOff]

\* The client backs off at once, its store when the write is not lost.
SignInFails(c) ==
    /\ phase[c] = "reading" /\ phase' = [phase EXCEPT ![c] = "idle"] /\ holder' = None
    /\ retry' = BackOff /\ sinceFail' = 0
    /\ \E lost \in BOOLEAN : unsaved' = lost /\ limits' = IF lost THEN limits ELSE BackedOff
    /\ UNCHANGED <<ledger, restored, known, rows, sinceRead, counted>>

\* merge_orders: corrections replace, missing orders stay.
Merged(orders, read) == [o \in DOMAIN orders \cup DOMAIN read |->
                            IF o \in DOMAIN read THEN read[o] ELSE orders[o]]

\* A vehicle that was published once stays, with nothing to its name.
AllTotals(totals, computed) ==
    [v \in DOMAIN totals \cup DOMAIN computed |->
        IF v \in DOMAIN computed THEN computed[v] ELSE 0]

AfterRead(c) ==
    LET orders == Merged(known[c].orders, rows[c])
    IN  [orders |-> orders, totals |-> AllTotals(known[c].totals, Totals(orders))]

\* The ledger is written before anything is published; a write that is lost is
\* noticed when it is read back, and nothing is published.
Save(c) ==
    /\ phase[c] = "rows" /\ AfterRead(c) # known[c]
    /\ \/ /\ ledger' = [ledger EXCEPT ![c] = AfterRead(c)]
          /\ phase' = [phase EXCEPT ![c] = "saved"] /\ UNCHANGED rows
       \/ /\ phase' = [phase EXCEPT ![c] = "idle"]
          /\ rows' = [rows EXCEPT ![c] = NoOrders.orders] /\ UNCHANGED ledger
    /\ UNCHANGED <<limits, restored, known, holder, retry, sinceRead, signVars, counted>>

Publish(c) ==
    /\ phase[c] = "saved" \/ (phase[c] = "rows" /\ AfterRead(c) = known[c])
    /\ known' = [known EXCEPT ![c] = AfterRead(c)]
    /\ counted' = [counted EXCEPT ![c] = @ \cup DOMAIN known'[c].orders]
    /\ phase' = [phase EXCEPT ![c] = "idle"] /\ rows' = [rows EXCEPT ![c] = NoOrders.orders]
    /\ UNCHANGED <<storeVars, restored, holder, retry, sinceRead, signVars>>

-----------------------------------------------------------------------------
LimitsDamaged ==
    /\ limits # None /\ limits' = Damaged
    /\ UNCHANGED <<ledger, pollVars, sinceRead, signVars, counted>>

Shifted(by) ==
    /\ limits' = IF limits \in {None, Damaged} THEN limits
                 ELSE [reads |-> [c \in Chargers |-> Sooner(limits.reads[c] + by, Budget)],
                       retry |-> Later(limits.retry - by, 0)]
    /\ retry' = Later(retry - by, 0)

Tick ==
    /\ Shifted(1)
    /\ sinceRead' = [c \in Chargers |-> Sooner(sinceRead[c] + 1, Budget)]
    /\ sinceFail' = Sooner(sinceFail + 1, BackOff) /\ UNCHANGED unsaved
    /\ UNCHANGED <<ledger, restored, known, phase, rows, holder, counted>>

\* Bounded by how far the stamps are ahead of the clock.
ClockSetBack ==
    /\ Jump > 0 /\ Shifted(-Jump) /\ retry' <= BackOff + Jump
    /\ limits' \notin {None, Damaged} =>
          /\ limits'.retry <= BackOff + Jump
          /\ \A c \in Chargers : limits'.reads[c] >= -Jump
    /\ UNCHANGED <<ledger, restored, known, phase, rows, holder, sinceRead, signVars, counted>>

HistoryNext ==
    \/ \E unreadable, damaged \in SUBSET Chargers : Restart(unreadable, damaged)
    \/ \E c \in Chargers :
          \/ RestoreAgain(c) \/ TurnedAway(c) \/ StartRead(c) \/ ReadFails(c) \/ SignInFails(c)
          \/ Save(c) \/ Publish(c)
          \/ \E read \in Readable(c) : ReadDone(c, read)
    \/ LimitsDamaged \/ Tick \/ ClockSetBack

HistorySpec == HistoryInit /\ [][HistoryNext]_historyVars

-----------------------------------------------------------------------------
\* An order that was published once is counted for good, under whatever vehicle the
\* cloud names last: across restarts, failed loads and lost writes it stays in the ledger
\* in store and in every ledger restored from it ("Missing cloud history never deletes
\* previously collected energy").
OrdersKept ==
    \A c \in Chargers :
        /\ counted[c] \subseteq DOMAIN Loaded(ledger[c]).orders
        /\ restored[c] => counted[c] \subseteq DOMAIN known[c].orders

\* The cloud is asked only when it is due, in true time and whatever was restarted, lost,
\* damaged or set back in between: a full budget after the charger's last read, and a full
\* back-off after the account's last failed sign-in, unless that never reached the store
\* ("callers must back off instead of retrying per charger").
CloudSpared ==
    [][\A c \in Chargers : StartRead(c) => sinceRead[c] >= Budget /\ sinceFail >= BackOff]_historyVars
=============================================================================
