----------------------------- MODULE AccountEntry -----------------------------
(* What config entries go through beside the links of their coordinators: the  *)
(* life of an entry with account sign-in, with its raw data capture and its    *)
(* probes; the charging history of the account's chargers; and the dialogs     *)
(* that write entries.  They meet only in what Home Assistant does to an       *)
(* entry, which each takes as happening at any time, and share no state; so    *)
(* each behaviour follows one of them.                                         *)
EXTENDS EntryLifecycle, ChargingHistory

CONSTANTS Entries, Dialogs, Serials, Oceans, StandardOnly, EnhancedOnly, Lists, Secrets, Hosts, Opens, Hasty

VARIABLES
    part,     \* "entry", "history" or "flows"
    entries, serving, runsOn, asked, dialogs, opened, crossed     \* of EntryFlows

Flows == INSTANCE EntryFlows

ASSUME FlowsAssumption ==
    /\ Oceans \subseteq Serials /\ StandardOnly \subseteq Serials /\ EnhancedOnly \subseteq Serials
    /\ Lists \subseteq SUBSET Serials /\ {} \in Lists
    /\ Oceans \cap StandardOnly = {} /\ (Oceans \cup StandardOnly) \cap EnhancedOnly = {}
    /\ Secrets # {} /\ Hosts # {}
    /\ None \notin Secrets \cup Hosts \cup Entries \cup Flows!EntryData

dialogVars == <<entries, serving, runsOn, asked, dialogs, opened, crossed>>
accountVars == <<part, entryVars, historyVars, dialogVars>>

\* What is not followed starts in one way only.
AccountInit ==
    /\ part \in {"entry", "history", "flows"}
    /\ EntryInit /\ (part # "entry" => ~flag)
    /\ HistoryInit
    /\ Flows!FlowsInit /\ (part # "flows" => Flows!Present = {})

EntryStep == part = "entry" /\ EntryNext /\ UNCHANGED <<part, historyVars, dialogVars>>
HistoryStep == part = "history" /\ HistoryNext /\ UNCHANGED <<part, entryVars, dialogVars>>
FlowsStep == part = "flows" /\ Flows!FlowsNext /\ UNCHANGED <<part, entryVars, historyVars>>
AccountNext == EntryStep \/ HistoryStep \/ FlowsStep

AccountSpec == AccountInit /\ [][AccountNext]_accountVars

-----------------------------------------------------------------------------
\* EntryFlows: a device has one local entry, an entry has what its mode needs and
\* nothing of another mode, and it runs on the data that was saved last.
EntriesKept == Flows!OneLocalPerDevice /\ Flows!EntryWhole /\ Flows!ServesItsData
=============================================================================
