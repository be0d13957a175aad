----------------------------- MODULE EntryFlows -----------------------------
(* The dialogs that write config entries (config_flow*.py): setup, options,    *)
(* reauth and reconfigure.  Several are open at once, on one entry or on       *)
(* several, and each waits for its user between two forms and for the cloud or *)
(* the device inside one; what it learned before a wait may be stale after it. *)
(* A form that is refused shows its error and changes nothing; only refusals   *)
(* that do more are actions.                                                   *)
EXTENDS Naturals

CONSTANTS
    Entries, Dialogs,
    Serials,
    Oceans,        \* the PowerOceans, which also answer over Modbus/TCP
    StandardOnly,  \* DEVICE_TYPE_POWERSTREAM
    EnhancedOnly,  \* ENHANCED_ONLY_DEVICE_TYPES
    Lists,         \* what a request for the device list may return; {} for a failed one
    Secrets,       \* accounts with their password, and pairs of developer keys
    Hosts,
    Opens,         \* bound: how many dialogs are opened
    Hasty,         \* a dialog may save while its entry is being set up
    None

VARIABLES
    entries,   \* entry.data, or None
    serving,   \* entry.state: "out", "starting", "loaded", "retrying"
    runsOn,    \* the data the entry was last set up with
    asked,     \* reloads that are scheduled
    dialogs,
    opened,
    crossed    \* the entries on which two dialogs have been open at once

flowVars == <<entries, serving, runsOn, asked, dialogs, opened, crossed>>

Present == {e \in Entries : entries[e] # None}
Fits(mode, devices) == devices \cap (IF mode = "enhanced" THEN StandardOnly ELSE EnhancedOnly) = {}
\* _single_powerocean
SingleOcean(devices) == \E o \in Oceans : devices = {o}

\* The data of an entry.
EntryData ==
    [mode : {"standard", "enhanced", "local"}, method : {"app", "developer", "none"},
     account : Secrets \cup {None}, keys : Secrets \cup {None}, host : Hosts \cup {None},
     devices : SUBSET Serials]

\* What _entry_data and async_step_local put together.
AccountEntry(account, devices) ==
    [mode |-> "enhanced", method |-> "app", account |-> account, keys |-> None, host |-> None, devices |-> devices]
KeysEntry(keys, devices) ==
    [mode |-> "standard", method |-> "developer", account |-> None, keys |-> keys, host |-> None, devices |-> devices]
LocalEntry(host, serial) ==
    [mode |-> "local", method |-> "none", account |-> None, keys |-> None, host |-> host, devices |-> {serial}]
CloudEntry(mode, secret, devices) ==
    IF mode = "enhanced" THEN AccountEntry(secret, devices) ELSE KeysEntry(secret, devices)
\* async_migrate_entry: an Enhanced entry of a version that still used the keys.
MigratedEntry(secret, devices) ==
    [mode |-> "enhanced", method |-> "developer", account |-> secret, keys |-> secret, host |-> None, devices |-> devices]

\* serial_in_other_entries
InOtherEntry(e, serials) == \E f \in Present \ {e} : entries[f].devices \cap serials # {}
InOtherLocal(e, serials) ==
    \E f \in Present \ {e} : entries[f].mode = "local" /\ entries[f].devices \cap serials # {}
\* _abort_if_account_known
AccountKnown(e, mode, secret) ==
    \E f \in Present \ {e} : (IF mode = "enhanced" THEN entries[f].account ELSE entries[f].keys) = secret

-----------------------------------------------------------------------------
(* Saving an entry, and what Home Assistant makes of it.                       *)

\* The listener is registered at the end of a setup.
Listening(e) == serving[e] = "loaded"
FromListener(e, data) == IF Listening(e) /\ data # entries[e] THEN 1 ELSE 0
FromFlow(e, data) == 1 - FromListener(e, data)

MaySave(e) == Hasty \/ serving[e] # "starting"
Save(e, data, reloads) ==
    /\ MaySave(e)
    /\ entries' = [entries EXCEPT ![e] = data]
    /\ asked' = [asked EXCEPT ![e] = @ + reloads]
    /\ UNCHANGED <<serving, runsOn, opened, crossed>>

\* async_update_entry: only the listener reloads.
Update(e, data) == Save(e, data, FromListener(e, data))
\* update_and_reload: whichever of the two there is.
UpdateAndReload(e, data) == Save(e, data, FromListener(e, data) + FromFlow(e, data))

Create(data) ==
    \E e \in Entries \ Present :
        /\ entries' = [entries EXCEPT ![e] = data]
        /\ serving' = [serving EXCEPT ![e] = "starting"]
        /\ runsOn' = [runsOn EXCEPT ![e] = data]
        /\ UNCHANGED <<asked, opened, crossed>>

\* A scheduled reload unloads the entry, if it is up, and sets it up again; a
\* setup that failed is tried again.
SetupBegins(e) ==
    /\ serving[e] # "starting"
    /\ \/ asked[e] > 0 /\ asked' = [asked EXCEPT ![e] = @ - 1]
       \/ serving[e] = "retrying" /\ UNCHANGED asked
    /\ serving' = [serving EXCEPT ![e] = "starting"]
    /\ runsOn' = [runsOn EXCEPT ![e] = entries[e]]
    /\ UNCHANGED <<entries, dialogs, opened, crossed>>

SetupEnds(e) ==
    /\ serving[e] = "starting"
    /\ \E outcome \in {"loaded", "retrying"} : serving' = [serving EXCEPT ![e] = outcome]
    /\ UNCHANGED <<entries, runsOn, asked, dialogs, opened, crossed>>

-----------------------------------------------------------------------------
(* Dialogs.                                                                    *)

Closed == [step |-> "closed", entry |-> None, list |-> {}, mode |-> None, secret |-> None,
           devices |-> {}, host |-> None, released |-> FALSE]
At(d, step) == dialogs[d].step = step
Shows(d, dialog) == dialogs' = [dialogs EXCEPT ![d] = dialog]
Turns(d, step) == Shows(d, [dialogs[d] EXCEPT !.step = step])
Ends(d) == Shows(d, Closed)
NothingSaved == UNCHANGED <<entries, serving, runsOn, asked, opened, crossed>>
Waiting == {"options fetch", "probing"}

Open(d, dialog) ==
    /\ At(d, "closed") /\ opened < Opens /\ opened' = opened + 1
    /\ Shows(d, dialog)
    /\ crossed' = crossed \cup {e \in Present : e = dialog.entry /\ \E f \in Dialogs : dialogs[f].entry = e}
    /\ UNCHANGED <<entries, serving, runsOn, asked>>

\* The user closes a form.
Close(d) == dialogs[d].step \notin Waiting \cup {"closed"} /\ Ends(d) /\ NothingSaved

-----------------------------------------------------------------------------
(* Setup (config_flow_setup.py).                                               *)

SetupOpens(d, mode) ==
    Open(d, [Closed EXCEPT !.step = IF mode = "local" THEN "setup local" ELSE "setup sign in", !.mode = mode])

\* async_step_developer and async_step_app_credentials
SetupSignsIn(d, secret, list) ==
    /\ At(d, "setup sign in") /\ list # {}
    /\ Shows(d, [dialogs[d] EXCEPT !.step = "setup devices", !.secret = secret, !.list = list])
    /\ NothingSaved

\* async_step_devices
SetupPicks(d, selected) ==
    LET mode == dialogs[d].mode
        known == AccountKnown(None, mode, dialogs[d].secret)
    IN  /\ At(d, "setup devices") /\ selected \subseteq dialogs[d].list
        /\ selected # {} /\ Fits(mode, selected)
        /\ \/ known /\ NothingSaved
           \/ ~known /\ ~InOtherLocal(None, selected) /\ Create(CloudEntry(mode, dialogs[d].secret, selected))
        /\ Ends(d)

\* async_step_local: the read is a wait, and what it returns is checked after it.
SetupProbes(d, host) ==
    /\ At(d, "setup local")
    /\ Shows(d, [dialogs[d] EXCEPT !.step = "probing", !.host = host])
    /\ NothingSaved

Unscanned(e, serial) == TRUE                     \* (faulty: the unique id has to do)
InNoEntry(e, serial) == ~InOtherEntry(e, {serial})
SetupReads(d, serial) ==
    /\ At(d, "probing") /\ dialogs[d].entry = None
    /\ IF InNoEntry(None, serial) THEN Create(LocalEntry(dialogs[d].host, serial)) ELSE NothingSaved
    /\ Ends(d)

SetupReadsNothing(d) == At(d, "probing") /\ dialogs[d].entry = None /\ Turns(d, "setup local") /\ NothingSaved

-----------------------------------------------------------------------------
(* Options (config_flow_options.py).  An empty list is one that could not be   *)
(* fetched; the dialog then offers what the entry had, and asks again when it  *)
(* is submitted.                                                               *)

OptionsOpen(d, e, list) ==
    /\ e \in Present /\ entries[e].mode # "local"
    /\ Open(d, [Closed EXCEPT !.step = "options", !.entry = e, !.list = list,
                              !.devices = IF list = {} THEN entries[e].devices ELSE list])

\* _save_options, after async_step_init, _developer or _enhanced.
Saved(data, mode, devices, account, keys) ==
    IF mode = "enhanced"
    THEN [data EXCEPT !.mode = mode, !.method = "app", !.devices = devices,
                      !.account = IF account = None THEN @ ELSE account]
    ELSE [data EXCEPT !.mode = mode, !.method = "developer", !.devices = devices, !.account = None,
                      !.keys = IF keys = None THEN @ ELSE keys]
OptionsSave(d, list, mode, selected, account, keys) ==
    LET e == dialogs[d].entry
        devices == selected \cap (list \cup entries[e].devices)
    IN  Update(e, Saved(entries[e], mode, devices, account, keys)) /\ Ends(d)

AsksKeysOfItsKind(mode, was, data) ==                \* (faulty: only where keys are in use)
    mode # "enhanced" /\ data.method = "developer" /\ data.keys = None
AsksKeys(mode, was, data) == mode # "enhanced" /\ data.keys = None
AsksAccount(mode, was) == mode = "enhanced" /\ was # "enhanced"

\* The second half of async_step_init; "was" is the mode read before the fetch.
OptionsDecide(d, list, was, mode, selected) ==
    LET e == dialogs[d].entry
        pending(step) == Shows(d, [dialogs[d] EXCEPT !.step = step, !.mode = mode, !.devices = selected, !.list = list])
    IN  /\ selected # {} /\ ~InOtherLocal(e, selected) /\ Fits(mode, selected)
        /\ \/ AsksAccount(mode, was) /\ pending("options account") /\ NothingSaved
           \/ AsksKeys(mode, was, entries[e]) /\ pending("options keys") /\ NothingSaved
           \/ /\ ~AsksAccount(mode, was) /\ ~AsksKeys(mode, was, entries[e])
              /\ OptionsSave(d, list, mode, selected, None, None)

OptionsSubmit(d, mode, selected) ==
    LET e == dialogs[d].entry IN
    /\ At(d, "options") /\ selected \subseteq dialogs[d].devices
    /\ \/ entries[e].mode = "local" /\ Ends(d) /\ NothingSaved
       \/ /\ entries[e].mode # "local" /\ dialogs[d].list # {}
          /\ OptionsDecide(d, dialogs[d].list, entries[e].mode, mode, selected)
       \/ /\ entries[e].mode # "local" /\ dialogs[d].list = {}
          /\ Shows(d, [dialogs[d] EXCEPT !.step = "options fetch", !.devices = selected, !.mode = mode,
                                         !.secret = entries[e].mode])
          /\ NothingSaved

OptionsFetched(d, list) ==
    /\ At(d, "options fetch")
    /\ OptionsDecide(d, list, dialogs[d].secret, dialogs[d].mode, dialogs[d].devices)

OptionsSignsIn(d, secret) ==
    LET o == dialogs[d] IN
    \/ At(d, "options account") /\ OptionsSave(d, o.list, o.mode, o.devices, secret, None)
    \/ At(d, "options keys") /\ OptionsSave(d, o.list, o.mode, o.devices, None, secret)

-----------------------------------------------------------------------------
(* New credentials: reauth (config_flow_reauth.py), which a coordinator starts *)
(* and Home Assistant keeps to one per entry, and the credential forms of      *)
(* reconfigure, which do the same.                                             *)

CredentialForm(e) == IF entries[e].method = "app" THEN "account" ELSE "keys"

ReauthStarts(d, e) ==
    /\ e \in Present /\ entries[e].mode # "local"
    /\ ~\E f \in Dialogs : dialogs[f].entry = e /\ dialogs[f].mode = "reauth"
    /\ Open(d, [Closed EXCEPT !.step = CredentialForm(e), !.entry = e, !.mode = "reauth"])

\* reauth_app / reconfigure_app, reauth_confirm / reconfigure_confirm, and the
\* second form of both for an Enhanced entry that still has the keys.
RenewsAccount(d, account) ==
    LET e == dialogs[d].entry IN
    At(d, "account") /\ Update(e, [entries[e] EXCEPT !.account = account]) /\ Ends(d)
RenewsKeys(d, keys) ==
    LET e == dialogs[d].entry IN
    /\ At(d, "keys")
    /\ IF entries[e].mode = "enhanced"
       THEN Shows(d, [dialogs[d] EXCEPT !.step = "account too", !.secret = keys]) /\ NothingSaved
       ELSE Update(e, [entries[e] EXCEPT !.keys = keys]) /\ Ends(d)
RenewsBoth(d, account) ==
    LET e == dialogs[d].entry IN
    /\ At(d, "account too")
    /\ Update(e, [entries[e] EXCEPT !.keys = dialogs[d].secret, !.account = account]) /\ Ends(d)

-----------------------------------------------------------------------------
(* Reconfigure (config_flow_reconfigure.py).                                   *)

ReconfigureOpens(d, e) ==
    /\ e \in Present
    /\ Open(d, [Closed EXCEPT !.entry = e,
           !.step = CASE entries[e].mode = "local" -> "menu of local"
                      [] SingleOcean(entries[e].devices) /\ entries[e].mode # "local" -> "menu of cloud"
                      [] OTHER -> CredentialForm(e)])

ReconfigureChooses(d) ==
    LET e == dialogs[d].entry IN
    /\ \/ At(d, "menu of cloud") /\ Turns(d, CredentialForm(e))
       \/ dialogs[d].step \in {"menu of cloud", "menu of local"} /\ Turns(d, "local")
       \/ /\ At(d, "menu of local")
          /\ \E mode \in {"standard", "enhanced"} : Shows(d, [dialogs[d] EXCEPT !.step = "switch", !.mode = mode])
    /\ NothingSaved

\* _release_local_connection: a running local entry lets go of the device first.
Releases(e, host) ==
    entries[e].mode = "local" /\ serving[e] \in {"loaded", "retrying"} /\ entries[e].host # host

\* async_step_reconfigure_local; its device is the first one the entry lists.
ReconfigureProbes(d, host) ==
    LET e == dialogs[d].entry
        released == Releases(e, host)
    IN  /\ At(d, "local")
        /\ \E device \in entries[e].devices :
               Shows(d, [dialogs[d] EXCEPT !.step = "probing", !.host = host, !.devices = {device}, !.released = released])
        /\ serving' = IF released THEN [serving EXCEPT ![e] = "out"] ELSE serving
        /\ UNCHANGED <<entries, runsOn, asked, opened, crossed>>

\* The entry that was released is started again on every path that does not reload it.
StartsOnAbort(d, refused) == IF dialogs[d].released /\ refused THEN 1 ELSE 0        \* (faulty: the form is shown again and no more)
StartsAgain(d, refused) == IF dialogs[d].released THEN 1 ELSE 0
LetsGo(d, refused) ==
    /\ asked' = [asked EXCEPT ![dialogs[d].entry] = @ + StartsAgain(d, refused)]
    /\ UNCHANGED <<entries, serving, runsOn, opened, crossed>>

ReconfigureReads(d, serial) ==
    LET e == dialogs[d].entry IN
    /\ At(d, "probing") /\ e # None
    /\ CASE serial \notin dialogs[d].devices ->
                LetsGo(d, FALSE) /\ Shows(d, [dialogs[d] EXCEPT !.step = "local", !.released = FALSE])
         [] serial \in dialogs[d].devices /\ ~InNoEntry(e, serial) -> LetsGo(d, TRUE) /\ Ends(d)
         [] serial \in dialogs[d].devices /\ InNoEntry(e, serial) ->
                UpdateAndReload(e, LocalEntry(dialogs[d].host, serial)) /\ Ends(d)

ReconfigureReadsNothing(d) ==
    /\ At(d, "probing") /\ dialogs[d].entry # None
    /\ LetsGo(d, FALSE) /\ Shows(d, [dialogs[d] EXCEPT !.step = "local", !.released = FALSE])

\* developer / app_credentials of a reconfigure: _switch_target_error, _finish_switch.
ReconfigureSwitches(d, secret, list) ==
    LET e == dialogs[d].entry
        mode == dialogs[d].mode
    IN  /\ At(d, "switch")
        /\ \E serial \in entries[e].devices :
              /\ serial \in list /\ (mode = "standard" => serial \notin EnhancedOnly)
              /\ IF AccountKnown(e, mode, secret) \/ ~InNoEntry(e, serial)
                 THEN NothingSaved ELSE UpdateAndReload(e, CloudEntry(mode, secret, {serial}))
        /\ Ends(d)

-----------------------------------------------------------------------------
Whole(data) ==
    /\ data.mode = "local" => data.account = None /\ data.keys = None /\ data.host # None /\ SingleOcean(data.devices)
    /\ data.mode = "enhanced" => data.account # None
    /\ data.mode = "standard" => data.keys # None
    /\ data.mode # "local" => data.host = None /\ data.devices # {} /\ Fits(data.mode, data.devices)

\* Entries as a setup leaves them, or an older version: with the devices its form
\* proposes, or with a PowerOcean alone.
Picks(mode) == ({{s \in Serials : Fits(mode, {s})}} \cup {{o} : o \in Oceans}) \ {{}}
FirstEntries ==
    LET s == CHOOSE secret \in Secrets : TRUE
        h == CHOOSE host \in Hosts : TRUE
    IN  {None} \cup {LocalEntry(h, o) : o \in Oceans}
        \cup {KeysEntry(s, ds) : ds \in Picks("standard")}
        \cup {AccountEntry(s, ds) : ds \in Picks("enhanced")}
        \cup {MigratedEntry(s, ds) : ds \in Picks("enhanced")}

FlowsInit ==
    /\ entries \in {init \in [Entries -> FirstEntries] :
           \A e, f \in Entries : e # f /\ init[e] # None /\ init[f] # None
               => init[e].devices \cap init[f].devices = {} /\ (init[e].method = init[f].method => init[e].mode = "local")}
    /\ serving = [e \in Entries |-> IF e \in Present THEN "loaded" ELSE "out"]
    /\ runsOn = entries
    /\ asked = [e \in Entries |-> 0]
    /\ dialogs = [d \in Dialogs |-> Closed] /\ opened = 0 /\ crossed = {}

FlowsNext ==
    \/ \E e \in Entries : SetupBegins(e) \/ SetupEnds(e)
    \/ \E d \in Dialogs :
        \/ Close(d)
        \/ \E mode \in {"standard", "enhanced", "local"} : SetupOpens(d, mode)
        \/ \E secret \in Secrets, list \in Lists :
               SetupSignsIn(d, secret, list) \/ ReconfigureSwitches(d, secret, list)
        \/ \E selected \in SUBSET Serials :
               \/ SetupPicks(d, selected)
               \/ \E mode \in {"standard", "enhanced"} : OptionsSubmit(d, mode, selected)
        \/ \E host \in Hosts : SetupProbes(d, host) \/ ReconfigureProbes(d, host)
        \/ \E serial \in Oceans : SetupReads(d, serial) \/ ReconfigureReads(d, serial)
        \/ SetupReadsNothing(d) \/ ReconfigureReadsNothing(d)
        \/ \E e \in Entries :
               \/ \E list \in Lists : OptionsOpen(d, e, list)
               \/ ReauthStarts(d, e) \/ ReconfigureOpens(d, e)
        \/ \E list \in Lists : OptionsFetched(d, list)
        \/ \E secret \in Secrets :
               OptionsSignsIn(d, secret) \/ RenewsAccount(d, secret) \/ RenewsKeys(d, secret) \/ RenewsBoth(d, secret)
        \/ ReconfigureChooses(d)

FlowsSpec == FlowsInit /\ [][FlowsNext]_flowVars

-----------------------------------------------------------------------------
(* Properties.                                                                 *)

\* No two local entries read one device, whichever dialogs made them and in
\* whatever order their reads ended: the inverter serves one Modbus client.
OneLocalPerDevice ==
    \A e, f \in Present :
        e # f /\ entries[e].mode = "local" /\ entries[f].mode = "local"
            => entries[e].devices \cap entries[f].devices = {}

\* As long as its dialogs came one after the other, an entry has the credentials
\* or the host of its mode and nothing of another mode, and devices that report
\* in that mode.
EntryWhole == \A e \in Present \ crossed : Whole(entries[e])

\* An entry no dialog holds for a read and no reload is due for is up or tried
\* again, and runs on the data that was saved last.
ServesItsData ==
    \A e \in Present :
        /\ asked[e] = 0 /\ serving[e] = "loaded" => runsOn[e] = entries[e]
        /\ asked[e] = 0 /\ serving[e] = "out" => \E d \in Dialogs : dialogs[d].entry = e /\ dialogs[d].released

\* A device of a local entry is in no other entry (README.md:229, "a PowerOcean
\* runs either on the cloud or locally").
CloudOrLocal ==
    \A e, f \in Present :
        e # f /\ entries[e].mode = "local" => entries[e].devices \cap entries[f].devices = {}
=============================================================================
