-------------------------------- MODULE SignIn --------------------------------
(* How one coordinator gets the certificate it connects to the broker with     *)
(* (coordinator/setup.py, coordinator/credentials.py).  With an account it     *)
(* signs in at one of EcoFlow's hosts and asks that host for the certificate   *)
(* (ecoflow/app_api.py, ecoflow/enhanced_auth.py); with developer keys it asks *)
(* at once, behind a cache and a rate limit (ecoflow/iot_api.py).  It does so  *)
(* at setup, when the broker refuses the certificate, and when the certificate *)
(* is old; the last two may run at once.  Certificates are numbered, and the   *)
(* broker takes the newest.                                                    *)
EXTENDS Integers

CONSTANTS
    Hosts,        \* the number of _AUTH_BASE_URLS; the developer API is at the first
    MaxRenewals,  \* bound on the times the cloud renews the certificate
    MaxTroubles,  \* bound on the times the cloud's hosts change their answers
    OneVoice,     \* premise: for as long as a sign-in lasts the hosts answer, all of
                  \* them or none
    Reachable,    \* premise: no host is down during a sign-in after the broker's refusal
    KeysServed    \* premise: the developer API is asked at setup, and answers

VARIABLES
    keys,      \* the entry has developer keys, not an account; its device is one that
               \* subscribes, so that its client tells when it is refused
    accepts,   \* the hosts that know the account
    mood,      \* what each host does: "up", "erring" (answers with an error), "down"
    right,     \* the password or the keys are the account's
    issued,    \* the certificate the broker takes
    troubles,  \* changes of mood so far
    signing,   \* what the setup, the refresh and the rotation are at
    held,      \* the certificate of the MQTT client, 0 without a client
    cached,    \* IoTApiClient._cached, 0 for none
    entry,     \* "starting", "loaded" or, to be set up again later, "retrying"
    asked,     \* async_start_reauth: the user is asked to sign in again
    judged     \* history: a host that knows the account has answered the failed request

signVars == <<keys, accepts, mood, right, issued, troubles, signing, held, cached, entry,
              asked, judged>>

Reasons == {"setup", "refresh", "rotation"}
Served == 1..Hosts
Idle == [at |-> "idle", host |-> 1, answered |-> FALSE, judged |-> FALSE, reply |-> 0]

\* A host's answer to a sign-in or to a request for the certificate.  A page that is no
\* JSON counts as no answer.
Answer(h) == IF mood[h] = "down" THEN "silent"
             ELSE IF mood[h] = "up" /\ h \in accepts /\ right THEN "granted"
             ELSE "refused"
Judges(h) == mood[h] # "down" /\ h \in accepts
Down(moods) == \E h \in Served : moods[h] = "down"

AccountOf(state, certificate) ==
    /\ entry = state /\ held = certificate
    /\ keys \in BOOLEAN
    /\ accepts \in IF keys THEN {{1}} ELSE (SUBSET Served) \ {{}}
    /\ mood \in {[h \in Served |-> "up"], [h \in Served |-> "down"]}
    /\ right \in BOOLEAN
    /\ issued = 1 /\ troubles = 0 /\ cached = 0
    /\ signing = [why \in Reasons |-> Idle]
    /\ asked = FALSE /\ judged = TRUE
    /\ keys /\ KeysServed => mood[1] = "up" /\ right

SignInInit == AccountOf("starting", 0)
\* An entry that nothing is to be done about.
Settled == AccountOf("loaded", 1) /\ keys /\ right /\ mood[1] = "up"

-----------------------------------------------------------------------------
(* The ends of a sign-in.                                                      *)

\* update_credentials, or at setup the MQTT client's.
Certified(why, certificate) ==
    /\ held' = certificate
    /\ entry' = "loaded"
    /\ UNCHANGED <<asked, judged>>

\* Without a certificate the setup is tried again later or the user is asked, a refresh
\* always asks, and a rotation waits for the next one.  With keys the setup goes on
\* without MQTT.
Fails(why, unreachable, byAccount) ==
    /\ UNCHANGED held
    /\ entry' = IF why # "setup" THEN entry
                ELSE IF ~keys /\ unreachable THEN "retrying" ELSE "loaded"
    /\ LET asks == IF why = "setup" THEN ~keys /\ ~unreachable ELSE why = "refresh"
       IN asked' = (asked \/ asks) /\ judged' = IF asks THEN byAccount ELSE judged

Begins(why) ==
    /\ signing[why].at = "idle"
    /\ signing' = [signing EXCEPT ![why] = [Idle EXCEPT !.at = IF keys THEN "certificate" ELSE "login"]]
    /\ UNCHANGED <<keys, accepts, mood, right, issued, troubles, held, cached, asked, judged>>

\* async_setup, once more after ConfigEntryNotReady
SetupBegins == entry \in {"starting", "retrying"} /\ Begins("setup") /\ entry' = "starting"
\* _on_mqtt_auth_error
RefreshBegins ==
    /\ held \notin {0, issued}
    /\ Reachable => ~Down(mood)
    /\ Begins("refresh") /\ UNCHANGED entry
\* _check_credential_age, which only a setup with an account schedules
RotationBegins == ~keys /\ held # 0 /\ Begins("rotation") /\ UNCHANGED entry

-----------------------------------------------------------------------------
(* enhanced_login: the hosts are tried in turn until one grants the sign-in.   *)

Login(why) ==
    LET task == signing[why]
        h == task.host
        heard == [task EXCEPT !.answered = @ \/ Answer(h) # "silent", !.judged = @ \/ Judges(h)]
    IN  /\ task.at = "login"
        /\ IF Answer(h) = "granted"
           THEN /\ signing' = [signing EXCEPT ![why] = [heard EXCEPT !.at = "certificate"]]
                /\ UNCHANGED <<held, entry, asked, judged>>
           ELSE IF h < Hosts
           THEN /\ signing' = [signing EXCEPT ![why] = [heard EXCEPT !.host = h + 1]]
                /\ UNCHANGED <<held, entry, asked, judged>>
           ELSE /\ signing' = [signing EXCEPT ![why] = Idle]
                /\ Fails(why, ~heard.answered, heard.judged)
        /\ UNCHANGED <<keys, accepts, mood, right, issued, troubles, cached>>

-----------------------------------------------------------------------------
(* The certificate.                                                            *)

\* (faulty: the default host is asked)
FirstHost(task) == 1
\* _base_url: the host that accepted the sign-in
CertificateHost(task) == task.host

\* (faulty: a refresh may be answered from the cache)
CacheFirst(why) == cached # 0
\* get_mqtt_credentials, refresh_credentials: only a refresh passes by the cache.
FromCache(why) == keys /\ why = "setup" /\ cached # 0

\* The request reaches its host, which answers with the certificate of now.
Request(why) ==
    LET task == signing[why]
        h == CertificateHost(task)
    IN  /\ task.at = "certificate"
        /\ signing' = [signing EXCEPT ![why] =
             IF FromCache(why) THEN [task EXCEPT !.at = "granted", !.reply = cached]
             ELSE [task EXCEPT !.at = Answer(h), !.judged = Judges(h),
                               !.reply = IF Answer(h) = "granted" THEN issued ELSE 0]]
        /\ UNCHANGED <<keys, accepts, mood, right, issued, troubles, held, cached, entry, asked, judged>>

\* The answer arrives, whatever was answered since to another request.
Reply(why) ==
    LET task == signing[why]
    IN  /\ task.at \in {"granted", "refused", "silent"}
        /\ signing' = [signing EXCEPT ![why] = Idle]
        /\ IF task.at = "granted"
           THEN Certified(why, task.reply) /\ cached' = IF keys THEN task.reply ELSE cached
           ELSE Fails(why, task.at = "silent", task.judged) /\ UNCHANGED cached
        /\ UNCHANGED <<keys, accepts, mood, right, issued, troubles>>

\* _fetch, the rate limit: within a minute of the machine's start the first request of
\* a new client is taken for the second, and none is sent.
RateLimited ==
    /\ keys /\ ~KeysServed /\ signing["setup"].at = "certificate"
    /\ signing' = [signing EXCEPT !["setup"] = Idle]
    /\ Fails("setup", TRUE, FALSE)
    /\ UNCHANGED <<keys, accepts, mood, right, issued, troubles, cached>>

-----------------------------------------------------------------------------
(* The user and the cloud.                                                     *)

SigningIn == \E why \in Reasons : signing[why].at = "login"

\* The reauth dialog takes a password that works, and the entry is loaded anew; by then
\* requests, which end within seconds, are over.
SignsInAgain ==
    /\ asked
    /\ asked' = FALSE /\ right' = TRUE /\ judged' = TRUE
    /\ signing' = [why \in Reasons |-> Idle] /\ held' = 0 /\ cached' = 0 /\ entry' = "starting"
    /\ keys /\ KeysServed => mood[1] = "up"
    /\ UNCHANGED <<keys, accepts, mood, issued, troubles>>

\* The owner changes his password, or revokes the keys.
SecretChanges ==
    /\ right /\ troubles < MaxTroubles
    /\ right' = FALSE /\ troubles' = troubles + 1
    /\ keys /\ KeysServed => entry = "loaded"
    /\ UNCHANGED <<keys, accepts, mood, issued, signing, held, cached, entry, asked, judged>>

CloudRenews ==
    /\ issued <= MaxRenewals
    /\ issued' = issued + 1
    /\ UNCHANGED <<keys, accepts, mood, right, troubles, signing, held, cached, entry, asked, judged>>

CloudChanges ==
    /\ troubles < MaxTroubles /\ troubles' = troubles + 1
    /\ mood' \in [Served -> {"up", "erring", "down"}]
    /\ OneVoice => /\ ~SigningIn
                   /\ \A g, h \in Served : mood'[g] = "down" <=> mood'[h] = "down"
    /\ (Reachable /\ signing["refresh"].at # "idle") => ~Down(mood')
    /\ keys /\ KeysServed => entry = "loaded"
    /\ UNCHANGED <<keys, accepts, right, issued, signing, held, cached, entry, asked, judged>>

\* Trouble ends.
CloudRecovers ==
    /\ \E h \in Served : mood[h] # "up"
    /\ OneVoice => ~SigningIn
    /\ mood' = [h \in Served |-> "up"]
    /\ UNCHANGED <<keys, accepts, right, issued, troubles, signing, held, cached, entry, asked, judged>>

Signs(why) == Login(why) \/ Request(why) \/ Reply(why)
SignInNext ==
    \/ SetupBegins \/ RefreshBegins \/ RotationBegins \/ RateLimited
    \/ \E why \in Reasons : Signs(why)
    \/ SignsInAgain \/ SecretChanges \/ CloudRenews \/ CloudChanges \/ CloudRecovers

\* Home Assistant tries a setup again, the broker refuses an old certificate whenever
\* it is used, requests end, and no trouble of the cloud lasts for good.
SignInFairness ==
    /\ WF_signVars(SetupBegins) /\ WF_signVars(RefreshBegins)
    /\ \A why \in Reasons : WF_signVars(Signs(why))
    /\ SF_signVars(CloudRecovers)

SignInSpec == SignInInit /\ [][SignInNext]_signVars /\ SignInFairness

-----------------------------------------------------------------------------
\* The user is asked to sign in again only when a host that knows the account has
\* answered: with no answer "the credentials were never judged, so the caller retries
\* later instead of asking the user to sign in again" (EnhancedAuthUnreachable).
AskedRightly == asked => judged

\* However the setups, refreshes and rotations overlap and their answers cross, and
\* whatever the hosts do meanwhile, the MQTT client comes to the certificate the broker
\* takes, unless the user has been asked.
CertificateArrives == <>[](held = issued \/ asked)
=============================================================================
