----------------------------- MODULE Availability -----------------------------
(* Whether a coordinator counts its device as available                        *)
(* (coordinator/availability.py, http_poll.py, state_apply.py).  An account    *)
(* entry hears of its device through MQTT alone and checks the age of its data *)
(* every Check ticks; a developer entry polls the HTTP API, and a device that  *)
(* also pushes frames vouches for itself through them.                         *)
EXTENDS Integers

CONSTANTS
    Stale,      \* STALE_THRESHOLD_S
    Hard,       \* HARD_UNAVAILABLE_S
    Check,      \* the time between two checks
    Window,     \* STANDARD_MQTT_AVAILABILITY_WINDOW_S
    Failing,    \* failed polls in a row that count
    Refusals    \* refused polls in a row that ask for a new key

ASSUME AvailabilityAssumption ==
    /\ {Stale, Hard, Check, Window, Failing, Refusals} \subseteq Nat \ {0}
    /\ Check <= Stale /\ Stale < Hard

VARIABLES
    login,       \* the entry's sign-in: "app" or "developer"
    heard,       \* _last_mqtt_ts: Never, or ticks ago
    deviceAvailable,   \* _device_available, as the entities know it
    nextCheck,   \* ticks until _check_stale runs
    connected,   \* the MQTT session is up
    tried,       \* _stale_reactivate_tried
    remedied,    \* ticks since _last_stale_reconnect_ts
    failed, refused,   \* _consecutive_http_failures, _consecutive_http_refusals
    prompted,    \* the user was asked for a new key
    keyValid,    \* the API takes the key
    asked        \* history: the device was asked again since it was last heard

checkVars == <<nextCheck, connected, tried, remedied, asked>>
httpVars == <<failed, refused, prompted, keyValid>>
availabilityVars == <<login, heard, deviceAvailable, checkVars, httpVars>>

Never == -1

AvailabilityInit ==
    /\ login \in {"app", "developer"}
    /\ heard = Never /\ deviceAvailable = TRUE
    /\ nextCheck = Check /\ connected = FALSE /\ tried = FALSE /\ remedied = Stale
    /\ failed = 0 /\ refused = 0 /\ prompted = FALSE /\ keyValid = TRUE
    /\ asked = FALSE

SilentFor(ticks) == heard = Never \/ heard > ticks

\* The head of _apply_data, for a frame on the device's own connection.
FrameArrives ==
    /\ connected
    /\ heard' = 0 /\ deviceAvailable' = TRUE /\ failed' = 0 /\ refused' = 0 /\ asked' = FALSE
    /\ UNCHANGED <<login, nextCheck, connected, tried, remedied, prompted, keyValid>>

-----------------------------------------------------------------------------
(* _check_stale of an account entry.                                           *)

RemedyDue == connected /\ heard # Never /\ remedied >= Stale

\* The requests are sent again first; a reconnect follows if that did not help.
Remedy ==
    IF RemedyDue
      THEN remedied' = 0 /\ tried' = ~tried /\ asked' = ~tried
      ELSE UNCHANGED <<tried, remedied, asked>>

ForgetNothing == UNCHANGED tried           \* (faulty)
\* A device that is heard again starts with the cheap remedy the next time.
Recover == tried' = FALSE

CheckStale ==
    /\ login = "app" /\ nextCheck = 0 /\ nextCheck' = Check
    /\ IF SilentFor(Stale)
         THEN Remedy /\ deviceAvailable' = (deviceAvailable /\ ~SilentFor(Hard - 1))
         ELSE Recover /\ remedied' = Stale /\ deviceAvailable' = TRUE /\ UNCHANGED asked
    /\ UNCHANGED <<login, heard, connected, httpVars>>

-----------------------------------------------------------------------------
(* _async_update_data of a developer entry.                                    *)

StillTalking == FALSE                      \* (faulty: only the polls count)
\* The device's own frames vouch for it.
Vouched == ~SilentFor(Window)

HttpAnswers ==
    /\ login = "developer" /\ keyValid
    /\ failed' = 0 /\ refused' = 0 /\ deviceAvailable' = TRUE
    /\ UNCHANGED <<login, heard, checkVars, prompted, keyValid>>

\* An empty answer accepts the key, a refusal does not, no answer says neither.
\* A poll the rate limit held back, or one for a device that is not linked to
\* the key, changes nothing at all.
HttpFails(answer) ==
    /\ login = "developer"
    /\ answer = "empty" => keyValid
    /\ answer = "refused" => ~keyValid
    /\ failed' = IF failed < Failing THEN failed + 1 ELSE failed
    /\ refused' = CASE answer = "empty" -> 0
                    [] answer = "refused" -> IF refused <= Refusals THEN refused + 1 ELSE refused
                    [] answer = "none" -> refused
    /\ deviceAvailable' = (deviceAvailable /\ (failed' < Failing \/ Vouched))
    /\ prompted' = (prompted \/ (refused' = Refusals /\ heard = Never))
    /\ UNCHANGED <<login, heard, checkVars, keyValid>>

-----------------------------------------------------------------------------
SessionChanges ==
    /\ connected' = ~connected
    /\ UNCHANGED <<login, heard, deviceAvailable, nextCheck, tried, remedied, asked, httpVars>>

KeyRevoked ==
    /\ login = "developer" /\ keyValid /\ keyValid' = FALSE
    /\ UNCHANGED <<login, heard, deviceAvailable, checkVars, failed, refused, prompted>>

Longest == (IF Hard > Window THEN Hard ELSE Window) + Check + 1
Later(ticks, limit) == IF ticks < limit THEN ticks + 1 ELSE ticks

\* A check that is due runs before the clock goes on.
AgeTick ==
    /\ login = "app" => nextCheck > 0
    /\ heard' = IF heard = Never THEN heard ELSE Later(heard, Longest)
    /\ nextCheck' = IF login = "app" THEN nextCheck - 1 ELSE nextCheck
    /\ remedied' = Later(remedied, Stale)
    /\ UNCHANGED <<login, deviceAvailable, connected, tried, asked, httpVars>>

AvailabilityNext ==
    \/ FrameArrives \/ CheckStale \/ HttpAnswers
    \/ \E answer \in {"empty", "refused", "none"} : HttpFails(answer)
    \/ SessionChanges \/ KeyRevoked \/ AgeTick

AvailabilitySpec == AvailabilityInit /\ [][AvailabilityNext]_availabilityVars

-----------------------------------------------------------------------------
\* Entities go unavailable only when the device was silent for as long as its entry
\* allows, and an account entry shows nothing that is older than that plus one check.
AvailabilityHonest ==
    /\ ~deviceAvailable => IF login = "app" THEN SilentFor(Hard - 1) ELSE SilentFor(Window)
    /\ deviceAvailable /\ login = "app" /\ heard # Never => heard <= Hard + Check

\* The session is only torn down for a device that was asked again in this silence and
\* stayed silent ("Next silence starts with the cheap remedy again").
AskedBeforeReconnect ==
    [][CheckStale /\ tried /\ remedied' = 0 => asked]_availabilityVars
=============================================================================
