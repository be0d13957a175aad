------------------------------ MODULE CloudLink ------------------------------
(* A coordinator's way to the cloud: how it gets a certificate (SignIn) and    *)
(* the connection it makes with one (MqttLink).  They meet in the refresh of a *)
(* refused certificate, whose answer MqttLink takes as any answer, and SignIn  *)
(* takes every certificate that is not the newest as refused.  So they share   *)
(* no state, and each behaviour follows one of them.                           *)
EXTENDS MqttLink

CONSTANTS Hosts, MaxRenewals, MaxTroubles, OneVoice, Reachable, KeysServed      \* of SignIn

\* _AUTH_BASE_URLS names a host.
ASSUME HostsAssumption == Hosts \in Nat \ {0}

VARIABLES
    followed,    \* "link" or "account"
    keys, accepts, mood, right, issued, troubles, signing, held, cached, entry, asked, judged

accountVars == <<keys, accepts, mood, right, issued, troubles, signing, held, cached, entry,
                 asked, judged>>
cloudVars == <<followed, vars, accountVars>>

Account == INSTANCE SignIn

\* What is not followed starts in one way, an account that is not in no need of anything.
CloudInit ==
    /\ followed \in {"link", "account"}
    /\ Init /\ (followed # "link" => netUp)
    /\ IF followed = "account" THEN Account!SignInInit ELSE Account!Settled

OfLink(A) == followed = "link" /\ A /\ UNCHANGED <<followed, accountVars>>
OfAccount(A) == followed = "account" /\ A /\ UNCHANGED <<followed, vars>>

LinkStep == OfLink(Next)
AccountStep == OfAccount(Account!SignInNext)

\* MqttLink's fairness, of the behaviours that follow it.
LinkFairness ==
    /\ WF_cloudVars(OfLink(StartMqtt))
    /\ \A w \in Workers : WF_cloudVars(OfLink(WorkerStep(w)))
    /\ WF_cloudVars(OfLink(\E w \in Workers : Watchdog(w)))
    /\ SF_cloudVars(OfLink(PahoConnects)) /\ WF_cloudVars(OfLink(SessionDrops))
    /\ WF_cloudVars(OfLink(RefreshAnswered)) /\ SF_cloudVars(OfLink(AdoptBroker))
    /\ WF_cloudVars(OfLink(Disconnect)) /\ WF_cloudVars(OfLink(NetReturns))
    /\ WF_cloudVars(OfLink(DelayPasses)) /\ WF_cloudVars(OfLink(ResetIntervalPasses))

CloudSpec ==
    CloudInit /\ [][LinkStep \/ AccountStep]_cloudVars /\ LinkFairness /\ Account!SignInFairness

-----------------------------------------------------------------------------
\* SignIn: the user is asked to sign in again only when a host that knows the account
\* has judged the credentials.
AskedRightly == Account!AskedRightly

\* SignIn: the MQTT client comes to the certificate the broker takes, unless the user
\* has been asked.
CertificateArrives == Account!CertificateArrives

\* MqttLink: a running link that is down comes up.
ComesBack == followed = "link" => NeverGivesUp
=============================================================================
