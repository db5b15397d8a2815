------------------------------- MODULE Session --------------------------------
(***************************************************************************)
(* The session of a visitor (auth-provider.tsx over keycloak-js): an       *)
(* identity the pages render from, kept beside the tokens of the Keycloak  *)
(* adapter, which grow old, are renewed by whoever asks first, and are     *)
(* lost when the session has been closed at the server.                    *)
(***************************************************************************)
EXTENDS AccessGuards

CONSTANT RoleSets  \* the roles an account may have

ASSUME SessionAssumption == RoleSets \subseteq SUBSET AppRoles /\ {} \in RoleSets

VARIABLES
  account,   \* the Keycloak server: is the session open, the roles
  keycloak,  \* the adapter: authenticated, and its token
  ready, identity,  \* what the pages render from
  waiters,   \* who waits for the renewal under way
  request    \* one call of a page, with the roles it was offered on

sessionVars == <<account, keycloak, ready, identity, waiters, request>>

Lives == {"fresh", "ageing", "expired"}  \* ageing: at most 30 seconds left
NoRequest == [at |-> "idle", page |-> "none", offered |-> {}, token |-> [roles |-> {}, life |-> "expired"]]
SignedOut == [authenticated |-> FALSE, roles |-> {}, life |-> "expired"]
readIdentity(k) == [authenticated |-> k.authenticated, roles |-> k.roles]

SessionTypeOK ==
  /\ account \in [open : BOOLEAN, roles : RoleSets]
  /\ keycloak \in [authenticated : BOOLEAN, roles : RoleSets, life : Lives]
  /\ ready \in BOOLEAN
  /\ identity \in [authenticated : BOOLEAN, roles : RoleSets]
  /\ waiters \subseteq {"request", "expiry"}
  /\ request.at \in {"idle", "token", "sent", "unsigned", "unauthorized", "forbidden", "served"}
  /\ request.page \in PagesOffered \cup {"none"}

\* Nobody has signed in; after Login the check of the next page finds a session.
SessionInit ==
  /\ account = [open |-> FALSE, roles |-> {}]
  /\ keycloak = SignedOut
  /\ ready = FALSE
  /\ identity = readIdentity(SignedOut)
  /\ waiters = {}
  /\ request = NoRequest

-----------------------------------------------------------------------------
(* The Keycloak server *)

\* An administrator changes the roles of an account or closes its session.
AccountChanges ==
  /\ \E roles \in RoleSets, open \in {FALSE, account.open} : account' = [open |-> open, roles |-> roles]
  /\ UNCHANGED <<keycloak, ready, identity, waiters, request>>

Issued == [authenticated |-> TRUE, roles |-> account.roles, life |-> "fresh"]

-----------------------------------------------------------------------------
(* The adapter and the provider *)

\* The silent check finds a session or none, or fails: ready in every case.
InitSettles ==
  /\ ~ready
  /\ \E failed \in BOOLEAN :
       keycloak' = IF account.open /\ ~failed THEN Issued ELSE keycloak
  /\ ready' = TRUE
  /\ identity' = readIdentity(keycloak')
  /\ UNCHANGED <<account, waiters, request>>

\* The timer of the adapter tells of the expiry, which asks for a new token.
TokenAges ==
  /\ keycloak.authenticated
  /\ \/ /\ keycloak.life = "fresh"
        /\ keycloak' = [keycloak EXCEPT !.life = "ageing"]
        /\ UNCHANGED waiters
     \/ /\ keycloak.life = "ageing"
        /\ keycloak' = [keycloak EXCEPT !.life = "expired"]
        /\ waiters' = waiters \cup {"expiry"}
  /\ UNCHANGED <<account, ready, identity, request>>

\* getToken's own renewal does not read the identity again, the timer's does.
RenewalSucceeds ==
  /\ waiters # {} /\ account.open
  /\ keycloak' = Issued
  /\ identity' = IF "expiry" \in waiters THEN readIdentity(Issued) ELSE identity
  /\ request' = IF "request" \in waiters
                THEN [request EXCEPT !.at = "sent", !.token = [roles |-> account.roles, life |-> "fresh"]]
                ELSE request
  /\ waiters' = {}
  /\ UNCHANGED <<account, ready>>

GivesUp == request' = IF "request" \in waiters THEN [request EXCEPT !.at = "unsigned"] ELSE request

\* Variant with a bug: the loss of the tokens is not listened to.
LosesSilently ==
  /\ waiters # {} /\ ~account.open
  /\ keycloak' = SignedOut
  /\ GivesUp
  /\ waiters' = {}
  /\ UNCHANGED <<account, ready, identity>>

\* The server refuses: the adapter drops its tokens and says so (onAuthLogout).
RenewalRefused ==
  /\ waiters # {} /\ ~account.open
  /\ keycloak' = SignedOut
  /\ identity' = readIdentity(SignedOut)
  /\ GivesUp
  /\ waiters' = {}
  /\ UNCHANGED <<account, ready>>

\* The server is not reached: the tokens stay, and no timer is set for them.
RenewalFails ==
  /\ waiters # {}
  /\ GivesUp
  /\ waiters' = {}
  /\ UNCHANGED <<account, keycloak, ready, identity>>

\* login and logout leave the page; it comes back as a new one.
Login ==
  /\ ready /\ ~identity.authenticated
  /\ account' = [account EXCEPT !.open = TRUE]
  /\ keycloak' = SignedOut /\ ready' = FALSE /\ identity' = readIdentity(SignedOut)
  /\ waiters' = {} /\ request' = NoRequest

Logout ==
  /\ ready /\ identity.authenticated
  /\ account' = [account EXCEPT !.open = FALSE]
  /\ keycloak' = SignedOut /\ ready' = FALSE /\ identity' = readIdentity(SignedOut)
  /\ waiters' = {} /\ request' = NoRequest

-----------------------------------------------------------------------------
(* A page and the service it calls *)

AsksFor(p) == [NoRequest EXCEPT !.page = p, !.offered = identity.roles]
SendsWith(p, k) == [AsksFor(p) EXCEPT !.at = "sent", !.token = [roles |-> k.roles, life |-> k.life]]

\* Variant with a bug: the token at hand is sent as it is.
UsesTokenAtHand(p) ==
  /\ ready /\ request.at = "idle" /\ p \in headerLinks(identity)
  /\ request' = IF keycloak.authenticated THEN SendsWith(p, keycloak)
                ELSE [AsksFor(p) EXCEPT !.at = "unsigned"]
  /\ UNCHANGED <<account, keycloak, ready, identity, waiters>>

\* getToken: a token with less than 30 seconds to live is renewed first.
CallsService(p) ==
  /\ ready /\ request.at = "idle" /\ p \in headerLinks(identity)
  /\ \/ /\ ~keycloak.authenticated
        /\ request' = [AsksFor(p) EXCEPT !.at = "unsigned"]
        /\ UNCHANGED waiters
     \/ /\ keycloak.authenticated /\ keycloak.life = "fresh"
        /\ request' = SendsWith(p, keycloak)
        /\ UNCHANGED waiters
     \/ /\ keycloak.authenticated /\ keycloak.life # "fresh"
        /\ request' = [AsksFor(p) EXCEPT !.at = "token"]
        /\ waiters' = waiters \cup {"request"}
  /\ UNCHANGED <<account, keycloak, ready, identity>>

\* A request is under way for less than 30 seconds.
Later(life) == IF life = "fresh" THEN {"fresh", "ageing"} ELSE {life, "expired"}

ServesRequest ==
  /\ request.at = "sent"
  /\ \E life \in Later(request.token.life) :
       request' = [request EXCEPT !.at = Verdict([request.token EXCEPT !.life = life], request.page)]
  /\ UNCHANGED <<account, keycloak, ready, identity, waiters>>

ShowsVerdict ==
  /\ request.at \in {"unsigned", "unauthorized", "forbidden", "served"}
  /\ request' = NoRequest
  /\ UNCHANGED <<account, keycloak, ready, identity, waiters>>

-----------------------------------------------------------------------------
SessionParts == {"check", "renewal", "request"}

\* What others do for the page, and the page's own continuations.
Settles(part) ==
  \/ part = "check" /\ InitSettles
  \/ part = "renewal" /\ (RenewalSucceeds \/ RenewalRefused \/ RenewalFails)
  \/ part = "request" /\ (ServesRequest \/ ShowsVerdict)

SessionNext ==
  \/ \E part \in SessionParts : Settles(part)
  \/ AccountChanges \/ TokenAges \/ Login \/ Logout
  \/ \E p \in PagesOffered : CallsService(p)
=============================================================================
