----------------------------- MODULE Marketplace -----------------------------
(***************************************************************************)
(* The exchange workflow as a whole: proposals, their acceptance as a saga *)
(* over two services, the confirmations, and the Catalog service under     *)
(* them.  Every handler takes its steps independently of the others.       *)
(***************************************************************************)
EXTENDS ProposalsService, TransactionsService

\* A request is one or the other.
ASSUME RequestAssumption == Accepts \cap Confirms = {}

vars == <<catalogVars, dbVars, creating, acceptPc, confirmPc>>

Init == CatalogInit /\ DataInit /\ ProposalsInit /\ TransactionsInit

\* Every request has been served and no call is under way: what is left is to
\* wait for the next user.
Idle == /\ \A p \in Proposals : creating[p] \in Ended
        /\ \A a \in Accepts : acceptPc[a] \in Ended
        /\ \A k \in Confirms : confirmPc[k] \in Ended
        /\ UNCHANGED vars

Next == \/ CatalogStep /\ UNCHANGED <<dbVars, creating, acceptPc, confirmPc>>
        \/ ProposalsStep /\ UNCHANGED confirmPc
        \/ TransactionsStep /\ UNCHANGED <<creating, acceptPc>>
        \/ Idle

Spec == Init /\ [][Next]_vars

\* Handlers run on an event loop and databases answer: a handler that can take
\* a step takes one, and a call that Catalog has received is carried out.
\* Users owe nothing: no request is ever obliged to begin.
AcceptGoesOn(a) == acceptPc[a] # "idle" /\ AcceptStep(a) /\ UNCHANGED confirmPc
ConfirmGoesOn(k) ==
  confirmPc[k] # "idle" /\ ConfirmStep(k) /\ UNCHANGED <<creating, acceptPc>>
CallGoesOn(c, l) ==
  Serve(c, l) /\ UNCHANGED <<dbVars, creating, acceptPc, confirmPc>>

Fairness == /\ \A a \in Accepts : WF_vars(AcceptGoesOn(a))
            /\ \A k \in Confirms : WF_vars(ConfirmGoesOn(k))
            /\ \A c \in Callers, l \in Listings : WF_vars(CallGoesOn(c, l))

FairSpec == Spec /\ Fairness

-----------------------------------------------------------------------------
\* Every variable has the values the code can give it.
TypeOK == CatalogTypeOK /\ DataTypeOK /\ ProposalsTypeOK /\ TransactionsTypeOK

Exchanged(p) == transaction[p] # "NONE"

\* No listing is part of two exchanges, agreed or completed: the saga of
\* ProposalsService.accept over two services never books a listing twice.
NoDoubleBooking ==
  \A p, q \in Proposals :
    p # q /\ Exchanged(p) /\ Exchanged(q) => Items(p) \cap Items(q) = {}

\* While a transaction is in progress its listings stay reserved for it; one
\* is closed early only by a confirm request that saw both confirmations.
ExchangeHoldsItems ==
  \A p \in Proposals : transaction[p] = "IN_PROGRESS" =>
    \A l \in Items(p) : \/ availability[l] = "RESERVED"
                        \/ availability[l] = "COMPLETED" /\ BothConfirmed(p)

\* A transaction is COMPLETED only once every listing of it is closed, and a
\* closed listing was closed for an exchange that both participants confirmed.
ClosedTogether ==
  /\ \A p \in Proposals : transaction[p] = "COMPLETED" =>
       \A l \in Items(p) : availability[l] = "COMPLETED"
  /\ \A l \in Listings : availability[l] = "COMPLETED" =>
       \E p \in Proposals : l \in Items(p) /\ Exchanged(p) /\ BothConfirmed(p)

\* The decision on a proposal is consistent with what it left behind: a
\* transaction exactly for an acceptance, one outbox row exactly for a
\* rejection, whichever of accept, reject and automatic rejection won.
DecisionRecorded ==
  \A p \in Proposals :
    /\ proposal[p] = "ACCEPTED" <=> Exchanged(p)
    /\ outbox[p] = (IF proposal[p] = "REJECTED" THEN 1 ELSE 0)

\* The listings an accept request would release if it failed at this point:
\* targetReserved and offeredReserved in the code.
Holds(a) ==
  LET p == AcceptOf[a] IN
  CASE acceptPc[a] \in {"reserveOffered", "releaseOffered"} -> {Target[p]}
    [] acceptPc[a] = "commit"                               -> Items(p)
    [] OTHER                                                -> {}

\* A reservation that was granted and not yet read, or a release under way.
Granted(a, l) ==
  LET p == AcceptOf[a] IN
  /\ call[<<a, "reserve", l>>] = "ok"
  /\ \/ acceptPc[a] = "reserveTarget" /\ l = Target[p]
     \/ acceptPc[a] = "reserveOffered" /\ l = Offered[p]

Releasing(a, l) == call[<<a, "release", l>>] \in {"sent", "checked"}

\* Accept request a is answerable for the reservation of l.
Claims(a, l) == l \in Holds(a) \/ Granted(a, l) \/ Releasing(a, l)

\* A reservation has one owner at a time: at most one accept request, or one
\* exchange, answers for it, so a release never frees somebody else's listing.
SoleClaim ==
  \A a \in Accepts, l \in Listings : Claims(a, l) =>
    /\ availability[l] = "RESERVED"
    /\ \A b \in Accepts : Claims(b, l) => a = b
    /\ \A p \in Proposals : l \in Items(p) => ~Exchanged(p)

\* Completing is safe to retry: whatever other confirm requests did meanwhile,
\* Catalog never answers 409 to a complete.
CompleteNeverRefused ==
  \A k \in Confirms, l \in Listings : call[<<k, "complete", l>>] # "conflict"

\* A completion is announced at most once, however many confirm requests run.
CompletionAnnouncedOnce ==
  \A p \in Proposals :
    /\ announced[<<"transaction.completed", p>>] <= 1
    /\ announced[<<"transaction.completed", p>>] = 1 => transaction[p] = "COMPLETED"

-----------------------------------------------------------------------------
(* What the safety properties rest on: the parts of an inductive invariant. *)

\* A proposal that exists obeys the rules of create, was inserted once, and is
\* what an accept request that has begun is about.
WellFormed ==
  /\ \A p \in Proposals :
       /\ creating[p] # "idle" \/ proposal[p] # "NONE" => MayPropose(p)
       /\ creating[p] \in {"idle", "getOffered", "insert"} => proposal[p] = "NONE"
  /\ \A a \in Accepts : acceptPc[a] # "idle" => proposal[AcceptOf[a]] # "NONE"

\* Who can have a call under way: releases come from a compensating accept,
\* completions from a confirm of a doubly confirmed exchange.
CallsBelong ==
  /\ \A c \in Callers, l \in Listings : call[<<c, "release", l>>] # "none" =>
       /\ c \in Accepts
       /\ acceptPc[c] \in {"releaseOffered", "releaseTarget", "failed"}
  /\ \A a \in Accepts : acceptPc[a] = "releaseOffered" =>
       call[<<a, "release", Target[AcceptOf[a]]>>] = "none"
  /\ \A c \in Callers, l \in Listings : call[<<c, "complete", l>>] # "none" =>
       /\ c \in Confirms
       /\ l \in Items(ConfirmOf[c])
       /\ Exchanged(ConfirmOf[c]) /\ BothConfirmed(ConfirmOf[c])

\* The listings of an exchange are not available, and how far a confirm
\* request has come tells which of them are closed.
ItemsHeld ==
  \A p \in Proposals : Exchanged(p) =>
    \A l \in Items(p) : availability[l] \in {"RESERVED", "COMPLETED"}

ClosingAt(k) ==
  /\ confirmPc[k] \in {"completeTarget", "completeOffered", "claim"} =>
       Exchanged(ConfirmOf[k]) /\ BothConfirmed(ConfirmOf[k])
  /\ confirmPc[k] = "completeOffered" =>
       availability[Target[ConfirmOf[k]]] = "COMPLETED"
  /\ confirmPc[k] = "claim" =>
       \A l \in Items(ConfirmOf[k]) : availability[l] = "COMPLETED"
  /\ \A l \in Listings : call[<<k, "complete", l>>] = "ok" =>
       availability[l] = "COMPLETED"

ClosingProgress == \A k \in Confirms : ClosingAt(k)

\* Without lost acknowledgements of a COMMIT this holds in every state, and
\* every safety property above follows from it.
SafetyInv ==
  /\ TypeOK /\ WellFormed /\ DecisionRecorded
  /\ CallsBelong /\ SoleClaim
  /\ ItemsHeld /\ NoDoubleBooking
  /\ ClosingProgress /\ ClosedTogether /\ CompleteNeverRefused

-----------------------------------------------------------------------------
\* ACCEPTED and REJECTED are final, and a closed listing is never reopened by
\* the unconditional writes of complete and release.
DecisionsAreFinal ==
  [][/\ \A p \in Proposals : proposal[p] \in {"ACCEPTED", "REJECTED"} =>
          proposal'[p] = proposal[p]
     /\ \A l \in Listings : availability[l] = "COMPLETED" =>
          availability'[l] = "COMPLETED"]_vars

\* The saga implements an atomic agreement.
StageOf(p) ==
  IF transaction[p] = "COMPLETED" THEN "closed"
  ELSE IF transaction[p] = "IN_PROGRESS" THEN "agreed"
  ELSE IF proposal[p] = "NONE" THEN "none"
  ELSE IF proposal[p] = "PENDING" THEN "open" ELSE "refused"

Deal == [p \in Proposals |-> StageOf(p)]

E == INSTANCE Exchange WITH deal <- Deal

\* Every step of the services is a step of Exchange or leaves it alone.
ImplementsExchange == E!Spec

-----------------------------------------------------------------------------
\* Every accept and confirm request that has begun gets an answer.
RequestsEnd ==
  /\ \A a \in Accepts : acceptPc[a] # "idle" ~> acceptPc[a] \in {"done", "failed"}
  /\ \A k \in Confirms : confirmPc[k] # "idle" ~> confirmPc[k] \in {"done", "failed"}

Spoken(l) == \E p \in Proposals : Exchanged(p) /\ l \in Items(p)

\* A reserved listing is eventually handed to an exchange or released.
ReservationsAreResolved ==
  \A l \in Listings :
    (availability[l] = "RESERVED" /\ ~Spoken(l)) ~> (availability[l] = "AVAILABLE" \/ Spoken(l))

\* Once both participants have confirmed, the exchange is completed, even when
\* the two requests ran side by side.
ConfirmedIsCompleted ==
  \A p \in Proposals : BothConfirmed(p) ~> transaction[p] = "COMPLETED"

\* What the documentation says of rivals: once a proposal is accepted no other
\* proposal for the same listing is left waiting (docs/22, line 11).
NoPendingRival ==
  \A p, q \in Proposals :
    proposal[p] = "ACCEPTED" /\ q # p /\ Target[q] = Target[p] => proposal[q] # "PENDING"
=============================================================================
