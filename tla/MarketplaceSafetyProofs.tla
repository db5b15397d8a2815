----------------------- MODULE MarketplaceSafetyProofs -----------------------
(***************************************************************************)
(* The safety of the saga, for every set of listings, proposals and        *)
(* requests and every combination of faults except a COMMIT whose          *)
(* acknowledgement is lost; and what a step of the services may do to      *)
(* proposals, transactions and listings: decisions are final, and the saga *)
(* implements Exchange.                                                    *)
(***************************************************************************)
EXTENDS MarketplaceProofs

\* The part of SafetyInv that is about calls, reservations and exchanges.
HoldingInv == /\ CallsBelong /\ SoleClaim /\ ItemsHeld /\ NoDoubleBooking
              /\ ClosingProgress /\ ClosedTogether /\ CompleteNeverRefused

USE CatalogAssumption, DataAssumption, AcceptAssumption, ConfirmAssumption,
    RequestAssumption DEF HoldingInv

\* The listings of a proposal are listings.
LEMMA ItemsAreListings ==
  ASSUME NEW p \in Proposals PROVE Items(p) \subseteq Listings /\ Target[p] \in Items(p)
BY DEF Items, IsTrade

\* Steps that touch no call, no control point of accept or confirm and no
\* exchange keep it.
LEMMA HoldingFrame ==
  ASSUME HoldingInv,
         UNCHANGED <<availability, call, acceptPc, confirmPc, transaction, confirmed>>
  PROVE  HoldingInv'
<1>1. CallsBelong' /\ CompleteNeverRefused' /\ ClosingProgress'
  BY DEF CallsBelong, CompleteNeverRefused, ClosingProgress, ClosingAt, Exchanged, BothConfirmed, Items, IsTrade
<1>2. SoleClaim'
  BY DEF SoleClaim, Claims, Holds, Granted, Releasing, Exchanged, Items, IsTrade
<1>3. ItemsHeld' /\ NoDoubleBooking' /\ ClosedTogether'
  BY DEF ItemsHeld, NoDoubleBooking, ClosedTogether, Exchanged, BothConfirmed, Items, IsTrade
<1> QED BY <1>1, <1>2, <1>3

\* Neither do exchanges suffer from steps that leave them and the listings alone.
LEMMA ExchangesFrame ==
  ASSUME ItemsHeld, NoDoubleBooking, ClosedTogether,
         UNCHANGED <<availability, transaction, confirmed>>
  PROVE  ItemsHeld' /\ NoDoubleBooking' /\ ClosedTogether'
BY DEF ItemsHeld, NoDoubleBooking, ClosedTogether, Exchanged, BothConfirmed, Items, IsTrade

\* Giving up claims, and no other change to listings and exchanges, is safe.
LEMMA ClaimsShrink ==
  ASSUME SoleClaim, UNCHANGED <<availability, transaction>>,
         \A a \in Accepts, l \in Listings : Claims(a, l)' => Claims(a, l)
  PROVE  SoleClaim'
BY DEF SoleClaim, Exchanged, Items, IsTrade

-----------------------------------------------------------------------------
(* The Catalog service. *)

\* A reservation is granted only where nobody has one.
LEMMA ServeReserveHolding ==
  ASSUME SafetyInv, NEW c \in Callers, NEW l \in Listings, ServeReserve(c, l),
         UNCHANGED <<dbVars, creating, acceptPc, confirmPc>>
  PROVE  HoldingInv'
<1> USE DEF SafetyInv, TypeOK, CatalogTypeOK, DataTypeOK, CallStates, Operations,
            ServeReserve, Reply, dbVars
<1>1. CallsBelong' /\ CompleteNeverRefused'
  BY DEF CallsBelong, CompleteNeverRefused, Exchanged, BothConfirmed, Items, IsTrade
<1>2. SoleClaim'
  <2>1. ASSUME NEW b \in Accepts, NEW m \in Listings, Claims(b, m)'
        PROVE  Claims(b, m) \/ (b = c /\ m = l /\ ApprovedAndAvailable(l))
    BY <2>1 DEF Claims, Holds, Granted, Releasing, Items, IsTrade
  <2>2. \A p \in Proposals : \A m \in Items(p) : Exchanged(p) => availability[m] # "AVAILABLE"
    BY DEF ItemsHeld
  <2>3. \A b \in Accepts, m \in Listings : Claims(b, m) => availability[m] = "RESERVED"
    BY DEF SoleClaim
  <2>4. ASSUME NEW b \in Accepts, NEW m \in Listings, Claims(b, m)'
        PROVE  /\ availability'[m] = "RESERVED"
               /\ \A d \in Accepts : Claims(d, m)' => b = d
               /\ \A p \in Proposals : m \in Items(p) => ~Exchanged(p)
    BY <2>1, <2>2, <2>3, <2>4 DEF SoleClaim, ApprovedAndAvailable
  <2> QED BY <2>4 DEF SoleClaim, Exchanged, Items, IsTrade
<1>3. ItemsHeld' /\ NoDoubleBooking' /\ ClosedTogether' /\ ClosingProgress'
  <2>1. \A m \in Listings : \/ availability'[m] = availability[m]
                            \/ availability[m] = "AVAILABLE" /\ availability'[m] = "RESERVED"
    BY DEF ApprovedAndAvailable
  <2>2. \A k \in Callers, m \in Listings : call'[<<k, "complete", m>>] = call[<<k, "complete", m>>]
    OBVIOUS
  <2>3. ItemsHeld' /\ NoDoubleBooking'
    <3>1. NoDoubleBooking'
      BY DEF NoDoubleBooking, Exchanged, Items, IsTrade
    <3>2. ASSUME NEW p \in Proposals, Exchanged(p)', NEW m \in Items(p)
          PROVE  availability'[m] \in {"RESERVED", "COMPLETED"}
      <4>1. Exchanged(p) /\ m \in Listings
        BY <3>2, ItemsAreListings DEF Exchanged
      <4>2. availability[m] \in {"RESERVED", "COMPLETED"}
        BY <3>2, <4>1 DEF ItemsHeld
      <4> QED BY <2>1, <4>1, <4>2
    <3> QED BY <3>1, <3>2 DEF ItemsHeld, Items, IsTrade
  <2>4. ClosedTogether'
    BY <2>1, ItemsAreListings DEF ClosedTogether, Exchanged, BothConfirmed, Items, IsTrade
  <2>5. ClosingProgress'
    <3> SUFFICES ASSUME NEW k \in Confirms
                 PROVE  ClosingAt(k)'
      BY DEF ClosingProgress
    <3>1. ClosingAt(k) /\ ConfirmOf[k] \in Proposals
      BY DEF ClosingProgress
    <3> QED
      BY <2>1, <2>2, <3>1, ItemsAreListings
         DEF ClosingAt, Exchanged, BothConfirmed, Items, IsTrade
  <2> QED BY <2>3, <2>4, <2>5
<1> QED BY <1>1, <1>2, <1>3

\* Looking before the write changes no listing; a complete finds its listing
\* reserved or closed already, because its exchange holds it.
LEMMA CheckCompleteHolding ==
  ASSUME SafetyInv, NEW c \in Callers, NEW l \in Listings,
         CheckBeforeWrite(c, "complete", l, "COMPLETED"),
         UNCHANGED <<dbVars, creating, acceptPc, confirmPc>>
  PROVE  HoldingInv'
<1> USE DEF SafetyInv, TypeOK, CatalogTypeOK, CallStates, Operations
<1>1. /\ UNCHANGED <<availability, transaction, confirmed, acceptPc, confirmPc>>
      /\ call[<<c, "complete", l>>] = "sent"
  BY DEF CheckBeforeWrite, dbVars
<1>2. /\ c \in Confirms /\ l \in Items(ConfirmOf[c])
      /\ Exchanged(ConfirmOf[c]) /\ BothConfirmed(ConfirmOf[c])
  BY <1>1 DEF CallsBelong
<1>3. availability[l] \in {"RESERVED", "COMPLETED"}
  BY <1>2 DEF ItemsHeld
<1>4. PICK v \in {"ok", "checked"} :
        /\ call' = [call EXCEPT ![<<c, "complete", l>>] = v]
        /\ v = "ok" => availability[l] = "COMPLETED"
  BY <1>3 DEF CheckBeforeWrite, Reply
<1>5. CallsBelong' /\ CompleteNeverRefused'
  BY <1>1, <1>2, <1>4 DEF CallsBelong, CompleteNeverRefused, Exchanged, BothConfirmed, Items, IsTrade
<1>6. SoleClaim'
  <2>1. \A b \in Accepts, m \in Listings : Claims(b, m)' => Claims(b, m)
    BY <1>1, <1>4 DEF Claims, Holds, Granted, Releasing, Items, IsTrade
  <2> QED BY <1>1, <2>1, ClaimsShrink
<1>7. ItemsHeld' /\ NoDoubleBooking' /\ ClosedTogether'
  BY <1>1, ExchangesFrame
<1>8. ClosingProgress'
  <2> SUFFICES ASSUME NEW k \in Confirms PROVE ClosingAt(k)'
    BY DEF ClosingProgress
  <2>1. ClosingAt(k)
    BY DEF ClosingProgress
  <2>2. \A m \in Listings : call'[<<k, "complete", m>>] = "ok" =>
          call[<<k, "complete", m>>] = "ok" \/ availability[m] = "COMPLETED"
    BY <1>4
  <2> QED BY <1>1, <2>1, <2>2 DEF ClosingAt, Exchanged, BothConfirmed, Items, IsTrade
<1> QED BY <1>5, <1>6, <1>7, <1>8

\* A release looks, too; if it finds nothing to release its claim ends.
LEMMA CheckReleaseHolding ==
  ASSUME SafetyInv, NEW c \in Callers, NEW l \in Listings,
         CheckBeforeWrite(c, "release", l, "AVAILABLE"),
         UNCHANGED <<dbVars, creating, acceptPc, confirmPc>>
  PROVE  HoldingInv'
<1> USE DEF SafetyInv, TypeOK, CatalogTypeOK, CallStates, Operations
<1>1. /\ UNCHANGED <<availability, transaction, confirmed, acceptPc, confirmPc>>
      /\ call[<<c, "release", l>>] = "sent"
  BY DEF CheckBeforeWrite, dbVars
<1>2. PICK v \in CallStates : call' = [call EXCEPT ![<<c, "release", l>>] = v]
  BY DEF CheckBeforeWrite, Reply
<1>3. CallsBelong' /\ CompleteNeverRefused'
  BY <1>1, <1>2 DEF CallsBelong, CompleteNeverRefused, Exchanged, BothConfirmed, Items, IsTrade
<1>4. SoleClaim'
  <2>1. \A b \in Accepts, m \in Listings : Claims(b, m)' => Claims(b, m)
    BY <1>1, <1>2 DEF Claims, Holds, Granted, Releasing, Items, IsTrade
  <2> QED BY <1>1, <2>1, ClaimsShrink
<1>5. ItemsHeld' /\ NoDoubleBooking' /\ ClosedTogether'
  BY <1>1, ExchangesFrame
<1>6. ClosingProgress'
  BY <1>1, <1>2 DEF ClosingProgress, ClosingAt, Exchanged, BothConfirmed, Items, IsTrade
<1> QED BY <1>3, <1>4, <1>5, <1>6

\* A complete writes to a listing of its own exchange, which nobody else claims.
LEMMA CompleteHolding ==
  ASSUME SafetyInv, NEW c \in Callers, NEW l \in Listings,
         WriteAfterCheck(c, "complete", l, "COMPLETED"),
         UNCHANGED <<dbVars, creating, acceptPc, confirmPc>>
  PROVE  HoldingInv'
<1> USE DEF SafetyInv, TypeOK, CatalogTypeOK, CallStates, Operations, dbVars
<1>1. /\ UNCHANGED <<transaction, confirmed, acceptPc, confirmPc>>
      /\ availability' = [availability EXCEPT ![l] = "COMPLETED"]
      /\ call' = [call EXCEPT ![<<c, "complete", l>>] = "ok"]
      /\ call[<<c, "complete", l>>] = "checked"
  BY DEF WriteAfterCheck, Reply
<1>2. /\ c \in Confirms /\ l \in Items(ConfirmOf[c])
      /\ Exchanged(ConfirmOf[c]) /\ BothConfirmed(ConfirmOf[c])
  BY <1>1 DEF CallsBelong
<1>3. CallsBelong' /\ CompleteNeverRefused'
  BY <1>1 DEF CallsBelong, CompleteNeverRefused, Exchanged, BothConfirmed, Items, IsTrade
<1>4. SoleClaim'
  <2>1. \A b \in Accepts, m \in Listings : Claims(b, m)' => Claims(b, m)
    BY <1>1 DEF Claims, Holds, Granted, Releasing, Items, IsTrade
  <2>2. \A b \in Accepts : ~Claims(b, l)
    BY <1>2 DEF SoleClaim
  <2> QED BY <1>1, <2>1, <2>2 DEF SoleClaim, Exchanged, Items, IsTrade
<1>5. \A m \in Listings : availability'[m] = (IF m = l THEN "COMPLETED" ELSE availability[m])
  BY <1>1
<1>6. ItemsHeld' /\ NoDoubleBooking'
  <2>1. NoDoubleBooking'
    BY <1>1 DEF NoDoubleBooking, Exchanged, Items, IsTrade
  <2>2. ASSUME NEW p \in Proposals, Exchanged(p)', NEW m \in Items(p)
        PROVE  availability'[m] \in {"RESERVED", "COMPLETED"}
    <3>1. m \in Listings /\ Exchanged(p)
      BY <1>1, <2>2, ItemsAreListings DEF Exchanged
    <3> QED BY <1>5, <2>2, <3>1 DEF ItemsHeld
  <2> QED BY <2>1, <2>2 DEF ItemsHeld, Items, IsTrade
<1>7. ClosedTogether'
  BY <1>1, <1>2, <1>5, ItemsAreListings DEF ClosedTogether, Exchanged, BothConfirmed, Items, IsTrade
<1>8. ClosingProgress'
  <2> SUFFICES ASSUME NEW k \in Confirms PROVE ClosingAt(k)'
    BY DEF ClosingProgress
  <2>1. ClosingAt(k) /\ ConfirmOf[k] \in Proposals
    BY DEF ClosingProgress
  <2>2. \A m \in Listings : call'[<<k, "complete", m>>] = "ok" =>
          m = l \/ call[<<k, "complete", m>>] = "ok"
    BY <1>1
  <2> QED
    BY <1>1, <1>5, <2>1, <2>2, ItemsAreListings
       DEF ClosingAt, Exchanged, BothConfirmed, Items, IsTrade
<1> QED BY <1>3, <1>4, <1>6, <1>7, <1>8

\* A release frees a listing that only its own accept request claims.
LEMMA ReleaseHolding ==
  ASSUME SafetyInv, NEW c \in Callers, NEW l \in Listings,
         WriteAfterCheck(c, "release", l, "AVAILABLE"),
         UNCHANGED <<dbVars, creating, acceptPc, confirmPc>>
  PROVE  HoldingInv'
<1> USE DEF SafetyInv, TypeOK, CatalogTypeOK, CallStates, Operations, dbVars
<1>1. /\ UNCHANGED <<transaction, confirmed, acceptPc, confirmPc>>
      /\ availability' = [availability EXCEPT ![l] = "AVAILABLE"]
      /\ call' = [call EXCEPT ![<<c, "release", l>>] = "ok"]
      /\ call[<<c, "release", l>>] = "checked"
  BY DEF WriteAfterCheck, Reply
<1>2. /\ c \in Accepts
      /\ acceptPc[c] \in {"releaseOffered", "releaseTarget", "failed"}
      /\ acceptPc[c] = "releaseOffered" => l # Target[AcceptOf[c]]
  BY <1>1 DEF CallsBelong
<1>3. /\ availability[l] = "RESERVED"
      /\ \A b \in Accepts : Claims(b, l) => b = c
      /\ \A p \in Proposals : l \in Items(p) => ~Exchanged(p)
  <2>1. Claims(c, l)
    BY <1>1 DEF Claims, Releasing
  <2> QED BY <1>2, <2>1 DEF SoleClaim
<1>4. CallsBelong' /\ CompleteNeverRefused'
  BY <1>1, <1>2 DEF CallsBelong, CompleteNeverRefused, Exchanged, BothConfirmed, Items, IsTrade
<1>5. SoleClaim'
  <2>1. \A b \in Accepts, m \in Listings : Claims(b, m)' => Claims(b, m)
    BY <1>1 DEF Claims, Holds, Granted, Releasing, Items, IsTrade
  <2>2. ~Claims(c, l)'
    BY <1>1, <1>2 DEF Claims, Holds, Granted, Releasing, Items, IsTrade
  <2> QED BY <1>1, <1>3, <2>1, <2>2 DEF SoleClaim, Exchanged, Items, IsTrade
<1>6. \A m \in Listings : availability'[m] = (IF m = l THEN "AVAILABLE" ELSE availability[m])
  BY <1>1
<1>7. ItemsHeld' /\ NoDoubleBooking'
  <2>1. NoDoubleBooking'
    BY <1>1 DEF NoDoubleBooking, Exchanged, Items, IsTrade
  <2>2. ASSUME NEW p \in Proposals, Exchanged(p)', NEW m \in Items(p)
        PROVE  availability'[m] \in {"RESERVED", "COMPLETED"}
    <3>1. m \in Listings /\ Exchanged(p) /\ m # l
      BY <1>1, <1>3, <2>2, ItemsAreListings DEF Exchanged
    <3> QED BY <1>6, <2>2, <3>1 DEF ItemsHeld
  <2> QED BY <2>1, <2>2 DEF ItemsHeld, Items, IsTrade
<1>8. ClosedTogether'
  BY <1>1, <1>3, <1>6, ItemsAreListings DEF ClosedTogether, Exchanged, BothConfirmed, Items, IsTrade
<1>9. ClosingProgress'
  <2> SUFFICES ASSUME NEW k \in Confirms PROVE ClosingAt(k)'
    BY DEF ClosingProgress
  <2>1. ClosingAt(k) /\ ConfirmOf[k] \in Proposals
    BY DEF ClosingProgress
  <2>2. \A m \in Listings : call'[<<k, "complete", m>>] = call[<<k, "complete", m>>]
    BY <1>1
  <2>3. \A m \in Listings : availability[m] = "COMPLETED" => availability'[m] = "COMPLETED"
    BY <1>3, <1>6
  <2> QED
    BY <1>1, <2>1, <2>2, <2>3, ItemsAreListings
       DEF ClosingAt, Exchanged, BothConfirmed, Items, IsTrade
<1> QED BY <1>4, <1>5, <1>7, <1>8, <1>9

\* A call that is lost takes its claim with it.
LEMMA LoseCallHolding ==
  ASSUME SafetyInv, NEW c \in Callers, NEW op \in Operations, NEW l \in Listings,
         LoseCall(c, op, l), UNCHANGED <<dbVars, creating, acceptPc, confirmPc>>
  PROVE  HoldingInv'
<1> USE DEF SafetyInv, TypeOK, CatalogTypeOK, CallStates, Operations
<1>1. /\ UNCHANGED <<availability, transaction, confirmed, acceptPc, confirmPc>>
      /\ call' = [call EXCEPT ![<<c, op, l>>] = "none"]
  BY DEF LoseCall, Reply, dbVars
<1>2. CallsBelong' /\ CompleteNeverRefused'
  BY <1>1 DEF CallsBelong, CompleteNeverRefused, Exchanged, BothConfirmed, Items, IsTrade
<1>3. SoleClaim'
  <2>1. \A b \in Accepts, m \in Listings : Claims(b, m)' => Claims(b, m)
    BY <1>1 DEF Claims, Holds, Granted, Releasing, Items, IsTrade
  <2> QED BY <1>1, <2>1, ClaimsShrink
<1>4. ItemsHeld' /\ NoDoubleBooking' /\ ClosedTogether'
  BY <1>1, ExchangesFrame
<1>5. ClosingProgress'
  BY <1>1 DEF ClosingProgress, ClosingAt, Exchanged, BothConfirmed, Items, IsTrade
<1> QED BY <1>2, <1>3, <1>4, <1>5

\* Every step of the Catalog service.
LEMMA CatalogStepHolding ==
  ASSUME SafetyInv, CatalogStep, UNCHANGED <<dbVars, creating, acceptPc, confirmPc>>
  PROVE  HoldingInv'
<1>1. ASSUME NEW l \in Listings, Moderation(l) PROVE HoldingInv'
  BY <1>1, HoldingFrame
     DEF SafetyInv, Moderation, Approve, RejectListing, UpdateOwnedRead, UpdateOwnedWrite, dbVars
<1> QED
  BY <1>1, ServeReserveHolding, CheckCompleteHolding, CheckReleaseHolding, CompleteHolding, ReleaseHolding, LoseCallHolding
     DEF CatalogStep, Serve, ServeComplete, ServeRelease

-----------------------------------------------------------------------------
(* The accept requests. *)

\* A step of an accept request that leaves exchanges alone needs two things:
\* that its calls are where they belong, and that nobody claims more.
LEMMA AcceptFrame ==
  ASSUME SafetyInv, UNCHANGED <<availability, transaction, confirmed, confirmPc>>,
         \A k \in Confirms, m \in Listings :
           call'[<<k, "complete", m>>] = call[<<k, "complete", m>>],
         CallsBelong',
         \A b \in Accepts, m \in Listings : Claims(b, m)' => Claims(b, m)
  PROVE  HoldingInv'
<1>1. SoleClaim'
  BY ClaimsShrink DEF SafetyInv
<1>2. ItemsHeld' /\ NoDoubleBooking' /\ ClosedTogether'
  BY ExchangesFrame DEF SafetyInv
<1>3. CompleteNeverRefused'
  BY DEF SafetyInv, CompleteNeverRefused
<1>4. ClosingProgress'
  BY DEF SafetyInv, ClosingProgress, ClosingAt, Exchanged, BothConfirmed, Items, IsTrade
<1> QED BY <1>1, <1>2, <1>3, <1>4

\* Before anything is reserved.
LEMMA AcceptReadsHolding ==
  ASSUME SafetyInv, NEW a \in Accepts,
         AcceptReadProposal(a) \/ AcceptReadTarget(a) \/ AcceptReadOffered(a),
         UNCHANGED confirmPc
  PROVE  HoldingInv'
<1> USE DEF SafetyInv, TypeOK, CatalogTypeOK, ProposalsTypeOK, CallStates, Operations
<1> DEFINE p == AcceptOf[a]
<1>1. /\ UNCHANGED <<availability, transaction, confirmed>>
      /\ acceptPc[a] \in {"idle", "getTarget", "getOffered"}
      /\ \/ /\ \E to \in {"getTarget", "getOffered", "failed"} :
                 acceptPc' = [acceptPc EXCEPT ![a] = to]
            /\ call' = call
         \/ /\ acceptPc' = [acceptPc EXCEPT ![a] = "reserveTarget"]
            /\ call' = [call EXCEPT ![<<a, "reserve", Target[p]>>] = "sent"]
  BY DEF AcceptReadProposal, AcceptReadTarget, AcceptReadOffered, AcceptAt, Sent, catalogVars, dbVars
<1>2. CallsBelong'
  BY <1>1 DEF CallsBelong, Exchanged, BothConfirmed, Items, IsTrade
<1>3. ASSUME NEW b \in Accepts, NEW m \in Listings, Claims(b, m)' PROVE Claims(b, m)
  BY <1>1, <1>3 DEF Claims, Holds, Granted, Releasing, Items, IsTrade
<1> QED BY <1>1, <1>2, <1>3, AcceptFrame

\* Answers to the reservations: a granted one is kept, a refused or timed out
\* one leaves at most the target to release.
LEMMA AcceptReservesHolding ==
  ASSUME SafetyInv, NEW a \in Accepts,
         AcceptReservesTarget(a) \/ AcceptReservesOffered(a),
         UNCHANGED confirmPc
  PROVE  HoldingInv'
<1> USE DEF SafetyInv, TypeOK, CatalogTypeOK, ProposalsTypeOK, CallStates, Operations
<1> DEFINE p == AcceptOf[a]
<1>1. CASE AcceptReservesTarget(a)
  <2>1. /\ UNCHANGED <<availability, transaction, confirmed>>
        /\ acceptPc[a] = "reserveTarget"
        /\ \/ /\ call[<<a, "reserve", Target[p]>>] = "ok"
              /\ acceptPc' = [acceptPc EXCEPT ![a] = "reserveOffered"]
              /\ call' = [call EXCEPT ![<<a, "reserve", Target[p]>>] = "none",
                                      ![<<a, "reserve", Offered[p]>>] = "sent"]
           \/ /\ call[<<a, "reserve", Target[p]>>] = "ok"
              /\ ~IsTrade(p)
              /\ acceptPc' = [acceptPc EXCEPT ![a] = "commit"]
              /\ call' = [call EXCEPT ![<<a, "reserve", Target[p]>>] = "none"]
           \/ /\ acceptPc' = [acceptPc EXCEPT ![a] = "failed"]
              /\ \/ call' = [call EXCEPT ![<<a, "reserve", Target[p]>>] = "none"]
                 \/ call' = call
    BY <1>1 DEF AcceptReservesTarget, AcceptAt, Sent, Consumed, Answered, dbVars
  <2>2. CallsBelong'
    BY <2>1 DEF CallsBelong, Exchanged, BothConfirmed, Items, IsTrade
  <2>3. ASSUME NEW b \in Accepts, NEW m \in Listings, Claims(b, m)' PROVE Claims(b, m)
    BY <2>1, <2>3 DEF Claims, Holds, Granted, Releasing, Items, IsTrade
  <2>4. \A k \in Confirms, m \in Listings :
          call'[<<k, "complete", m>>] = call[<<k, "complete", m>>]
    BY <2>1
  <2> QED BY <2>1, <2>2, <2>3, <2>4, AcceptFrame
<1>2. CASE AcceptReservesOffered(a)
  <2>1. /\ UNCHANGED <<availability, transaction, confirmed>>
        /\ acceptPc[a] = "reserveOffered"
        /\ \/ /\ call[<<a, "reserve", Offered[p]>>] = "ok"
              /\ acceptPc' = [acceptPc EXCEPT ![a] = "commit"]
              /\ call' = [call EXCEPT ![<<a, "reserve", Offered[p]>>] = "none"]
           \/ /\ acceptPc' = [acceptPc EXCEPT ![a] = "releaseTarget"]
              /\ call' = [call EXCEPT ![<<a, "release", Target[p]>>] = "sent"]
    BY <1>2 DEF AcceptReservesOffered, AcceptAt, Sent, Consumed, Answered, dbVars
  <2>2. CallsBelong'
    BY <2>1 DEF CallsBelong, Exchanged, BothConfirmed, Items, IsTrade
  <2>3. ASSUME NEW b \in Accepts, NEW m \in Listings, Claims(b, m)' PROVE Claims(b, m)
    <3>1. CASE b # a
      BY <2>1, <2>3, <3>1 DEF Claims, Holds, Granted, Releasing, Items, IsTrade
    <3>2. CASE b = a /\ m = Target[p]
      BY <2>1, <3>2 DEF Claims, Holds
    <3>3. CASE b = a /\ m # Target[p] /\ m \in Items(p) /\ acceptPc'[a] = "commit"
      <4>1. m = Offered[p] /\ call[<<a, "reserve", m>>] = "ok"
        BY <2>1, <3>3 DEF Items
      <4> QED BY <2>1, <3>3, <4>1 DEF Claims, Granted
    <3>4. CASE b = a /\ m # Target[p] /\ ~(m \in Items(p) /\ acceptPc'[a] = "commit")
      <4>1. ~(m \in Holds(b))' /\ ~Granted(b, m)'
        BY <2>1, <3>4 DEF Holds, Granted, Items, IsTrade
      <4>2. call'[<<a, "release", m>>] = call[<<a, "release", m>>]
        BY <2>1, <3>4
      <4> QED BY <2>3, <3>4, <4>1, <4>2 DEF Claims, Releasing
    <3> QED BY <3>1, <3>2, <3>3, <3>4
  <2>4. \A k \in Confirms, m \in Listings :
          call'[<<k, "complete", m>>] = call[<<k, "complete", m>>]
    BY <2>1
  <2> QED BY <2>1, <2>2, <2>3, <2>4, AcceptFrame
<1> QED BY <1>1, <1>2

\* The compensation, and the end of the request.
LEMMA AcceptEndsHolding ==
  ASSUME SafetyInv, NEW a \in Accepts,
         AcceptPublish(a) \/ AcceptReleasesOffered(a) \/ AcceptReleasesTarget(a)
           \/ AcceptCrash(a),
         UNCHANGED confirmPc
  PROVE  HoldingInv'
<1> USE DEF SafetyInv, TypeOK, CatalogTypeOK, ProposalsTypeOK, CallStates, Operations
<1> DEFINE p == AcceptOf[a]
<1>1. CASE AcceptReleasesOffered(a)
  <2>1. /\ UNCHANGED <<availability, transaction, confirmed>>
        /\ acceptPc[a] = "releaseOffered"
        /\ acceptPc' = [acceptPc EXCEPT ![a] = "releaseTarget"]
        /\ call' = [call EXCEPT ![<<a, "release", Target[p]>>] = "sent"]
    BY <1>1 DEF AcceptReleasesOffered, AcceptAt, Sent, dbVars
  <2>2. CallsBelong'
    BY <2>1 DEF CallsBelong, Exchanged, BothConfirmed, Items, IsTrade
  <2>3. ASSUME NEW b \in Accepts, NEW m \in Listings, Claims(b, m)' PROVE Claims(b, m)
    BY <2>1, <2>3 DEF Claims, Holds, Granted, Releasing, Items, IsTrade
  <2>4. \A k \in Confirms, m \in Listings :
          call'[<<k, "complete", m>>] = call[<<k, "complete", m>>]
    BY <2>1
  <2> QED BY <2>1, <2>2, <2>3, <2>4, AcceptFrame
<1>2. CASE AcceptPublish(a) \/ AcceptReleasesTarget(a) \/ AcceptCrash(a)
  <2>1. /\ UNCHANGED <<availability, call, transaction, confirmed>>
        /\ \/ /\ acceptPc[a] = "publish"
              /\ acceptPc' = [acceptPc EXCEPT ![a] = "done"]
           \/ /\ acceptPc[a] \notin {"idle", "done", "failed"}
              /\ acceptPc' = [acceptPc EXCEPT ![a] = "failed"]
    BY <1>2 DEF AcceptPublish, AcceptReleasesTarget, AcceptCrash, AcceptAt, Ended,
                catalogVars, dbVars
  <2>2. CallsBelong'
    BY <2>1 DEF CallsBelong, Exchanged, BothConfirmed, Items, IsTrade
  <2>3. ASSUME NEW b \in Accepts, NEW m \in Listings, Claims(b, m)' PROVE Claims(b, m)
    BY <2>1, <2>3 DEF Claims, Holds, Granted, Releasing, Items, IsTrade
  <2> QED BY <2>1, <2>2, <2>3, AcceptFrame
<1> QED BY <1>1, <1>2

\* A commit passes what the accept request claims on to the new exchange.
LEMMA AcceptTransactionHolding ==
  ASSUME SafetyInv, NEW a \in Accepts, acceptPc[a] = "commit",
         AcceptTransaction(AcceptOf[a]),
         acceptPc' = [acceptPc EXCEPT ![a] = "publish"],
         UNCHANGED <<availability, call, confirmPc>>
  PROVE  HoldingInv'
<1> USE DEF SafetyInv, TypeOK, CatalogTypeOK, DataTypeOK, ProposalsTypeOK
<1> DEFINE p == AcceptOf[a]
<1>1. /\ p \in Proposals
      /\ confirmed' = confirmed
      /\ transaction' = [transaction EXCEPT ![p] = "IN_PROGRESS"]
      /\ \A q \in Proposals : Exchanged(q)' <=> q = p \/ Exchanged(q)
  BY DEF AcceptTransaction, Exchanged
<1>2. ASSUME NEW l \in Items(p)
      PROVE  /\ l \in Listings /\ availability[l] = "RESERVED"
             /\ \A b \in Accepts : Claims(b, l) => b = a
             /\ \A q \in Proposals : l \in Items(q) => ~Exchanged(q)
  <2>1. l \in Listings /\ Claims(a, l)
    BY <1>1, <1>2, ItemsAreListings DEF Claims, Holds
  <2> QED BY <2>1 DEF SoleClaim
<1>3. CallsBelong' /\ CompleteNeverRefused'
  BY <1>1 DEF CallsBelong, CompleteNeverRefused, BothConfirmed, Items, IsTrade
<1>4. SoleClaim'
  <2>1. ASSUME NEW b \in Accepts, NEW m \in Listings, Claims(b, m)'
        PROVE  Claims(b, m) /\ b # a
    <3>1. CASE b # a
      BY <2>1, <3>1 DEF Claims, Holds, Granted, Releasing, Items, IsTrade
    <3>2. CASE b = a
      <4>1. call[<<a, "release", m>>] = "none"
        BY DEF CallsBelong
      <4> QED BY <2>1, <3>2, <4>1 DEF Claims, Holds, Granted, Releasing
    <3> QED BY <3>1, <3>2
  <2>2. ASSUME NEW b \in Accepts, NEW m \in Listings, Claims(b, m)'
        PROVE  /\ availability'[m] = "RESERVED"
               /\ \A d \in Accepts : Claims(d, m)' => b = d
               /\ \A q \in Proposals : m \in Items(q) => ~Exchanged(q)'
    <3>1. Claims(b, m) /\ m \notin Items(p)
      BY <1>2, <2>1, <2>2
    <3> QED BY <1>1, <2>1, <3>1 DEF SoleClaim
  <2> QED BY <2>2 DEF SoleClaim, Items, IsTrade
<1>5. ItemsHeld'
  BY <1>1, <1>2 DEF ItemsHeld, Items, IsTrade
<1>6. NoDoubleBooking'
  <2> SUFFICES ASSUME NEW q \in Proposals, NEW r \in Proposals, q # r,
                      Exchanged(q)', Exchanged(r)'
               PROVE  Items(q) \cap Items(r) = {}
    BY DEF NoDoubleBooking, Items, IsTrade
  <2>1. CASE q # p /\ r # p
    BY <1>1, <2>1 DEF NoDoubleBooking
  <2>2. CASE q = p
    BY <1>1, <1>2, <2>2
  <2>3. CASE r = p
    BY <1>1, <1>2, <2>3
  <2> QED BY <2>1, <2>2, <2>3
<1>7. ClosedTogether'
  BY <1>1 DEF ClosedTogether, BothConfirmed, Items, IsTrade
<1>8. ClosingProgress'
  BY <1>1 DEF ClosingProgress, ClosingAt, BothConfirmed, Items, IsTrade
<1> QED BY <1>3, <1>4, <1>5, <1>6, <1>7, <1>8

\* A commit that fails starts the compensation.
LEMMA CompensateHolding ==
  ASSUME SafetyInv, NEW a \in Accepts, Compensate(a),
         UNCHANGED <<availability, dbVars, confirmPc>>
  PROVE  HoldingInv'
<1> USE DEF SafetyInv, TypeOK, CatalogTypeOK, ProposalsTypeOK, CallStates, Operations
<1> DEFINE p == AcceptOf[a]
<1>1. acceptPc[a] = "commit" /\ UNCHANGED <<transaction, confirmed>>
  BY DEF Compensate, AcceptAt, dbVars
<1>2. p \in Proposals /\ (IsTrade(p) => Offered[p] # Target[p])
  BY <1>1 DEF WellFormed, MayPropose
<1>3. CASE IsTrade(p)
  <2>1. /\ acceptPc' = [acceptPc EXCEPT ![a] = "releaseOffered"]
        /\ call' = [call EXCEPT ![<<a, "release", Offered[p]>>] = "sent"]
    BY <1>3 DEF Compensate, AcceptAt, Sent
  <2>2. CallsBelong'
    BY <1>1, <1>2, <1>3, <2>1 DEF CallsBelong, Exchanged, BothConfirmed, Items, IsTrade
  <2>3. ASSUME NEW b \in Accepts, NEW m \in Listings, Claims(b, m)' PROVE Claims(b, m)
    BY <1>1, <1>3, <2>1, <2>3 DEF Claims, Holds, Granted, Releasing, Items, IsTrade
  <2>4. \A k \in Confirms, m \in Listings :
          call'[<<k, "complete", m>>] = call[<<k, "complete", m>>]
    BY <2>1
  <2> QED BY <1>1, <2>2, <2>3, <2>4, AcceptFrame
<1>4. CASE ~IsTrade(p)
  <2>1. /\ acceptPc' = [acceptPc EXCEPT ![a] = "releaseTarget"]
        /\ call' = [call EXCEPT ![<<a, "release", Target[p]>>] = "sent"]
    BY <1>4 DEF Compensate, AcceptAt, Sent
  <2>2. CallsBelong'
    BY <1>1, <2>1 DEF CallsBelong, Exchanged, BothConfirmed, Items, IsTrade
  <2>3. ASSUME NEW b \in Accepts, NEW m \in Listings, Claims(b, m)' PROVE Claims(b, m)
    BY <1>1, <1>4, <2>1, <2>3 DEF Claims, Holds, Granted, Releasing, Items, IsTrade
  <2>4. \A k \in Confirms, m \in Listings :
          call'[<<k, "complete", m>>] = call[<<k, "complete", m>>]
    BY <2>1
  <2> QED BY <1>1, <2>2, <2>3, <2>4, AcceptFrame
<1> QED BY <1>3, <1>4

\* Every step of ProposalsService.
LEMMA ProposalsStepHolding ==
  ASSUME SafetyInv, "ackloss" \notin Faults, ProposalsStep, UNCHANGED confirmPc
  PROVE  HoldingInv'
<1>1. ASSUME NEW p \in Proposals, CreateStep(p) \/ CreateCrash(p) \/ RejectProposal(p)
      PROVE  HoldingInv'
  BY <1>1, HoldingFrame
     DEF SafetyInv, CreateStep, CreateReadTarget, CreateReadOffered, CreateInsert, CreatePublish,
         CreateCrash, RejectProposal, catalogVars, dbVars
<1>2. ASSUME NEW a \in Accepts, AcceptCommit(a)
      PROVE  HoldingInv'
  <2>1. CASE AcceptTransaction(AcceptOf[a]) /\ AcceptAt(a, "commit", "publish") /\ UNCHANGED call
    BY <1>2, <2>1, AcceptTransactionHolding DEF AcceptCommit, AcceptAt
  <2>2. CASE Compensate(a) /\ UNCHANGED dbVars
    BY <1>2, <2>2, CompensateHolding DEF AcceptCommit
  <2> QED BY <1>2, <2>1, <2>2 DEF AcceptCommit
<1>3. ASSUME NEW a \in Accepts, AcceptStep(a) \/ AcceptCrash(a)
      PROVE  HoldingInv'
  BY <1>2, <1>3, AcceptReadsHolding, AcceptReservesHolding, AcceptEndsHolding DEF AcceptStep
<1> QED BY <1>1, <1>3 DEF ProposalsStep

-----------------------------------------------------------------------------
(* The confirm requests. *)

\* A confirm request claims nothing; what it must keep is the rest.
LEMMA ConfirmFrame ==
  ASSUME SafetyInv, UNCHANGED <<availability, acceptPc>>,
         \A p \in Proposals : Exchanged(p)' <=> Exchanged(p),
         \A b \in Accepts, m \in Listings :
           /\ call'[<<b, "reserve", m>>] = call[<<b, "reserve", m>>]
           /\ call'[<<b, "release", m>>] = call[<<b, "release", m>>]
  PROVE  SoleClaim' /\ ItemsHeld' /\ NoDoubleBooking'
<1>1. \A b \in Accepts, m \in Listings : Claims(b, m)' => Claims(b, m)
  BY DEF Claims, Holds, Granted, Releasing, Items, IsTrade
<1>2. SoleClaim'
  BY <1>1 DEF SafetyInv, SoleClaim, Items, IsTrade
<1>3. ItemsHeld' /\ NoDoubleBooking'
  BY DEF SafetyInv, ItemsHeld, NoDoubleBooking, Items, IsTrade
<1> QED BY <1>2, <1>3

\* Reading, and ending: only the control point moves, and to nowhere special.
LEMMA ConfirmMovesHolding ==
  ASSUME SafetyInv, NEW k \in Confirms,
         NEW to \in {"mark", "reread", "publish", "done", "failed"},
         confirmPc' = [confirmPc EXCEPT ![k] = to],
         UNCHANGED <<availability, call, transaction, confirmed, acceptPc>>
  PROVE  HoldingInv'
<1> USE DEF SafetyInv, TypeOK, TransactionsTypeOK
<1>1. SoleClaim' /\ ItemsHeld' /\ NoDoubleBooking'
  BY ConfirmFrame DEF Exchanged
<1>2. CallsBelong' /\ CompleteNeverRefused' /\ ClosedTogether'
  BY DEF CallsBelong, CompleteNeverRefused, ClosedTogether, Exchanged, BothConfirmed, Items, IsTrade
<1>3. ClosingProgress'
  BY DEF ClosingProgress, ClosingAt, Exchanged, BothConfirmed, Items, IsTrade
<1> QED BY <1>1, <1>2, <1>3

\* Confirmations are never taken back.
LEMMA ConfirmMarkHolding ==
  ASSUME SafetyInv, NEW k \in Confirms, ConfirmMark(k), UNCHANGED <<creating, acceptPc>>
  PROVE  HoldingInv'
<1> USE DEF SafetyInv, TypeOK, DataTypeOK, TransactionsTypeOK
<1>1. /\ UNCHANGED <<availability, call, transaction>>
      /\ confirmPc' = [confirmPc EXCEPT ![k] = "reread"]
      /\ \A p \in Proposals : BothConfirmed(p) => BothConfirmed(p)'
  BY DEF ConfirmMark, ConfirmAt, BothConfirmed, Participants, catalogVars
<1>2. SoleClaim' /\ ItemsHeld' /\ NoDoubleBooking'
  BY <1>1, ConfirmFrame DEF Exchanged
<1>3. CallsBelong' /\ CompleteNeverRefused' /\ ClosedTogether'
  BY <1>1 DEF CallsBelong, CompleteNeverRefused, ClosedTogether, Exchanged, Items, IsTrade
<1>4. ClosingProgress'
  BY <1>1 DEF ClosingProgress, ClosingAt, Exchanged, Items, IsTrade
<1> QED BY <1>2, <1>3, <1>4

\* A confirm request that finds both confirmations calls complete on a listing
\* of its exchange.
LEMMA ConfirmSendsHolding ==
  ASSUME SafetyInv, NEW k \in Confirms, NEW l \in Items(ConfirmOf[k]),
         Exchanged(ConfirmOf[k]), BothConfirmed(ConfirmOf[k]),
         NEW to \in {"completeTarget", "completeOffered"},
         to = "completeOffered" => availability[Target[ConfirmOf[k]]] = "COMPLETED",
         confirmPc' = [confirmPc EXCEPT ![k] = to],
         call' = [call EXCEPT ![<<k, "complete", l>>] = "sent"],
         UNCHANGED <<availability, transaction, confirmed, acceptPc>>
  PROVE  HoldingInv'
<1> USE DEF SafetyInv, TypeOK, CatalogTypeOK, TransactionsTypeOK, CallStates, Operations
<1>1. l \in Listings
  BY ItemsAreListings
<1>2. SoleClaim' /\ ItemsHeld' /\ NoDoubleBooking'
  BY ConfirmFrame DEF Exchanged
<1>3. CallsBelong'
  BY <1>1 DEF CallsBelong, Exchanged, BothConfirmed, Items, IsTrade
<1>4. CompleteNeverRefused' /\ ClosedTogether'
  BY <1>1 DEF CompleteNeverRefused, ClosedTogether, Exchanged, BothConfirmed, Items, IsTrade
<1>5. ClosingProgress'
  <2> SUFFICES ASSUME NEW j \in Confirms PROVE ClosingAt(j)'
    BY DEF ClosingProgress
  <2>1. ClosingAt(j)
    BY DEF ClosingProgress
  <2>2. \A m \in Listings : call'[<<j, "complete", m>>] = "ok" => call[<<j, "complete", m>>] = "ok"
    OBVIOUS
  <2> QED
    BY <2>1, <2>2 DEF ClosingAt, Exchanged, BothConfirmed, Items, IsTrade
<1> QED BY <1>2, <1>3, <1>4, <1>5

\* The claim on the transaction is only reached with every listing closed.
LEMMA ConfirmClaimHolding ==
  ASSUME SafetyInv, NEW k \in Confirms, ConfirmClaim(k), UNCHANGED <<creating, acceptPc>>
  PROVE  HoldingInv'
<1> USE DEF SafetyInv, TypeOK, DataTypeOK, TransactionsTypeOK
<1> DEFINE p == ConfirmOf[k]
<1>1. CASE UNCHANGED transaction
  BY <1>1, ConfirmMovesHolding DEF ConfirmClaim, ConfirmAt, catalogVars
<1>2. CASE ~UNCHANGED transaction
  <2>1. /\ p \in Proposals
        /\ UNCHANGED <<availability, call, confirmed>>
        /\ transaction[p] = "IN_PROGRESS"
        /\ transaction' = [transaction EXCEPT ![p] = "COMPLETED"]
        /\ confirmPc[k] = "claim"
        /\ confirmPc' = [confirmPc EXCEPT ![k] = "publish"]
    BY <1>2 DEF ConfirmClaim, ConfirmAt, catalogVars
  <2>2. \A q \in Proposals : Exchanged(q)' <=> Exchanged(q)
    BY <2>1 DEF Exchanged
  <2>3. SoleClaim' /\ ItemsHeld' /\ NoDoubleBooking'
    BY <2>1, <2>2, ConfirmFrame
  <2>4. CallsBelong' /\ CompleteNeverRefused'
    BY <2>1, <2>2 DEF CallsBelong, CompleteNeverRefused, BothConfirmed, Items, IsTrade
  <2>5. \A l \in Items(p) : availability[l] = "COMPLETED"
    BY <2>1 DEF ClosingProgress, ClosingAt
  <2>6. ClosedTogether'
    BY <2>1, <2>2, <2>5 DEF ClosedTogether, BothConfirmed, Items, IsTrade
  <2>7. ClosingProgress'
    BY <2>1, <2>2 DEF ClosingProgress, ClosingAt, BothConfirmed, Items, IsTrade
  <2> QED BY <2>3, <2>4, <2>6, <2>7
<1> QED BY <1>1, <1>2

\* From one listing to the next, and to the claim.
LEMMA ConfirmCompletesHolding ==
  ASSUME SafetyInv, NEW k \in Confirms,
         ConfirmCompletesTarget(k) \/ ConfirmCompletesOffered(k),
         UNCHANGED <<creating, acceptPc>>
  PROVE  HoldingInv'
<1> USE DEF SafetyInv, TypeOK, TransactionsTypeOK, dbVars, ConfirmAt
<1> DEFINE p == ConfirmOf[k]
<1>1. ASSUME confirmPc' = [confirmPc EXCEPT ![k] = "claim"],
             UNCHANGED <<availability, call, transaction, confirmed>>,
             Exchanged(p), BothConfirmed(p),
             \A l \in Items(p) : availability[l] = "COMPLETED"
      PROVE  HoldingInv'
  <2>1. SoleClaim' /\ ItemsHeld' /\ NoDoubleBooking'
    BY <1>1, ConfirmFrame DEF Exchanged
  <2>2. CallsBelong' /\ CompleteNeverRefused' /\ ClosedTogether'
    BY <1>1 DEF CallsBelong, CompleteNeverRefused, ClosedTogether, Exchanged, BothConfirmed,
                Items, IsTrade
  <2>3. ClosingProgress'
    BY <1>1 DEF ClosingProgress, ClosingAt, Exchanged, BothConfirmed, Items, IsTrade
  <2> QED BY <2>1, <2>2, <2>3
<1>2. CASE ConfirmCompletesTarget(k)
  <2> USE <1>2 DEF ConfirmCompletesTarget
  <2>1. confirmPc[k] = "completeTarget" /\ Exchanged(p) /\ BothConfirmed(p) /\ p \in Proposals
    BY DEF ClosingProgress, ClosingAt
  <2>2. CASE confirmPc' = [confirmPc EXCEPT ![k] = "failed"] /\ UNCHANGED call
    BY <2>2, ConfirmMovesHolding
  <2>3. CASE Answered(k, "complete", Target[p], "ok")
    <3>1. availability[Target[p]] = "COMPLETED"
      BY <2>1, <2>3 DEF Answered, ClosingProgress, ClosingAt
    <3>2. CASE IsTrade(p) /\ ConfirmAt(k, "completeTarget", "completeOffered")
               /\ call' = Sent(call, k, "complete", Offered[p])
      BY <2>1, <3>1, <3>2, ConfirmSendsHolding DEF Sent, Items
    <3>3. CASE ~IsTrade(p) /\ ConfirmAt(k, "completeTarget", "claim") /\ UNCHANGED call
      BY <2>1, <3>1, <3>3, <1>1 DEF Items
    <3> QED BY <2>2, <2>3, <3>2, <3>3
  <2> QED BY <2>2, <2>3
<1>3. CASE ConfirmCompletesOffered(k)
  <2> USE <1>3 DEF ConfirmCompletesOffered
  <2>1. /\ confirmPc[k] = "completeOffered" /\ Exchanged(p) /\ BothConfirmed(p)
        /\ p \in Proposals /\ availability[Target[p]] = "COMPLETED"
    BY DEF ClosingProgress, ClosingAt
  <2>2. CASE confirmPc' = [confirmPc EXCEPT ![k] = "failed"]
    BY <2>2, ConfirmMovesHolding DEF catalogVars
  <2>3. CASE Answered(k, "complete", Offered[p], "ok") /\ confirmPc' = [confirmPc EXCEPT ![k] = "claim"]
    <3>1. IsTrade(p) => availability[Offered[p]] = "COMPLETED"
      BY <2>1, <2>3 DEF Answered, ClosingProgress, ClosingAt, IsTrade
    <3> QED BY <1>1, <2>1, <2>3, <3>1 DEF Items, catalogVars
  <2> QED BY <2>2, <2>3
<1> QED BY <1>2, <1>3

\* Every step of TransactionsService.
LEMMA TransactionsStepHolding ==
  ASSUME SafetyInv, TransactionsStep, UNCHANGED <<creating, acceptPc>>
  PROVE  HoldingInv'
<1> SUFFICES ASSUME NEW k \in Confirms, ConfirmStep(k) \/ ConfirmCrash(k)
             PROVE  HoldingInv'
  BY DEF TransactionsStep
<1>1. CASE ConfirmRead(k) \/ ConfirmPublish(k) \/ ConfirmCrash(k)
  BY <1>1, ConfirmMovesHolding
     DEF ConfirmRead, ConfirmPublish, ConfirmCrash, ConfirmAt, catalogVars, dbVars
<1>2. CASE ConfirmReread(k)
  <2>1. CASE confirmPc' = [confirmPc EXCEPT ![k] = "done"] /\ UNCHANGED call
    BY <1>2, <2>1, ConfirmMovesHolding DEF ConfirmReread, dbVars
  <2>2. CASE /\ confirmPc' = [confirmPc EXCEPT ![k] = "completeTarget"]
             /\ call' = Sent(call, k, "complete", Target[ConfirmOf[k]])
             /\ transaction[ConfirmOf[k]] = "IN_PROGRESS" /\ BothConfirmed(ConfirmOf[k])
    BY <1>2, <2>2, ConfirmSendsHolding, ItemsAreListings DEF ConfirmReread, Sent, Exchanged, dbVars
  <2> QED BY <1>2, <2>1, <2>2 DEF ConfirmReread, ConfirmAt
<1> QED
  BY <1>1, <1>2, ConfirmMarkHolding, ConfirmCompletesHolding, ConfirmClaimHolding DEF ConfirmStep

-----------------------------------------------------------------------------
(* The theorems. *)

\* The safety invariant holds at the start and every step keeps it.
LEMMA SafetyInit == Init => SafetyInv
<1> SUFFICES ASSUME Init PROVE SafetyInv
  OBVIOUS
<1>1. TypeOK
  BY TypeCorrectInit
<1>2. WellFormed /\ DecisionRecorded
  BY DEF Init, DataInit, ProposalsInit, WellFormed, DecisionRecorded, Exchanged
<1>3. CallsBelong /\ CompleteNeverRefused /\ ClosingProgress
  BY DEF Init, CatalogInit, ProposalsInit, TransactionsInit, Operations, CallsBelong,
         CompleteNeverRefused, ClosingProgress, ClosingAt
<1>4. SoleClaim
  BY DEF Init, CatalogInit, ProposalsInit, Operations, SoleClaim, Claims, Holds, Granted, Releasing
<1>5. ItemsHeld /\ NoDoubleBooking /\ ClosedTogether
  BY DEF Init, CatalogInit, DataInit, ItemsHeld, NoDoubleBooking, ClosedTogether, Exchanged
<1> QED BY <1>1, <1>2, <1>3, <1>4, <1>5 DEF SafetyInv

LEMMA SafetyStep ==
  ASSUME "ackloss" \notin Faults, SafetyInv, [Next]_vars PROVE SafetyInv'
<1>1. TypeOK'
  BY TypeCorrectStep DEF SafetyInv
<1>2. WellFormed' /\ DecisionRecorded'
  BY DecisionStep DEF SafetyInv, DecisionInv
<1>3. HoldingInv'
  <2>1. CASE UNCHANGED vars
    BY <2>1, HoldingFrame DEF SafetyInv, vars, catalogVars, dbVars
  <2> QED
    BY <2>1, CatalogStepHolding, ProposalsStepHolding, TransactionsStepHolding DEF Next, Idle
<1> QED BY <1>1, <1>2, <1>3 DEF SafetyInv

\* The invariant of the saga.
THEOREM SagaIsSafe == ASSUME "ackloss" \notin Faults PROVE Spec => []SafetyInv
BY SafetyInit, SafetyStep, PTL DEF Spec

\* However the requests interleave and whatever calls time out, get lost or
\* are carried out after their caller has gone, no listing is exchanged twice.
THEOREM NeverBookedTwice == ASSUME "ackloss" \notin Faults PROVE Spec => []NoDoubleBooking
<1>1. SafetyInv => NoDoubleBooking
  BY DEF SafetyInv
<1> QED BY <1>1, SagaIsSafe, PTL

\* A compensation never releases a reservation that is not its own.
THEOREM ReservationsHaveOneOwner == ASSUME "ackloss" \notin Faults PROVE Spec => []SoleClaim
<1>1. SafetyInv => SoleClaim
  BY DEF SafetyInv
<1> QED BY <1>1, SagaIsSafe, PTL

\* The listings of an exchange stay reserved until both have confirmed.
THEOREM ExchangesHoldTheirItems ==
  ASSUME "ackloss" \notin Faults PROVE Spec => []ExchangeHoldsItems
<1>1. SafetyInv => ExchangeHoldsItems
  <2> SUFFICES ASSUME SafetyInv, NEW p \in Proposals, transaction[p] = "IN_PROGRESS",
                      NEW l \in Items(p), availability[l] # "RESERVED"
               PROVE  availability[l] = "COMPLETED" /\ BothConfirmed(p)
    BY DEF ExchangeHoldsItems
  <2>1. Exchanged(p) /\ l \in Listings
    BY ItemsAreListings DEF Exchanged
  <2>2. availability[l] = "COMPLETED"
    BY <2>1 DEF SafetyInv, ItemsHeld
  <2>3. PICK q \in Proposals : l \in Items(q) /\ Exchanged(q) /\ BothConfirmed(q)
    BY <2>1, <2>2 DEF SafetyInv, ClosedTogether
  <2>4. q = p
    BY <2>1, <2>3 DEF SafetyInv, NoDoubleBooking
  <2> QED BY <2>2, <2>3, <2>4
<1> QED BY <1>1, SagaIsSafe, PTL

\* A transaction is completed only with all its listings closed, and listings
\* are closed only for exchanges that both participants confirmed.
THEOREM ListingsCloseTogether == ASSUME "ackloss" \notin Faults PROVE Spec => []ClosedTogether
<1>1. SafetyInv => ClosedTogether
  BY DEF SafetyInv
<1> QED BY <1>1, SagaIsSafe, PTL

\* A confirm request, first or repeated, is never refused by Catalog.
THEOREM CompletionsAreAccepted ==
  ASSUME "ackloss" \notin Faults PROVE Spec => []CompleteNeverRefused
<1>1. SafetyInv => CompleteNeverRefused
  BY DEF SafetyInv
<1> QED BY <1>1, SagaIsSafe, PTL

HIDE DEF HoldingInv

-----------------------------------------------------------------------------
(* The five things that can happen to the two tables. *)

Inserts(p) == /\ proposal[p] = "NONE"
              /\ proposal' = [proposal EXCEPT ![p] = "PENDING"]
              /\ transaction' = transaction

Refuses(p) == /\ proposal[p] = "PENDING"
              /\ proposal' = [proposal EXCEPT ![p] = "REJECTED"]
              /\ transaction' = transaction

\* The listings are free for the acceptance that the claim on p decides.
Agrees(p) == /\ AcceptTransaction(p)
             /\ \A q \in Proposals : Exchanged(q) => Items(p) \cap Items(q) = {}

Closes(p) == /\ transaction[p] = "IN_PROGRESS"
             /\ transaction' = [transaction EXCEPT ![p] = "COMPLETED"]
             /\ proposal' = proposal

Moves == \/ UNCHANGED <<proposal, transaction>>
         \/ \E p \in Proposals : Inserts(p) \/ Refuses(p) \/ Agrees(p) \/ Closes(p)

\* A request that has made its reservations accepts a proposal whose listings
\* no exchange has: they are reserved, and the reservations are its own.
LEMMA CommitAgrees ==
  ASSUME SafetyInv, NEW a \in Accepts, acceptPc[a] = "commit", AcceptTransaction(AcceptOf[a])
  PROVE  Agrees(AcceptOf[a])
<1>1. \A l \in Items(AcceptOf[a]) : l \in Listings /\ Claims(a, l)
  BY ItemsAreListings DEF Claims, Holds
<1>2. \A l \in Items(AcceptOf[a]) : \A q \in Proposals : l \in Items(q) => ~Exchanged(q)
  BY <1>1 DEF SafetyInv, SoleClaim
<1> QED BY <1>2 DEF Agrees

\* No other change happens to the tables.
LEMMA StepsMove == ASSUME SafetyInv, [Next]_vars PROVE Moves
<1>1. CASE CatalogStep /\ UNCHANGED <<dbVars, creating, acceptPc, confirmPc>>
  BY <1>1 DEF Moves, dbVars
<1>2. ASSUME NEW p \in Proposals, CreateStep(p) \/ CreateCrash(p) \/ RejectProposal(p)
      PROVE  Moves
  <2>1. CASE CreateInsert(p)
    BY <2>1 DEF CreateInsert, CreateAt, Moves, Inserts, SafetyInv, WellFormed
  <2>2. CASE RejectProposal(p)
    BY <2>2 DEF RejectProposal, Moves, Refuses
  <2>3. CASE ~CreateInsert(p) /\ ~RejectProposal(p)
    BY <1>2, <2>3 DEF CreateStep, CreateReadTarget, CreateReadOffered, CreatePublish,
                      CreateCrash, Moves, dbVars
  <2> QED BY <2>1, <2>2, <2>3
<1>3. ASSUME NEW a \in Accepts, AcceptStep(a) \/ AcceptCrash(a)
      PROVE  Moves
  <2>1. CASE AcceptCommit(a)
    <3>1. acceptPc[a] = "commit"
      BY <2>1 DEF AcceptCommit, Compensate, AcceptAt
    <3>2. CASE AcceptTransaction(AcceptOf[a])
      BY <3>1, <3>2, CommitAgrees DEF Moves
    <3>3. CASE UNCHANGED dbVars
      BY <3>3 DEF Moves, dbVars
    <3> QED BY <2>1, <3>2, <3>3 DEF AcceptCommit
  <2>2. CASE ~AcceptCommit(a)
    BY <1>3, <2>2 DEF AcceptStep, AcceptReadProposal, AcceptReadTarget, AcceptReadOffered,
                      AcceptReservesTarget, AcceptReservesOffered, AcceptPublish,
                      AcceptReleasesOffered, AcceptReleasesTarget, AcceptCrash, Moves, dbVars
  <2> QED BY <2>1, <2>2
<1>4. ASSUME NEW k \in Confirms, ConfirmStep(k) \/ ConfirmCrash(k)
      PROVE  Moves
  <2>1. CASE ConfirmClaim(k)
    BY <2>1 DEF ConfirmClaim, Moves, Closes
  <2>2. CASE ~ConfirmClaim(k)
    BY <1>4, <2>2 DEF ConfirmStep, ConfirmRead, ConfirmMark, ConfirmReread,
                      ConfirmCompletesTarget, ConfirmCompletesOffered, ConfirmPublish,
                      ConfirmCrash, Moves, dbVars
  <2> QED BY <2>1, <2>2
<1>5. CASE UNCHANGED vars
  BY <1>5 DEF vars, dbVars, Moves
<1> QED BY <1>1, <1>2, <1>3, <1>4, <1>5 DEF Next, Idle, ProposalsStep, TransactionsStep

-----------------------------------------------------------------------------
(* Decisions are final. *)

\* A release that has looked at a listing owns its reservation, so the write
\* that follows cannot reopen a closed listing.
LEMMA ListingsStayClosed ==
  ASSUME SafetyInv, [Next]_vars, NEW l \in Listings, availability[l] = "COMPLETED"
  PROVE  availability'[l] = "COMPLETED"
<1> USE DEF SafetyInv, TypeOK, CatalogTypeOK
<1>1. CASE UNCHANGED availability
  BY <1>1
<1>2. ASSUME NEW c \in Callers, NEW m \in Listings, Serve(c, m)
      PROVE  availability'[l] = "COMPLETED"
  <2>1. CASE ServeReserve(c, m)
    BY <2>1 DEF ServeReserve, ApprovedAndAvailable
  <2>2. CASE ServeComplete(c, m)
    BY <2>2 DEF ServeComplete, CheckBeforeWrite, WriteAfterCheck
  <2>3. CASE ServeRelease(c, m) /\ call[<<c, "release", m>>] = "checked"
    <3>1. c \in Accepts
      BY <2>3 DEF CallsBelong
    <3>2. availability[m] = "RESERVED"
      BY <2>3, <3>1 DEF SoleClaim, Claims, Releasing
    <3> QED BY <2>3, <3>2 DEF ServeRelease, CheckBeforeWrite, WriteAfterCheck
  <2>4. CASE ServeRelease(c, m) /\ call[<<c, "release", m>>] # "checked"
    BY <2>4 DEF ServeRelease, CheckBeforeWrite, WriteAfterCheck
  <2> QED BY <1>2, <2>1, <2>2, <2>3, <2>4 DEF Serve
<1>3. CASE CatalogStep
  BY <1>1, <1>2, <1>3 DEF CatalogStep, LoseCall, Moderation, Approve, RejectListing,
                          UpdateOwnedRead, UpdateOwnedWrite
<1>4. ASSUME NEW p \in Proposals, CreateStep(p) \/ CreateCrash(p) \/ RejectProposal(p)
      PROVE  UNCHANGED availability
  BY <1>4 DEF CreateStep, CreateReadTarget, CreateReadOffered, CreateInsert, CreatePublish,
              CreateCrash, RejectProposal, catalogVars
<1>5. ASSUME NEW a \in Accepts, AcceptStep(a) \/ AcceptCrash(a)
      PROVE  UNCHANGED availability
  BY <1>5 DEF AcceptStep, AcceptReadProposal, AcceptReadTarget, AcceptReadOffered,
              AcceptReservesTarget, AcceptReservesOffered, AcceptCommit, AcceptPublish,
              AcceptReleasesOffered, AcceptReleasesTarget, AcceptCrash, catalogVars
<1>6. ASSUME NEW k \in Confirms, ConfirmStep(k) \/ ConfirmCrash(k)
      PROVE  UNCHANGED availability
  BY <1>6 DEF ConfirmStep, ConfirmRead, ConfirmMark, ConfirmReread, ConfirmCompletesTarget,
              ConfirmCompletesOffered, ConfirmClaim, ConfirmPublish, ConfirmCrash, catalogVars
<1> QED
  BY <1>1, <1>3, <1>4, <1>5, <1>6
     DEF Next, Idle, ProposalsStep, TransactionsStep, vars, catalogVars

\* ACCEPTED and REJECTED are written only over PENDING, PENDING only once.
LEMMA ProposalsStayDecided ==
  ASSUME SafetyInv, [Next]_vars, NEW p \in Proposals, proposal[p] \in {"ACCEPTED", "REJECTED"}
  PROVE  proposal'[p] = proposal[p]
<1>1. Moves
  BY StepsMove
<1> QED BY <1>1 DEF Moves, Inserts, Refuses, Agrees, Closes, AcceptTransaction, Rivals,
                    SafetyInv, TypeOK, DataTypeOK

\* No request, call or compensation reverses a decision on a proposal or
\* reopens a closed listing.
THEOREM DecisionsFinal == ASSUME "ackloss" \notin Faults PROVE Spec => DecisionsAreFinal
<1>1. SafetyInv /\ [Next]_vars =>
        [/\ \A p \in Proposals : proposal[p] \in {"ACCEPTED", "REJECTED"} =>
              proposal'[p] = proposal[p]
         /\ \A l \in Listings : availability[l] = "COMPLETED" =>
              availability'[l] = "COMPLETED"]_vars
  BY ListingsStayClosed, ProposalsStayDecided
<1> QED BY <1>1, SagaIsSafe, PTL DEF Spec, DecisionsAreFinal

-----------------------------------------------------------------------------
(* The saga implements Exchange. *)

\* The abstract needs of a proposal are its listings.
LEMMA NeedsAreItems == ASSUME NEW p \in Proposals PROVE E!Needs(p) = Items(p)
BY DEF E!Needs, Items, IsTrade

\* A new behaviour starts with no proposal on either level.
LEMMA InitImplements == Init => E!Init
BY DEF Init, DataInit, E!Init, Deal, StageOf

\* Proposals whose stage is unchanged but for one make one EXCEPT.
LEMMA DealUpdate ==
  ASSUME NEW p \in Proposals, NEW stage,
         \A q \in Proposals : Deal'[q] = IF q = p THEN stage ELSE Deal[q]
  PROVE  Deal' = [Deal EXCEPT ![p] = stage]
BY DEF Deal

\* Each of the five changes is a step of Exchange, or of no interest to it.
LEMMA MovesImplement ==
  ASSUME TypeOK, DecisionRecorded, TypeOK', Moves
  PROVE  E!Next \/ UNCHANGED Deal
<1> USE DEF TypeOK, DataTypeOK, ProposalStatus, MarketplaceTransactionStatus,
            DecisionRecorded, Exchanged, Deal, StageOf
<1>1. CASE UNCHANGED <<proposal, transaction>>
  BY <1>1
<1>2. ASSUME NEW p \in Proposals, Inserts(p)
      PROVE  E!Propose(p)
  <2>1. Deal[p] = "none"
    BY <1>2 DEF Inserts
  <2>2. ASSUME NEW q \in Proposals
        PROVE  Deal'[q] = IF q = p THEN "open" ELSE Deal[q]
    BY <1>2 DEF Inserts
  <2>3. Deal' = [Deal EXCEPT ![p] = "open"]
    BY <2>2, DealUpdate
  <2> QED BY <2>1, <2>3 DEF E!Propose
<1>3. ASSUME NEW p \in Proposals, Refuses(p)
      PROVE  E!Refuse(p)
  <2>1. Deal[p] = "open"
    BY <1>3 DEF Refuses
  <2>2. ASSUME NEW q \in Proposals
        PROVE  Deal'[q] = IF q = p THEN "refused" ELSE Deal[q]
    BY <1>3 DEF Refuses
  <2>3. Deal' = [Deal EXCEPT ![p] = "refused"]
    BY <2>2, DealUpdate
  <2> QED BY <2>1, <2>3 DEF E!Refuse
<1>4. ASSUME NEW p \in Proposals, Agrees(p)
      PROVE  E!Agree(p)
  <2>1. Deal[p] = "open"
    BY <1>4 DEF Agrees, AcceptTransaction
  <2>2. ASSUME NEW q \in Proposals, E!Taken(q)
        PROVE  E!Needs(p) \cap E!Needs(q) = {}
    <3>1. Exchanged(q)
      BY <2>2 DEF E!Taken
    <3> QED BY <1>4, <3>1, NeedsAreItems DEF Agrees
  <2>3. ASSUME NEW q \in Proposals
        PROVE  Deal'[q] = IF q = p THEN "agreed"
                          ELSE IF Deal[q] = "open" /\ Target[q] = Target[p]
                                 THEN "refused" ELSE Deal[q]
    <3>1. CASE q = p
      BY <1>4, <3>1 DEF Agrees, AcceptTransaction
    <3>2. CASE q # p /\ q \in Rivals(p)
      BY <1>4, <3>2 DEF Agrees, AcceptTransaction, Rivals
    <3>3. CASE q # p /\ q \notin Rivals(p)
      BY <1>4, <3>3 DEF Agrees, AcceptTransaction, Rivals
    <3> QED BY <3>1, <3>2, <3>3
  <2> QED BY <2>1, <2>2, <2>3 DEF E!Agree
<1>5. ASSUME NEW p \in Proposals, Closes(p)
      PROVE  E!Close(p)
  <2>1. Deal[p] = "agreed"
    BY <1>5 DEF Closes
  <2>2. ASSUME NEW q \in Proposals
        PROVE  Deal'[q] = IF q = p THEN "closed" ELSE Deal[q]
    BY <1>5 DEF Closes
  <2>3. Deal' = [Deal EXCEPT ![p] = "closed"]
    BY <2>2, DealUpdate
  <2> QED BY <2>1, <2>3 DEF E!Close
<1>6. ASSUME NEW p \in Proposals, Inserts(p) \/ Refuses(p) \/ Agrees(p) \/ Closes(p)
      PROVE  E!Next
  <2>1. E!Propose(p) \/ E!Refuse(p) \/ E!Agree(p) \/ E!Close(p)
    BY <1>2, <1>3, <1>4, <1>5, <1>6
  <2> QED BY <2>1 DEF E!Next
<1> QED BY <1>1, <1>6 DEF Moves

\* The saga over two services, with its reservations, compensations, late calls
\* and crashes, behaves as an atomic agreement on all listings of a proposal.
THEOREM SagaImplementsExchange ==
  ASSUME "ackloss" \notin Faults PROVE Spec => ImplementsExchange
<1>1. SafetyInv /\ [Next]_vars => [E!Next]_Deal
  <2> SUFFICES ASSUME SafetyInv, [Next]_vars PROVE E!Next \/ UNCHANGED Deal
    OBVIOUS
  <2>1. TypeOK /\ DecisionRecorded /\ TypeOK' /\ Moves
    BY TypeCorrectStep, StepsMove DEF SafetyInv
  <2> QED BY <2>1, MovesImplement
<1> QED BY <1>1, InitImplements, SagaIsSafe, PTL DEF Spec, ImplementsExchange, E!Spec
=============================================================================
