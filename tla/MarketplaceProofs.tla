-------------------------- MODULE MarketplaceProofs --------------------------
(***************************************************************************)
(* Theorems about Marketplace, for every set of listings, proposals and    *)
(* requests.                                                               *)
(***************************************************************************)
EXTENDS Marketplace, TLAPS

USE CatalogAssumption, DataAssumption, AcceptAssumption, ConfirmAssumption,
    RequestAssumption

-----------------------------------------------------------------------------
(* Type correctness, one lemma per component. *)

\* The steps of the Catalog service keep its variables in their types.
LEMMA CatalogStepType ==
  ASSUME CatalogTypeOK, CatalogStep PROVE CatalogTypeOK'
<1> USE DEF CatalogTypeOK, ListingStatus, ListingAvailabilityStatus,
            CallStates, Operations, Reply
<1>1. ASSUME NEW c \in Callers, NEW l \in Listings, ServeReserve(c, l)
      PROVE  CatalogTypeOK'
  BY <1>1 DEF ServeReserve
<1>2. ASSUME NEW c \in Callers, NEW l \in Listings, NEW op \in Operations,
             NEW goal \in ListingAvailabilityStatus,
             CheckBeforeWrite(c, op, l, goal) \/ WriteAfterCheck(c, op, l, goal)
      PROVE  CatalogTypeOK'
  <2>1. CASE CheckBeforeWrite(c, op, l, goal)
    BY <2>1 DEF CheckBeforeWrite
  <2>2. CASE WriteAfterCheck(c, op, l, goal)
    BY <1>2, <2>2 DEF WriteAfterCheck
  <2> QED BY <1>2, <2>1, <2>2
<1>3. ASSUME NEW c \in Callers, NEW op \in Operations, NEW l \in Listings,
             LoseCall(c, op, l)
      PROVE  CatalogTypeOK'
  BY <1>3 DEF LoseCall
<1>4. ASSUME NEW l \in Listings, Moderation(l)
      PROVE  CatalogTypeOK'
  BY <1>4 DEF Moderation, Approve, RejectListing, UpdateOwnedRead, UpdateOwnedWrite
<1> QED
  BY <1>1, <1>2, <1>3, <1>4 DEF CatalogStep, Serve, ServeComplete, ServeRelease

\* So do the handlers of ProposalsService, with the data they write.
LEMMA ProposalsStepType ==
  ASSUME TypeOK, ProposalsStep, UNCHANGED confirmPc PROVE TypeOK'
<1> USE DEF TypeOK, CatalogTypeOK, DataTypeOK, ProposalsTypeOK, TransactionsTypeOK,
            CallStates, ProposalStatus, MarketplaceTransactionStatus, DirectEvents,
            CreatePcs, AcceptPcs, catalogVars, dbVars
<1>1. ASSUME NEW p \in Proposals, CreateStep(p) \/ CreateCrash(p) \/ RejectProposal(p)
      PROVE  TypeOK'
  <2>1. CASE CreateReadTarget(p) \/ CreateReadOffered(p)
    BY <2>1 DEF CreateReadTarget, CreateReadOffered, CreateAt
  <2>2. CASE CreateInsert(p)
    BY <2>2 DEF CreateInsert, CreateAt
  <2>3. CASE CreatePublish(p)
    BY <2>3 DEF CreatePublish, CreateAt, Announce
  <2>4. CASE CreateCrash(p)
    BY <2>4 DEF CreateCrash
  <2>5. CASE RejectProposal(p)
    BY <2>5 DEF RejectProposal
  <2> QED BY <1>1, <2>1, <2>2, <2>3, <2>4, <2>5 DEF CreateStep
<1>2. ASSUME NEW a \in Accepts, AcceptStep(a) \/ AcceptCrash(a)
      PROVE  TypeOK'
  <2>1. CASE AcceptReadProposal(a) \/ AcceptReadTarget(a) \/ AcceptReadOffered(a)
    BY <2>1 DEF AcceptReadProposal, AcceptReadTarget, AcceptReadOffered, AcceptAt, Sent
  <2>2. CASE AcceptReservesTarget(a) \/ AcceptReservesOffered(a)
    BY <2>2 DEF AcceptReservesTarget, AcceptReservesOffered, AcceptAt, Sent, Consumed
  <2>3. CASE AcceptCommit(a)
    <3>1. acceptPc' \in [Accepts -> AcceptPcs] /\ call' \in [Callers \X Operations \X Listings -> CallStates]
      BY <2>3 DEF AcceptCommit, Compensate, AcceptAt, Sent
    <3>2. DataTypeOK'
      <4>1. CASE AcceptTransaction(AcceptOf[a])
        BY <4>1 DEF AcceptTransaction
      <4>2. CASE UNCHANGED dbVars
        BY <4>2
      <4> QED BY <2>3, <4>1, <4>2 DEF AcceptCommit
    <3> QED BY <2>3, <3>1, <3>2 DEF AcceptCommit
  <2>4. CASE AcceptPublish(a)
    BY <2>4 DEF AcceptPublish, AcceptAt, Announce
  <2>5. CASE AcceptReleasesOffered(a) \/ AcceptReleasesTarget(a)
    BY <2>5 DEF AcceptReleasesOffered, AcceptReleasesTarget, AcceptAt, Sent
  <2>6. CASE AcceptCrash(a)
    BY <2>6 DEF AcceptCrash
  <2> QED BY <1>2, <2>1, <2>2, <2>3, <2>4, <2>5, <2>6 DEF AcceptStep
<1> QED BY <1>1, <1>2 DEF ProposalsStep

\* And the handlers of TransactionsService.
LEMMA TransactionsStepType ==
  ASSUME TypeOK, TransactionsStep, UNCHANGED <<creating, acceptPc>> PROVE TypeOK'
<1> USE DEF TypeOK, CatalogTypeOK, DataTypeOK, ProposalsTypeOK, TransactionsTypeOK,
            CallStates, MarketplaceTransactionStatus, Participants, DirectEvents,
            ConfirmPcs, ConfirmAt, catalogVars, dbVars
<1> SUFFICES ASSUME NEW k \in Confirms, ConfirmStep(k) \/ ConfirmCrash(k)
             PROVE  TypeOK'
  BY DEF TransactionsStep
<1>1. CASE ConfirmRead(k)
  BY <1>1 DEF ConfirmRead
<1>2. CASE ConfirmMark(k)
  BY <1>2 DEF ConfirmMark
<1>3. CASE ConfirmReread(k)
  BY <1>3 DEF ConfirmReread, Sent
<1>4. CASE ConfirmCompletesTarget(k) \/ ConfirmCompletesOffered(k)
  BY <1>4 DEF ConfirmCompletesTarget, ConfirmCompletesOffered, Sent
<1>5. CASE ConfirmClaim(k)
  BY <1>5 DEF ConfirmClaim
<1>6. CASE ConfirmPublish(k)
  BY <1>6 DEF ConfirmPublish, Announce
<1>7. CASE ConfirmCrash(k)
  BY <1>7 DEF ConfirmCrash
<1> QED BY <1>1, <1>2, <1>3, <1>4, <1>5, <1>6, <1>7 DEF ConfirmStep

\* The initial states have the right types.
LEMMA TypeCorrectInit == Init => TypeOK
BY DEF Init, TypeOK, CatalogInit, DataInit, ProposalsInit, TransactionsInit,
       CatalogTypeOK, DataTypeOK, ProposalsTypeOK, TransactionsTypeOK,
       ListingStatus, ListingAvailabilityStatus, CallStates, ProposalStatus,
       MarketplaceTransactionStatus, Participants, CreatePcs, AcceptPcs, ConfirmPcs

\* So has the successor of every such state.
LEMMA TypeCorrectStep == ASSUME TypeOK, [Next]_vars PROVE TypeOK'
<1>1. CASE CatalogStep /\ UNCHANGED <<dbVars, creating, acceptPc, confirmPc>>
  BY <1>1, CatalogStepType DEF TypeOK, DataTypeOK, ProposalsTypeOK, TransactionsTypeOK, dbVars
<1>2. CASE ProposalsStep /\ UNCHANGED confirmPc
  BY <1>2, ProposalsStepType
<1>3. CASE TransactionsStep /\ UNCHANGED <<creating, acceptPc>>
  BY <1>3, TransactionsStepType
<1>4. CASE UNCHANGED vars
  BY <1>4 DEF TypeOK, CatalogTypeOK, DataTypeOK, ProposalsTypeOK, TransactionsTypeOK,
              vars, catalogVars, dbVars
<1> QED BY <1>1, <1>2, <1>3, <1>4 DEF Next, Idle

\* Every variable keeps its type in every behaviour.
THEOREM TypeCorrect == Spec => []TypeOK
BY TypeCorrectInit, TypeCorrectStep, PTL DEF Spec

-----------------------------------------------------------------------------
(* Decisions on proposals. *)

DecisionInv == TypeOK /\ WellFormed /\ DecisionRecorded

\* The database transaction of accept records its decisions consistently.
LEMMA AcceptTransactionRecords ==
  ASSUME DecisionInv, NEW p \in Proposals, AcceptTransaction(p)
  PROVE  /\ DecisionRecorded'
         /\ \A q \in Proposals : proposal'[q] = "NONE" <=> proposal[q] = "NONE"
<1> USE DEF DecisionInv, TypeOK, DataTypeOK, AcceptTransaction, Rivals, DecisionRecorded,
            Exchanged, ProposalStatus, MarketplaceTransactionStatus
<1> SUFFICES ASSUME NEW q \in Proposals
             PROVE  /\ (proposal[q] = "ACCEPTED" <=> Exchanged(q))'
                    /\ outbox'[q] = (IF proposal'[q] = "REJECTED" THEN 1 ELSE 0)
                    /\ proposal'[q] = "NONE" <=> proposal[q] = "NONE"
  OBVIOUS
<1>1. CASE q = p
  BY <1>1
<1>2. CASE q # p /\ q \in Rivals(p)
  BY <1>2
<1>3. CASE q # p /\ q \notin Rivals(p)
  BY <1>3
<1> QED BY <1>1, <1>2, <1>3

\* Every step keeps the decision invariant.
LEMMA DecisionStep ==
  ASSUME DecisionInv, [Next]_vars PROVE WellFormed' /\ DecisionRecorded'
<1> USE DEF DecisionInv
<1>a. ASSUME UNCHANGED <<proposal, outbox, creating, acceptPc>>,
             \A p \in Proposals : Exchanged(p)' <=> Exchanged(p)
      PROVE  WellFormed' /\ DecisionRecorded'
  BY <1>a DEF WellFormed, DecisionRecorded, MayPropose, IsTrade
<1>b. ASSUME UNCHANGED <<proposal, transaction, outbox, creating>>,
             NEW a \in Accepts, acceptPc[a] # "idle",
             \E to \in AcceptPcs : acceptPc' = [acceptPc EXCEPT ![a] = to]
      PROVE  WellFormed' /\ DecisionRecorded'
  BY <1>b DEF WellFormed, DecisionRecorded, MayPropose, IsTrade, Exchanged, TypeOK, ProposalsTypeOK
<1>1. CASE CatalogStep /\ UNCHANGED <<dbVars, creating, acceptPc, confirmPc>>
  BY <1>1, <1>a DEF dbVars, Exchanged
<1>2. ASSUME NEW p \in Proposals, CreateStep(p) \/ CreateCrash(p)
      PROVE  WellFormed' /\ DecisionRecorded'
  <2> USE DEF WellFormed, DecisionRecorded, MayPropose, IsTrade, Exchanged, CreateAt,
              TypeOK, ProposalsTypeOK, DataTypeOK, dbVars
  <2>1. CASE CreateReadTarget(p) \/ CreateReadOffered(p)
    BY <2>1 DEF CreateReadTarget, CreateReadOffered
  <2>2. CASE CreateInsert(p)
    BY <2>2 DEF CreateInsert
  <2>3. CASE CreatePublish(p)
    BY <2>3 DEF CreatePublish
  <2>4. CASE CreateCrash(p)
    BY <2>4 DEF CreateCrash, Ended
  <2> QED BY <1>2, <2>1, <2>2, <2>3, <2>4 DEF CreateStep
<1>3. ASSUME NEW p \in Proposals, RejectProposal(p)
      PROVE  WellFormed' /\ DecisionRecorded'
  BY <1>3 DEF RejectProposal, WellFormed, DecisionRecorded, MayPropose, IsTrade, Exchanged,
              TypeOK, DataTypeOK
<1>4. ASSUME NEW a \in Accepts, AcceptStep(a) \/ AcceptCrash(a)
      PROVE  WellFormed' /\ DecisionRecorded'
  <2>1. CASE AcceptReadProposal(a)
    BY <2>1 DEF AcceptReadProposal, AcceptAt, WellFormed, DecisionRecorded, MayPropose, IsTrade,
                Exchanged, TypeOK, ProposalsTypeOK, DataTypeOK, dbVars
  <2>2. CASE AcceptReadTarget(a) \/ AcceptReadOffered(a) \/ AcceptReservesTarget(a)
             \/ AcceptReservesOffered(a)
    BY <2>2, <1>b DEF AcceptReadTarget, AcceptReadOffered, AcceptReservesTarget,
                      AcceptReservesOffered, AcceptAt, AcceptPcs, dbVars
  <2>3. CASE AcceptPublish(a) \/ AcceptReleasesOffered(a) \/ AcceptReleasesTarget(a)
             \/ AcceptCrash(a)
    BY <2>3, <1>b DEF AcceptPublish, AcceptReleasesOffered, AcceptReleasesTarget, AcceptCrash,
                      AcceptAt, AcceptPcs, Ended, dbVars
  <2>4. CASE AcceptCommit(a)
    <3>1. CASE UNCHANGED dbVars
      BY <2>4, <3>1, <1>b DEF AcceptCommit, AcceptTransaction, Compensate, AcceptAt, AcceptPcs, dbVars
    <3>2. CASE AcceptTransaction(AcceptOf[a])
      <4>1. /\ DecisionRecorded'
            /\ \A q \in Proposals : proposal'[q] = "NONE" <=> proposal[q] = "NONE"
        BY <3>2, AcceptTransactionRecords
      <4>2. /\ acceptPc[a] = "commit" /\ creating' = creating
            /\ \E to \in AcceptPcs : acceptPc' = [acceptPc EXCEPT ![a] = to]
        BY <2>4 DEF AcceptCommit, Compensate, AcceptAt, AcceptPcs
      <4> QED
        BY <4>1, <4>2 DEF WellFormed, MayPropose, IsTrade, TypeOK, ProposalsTypeOK
    <3> QED BY <2>4, <3>1, <3>2 DEF AcceptCommit
  <2> QED BY <1>4, <2>1, <2>2, <2>3, <2>4 DEF AcceptStep
<1>5. CASE TransactionsStep /\ UNCHANGED <<creating, acceptPc>>
  <2> SUFFICES ASSUME NEW k \in Confirms, ConfirmStep(k) \/ ConfirmCrash(k)
               PROVE  /\ UNCHANGED <<proposal, outbox>>
                      /\ \A p \in Proposals : Exchanged(p)' <=> Exchanged(p)
    BY <1>5, <1>a DEF TransactionsStep
  <2>1. CASE ConfirmClaim(k)
    BY <2>1 DEF ConfirmClaim, Exchanged, TypeOK, DataTypeOK
  <2>2. CASE ~ConfirmClaim(k)
    BY <2>2 DEF ConfirmStep, ConfirmRead, ConfirmMark, ConfirmReread, ConfirmCompletesTarget,
                ConfirmCompletesOffered, ConfirmPublish, ConfirmCrash, Exchanged, dbVars
  <2> QED BY <2>1, <2>2
<1>6. CASE UNCHANGED vars
  BY <1>6, <1>a DEF vars, dbVars, Exchanged
<1> QED BY <1>1, <1>2, <1>3, <1>4, <1>5, <1>6 DEF Next, Idle, ProposalsStep

LEMMA DecisionInit == Init => DecisionInv
<1> SUFFICES ASSUME Init PROVE WellFormed /\ DecisionRecorded
  BY TypeCorrectInit DEF DecisionInv
<1> QED BY DEF Init, DataInit, ProposalsInit, WellFormed, DecisionRecorded, Exchanged

\* A proposal is accepted exactly when it has a transaction and has one outbox
\* row exactly when it is rejected, whatever faults happen and however accept,
\* reject and the automatic rejection interleave.
THEOREM DecisionsRecorded == Spec => []DecisionRecorded
<1>1. Init => DecisionInv
  BY DecisionInit
<1>2. DecisionInv /\ [Next]_vars => DecisionInv'
  BY TypeCorrectStep, DecisionStep DEF DecisionInv
<1>3. DecisionInv => DecisionRecorded
  BY DEF DecisionInv
<1> QED BY <1>1, <1>2, <1>3, PTL DEF Spec

-----------------------------------------------------------------------------
(* Announcements of completions. *)

Completion(p) == <<"transaction.completed", p>>

\* Only the confirm request whose update changed the row stands before the
\* publication, and it stands there alone.
OneAnnouncer ==
  /\ \A k \in Confirms : confirmPc[k] = "publish" =>
       transaction[ConfirmOf[k]] = "COMPLETED" /\ announced[Completion(ConfirmOf[k])] = 0
  /\ \A j, k \in Confirms :
       confirmPc[j] = "publish" /\ confirmPc[k] = "publish" /\ ConfirmOf[j] = ConfirmOf[k] => j = k

AnnounceInv == DecisionInv /\ OneAnnouncer /\ CompletionAnnouncedOnce

\* Steps that announce no completion and complete no transaction.
LEMMA AnnounceFrame ==
  ASSUME OneAnnouncer, CompletionAnnouncedOnce,
         \A k \in Confirms : confirmPc'[k] = "publish" => confirmPc[k] = "publish",
         \A p \in Proposals : /\ transaction[p] = "COMPLETED" => transaction'[p] = "COMPLETED"
                              /\ announced'[Completion(p)] = announced[Completion(p)]
  PROVE  OneAnnouncer' /\ CompletionAnnouncedOnce'
BY DEF OneAnnouncer, CompletionAnnouncedOnce, Completion

LEMMA AnnounceStep ==
  ASSUME AnnounceInv, [Next]_vars PROVE OneAnnouncer' /\ CompletionAnnouncedOnce'
<1>0. TypeOK /\ OneAnnouncer /\ CompletionAnnouncedOnce
  BY DEF AnnounceInv, DecisionInv
<1>1. ASSUME UNCHANGED <<transaction, announced, confirmPc>>
      PROVE  OneAnnouncer' /\ CompletionAnnouncedOnce'
  BY <1>0, <1>1, AnnounceFrame
<1>2. ASSUME ProposalsStep, UNCHANGED confirmPc
      PROVE  /\ \A p \in Proposals : transaction[p] = "COMPLETED" => transaction'[p] = "COMPLETED"
             /\ \A p \in Proposals : announced'[Completion(p)] = announced[Completion(p)]
  <2>1. ASSUME NEW p \in Proposals, CreateStep(p) \/ CreateCrash(p) \/ RejectProposal(p)
        PROVE  /\ UNCHANGED transaction
               /\ announced' = announced \/ announced' = [announced EXCEPT ![<<"proposal.created", p>>] = @ + 1]
    BY <2>1 DEF CreateStep, CreateReadTarget, CreateReadOffered, CreateInsert, CreatePublish,
                CreateCrash, RejectProposal, Announce, dbVars
  <2>2. ASSUME NEW a \in Accepts, AcceptStep(a) \/ AcceptCrash(a)
        PROVE  /\ \/ UNCHANGED transaction
                  \/ /\ proposal[AcceptOf[a]] = "PENDING"
                     /\ transaction' = [transaction EXCEPT ![AcceptOf[a]] = "IN_PROGRESS"]
               /\ announced' = announced
                  \/ announced' = [announced EXCEPT ![<<"proposal.accepted", AcceptOf[a]>>] = @ + 1]
    BY <2>2 DEF AcceptStep, AcceptReadProposal, AcceptReadTarget, AcceptReadOffered,
                AcceptReservesTarget, AcceptReservesOffered, AcceptCommit, AcceptTransaction,
                AcceptPublish, AcceptReleasesOffered, AcceptReleasesTarget, AcceptCrash,
                Announce, dbVars
  <2>3. ASSUME NEW q \in Proposals, proposal[q] = "PENDING" PROVE transaction[q] = "NONE"
    BY <2>3 DEF AnnounceInv, DecisionInv, DecisionRecorded, Exchanged
  <2>4. announced \in [DirectEvents \X Proposals -> Nat] /\ transaction \in [Proposals -> MarketplaceTransactionStatus]
    BY <1>0 DEF TypeOK, DataTypeOK
  <2>5. ASSUME NEW p \in Proposals, CreateStep(p) \/ CreateCrash(p) \/ RejectProposal(p)
        PROVE  /\ \A q \in Proposals : transaction[q] = "COMPLETED" => transaction'[q] = "COMPLETED"
               /\ \A q \in Proposals : announced'[Completion(q)] = announced[Completion(q)]
    BY <2>1, <2>4, <2>5 DEF Completion, DirectEvents
  <2>6. ASSUME NEW a \in Accepts, AcceptStep(a) \/ AcceptCrash(a)
        PROVE  /\ \A q \in Proposals : transaction[q] = "COMPLETED" => transaction'[q] = "COMPLETED"
               /\ \A q \in Proposals : announced'[Completion(q)] = announced[Completion(q)]
    <3>1. ASSUME NEW q \in Proposals, transaction[q] = "COMPLETED" PROVE transaction'[q] = "COMPLETED"
      <4>1. CASE q = AcceptOf[a]
        BY <2>2, <2>3, <2>6, <3>1, <4>1
      <4>2. CASE q # AcceptOf[a]
        BY <2>2, <2>4, <2>6, <3>1, <4>2
      <4> QED BY <4>1, <4>2
    <3>2. announced' = announced \/ announced' = [announced EXCEPT ![<<"proposal.accepted", AcceptOf[a]>>] = @ + 1]
      BY <2>2, <2>6
    <3>3. \A q \in Proposals : announced'[Completion(q)] = announced[Completion(q)]
      BY <2>4, <3>2 DEF Completion, DirectEvents
    <3> QED BY <3>1, <3>3
  <2> QED BY <1>2, <2>5, <2>6 DEF ProposalsStep
<1>3. ASSUME NEW k \in Confirms, ConfirmStep(k) \/ ConfirmCrash(k)
      PROVE  OneAnnouncer' /\ CompletionAnnouncedOnce'
  <2>0. /\ confirmPc \in [Confirms -> ConfirmPcs] /\ ConfirmOf[k] \in Proposals
        /\ transaction \in [Proposals -> MarketplaceTransactionStatus]
        /\ announced \in [DirectEvents \X Proposals -> Nat]
    BY <1>0 DEF TypeOK, DataTypeOK, TransactionsTypeOK
  <2>1. CASE ConfirmClaim(k) /\ transaction[ConfirmOf[k]] = "IN_PROGRESS"
    <3>1. announced[Completion(ConfirmOf[k])] = 0
      BY <1>0, <2>0, <2>1 DEF CompletionAnnouncedOnce, Completion, DirectEvents
    <3>2. \A j \in Confirms : ConfirmOf[j] = ConfirmOf[k] => confirmPc[j] # "publish"
      BY <1>0, <2>1 DEF OneAnnouncer
    <3>3. CASE UNCHANGED transaction /\ confirmPc' = [confirmPc EXCEPT ![k] = "done"]
      BY <1>0, <2>0, <2>1, <3>3, AnnounceFrame DEF ConfirmClaim
    <3>4. CASE /\ transaction' = [transaction EXCEPT ![ConfirmOf[k]] = "COMPLETED"]
               /\ confirmPc' = [confirmPc EXCEPT ![k] = "publish"]
      <4>1. announced' = announced
        BY <2>1 DEF ConfirmClaim
      <4>2. CompletionAnnouncedOnce'
        BY <1>0, <2>0, <3>4, <4>1 DEF CompletionAnnouncedOnce
      <4>3. OneAnnouncer'
        BY <1>0, <2>0, <3>1, <3>2, <3>4, <4>1 DEF OneAnnouncer
      <4> QED BY <4>2, <4>3
    <3> QED BY <2>1, <3>3, <3>4 DEF ConfirmClaim, ConfirmAt
  <2>2. CASE ConfirmPublish(k)
    <3>1. /\ confirmPc[k] = "publish" /\ confirmPc' = [confirmPc EXCEPT ![k] = "done"]
          /\ announced' = [announced EXCEPT ![Completion(ConfirmOf[k])] = @ + 1]
          /\ transaction' = transaction
      BY <2>2 DEF ConfirmPublish, ConfirmAt, Announce, Completion
    <3>2. /\ announced[Completion(ConfirmOf[k])] = 0 /\ transaction[ConfirmOf[k]] = "COMPLETED"
          /\ \A j \in Confirms : j # k /\ ConfirmOf[j] = ConfirmOf[k] => confirmPc[j] # "publish"
      BY <1>0, <3>1 DEF OneAnnouncer
    <3>3. \A q \in Proposals : announced'[Completion(q)] = IF q = ConfirmOf[k] THEN 1 ELSE announced[Completion(q)]
      BY <2>0, <3>1, <3>2 DEF Completion, DirectEvents
    <3>4. CompletionAnnouncedOnce'
      <4>1. ASSUME NEW q \in Proposals
            PROVE  /\ announced'[Completion(q)] <= 1
                   /\ announced'[Completion(q)] = 1 => transaction'[q] = "COMPLETED"
        <5>1. CASE q = ConfirmOf[k]
          BY <3>1, <3>2, <3>3, <5>1
        <5>2. CASE q # ConfirmOf[k]
          BY <1>0, <3>1, <3>3, <5>2 DEF CompletionAnnouncedOnce, Completion
        <5> QED BY <5>1, <5>2
      <4> QED BY <4>1 DEF CompletionAnnouncedOnce, Completion
    <3>5. OneAnnouncer'
      BY <1>0, <2>0, <3>1, <3>2, <3>3 DEF OneAnnouncer
    <3> QED BY <3>4, <3>5
  <2>3. CASE ~ConfirmPublish(k) /\ ~(ConfirmClaim(k) /\ transaction[ConfirmOf[k]] = "IN_PROGRESS")
    <3>1. /\ UNCHANGED <<transaction, announced>>
          /\ \E to \in ConfirmPcs \ {"publish"} : confirmPc' = [confirmPc EXCEPT ![k] = to]
      BY <1>3, <2>3 DEF ConfirmStep, ConfirmRead, ConfirmMark, ConfirmReread, ConfirmCompletesTarget,
                        ConfirmCompletesOffered, ConfirmClaim, ConfirmCrash, ConfirmAt, ConfirmPcs, dbVars
    <3> QED BY <1>0, <2>0, <3>1, AnnounceFrame
  <2> QED BY <2>1, <2>2, <2>3
<1>4. CASE ProposalsStep /\ UNCHANGED confirmPc
  BY <1>0, <1>2, <1>4, AnnounceFrame
<1>5. CASE UNCHANGED vars \/ (CatalogStep /\ UNCHANGED <<dbVars, creating, acceptPc, confirmPc>>)
  BY <1>1, <1>5 DEF vars, dbVars
<1> QED BY <1>3, <1>4, <1>5 DEF Next, Idle, TransactionsStep

\* Under every fault a completion is announced at most once, and only after it
\* happened, however many confirm requests run side by side (updateMany's count).
THEOREM CompletionsAreAnnouncedOnce == Spec => []CompletionAnnouncedOnce
<1>1. Init => AnnounceInv
  <2> SUFFICES ASSUME Init PROVE OneAnnouncer /\ CompletionAnnouncedOnce
    BY TypeCorrectInit, DecisionInit DEF AnnounceInv
  <2> QED BY DEF Init, DataInit, TransactionsInit, OneAnnouncer, CompletionAnnouncedOnce,
                 Completion, DirectEvents
<1>2. AnnounceInv /\ [Next]_vars => AnnounceInv'
  BY TypeCorrectStep, DecisionStep, AnnounceStep DEF AnnounceInv, DecisionInv
<1>3. AnnounceInv => CompletionAnnouncedOnce
  BY DEF AnnounceInv
<1> QED BY <1>1, <1>2, <1>3, PTL DEF Spec
=============================================================================
