-------------------------- MODULE ProposalsService --------------------------
(***************************************************************************)
(* ProposalsService: create, reject and accept.  Every accept is one HTTP  *)
(* request with a control point of its own; several run at once, over the  *)
(* Marketplace database and the Catalog service.  The flags targetReserved *)
(* and offeredReserved of the code are functions of that control point and *)
(* are not kept apart.                                                     *)
(***************************************************************************)
EXTENDS MarketplaceData

CONSTANTS
  Accepts,   \* the requests POST /proposals/:id/accept
  AcceptOf   \* the :id of each of them

ASSUME AcceptAssumption == /\ Accepts \subseteq Callers
                           /\ AcceptOf \in [Accepts -> Proposals]

VARIABLES
  creating,   \* control point of the request that creates the proposal
  acceptPc    \* control point of each accept

CreatePcs == {"idle", "getOffered", "insert", "publish", "done", "failed"}

AcceptPcs == {"idle", "getTarget", "getOffered", "reserveTarget",
              "reserveOffered", "commit", "publish", "releaseOffered",
              "releaseTarget", "done", "failed"}

Ended == {"idle", "done", "failed"}

ProposalsTypeOK == /\ creating \in [Proposals -> CreatePcs]
                   /\ acceptPc \in [Accepts -> AcceptPcs]

ProposalsInit == /\ creating = [p \in Proposals |-> "idle"]
                 /\ acceptPc = [a \in Accepts |-> "idle"]

-----------------------------------------------------------------------------
(* create *)

CreateAt(p, from, to) == /\ creating[p] = from
                         /\ creating' = [creating EXCEPT ![p] = to]

\* getListing(target).  The rules are evaluated after both reads, on what the
\* reads returned: refusing at the read is the same, and a create refused at
\* its first read leaves no trace.
CreateReadTarget(p) ==
  /\ MayPropose(p)
  /\ ApprovedAndAvailable(Target[p])
  /\ CreateAt(p, "idle", IF IsTrade(p) THEN "getOffered" ELSE "insert")
  /\ UNCHANGED <<catalogVars, dbVars, acceptPc>>

CreateReadOffered(p) ==
  /\ creating[p] = "getOffered"
  /\ \/ /\ ApprovedAndAvailable(Offered[p])
        /\ CreateAt(p, "getOffered", "insert")
     \/ /\ ~ApprovedAndAvailable(Offered[p]) \/ TimeOut
        /\ CreateAt(p, "getOffered", "failed")
  /\ UNCHANGED <<catalogVars, dbVars, acceptPc>>

\* The row is inserted on the strength of the snapshots read before.
CreateInsert(p) ==
  /\ CreateAt(p, "insert", "publish")
  /\ proposal' = [proposal EXCEPT ![p] = "PENDING"]
  /\ UNCHANGED <<catalogVars, transaction, confirmed, outbox, announced, acceptPc>>

CreatePublish(p) ==
  /\ CreateAt(p, "publish", "done")
  /\ Announce("proposal.created", p)
  /\ UNCHANGED <<catalogVars, proposal, transaction, confirmed, outbox, acceptPc>>

CreateStep(p) == \/ CreateReadTarget(p) \/ CreateReadOffered(p)
                 \/ CreateInsert(p) \/ CreatePublish(p)

\* The process dies, or the database refuses the insert.
CreateCrash(p) ==
  /\ "crash" \in Faults
  /\ creating[p] \notin Ended
  /\ creating' = [creating EXCEPT ![p] = "failed"]
  /\ UNCHANGED <<catalogVars, dbVars, acceptPc>>

-----------------------------------------------------------------------------
(* reject: all it reads before its database transaction (that the proposal *)
(* exists, who owns the target) never changes, so the transaction is the   *)
(* whole of it.  Refused requests change nothing.                          *)

\* Variant with a bug: the update filters on the id only.
RejectDecided(p) ==
  /\ proposal[p] # "NONE"
  /\ proposal' = [proposal EXCEPT ![p] = "REJECTED"]
  /\ outbox' = [outbox EXCEPT ![p] = @ + 1]
  /\ UNCHANGED <<catalogVars, transaction, confirmed, announced, creating, acceptPc>>

RejectProposal(p) ==
  /\ proposal[p] = "PENDING"
  /\ proposal' = [proposal EXCEPT ![p] = "REJECTED"]
  /\ outbox' = [outbox EXCEPT ![p] = @ + 1]
  /\ UNCHANGED <<catalogVars, transaction, confirmed, announced, creating, acceptPc>>

-----------------------------------------------------------------------------
(* accept *)

AcceptAt(a, from, to) == /\ acceptPc[a] = from
                         /\ acceptPc' = [acceptPc EXCEPT ![a] = to]

\* findUnique.  A proposal that is not PENDING here is refused before anything
\* has changed (by the rules, after the reads), so such a request is left out.
AcceptReadProposal(a) ==
  /\ proposal[AcceptOf[a]] = "PENDING"
  /\ AcceptAt(a, "idle", "getTarget")
  /\ UNCHANGED <<catalogVars, dbVars, creating>>

\* The last read sends the first reservation: no await lies in between.
AcceptReadTarget(a) ==
  LET p == AcceptOf[a] IN
  /\ \/ /\ ApprovedAndAvailable(Target[p])
        /\ IF IsTrade(p)
             THEN /\ AcceptAt(a, "getTarget", "getOffered")
                  /\ UNCHANGED call
             ELSE /\ AcceptAt(a, "getTarget", "reserveTarget")
                  /\ call' = Sent(call, a, "reserve", Target[p])
     \/ /\ ~ApprovedAndAvailable(Target[p]) \/ TimeOut
        /\ AcceptAt(a, "getTarget", "failed")
        /\ UNCHANGED call
  /\ UNCHANGED <<listingStatus, availability, editing, dbVars, creating>>

AcceptReadOffered(a) ==
  LET p == AcceptOf[a] IN
  /\ acceptPc[a] = "getOffered"
  /\ \/ /\ ApprovedAndAvailable(Offered[p])
        /\ AcceptAt(a, "getOffered", "reserveTarget")
        /\ call' = Sent(call, a, "reserve", Target[p])
     \/ /\ ~ApprovedAndAvailable(Offered[p]) \/ TimeOut
        /\ AcceptAt(a, "getOffered", "failed")
        /\ UNCHANGED call
  /\ UNCHANGED <<listingStatus, availability, editing, dbVars, creating>>

\* reserveListing(target): success sets targetReserved; on failure neither
\* flag is set and the catch block has nothing to release.
AcceptReservesTarget(a) ==
  LET p == AcceptOf[a] IN
  /\ \/ /\ Answered(a, "reserve", Target[p], "ok")
        /\ IF IsTrade(p)
             THEN /\ AcceptAt(a, "reserveTarget", "reserveOffered")
                  /\ call' = Sent(Consumed(call, a, "reserve", Target[p]),
                                  a, "reserve", Offered[p])
             ELSE /\ AcceptAt(a, "reserveTarget", "commit")
                  /\ call' = Consumed(call, a, "reserve", Target[p])
     \/ /\ Answered(a, "reserve", Target[p], "conflict")
        /\ AcceptAt(a, "reserveTarget", "failed")
        /\ call' = Consumed(call, a, "reserve", Target[p])
     \/ /\ TimeOut
        /\ AcceptAt(a, "reserveTarget", "failed")
        /\ UNCHANGED call
  /\ UNCHANGED <<listingStatus, availability, editing, dbVars, creating>>

\* Variants with a bug: the flag is set before the call, so that a refused
\* reservation is released as well; a refusal is never answered.
ReleasesUnreserved(a) ==
  LET p == AcceptOf[a] IN
  /\ acceptPc[a] = "reserveOffered"
  /\ \/ /\ Answered(a, "reserve", Offered[p], "ok")
        /\ AcceptAt(a, "reserveOffered", "commit")
        /\ call' = Consumed(call, a, "reserve", Offered[p])
     \/ /\ Answered(a, "reserve", Offered[p], "conflict") \/ TimeOut
        /\ AcceptAt(a, "reserveOffered", "releaseOffered")
        /\ call' = Sent(call, a, "release", Offered[p])
  /\ UNCHANGED <<listingStatus, availability, editing, dbVars, creating>>

HangsOnRefusal(a) ==
  /\ AcceptAt(a, "reserveOffered", "commit")
  /\ Answered(a, "reserve", Offered[AcceptOf[a]], "ok")
  /\ call' = Consumed(call, a, "reserve", Offered[AcceptOf[a]])
  /\ UNCHANGED <<listingStatus, availability, editing, dbVars, creating>>

\* reserveListing(offered): on failure the catch block releases the target.
AcceptReservesOffered(a) ==
  LET p == AcceptOf[a] IN
  /\ acceptPc[a] = "reserveOffered"
  /\ \/ /\ Answered(a, "reserve", Offered[p], "ok")
        /\ AcceptAt(a, "reserveOffered", "commit")
        /\ call' = Consumed(call, a, "reserve", Offered[p])
     \/ /\ Answered(a, "reserve", Offered[p], "conflict") \/ TimeOut
        /\ AcceptAt(a, "reserveOffered", "releaseTarget")
        /\ call' = Sent(call, a, "release", Target[p])
  /\ UNCHANGED <<listingStatus, availability, editing, dbVars, creating>>

\* Variants with a bug: the claim does not look at the status; the automatic
\* rejections write no outbox row.
AcceptDecided(p) ==
  /\ proposal' = [q \in Proposals |->
                    IF q = p THEN "ACCEPTED"
                    ELSE IF q \in Rivals(p) THEN "REJECTED" ELSE proposal[q]]
  /\ outbox' = [q \in Proposals |-> IF q \in Rivals(p) THEN outbox[q] + 1
                                                       ELSE outbox[q]]
  /\ transaction' = [transaction EXCEPT ![p] = "IN_PROGRESS"]
  /\ UNCHANGED <<confirmed, announced>>

RejectsSilently(p) ==
  /\ proposal[p] = "PENDING"
  /\ proposal' = [q \in Proposals |->
                    IF q = p THEN "ACCEPTED"
                    ELSE IF q \in Rivals(p) THEN "REJECTED" ELSE proposal[q]]
  /\ transaction' = [transaction EXCEPT ![p] = "IN_PROGRESS"]
  /\ UNCHANGED <<confirmed, outbox, announced>>

\* The body of the $transaction callback: the claim on the proposal, the
\* automatic rejections with their outbox rows, the new transaction.
AcceptTransaction(p) ==
  /\ proposal[p] = "PENDING"
  /\ proposal' = [q \in Proposals |->
                    IF q = p THEN "ACCEPTED"
                    ELSE IF q \in Rivals(p) THEN "REJECTED" ELSE proposal[q]]
  /\ outbox' = [q \in Proposals |-> IF q \in Rivals(p) THEN outbox[q] + 1
                                                       ELSE outbox[q]]
  /\ transaction' = [transaction EXCEPT ![p] = "IN_PROGRESS"]
  /\ UNCHANGED <<confirmed, announced>>

\* Variant with a bug: the offered listing is not released.
CompensateTarget(a) == /\ AcceptAt(a, "commit", "releaseTarget")
                       /\ call' = Sent(call, a, "release", Target[AcceptOf[a]])

\* The catch block with every reservation made: offered first, then target.
Compensate(a) ==
  LET p == AcceptOf[a] IN
  IF IsTrade(p)
    THEN /\ AcceptAt(a, "commit", "releaseOffered")
         /\ call' = Sent(call, a, "release", Offered[p])
    ELSE /\ AcceptAt(a, "commit", "releaseTarget")
         /\ call' = Sent(call, a, "release", Target[p])

\* $transaction commits; or the claim finds the proposal decided, or the
\* database fails, and everything is rolled back; or ("ackloss") it commits
\* and the acknowledgement of the COMMIT is lost, which looks like a failure.
AcceptCommit(a) ==
  /\ \/ /\ AcceptTransaction(AcceptOf[a])
        /\ AcceptAt(a, "commit", "publish")
        /\ UNCHANGED call
     \/ /\ proposal[AcceptOf[a]] # "PENDING" \/ "txfail" \in Faults
        /\ Compensate(a)
        /\ UNCHANGED dbVars
     \/ /\ "ackloss" \in Faults
        /\ AcceptTransaction(AcceptOf[a])
        /\ Compensate(a)
  /\ UNCHANGED <<listingStatus, availability, editing, creating>>

AcceptPublish(a) ==
  /\ AcceptAt(a, "publish", "done")
  /\ Announce("proposal.accepted", AcceptOf[a])
  /\ UNCHANGED <<catalogVars, proposal, transaction, confirmed, outbox, creating>>

\* safeRelease swallows every outcome of the release and goes on.
Settled(a, l) == \/ Answered(a, "release", l, "ok")
                 \/ Answered(a, "release", l, "conflict")
                 \/ TimeOut

AcceptReleasesOffered(a) ==
  LET p == AcceptOf[a] IN
  /\ acceptPc[a] = "releaseOffered"
  /\ Settled(a, Offered[p])
  /\ AcceptAt(a, "releaseOffered", "releaseTarget")
  /\ call' = Sent(call, a, "release", Target[p])
  /\ UNCHANGED <<listingStatus, availability, editing, dbVars, creating>>

AcceptReleasesTarget(a) ==
  /\ Settled(a, Target[AcceptOf[a]])
  /\ AcceptAt(a, "releaseTarget", "failed")
  /\ UNCHANGED <<catalogVars, dbVars, creating>>

AcceptStep(a) ==
  \/ AcceptReadProposal(a) \/ AcceptReadTarget(a) \/ AcceptReadOffered(a)
  \/ AcceptReservesTarget(a) \/ AcceptReservesOffered(a)
  \/ AcceptCommit(a) \/ AcceptPublish(a)
  \/ AcceptReleasesOffered(a) \/ AcceptReleasesTarget(a)

\* The process dies: nothing about the saga is persisted, nobody resumes it.
AcceptCrash(a) ==
  /\ "crash" \in Faults
  /\ acceptPc[a] \notin Ended
  /\ acceptPc' = [acceptPc EXCEPT ![a] = "failed"]
  /\ UNCHANGED <<catalogVars, dbVars, creating>>

ProposalsStep == \/ \E p \in Proposals : \/ CreateStep(p) \/ CreateCrash(p)
                                         \/ RejectProposal(p)
                 \/ \E a \in Accepts : AcceptStep(a) \/ AcceptCrash(a)
=============================================================================
