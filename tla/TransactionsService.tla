------------------------- MODULE TransactionsService -------------------------
(***************************************************************************)
(* TransactionsService.confirm: a participant says that the exchange took  *)
(* place; the request that finds both confirmations closes the listings in *)
(* Catalog, one after the other, and then the transaction.  Nothing locks  *)
(* the transaction in between, and any participant may try again.          *)
(***************************************************************************)
EXTENDS MarketplaceData

CONSTANTS
  Confirms,    \* the requests POST /transactions/:id/confirm
  ConfirmOf,   \* the transaction each is about, named by its proposal
  ConfirmBy    \* the participant who sends it

ASSUME ConfirmAssumption == /\ Confirms \subseteq Callers
                            /\ ConfirmOf \in [Confirms -> Proposals]
                            /\ ConfirmBy \in [Confirms -> Participants]

VARIABLE confirmPc   \* control point of each confirm

ConfirmPcs == {"idle", "mark", "reread", "completeTarget", "completeOffered",
               "claim", "publish", "done", "failed"}

TransactionsTypeOK == confirmPc \in [Confirms -> ConfirmPcs]

TransactionsInit == confirmPc = [k \in Confirms |-> "idle"]

ConfirmAt(k, from, to) == /\ confirmPc[k] = from
                          /\ confirmPc' = [confirmPc EXCEPT ![k] = to]

\* findUnique and assertCanConfirmTransaction.  Refused requests end here
\* without a trace and are left out.
ConfirmRead(k) ==
  /\ transaction[ConfirmOf[k]] = "IN_PROGRESS"
  /\ ConfirmAt(k, "idle", "mark")
  /\ UNCHANGED <<catalogVars, dbVars>>

\* The update by id of ownerConfirmedAt or requesterConfirmedAt.  The code
\* skips it when its first read saw the field set; fields are never cleared,
\* so skipping and setting again agree.
ConfirmMark(k) ==
  /\ ConfirmAt(k, "mark", "reread")
  /\ confirmed' = [confirmed EXCEPT ![ConfirmOf[k]] = @ \cup {ConfirmBy[k]}]
  /\ UNCHANGED <<catalogVars, proposal, transaction, outbox, announced>>

BothConfirmed(p) == confirmed[p] = Participants

\* Variants with a bug: one confirmation is enough; only the owner's request
\* closes the exchange.
CloseOnAny(k) ==
  LET p == ConfirmOf[k]
      Closes == transaction[p] = "IN_PROGRESS"
  IN /\ ConfirmAt(k, "reread", IF Closes THEN "completeTarget" ELSE "done")
     /\ call' = IF Closes THEN Sent(call, k, "complete", Target[p]) ELSE call
     /\ UNCHANGED <<listingStatus, availability, editing, dbVars>>

OwnerCloses(k) ==
  LET p == ConfirmOf[k]
      Closes == /\ transaction[p] = "IN_PROGRESS" /\ BothConfirmed(p)
                /\ ConfirmBy[k] = "owner"
  IN /\ ConfirmAt(k, "reread", IF Closes THEN "completeTarget" ELSE "done")
     /\ call' = IF Closes THEN Sent(call, k, "complete", Target[p]) ELSE call
     /\ UNCHANGED <<listingStatus, availability, editing, dbVars>>

\* The second findUnique decides whether this request closes the exchange.
ConfirmReread(k) ==
  LET p == ConfirmOf[k] IN
  /\ \/ /\ transaction[p] = "IN_PROGRESS" /\ BothConfirmed(p)
        /\ ConfirmAt(k, "reread", "completeTarget")
        /\ call' = Sent(call, k, "complete", Target[p])
     \/ /\ ~(transaction[p] = "IN_PROGRESS" /\ BothConfirmed(p))
        /\ ConfirmAt(k, "reread", "done")
        /\ UNCHANGED call
  /\ UNCHANGED <<listingStatus, availability, editing, dbVars>>

\* completeListing(l) throws: the request fails, what was closed stays closed.
CompleteFails(k, l) == Answered(k, "complete", l, "conflict") \/ TimeOut

\* Variants with a bug: the offered listing is not closed; a failed call is
\* taken for a success.
ForgetsOffered(k) ==
  LET p == ConfirmOf[k] IN
  /\ ConfirmAt(k, "completeTarget",
               IF Answered(k, "complete", Target[p], "ok") THEN "claim" ELSE "failed")
  /\ Answered(k, "complete", Target[p], "ok") \/ CompleteFails(k, Target[p])
  /\ UNCHANGED <<catalogVars, dbVars>>

IgnoresFailure(k) ==
  LET p == ConfirmOf[k] IN
  /\ Answered(k, "complete", Target[p], "ok") \/ CompleteFails(k, Target[p])
  /\ IF IsTrade(p)
       THEN /\ ConfirmAt(k, "completeTarget", "completeOffered")
            /\ call' = Sent(call, k, "complete", Offered[p])
       ELSE /\ ConfirmAt(k, "completeTarget", "claim")
            /\ UNCHANGED call
  /\ UNCHANGED <<listingStatus, availability, editing, dbVars>>

ConfirmCompletesTarget(k) ==
  LET p == ConfirmOf[k] IN
  /\ \/ /\ Answered(k, "complete", Target[p], "ok")
        /\ IF IsTrade(p)
             THEN /\ ConfirmAt(k, "completeTarget", "completeOffered")
                  /\ call' = Sent(call, k, "complete", Offered[p])
             ELSE /\ ConfirmAt(k, "completeTarget", "claim")
                  /\ UNCHANGED call
     \/ /\ CompleteFails(k, Target[p])
        /\ ConfirmAt(k, "completeTarget", "failed")
        /\ UNCHANGED call
  /\ UNCHANGED <<listingStatus, availability, editing, dbVars>>

ConfirmCompletesOffered(k) ==
  LET p == ConfirmOf[k] IN
  /\ confirmPc[k] = "completeOffered"
  /\ \/ /\ Answered(k, "complete", Offered[p], "ok")
        /\ ConfirmAt(k, "completeOffered", "claim")
     \/ /\ CompleteFails(k, Offered[p])
        /\ ConfirmAt(k, "completeOffered", "failed")
  /\ UNCHANGED <<catalogVars, dbVars>>

\* Variant with a bug: the count of the update is not looked at.
ClaimUnread(k) ==
  /\ ConfirmAt(k, "claim", "publish")
  /\ transaction' = [transaction EXCEPT ![ConfirmOf[k]] = "COMPLETED"]
  /\ UNCHANGED <<catalogVars, proposal, confirmed, outbox, announced>>

\* updateMany on IN_PROGRESS and both confirmations: its count tells the one
\* request that announces the completion.
ConfirmClaim(k) ==
  LET p == ConfirmOf[k] IN
  /\ \/ /\ transaction[p] = "IN_PROGRESS" /\ BothConfirmed(p)
        /\ transaction' = [transaction EXCEPT ![p] = "COMPLETED"]
        /\ ConfirmAt(k, "claim", "publish")
     \/ /\ ~(transaction[p] = "IN_PROGRESS" /\ BothConfirmed(p))
        /\ ConfirmAt(k, "claim", "done")
        /\ UNCHANGED transaction
  /\ UNCHANGED <<catalogVars, proposal, confirmed, outbox, announced>>

ConfirmPublish(k) ==
  /\ ConfirmAt(k, "publish", "done")
  /\ Announce("transaction.completed", ConfirmOf[k])
  /\ UNCHANGED <<catalogVars, proposal, transaction, confirmed, outbox>>

ConfirmStep(k) ==
  \/ ConfirmRead(k) \/ ConfirmMark(k) \/ ConfirmReread(k)
  \/ ConfirmCompletesTarget(k) \/ ConfirmCompletesOffered(k)
  \/ ConfirmClaim(k) \/ ConfirmPublish(k)

\* The process dies or its database fails between two steps.
ConfirmCrash(k) ==
  /\ "crash" \in Faults
  /\ confirmPc[k] \notin {"idle", "done", "failed"}
  /\ confirmPc' = [confirmPc EXCEPT ![k] = "failed"]
  /\ UNCHANGED <<catalogVars, dbVars>>

TransactionsStep == \E k \in Confirms : ConfirmStep(k) \/ ConfirmCrash(k)
=============================================================================
