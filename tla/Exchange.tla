------------------------------ MODULE Exchange ------------------------------
(***************************************************************************)
(* What the Marketplace promises about exchanges, with no services, calls  *)
(* or handlers in it: a proposal is open until one step either refuses it  *)
(* or agrees on it, agreeing takes all its listings at once and only when  *)
(* none of them is taken by another exchange, and listings are never given *)
(* back once taken by an agreement.                                        *)
(***************************************************************************)
CONSTANTS Proposals, NoListing, Target, Offered

VARIABLE deal   \* where each proposal stands

Stages == {"none", "open", "refused", "agreed", "closed"}

ExchangeTypeOK == deal \in [Proposals -> Stages]

Init == deal = [p \in Proposals |-> "none"]

Needs(p) == {Target[p], Offered[p]} \ {NoListing}

Taken(p) == deal[p] \in {"agreed", "closed"}

Propose(p) == /\ deal[p] = "none"
              /\ deal' = [deal EXCEPT ![p] = "open"]

Refuse(p) == /\ deal[p] = "open"
             /\ deal' = [deal EXCEPT ![p] = "refused"]

\* The other open proposals for the same target are refused in the same step.
Agree(p) ==
  /\ deal[p] = "open"
  /\ \A q \in Proposals : Taken(q) => Needs(p) \cap Needs(q) = {}
  /\ deal' = [q \in Proposals |->
                IF q = p THEN "agreed"
                ELSE IF deal[q] = "open" /\ Target[q] = Target[p]
                       THEN "refused" ELSE deal[q]]

Close(p) == /\ deal[p] = "agreed"
            /\ deal' = [deal EXCEPT ![p] = "closed"]

Next == \E p \in Proposals : Propose(p) \/ Refuse(p) \/ Agree(p) \/ Close(p)

Spec == Init /\ [][Next]_deal
=============================================================================
