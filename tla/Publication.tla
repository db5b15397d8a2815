----------------------------- MODULE Publication -----------------------------
(***************************************************************************)
(* What the Catalog service promises to the public: a listing is private   *)
(* or shows a content that a moderator has reviewed and that satisfies the *)
(* rules of publication.  A content on show never changes: it is withdrawn *)
(* first, and what is published next has been reviewed again.              *)
(***************************************************************************)
CONSTANTS Listings, Publishable, Private

VARIABLES shown,     \* what the public sees of a listing
          reviewed   \* the contents that moderators have been shown

Init == /\ shown = [l \in Listings |-> Private]
        /\ reviewed = [l \in Listings |-> {}]

Review(l) == /\ reviewed[l] \subseteq reviewed'[l]
             /\ reviewed' = [reviewed EXCEPT ![l] = reviewed'[l]]
             /\ UNCHANGED shown

Publish(l) == /\ shown[l] = Private
              /\ shown'[l] \in reviewed[l]
              /\ shown'[l] \in Publishable
              /\ shown' = [shown EXCEPT ![l] = shown'[l]]
              /\ UNCHANGED reviewed

Withdraw(l) == /\ shown' = [shown EXCEPT ![l] = Private]
               /\ UNCHANGED reviewed

Next == \E l \in Listings : Review(l) \/ Publish(l) \/ Withdraw(l)

Spec == Init /\ [][Next]_<<shown, reviewed>>
=============================================================================
