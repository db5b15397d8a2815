---------------------------- MODULE MCModeration ----------------------------
(***************************************************************************)
(* Small instances of Moderation: two photos and one or two wishes make a  *)
(* publication.                                                            *)
(***************************************************************************)
EXTENDS Moderation, TLC

CONSTANTS x, y,             \* listings
          e1, e2,           \* edits
          m1, m2,           \* reviews
          u1, u2,           \* uploads
          d1,               \* deletions
          v1,               \* public reads
          ann,              \* the owner of both listings
          red, blue, t1

MCListingOf == [r \in Requests |-> x]
MCUser == [r \in Requests |-> ann]
MCOwner == [l \in Listings |-> ann]
MCImages == Uploads \X (1 .. MaxImages)
MCKeyOf == [k \in MCImages |-> k]
MCDrafts == {[text |-> t1, operation |-> "TRADE", wishes |-> <<red, Blank, red>>]}

\* One owner turns the listing into a gift while the other tab names wishes.
MCInputOf ==
  (e1 :> [text |-> Undefined, operation |-> "DONATION", wishes |-> Undefined]) @@
  (e2 :> [text |-> Undefined, operation |-> Undefined, wishes |-> <<blue, red>>])

MCSymmetry == Permutations(Reviews) \cup Permutations(Uploads)
=============================================================================
