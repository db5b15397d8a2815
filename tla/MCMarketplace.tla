---------------------------- MODULE MCMarketplace ----------------------------
(***************************************************************************)
(* Small instances of Marketplace.                                         *)
(***************************************************************************)
EXTENDS Marketplace, TLC

CONSTANTS x, y,             \* listings
          p1, p2,           \* proposals
          a1, a2,           \* accept requests
          k1, k2,           \* confirm requests
          ann, bob, cat     \* users

MCCallers == Accepts \cup Confirms
NoFaults == {}
RollbackFaults == {"txfail"}
AllFaults == {"network", "crash", "txfail"}
AckFaults == {"txfail", "ackloss"}

\* Gifts: ann gives x away, bob and cat both ask for it.
GiftTarget == (p1 :> x) @@ (p2 :> x)
GiftOffered == (p1 :> NoListing) @@ (p2 :> NoListing)
GiftRequester == (p1 :> bob) @@ (p2 :> cat)
GiftOwner == (x :> ann)
GiftKind == (x :> "DONATION")
GiftAcceptOf == (a1 :> p1) @@ (a2 :> p2)
GiftConfirmOf == (k1 :> p1) @@ (k2 :> p1)
GiftConfirmBy == (k1 :> "owner") @@ (k2 :> "requester")

\* Swaps: bob offers y for ann's x while ann offers x for bob's y; the first
\* exchange is confirmed by both sides.
SwapTarget == (p1 :> x) @@ (p2 :> y)
SwapOffered == (p1 :> y) @@ (p2 :> x)
SwapRequester == (p1 :> bob) @@ (p2 :> ann)
SwapOwner == (x :> ann) @@ (y :> bob)
SwapKind == [l \in {x, y} |-> "TRADE"]
SwapAcceptOf == (a1 :> p1) @@ (a2 :> p2)
SwapConfirmOf == (k1 :> p1) @@ (k2 :> p1)
SwapConfirmBy == (k1 :> "owner") @@ (k2 :> "requester")
=============================================================================
