----------------------------- MODULE ListingRules -----------------------------
(***************************************************************************)
(* What a listing is in the Catalog database and the rules it must obey to *)
(* be published (MarketplaceRulesService).  A trade wish is represented by *)
(* its trimmed, lower-cased label; a label of blanks only is Blank.        *)
(***************************************************************************)
EXTENDS Integers, Sequences, FiniteSets

CONSTANTS
  Wishes,      \* trade wishes, up to trim and letter case
  Blank,       \* a wish without text
  Texts,       \* titles and descriptions
  Undefined,   \* an optional field left out of an update
  Images,      \* object keys
  MinImages, MaxImages,
  MinWishes, MaxWishes

ASSUME RulesAssumption == /\ MinImages \in Nat \ {0} /\ MaxImages \in Nat
                          /\ MinWishes \in Nat \ {0} /\ MaxWishes \in Nat
                          /\ Blank \notin Wishes
                          /\ Texts # {}

ListingOperationType == {"TRADE", "DONATION"}

\* "ABSENT": no row has been inserted under this id.
Row == [status : {"ABSENT", "PENDING", "APPROVED", "REJECTED"},
        availability : {"AVAILABLE", "RESERVED", "COMPLETED"},
        operation : ListingOperationType,
        wishes : Seq(Wishes),
        images : SUBSET Images,
        text : Texts,
        reason : BOOLEAN,       \* moderationReason is not null
        updatedAt : Nat]

\* The n-th element of a set of numbers.
Nth(S, n) == CHOOSE i \in S : Cardinality({j \in S : j <= i}) = n

\* Where a label that is not blank is met for the first time.
FirstMet(raw) == {i \in DOMAIN raw : raw[i] # Blank /\ \A j \in 1 .. i - 1 : raw[j] # raw[i]}

\* Drops blank labels and every label met before.
normalizeTradeWishes(raw) ==
  [n \in 1 .. Cardinality(FirstMet(raw)) |-> raw[Nth(FirstMet(raw), n)]]

\* validateTradeWishes does not throw.
WishesAllowed(operation, raw) ==
  LET number == Len(normalizeTradeWishes(raw)) IN
  IF operation = "DONATION" THEN number = 0 ELSE number \in MinWishes .. MaxWishes

\* validatePublicationAssets does not throw.
AssetsAllowed(r) ==
  /\ Cardinality(r.images) \in MinImages .. MaxImages
  /\ WishesAllowed(r.operation, r.wishes)

\* What a reader of the listing sees, as opposed to its workflow columns.
Content(r) == <<r.text, r.operation, r.wishes, r.images>>
=============================================================================
