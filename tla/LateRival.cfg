CONSTANTS
  x = x  y = y
  p1 = p1  p2 = p2
  a1 = a1  a2 = a2
  k1 = k1  k2 = k2
  ann = ann  bob = bob  cat = cat
  NoListing = NoListing
  Listings = {x}
  Editable = {}
  Proposals = {p1, p2}
  Target <- GiftTarget
  Offered <- GiftOffered
  Requester <- GiftRequester
  Owner <- GiftOwner
  Kind <- GiftKind
  Accepts = {a1, a2}
  AcceptOf <- GiftAcceptOf
  Confirms = {k1, k2}
  ConfirmOf <- GiftConfirmOf
  ConfirmBy <- GiftConfirmBy
  Callers <- MCCallers
  Faults <- NoFaults
SPECIFICATION Spec
INVARIANT NoPendingRival
