CONSTANTS
  x = x  y = y
  p1 = p1  p2 = p2
  a1 = a1  a2 = a2
  k1 = k1  k2 = k2
  ann = ann  bob = bob  cat = cat
  NoListing = NoListing
  Listings = {x, y}
  Editable = {}
  Proposals = {p1, p2}
  Target <- SwapTarget
  Offered <- SwapOffered
  Requester <- SwapRequester
  Owner <- SwapOwner
  Kind <- SwapKind
  Accepts = {a1, a2}
  AcceptOf <- SwapAcceptOf
  Confirms = {k1, k2}
  ConfirmOf <- SwapConfirmOf
  ConfirmBy <- SwapConfirmBy
  Callers <- MCCallers
  Faults <- AllFaults
SPECIFICATION Spec
INVARIANTS SafetyInv ExchangeHoldsItems ClosedTogether CompleteNeverRefused NoDoubleBooking SoleClaim
PROPERTIES DecisionsAreFinal ImplementsExchange
