\* Every page in turn, with failing calls and lost answers.
SPECIFICATION FairSpec
CONSTANTS
  l1 = l1  l2 = l2  f1 = f1  f2 = f2  d1 = d1  d2 = d2
  w1 = w1  w2 = w2  wl = wl
  None = None
  Faults = {"error", "lost"}
  Listings = {l1, l2}
  MaxSaves = 2
  Files = {f1, f2}
  Illustrated = {f1}
  Contended = {f1}
  Rulings = {"REJECTED"}
  MaxRev = 2
  MaxReads = 2
  MaxOrphans = 1
  Deals = {d1, d2}
  MaxSends = 3
  MaxRuns = 3
  MaxListings = 5
  HOME_PAGE_SIZE = 2
  Labels = {w1, w2, wl}
  Blank = Blank
  LongLabel = wl
  MinImages = 2
  MaxImages = 3
  MinWishes = 2
  MaxWishes = 3
  Selections <- MCSelections
  RoleSets <- MCRoleSets
INVARIANTS TypeOK OneDraftPerForm NoMixedPublication ScreensAreTrue BlobUrlsReleased
PROPERTIES ButtonsComeBack
CHECK_DEADLOCK FALSE
