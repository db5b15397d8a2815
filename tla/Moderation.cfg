CONSTANTS
  x = x  y = y
  e1 = e1  e2 = e2  m1 = m1  m2 = m2  u1 = u1  u2 = u2  d1 = d1  v1 = v1
  ann = ann  red = red  blue = blue  t1 = t1
  Wishes = {red, blue}
  Blank = Blank
  Texts = {t1}
  Undefined = Undefined
  Nothing = Nothing
  Images <- MCImages
  MinImages = 2  MaxImages = 2  MinWishes = 1  MaxWishes = 2
  Listings = {x}
  Edits = {e1, e2}
  Reviews = {m1, m2}
  Uploads = {u1, u2}
  Deletions = {d1}
  Views = {v1}
  ListingOf <- MCListingOf
  User <- MCUser
  Owner <- MCOwner
  Drafts <- MCDrafts
  InputOf <- MCInputOf
  KeyOf <- MCKeyOf
  BatchSizes = {1, 2}
  Faults = {"rollback", "storage", "crash"}
  MaxRequests = 4
  MaxStamp = 12
SPECIFICATION Spec
INVARIANTS ApprovedIsPublishable ReferencedImagesStored NoSilentOrphan PublicImagesWereReviewed
PROPERTIES GalleryFrozen ImplementsPublication
SYMMETRY MCSymmetry
