SPECIFICATION MCSpec
CONSTANTS
  ann = ann  bob = bob  t1 = t1  t2 = t2  note = note  clip = clip
  r1 = r1  r2 = r2  r3 = r3  r4 = r4
  Users = {ann, bob}
  Tabs = {t1, t2}
  UserOf <- AnnTwice
  Keys = {note, clip}
  AuthorOf <- AllByAnn
  Requests = {r1, r2, r3}
  Seeded = {}
  Clips = {clip}
  Original = Original
  MaxFetches = 0
  MaxDrops = 0
  MaxLosses = 1
CHECK_DEADLOCK FALSE
ACTION_CONSTRAINT OneMessage
SYMMETRY Interchangeable
INVARIANTS Agreement OneWinner PendingHasRequest PlaceholderReconciled TabsConverge
PROPERTY ImplementsLog
