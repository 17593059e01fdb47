SPECIFICATION FairSpec
CONSTANTS
  ann = ann  bob = bob  t1 = t1  t2 = t2  note = note  clip = clip
  r1 = r1  r2 = r2  r3 = r3  r4 = r4
  Users = {ann, bob}
  Tabs = {t1, t2}
  UserOf <- AnnAndBob
  Keys = {note}
  AuthorOf <- AllByAnn
  Requests = {r1, r2}
  Seeded = {}
  Clips = {}
  Original = Original
  MaxFetches = 1
  MaxDrops = 1
  MaxLosses = 2
CHECK_DEADLOCK FALSE
PROPERTIES PendingResolves FailedSendKept
