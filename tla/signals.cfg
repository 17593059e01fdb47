SPECIFICATION FairSpec
CONSTANTS
  ann = ann  bob = bob  cat = cat
  NoMessage = NoMessage
  Users = {ann, bob, cat}
  Founders = {ann, bob}
  Scenes <- Several
CHECK_DEADLOCK FALSE
INVARIANTS
  ReactionsAgree
  ReceiptsAgree
  BadgeNeverLow
  TypingAgrees
PROPERTY TypingEnds
