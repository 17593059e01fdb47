SPECIFICATION Spec
CONSTANTS
  ann = ann  bob = bob  cat = cat  plain = plain  mod = mod  other = other
  general = general  rooms = rooms  fresh = fresh  q1 = q1  q2 = q2
  Users = {ann, bob, cat}
  Tabs = {bob, cat}
  Roles = {plain, mod, other}
  Channels = {general, rooms, fresh}
  Requests = {q1, q2}
  NoUser = NoUser  NoRole = NoRole  NoChannel = NoChannel  Absent = Absent
  DefaultRole = plain
  General = general
  RoleInputs <- TwoInputs
  Begun <- Starts
  MaxRequests = 2
  MaxFaults = 1
CHECK_DEADLOCK FALSE
SYMMETRY Interchangeable
INVARIANTS EveryMemberHasRole ChannelsFollowMembership NoOrphans
  ViewsConverge
