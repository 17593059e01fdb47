SPECIFICATION MCSpec
CONSTANTS
  dm = dm
  room = room
  NoConv = NoConv
  Users = {1, 2, 3}
  Convs = {dm, room}
  Direct <- AnnBob
  MembersOf <- Lists
  Budgets <- Clicks
CHECK_DEADLOCK FALSE
INVARIANTS
  MicHeld
  NothingOutlivesTheCall
  StoreAgrees
  MutedSilent
  RegistryAgrees
  MeshComplete
