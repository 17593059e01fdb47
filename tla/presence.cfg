SPECIFICATION MCSpec
CONSTANTS
  ann = ann  bob = bob  a1 = a1  a2 = a2  a3 = a3  b1 = b1
  annTab = annTab  annTab2 = annTab2  bobTab = bobTab  room = room
  Users = {ann, bob}
  Tabs = {annTab, annTab2, bobTab}
  Convs = {room}
  Conns <- AllConns
  UserOf <- UserOfAll
  TabOf <- TabOfAll
  Founders <- BothFound
  Notifiers = {n1}
  MaxDrops = 3
  MaxFaults = 1
CHECK_DEADLOCK FALSE
INVARIANTS OneAnnouncer KeyNotLeaked PeersAware
PROPERTY LeakedKeyExpires
