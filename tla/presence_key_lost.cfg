SPECIFICATION Spec
CONSTANTS
  ann = ann  bob = bob  a1 = a1  a2 = a2  a3 = a3  b1 = b1
  annTab = annTab  annTab2 = annTab2  bobTab = bobTab  room = room
  Users = {ann, bob}
  Tabs = {annTab, annTab2, bobTab}
  Convs = {room}
  Conns <- ThreeConns
  UserOf <- ThreeConnsUser
  TabOf <- OneTabEach
  Founders <- BothFound
  Notifiers = {}
  MaxDrops = 2
  MaxFaults = 0
INVARIANT SnapshotAccurate
CHECK_DEADLOCK FALSE
