SPECIFICATION MCSpec
CONSTANTS
  ann = ann  bob = bob  a1 = a1  a2 = a2  b1 = b1
  annTab = annTab  bobTab = bobTab  dm = dm  channel = channel
  Users = {ann, bob}
  Conns = {a1, a2, b1}
  Notifiers = {}
  UserOf <- UserOfConn
  Tabs = {annTab, bobTab}
  TabOf <- TabOfConn
  Opened = {a1, b1}
  Convs = {dm, channel}
  Direct = {dm}
  Founders <- BothEverywhere
  MaxRequests = 2
  MaxFaults = 1
CHECK_DEADLOCK FALSE
INVARIANT ParticipantHasConnection
PROPERTIES ImplementsBoard CallsDrain
