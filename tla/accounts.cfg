SPECIFICATION FairSpec
CONSTANTS
  ann = ann  bob = bob  home = home  t1 = t1  t2 = t2
  NoUser = NoUser
  Users = {ann, bob}
  Tabs = {t1, t2}
  Browsers = {home}
  BrowserOf <- Places
  Limit = 1
  Scenes <- Several
CHECK_DEADLOCK FALSE
INVARIANTS
  MeAgrees
  SessionsOwned
  PasswordsChain
PROPERTY BlockEnds
