SPECIFICATION FairSpec
CONSTANTS
  dm = dm  group = group  Nowhere = Nowhere
  Conversations = {dm, group}
  Files = {"picture", "too long"}
  MaxPanes = 2
  MaxIds = 2
  MaxErrors = 1
ACTION_CONSTRAINT SecondPaneStays
CHECK_DEADLOCK FALSE
INVARIANT MicReleased
PROPERTIES RecordingEnds FilesAnswered
