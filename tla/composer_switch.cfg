SPECIFICATION Spec
CONSTANTS
  dm = dm  group = group  Nowhere = Nowhere
  Conversations = {dm, group}
  Files = {"picture", "too long", "other"}
  MaxPanes = 2
  MaxIds = 2
  MaxErrors = 1
CHECK_DEADLOCK FALSE
INVARIANT SpinnerHasRequest
