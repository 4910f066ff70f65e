SPECIFICATION Spec
CONSTANTS
  c1 = c1
  c2 = c2
  none = none
  Clients = {c1, c2}
  Ids <- MCIds
  None = none
  MaxUpsets = 1
PROPERTY ReadyChannelSurvives
CHECK_DEADLOCK FALSE
