SPECIFICATION FairSpec
CONSTANTS
  c1 = c1
  c2 = c2
  none = none
  Clients = {c1, c2}
  Ids <- MCIds
  None = none
  MaxUpsets = 1
INVARIANTS TypeOK NoGlare PairsAgree NamesArrive ListedAreConnected
PROPERTIES Meshed
CHECK_DEADLOCK FALSE
