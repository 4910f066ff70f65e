SPECIFICATION Spec
CONSTANTS
  p = p
  q = q
  c = c
  r = r
  s = s
  human = human
  host = host
  agent = agent
  Procs = {p, q}
  Clients = {c}
  Posts = {r, s}
  Names = {human, host, agent}
  AgentNicks = {agent}
  Host = host
  Nick <- Wishes
  Flags = {None, agent}
  None = None
  Empty = Empty
  Failing = {"kill", "disk", "slow"}
  MaxIds = 2
  MaxUpsets = 1

SYMMETRY Same
INVARIANTS TypeOK IdentityKept NickRules OneNick ConsentFirst
\* The bound on generated ids can leave every process without one.
CHECK_DEADLOCK FALSE
