SPECIFICATION MCSpec
CONSTANTS
  secrets = secrets
  integration = integration
  notes = notes
  First = r1
  FirstEnv = e1
  Other = r2
  OtherEnv = e2
  Bindings <- MCBindings
  FirstName = n1
  FirstServer = s1
  Records = {r1, r2}
  Names = {n1, n2}
  Envs = {e1, e2}
  Servers = {s1, s2}
  Handlers = {h1, h2}
  MaxRequests = 2
  Fields = {f1, f2}
  Needed = {f1}
  Clients = {c1, c2}
  Updates = {u1, u2}
  Deciders = {d1, d2}
  Owners = {o1}
INVARIANTS RunHasAll BindingsHold MemoryOnce
PROPERTY VerifyingEnds
CHECK_DEADLOCK FALSE
