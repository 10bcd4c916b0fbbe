SPECIFICATION Spec
CONSTANTS
  Queries = {q1, q2, q3}
  Closers = {k1, k2}
  Conns = {c1, c2, c3}
  MaxConnections = 2
  Network = "tcp"
  Settings <- MCSettings
  Nil = Nil
CHECK_DEADLOCK FALSE
SYMMETRY Symmetry
INVARIANTS TokensNeverLost ConnExclusive OwnAnswer AtMostMaxConnections NoQueryStuck
PROPERTY LeasesConnections
