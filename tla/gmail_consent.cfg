SPECIFICATION Spec
CONSTANTS
  Users = {u1, u2}
  Accounts = {g1, g2}
  Tokens = {t1, t2}
  Conns = {i1, i2}
  Callbacks = {c1, c2}
  Removers = {d1, d2}
  None = None
  Fresh = Fresh
  Gone = Gone
  StateTtl = 0
  MaxTime = 1
  MaxKey = 2
SYMMETRY Interchangeable
INVARIANTS
  TypeOK
  TokensHaveOneHolder
  RowTokensAreLive
CHECK_DEADLOCK FALSE
