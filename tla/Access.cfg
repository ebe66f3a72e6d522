\* One user, every handler, in every regime.
CONSTANTS
  u1 = u1
  a1 = a1
  q1 = q1
  Null = Null
  Staff = {u1}
  Admins = {a1}
  Requests = {q1}
  MaxTime = 2
  Regimes = {"serialized", "faulty", "free"}
SPECIFICATION FairSpec
INVARIANT RowAgrees
PROPERTY RestrictionsEnd
