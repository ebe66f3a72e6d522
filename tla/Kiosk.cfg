\* Two logins, and administrative operations that overlap them or do not.
CONSTANTS
  a1 = a1
  a2 = a2
  t1 = t1
  t2 = t2
  k1 = k1
  k2 = k2
  Null = Null
  Keys = {k1, k2}
  Terminals = {t1, t2}
  Admins = {a1, a2}
  MaxVersion = 4
  Regimes = {"one_admin", "serialized"}
  Faults = TRUE
SPECIFICATION Spec
INVARIANT CurrentKeyOnly
PROPERTY EndedForGood
PROPERTY RotationEndsAll
\* The versions of the terminal are bounded: the last one cannot be revoked.
CHECK_DEADLOCK FALSE
