\* Two companies, two people, two e-mails; a few requests, overlapping or not.
CONSTANTS
  c1 = c1
  c2 = c2
  p1 = p1
  p2 = p2
  e1 = e1
  e2 = e2
  d1 = d1
  d2 = d2
  s1 = s1
  s2 = s2
  Null = Null
  Companies = {c1, c2}
  Primary = c1
  People = {p1, p2}
  Emails = {e1, e2}
  Departments = {d1, d2}
  MaxAccounts = 2
  MaxPasswords = 3
  Slots = {s1, s2}
  Scenes <- MCScenes
SPECIFICATION Spec
SYMMETRY MCSymmetry
INVARIANT OneIdentity
INVARIANT SessionsAgree
PROPERTY OffersEveryCompany
PROPERTY MarkFallsByChoice
PROPERTY LinksAreSpent
PROPERTY RestoresBackup
\* Requests stop at their bound.
CHECK_DEADLOCK FALSE
