SPECIFICATION Spec
CONSTANTS
  m1 = m1
  s1 = s1
  c1 = c1
  c2 = c2
  Sites = {s1}
  Ids = {m1}
  SiteOf <- OnSite
  Calls = {c1, c2}
  MaxSteps = 2
  None = None
INVARIANTS
  ApprovedIsValid
  RevocationLasts
PROPERTIES
  ApprovalCertifies
  ApprovalIsNotReplaced
  ParkedIsKept
