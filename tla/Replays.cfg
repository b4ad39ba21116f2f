SPECIFICATION Spec
CONSTANTS
  m1 = m1
  r1 = r1
  r2 = r2
  s1 = s1
  Ids = {m1}
  Lists <- SomeLists
  Runs = {r1, r2}
  Resumes = {c1, c2}
  Given = {s1}
  Requests <- OneMacro
  None = None
SYMMETRY Symmetry
INVARIANTS
  RunsWhatWasApproved
  ResumedByHuman
  LeasedIsClosed
CHECK_DEADLOCK FALSE
