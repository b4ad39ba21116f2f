SPECIFICATION Spec
CONSTANTS
  m1 = m1
  m2 = m2
  r1 = r1
  r2 = r2
  s1 = s1
  Ids = {m1, m2}
  Starts = {r1, r2}
  Stops = {c1, c2}
  Given = {s1}
  Requests <- TwoStarts
  Buffer = 1
  MaxEvents = 3
  None = None
SYMMETRY Symmetry
INVARIANTS
  DraftIsWhatWasDone
  StoppedOnce
  StopReleases
CHECK_DEADLOCK FALSE
