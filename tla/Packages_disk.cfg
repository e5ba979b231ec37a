CONSTANTS
  p1 = p1
  p2 = p2
  a = a
  c = c
  Jobs = {i1}
  Packages = {p1, p2}
  Files <- MCFiles
  Checked <- MCChecked
  Config <- MCConfig
  Depends <- MCDepends
  ManifestFile = m
  None = None
  MaxRuns = 4
  Initial <- MCInitial

SPECIFICATION Spec
CONSTRAINT OneHarvested
CHECK_DEADLOCK FALSE
INVARIANTS TypeOK RecordIntact NoStray DependentsKept Verified
