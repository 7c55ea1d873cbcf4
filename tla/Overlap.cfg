\* Two requests at a time, one of which may die half way.
SPECIFICATION Spec
CONSTANTS
  x = x
  y = y
  Blank = blank
  Values = {blank, x, y}
  Requests = {p1, p2}
  Starts = {"ELIGIBILITY", "VARY"}
  Ops = {"form", "deleteCondition", "handover", "pdf"}
  Answers <- OverlapAnswers
  Sends <- ShortPath
  MaxOpenPages = 0
  MaxFailures = 1
  MaxVersion = 1
SYMMETRY Symmetry
CHECK_DEADLOCK FALSE
INVARIANTS RowAheadOfSnapshots NoVersionSkipped SnapshotIntegrity
