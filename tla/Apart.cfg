\* Two requests at a time, but handovers and reviewed changes run alone, and prints
\* overlap prints only; a page, other than the decision's, kept open.
SPECIFICATION SpecAllApart
CONSTANTS
  x = x
  y = y
  Blank = blank
  Values = {blank, x, y}
  Requests = {p1, p2}
  Starts = {"ELIGIBILITY", "VARY"}
  Ops = {"form", "conditions", "moveAddress", "handover", "pdf"}
  Answers <- ApartAnswers
  Sends <- LongerPath
  MaxOpenPages = 1
  MaxFailures = 0
  MaxVersion = 1
SYMMETRY Symmetry
CHECK_DEADLOCK FALSE
INVARIANTS ReapprovalHolds PrintedMatchesSnapshot SnapshotPossible
