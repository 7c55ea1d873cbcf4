\* One request at a time, none failing, no page left open.
SPECIFICATION Spec
CONSTANTS
  x = x
  y = y
  Blank = blank
  Values = {blank, x, y}
  Requests = {p1}
  Starts = {"ELIGIBILITY", "VARY"}
  Ops = {"form", "conditions", "moveAddress", "handover", "pdf"}
  Answers <- SerialAnswers
  Sends <- Transitions
  MaxOpenPages = 0
  MaxFailures = 0
  MaxVersion = 2
CHECK_DEADLOCK FALSE
INVARIANTS TypeOK DecisionStands PrintedMatchesSnapshot ChangeGetsNewVersion
PROPERTY ImplementsLifecycle
