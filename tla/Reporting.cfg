\* What NOMIS and CVL are told of a case, with calls that fail.
SPECIFICATION Spec
CONSTANTS
  Scopes <- AllScopes
  MaxFailures = 2
INVARIANTS
  TypeOK
  ChecksTold
  EventsTold
  ResetTold
PROPERTY
  DecisionTold
