\* A postponement first sent without its reason is never posted to CVL.
SPECIFICATION Spec
CONSTANTS
  Scopes <- Postponing
  MaxFailures = 0
INVARIANT
  PostponementTold
