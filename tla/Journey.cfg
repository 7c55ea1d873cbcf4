SPECIFICATION Spec
CONSTANTS
  a1 = a1
  a2 = a2
  a3 = a3
  a4 = a4
  NoAddress = NoAddress
  Addresses = {a1, a2, a3, a4}
  CompleteAddress = {a1, a2, a4}
  WellFormedAddress = {a1, a2}
  OwnAddress = {a2}
  Scopes <- Journeys
  MaxRejections = 1
INVARIANTS
  TypeOK
  PrintNeedsAddress
  ApprovedIsEligible
  PrintedAddressWasDecided
  WithdrawalUndone
  
  ListAgrees
PROPERTIES
  AddressesKept
CHECK_DEADLOCK FALSE
