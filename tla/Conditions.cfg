\* Two users and a second version of the conditions.
SPECIFICATION Spec
CONSTANTS
  dropped = dropped
  added = added
  u1 = u1
  u2 = u2
  Conditions = {dropped, added}
  SetOf <- TwoSets
  LastRelease = 2
  b1 = b1
  b2 = b2
  Bespoke = {b1, b2}
  MaxBespoke = 2
  Users = {u1, u2}
  Disturbances = {}
SYMMETRY Symmetry
INVARIANTS
  TypeOK
  ConditionsKnown
PROPERTY
  VersionStays
