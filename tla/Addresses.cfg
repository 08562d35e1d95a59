CONSTANTS
  References = {a, b}
  NoReference = none
  Count = 2
  MaxIndex = 3
  MaxLosses = 1
SPECIFICATION Spec
SYMMETRY ReferenceSymmetry
INVARIANTS
  TypeOK
  ReferenceStable
  NoReuse
  ToldIsWatched
  NoGaps
