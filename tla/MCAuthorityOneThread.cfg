CONSTANTS
  Thread = {t1}
  ClaimId = {c1, c2}
  Generation = {g1, g2}
  Pid = {p1}
  Null = Null
  MaxRevision = 3
  MaxHolders = 2
SPECIFICATION Spec
SYMMETRY Symmetry
INVARIANTS
  TypeOK
  ClaimsMatchEpoch
  DurableNotBehind
PROPERTIES
  GenerationNeverReplaced
  TombstoneIsFinal
