SPECIFICATION CoordinatorSpec
CONSTANTS
  t1 = t1
  t2 = t2
  c1 = c1
  g1 = g1
  g2 = g2
  g3 = g3
  Null = Null
  Thread = {t1}
  ClaimId = {c1}
  Generation = {g1, g2}
  Pid = {g1, g2}
  Watched = {t1}
  MaxRevision = 3
  MaxHolders = 1
SYMMETRY Symmetry
INVARIANTS
  OneOwner
  AtMostOneProcess
  AccountedFor
  KillsAlone
  ExitedIsTrue
VIEW View
