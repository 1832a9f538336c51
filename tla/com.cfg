SPECIFICATION Spec
SYMMETRY Symmetry
CONSTANTS
  root = root
  a = a
  b = b
  com = com
  cls = cls
  iid1 = iid1
  iid2 = iid2
  o1 = o1
  o2 = o2
  w1 = w1
  Directors <- ThreeDirectors
  Root = root
  Coms = {com}
  NoCom = none
  ClassIDs = {cls}
  Interfaces = {iid1, iid2}
  Factories <- TwoFactories
  NoDirector = noDirector
  MaxChildren = 2
  MaxRefs = 1
  Objects = {o1, o2}
  Wrappers = {w1}
  NoObject = none
  Width = 4
  MaxOwned = 2
  GameCounts = TRUE
INVARIANTS TypeOK ComReachesChildren LookupComplete DirectorsCounted CountsReferences FreedExactly
