SPECIFICATION Spec
CONSTANTS
  Listeners = {l1, l2}
  Mounts = {m1, m2}
  MaxGlobal = 1
  MaxMount = 1
INVARIANTS
  CapsHoldUpToRaces
PROPERTIES
  KickedLeaves
  DropEndsListeners
  GoneLeaves
