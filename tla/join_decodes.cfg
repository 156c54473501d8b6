SPECIFICATION Spec
CONSTANTS
  l1 = l1
  Listeners = {l1}
  Burst = 4
  MaxHeaderBuffer = 4
  HeaderParts = 2
  Kinds = {"Live", "AutoDj"}
  Chained = TRUE
  MaxChains = 2
  MaxPackets = 4
  MaxGuards = 2
  None = None
INVARIANTS
  JoinDecodes
