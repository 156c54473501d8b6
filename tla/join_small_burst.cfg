SPECIFICATION Spec
CONSTANTS
  l1 = l1
  Listeners = {l1}
  Burst = 2
  MaxHeaderBuffer = 4
  HeaderParts = 2
  Kinds = {"Live"}
  Chained = FALSE
  MaxChains = 2
  MaxPackets = 4
  MaxGuards = 2
  None = None
INVARIANTS
  HeadersBeforeAudio
