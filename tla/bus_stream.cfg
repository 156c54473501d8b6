SPECIFICATION Spec
CONSTANTS
  Listeners = {l1, l2}
  Sizes = {1, 2, 4}
  Caps = {0, 3}
  Ring = 2
  MaxPackets = 4
  Out = Out
INVARIANTS
  BusInv
PROPERTIES
  StreamKept
  PublisherNeverBlocked
