\* Three nodes whose configurations form a ring; one announces the address
\* 0.0.0.0; one broadcasts a block that does not fit the buffers of the kernel.
SPECIFICATION Spec
CONSTANTS
  A = A
  B = B
  C = C
  Node = {A, B, C}
  Config <- Ring
  Wildcard = {A}
  Large = {"Block"}
  MaxConnections = 1
  Capacity = 1
  MaxBlocks <- Senders
INVARIANTS TypeOK PeersDistinct SlotsCounted
PROPERTIES SendsReturn SlotsFreed DiscoveryEnds SameNodes
CHECK_DEADLOCK FALSE
