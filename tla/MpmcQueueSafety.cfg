SPECIFICATION Spec
CONSTANTS
  Producers = {p1, p2}
  Consumers = {c1, c2}
  Items = {a, b}
  None = None
  Capacity = 2
  MaxEnqueues = 5
SYMMETRY Symmetry
INVARIANTS
  TypeOK
  ExclusiveAccess
  QueueBounded
  ProtocolInv
PROPERTY RefinesFifo
