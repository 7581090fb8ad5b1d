SPECIFICATION Spec
CONSTANTS
  Producers = {p1}
  Consumers = {c1}
  Items = {a, b}
  None = None
  Capacity = 1
  MaxEnqueues = 2
INVARIANT QueueBounded
