SPECIFICATION FairSpec
CONSTANTS
  Producers = {p1, p2}
  Consumers = {c1, c2}
  Items = {a}
  None = None
  Capacity = 2
  MaxEnqueues = 2
PROPERTIES
  CallsReturn
  ItemsDelivered
