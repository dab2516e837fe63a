CONSTANTS
  o1 = o1
  Orders = {o1}
  Size = 2
  Adapters = {FALSE}
  MaxRestarts = 1
SPECIFICATION OrdersSpec
INVARIANT
  OnlyOrphansCancelled
