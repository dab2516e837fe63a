CONSTANTS
  o1 = o1
  Orders = {o1}
  Size = 2
  Adapters = {TRUE, FALSE}
  MaxRestarts = 1
SPECIFICATION OrdersSpec
INVARIANTS
  NeverOverbooked
  
PROPERTIES
  OpenOrderIsFound
  PendingIsSettled
