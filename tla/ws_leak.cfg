SPECIFICATION Spec
CONSTANTS
  o1 = o1
  o2 = o2
  w1 = w1
  w2 = w2
  None = None
  Orders = {o1}
  Sockets = {w1, w2}
  MaxUpdates = 1
  Outages = {}
SYMMETRY Symmetry
INVARIANT NoConnectionNoSubscription
