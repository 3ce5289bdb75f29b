CONSTANTS
  n1 = n1  n2 = n2  n3 = n3  k1 = k1  s1 = s1
  Nodes = {n1, n2, n3}
  Keys = {k1}
  Contents = {s1}
  Cut = Cut
  Puts <- OnePut
  Factor = 3
  MaxPuts = 1
  MaxDeletes = 0
  MaxUpsets = 2
  MaxResets = 0
SPECIFICATION Spec
CHECK_DEADLOCK FALSE
INVARIANTS OneResponsible
