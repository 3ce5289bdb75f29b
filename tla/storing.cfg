CONSTANTS
  n1 = n1  n2 = n2  n3 = n3  v1 = v1  v2 = v2  v3 = v3
  k1 = k1  r1 = r1
  Nodes = {n1, n2, n3}
  Volumes = {v1, v2, v3}
  Home <- OneEach
  Keys = {k1}
  Requests = {r1}
  Silent = {n3}
  MaxResets = 1
  MaxUpsets = 1
SPECIFICATION Spec
INVARIANTS CacheSound IInv
PROPERTIES EndsUnlessStuck NotFoundIsTrue
