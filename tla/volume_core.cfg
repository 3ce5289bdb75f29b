CONSTANTS
  k1 = k1  k2 = k2  s1 = s1  s2 = s2  c1 = c1  c2 = c2
  Keys = {k1, k2}
  Sigs = {s1, s2}
  SelfIDs = {a, b}
  Peers = {p1}
  Clients = {c1, c2}
  Size <- MCSize
  Totals = {3}
  Reps = {1, 3}
  TTLs = {0}
  CreatedAts = {}
  VidLists <- MCVidLists
  MaxNow = 1
  MaxQueue = 1
  MaxVids = 2
SPECIFICATION Spec
SYMMETRY Symmetry
INVARIANTS TypeOK IndexConsistent NeverUndercounts SelfListed VolumesIndexed 
