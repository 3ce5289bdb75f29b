CONSTANTS
  k1 = k1  k2 = k2  k3 = k3  s1 = s1  s2 = s2  c1 = c1  c2 = c2
  Keys = {k1, k2, k3}
  Sigs = {s1, s2}
  SelfIDs = {a, b}
  Peers = {p1}
  Clients = {c1, c2}
  Size <- MCSize
  Totals = {5}
  Reps = {1}
  TTLs = {0}
  CreatedAts = {}
  VidLists = {}
  MaxNow = 0
  MaxQueue = 1
  MaxVids = 3
  None = None
SPECIFICATION SerialSpec
SYMMETRY Symmetry
INVARIANTS ContentPresent
PROPERTIES KeepsPromise PutIsRead
