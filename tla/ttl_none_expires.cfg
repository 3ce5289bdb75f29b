CONSTANTS
  k1 = k1  k2 = k2  s1 = s1  s2 = s2  c1 = c1
  Keys = {k1, k2}
  Sigs = {s1, s2}
  SelfIDs = {a, b}
  Peers = {}
  Clients = {c1}
  Size <- MCSize
  Totals = {3}
  Reps = {1}
  TTLs = {0, 1}
  CreatedAts = {0, 1, 2}
  VidLists = {}
  MaxNow = 2
  MaxQueue = 1
  MaxVids = 2
  None = None
  Day = 1
SPECIFICATION TTLSpec
SYMMETRY Symmetry
PROPERTIES NoTTLNeverExpires
