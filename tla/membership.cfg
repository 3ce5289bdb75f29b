CONSTANTS
  n1 = n1  n2 = n2  v1 = v1  v2 = v2  w = w
  Nodes = {n1, n2}
  VolumeIDs = {v1, v2, w}
  Metas <- RenamedVolumes
  Downtime = 1
  MaxNow = 3
SPECIFICATION Spec
INVARIANTS TypeOK RemovedAreAway
PROPERTIES NotForgotten DepartedGoes
