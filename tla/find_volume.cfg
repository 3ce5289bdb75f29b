CONSTANTS
  v1 = v1  v2 = v2  v3 = v3
  Volumes = {v1, v2, v3}
  Silent = {v3}
  NoVolume = NoVolume
SPECIFICATION Spec
INVARIANTS IInv
PROPERTIES FindsWhatIsThere SearchEnds
CHECK_DEADLOCK FALSE
