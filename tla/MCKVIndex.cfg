CONSTANTS
  Keys = {1, 2, 3}
  Values = {v1, v2}
  Absent = Absent
  Bounds = {0, 1, 2, 3, 4}

SPECIFICATION Spec

INVARIANT ScanMatchesSpec
