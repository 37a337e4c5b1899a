SPECIFICATION Spec
CONSTANTS
  Items = {i1, i2}
  i1 = i1
  i2 = i2
  KeepTime = 2
  MaxTime = 4
PROPERTIES PriorityKept
