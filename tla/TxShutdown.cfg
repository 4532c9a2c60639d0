SPECIFICATION Spec
CONSTANTS
  TopPpc = 7
  Ppcs = {0, 3, 7}
  Contents = {1, 2}
  Capacity = 2
  Units = {0, 1}
  MaxPauses = 2
  Faults = {"shutdown"}
  Asserts = TRUE
INVARIANT StopsSafely
