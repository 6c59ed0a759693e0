\* One request is enough: its answer is read in two pieces.
SPECIFICATION Spec
CONSTANTS
  MaxMessages = 2
  TidMod = 3
INVARIANT NeverWedged
CHECK_DEADLOCK FALSE
