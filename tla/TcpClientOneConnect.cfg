\* Two requests are enough: the second arrives while the first is connecting.
SPECIFICATION Spec
CONSTANTS
  MaxMessages = 2
  TidMod = 3
INVARIANT AtMostOneConnect
CHECK_DEADLOCK FALSE
