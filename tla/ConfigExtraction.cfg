\* Numbers -1, 0, 1, 1.5, 2, 5, 8, 9, 20 and 21; the last two fit a word only,
\* and 21 is narrowed to a character size.
SPECIFICATION Spec
CONSTANTS
  Halves = {0, 2, 3, 4, 10, 16, 18, 40, 42}
  Negatives = {1}
  MaxElements = 2
  WordMod = 32
  UintMod = 16
  PortMax = 9
  UnitIdMin = 1
  UnitIdMax = 5
  CharacterSizes = {5, 8}
INVARIANTS
  PathIsPlace
  RangedNumberKept
\* The file has been read, or refused.
CHECK_DEADLOCK FALSE
