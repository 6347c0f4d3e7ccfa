SPECIFICATION Spec
CONSTANTS
  OutputBytes = {0, 1, 2, 4}
  PolicyMin = 1
  PolicyMax = 2
  HelperAllowed = TRUE
  MaxWrites = 4
INVARIANTS
  PassHasWholeOutput
  NoChildLeft
  OutputBounded
PROPERTIES
  ReturnsUnlessHelper
CHECK_DEADLOCK FALSE
