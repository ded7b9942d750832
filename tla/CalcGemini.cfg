\* Refutes GeminiChargedOnce.
SPECIFICATION Spec
CONSTANTS
  MaxInt = 7
  Null = Null
  Bodies <- SomeBodies
  PriceLists <- SomePriceLists
INVARIANTS GeminiChargedOnce
CHECK_DEADLOCK FALSE
