\* A string is done once, so the system stops.
CONSTANTS
  Fields <- SomeFields
  MinFieldChars = 8
  MinSavingsPct = 5
SPECIFICATION CompressSpec
INVARIANTS CodeKept TextKept OnlyPrompt
CHECK_DEADLOCK FALSE
