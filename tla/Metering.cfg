\* Safety: two requests in flight, two rows, administrators who add credit
\* and switch the billing mode at any time, crashes at any time.
CONSTANTS
  Slots = {s1, s2}
  Amounts <- Adds
  Limits <- ZeroLimit
  Costs <- FreeOrNot
  MaxCost = 1
  MaxConfigs = 1
  MaxRows = 2
  MaxEntries = 2
  NULL = NULL
SPECIFICATION Spec
SYMMETRY SlotSymmetry
INVARIANTS LedgerMatchesRows PrefixAccounted TermsKept DebtBounded
PROPERTY LedgerSpec
