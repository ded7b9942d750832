\* Two charges, two recharges and the deletion of the organisation, with every
\* statement free to fail.  Each call is made once, so the system may stop.
CONSTANTS
  Requests = {r1, r2}
  Recharges = {a1, a2}
  Deletion = del
  Amounts <- AddOrTake
  Costs <- FreeOrNot
  NULL = NULL
SPECIFICATION FairSpec
INVARIANTS ChargedWhole RowsHaveOrg
PROPERTIES LedgerSpec CallsEnd
CHECK_DEADLOCK FALSE
