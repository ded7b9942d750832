\* Two processes start at once on a database with one organisation and one
\* key, with one fault and two edits by administrators, who may add the other
\* organisation and the other key.  Faults and edits are used up some time, so
\* the system may stop.
CONSTANTS
  Procs = {p1, p2}
  Orgs = {o1, o2}
  Old = {o1}
  Keys = {k1, k2}
  OldKeys = {k1}
  Projects = {j1, j2, j3}
  MaxFaults = 1
  MaxEdits = 2
  MaxVersions = 2
  NULL = NULL
SPECIFICATION Spec
INVARIANTS ModesKept SeededOnce RatesKept
PROPERTIES KeysStay SeedsAppend
CHECK_DEADLOCK FALSE
