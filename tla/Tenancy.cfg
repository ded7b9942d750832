\* Two organisations, a project more than their default ones, two keys and two
\* requests.  All ids may be used up, so the system may stop.
CONSTANTS
  Orgs = {o1, o2}
  Projects = {p1, p2, p3}
  Keys = {k1, k2}
  Logs = {l1, l2}
  NULL = NULL
SPECIFICATION Spec
SYMMETRY IdSymmetry
INVARIANTS LogsAttributed KeysOwned
PROPERTY HistoryKept
CHECK_DEADLOCK FALSE
