\* Two administrators save at once, for any provider or for one and for any
\* time, beside a seeded price and a request.  Each saves once, so the system
\* may stop.
CONSTANTS
  Ids = {i0, i1}
  Models = {m}
  Providers = {p}
  ANY = any
  Saves = {a1, a2}
  Requests = {r}
  Seed = i0
  MaxTime = 2
  NULL = NULL
SPECIFICATION Spec
INVARIANTS SavesNumbered Reviewable
PROPERTIES BookSpec SaveKeepsPriced
CHECK_DEADLOCK FALSE
