\* Every answer or stream of up to two events of the small bodies, every price
\* list of each shape the validation lets through.  A request ends, so the
\* system may stop.
SPECIFICATION Spec
CONSTANTS
  MaxInt = 7
  Null = Null
  Bodies <- SomeBodies
  PriceLists <- SomePriceLists
INVARIANTS TotalCovers BilledOnce LongerNeverCheaper
CHECK_DEADLOCK FALSE
