\* Days of two seconds, two requests and an invoice, with which the model
\* stops.
CONSTANTS
  Layouts <- SomeLayouts
  Requests = {r1, r2}
  Costs <- SomeCosts
  Cent = 10
  Carry = 5
  Days = 2
  DaySeconds = 2
  MonthDays = 1
  Exports <- ADayAndMore
  NONE = NONE
SPECIFICATION InvoiceSpec
CONSTRAINT ExportsAtTheEnd
SYMMETRY IdSymmetry
INVARIANTS BilledOnce AddsUp Readable
CHECK_DEADLOCK FALSE
