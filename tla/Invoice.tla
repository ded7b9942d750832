------------------------------- MODULE Invoice -------------------------------
(***************************************************************************)
(* The invoices of one organisation (admin/billing.rs): an administrator   *)
(* names a period, a query sums what the logged requests of the period     *)
(* cost, by project and key, its rows are put together by project and the  *)
(* projects are printed page by page, each step an action.  Requests are   *)
(* logged and charged until the query, whose answer is a snapshot.         *)
(*                                                                         *)
(* An instant is counted in half seconds, so that a request can be logged  *)
(* between two seconds, a place on a page in half millimetres, and a cost, *)
(* credit or money, in units of its column's last decimal: it is printed   *)
(* to the cent, of which Cent units are one.                               *)
(***************************************************************************)
EXTENDS Integers, Sequences, SequencesExt, FiniteSetsExt

CONSTANTS Layouts,      \* the projects and keys there are, see Layout
          Requests,
          Costs,        \* what a request may cost, in units
          Cent,         \* units of a printed cent: 10^4 of credit, 10^10 of money
          Carry,        \* what formatting adds before it cuts: 0 to cut only
          Days, DaySeconds, MonthDays,  \* the calendar
          Exports,      \* the periods that are exported
          NONE

(* The names of projects, by their place in the order of names and not     *)
(* necessarily distinct, and how many keys each has.  Keys are named in    *)
(* turn: the keys of project i are the numbers n with n % Len = i % Len.   *)
Layout == {x \in [names : Seq(Nat), keys : Seq(Nat)] : Len(x.names) = Len(x.keys)}
Key == [project : Nat, rank : Nat]

ASSUME InvoiceAssumption ==
  /\ \A x \in Layouts : x \in Layout
  /\ IsFiniteSet(Requests)
  /\ NONE \notin Nat /\ NONE \notin Key
  /\ Costs \subseteq Nat
  /\ Cent \in Nat \ {0} /\ Carry \in 0..Cent - 1
  /\ {Days, DaySeconds, MonthDays} \subseteq Nat \ {0}

End == 2 * Days * DaySeconds

VARIABLES layout,       \* stays as it is
          log,          \* the request_logs rows, at is created_at
          clock,
          answer,       \* the query's rows, none before the export
          grouped,      \* how many of them are put together
          groups,       \* the projects so far, with their rows
          current,      \* the project that is printed, or is next
          listed,       \* how many of its keys are, NONE before its title
          sheet         \* the page, where its next line goes, the lines so far

logVars == <<layout, log, clock>>
printVars == <<current, listed, sheet>>
invoiceVars == <<logVars, answer, grouped, groups, printVars>>

Projects == DOMAIN layout.names
KeysOf(j) == {[project |-> j, rank |-> n * Len(layout.names) + j] :
                n \in 0..layout.keys[j] - 1}
AllKeys == UNION {KeysOf(j) : j \in Projects}

(* A bound: requests come by the first key of a project. *)
UsedKeys == {k \in AllKeys : \A l \in KeysOf(k.project) : k.rank <= l.rank}

InvoiceInit ==
  /\ layout \in Layouts
  /\ log = [r \in Requests |-> [at |-> NONE, key |-> NONE, cost |-> NONE]]
  /\ clock = 0
  /\ answer = << >> /\ grouped = 0 /\ groups = << >>
  /\ current = 1 /\ listed = NONE
  /\ sheet = [page |-> 1, y |-> 342, lines |-> << >>]

(* A bound: nothing is logged or charged after the query, which is a       *)
(* snapshot, and there is one invoice.                                     *)
BeforeExport == answer = << >> /\ UNCHANGED <<grouped, groups, printVars>>

Tick == /\ BeforeExport
        /\ clock < End
        /\ clock' = clock + 1
        /\ UNCHANGED <<layout, log, answer>>

(* A request is logged, created_at is the time of that. *)
InsertLog(r) ==
  /\ BeforeExport
  /\ log[r].at = NONE
  /\ \E k \in UsedKeys :
       log' = [log EXCEPT ![r].at = clock, ![r].key = k]
  /\ UNCHANGED <<layout, clock, answer>>

(* It is charged later, by its background task. *)
Charge(r) ==
  /\ BeforeExport
  /\ log[r].at # NONE /\ log[r].cost = NONE
  /\ \E c \in Costs : log' = [log EXCEPT ![r].cost = c]
  /\ UNCHANGED <<layout, clock, answer>>

-----------------------------------------------------------------------------
(* The words of a period: a month, or two dates each with a second or none.*)
Months == {[month |-> m] : m \in 0..(Days \div MonthDays) - 1}
Texts == [day : 0..Days - 1, second : (0..DaySeconds - 1) \cup {NONE}]
Customs == [start : Texts, end : Texts]
Periods == Months \cup Customs

IsMonth(p) == "month" \in DOMAIN p
Instant(day, second) == 2 * (day * DaySeconds + second)

(* parse_start: a date alone begins at 00:00:00. *)
StartTime(t) == Instant(t.day, IF t.second = NONE THEN 0 ELSE t.second)

(* A faulty EndExclusive: the second that is named is left out. *)
EndAsNamed(t) == Instant(t.day, IF t.second = NONE THEN DaySeconds - 1 ELSE t.second)

(* parse_end_exclusive: the named second, or 23:59:59, is within. *)
EndExclusive(t) ==
  Instant(t.day, IF t.second = NONE THEN DaySeconds - 1 ELSE t.second) + 2

(* parse_report_time_range, without the refusal. *)
Window(p) ==
  IF IsMonth(p)
  THEN [start |-> Instant(p.month * MonthDays, 0), end |-> Instant((p.month + 1) * MonthDays, 0)]
  ELSE [start |-> StartTime(p.start), end |-> EndExclusive(p.end)]

Accepted(p) == Window(p).start < Window(p).end

-----------------------------------------------------------------------------
(* The query: a row for every key of the projects asked for, and one for a *)
(* project without keys; NULL costs add nothing; ordered by the names.     *)
InWindow(w) ==
  {r \in Requests : log[r].at # NONE /\ w.start <= log[r].at /\ log[r].at < w.end}

CostOf(r) == IF log[r].cost = NONE THEN 0 ELSE log[r].cost

Row(j, k, counted) == [project |-> j, key |-> k, count |-> Cardinality(counted),
                       cost |-> SumFunction([r \in counted |-> CostOf(r)])]

Rows(p, asked) ==
  UNION {IF KeysOf(j) = {} THEN {Row(j, NONE, {})}
         ELSE {Row(j, k, {r \in InWindow(Window(p)) : log[r].key = k}) : k \in KeysOf(j)} :
           j \in asked}

Before(a, b) ==
  \/ layout.names[a.project] < layout.names[b.project]
  \/ /\ layout.names[a.project] = layout.names[b.project]
     /\ IF a.key # NONE /\ b.key # NONE THEN a.key.rank < b.key.rank
        ELSE b.key = NONE /\ (a.key = NONE => a.project < b.project)

Ordered(rows) ==
  [n \in 1..Cardinality(rows) |->
     CHOOSE row \in rows : Cardinality({other \in rows : Before(other, row)}) = n - 1]

(* export_usage_report, up to the answer of the query. *)
Export(p, asked) ==
  /\ BeforeExport
  /\ Accepted(p)
  /\ answer' = Ordered(Rows(p, asked))
  /\ UNCHANGED logVars

-----------------------------------------------------------------------------
(* The rows are put together by project, one after the other.              *)
AddRow(group, row) ==
  [group EXCEPT !.count = @ + row.count, !.cost = @ + row.cost,
                !.keys = IF row.key = NONE THEN @ ELSE Append(@, row)]

(* A faulty Place: only the project before is looked at. *)
PlaceIfLast(sofar, row) ==
  {n \in DOMAIN sofar : n = Len(sofar) /\ sofar[n].project = row.project}

(* Where the project of a row is, if it is there. *)
Place(sofar, row) ==
  {n \in DOMAIN sofar : sofar[n].project = row.project}

Gather(sofar, row) ==
  IF Place(sofar, row) = {}
  THEN Append(sofar, AddRow([project |-> row.project, keys |-> << >>,
                             count |-> 0, cost |-> 0], row))
  ELSE [n \in DOMAIN sofar |->
          IF n \in Place(sofar, row) THEN AddRow(sofar[n], row) ELSE sofar[n]]

GroupRow ==
  /\ grouped < Len(answer)
  /\ groups' = Gather(groups, answer[grouped + 1])
  /\ grouped' = grouped + 1
  /\ UNCHANGED <<logVars, answer, printVars>>

(* The total is that of the rows, not of what is printed of them. *)
Total(rows) == [count |-> SumFunction([n \in DOMAIN rows |-> rows[n].count]),
                cost |-> SumFunction([n \in DOMAIN rows |-> rows[n].cost])]

HasUsage(group) == group.count # 0 \/ group.cost # 0

-----------------------------------------------------------------------------
(* generate_org_invoice_pdf.                                               *)
NewPage(s) == [s EXCEPT !.page = @ + 1, !.y = 463]

PutLine(s, what, of, drop, height) ==
  [page |-> s.page, y |-> s.y - height,
   lines |-> Append(s.lines, [page |-> s.page, y |-> s.y - drop,
                              what |-> what, of |-> of])]

Title(s, j) == PutLine(s, "title", [project |-> j], 0, 21)

GroupHeight(group) ==
  20 + 18 * (IF group.keys = << >> THEN 1 ELSE Len(group.keys)) + 24

(* A faulty StartsNewPage: only the room for a title is looked at. *)
NoRoomForTitle(s, group) == s.y < 110

(* A project that fits on one page is not begun where it does not. *)
StartsNewPage(s, group) ==
  \/ s.y < 110
  \/ GroupHeight(group) <= 380 /\ s.y - GroupHeight(group) < 76

Printing == /\ answer # << >> /\ grouped = Len(answer)
            /\ UNCHANGED <<logVars, answer, grouped, groups>>

Reached(n) == listed = NONE /\ current = n

SkipProject ==
  /\ Printing
  /\ \E n \in DOMAIN groups : Reached(n) /\ ~HasUsage(groups[n])
  /\ current' = current + 1
  /\ UNCHANGED <<listed, sheet>>

PrintTitle ==
  /\ Printing
  /\ \E n \in DOMAIN groups :
       /\ Reached(n) /\ HasUsage(groups[n])
       /\ sheet' = Title(IF StartsNewPage(sheet, groups[n]) THEN NewPage(sheet) ELSE sheet,
                         groups[n].project)
  /\ listed' = 0
  /\ UNCHANGED current

(* format_decimal: two decimals; how they are come by is the library's.    *)
InCents(cost) == (cost + Carry) \div Cent

Printed(figure) == [figure EXCEPT !.cost = InCents(@)]

(* A key that has no room goes to a new page, under its project's title.   *)
PrintKey ==
  /\ Printing
  /\ listed # NONE /\ listed < Len(groups[current].keys)
  /\ LET key == groups[current].keys[listed + 1]
         there == IF sheet.y < 100 THEN Title(NewPage(sheet), groups[current].project)
                  ELSE sheet
     IN sheet' = PutLine(there, "key", Printed(key), 0, 16)
  /\ listed' = listed + 1
  /\ UNCHANGED current

Subtotal(group) == [project |-> group.project, count |-> group.count, cost |-> group.cost]

PrintSubtotal ==
  /\ Printing
  /\ listed # NONE /\ listed = Len(groups[current].keys)
  /\ LET sum == Printed(Subtotal(groups[current]))
         there == IF groups[current].keys = << >>
                  THEN PutLine(sheet, "none", sum, 0, 18) ELSE sheet
     IN sheet' = PutLine(there, "subtotal", sum, 2, 22)
  /\ current' = current + 1
  /\ listed' = NONE

(* The total, on a page of its own when there is no room. *)
PrintTotal ==
  /\ Printing
  /\ Reached(Len(groups) + 1)
  /\ LET there == IF sheet.y < 90 THEN [NewPage(sheet) EXCEPT !.y = 490] ELSE sheet
     IN sheet' = PutLine(there, "total", Printed(Total(answer)), 12, 12)
  /\ current' = current + 1
  /\ UNCHANGED listed

InvoiceNext ==
  \/ Tick
  \/ \E r \in Requests : InsertLog(r) \/ Charge(r)
  \/ \E p \in Exports, asked \in SUBSET Projects \ {{}} : Export(p, asked)
  \/ GroupRow
  \/ SkipProject \/ PrintTitle \/ PrintKey \/ PrintSubtotal \/ PrintTotal

InvoiceSpec == InvoiceInit /\ [][InvoiceNext]_invoiceVars

-----------------------------------------------------------------------------
(* What the words of a period say: its first and its last second.          *)
FirstSecond(p) ==
  IF IsMonth(p) THEN p.month * MonthDays * DaySeconds
  ELSE p.start.day * DaySeconds + (IF p.start.second = NONE THEN 0 ELSE p.start.second)
LastSecond(p) ==
  IF IsMonth(p) THEN (p.month + 1) * MonthDays * DaySeconds - 1
  ELSE p.end.day * DaySeconds
         + (IF p.end.second = NONE THEN DaySeconds - 1 ELSE p.end.second)

(***************************************************************************)
(* BilledOnce: of the invoices for two consecutive periods, one from the   *)
(* second after the last of the other, a request is counted on one and on  *)
(* one only, whether it was logged on a second or between two.             *)
(***************************************************************************)
Consecutive ==
  {[one |-> Window(pair[1]), next |-> Window(pair[2]),
    seconds |-> FirstSecond(pair[1])..LastSecond(pair[2])] :
     pair \in {x \in Periods \X Periods : /\ Accepted(x[1]) /\ Accepted(x[2])
                                         /\ LastSecond(x[1]) + 1 = FirstSecond(x[2])}}

BilledOnce ==
  \A p \in Consecutive :
    /\ InWindow(p.one) \cap InWindow(p.next) = {}
    /\ InWindow(p.one) \cup InWindow(p.next) =
         {r \in Requests : log[r].at # NONE /\ log[r].at \div 2 \in p.seconds}

(***************************************************************************)
(* AddsUp: the figures of an invoice agree: every key printed is a row of  *)
(* the query's answer, a project's subtotal is there once, after all its   *)
(* keys, and is what their rows come to, and the total is what all rows    *)
(* come to, each to the cent, although projects may bear the same name and *)
(* their keys are then mixed up in the answer.  What is printed comes to   *)
(* the same number of requests, and of cents but for one a line: the cents *)
(* of the lines need not add up, as each figure is cut on its own.         *)
(***************************************************************************)
invoice == sheet.lines
Lines(what) == {n \in DOMAIN invoice : invoice[n].what = what}
Figure(n) == invoice[n].of

IsSumOf(figure, rows) ==
  /\ figure.count = SumFunction([n \in rows |-> answer[n].count])
  /\ figure.cost = InCents(SumFunction([n \in rows |-> answer[n].cost]))

(* The cents of some lines are those of a figure, or off by fewer than      *)
(* there are lines.                                                         *)
ComesTo(lines, figure) ==
  /\ SumFunction([n \in lines |-> Figure(n).count]) = figure.count
  /\ LET cents == SumFunction([n \in lines |-> Figure(n).cost])
     IN \/ cents = figure.cost
        \/ /\ cents < figure.cost + Cardinality(lines)
           /\ figure.cost < cents + Cardinality(lines)

AddsUp ==
  /\ \A n \in Lines("key") : \E a \in DOMAIN answer : Figure(n) = Printed(answer[a])
  /\ \A m \in Lines("subtotal") :
       LET project == Figure(m).project
           own == {n \in Lines("key") : Figure(n).project = project}
       IN /\ \A n \in Lines("subtotal") : Figure(n).project = project => m = n
          /\ {Figure(n).key : n \in own} = KeysOf(project)
          /\ Cardinality(own) = layout.keys[project]
          /\ IsSumOf(Figure(m), {a \in DOMAIN answer : answer[a].project = project})
          /\ ComesTo(own, Figure(m))
  /\ \A m \in Lines("total") : /\ IsSumOf(Figure(m), DOMAIN answer)
                               /\ ComesTo(Lines("subtotal"), Figure(m))

(***************************************************************************)
(* Readable: lines never meet one another or the footer, every key and     *)
(* every subtotal stands on a page that has the title of its project, and  *)
(* a project of up to 18 keys is not torn apart.                           *)
(***************************************************************************)
Footer == 36

Apart(above, below) ==
  \/ below.page = above.page + 1
  \/ below.page = above.page /\ below.y <= above.y - 16

Readable ==
  \A n \in DOMAIN invoice :
    LET line == invoice[n]
        titles == {m \in Lines("title") : Figure(m).project = line.of.project}
    IN /\ line.y >= Footer + 16
       /\ n > 1 => Apart(invoice[n - 1], line)
       /\ line.what # "total" =>
            /\ \E m \in titles : m <= n /\ invoice[m].page = line.page
            /\ layout.keys[line.of.project] <= 18 => Cardinality(titles) = 1
===============================================================================
