# LLMeter in TLA+

LLMeter is a gateway in front of LLM providers: it authenticates a request by API
key, checks the organisation's credit, forwards the request to the configured
upstreams one after the other, extracts the token usage from the answer, writes a
`request_logs` row and charges the organisation. This directory models the
program's own logic, checks it with TLC on small instances and proves most of the
results with TLAPS for every value of the constants.

Contents: [Inventory](#inventory) · [Hard behaviours](#hard-behaviours) ·
[Modules](#modules) · [Runs](#runs) · [Fairness](#fairness) · [Proofs](#proofs) ·
[Where code and text disagree](#where-code-and-text-disagree) ·
[Not modelled](#not-modelled) · [Plan](#plan) · [Running it](#running-it)

Paths below are relative to the repository (`proxy.rs` is `src/proxy.rs`).

## Inventory

| Part | State | Operations | Interacts with |
|---|---|---|---|
| Proxy handler (`proxy.rs`) | per request: key, organisation snapshot, configs, locked price version, answer | look-up, credit gate, compression, failover, answer, background task | database, upstreams, client |
| Charging (`proxy.rs`, `db.rs`) | `request_logs.credit_cost`, `organizations.credit`, `credit_logs` | standard and contract charge, body restore | proxy task, administrators |
| Recharge (`credit_handlers.rs`) | `organizations.credit`, `credit_logs` | recharge, listing | charging |
| Routing (`db.rs`, `proxy.rs`) | `model_configs` | ordered matching, fallback, kill switches | model administration, compression, prices |
| Streams (`proxy.rs`, `protocol.rs`) | line buffer, merged usage | chunk, end, interruption, recovery | upstream, client, background task |
| Usage and cost (`protocol.rs`, `proxy.rs`) | none | normalise, merge, price | charging |
| Pricing (`settings_handlers.rs`, `db.rs`) | `model_pricings`, `model_price_versions` | save (create, update), delete, look up the price in force | failover loop, migrations |
| Compression (`compress.rs`) | none | choose the strings of a body, rewrite their prose, keep or discard the result | proxy |
| Organisations, projects, keys (`org_handlers.rs`) | their tables and foreign keys | create, update, delete | everything that holds an id |
| Migrations (`db.rs`, `migrations/`) | `_migrations`, the schema and what its backfills write | look up, run, record | start-up, administrators of other processes |
| Invoices (`admin/billing.rs`) | none | parse the period, sum, print page by page | charging, log rows |
| Logs, statistics, mail, Open API | none | queries, SMTP | - |
| Authentication | JWT in the cookie | log in, check | admin API |

What makes each part correct:

* **Metering.** Every charge in the ledger belongs to a successful logged request and
  takes exactly the cost stored there; nobody is charged twice; a charge goes by the
  terms the request was admitted under; an uncharged request does not lose its body
  unless its task was cut short; the debt that a stale credit check allows is bounded.
* **Ledger.** Balance and entries move together and can be replayed; no update is lost
  when charges, recharges and the deletion of the organisation overlap; nothing waits
  for ever.
* **Routing.** The configs are tried best first, and all of them unless a streaming call
  is answered with an error or a body cannot be read; the client gets one answer; a
  config that forbids compression is sent a compressed body as a fallback only.
* **Streams.** The usage does not depend on how the network cuts the stream; it is
  billed as told; every stream gets its row.
* **Arithmetic.** A total covers its parts, no input token is billed twice, a longer
  prompt is never cheaper, whatever overflows on the way.
* **Tenancy.** What is logged stays, and keeps a key, a project and an organisation
  that belong together.
* **Pricing.** Versions are numbered without gaps and never changed; a logged request
  can be checked for good against the version it was charged by; no save makes a model
  unpriced.
* **Compression.** Code, quoted spans and every word that no rule names reach the
  upstream, in order; only what a person or the system wrote is touched.
* **Migrations.** However a start is interrupted, repeated or overlapped, what an
  organisation, a key or a rate was meant to be is kept, and a seeded price is added
  once.
* **Invoices.** Of consecutive invoices a request is on exactly one; the figures agree;
  a page can be read by itself.

## Hard behaviours

The program runs each request in its own task, keeps no state in memory between
requests and shares everything through PostgreSQL. What is hard follows from that:

* A handler reads key and organisation once and goes by that copy for the rest of the
  request, across upstream calls of any length. Administrators and other requests
  change the rows meanwhile (credit gate, billing mode, configs, keys, prices).
* The row and the charge of a request are written by a detached task after the answer
  was sent. The task's three database calls may each fail, the answer to an INSERT or a
  COMMIT that took place may be lost, and the process may end between any two of them;
  nothing resumes the work.
* A stream may be cut anywhere, dropped by the client, broken off by the upstream, or
  end without usage; asked again for the usage, an upstream may never answer.
* Charges take the locks in the order request row, organisation; the deletion of an
  organisation takes them the other way round.
* Upstreams report counts of any size and shape; the program stores them in 32 bits.
* A version number is MAX + 1, read in one statement and inserted in another, by
  administrators and by migrations at once.
* Migrations are committed statement by statement and recorded last; an error ends the
  file, not the start. Two processes may migrate at once, and one may serve
  administrators while another one migrates; a look-up that fails runs a file again.
* Prompt compression is a line scanner with one bit of state, in front of code that must
  not change.
* `request_logs.project_id` is no foreign key; whether a logged request's project still
  exists rests on other keys and cascades.
* An invoice's period is named in seconds, a request is logged in microseconds.

`PROJECT.json` lists these hazards line by line, with the properties that cover them.

## Modules

| Module | Models | Lines of the code |
|---|---|---|
| `Ledger` | what the credit accounting of one organisation promises (abstract) | - |
| `Metering` | the whole path of a request, its background task, administrators, crashes | `proxy.rs` 138-580, 735-1030; `db.rs` 340-413, 595-665 |
| `ChargeTx` | charge, recharge and deletion statement by statement, with row locks | `db.rs` 340-413, 595-665; `credit_handlers.rs` 39-93; `org_handlers.rs` 133-149 |
| `Routing` | configs, order, failover and its ends, compression decision | `proxy.rs` 90-107, 168-473, 709-722; `db.rs` 415-462; `model_handlers.rs` |
| `Stream` | chunks, lines, end of stream, interruption, recovery | `proxy.rs` 830-1110; `protocol.rs` 241-500 |
| `Calc` | token usage, its total, both charge formulas | `protocol.rs` 12-239, 483-500; `proxy.rs` 477-685 |
| `Tenancy` | organisations, projects, keys and logged requests with their foreign keys | `org_handlers.rs`, `db.rs` 145-192, migrations 001 and 006 |
| `PriceBook` | what the price book promises: an append-only numbered list (abstract) | migration 013 |
| `Pricing` | saves and deletions of prices statement by statement, the price in force, the lock of a request | `settings_handlers.rs` 255-429; `db.rs` 561-595; `proxy.rs` 283-304 |
| `Compress` | the walker of the three protocols, the line scanner, the guards | `compress.rs` |
| `Migrations` | start-up of several processes beside administrators | `db.rs` 73-138; migrations 006, 007, 010-014 |
| `Invoice` | periods, the query, its grouping row by row, its pages line by line | `admin/billing.rs` |
| `MC…` | the small instances TLC runs | - |
| `…Proofs` | the theorems of the module of that name | - |
| `TextProofs` | the theorems of `Stream`, `Compress` and `Invoice` | - |

How they fit: `Metering` takes a committed SQL transaction as one step and leaves
three things open, which are members of a set there: how the transaction works inside
(`ChargeTx`), what a stream tells (`Stream`, its `Answered`), and what a charge costs
(`Calc`, its `Costs`). `Routing` refines the loop over the configs, of which
`Metering` keeps only how many are left, and leaves two things open in its turn: which
version of a config's price is locked (`Pricing`, its `InForce`), and what a body becomes
that it decides to compress (`Compress`). `Metering` and `ChargeTx` both implement `Ledger`
(refinement mapping `LedgerSpec` in each), `Pricing` and `Migrations` both implement
`PriceBook` (`BookSpec`, `SeedsAppend`). `Tenancy` has the tables around them: a request
holds a copy of its key there until its row is inserted. `Invoice` reads what `Metering`
writes, rows that are inserted first and charged later.

### Metering

`org`, `ledger` and `log` are the `organizations` row, its `credit_logs` and its
`request_logs`; `pc[s]`/`job[s]` is a request in flight and what its handler, and later
its task, carries. `orphans` is a history variable: the rows whose settlement was cut
short, by a crash, by a failed restore, or because the INSERT committed and its answer was
lost: the task takes that for a failure and returns.

| Action | Code |
|---|---|
| `Lookup` | `find_api_key_by_hash`: key and organisation in one query, from here on a copy |
| `Refuse`, `Admit` | credit gate `credit + overdraft_limit <= 0` on the copy (402), matching configs |
| `NoPrice`, `FailOver`, `Accept` | one attempt with one config: skipped for want of a price, failed over, or answered |
| `Abandon`, `Interrupted` | the handler's future is dropped before the task exists; the stream is dropped |
| `Answered` | the usage is known, a stream of a model without usage is an error |
| `InsertRow`, `InsertFails` | the task inserts the row, with a 64 KiB prefix of a big body; or is told of an error, with the row written (`WrittenUnanswered`) or not |
| `Charge`, `NotCharged` | the charge commits, with the answer lost or not; or nothing is charged |
| `Restore`, `RestoreFails` | `if !billed`: the full body is written back |
| `Recharge`, `UpdateOrg`, `Crash` | administrators; the end of the process |

### ChargeTx

A call is where its last statement left it (`pc`); what it wrote is in `tx` until
`Commit`. Locks follow from `pc`, waiting is not being enabled, and any statement may
fail and roll back. `Commit` makes balance, entry and cost visible at once; that they
are whole is not assumed but a result, of `OrgInTx`, `EntryInTx` and `FromTheTx`
(statements that run on the transaction and not on the pool) and of the locks that keep
`tx.after` the right balance. `BreakDeadlock` is the database's deadlock detector.

### Routing

`table`, `priced` and `global` are what administrators edit; `req` is what the handler
carries, with its snapshot of the rows; `sent` and `skipped` are the history of one
request. A config's model pattern is a Boolean, equal priorities come in any order. A
call ends in `TryNext`, in `Answer`, or in `BreakOff`: the body of an answer that is not
streamed is read as a whole first, and when that fails the client gets a 502 at once,
with other configs untried. `Compress` decides by the `Override` of the first config,
once. `SkipUnpriced` and `StartAttempt` are the look-up of the price.

### Stream

The upstream's `body` is a sequence of lines, three bytes each, so that a cut can fall
inside a line's text and before its newline; `cut` says how many bytes are missing at
the end. A byte is its place in the line and the line it is of, so that a piece of the
body tells a usage only where it has the whole text of a line (`EndsLine`, `Extract`).
`Chunk(n)` passes n bytes on and reads the complete lines, `EndOfStream` reads the rest
and searches the whole body when nothing was told, `BreakOff` drops the sender. The task
is `Received`, `Retry` (at most four), `GiveUp`, `Finish`, or `Interrupted`. `Retry` sends
the recovery call and then the task is `asking`; `Told` is how the call ends, an upstream's
step that may never come.

### Calc

The steps are those of one request: `Answer` or some `Event`s bring usage, `Settle` or
`SettleMissing` stores a total and bills. `Wrap` is 32-bit arithmetic at a width
`MaxInt` chosen by the instance. `Bill` gives the number of tokens at each price; the
sum in Decimal or f64 and its rounding are left out (`Cost` is the exact sum).

### Tenancy

`rows` is the union of the four tables, each row with the ids it refers to; `used` keeps
ids from being used twice (UUIDs). `Delete` takes what `Cascades` says and is refused
for what `Restricts` says. `create_key` is two steps (`BeginKey`, `InsertKey`), and a
request is `LookUp` and later `InsertLog` or `Drop`.

### Pricing

`pricing` and `versions` are the two tables as committed. A save is `Begin` (the body is
validated and a missing `effective_at` becomes now), then `Upsert` for
`create_model_pricing` or `UpdateRow` for `update_model_pricing`, which lock the row of
`model_pricings`; `ReadNumber`, `InsertVersion`, `Commit`. The unique indexes are guards
that wait (`NameFree`) and refusals that end the save (`clash`). `Delete` withdraws. A
request is `Arrive`, then per config `Attempt` (the price in force is locked) and
`FailOver`, and in the end `Log` or `Refuse`. A version's prices are one value, the
name of the save that wrote it.

### Compress

One string of one request body, since the walker treats each by itself: `Skip` or
`Begin` is the walker's decision (`Targeted`) with the minimum length, then one step per
line (`FenceLine`, `CodeLine`, `ProseLine`), `Join` (the trimming and the collapse of
blank lines over the whole string), and `Keep` or `Replace`, the guards of
`try_compress`. A line is its indentation, the number of tildes that follow, and its
segments between backticks; a segment is a sequence of words, spaces, and phrases that
a rule removes (`filler`) or shortens (`verbose`). `Leaf` is the strings that the three
APIs have, `Shrunk` the collapse of blank lines. Which phrases the rules name is left
out. The scanner's `IsFence` is one test and `inFence` one bit. What it is measured by is a
reader of its own, `OpenFence`, with CommonMark's rules: a fence has a mark and a length,
an opening one is indented by less than four and has no backtick after backticks, a
closing one has the same mark, is as long or longer, and has nothing after it.

### Migrations

`proc[p]` says at which statement of which file a process is. `LookUp` decides on a file
by `_migrations`, `LookUpFails` runs it for want of an answer, a statement is an action
of its own, `StatementFails` and `MissesTable` end the file, `Record` closes it, `Crash`
may come anywhere. `INSERT … SELECT` is two steps (`Read` and then `MakeDefaults` or
`Seed`): what it inserts is what it read when it began. Seven of the sixteen files are
there, those whose effect depends on the data: the default projects (007), the default
rate and its backfills (010-012), the billing mode (013) and the seed of a price (014);
006 makes the tables of 007. Administrators act through any process that has come to
serve. `meant` and `given` are history variables: the mode and the rate somebody chose.

### Invoice

The clock counts half seconds, so that a request falls on a second or between two.
`Window` is `parse_report_time_range` (months, dates, date-times); `Export` takes the
answer of the query (`Rows`, `Ordered`) as a snapshot, after which nothing more is logged.
Then the two loops of the code run, an iteration a step. `GroupRow` puts a row with the
others of its project. `SkipProject`, `PrintTitle`, `PrintKey` and `PrintSubtotal` are the
body of `generate_org_invoice_pdf`'s loop over the projects, `PrintTotal` is its end;
`current` and `listed` are where the loops are, `sheet` is the page, the height `y` on it
in half millimetres, and the lines put so far. A figure goes on it as `Printed`, cut to
cents on its own (`InCents`): costs are kept in units of which a cent has `Cent`, 10 000
for credits of six decimals, and `Carry` is what formatting adds before it cuts, nothing or
half a cent. There is one invoice in a behaviour; the
property about periods speaks of every two consecutive ones in every state.

## Runs

| Run | States | Question | Result |
|---|---|---|---|
| `metering` | 2.5 M | Two requests, administrators and crashes: do rows, bodies, ledger and balance stay consistent, is the debt bounded, is the path an implementation of `Ledger`? | holds |
| `metering_fair` | 723 k | Is a row with a truncated body charged or given its full body back, with failover and fair tasks, unless it was cut short? | holds |
| `charge_tx` | 238 k | Two charges, two recharges and the deletion, statement by statement: whole, none lost, none waiting for ever, an implementation of `Ledger`? | holds |
| `routing` | 883 k | Best first, all tried, one answer, and how far does a config's kill switch hold, with an edit at any moment? | holds |
| `stream` | 214 k | Does the usage depend on the cuts, is it billed as told, does every stream get its row unless a recovery call is never answered? | holds |
| `calc` | 23 k | Totals cover, tokens are billed once, longer is never cheaper, with overflow and contradictory reports? | holds |
| `calc_gemini` | | Is a Gemini token charged once under a contract? | refuted: cached tokens twice (3 states) |
| `tenancy` | 22 k | Are logged requests and keys attributed consistently, and kept, whatever is deleted? | holds |
| `pricing` | 390 k | Two administrators save, and withdraw, while a request locks a price: are the versions an append-only numbered book, is a request reviewable, does no save unprice a model? | holds |
| `compress` | 249 k | Do code, spans and words survive in every short text, and is only what is in scope rewritten? | holds |
| `migrations` | 1.16 M | Two starts at once, a fault, two edits: are modes, rates, keys and versions what they were meant to be? | holds |
| `invoice` | 265 k | Is a request on one of two consecutive invoices, do figures agree to the cent, are pages readable? | holds |

Each run stays under three minutes with two workers. Deadlock is checked in the
`metering` and `routing` runs; the others switch it off because the calls, the stream,
the text, the faults or the ids come to an end. Symmetry is used for ids and slots in
safety runs only. `DebtBounded` is checked with administrators who add credit (`Adds`,
one limit), its precondition, `metering_fair` with some who take it and change the
limit. A type invariant is an invariant of the `stream` run only, and of every other
module with proofs a theorem.

Bounds, and why they suffice. Bounds are guards, but for one state constraint, in
`MCInvoice`.

* *Metering*: two slots are enough for every race of two requests; two rows and two
  entries let each be charged, or one be charged and the balance be raised in between.
  One config in the safety run, since `Routing` has the order of several; two in
  `metering_fair`. `Costs = {0, 1}`: zero is a case of its own in the code. With
  `MaxRows` used up requests still run but write no row; this is the failed insert.
* *ChargeTx*: every two of the kinds of calls overlap (two charges, two recharges,
  charge and recharge, either and the deletion); recharges of either sign.
* *Routing*: three configs allow for a first, a middle and a last one and for two of the
  same priority; one edit at any moment changes whatever the request has not read yet.
  Requests are independent of each other, so one at a time is enough.
* *Stream*: two lines allow for an event after an event, an event after a line that
  cannot be parsed, and every cut of the last one; one token value, since merging
  treats values alike (a count is there or not).
* *Calc*: 4-bit integers instead of 32-bit ones, so that counts and sums wrap around
  within a small set: 9 is stored as a negative number and 6 + 6 overflows.
* *Tenancy*: two of everything that can be confused, and a project more than the default
  ones of both organisations.
* *Pricing*: two saves meet on one pricing, or on one name from two pricings (a seeded
  one and a new or a renamed one), for the empty provider or a named one; times 0 to 2
  give a version that is in force, one that takes effect while a request is under way,
  and one that does not yet.
* *Compress*: four lines of eight kinds (blank, two kinds of fence, prose that vanishes,
  three backticks that a vanishing phrase precedes, prose that shrinks and trails spaces,
  indented code, a span in prose) are enough to open, close and nest fences with
  something inside and after them; three lines of these and of five further kinds (four
  backticks, three with a word, a span of three, three behind four spaces, four tildes
  with a word) mislead the scanner by the length, the text and the indentation of a mark;
  twelve blank lines, which shrink although nothing is left; every place of a body with
  one text. `MinFieldChars` is 8 instead of 80, so that a text of one line can be on
  either side of it.
* *Migrations*: two processes; one failed statement or crash at any point, which is one
  re-run of a file beside the other process; two edits, so that one can undo or
  follow another; one old organisation and key, one new of each; three projects, so that
  two defaults can exist beside another one; two versions: the seed and one other.
* *Invoice*: days of two seconds with an instant between any two; two requests that cost
  0.4 of a cent each, so that one alone prints 0 and two print 1, and half a cent is
  carried (`Cent = 10`, `Carry = 5`); key counts 0, 1, 2, 11, 18 and 19, because eighteen keys are what a page takes and eleven
  leave a second project without room; two projects with one name, in either order of
  their keys. Requests come by the first key of a project (`UsedKeys`), and pages are
  printed for one period (`Exports`): neither changes the layout. `ExportsAtTheEnd`
  follows an export further only if it came at the end of the days: the clock can go on
  from any log without changing it, so the same answer is found there.

## Fairness

* `Metering!FairSpec`: weak fairness of the background task. It is spawned on the runtime
  and polled until it ends; its calls are to the database and return or fail. Nothing is
  assumed of clients, upstreams or administrators. A crash, a failed restore and an INSERT
  whose answer is lost are always possible, which is why `RowSettles` excepts `orphans`.
* `Stream!FairSpec`: weak fairness of the steps that are the task's own. How a recovery
  call ends (`Told`) is none of them: the client has a connect timeout only (`main.rs`
  31-38), so nothing is assumed of the upstream there either, and `StreamLogged` excepts a
  call that stays unanswered for ever.
* `ChargeTx!FairSpec`: weak fairness of the statements of a call that has begun and of
  the database's deadlock detector (`deadlock_timeout`). Nobody has to begin a call and
  no statement has to fail.

The other runs need none.

## Proofs

All theorems hold for all values of the constants that satisfy the module's `ASSUME`:
any number of requests, configs, administrators, processes, organisations and keys.

| Theorem | States |
|---|---|
| `MeteringTypeCorrect` | `TypeOK` |
| `MeteringTermsKept` | the mode charged is the mode logged; a standard charge has its price |
| `MeteringPrefixAccounted` | a truncated uncharged body is being settled, or was cut short (crash, failed restore, lost answer to the INSERT) |
| `MeteringLedgerMatchesRows` | ledger and request log agree |
| `MeteringDebtBounded` | debt beyond the limit < `MaxCost` × number of slots |
| `MeteringImplementsLedger` | `Metering` implements `Ledger` |
| `ChargeTxTypeCorrect`, `ChargeTxWhole`, `ChargeTxRowsHaveOrg` | commits are whole; a logged request has its organisation |
| `ChargeTxImplementsLedger` | the transactions, statement by statement, implement `Ledger` |
| `ChargeTxChain`, `ChargeTxOncePerRef` | hence their entries replay to the balance, and none refers to a request twice |
| `CalcTypeCorrect`, `CalcTotalCovers`, `CalcBilledOnce` | no negative total or token number; the total covers its parts; no token is billed twice |
| `CalcLongerNeverCheaper` | one input token more never costs less, unless the long tier is the cheaper one |
| `TenancyTypeCorrect`, `TenancyKeysOwned`, `TenancyLogsAttributed`, `TenancyHistoryKept` | the tables refer to each other as they should, and logged requests stay |
| `RoutingTypeCorrect`, `RoutingBestFirst`, `RoutingAllTried`, `RoutingOneAnswer`, `RoutingKillSwitch` | all of Routing's properties |
| `PricingTypeCorrect`, `PricingSavesNumbered`, `PricingReviewable` | no save is refused for its number; a logged request stays reviewable |
| `PricingSaveKeepsPriced` | no save takes the price in force from a model (an action property) |
| `PricingImplementsBook` | overlapping saves implement `PriceBook` |
| `MigrationsTypeCorrect`, `MigrationsModesKept`, `MigrationsSeededOnce`, `MigrationsRatesKept`, `MigrationsKeysStay` | what was meant stays, through any number of starts and faults |
| `MigrationsImplementsBook` | seeds and saves together implement `PriceBook` |
| `StreamTypeCorrect`, `StreamChunkingIrrelevant`, `StreamBilledAsTold` | the usage of an answer of any length does not depend on the cuts; what is billed was told |
| `CompressCodeKept`, `CompressTextKept`, `CompressOnlyPrompt` | the reader's code (up to what misleads the scanner), words and spans of a text of any length are kept; what changes was in scope and paid off |
| `InvoiceBilledOnce` | a request is on one of two consecutive invoices, for any calendar |
| `InvoiceTypeCorrect`, `InvoiceAddsUp`, `InvoiceReadable` | the figures of an invoice agree to the cent and its pages are readable, whatever the projects, their names, keys and requests |

The arguments:

* **Metering, type and terms.** `TypeInv` adds to `TypeOK` that a task between insert and
  restore owns a row (`TaskRow`), that no two tasks own the same one (`DistinctRows`),
  and what its job agrees on with the row and the phase (`JobInv`). Without
  `DistinctRows` a charge by one task could change the cost of another's row.
* **Metering, ledger.** `LedgerInv`: an entry with a reference is a charge of a row of
  the log with that cost; no two entries have the same reference; a row with a nonzero
  cost has an entry. `LedgerMatchesRows` counts entries, and the count is one because
  the reference determines the entry. A charge keeps it because its row had no cost, so
  no entry refers to it: that is the code's `credit_cost IS NULL` test under the lock.
* **Metering, debt.** The gate's answer is a copy, so `DebtBounded` needs a potential. A
  slot is `Exposed` from the moment it was found funded until its charge is over, and
  `Closed` otherwise; `DebtInv` says that credit plus limit stays above minus `MaxCost`
  times the number of *closed* slots. A request becomes exposed only at a positive
  margin, where the bound cannot fail however few slots are closed; a charge lowers the
  margin by at most `MaxCost` and closes its slot, so the bound gives way by as much.
  At most all slots are closed. The lemmas compare the cardinalities of sets that
  differ by one slot, so no induction over sets is needed.
* **ChargeTx.** What a transaction read of the balance must still be right when it
  commits. `OneHolder`: the row lock of the organisation is held by one transaction at a
  time; `TxRight`: from the debit on `tx.after` is the committed balance plus the
  amount, and the entries in the transaction are those its amount calls for. `RowRight`
  and `ChargedOnce` tie a row's cost to its one entry. Then a commit appends the entry
  that `Ledger` asks for, and every other statement maps to a stutter.
  What `Ledger` promises of itself (`Chain`, which `Post` keeps, and `OncePerRef`, which
  the guard of `Consume` keeps) carries over to the tables by the refinement.
* **Calc.** `CalcInv` says that total and charge are the functions of the stored usage
  that the code computes. What remains is arithmetic: wrapped sums are in the range of
  the type, caps leave room, and nonnegative remainders add up. `LongerNeverCheaper`
  compares the bills of two prompts that differ by a token: each number of tokens stays
  or grows, the tier stays or becomes the long one, and a product of natural numbers
  grows with both factors. The products are lemmas, since the solver knows nothing of
  multiplication.
* **Tenancy.** `LogsAttributed` is not inductive. The invariant adds that projects have
  their organisation, that keys are owned, that what `create_key` read is still true of
  the project *if it is still there* (`CreatingInv`), and that a request's copy of its
  key is the key's row *if it is still there* (`RequestInv`). The foreign keys supply
  the "if" at the insert, and unused ids the rest. A deletion closes under cascades in
  two rounds (`GoneClosed`), so a remaining key keeps its project; and a logged request
  keeps its key, because the deletion would have been refused.
* **Routing.** Edits do not matter once the list is taken: it is a snapshot in order
  (`ListRight`). Every config before the present attempt had its turn (`Passed`), and no
  call so far gave an answer (`FailedSoFar`). Both are kept by each step of the loop and
  give the properties at its end. For the kill switch a body that is compressed had no
  override against it at the first config (`OverrideRight`), and that config had its turn
  before any other one is called.
* **Pricing.** A number must still be the next one when it is inserted (`StillNext`).
  Two saves hold no common row and no common name (`Apart`), so nobody else commits a
  version of the same pricing in between; the row that an upsert locked is the only one
  that may come to bear its name (`NameKept`), so names stay unique (`NamesOnce`) and a
  request finds one price.
* **Migrations.** Whose mode is missing is from before the upgrade (`OldModes`), and no
  process is past the check of 013, nor is 013 recorded, while one is missing
  (`Required`), since an organisation is created with its mode. Numbers of versions are
  taken from 1 up to their count (`Counted`), so a number that was read earlier is either
  taken or still the next one with the seed still missing (`Fresh`): the unique index
  refuses the one and the other is the next version of `PriceBook`.
* **Pricing, no model unpriced.** Versions are only added (the refinement) and time goes
  on, so a pricing that had a version in force has one in force after the step: of a set
  of versions with bounded times and numbers there is a latest one (`LatestExists`,
  `Bounded`). A pricing that is neither renamed nor withdrawn is still found.
* **Stream.** The invariant `StreamInv` cuts the body in three: what was read as
  complete lines, `lineBuf`, and what has yet to come; the first is the whole lines of
  what has come (`Whole`), and `usage` is what it tells (`Framed`). A chunk moves whole
  lines from the second part to the first. That this does not change what is read is a
  fact about `Extract`: a piece is read apart from what is before it, *because* its
  first byte begins a line (the lemma fails for a cut within a line, and so does the
  property under the mutant `AllOfIt`). Merging is associative.
* **Compress.** `CompressInv` compares the scanner's one bit with the fence a reader sees
  (`OpenFence`): they agree after every line until the scanner is `Misled`, that is, has
  taken a line for a fence by which the reader's fence did not change. What is a mark for
  the reader is a fence for the scanner, so it errs in that direction only. Until then a
  line the scanner takes for prose is none of the reader's code, and what it pushes is the
  line itself or one that is `Alike` (the same words and spans). Trimming and the rules keep words, by
  induction over a segment. The collapse at the end takes out blank lines only, and not
  the last one (`ShrunkKeeps`), so what is kept of the text is kept of the result and its
  code lies `Within` it. `OnlyPrompt` needs in addition that a string is scanned only if
  its speaker is in scope, for every place that the APIs define (`Leaf`), and the
  division in the savings test. Its last conjunct says "blank only if it was before":
  a text of blank lines alone does get shorter, which the proof attempt showed.
* **Invoice.** The window of a period begins at its first second and ends with its last
  one (`WindowOfSeconds`), in whole seconds, so the windows of two consecutive periods
  meet, and an instant between two seconds falls on the side of the earlier one.
* **Invoice, cents.** A printed sum and the sum of what is printed differ. `CentsOfTwo`:
  the cents of two figures and those of their sum are at most one apart, whatever is
  carried before the cut. `CentsOfSum` adds the figures one by one, so that the cents of
  n figures are `Close` to those of their sum, equal or less than n apart.
* **Invoice, the figures.** `InvoiceInvariant` follows the invoice through its stages.
  `AnswerOK`: the answer has a row of every key of a project it has a row of, once. The
  names do not order projects strictly, but rows they do (`BeforeOrders`), and in a
  finite strict order no two elements have as many predecessors (`Ranks`), so `Ordered`
  loses no row and repeats none. `GroupsOK`: a group has the rows of its project that are
  put together, each once, and their sums, *wherever they stand in the answer*; this
  fails under the mutant `PlaceIfLast`. `PrintedOK`: the lines of a kind bear exactly the
  figures that are done, as they are printed (`KeysDone`, `SubtotalsDone`, `TotalsDone`),
  each on one line (`Bears`). Whoever has usage has a key (`UsageHasKeys`), so no group that is printed is
  without keys, and whoever is skipped adds nothing to the total. Sums are those of the
  community modules, which are defined along a CHOOSE: `SumTaken` shows that any element
  may be taken first, and `SumAlong` that figures may be summed line by line, key by key
  or row by row.
* **Invoice, the pages.** `PagesOK` is `Readable` without the titles, which are
  `TitlesOK`. What keeps them is the room that is left: `Below` (the next line is 16 half
  millimetres below the last), and in `RoomOK` that a subtotal never begins below 84,
  since a key needs 100 and takes 16, and so what follows it never below 62; that after
  the title of a small group the rest of its keys still have room, as the estimate of
  `StartsNewPage` was made for 18 a key and a key takes 16; and that the project's title
  is on the page. A group of up to 18 keys
  has an estimated height of at most 380 (`FewKeysFit`), so it never needs a second title.

What a recursive function computes *for every* text needs an induction over sequences,
and the library's induction theorems cannot be used for it. `TextProofs` begins with a
substitute: a set of sequences that holds the empty one and every extension of its
members by one element is all sequences (`SeqInduction`, from the well-foundedness of
`<` on `Nat`, by a least counterexample), and a function given by a step along the
sequence exists (`AlongSequence`). The property to prove is then a set, not an operator,
and a lemma is cited with that set in its place. For this the models define `Extract`,
`Rewritten`, `Within` and the like as recursive functions of the sequence.

Every safety property of every run is a theorem. Only model-checked: `RowSettles`,
`CallsEnd` and `StreamLogged` (liveness and ENABLED are out of the prover's reach).

## Where code and text disagree

One run refutes a statement of a document; `PROJECT.json` ("findings") quotes it.

* `calc_gemini`: Gemini's prompt count includes its cached tokens, a contract charges
  them on top.

Seen while reading, without a run. Where a text says otherwise:

* A row that is not charged keeps a 64 KiB prefix of its body when the process ends
  between insert and restore (`proxy.rs` 756), when the restore fails, and when the INSERT
  is committed but its answer lost; the comment at `proxy.rs` 44 says the full
  one is kept. `PrefixAccounted` and `RowSettles` say what does hold.
* "0 = no overdraft" (migration 003): two requests pass the credit gate on one credit.
  `DebtBounded` is the bound that does hold.
* The ledger is listed by `created_at` (`open_api.rs` 206), which is when the transaction
  began, and `balance_after` follows the order of commits: overlapping movements are
  listed the wrong way round. `LedgerSpec` says the balances are right.
* The configs are tried by ascending priority (`db.rs` 442); the comment above the query
  (`db.rs` 430) says by descending priority, and the administrators' list
  (`model_handlers.rs` 48) is sorted so. `BestFirst` goes by the query.
* Whether a body is compressed is decided by the first config of the list
  (`proxy.rs` 251); a later one that has compression off gets the compressed body
  on failover, where requests through such a config are to be forwarded uncompressed
  (`openspec/specs/prompt-compression/spec.md` 121-123). `KillSwitchUntilFailover` says how
  far the switch does hold.
* A standard price is locked at each attempt, not when the request begins
  (`proxy.rs` 295, `db.rs` 561).
* Code is said to be forwarded byte by byte (`spec.md` 65-69, 76-80). The scanner takes
  every line that begins with three of a mark, at any indentation, for a fence, and any
  fence for the end of any other. So after a line of three backticks inside a fence of
  four or of tildes, a line with a language inside an open fence, a line that begins with
  a span in three backticks, or a mark indented by four and more, code is rewritten as
  prose and prose taken for code. Runs of blank lines collapse in code too, and a span in
  double backticks is cut at each backtick by itself, so its inside is rewritten.
  `CodeKept` keeps to fenced blocks before such a line, and to lines that are not blank,
  and `TextKept` to spans between single backticks.
* 011, run again after 012, fills in a rate that an administrator has set to NULL since
  (`RatesKept` speaks of rates that are set).
* 014 and 016, run again, switch prices on that were withdrawn.

Where no text does:

* When the body of an answer that is not streamed breaks off, the client gets a 502 at
  once, be its status a success and other configs untried, and no row is written
  (`proxy.rs` 719-722). `AllTried` excepts it.
* Each figure of an invoice is cut to cents on its own (`billing.rs` 471-481): three keys
  of 0.004 print 0.00 each and a subtotal of 0.01. `AddsUp` says how far apart they can be.
* A call to an upstream, also the one that recovers a usage, may last for ever: there is a
  connect timeout only, and a stream's row waits for the recovery.
* The key look-up does not test a project's `is_active` (`db.rs` 159).
* A key's prefix `gc-<slug>-` must fit `VARCHAR(20)`, a slug may have 50 characters
  (`org_handlers.rs` 317): the insert of the key fails for a long slug.
* In the sub-query for `total_consumed` of `update_org` and `recharge_credit` the
  unqualified `id` of `org_id = id` is `credit_logs.id`: the sum returned is always 0.
* A client that disconnects after the last event but before the end of the stream is
  logged as interrupted and not charged, although its usage was read.
* Merging two usages recomputes the total from prompt and completion when both are
  there: a total that a stream's event reported is dropped.
* Renaming a pricing takes its versions along: they then price the new model. Creating a
  deleted price again, for a later date, puts its old version in force until then. The
  highest version is what the list shows, which need not be the one in force.
* 014 takes its version number without the lock on the price's row that saves take.
  `SavesNumbered` speaks of saves; a seed beside a save is in `Migrations` (`SeedsAppend`).
* `update_model_credit_rate` can rename the `default` row, which may then be deleted.
* Two starts at once may make two `Default` projects of one organisation (007 has an
  ON CONFLICT with nothing to conflict with); if the default project is renamed between
  the two statements of 007, keys without a project stay so and 007 is recorded.
* A key without a project is on no invoice (`Tenancy` and `Migrations` keep such keys
  from being made after 007), and a charge that commits after the export is on none
  either, since its period is over.

## Not modelled

* **Decimal and f64 rounding**: credits are integers. Three `NUMERIC(30,6)` columns are
  rounded one by one and need not add up; no model says how far.
* **Authentication**: signing and hashing by libraries, no behaviour over time.
* **Queries, statistics, the Open API, static files**: read-only, one statement each.
* **Of invoices**: fonts, thousands separators, truncated labels, bill numbers, the mail.
  How the decimal library cuts a figure to two places is the model's `Carry`: nothing or
  some part of a cent is added before the cut. Rounding halves to the even cent is not of
  that form.
* **Of migrations**: 001-005, 008 and 009 only make what is missing, 015 switches prices
  off, 016 is another 014; of 007 and 011 a further statement each that treats a second
  column like the first. A file's CREATE and ADD COLUMN are one statement, and the seed
  of a price is one price's.
* **Of compression**: which phrases the rules name. They are applied one after another
  and a replacement could in principle complete another rule's phrase.
* **Start-up**: `ensure_admin_user` is one INSERT that a unique name guards;
  configuration and the port only stop the process.
* **The upstream client's timeouts**: there is a connect timeout only, so a call may take
  for ever; the models let it, and assume nothing of upstreams.
* **Pool exhaustion**: a failed query is taken for its empty answer; `Routing` and
  `Pricing` let each look-up come back empty, `Migrations` has it fail.

## Plan

Done: all modules of the table, their instances, and proofs of all safety properties.

What is left, and what it would take:

1. The rounding of contract costs: integers at a scale of a millionth, three roundings,
   and the distance between the rounded sum and the sum of the rounded parts.
2. `Metering`'s `Answered`, `Costs` and `Accept` are sets of outcomes that `Stream`,
   `Calc` and `Routing` determine; a joint module would have their states multiply, and
   is worth it only if one of the three comes to share state with another.

## Running it

    tlc -workers 2 -config Metering.cfg MCMetering.tla
    tlapm MeteringProofs.tla

A run of the table is `tlc -config <cfg> <module>`. The mutants in `PROJECT.json` name, for
every property, a definition of the model and the slip of the code that the property
catches: replace the definition's body by the named operator and run again.
