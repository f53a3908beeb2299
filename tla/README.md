# Autochess-buddy: specifications, model checks and proofs

This directory holds TLA+ specifications of the program in `src/`: a single-user web application
that records auto chess matches in sqlite and answers dashboard queries through DuckDB. It is
one process. The http server runs every request in its own goroutine; the requests share one
sqlite database file, one write mutex and one DuckDB connection.

## 1. Inventory

| component | state | operations | what makes it correct |
|---|---|---|---|
| domain rules (`internal/domain`) | none | `NextSlotIndex`, `FirstFreePlacement`, `ValidateFinalize`, `ValidateHero`, the caps | least free index and placement; eight placements exactly; one or two races and classes |
| match store (`internal/store/sqlite/matchwrite.go`, `slotwrite.go`, schema) | `matches`, `lineups`, `lineup_slots`, `slot_items`, `lineup_relics` | create shell, add / copy / update / delete lineup, finalize, add / star / delete slot, add / remove item, add / remove relic | finalized matches are frozen; one lineup per placement, one slot per cell; no orphan rows; edits touch one board |
| match reads (`match.go`) | none | `GetMatch` (five SELECTs, no transaction), `ListMatches` | a finalized match is never shown half read |
| entry service, editor handlers (`internal/service`, `httpapi/{slots,lineups,matches}.go`) | per request: the loaded view | load, validate, write, reload, redraw | caps of 12 heroes and 6 items; writes stay in the match the form names |
| editor page (`internal/ui/editor.templ`) | the regions on the screen | forms, swaps of the fragments of an answer | the page shows what a reload would draw |
| codex store (`codex*.go` of the store) | heroes, items, recipes, relics, patches, pros, races and classes with tiers | create, update, delete | unique names; complete lineages; nothing inherited by a reused id |
| codex handlers (`httpapi/codex*.go`) | per request: the loaded row | forms, tier edits, hero lookup, hero list | an edit does what was asked of it |
| write lock (`open.go` `WithTx`, `analytics/engine.go` `batch`) | `WriteMu`, sqlite's file lock | serialise write transactions and analytics batches | no write inside a batch; nobody waits for ever |
| analytics catalogue (`internal/analytics`) | none | seven queries | finalized lineups only; rates, fields and lifts by their definitions |
| dashboard (`httpapi/dashboard.go`) | per request: the page so far | several reads per page | numbers of one page that can be compared; the patch that was named |
| lifecycle (`cmd/autochess`) | down / serving / draining / closing | bind, open, serve, signal, drain, close | http drains before the databases close |
| seed (`internal/seed`) | none | `Load` | never mixes with real history |
| http routing and middleware, layout pages, badge, screenshot, e2e | none | rendering, tooling | no state: not modelled |

How they meet: handlers call the store directly for codex pages and single-row edits, and the
entry service for match entry; the service calls the store. Every write of a match table runs in
`WithTx`, which holds `WriteMu`; analytics batches hold the same mutex; codex deletes and a few
creates use the connection pool directly. Reads hold nothing. The browser sends one request per
form and puts the fragments of the answer in the place of the regions they name.

What is hard: views that are stale when the write comes (two browser tabs, old forms), reads of
several tables while others write, row ids that sqlite reuses, constraints that are enforced in
three places (handler, Go code of the transaction, schema), cascades, the finalize rule against
concurrent lineup edits, the mutex against the file lock, answers that arrive out of order, joins
that count a row twice. `PROJECT.json` lists these hazards at their lines with the properties that
cover them.

## 2. Modules

| module | models | built on |
|---|---|---|
| `Domain` | `util.go`, `validate.go` | |
| `MatchStore` | the five match tables, the ids of the codex rows they name, every write operation: one action per committed transaction | `Domain` |
| `MatchBook` | what the store promises: a book of games without rows or ids | `Domain` |
| `Editor` | the request handlers over `GetMatch` and the store, step by step | `MatchStore` |
| `EditorPage` | one browser tab on the editor of a match: forms, answers, swaps | `Editor` |
| `Analytics` | the seven catalogue queries and the rows `service.go` makes of them | `MatchStore` |
| `Dashboard` | the dashboard pages and the match list, each put together from several reads | `Analytics` |
| `Codex` | the codex tables with names, tier ladders, lineages and recipes: one action per transaction | |
| `CodexDesk` | the codex handlers, the hero lookup of a slot, the list of heroes | `Codex` |
| `WriteLock` | `WithTx`, `batch`, the writes outside `WriteMu`, `seed.Load`, boot and crash, over sqlite's file lock and journal | |
| `Transactions` | what a transaction promises: all of it, on what it read, or nothing | |
| `Lifecycle` | `serve`: bind, open, attach, serve, drain, the stack of deferred closes, exit | `WriteLock` |
| `MCMatchStore`, `MCEditor`, `MCEditorPage`, `MCDashboard`, `MCCodex`, `MCWriteLock`, `MCLifecycle` | constants, symmetry and constraints of the TLC instances | |
| `MatchStoreProofs` | theorems of `Domain` and `MatchStore` | |
| `MatchBookProofs` | the refinement of `MatchBook` by `MatchStore` | `MatchStoreProofs` |
| `EditorProofs`, `EditorPageProofs` | theorems of `Editor` and of `EditorPage` | `MatchBookProofs` |
| `DashboardProofs` | theorems of `Analytics` and `Dashboard` | `MatchBookProofs` |
| `CodexProofs`, `WriteLockProofs`, `LifecycleProofs` | theorems of `CodexDesk` with `Codex`, of `WriteLock`, of `Lifecycle` | |

Some definitions carry a second one before them, marked as a faulty variant: the same operation
with a bug one could have written. Nothing uses them; a property is worth its run when TLC finds
it violated once the variant takes the place of the definition.

### Domain

The Go functions build the set of used indexes or placements and scan for the least free one; the
operators take that set. `ValidateFinalize` takes the placements of a match's lineups by lineup.
The four caps are constants (8, 3, 12 and 6 in the code).

### MatchStore

A table is a function from row ids to rows. An action is a committed transaction: its conjuncts
are, in order, the writable guard (`matchWritable`, `lineupWritable`, `slotWritable`), the checks
of the Go code, and the constraints the schema would reject by. A rejected transaction changes
nothing and is no action. `slot_items` has no key, so it is a count per slot and item;
`lineup_relics` has one, so it is a set. A new row takes the highest id plus one (`IsHighest`),
which is what sqlite does for an `INTEGER PRIMARY KEY` without `AUTOINCREMENT`: the ids of deleted
last rows come back. Free text, dates and notes of a match are left out; the result fields of a
lineup are one value. Of the codex, only which rows exist matters here.

`AddSlot` has no guard for the unique index on `(lineup_id, slot_index)`: that the index it
computes is free is what `CellsUnique` claims. `CopyLineup` has none for `(match_id, placement)`
either, which is `PlacementsUnique`.

The bounds `MaxMatches`, `MaxLineups`, `MaxSlots` and `MaxRows` limit the ids, `MaxStack` the
copies of an item on a slot, `MaxTime` the values of the clock.

### MatchBook and the refinement

A book maps a game to its patch, source, finalize stamp and boards by placement; a board holds its
cells by index. There are no rows: moving a lineup to another placement moves a value, a copy is
an equal board without the credit and the result. `ImplementsBook` maps the tables to the book
(`BookOfStore`). It is the strongest statement about the store: whatever ids were reused and
whatever cascaded, each operation had the effect on the one board it names and on no other.

### Editor

A worker is a request in flight: `pc` is the place in its handler, `req` the form, `view` the rows
`GetMatch` has read so far. The five SELECTs are five steps; then the handler validates against
its view and calls one store operation. The ids in a form are arbitrary, since a page may be old.
A handler may stop without writing at any step (`GiveUp`): a failed validation, a missing row, a
rejected transaction and a cancelled request all look alike to the store.

### EditorPage

`dom` maps each region of the page (title, pips, the cards with the add form, and per lineup the
head of its card, its relics and its grid) to what it shows. `Offered` is the set of requests that
the forms on the page can send; `Written` and `Refused` are the swap table, the fragments a handler
answers with after its write or after a check that failed; `Swap` is what htmx does with them: a
fragment replaces the element of its id, and is dropped when there is none. `Lose` loses a request
or its answer. `GetMatch` is one step here, since `Editor` has taken it apart.

`contested` and `disturbed` are history variables: two requests that were in flight together and
could touch one region disturb it, and so does a lost answer, until a later answer that had no
rival draws it again (`Drawn`: fragments without an element on the page do not count). hx-sync,
which stops a second request of one form element, is left out: that gives the page more
behaviours, never fewer. `MaxSent` bounds the requests of a tab.

### Analytics

A query is one statement, so it is an operator on one state of the tables; that a batch reads one
state is `ReadsCommitted` of `WriteLock`. An average is a pair of a sum and a count, a lift the
fraction of two of them, so that the arithmetic is exact. `HeldRows` and `BaselineRows` keep the
row multiplicities of the joins of `items.sql`, which a set of slots would hide. `SamplesAddUp`
relates the columns that the queries count on their own: the eight bars to the sample, a hero's
first four bars to its top 4 and its bars, weighed by their places, to its average. Each definition
named by the documents (`DefinedItemLift`, the lineups without a relic, the share of lineups) is
stated next to the query it is compared with.

### Dashboard

A reader is a request for one page: look up the patch of the URL, count the lineups, query the
rows, then the networth table, then the patch list of the filter. Between any two steps matches are
edited and finalized and patches are created, renamed and deleted. Failed counts and lists are
logged and shown as zero and as empty, which the steps allow; other failures end the page.

The two kinds of page pick the option of their patch select differently, and `FilterRow` keeps them
apart. The dashboard compares versions with the one of the URL (`VersionSelect`): a version that is
not listed shows as an unknown patch. The match list compares ids with the one that was looked up
(`IdSelect`, `matches.templ:22`): it shows an unknown patch only when the lookup found none, whatever
the list has by then; otherwise the version that the id has by then, or "all" when the id is gone. An hx-get of the
dashboard answers with the panel and the count only (`dashboard.go:26`), so its select stays as it is.
`PatchAsNamed` therefore rests, for the match list, on what becomes of the id between the lookup
and the listing.

### Codex and CodexDesk

A row is its id and its name. `ladder`, `lineage` and `recipe` are the child tables; `history` is
the set of codex rows that match tables point at, so that the foreign keys that refuse a delete are
there without the match tables. Cost, rank, texts and dates are left out. A new row takes the
highest id plus one again.

Most codex handlers read only to answer early, and their transaction repeats the check: they are
one step (`FormStep`). Those of `Workers` are several: `synergyUpdate` reads a row and its ladder,
changes one tier in memory and writes all of it back; a create or a rename looks whether the name
is free; `addSlot` looks a hero up by name and writes its id later; `ListHeroes` reads the ids and
then each hero in three SELECTs. `overtaken` is a history variable: another request changed what
this one works on since it came in.

### WriteLock

A job is whatever opens a transaction on the database file. `tx` is an operation run by `WithTx`:
`Lock`, a deferred transaction, reads and writes in any order, commit or rollback, the deferred
`Unlock`. `direct` is a write that the code sends to the pool without `WithTx`: `DeleteHero` and
every write of relics, patches and pros. `read` is a SELECT of the pool; `batch` a catalogue query,
which waits for `WriteMu` and then for the one connection of the DuckDB pool; `seed` is `seed.Load`
in a process of its own. `Crash` stops the server at once, which also stands for `main` returning
after a drain that ran out of time; `Boot` opens sqlite and then attaches DuckDB, in the order of
`serve`. `ServerNext` leaves out the death of a seeding process; the liveness run uses it.

The database is a version per table; `seen` holds the versions a transaction has read, `dirty` the
tables it changed in its cache. sqlite and DuckDB are external. Their part follows from what the
code asks for: rollback journal mode (`open.go:27`), so readers take SHARED, the first write
RESERVED, a commit PENDING and then EXCLUSIVE, the pages are written after the journal and the
journal is truncated last; a busy timeout, so whoever waits for a lock may give up; a deferred
BEGIN, so a transaction that has read may be refused when it wants to write; `READ_ONLY` for
DuckDB, so a batch cannot roll back a hot journal. Migrations are one step of `Boot`.

`LocksSeen` says whether DuckDB's sqlite library and the server's see each other's locks. File
locks that belong to the process, as on Unix, do not separate two libraries in it; locks that
belong to a handle, as on Windows, do. The second effect of process-owned locks, that closing
the file drops all of them, is not modelled: where the libraries do not see each other the
instance is limited to jobs that `WriteMu` orders, and to reads.

### Transactions and the refinement

`Transactions` has no locks, no journal and no processes: a version per table and, for each open
transaction, what it has read. A commit changes any set of tables in one step, when all that the
transaction read is still so and nobody else is in the middle of reading; every other end has no
effect. `ImplementsTransactions` maps `WriteLock` to it (`data <- committed`, `reads <- seen`). It
is why `MatchStore`, `Codex` and `Analytics` may take a transaction as one action. It does not hold
where the two libraries do not see each other's locks and a write goes around `WriteMu`.

### Lifecycle

`phase` follows `serve` in `main.go`: the port is bound before an engine is touched, sqlite opens,
DuckDB attaches, the server serves, drains for ten seconds at most, and the deferred closes run in
reverse order; a start that fails half way runs the defers it has reached. `open` is the set of
open handles and `deferred` the stack of closes that the defer statements have pushed so far; every
return goes to `RunDeferred`, which pops it, so that the order of the closes is not written into an
action but comes from where the defers stand. `HandlesOrdered` is the claim about it: DuckDB never
outlives the sqlite pool, and no return leaves a handle open. A kill runs no defers.

A job is now the goroutine of a request: it may run several transactions between `Arrive` and
`Answer`, and `busy` is what `Shutdown` waits for. `GiveUpDrain` is the end of the ten seconds, or an
error of `Serve`, which skips the drain (`main.go:108`). Transactions take the steps of `WriteLock`,
except that a closed pool hands out no connection (`Proceed`); that `Lifecycle` implements
`WriteLock` holds by its construction and is a lemma of the proofs, not a property.

## 3. Runs

| run | properties | bounds | result |
|---|---|---|---|
| `MatchStore_boards` | `TypeOK`, `OwnersExist`, `HistoryKept`, `CellsUnique`, `FinalizedFrozen`, `ImplementsBook`, `SamplesAddUp`, `RelicLiftExact`, `ItemLiftExact`, `PickRateIsShare` | 1 match, 2 lineups, 3 slots, one row in each codex table, boards of 0 to 2 cells; one lineup with a pro or relics at a time | holds |
| `MatchStore_stack` | `RemoveDetachesOne` | 1 slot, 2 copies of an item | violated |
| `Analytics_item_lift` | `ItemLiftAsDefined` | 1 match, 2 lineups, 5 slots, 2 heroes, 1 item | violated |
| `Editor_one_tab` | `EditorTypeOK`, `OvershootBounded`, `CellsShown`, `PlacementsUnique`, `FinalizedLegal`, `StaysInMatch` | 1 request at a time, all routes, 2 matches, 2 lineups, 3 slots, boards of 2 cells with 1 item each | holds |
| `Editor_two_tabs` | `OvershootBounded`, `ItemOvershootBounded`, `DetailExact` | 2 requests, 1 match, 1 lineup, 3 slots, 3 copies of an item, caps of 1 | holds |
| `Editor_slot_race` | `BoardCap` | 2 requests, cap 1 | violated |
| `EditorPage` | `RegionsExact`, `DetailStays` | 1 tab, 2 requests in flight, 4 in all, 1 match, 2 lineups, 1 slot, 1 item, 1 relic | holds |
| `Codex_desk` | `NamesUnique`, `LineagesComplete`, `NoRemains`, `ListingSound`, `UndisturbedExact` | all forms beside 1 request of several steps, 2 names, 4 rows in all, 2 rows of races and of items and 1 of every other table, 2 tier counts | holds |
| `Dashboard` | `ProFieldExact`, `PageGrows`, `PatchAsNamed`, `FinalRowsStay` | 1 page at a time (full, or an hx-get) beside the editors, 2 matches, 2 lineups, 2 patch versions on 2 rows | holds |
| `WriteLock_mutex` | `ReadsCommitted`, `Answered` | 3 jobs (tx, read, batch), libraries that do not see each other, crashes | holds |
| `WriteLock_bypass` | `BatchUndisturbed` | 2 jobs (direct, batch) | violated |
| `Lifecycle` | `TypeOK`, `FileRestorable`, `QuietClose`, `HandlesOrdered`, `UpgradesAlone`, `SeedOnlyEmpty`, `ImplementsTransactions`, `OnlyBypassesOvertake` | 3 jobs of all kinds, 2 tables, 2 writes of each, starts that fail, drains that time out, kills | holds |

Why the bounds are enough to be interesting: two placements stand for eight, because the scans
and the finalize rule only distinguish a free placement from a taken one and a full match from
one that is not; lineup ids over two matches and two placements let a deleted id come back in
another match or on another placement; three slots hold a board of two cells with a hole and its
copy; caps of one are reached by one request and passed by the second. In each editor run there is
one id more than the bound on the property, so that the property could fail, and in
`Editor_one_tab` a cell index may lie outside the grid. Two requests in flight are the least that
race; four in all let a region be disturbed, redrawn and disturbed again before the match is
finalized. The page of the dashboard is a reader: its requests change nothing, so a second one
adds no behaviour. Two names let a name be taken, freed and taken by another row. Two tables are
enough for a transaction to be half written, and three jobs for a reader, a writer and one that
waits.

Two constraints cut the product of unrelated things. `OneDressed` keeps at most one lineup with a
pro or a relic; which lineup it is, and its copies and moves, remain free. `OneTopic` keeps the
codex tables of one state to rows that can point at each other (races and classes with heroes;
ladders; items and relics; patches and pros) and the request of several steps to those tables:
`Codex` has no action that relates the rest.

`CHECK_DEADLOCK FALSE` is used for the three instances of `MCMatchStore`: when every match is
finalized and every id of the instance is in use, there is nothing left to write. All other runs
check for deadlock.

What the violated runs show:

* `Editor_slot_race`: `addSlot` counts the cells in the view it loaded (`slots.go:52`) and the
  insert does not count again, so two requests in flight put one hero too many on a board.
  `validate.go:12` says "a lineup holds at most 12 heroes." `OvershootBounded` says how far it
  goes: one cell for every further request in flight, and not at all for one at a time. The
  items of a slot go the same way (`slots.go:117`, `validate.go:13`, `ItemOvershootBounded`).
* `MatchStore_stack`: `RemoveSlotItem` deletes by slot and item and takes every stacked copy,
  where its comment (`slotwrite.go:86`) says that it "detaches one item from one slot".
* `WriteLock_bypass`: a codex delete commits between the `Lock` and the `Unlock` of a batch.
  `whiteboard.md:118` says "writes: Store.WithTx under WriteMu" and `engine.go:22` "so a write tx
  can never interleave with an analytics read". What the batch reads is still one state where the
  libraries see each other's locks (`Lifecycle`); where they do not, adding `direct` to the
  kinds of `WriteLock_mutex` makes `ReadsCommitted` fail.
* `Analytics_item_lift`: the baseline of the item lift joins every slot without the item to every
  held row of the same hero (`items.sql:22`), so a hero that holds the item in two rows weighs
  twice in the baseline. `items.sql:3` says the two aggregate separately so that the averages stay
  right, and `frontend-design.md:347` defines the lift over slots. `ItemLiftExact` says when the
  two agree: while no hero holds the item in more than one row.

With `copyLineup` among the routes and two requests in flight, `OvershootBounded` fails (an
overfull board is copied while a request is pending on the copy); it is therefore checked for all
routes with one request and for the routes of one board with two.

`ReadsCommitted` is checked in `WriteLock_mutex` only, where nothing but `WriteMu` keeps it up; in
`Lifecycle` the refinement of `Transactions` takes its place. `UpgradesAlone` and
`OnlyBypassesOvertake` are checked in `Lifecycle`, where direct writes and the seeding process run
beside everything else, and are stated so that they are true there. `UpgradesAlone` looks at a
writing `WithTx`: who shares the file beside it only reads. It does not say so of a direct write:
a `DeleteHero` may reserve the file while a transaction that has read is about to write; sqlite
then refuses the second at once or after the busy timeout, and its `WithTx` rolls back and unlocks.
`OnlyBypassesOvertake` is what is left of `BatchUndisturbed`, which the code does not keep
(`WriteLock_bypass`): it is the direct writes and the seeding process that commit during a batch,
never a `WithTx`.

`StaysInMatch` is checked for one request at a time. With two, a slot deleted between check and
write may have its id handed to a slot of another match. `deleteLineup` does not check at all.

Met on the way, and stated here without a run: the pick rate counts slots over lineups, so a hero
placed twice on one board counts twice and the rate may pass 1 (`service.go:36`, against the
"share of lineups" of `frontend-design.md:341`; `PickRateIsShare` says when it is a share). Of two
tier edits of one race in flight at once, one is lost (`codex_synergies.go:164`; `UndisturbedExact`
says when neither is). The documents disagree about relic lift: `whiteboard.md:124` has it, with
synergy lift, as the average placement of "lineups containing the thing minus the field avg", while
`frontend-design.md:348`, `readme.md:257`, `relics.sql:1` and the numbers of `query_test.go:196` take
the lineups without the relic, as the query does. `RelicLiftExact` states the second; under the first
it would fail, which is its mutation (`LiftOverField`). `itemWriteError` (`codex_items.go:130`) reports every other failure of an
item write as a taken name.

## 4. Fairness

All modules but `WriteLock` have safety properties only and assume nothing. `WriteLock_mutex` uses
`FairSpec`: weak fairness for what a job does by itself (a goroutine that can run does; callbacks
and scans are finite; waiting for the file ends with the busy timeout, which is `GiveUp`), and
strong fairness for taking `WriteMu`, because `sync.Mutex` hands itself to the longest waiter once
that has waited for a millisecond. Arrivals, crashes and boots are not fair. Waiting for the
DuckDB connection is weakly fair only: it is free whenever the mutex is.

`Lifecycle` states no liveness: the drain ends by its own timer whatever the requests do, and then
`GiveUpDrain` is always possible.

## 5. Proofs

All theorems are for every value of the constants that satisfies the assumptions of the modules:
the caps are positive, the bounds are naturals, the boards a caller hands to `AddLineup` are
sequences of cells, `NoPro`, `NoName` and the like are none of the values they stand beside.

* `MatchStoreProofs`, the scans. `NextSlotIndexIsLeastFree` and `FirstFreePlacementIsLeastFree`
  say what they return; both rest on the least element of a set of naturals, and the first on
  counting: n used indexes cannot cover 0..n. `ValidateFinalizeIsComplete` is a pigeonhole
  argument: as many lineups as placements, none repeated, is one on each.
* `MatchStoreProofs`, the tables. `TypeCorrect` and `OwnersAlwaysExist` are proved together by the
  inductive invariant `Shape == TypeOK /\ OwnersExist`: a copy or a cascade keeps the tables
  well-formed only because every row has its owner. One lemma per operation; `AddLineupWrites` and
  `CopyLineupWrites` reduce the two operations that insert many rows to a source map from new
  slots to what they were made of, which the later proofs reuse.
* `MatchStoreProofs`, what must not happen. `EditsOneMatch` shows that every step touches rows of
  one match only, and that this match is new or a draft. `FinalizedStaysFrozen` follows.
  `FinalizedStaysLegal` follows from it: what `FinalizeMatch` checked is true of rows that never
  change again. `PlacementsStayUnique` and `CellsStayUnique` need `Shape` and the two scan theorems.
  `HistoryAlwaysKept` needs `Shape`: each delete of a codex row looks at all referring tables.
* `MatchBookProofs`. `StoreImplementsBook` is the refinement, step by step: `BookOfStore` of the
  initial tables is the empty book, and every operation of the store is an operation of the book
  or leaves it as it is. The mapping picks the lineup of a placement and the slot of a cell with
  `CHOOSE`; `PlacementsUnique` and `CellsUnique` make the picks unambiguous, so a board can be
  described by what it holds (`IsBoards`, `IsCells`) and compared before and after a step.
  `EditsOneMatch` keeps the boards of every other game. That the ids of matches are dense (`Dense`)
  gives a new match the number of the next game.
* `DashboardProofs`, the numbers. The averages of the catalogue are sums over finite sets. The sum
  of `Analytics` is a recursive function on sets of keys; its equation and its independence of the
  order of the keys are proved by taking a least counterexample, and so are the laws that the rest
  needs: the sum over two disjoint sets, over an image, and over the values a function takes,
  counted (`CountByValue`) and weighed (`WeighByValue`). From these: `SamplesAlwaysAddUp`, `RelicLiftAlwaysExact`,
  `PickRateAlwaysShare`, `ItemLiftAlwaysExact`, and `ProFieldAlwaysExact`, which also needs
  `FinalizedLegal`. Fractions are compared by cross-multiplication.
* `DashboardProofs`, the pages. `DashboardKeepsStore` makes the theorems of the store available.
  `PatchStaysAsNamed`: a patch that some match was played on cannot be deleted, so what a page
  resolved stays the patch it named (`PatchPinned`), and both selects show its version, each by its
  own comparison (`SelectNames`). `FinalRowsStayTrue` and `PageAlwaysGrows`: a
  finalized match never changes, so a set of rows read later contains what was read before.
* From the page to the book. `EditorImplementsBook`, `PageImplementsBook` and
  `DashboardImplementsBook` chain the refinements: the page's requests are requests of `Editor`,
  whose writes are steps of `MatchStore`, which implements `MatchBook`. A click in a form edits one
  draft of the abstract book and nothing else, whatever page it came from.
* `CodexProofs`. The tables keep four things together (`TablesInv`: types, unique names, complete
  lineages, no remains): a hero keeps its races only because a row in use cannot go, and a row that
  can go leaves nothing behind only because whatever points at it exists. `DeskInv` adds for each
  request what each phase of its handler has read (`WorkerFits`) and that what was read is what the
  tables say while nobody has overtaken it (`ViewCurrent`). A step of one worker keeps the views of
  the others current or marks them (`BystanderKeeps`); `ListingsSound` and `UndisturbedEditsExact`
  read off the invariant. All five properties of `Codex_desk` are proved, for any number of
  requests at once.
* `WriteLockProofs`, under `WriteLockAssumption`. The inductive invariant `IInv` adds to the
  properties who holds `WriteMu` (`MutexHeld`), which lock goes with which place in a transaction
  (`LocksMatch`), that writers exclude each other and the one that writes the file excludes all
  (`LocksExclude`), and that a journal has a living writer or nobody is on the file
  (`JournalOwned`). `WriterSeen` and `ReaderSeen` are the heart: two jobs that do not see each
  other's locks are a batch and another job of the server, and if that one writes, both need
  `WriteMu`. Their hypothesis `MutexOrLocks`, which `ReadsStayCommitted`, `FileAlwaysRestorable` and
  `SeedJoinsNoHistory` carry, says that the libraries see each other's locks or that no write goes
  around the mutex.
* `WriteLockProofs`, transactions. `LocksImplementTransactions` carries the same hypothesis. The only
  step that changes the abstract data is the one that truncates the journal, and it has to change
  each table by the whole commit: `PagesAhead` says that until then the file is the journal's copy,
  or one version ahead on tables of the writer. That the commit is alone is `LocksExclude` for the
  jobs that see its lock and the mutex for the batch that does not; that its reads are current is
  `ReadsCommitted`. A crash ends the transactions it interrupts without an effect, since the journal
  takes the pages back.
* `WriteLockProofs`, what `WriteMu` keeps. `NoUpgradeDeadlock` and `BatchesOvertaken` have no
  hypothesis: direct writes and the seeding process are among the jobs, and the libraries may see
  each other's locks or not. Their invariant `MInv` is smaller than `IInv`: the types, who holds the
  mutex, which lock goes with which place, that a job without a kind is in no transaction
  (`Engaged`), and that a direct write never holds a shared lock (`DirectWrites`), because it starts
  with the write.
* `LifecycleProofs`. Every step of the process is a step of the protocol or a stutter (`LifeLocks`), so
  `LifeRestorable`, `LifeReadsCommitted`, `LifeSeedsApart`, `LifeLocksTyped`,
  `LifeImplementsTransactions`, `LifeNoUpgradeDeadlock` and `LifeBatchesOvertaken` follow from the
  theorems about `WriteLock`. `ClosesInOrder` says of each phase what the stack of closes is and that
  only its handles are open (`HandlesFit`); the order is the one of the defer statements, each pushed
  after its handle was opened. `ClosesAreQuiet` needs an invariant of its own (`QInv`): a
  transaction belongs to a request in flight (`InRequest`), the mutex and the DuckDB connection to a transaction, and no
  request is left in a closing phase unless the drain was given up (`PhaseFits`).
* `EditorProofs`, for callers that hand `AddLineup` an empty board, as the form does. The
  invariant `Handlers` says of each request in flight which phase it can be in and, when it writes,
  which checks it has passed (`Placed`). `WriteIsStep` and `StoreStep` show that a handler's write
  is a step of `MatchStore`, so every theorem about the store holds under any number of requests.
  `DetailPageExact` rests on `Snapshots`: once the first SELECT saw the finalized stamp, what is
  read afterwards belongs to rows that `EditsOneMatch` keeps still. `HandlersStayInMatch` is for one
  request at a time; its invariant `FreshViews` says that a view is what the tables hold.
* `EditorProofs`, the caps: the two overshoot bounds are proved by a budget: the cells of a board,
  plus the requests that have counted them and found room (`Carriers`), never exceed the cap plus
  the number of requests minus one. A read can add a carrier only while there is room; a write
  turns a carrier into a cell. A copy is a board whose carriers nobody has counted against the
  original, so the theorems take either no copies or one request. `GridShowsAll` follows for one
  request: a board that was not full has a free index below the cap.
* `EditorPageProofs`, for callers that hand `AddLineup` an empty board and for any number of
  requests in flight. `PageImplementsStore` again brings the theorems of the store.
  `DetailPageStays`: a detail page is only shown of a match that is finalized by then, whose rows
  stand still, and no answer on its way finds it any more (`Settled`, `Finalizes`).
  `RegionsAlwaysExact` has the inductive invariant `PageInv`. A region that no two requests raced
  for and no lost answer was to draw either shows what a reload would draw, or an answer that will
  draw it is on its way (`Pending`, `Accounted`). `Alone` says that a request has a region to
  itself; then what its handler loaded (`ViewFresh`) and what its answer draws (`AnswerTrue`) is
  what the tables hold, whatever the other requests write. `WriteFrame` is the write side of the
  swap table: a write changes only regions in the `Scope` of its request; `WriteDrawn` is the answer
  side: what it changes is among what `Written` redraws, all cards when a board appears, goes or
  moves. The invariant does not hold if `disturbed` is cleared by fragments that find no element on
  the page; so `Arrive` clears what is `Drawn`.

Only model-checked: `Answered`, the liveness property of `WriteLock_mutex`, is out of the
prover's reach, and so is everything else that speaks of fairness. Every invariant, every action
property and both refinements that a passing run checks are theorems.

## 6. Not modelled

* Form parsing, routing, the origin guard, logging, rendering of layout and empty states,
  `focus.js`: no property speaks of them. What a form can hold and what an answer carries is in
  `Editor`, `EditorPage`, `CodexDesk` and `Dashboard`.
* Goose migrations: one step of `Boot`. sqlite, DuckDB, `net/http` and htmx are external and
  modelled by what the code relies on.
* The Wilson bound and the rounding of columns (floating point). Both are functions of counts whose
  exactness is checked.
* The browser side of the dashboard filters: each select aborts its own requests only, where
  `frontend-design.md:109` puts the abort on the row; a slow answer of one select may land after a
  newer answer of another. The hazard is listed without a property.
* Liveness of `Lifecycle`; the detail page of a draft, which only a typed URL reaches.
* Badge, screenshot and e2e tools: they are not part of the program.
