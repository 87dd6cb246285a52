# udr-nanodbc in TLA+

udr-nanodbc is a Firebird plugin: external functions and procedures by which
PSQL code opens ODBC connections, executes statements on them, reads results,
copies them into Firebird tables and asks the ODBC catalog. It is C++ around
nanodbc (vendored). PSQL holds raw pointers to C++ objects (`TY$POINTER`), and
everything hard in the library follows from that: who owns an object, when its
pointer stops being valid, and which state two calls share.

Source paths below are relative to `src/`.

## Inventory

| part | source | state it keeps | operations |
|---|---|---|---|
| registries of an attachment | `src/rsrs.cpp`, `rsrs.h` | five `std::vector`s of pointers (connections, transactions, statements, results, catalogs), snapshot, exception texts | retain, release, valid, expunge |
| pool of attachments | `src/rsrs.cpp:301-381`, `nano.h:78-179` | map attachment id -> resources, one shared iterator | initialize, finalize, current resources |
| connection | `src/conn.cpp`, `ext.cpp` | nanodbc connection, remembered isolation level | connection, connect, disconnect, release_, expunge, isolation_level, information |
| transaction | `src/tnx.cpp` | nanodbc transaction; the count, rollback flag and autocommit of the link | transaction_, commit_, rollback_, release_ |
| statement | `src/stmt.cpp` | nanodbc statement, `conn_`, `params_batchs`, scrollable | statement_, open, close, prepare, bind..., execute... |
| result | `src/rslt.cpp` | nanodbc result, its cursor | positioning, get, pump, columns |
| pump | `src/rslt.cpp:1234-1400` | a Firebird transaction in the instance of the function | pump |
| catalog | `src/ctlg.cpp` | nanodbc catalog; the result or list of each procedure, in its instance | find_..., list_... |
| functions | `src/func.cpp` | none of its own | execute_conn, execute_stmt, transact_stmt, prepare_stmt |
| helpers | `src/nano.cpp`, `nano.h` | none | conversions, BLOBs, metadata |

How they interact. A PSQL call finds the `attachment_resources` of its
attachment in the pool, asks the registry of the class whether the pointer is
valid and calls the object. A constructor retains the object, a destructor
releases it. Deleting a connection deletes the transactions, statements,
results and catalogs that name it in `conn_`. Statements and transactions meet
only through the link: a statement is executed in whatever transaction state
the link has. Pump, the BLOB conversions and every other call share the snapshot:
its transaction, and the status and context of the call that came last.
Selectable procedures (catalog) are opened by one call and fetched by others;
the state of a cursor lies in the instance of the procedure, shared by all its
cursors.

What is hard: vectors that change under a loop; pointers valid by address only;
steps that fail half way (a constructor after it retained itself, a refused
execution after the handle moved, a pump between packs, a refused commit);
cursors that overlap; a driver whose refusals nobody reads; ODBC's pointers into
vectors that grow; threads of several attachments in the pool.

What makes each part correct:

- registries: an object that exists is retained once; a valid pointer points to
  an object; a release takes exactly the children of its connection.
- transactions: what said it committed stays, what said it rolled back is gone;
  without transactions the link is in autocommit with nothing pending.
- parameters: the rows sent are the rows bound.
- pump: success is complete, a failure loses a pack at most, no row is written
  twice, BLOBs are made in the transaction that inserts them.
- catalog: a cursor returns the rows of its own call once and ends.
- pool: a call sees the resources of its own attachment, never freed ones.
- result: where it says it is, what it reads and what it answers are those of one
  cursor over the rows of its query; the driver writes into its buffers only.
- link: what an object remembers of its handle is true of the handle; a statement
  acts on its own handle only.

## Modules

| module | models | uses |
|---|---|---|
| `AttachmentResources` | registries, life of all objects, the loops of release, expunge and finalize | `ResourceContract` |
| `AttachmentPool` | `resources_pool` and the threads that share its iterator | `PoolContract` |
| `Transactions` | transaction objects of one connection, the link, the work | |
| `Link` | ODBC handles behind connections and statements, isolation level, scrollable | |
| `ParamsBatch` | parameters of one statement | |
| `ResultRows` | the results of one statement on its one handle: positioning, next_result, unbind, get | `ScrollContract` |
| `Pump` | `nano$rslt.pump` | |
| `CatalogCursors` | the six find_ procedures | `CursorContract` |
| `CatalogLists` | `list_catalogs`, `list_schemas` | |
| `ResourceContract` | abstract: connections and children, a release takes a connection with its children | |
| `PoolContract` | abstract: between initialize and finalize an attachment is served from its own resources | |
| `ScrollContract` | abstract: a cursor over the rows of one query | |
| `CursorContract` | abstract: a cursor returns its rows once, in order, and ends | |
| `...Proofs` | theorems about the module named (`CatalogProofs`: about `CatalogCursors` and `CatalogLists`, whose definitions have different names for that reason) | `TLAPS` |
| `MC...` | symmetry and small sets for TLC | |

A contract is shown to be kept by `INSTANCE ... WITH` and the property
`KeepsContract` of the detailed module: a step is one of the contract, a stutter,
or has one of the causes the property names.

How state and actions correspond to the code:

**AttachmentResources.** `slot[k]` is the storage of a vector, stale slots past
its end included, `size[k]` its size: `erase` shifts, and a range-for whose end
was fixed before reads what it finds. `rel` and `exp` are the frames of the two
loops: the registry walked, the index, the end. While one runs no other call
does (one thread per attachment call). `live` is the heap; an address is reused
after it is freed. `owner` is `conn_`; `via` is the connection a statement's
ODBC handle is allocated on, which is another variable in nanodbc and may
differ. `heap = "corrupt"` is undefined behaviour met: nothing follows. `lost`
holds addresses whose constructor threw after `retain`. `tame` records at the
start of a loop whether the layout is one in which it works; `TameRelease` says
that this condition is sufficient and, where no constructor failed, necessary.
Every call that is given the zero pointer, which the null element makes valid, counts
as undefined behaviour (`UseZero`); of those `release_` does nothing and
`conn$expunge` deletes the statements without a connection.

**AttachmentPool.** A step ends where the next access to `resources_it` begins,
so that a call of another thread fits between the `find` and the reads that
follow it (`rsrs.cpp:317`, `331`, `345`). The map's own operations are atomic:
the model shows what goes wrong even then. An id is unique in one database, not
in the server (`Distinct`). `Created` are the databases that have the NANO$
exceptions; the first attachment of another one reads a null message. `hit` are
the attachments whose lookup another thread disturbed, `cut` those whose
resources were erased or freed by the finalize of another, or by their own under an
open cursor. `instance` and
`cursor` are what the macros of `nano.h` keep in a procedure's instance: the id
it found in its constructor and the resources it found at open. A refused call has
assigned the null pointer to the instance before it throws (`nano.h:144`), under a
cursor that is open there: its next fetch is a fault. Undefined behaviour is a `fault`
and nothing follows it. The comparison with the end and the `delete` of finalize are
two steps (`rsrs.cpp:346`, `347`), as both read the iterator. Calls that a trigger
makes inside another call of the same attachment are not nested here: what they do to
the snapshot is in `Pump`.

**Transactions.** One connection (transactions of different ones do not meet).
`db` has nanodbc's count and rollback flag, the autocommit attribute of the
handle, and the work: pending, durable, lost. `Destroyed`, `Committed` and
`Settled` are functions on it (a set of outcomes where the driver may refuse);
an action is one SQL call. The driver's refusals are of four kinds
(`Refuses`): connect and commit, which throw, and rollback and autocommit in
the destructor, which nobody reads. ODBC's rules are taken from its
specification: turning autocommit on commits, disconnecting with pending work is
refused. The cascades `release_` and `expunge` are modelled with at most one
transaction, the loop itself being the matter of `AttachmentResources`. A
`transaction_` that cannot turn off autocommit creates nothing and is not an
action. `told`, `under` and `odd` are history.

**Link.** `dbc` is the connection's ODBC handle with its number: `connect_`
frees it and allocates another, and nobody tells `isolation_` (`ext.cpp:80`) or
the statements. `driver` is the driver manager's table of statement handles,
whose addresses are given out again. `stmt` is what a statement believes.
Disconnecting frees the handles in `driver` and leaves `stmt` as it is: from then
on `close` is refused (`stmt.cpp:190`), and once the address belongs to another
statement either one executes, resets and frees the other's. A refused free
inside the `noexcept` destructor ends the process: `up`. A call the driver
refuses changes nothing and is not an action. The initial `isolation` is any
level, since no constructor sets it.

**ParamsBatch.** A value is the number of its bind call, so a row sent can be
compared with the row bound. `kind`, `values` and `nulls` are the variant and
the flags of `params_batchs`; `bound` is what ODBC was last told, as pointers
into the vectors, as copies, or as freed. `bind_parameters` hands out `data()` for as
many rows as the batch has (`stmt.cpp:267-420`), and a vector that was cleared, or
replaced by one of another type, has kept its memory: what is read past the end of the
values is `Outside`, which may be a row of before, and the flags there are whatever
memory holds (`Past`), so that it may be a null as well. Both are read at each execution,
without `nano$func` too. `clear_bindings` frees nothing but the strings it destroys.

**ResultRows.** A result has buffers of its own for one column; the cursor, the
size of a block, the buffers and the counter the driver writes to belong to the
statement's handle and stay as the last result set them: `cursor` and `driver`.
What a result answers (`Get`, `Position`, `AtEnd`) is compared with the row a
`ScrollContract` cursor would be at. A result of an earlier query is followed
only in what its calls do to the handle. nanodbc's part of a fetch is modelled
from how `rslt.cpp` uses it and marked external.

**Pump.** A row is its number; `work[t]` the rows written in transaction `t`.
`tra` and `open` separate the transaction the instance holds from those
still open. `snap` is `snapshot.transaction`, `Cleared` what the `current_snapshot()`
every BLOB begins with leaves of it (`rsrs.cpp:63`), `context` the call whose status
and context the snapshot holds, and `blobs` where the BLOBs of the last step were made.
The BLOBs of a row are made before its insert; a trigger of the destination that calls
the library in the insert replaces status and context by its own, clears the
transaction, and makes its BLOBs in the transaction of the insert. After it the pump's
next BLOBs go through a context whose call has ended: `Stray` is whatever transaction
that leads to. Such a trigger uses other results than the one that is pumped, and does
not pump itself. A caller retries over any place it failed, with any pack size, up to
`MaxCalls`.

**CatalogCursors, CatalogLists.** `result_set` (and its iterator) are per
procedure, as in the code (`names` and `names_it` in `CatalogLists`), `cursor` and
`listing` are what SQL sees. The history `overlapped`
holds the procedures that had two cursors open at once: the others keep
`CursorContract`, whatever overlaps elsewhere. The list procedures keep no such
contract even for a caller who never overlaps. Both open with any catalog that is not
NULL, without asking the registry (`ctlg.cpp:1194`, `1284`): the use of a released
one ends the model of the lists (`catalog = "used"`), as what follows is undefined.

## Runs

All finish in about two minutes with two workers, most of them in a few seconds.

| run | instance | shows |
|---|---|---|
| `registries` | 2 connections, 3 statements, 3 slots, failing constructors and direct executions | registries stay in step with objects, only those two faults leave pointers behind; the loops stay with their connection, and free everything in exactly the tame layouts |
| `release_all` | 2 connections, 3 statements, no faults | violation: a release leaves a statement of its connection alive |
| `contract` | 3 connections, one child of each class, 4 slots, no faults | `AttachmentResources` implements `ResourceContract`; no statement outlives its ODBC connection; expunge frees two connections |
| `pool` | 2 attachments, 2 databases, 2 ids, 2 addresses, one attachment disturbed | without races, shared ids and losses the pool keeps `PoolContract`; which of them each wrong answer and each undefined behaviour takes |
| `transactions` | 2 transactions, 2 executions, all refusals, new links | the link at rest; exactly what it takes to lose a commit or keep a rollback |
| `tnx_rollback` | 1 transaction, commit refused | violation: rollback_ commits |
| `link` | 2 connections with 2 handles each, 2 statements, 2 handle addresses, 2 levels | memory agrees with the handle; no handle is stranded; only statements that outlived a link do harm |
| `params` | 1 parameter, 3 rows, all types, null rows, `nano$func`, any flags past the ends | aligned batches are sent as bound; vectors hold the last rows; where old rows and freed values can come from |
| `results` | 2 results, blocks of 1 and 2 rows, sets of 3 rows, of none and of 1 | for which calls a result is a cursor over its rows; when rows are written to other memory |
| `pump` | 5 rows, packs of 0-3, 3 calls, triggers that may call the library in any insert | completeness, loss, no duplicates, transactions held; BLOBs in live transactions until a trigger calls |
| `pump_blob` | 2 rows, one call | violation: the BLOBs of a pack are made in the caller's transaction |
| `catalog` | 3 cursors of 2 find_ procedures, or 3 of the two list procedures, overlapping, failing, catalog released | freed memory only after overlap or release; no row twice; leaks counted; every cursor of find_ stops; without overlap `CursorContract`; schema names at most once; `list_catalogs` ends only when it found nothing |

Why the bounds are enough. The loops of a release distinguish an element that is
deleted, kept, or past the new end: three slots hold every pattern of two
adjacent deletions with one kept before or after them. Children of the other
classes are erased by loops of the same shape over registries of their own;
`contract` has one of each, so that a release meets them all in one cascade.
Expunge changes behaviour at three connections. nanodbc's count is compared with
0 and 1; two transactions and an execution, which opens one of its own, reach 3.
Work only has to be before or after. In `pool` a race takes the thread that is
disturbed and one that disturbs; `MaxHit = 1` keeps the disturbed to one, after
which anything may have happened to it already. Three attachments exceed TLC's
time; the proved properties hold for any number. In `link` `MaxDbc = 2` handles
let a link be replaced once, and as many handle addresses as statements let one
statement take the address of another. Vectors of three rows have a first, a
middle and a last one, and a gap can be on either side. The instance has one
parameter: two with three rows exceed TLC's time, so that partial binding was
checked with two parameters of one row, and is proved for any number.
`MaxRow <= 8` is assumed because nanodbc's null indicators have room for 8 rows
at least. Three rows in blocks of two end in a partial block, in blocks of one in
none; the set after them is empty and the last one is smaller than a block of two;
`MaxBack` only stops a position from falling for ever. Five rows in packs of up to three end in a full pack, a partial
one and, with packs of one, neither. Three cursors let a second cursor replace
what a third one reads after the first has ended; in `MCCatalog` they are
numbers opened in order, which stands for the symmetry that a liveness check
forbids.

`CHECK_DEADLOCK FALSE` stands where the system really stops: memory is corrupt,
the process ended, or the objects, cursors or rows of the instance are used up.

Fairness. `CatalogCursors` states weak fairness of each cursor's fetch: the
Firebird engine fetches a FOR SELECT until the cursor ends, fails or is closed.
Under it `EveryCursorStops`. Nothing else is assumed fair: a PSQL caller may
always stop.

## Proofs

Each proof module proves `Spec => []IInv` (`Inductive`) for an inductive
invariant, and from it the properties. They hold for any number of objects,
threads, rows and calls, under the named assumptions on the constants
(`ConstantsAssumption`, `PoolAssumption`, `NoneAssumption` and so on, in the
modules that declare the constants), which only keep the marks apart from the
values and give bounds their types.

| module | proved | why a strengthening is needed |
|---|---|---|
| `AttachmentResourcesProofs` | type correctness, `LiveAreRetained`, `DanglingAreLost`, `TwiceOnlyLost`, `CascadeStaysHome`, `TameRelease`, `TameExpunge`; under named conditions `NoOrphanHandle` and `KeepsContract` | see below |
| `AttachmentPoolProofs` | type correctness, `InstanceIsOwn`, `ForeignHasCause`, `FaultsHaveCauses`, `KeepsContract` | what a thread holds between its steps is its own, or it was hit or cut (`AllGood`); resources in the map were made for that id (`MadeForId`); and while no lookup was disturbed, the map, the iterator and every thread agree (`Quiet`) |
| `TransactionsProofs` | type correctness, `CountIsOpen`, `AtRest`, `CommittedIsKept`, `RolledBackIsGone` | what callers were told agrees with the objects, and work with the transactions it was done under, also when they overlap (`Kept`, `Gone`) |
| `LinkProofs` | type correctness, `RememberedIsForced`, `OnlyOutlivedLoseHandle`, `NoStrayHandle`, `OnlyOutlivedHarm` | every handle in the driver is held by an open statement (`HandleIsOwned`) |
| `ParamsBatchProofs` | type correctness, `AlignedIsSent`, `ValuesAreTheLast`, `OldRowsArePast`, `FreedNeedsNoBatch` | values are the last rows bound and flags belong to all of them (`AllRows`) |
| `PumpProofs` | type correctness, `NoRowTwice`, `HeldIsOne`, `BlobInLiveTransaction`, `SuccessIsComplete`, `FailureLosesOnePack` | every row fetched is in the transaction, the table or the pack that failed (`Fetched`, `Counted`, `Packing`), and the context of a running call is its own or a trigger's (`ContextOfPump`, `BlobsPlaced`) |
| `CatalogProofs` | of `CatalogCursors`: type correctness, `OnlyKnownFaults`, `RowsOnce`, `LeakAccount`, `KeepsContract`; of `CatalogLists`: type correctness, `SchemasOnce`, `CatalogsEndEmpty` | each result in memory has an owner that opened it and no two share one (`OwnersDiffer`, `ReadBehind`); the schemas returned of a list are before its iterator (`SchemasPassed`), and a cursor of catalogs that is alone leaves its list as it was (`CatalogsAlone`) |
| `ResultRowsProofs` | type correctness, `WritesHaveCause`, `ReadsKeepContract`, `KeepsContract` | the cursor is always before, at or behind a block of the driver (`Attached`), as many buffers are filled as the block has rows (`Filled`), and as long as no late call was made counter and buffers belong to the result the cursor is of (`Owned`) |

The proof of the registries, as an example. None of its three invariants is
inductive. `Erase` finds the first slot with a pointer, so that a destructor
removes the object's own slot only when the pointer is there once, or is one a
failed constructor left; and that it is there at all is the other invariant.
Moreover a loop may trim stale slots and reads pointers it compares with owners:
the classes of the slots, stale ones included, must be known:

    IInv == TypeOK /\ SlotsHoldTheirClass /\ DownIsEmpty /\ ReleasedIsAlive /\ Registries

where `Registries` is the conjunction of the three, `DownIsEmpty` says that an
attachment without resources has nothing, and `ReleasedIsAlive` that the
connection of a running loop exists. The lemmas follow the code: what `Erase`
and `Trim` do to slots, what a destructor and a constructor do to the
registries, then one lemma per kind of step, and the step over the disjuncts of
`Next`. The other modules are laid out in the same way.

The loops of a release need another kind of argument: not only what holds after
every step, but what a loop will come to. `TameRelease` says that the condition
computed when a release starts is the exact one. The proof describes, for one
registry with slots `f`, `n` of them in use, children in the slots `M`, and a loop
at `a` of `e`, the states from which the loop ends well (`Good`: no child is last,
one is, two are, one of those two is deleted, or none is left) and those from
which it does not (`Bad`; from there it reads a freed pointer or has passed a child
by). `GoodGoesOn`, `GoodDeletes`, `BadGoesOn` and `BadDeletes` show that a step of
the loop stays on its side, with `erase` as the shift it is; `LoopStarts` that `Tame`
decides between them at the start. A registry is `Fine` or `Spoilt` by its turn:
walked already, being walked, or still to come. The invariant `Foreseen` says that
in a release announced tame every registry is fine, and in another one, where no
constructor failed, some registry is spoilt. It holds for any number of objects
and slots. `TameExpunge` has the same form one level up: the loop over the
connections is at its start, `Halfway` (each slot before it has lost its
connection to a neighbour), done, or before a freed pointer, and the last takes
three connections (`Purged`). It also follows that an expunge that comes to its
end has freed every connection (`EndIsEmpty`).

Two properties do not hold for every value of the constants, and their theorems
state the condition the code needs:

- `OneStatementNoOrphan`: `NoOrphanHandle`, when no direct execution fails
  (`"direct" \notin Faults`) and there is one statement at a time. With two, a
  release may pass one by, whose handle then stays on the connection deleted: that
  is what `TameRelease` is about. A handle is on the connection its statement
  is of (`HandleIsHome`), and a release has dealt with a single statement as soon
  as it has read its slot (`OneWalked`).
- `ImplementsResourceContract`: `Spec => KeepsContract`, when no constructor fails
  and there is one object of each child class at a time, with any number of
  connections, slots and failing executions. A registry of one slot is tame for
  every connection (`SingleIsTame`), so that every release ends with no child left;
  hence the connection of a live object is alive (`OwnerIsAlive`, which fails as soon
  as a release may pass a child by). Then every step is shown to be one of the
  contract or to change nothing the contract speaks of, where a running loop
  counts as done (`Doomed`): its first step is the step of the contract, and at
  its end nothing that counted as gone is left. With three connections an expunge
  comes upon freed memory and stops; the contract does not say that it ends.

Where a proof would be an induction (the row counts of the sets, a sequence, have a
greatest one: `Bounded` in `ResultRowsProofs`), the least counterexample takes its
place: the library's `WFMin` on the order of the natural numbers (`Least`).

Only model-checked: liveness (`EveryCursorStops`), since fairness and `ENABLED` are
out of the prover's reach. Every invariant and every action property of the passing
runs, and every refinement, is stated by a theorem.

## Findings

Each is a run with expected outcome "violation"; the run's trace is short.

1. `release_all`: `test/ORA_CONN_2.SQL:31` and `:39` note that `nano$conn.release_`
   "will check and free all resources a connection"; the loop skips the element after
   a deleted one (`src/rsrs.cpp:185`), so that of two statements that are neighbours in
   the registry, with one of another connection behind them, the second survives.
2. `tnx_rollback`: after a refused commit `rollback_` commits (`src/tnx.cpp:335`).
3. `pump_blob`: a comment where pump sets the transaction of the snapshot calls it
   the BLOB context of the operation (`src/rslt.cpp:1324`); `write_blob` clears
   that transaction first (`src/nano.cpp:236`), so the BLOBs of a pack are made in
   the caller's transaction.

What else a caller should know stands as an exception in a property that holds:

- `TameRelease`: which layouts of the registries a `release_` frees completely; in the
  others it passes children by or reads a freed pointer.
- `TameExpunge`: expunge and finalize handle two connections, never three.
- `NoOrphanHandle` holds without failing executions only. After a refused
  `execute_direct` on another connection (`src/stmt.cpp:221`) a statement's ODBC
  handle lies on a connection that its own release does not wait for.
- `ForeignHasCause`, `InstanceIsOwn`: two databases that give out one attachment
  id, or two threads in a lookup at once, serve one attachment from the resources
  of another; an instance made at such a moment stays tied to the other.
- `FaultsHaveCauses`: a cursor fetched after a `finalize`, its own attachment's
  included, reads freed resources, and one fetched after a refused open a null pointer;
  the caller's own finalize under its cursor is enough, otherwise it takes a race or a
  shared id. An attachment that did not finalize
  ends the process in the destructor of the pool (`src/rsrs.cpp:310`).
- `CommittedIsKept`: a `commit_` while another transaction is open commits
  nothing, and the other one's rollback takes its work.
- `RolledBackIsGone`: a transaction begun before the link, or before a new link,
  leaves the link in autocommit, and its rollback has nothing to undo.
- `RememberedIsForced`: after `connect_` the level remembered is not in force and
  setting it again is skipped; a level set after `allocate` is lost by `connect_`,
  contrary to `nanodbc/include/nanodbc.h:1078`.
- `OnlyOutlivedHarm`: a statement open over a disconnect uses and frees the
  handles of others, and its `release_` may end the server process.
- `AlignedIsSent` excepts a null row of strings, which replaces the vector.
- `OldRowsArePast`: an execution of more rows than a parameter has values reads past
  the end of the vector, where the rows of a batch that was cleared, or that a value of
  another type replaced, still are (`src/stmt.cpp:116-129`); no `nano$func` is needed.
- `FreedNeedsNoBatch`: after a failed prepare, or a `describe_parameters` that made no
  batch, an execution uses the pointers ODBC was last given, wherever they lead.
- No property is about `bind_null` of a batch. `sql/stmt.sql:209-210` says a
  `batch_size` other than 1 "nulls all batch": ODBC is told so at once
  (`src/stmt.cpp:2111`), and the execution binds again from `params_batchs`, which was
  not told. A null then arrives only where a flag says so: one of a row that was bound,
  or one left in memory past the end of the flags, as after two null rows and a
  `clear_bindings`.
- `BlobInLiveTransaction`: `current_transaction(nullptr)` does nothing
  (`src/rsrs.cpp:69`), so the snapshot keeps the pointer of a transaction that
  has ended; the property shows that no BLOB is ever made in it. A trigger of the
  destination that calls the library leaves its status and context in the snapshot
  (`src/rsrs.cpp:61-62`), and the BLOBs of the next rows use them (`src/nano.cpp:246`).
- `CatalogsEndEmpty`: the cursor of `list_catalogs` never moves
  (`src/ctlg.cpp:1213`): it repeats its first name and does not end.
- `ReadsKeepContract`, `KeepsContract` of `ResultRows`: with blocks of several
  rows `at_end` answers yes from the last rows on and stays so after `prior_`; a
  negative `skip_` may leave a negative position; `next_result` keeps position and row
  count of the set before, and after the last set the last row is still read;
  `move_` back beyond the first row comes to the first row, instead of to none,
  when a block is larger than the set (the proof found this one: its step fails
  without the exception, and the run has had a set of one row since).
- `WritesHaveCause`: a fetch through the result of an earlier execution fills, or
  overruns, the buffers of the later one, or memory its release has freed.

## Not modelled, and why

Conversions (dates, numerics, character sets, BLOB segments: `nano.cpp`,
`nano.h`) are functions over data without state. The information functions of a
connection and the questions about columns and parameters only read;
`has_data` answers true for every result (`src/rslt.cpp:2161`), and `scrollable`
always answers null (`src/stmt.cpp:1171`). `stmt.timeout` is overwritten by the
timeout each execution sets. Results that keep the implementation of a released
statement alive are nanodbc's matter. Exception texts and `error_message` are
wording. `just_execute_conn` changes nothing the library keeps. `cancel` needs a
second thread inside a call, which the library's macros do not foresee. Vendored
code (`firebird/include`, `nanodbc/include`: three quarters of the lines of C++
in the repository) is modelled only as the library uses it, in definitions marked
external. Of the library itself, `src/src`, the definitions stand for about half
of the lines; the rest is declarations, the metadata each function gives to
Firebird, conversions and functions that only read.

## Plan

Done: 1. `AttachmentResources` with its contract and proofs; 2. `Pump`;
3. `CatalogCursors`, `CatalogLists` with their contract; 4. `ParamsBatch`;
5. `Transactions`; 6. `AttachmentPool` with its contract; 7. `Link`;
8. `ResultRows` with its contract; 9. proofs of all of them, the refinements
included.

Left, in this order:

1. Date and time conversions and BLOB segments as functions, against reference
   definitions over bounded inputs.
2. A composition of `Transactions` with `ParamsBatch`, where a statement is
   executed on a released link.
