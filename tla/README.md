# Londiste: models and proofs

This directory is a verification development of the Python sources under
`londiste/`. It holds TLA+ modules translated from the code, TLC configurations
that check them on small instances, and theorems about them that TLAPS checks.
`PROJECT.json` is the index: components, runs, the mutants that show that each
property can fail, the source lines behind every definition, findings, hazards
and theorems.

    tlc -config Sync.cfg MCTableSync         # one run
    tlc -config Syncer.cfg MCSyncer
    tlc -config Batch.cfg MCBatch
    tlc -config Copy.cfg MCCopyTx            # and Rest, Deny, Cascade
    tlapm TableSync_proofs.tla               # one module's proofs

## 1. Inventory

Londiste copies tables from a *provider* database to a *subscriber* database. On
the provider, triggers write every changed row into a PgQ queue; a ticker closes
batches. On the subscriber a *worker* takes batch after batch and applies the
events of the tables that are in sync. A table that is added is first loaded by
a *copy process* of its own, which then follows the queue itself until the
worker takes the table over.

| part | source | state it keeps | operations |
|---|---|---|---|
| worker, copy process (batch, sync protocol, snapshots) | `playback.py`, `table_copy.py` | `table_list` of `TableState` objects (memory); `londiste.table_info.merge_state`, `custom_snapshot` (database); consumer position (queue); `work_state`, `pgq_min_*`, `dsync_backup` (memory) | `process_remote_batch`, `sync_tables`, `sync_from_main_thread`, `sync_from_copy_thread`, `do_copy`, `launch_copy`, `copy_snapshot_cleanup`, `interesting`, `gc_snapshot`, `load_table_state`, `save_table_state` |
| copy transaction | `table_copy.py:68-258`, `util.py:106-325` | locks, dropped DDL (memory or `dropped_ddl`), worker processes and pipes | truncate, COPY in one process or several, restore DDL, wait for `copy_role` (partitions of several queues that merge) |
| foreign keys | `playback.py:1062-1092` | `londiste.pending_fkeys` | drop one by one, restore one by one |
| administration | `admin.py` | `table_info`, `seq_info`, `table_attrs`, catalogue events in the queue | add-table, remove-table, resync, change-handler, add/remove-seq, execute, wait-sync |
| compare, repair | `syncer.py`, `compare.py`, `repair.py` | SHARE lock on the provider's table, two snapshots, two sorted dumps | lock, force two ticks, wait for the consumer, compare, fix |
| row handlers | `handler.py`, `handlers/*.py` | events of a batch collected per key | process_event, finish_batch |
| EXECUTE | `exec_attrs.py`, `playback.py:807-870` | none | does this node need the script? |
| REST variant | `rest/*.py` | batch file, CSV file | send the batch, or a whole table, to a REST service before the commit |
| deny triggers | `deny_trigger_manager.py` | `londiste.deny_trigger_info` | create, replace, drop, mark |
| copy source search | `util.py:20-99` | none | walk up the cascade |
| sequences | `admin.py:470-496`, `playback.py:1094-1109` | sequence values | publish, update, reconcile |
| command line | `cli.py` | none | dispatch |

**How they interact.** Worker and copy processes never talk to each other. They
share the rows of `londiste.table_info`: each loads them at the start of a batch
(and after each sleep of `sync_tables`), changes its own objects and stores the
changed ones. Administrative commands write the same rows from a third
connection. Both kinds of process consume the same queue, each from its own
registered position, and run the same batch code with `copy_thread` 0 or 1.

**What is hard.** The order of the independent commits of worker, copy process,
administrator, provider transactions and ticker; objects that are stale when
they are saved; the snapshot of the COPY, which must hide exactly the events the
COPY has seen and must be forgotten neither too early nor never; the hand-over,
at which two queue positions must be equal; batch collecting
(`pgq_min_count`, `pgq_min_interval`), which lets a consumer jump over a tick;
exceptions, after which the database is rolled back and the memory is not;
crashes of either process between any two commits; waits of each for the other.

**What makes the parts correct.** A table in state *ok* reflects an exact prefix of the
provider's history, no event reaches it twice, states are left only by their owners, no
more copies run than configured, every added table gets in sync and every ticked
transaction arrives. Compare looks at equal states, repair converges and leaves clean rows
alone, the lock on the provider is released. Buffering and collapsing the events of a
batch has the effect of applying them in order. A copy that is several transactions of
several processes leaves each row once, and what was dropped for it comes back. The REST
service is at most the current batch ahead of what was committed. The bookkeeping of the
deny triggers is true whoever else starts meanwhile. Every node of a cascade comes to know
the root's tables, less what is skipped on the way, and every script finds the version of
the tables it was written for. All this is modelled.

## 2. Modules

| module | models | kind |
|---|---|---|
| `TableSync` | `playback.py`, `table_copy.py`, and add/remove/resync of `admin.py` | detailed specification, its mutants, invariants and action properties |
| `Replica` | the promise of a node to its readers | abstract specification |
| `TableSyncInv` | – | inductive invariant of `TableSync`, in named parts |
| `MCTableSync` | – | instances for TLC, liveness |
| `TableSync_proofs` | – | type correctness of `TableSync`; `IInv` is inductive, with and without batch collecting; all safety properties of `TableSync`; it implements `Replica` |
| `Syncer` | `syncer.py`, `compare.py`, `repair.py` | detailed specification of one comparison or repair, its mutants, its inductive invariant |
| `MCSyncer` | – | fairness for TLC |
| `Syncer_proofs` | – | `IInv` is inductive; all safety properties of `Syncer` |
| `Batch` | `playback.py:459-503, 715-876`, `handler.py:255-279`, `handlers/bulk.py` | detailed specification of the events of a batch for one table, its mutants, its inductive invariant |
| `MCBatch` | – | symmetry for TLC |
| `Batch_proofs` | – | `Exact`, `NoConflict` and type correctness of `Batch` |
| `CopyTx` | `table_copy.py:68-258`, `util.py:106-325`, `playback.py:636-709, 1062-1092` | detailed specification of the transactions of a copy, of merged partitions, parallel workers and foreign keys |
| `MCCopyTx` | – | fairness, liveness |
| `CopyTx_proofs` | – | the inductive invariant and all safety properties of `CopyTx` |
| `Rest` | `rest/playback.py`, `rest/table_copy.py`, `rest/rest.py`, `rest/sqltools.py` | detailed specification of the REST variant |
| `MCRest` | – | fairness, liveness |
| `Rest_proofs` | – | `OneAhead` and type correctness of `Rest` |
| `Deny` | `deny_trigger_manager.py`, its call in `playback.py` | detailed specification of the trigger manager in every process |
| `MCDeny` | – | fairness, liveness |
| `Deny_proofs` | – | `Recorded`, `Enforced` and type correctness of `Deny` |
| `Cascade` | `admin.py`, `exec_attrs.py`, `util.py:20-99`, the catalogue events of `playback.py` | detailed specification of the catalogues of a cascade |
| `MCCascade` | – | symmetry, the bound on skip lists, a second initial state |
| `Cascade_proofs` | – | the inductive invariant and all properties of `Cascade` |

The detailed specifications look at the subscriber at different distances.
`TableSync` knows which events a table reflects and says when a process may apply
one; it takes a copy for one step, which `CopyTx` takes apart, and the events of a
batch for a set, which `Batch` looks at row by row. `Syncer` has rows and batches
but no copies. `Rest` has the batches of two processes and the service they go to.
`Deny` is what every process does when it starts. `Cascade` is the only module with
several nodes: it has catalogues and versions of tables, no rows. They share no
variables and are not composed: each takes from the others a step that these show
to be sound (`CopyTx!HandOver` is the hand-over of `TableSync`).

### `TableSync`: state

| variable | code |
|---|---|
| `log`, `tick`, `snapAt` | the provider: committed transactions in order, last tick, `tick_snapshot` |
| `reg`, `prev`, `cur` | queue consumers: registered, `prev_tick`, `cur_tick` of the open batch |
| `db` | `merge_state` (with the tick of *wanna-sync* and *do-sync*) and `custom_snapshot`; state *absent* is no row, *missing* is NULL |
| `data`, `twice` | content of each destination table; history of events applied to rows that had them |
| `pc` | where each process is in `process_remote_batch` / `sync_tables` |
| `mem` | the `TableState` objects of each process: `state`, `sync_tick_id`, `str_snapshot`, `changed`, `ok_batch_count`, `last_tick`, `last_snapshot_tick` |
| `work` | `work_state` (the last poll had a batch, or nothing is known) |
| `big`, `held`, `dsync` | `pgq_min_*` in force, how far a collecting poll has looked, `dsync_backup` |
| `mloop`, `launching` | result of this pass of `sync_from_main_thread`; the table inside `launch_copy` |
| `csnap` | snapshot of the REPEATABLE READ transaction of a COPY |

### `TableSync`: actions

A process runs `poll` (get a batch) → `load` → sync (`dosync`, `start`, `launch`
for the worker, `sync`, `copying` for a copy process; back to `load` on
`SYNC_LOOP`) → `cleanup` → `apply` → `poll`. An action is one transaction of the
code, or a stretch without one: `ChangeTableState` includes the save of every
changed object and the commit, `Cleanup` calls `gc_snapshot` for every table, and
`Apply` has the events, the bookkeeping of `interesting`, the final save and the
position of the consumer, which the code commits together. `MainStartCopy` and
`MainLaunch` are separate because the code commits *in-copy* before it waits for
the old pidfile. `CopySnapshot` and `CopyLoad` are separate because provider
transactions commit between the snapshot of a COPY and its end. `Fail` is an
exception anywhere in a batch: both connections roll back, memory stays, including
what `gc_snapshot` or `interesting` had already changed in any subset of the
objects. Crashes lose memory and the open transaction.

### `TableSync`: abstractions

* One transaction writes one table and makes one event, numbered in commit
  order. A snapshot is then a prefix of the log, and its length stands for it.
  A real snapshot can have holes (transactions in progress); what matters here
  is only which events it hides, and that every tick's snapshot is a prefix of a
  later one's. Within a batch the *queue* order differs from the commit order:
  when a batch makes `interesting` drop the snapshot, `Apply` chooses which
  hidden events come after that point.
* A destination table is the set of events it reflects; row handlers, SQL and
  foreign keys are not in this module. TRUNCATE and EXECUTE events are events
  like others.
* The check that a table is ok on the provider itself (`pmap`), the attributes
  that hold copies back (`max_parallel_copy`, `copy_node`) and the threads that a
  threaded copy counts for in `Counter` are left out: one provider. `copy_role`,
  `skip_truncate` and threaded copies are in `CopyTx`.
* `CopyOvershoot` is the exception "Invalid table state" with the retry that
  follows it. A pass of `sync_from_main_thread` handles the tables of each list
  in any order.
* `AddTable` with `CarefulAdmin` presupposes that nobody remembers a table of
  that name. `Resync` with `CarefulAdmin` presupposes that worker and copy
  process are stopped. Without it the administrator acts at any time.

### `TableSync`: bounds

`MaxCommit`, `MaxTick`, `MaxFault`, `MaxAdmin` bound provider transactions, ticks, faults
and administrative commands. A hand-over needs three ticks after the copy (one to catch
up, one seen as "no more", one to sync), so four ticks after the registration of a table
reach it and what comes next, and four after a finished copy reach it, a second copy, its
hand-over and one batch more. `OkBatchLimit` is three in the code and one in the runs:
that is the smallest limit the code's comment justifies, it makes the end of a snapshot
reachable in every run, and a larger one only keeps a snapshot longer. One event per table
and batch suffices for loss and duplication, two tables for competition.

`MCTableSync` gives the initial states: the worker's first start (`InitIn`), a
table added to a worker that has been running (`InitAdded`), and the moment at
which all copies were just committed (`InitCopied`, to spend the ticks on what
comes later: the second copy of a table, for example). The last two are reachable
from the first. Deadlock is checked in every run.

### `Syncer`

Five parties act on two tables. The *writer* holds a row lock from `Begin` to
`Commit` or `Abort`, and cannot begin while the tool holds or waits for its SHARE
lock. The *ticker* takes its snapshot (`TickSnap`) and commits the tick later
(`TickCommit`): a tick that is seen after the lock was taken may cover less than
what was committed before, which is why `lock_table_root` forces two. The *worker*
writes the rows of a batch one event at a time in an open transaction
(`ApplyEvent`), fails and begins again (`FailBatch`), or commits with the tick
(`CommitBatch`). The *clock* is `Elapse`. The *tool* runs `check_table` and the
rest step by step: `pc` is its place, `waitFor` first `cur_pos` and then
`tick_id`, `late` the expired lock timeout, `ssnap` and `dsnap` what its two
REPEATABLE READ transactions see, `srcLeft` and `dstLeft` the lines of the sorted
dumps not yet read, `fixes` what `show_fix` has issued. `MissedDelete`,
`MissedInsert` and `SameKey` are the three branches of `dump_compare_streams`;
with `--apply` each of them is a transaction of its own on the live table, waits
for the row locks of the worker's transaction (`Blocked`) and ends the program
when it meets the worker's row (`InsertFails`).

`drifted` is a history variable: the rows that differed before the tool started.
A comparison of a table that is being copied again, colliding hashes, and columns
the tools do not compare are left out; keys are compared as whole values, in the
one order that the dumps are sorted in (`repair.py` relies on `sort` and `cmp_keys`
to agree on it).

Bounds: two keys (a dump that ends before the other, and every order of two
lines), two values, two commits (one on each side of a tick; a delete and an insert
of a key, which make a repair's insert fail), the first tick and one more that
nobody waits for, before the lock or after the snapshots, besides the two forced
ones. Deadlock is not checked: the tool ends.

### `Batch`

`log` and `past` are the provider: the events in the order of the queue, and its
table after each of them. The worker opens a batch (`OpenBatch`: plugins and
`sql_list` are reset), handles its events in order (`pos`) and commits
(`FinishBatch`: `flush_sql`, `finish_batch`, the tick). With the plain handler an
event becomes a statement in `sql`; `flush_sql` runs the buffer when it has
`SqlLimit` statements (200 in the code), before an event that is run at once, and
at the end; the statements of the buffer are run one by one because each can fail
(`RunSql`). With the bulk handler an event is collected (`Collect`). `pend` keeps
per key what `prepare_data` makes of its list of events, computed as they come:
`before` and `after` are `exists_before` and `exists_after`, `row` is the data of
the last event. `DelList`, `UpdList`, `InsList` are the lists after the
adjustments for the method and for tables of key columns only; `Deleted`,
`Updated`, `Loaded` are the table after each of the three loads of `bulk_flush`.
`Fail` rolls back and keeps the memory (and the batch is then run statement by
statement, `slow`); `Crash` loses it.

Abstractions: one table with its key and one more column; keys do not change (an
UPDATE of a key is outside both handlers' model of an event); an EXECUTE sets the
column of every row; what is produced while a batch is open comes into a later
one. Tables without a primary key, which only see inserts, the encoding check and
`ignore_truncate` are left out.

Bounds: two keys, two values, four events (insert, delete, insert, update of one
key in one batch, or two batches of two), a buffer of two statements, one failure
or crash at any step. Keys are symmetric. Deadlock is not checked: the events end.

### `CopyTx`

One destination table, and the copy processes of one to three queues that merge into it.
`pc` is the place of each process in `sync_from_copy_thread` and `do_copy`; an action ends
where the code commits or waits. `lock` is what its open transaction has locked; what is
uncommitted is not in the variables, so a failure only drops the lock. `rows` counts how
often a block of rows is in the table: 1 is right, 0 is lost, 2 would be a duplicate. A
partially synced table is not truncated: the rows of its condition are deleted
(`table_copy.py:159-165`). The model has no other rows, and takes that DELETE for a
TRUNCATE (`Cleared`). `wk` are the processes of a threaded copy, per attempt: those of an
attempt whose copy process has failed run on, and commit what they were sent. `ddl` stands
for indexes and constraints together (a primary key among them, so that they cannot be
created over a duplicate), `saved` for `dropped_ddl`, `found` for `dst_struct` in the
memory of the process, `fk` for the foreign keys, which `drop_fkeys` moves to
`pending_fkeys` and `restore_fkeys` back.

Where the code does not get over a failure, two constants say so. `Repeatable` are
the attempts that leave nothing behind that the next one does not undo; with
`AnyFault` others fail too. `LateWorkers` lets a worker process begin its COPY after
its copy process has failed: then the next attempt's TRUNCATE may come first, and the
rows twice. Bounds: three queues (a lead, one that waits for it, one more that must
wait for both), two workers, three blocks (one worker gets two), two failures.

### `Rest`

`has` says which of the two processes has changes in a batch. A batch goes through
`OpenFile` (the file is emptied), `CloseFile`, `CallSync`, `RemoveEmpty` and
`FinishBatch`; a copy through `Csv`, `CallResync`, `FinishCopy`, after which the batch
goes on. `file[t]` is what the file `batch_<t>` contains: the changes of one process,
of both, or nothing. `CallFails` is a call that was served, or was not, and raised.
`snap` is the snapshot of the copy; a change is hidden by it or not. `wrong` notes that
the service got something that is not a batch of the caller; what it then has is the
fault of the shared file (finding `rest_file`), and `OneAhead` says nothing of it.
The table sync of the REST variant is that of `TableSync`, cut down to *in-copy* and
*catching-up*. Bounds: three batches (before, during and after the copy), one failure.

### `Deny`

`trig` are the triggers of a table, `info` the rows of `deny_trigger_info`. A process
reads the configuration (`Start`), then `deny_trigger_info` and its tables
(`ReadInfo`), and then brings one table after the other up to date, each in a
transaction of its own (`UpdateTable`), from what it has read. `Die` is the error of a
CREATE TRIGGER of one that is there. `mark` is `deny_triggers_only_mark_state`: the
administrator has created triggers by hand. Nothing in the code compares them with the
configuration; with `AsMarked`, a condition of the run and of the theorems on `Recorded`
and `Enforced`, they are those of the configuration, without it they are any. Until
the first run has marked them (`UnMark`) no table is added and the configuration stays.
`Running` lets the configuration change under running processes. remove-table is left
out: what it does to triggers and bookkeeping is an SQL function that is not here.
Bounds: two tables,
two processes, two filter conditions, one crash, one change.

### `Cascade`

Three nodes: the root, its subscriber, and that one's subscriber. `log` is the queue
with the catalogue events (add, remove, EXECUTE), `pos` how far each worker is; a
node's worker takes what its provider has already. `set` and `local` are the rows of
`table_info` and `seq_info` (known, attached), `ver` the version of the object in the
node's database: a script raises it by one on each node, and `base` of an event is the
version the script was written for. `cmd` is the administrator's command on a lower
node: it reads the provider's list (`ReadProvider`), brings the node's list up to date
in a transaction (`SyncTables`; `SyncSeqs`, which keeps nothing when the list has a
sequence too many, see section 5), checks its arguments (`Expand`), looks for
a copy source (`FindSource`) and attaches (`Attach`), with `--create` from a copy of the
source's table as it is *now*. Workers go on between any two of them.

`skip` is a setting of every node (`playback.py:408-411`, `admin.py:59-62`), and
`images/test/tests/register/regen.sh:47-48` sets it on a branch. An event goes to all
nodes whoever skips it; a command compares with the provider. A node below one that
skips a table may therefore know it, from the event, or not, after a command. `SetsAgree`
says what is certain all the same, `SetsEqual`, which is refuted (section 5), what one
might expect.

`Careful` is an administrator who does what the code leaves to him: no event is
processed between the two reads of a command, a table is attached and detached when
its scripts have run, a command that would detach what the provider has forgotten
(`sync_table_list` does, before anything else) waits for the scripts of those tables,
a script is only queued for tables that the root has, that every node has all or none
of and is not about to lose, a name is not used again before all nodes have
forgotten it. Without it each of the properties fails (section 5).
Abstractions: a batch is one event; scripts only have the attribute Local-Table;
`--all`, `--force`, `--dest-table`, `--skip-non-existing` and the wait options are left
out. Bounds: two tables and a sequence, three events (add, script, remove), two
commands; one of the lower nodes, the middle one or the last, may skip one object, and
then all databases have all objects (`MCCascade!OneSkip`; the theorems have no such
bound). `MCCascade!InitAttached` begins where everything is attached everywhere, to
spend the events on scripts and removals. Run by hand, the same properties hold where a
node skips an object and objects are missing too (7 million states).

## 3. Runs

| run | instance | asks | result |
|---|---|---|---|
| `sync` | 1 table, 2 transactions, 6 ticks, 1 fault, 1 command; from registration and from a finished copy | safety of the whole life of a table, every part of `IInv` | holds, 3.5 million states |
| `sync_two` | 2 tables, 1 copy slot, 2 transactions, 5 ticks | competition; refinement of `Replica` | holds, 3.8 million |
| `collect` | batch collecting, 2 transactions, 6 ticks, 1 fault | hand-over with collected batches, every part of `IInv` | holds, 3 million |
| `live` | 2 tables, 1 copy slot, 1 fault, 8 ticks | progress | holds |
| `syncer` | 2 keys, 2 values, 2 commits, every initial drift | false alarms, exactness and effect of a repair, release of the lock | holds, 2.5 million |
| `batch` | 2 keys, 2 values, 4 events, 1 failure, both handlers, all methods | the committed table, conflicts | holds, 4 million |
| `copy` | 3 queues, 2 workers, 3 blocks, 2 failures | rows, dropped objects and foreign keys of a copy; that it ends | holds, 90 thousand |
| `rest` | 3 batches, 1 failure | what the service has | holds, 1.6 million |
| `deny` | 2 tables, 2 processes, 2 conditions, 1 crash, 1 change | bookkeeping, triggers, their end | holds, 60 thousand |
| `cascade` | 3 nodes, 2 tables, 1 sequence, 3 events, 2 commands, one skip list; from empty nodes and from everything attached | lists, versions, blocked workers | holds, 2.2 million |
| `bulk_truncate` | `batch` with TRUNCATE and EXECUTE for bulk-loaded tables | that no event overtakes another | violated |
| `rest_file` | `rest` with the file that both processes use | that a batch is sent whole | violated |

The passing runs state the conditions under which the code is right. `Batch`: no TRUNCATE
or EXECUTE on bulk-loaded tables, and no method 2 for tables of key columns only.
`Syncer`: a ticker that runs. `TableSync`: one copy at a time, resync only with worker and
copy process stopped, and no fault while batches are collected (`CollectedPrefix` and
`SyncTickMet` speak of what happens before the first; `IInv`, too, speaks of that only
where batches are collected. The run `sync` checks it without collecting, `collect` with
collecting and no command; `CollectInv.cfg`, run by hand, adds one command and finds it
kept in all 10 million states). `CopyTx`: failures strike where the code can begin again,
and objects dropped by a threaded copy come back if it does not fail. `Deny`: the
configuration changes while the node is stopped, and triggers that are only marked are
those of the configuration. `Cascade`: a careful administrator. The violated runs, and the
configurations of section 5, each drop one.

### Properties

* `ExactPrefix`: a copied table reflects exactly what its snapshot or the last
  finished batch of the process that owns it saw.
* `AppliedOnce`: no event reaches rows that reflect it.
* `KeepsPromise`: refinement of `Replica`. The mapping serves the tables in state
  *ok*; what a table in another state holds is free.
* `HandOverAligned`: at *do-sync* → *ok* both consumers have finished the same
  batches and the worker is still held back.
* `SnapshotOutlived`: a snapshot is dropped only when its consumer is past it.
* `OwnerOnly`, `CopiesBounded`, `SyncTickMet`, `NoMutualWait`: what
  the comments of the code say of states, copy slots, ticks and waits.
* `CollectedPrefix`: `ExactPrefix` as long as no process failed, for `collect`.
* `SyncsEventually`, `EventsArrive`: progress.

* `SnapshotsAgree`: rows that had not drifted are equal in the two snapshots of the
  tools. `CleanRowsKept`: a repair never writes to them.
* `FixesExact`, `RepairConverges`: a finished merge has issued exactly the
  statements that make the target snapshot the source snapshot; an applied one
  makes the tables equal if the provider stood still.
* `LockReleased`: the lock on the provider does not stay.
* `Exact`: the committed table is the provider's table after the committed batches.
* `NoConflict`: no statement or COPY meets a row that should not be there (the batch
  would fail at every attempt).

* `CopyWhole`: a partition that has left *in-copy* is in the table completely and once.
* `ObjectsKept`: the objects dropped for a copy are back when all have ended.
* `FkeysWhole`: foreign keys are there only while all rows are. `AllCopied`: whoever
  waits for whose lock, role or pipe, all partitions get in sync, with foreign keys.
* `OneAhead`: the service has what was committed and at most the batch in work.
  `AllSent`: both processes commit every batch.
* `Recorded`: `deny_trigger_info` names the triggers that are there. `Enforced`: nobody
  undoes what a process has brought up to date. `Settled`: in the end every table has
  the triggers of the configuration.
* `SetsAgree`: a node that has processed all events knows nothing that the root has
  removed or that it skips, all else that its provider knows, and all of the root's that
  no node on the way skips. That holds in the middle of commands, and for sequences, which
  no skip list keeps out of a node (`update_seq`).
  `NeverBlocked`: no script stops a worker. `VersionExact`: an attached table has run
  exactly the scripts its node has come to. `Kept`: what is attached stays so, until
  it is detached here or removed from the root, or if a node above skips it.

Every property has a mutant of the code in the module itself (`X_y`, the variant
`y` of definition `X`) that breaks it in the same run.

### Fairness

`MCSyncer!LiveSpec` is fair to the steps of the tool (loops with a sleep), to the
clock and to the ticker, a daemon. It is not fair to the worker, which may hang,
nor to the writer, whose transaction may stay open: the timeouts are there for
them. `NoTickerSpec` drops the ticker.

`MCCopyTx!LiveSpec` is fair to every process that waits in a loop with a sleep, to the
processes of the pool, to the hand-over (`TableSync` shows that it comes) and to
`restore_fkeys`, which main calls in each of its passes. A copy process that has failed
is run again: after an exception by its own loop, after a crash by the administrator.
`MCRest!LiveSpec` is fair to both processes, provider and ticker, `MCDeny!LiveSpec` to
processes that were stopped: they are started again, by init or by hand. A process of
`Deny` that dies of a clash is among them: it comes up because the one it clashed with
has finished its table. `Cascade` has no fairness: its commands are people's.

`MCTableSync`: a copy process asks for its hand-over after it has once seen an empty queue
(`playback.py:677`), so nothing can be promised when the ticker is always faster
than the consumers. `LiveSpec` therefore lets a tick happen only when every
process has done what it can, and is weakly fair to the ticker and to the steps
of every running process: the loops of `skytools.DBScript` run forever and every
sleep ends. A worker that died is started again, and a dead copy process is run
again by the administrator (`londiste copy <table>`): the code itself never
restarts it, which is why this fairness is named and not assumed silently.
Faults are bounded, and not fair.

## 4. Proofs

`TableSync_proofs!TypeCorrect` proves `Spec => []TypeOK` for all tables, bounds
and configurations, from the assumptions named in `TableSync`. One lemma per
action or helper: `ChangeTableState`, `Saved` and `Clean` keep the types of rows
and objects, `Possible` and the batch ends stay in range; the step lemma has one
case per action.

`Syncer_proofs!Inductive` proves the invariant `IInv` of `Syncer` for all keys, rows,
commits and ticks, without a condition (the run `syncer` checks the
same formula). In parts: the log leads from one past table to the next
(`PastOK`); ticks cover growing prefixes and the worker is inside one batch (`TicksOK`);
until a repair writes, the rows that had not drifted are those of the provider at the
worker's tick (`WorkerOK`); under the lock nothing is written, and the second new tick,
and every later one, covers all of the log (`LockOK`); the snapshots were taken under
these conditions (`SnapOK`). From this `NoFalseAlarm` follows, that is `SnapshotsAgree`.
The heart is `LockOK`: the first forced tick may come from a snapshot taken before the
lock, the second cannot.

For the repair three parts more. `MergeOK` is the loop invariant of
`dump_compare_streams`: a key that both dumps have is still in both or in neither, and
the fixes issued are those of the keys that have left; `RepairExact` (`FixesExact`) is
its last state. `BatchOK` says what the worker's open transaction holds. `RepairOK`
relates the live table to the two of them: a row is what the tool knows of it (`Known`:
the target snapshot, or the source snapshot once an applied repair has come past it), or
it is what the provider had there at the worker's tick, because the worker wrote it after
the snapshot. That is why a repair on a live table converges when the provider
stands still (`RepairEnds`): both alternatives are then the provider's row.
`CleanRowsStay` is the action property `CleanRowsKept`.

`Batch_proofs!Exactness` and `Batch_proofs!NeverStuck` prove `Exact` and
`NoConflict` for all keys, rows, buffer sizes, histories and numbers of failures,
assuming `~BulkStatements` and `~MergedKeyOnly`. `Exact` alone is not inductive: the
invariant says that the table in the transaction and what waits in memory add up to
the provider's table after the events handled so far. For the plain handler
(`PlainInv`) the statements in the buffer are the last events handled, and the table
is the provider's before them. For the bulk handler (`BulkInv`) the notes of a key
tell whether it was there before the batch, whether it is there now, and its row.
`LoadedRow` is the lemma that the three loads, with any method, make the rows of
today from the rows before the batch. `TypeCorrect` holds without the two
assumptions.

The rest of `TableSync_proofs` proves the safety of `TableSync` for any tables, commits,
ticks, failures, restarts and commands, under two conditions. `Simple` is one copy at a time
and careful administration; section 5 names what fails without each. Where batches are
collected the invariant speaks of the time before the first fault only (`Tidy`), because a
copy process that is restarted in *do-sync* does jump over the sync tick.
`ExactPrefix` and `AppliedOnce` are not inductive: what a process does depends on
its objects, so the invariant must say how far an object can be behind its row
(`InvMain`, `InvCopy`), what the counters in memory imply about the queue positions
(`InvCounters`), what each state of a row says of both consumers (`InvRows`), and which
events the data reflect (`InvData`). The theorem `Inductive` is `Spec => []IInv` under
`Simple`, with and without collecting.

The argument goes table by table. `TableOK(t)` is what `IInv` says of one table;
`Frame` shows that a step that touches nothing `TableOK(u)` is about keeps it, and
for the other table each action has a lemma of its own (`CommitStep` to `FailStep`). The
lemmas that carry the weight:

* `Aligned`: at the sync tick the copy process's open batch is main's open batch.
* `CountedMem`: a snapshot is dropped after `OkBatchLimit` counted batches only if an earlier
  batch was past it, since the same batch is never counted twice in a row;
  `CollectedCopy`: a copy process's `gc_snapshot` never drops one.
* `AppliedIs`: so no event that the snapshot hides is left in the batch at that moment,
  in whatever order events come.
* `Advance`: from the later of a snapshot and a tick, a filtered batch leads to the later
  of the snapshot and the next tick, and brings nothing twice.
* `FailMem`: what a batch that failed leaves in memory is still covered by the invariant.
* `DsyncKept`, `TuneKept`: with batches of many ticks, the two consumers meet at a
  hand-over only if main's batch is the single tick after its last one. What makes it so
  is `dsync` (`dsync_backup`, `playback.py:567-594`): main takes single batches from the
  batch on in which it saw a table in *wanna-sync*. `DsyncInv` says what that rests on:
  since then the table waits at or before that tick, no other can come to wait, as one
  copy runs at a time, and main gives up a batch that it had collected before it names a
  tick.

`PrefixCollected` (`CollectedPrefix`) and `TickMet` (`SyncTickMet`) follow from `IInv`
under `Simple`. The other theorems speak of all of a behaviour, so they assume `Sound`:
`Simple`, and batches are not collected or nothing fails. `PrefixKept`, `OnceOnly`,
`Bounded` and `NeverWaits` (`NoMutualWait`: main launches a copy process only when the
table has none) follow from `IInv`. For the action properties, `EveryRowMoves` sorts all
steps by what they make of a row: main, the copy process or the administrator moves it, or
main or the copy process drops its snapshot; each of `OwnersMove`, `HandedOverAligned` and
`SnapshotsOutlived` excludes some of these. `PromiseKept` is the refinement: a commit is a
`Write`, a hand-over an `Enter`, a command of the administrator a `Leave`, and every other
step an `Advance` of the tables that are served or a stutter.

`Rest_proofs!NeverBehind` proves `OneAhead` for any number of batches and failures.
`OneAhead` by itself is not inductive: `RestInv` adds which batch a process is in and what
it needs to have been sent by then (`Sent`), that a copy precedes the first batch of its
process (`CopyFirst`), that positions stay behind ticks and ticks behind commits
(`Ahead`), and that the service is sent nothing in the name of a process but changes of
its tables (`Own`).

`Deny_proofs!Bookkeeping` proves `Recorded` for any tables, filters, processes, crashes
and edits, under `AsMarked`. An update changes each trigger and its row in the same way,
whatever the process has read (`NewPoint`): that is why stale reads do no harm to the
bookkeeping. What it needs besides is that the triggers themselves do not change while
they are only marked (`Marked`): that is where `AsMarked` is needed, since what is written
for a mark is the configuration. `Deny_proofs!Protected` proves `Enforced` under
`AsMarked` and `~Running`: then a trigger is either as a process has read it, or already
as it must be (`Current`).

`CopyTx_proofs` proves `CopyWhole`, `ObjectsKept` and `FkeysWhole` for any number of
queues, workers, blocks and failures, under `Calm`: `~AnyFault /\ ~LateWorkers`, the two
conditions under which the code gets over a failure. (`TypeCorrect` needs neither.) The
invariant ties four things together that the code keeps in different places: where each
process is, the state of its queue, the role it has loaded some time ago, and the mode
it derived from it (`Control`, `RolesAre`, `Modes`). The arguments:

* A role may be stale, but only one queue is the lowest, so at most one process ever
  leads; who waits for the lead finds `dropped_ddl` stored (`Ready`) before it copies.
* Who holds the lock that keeps everybody away is a single copy that has not begun to
  send (`Locks`): so no TRUNCATE meets the COPY of another partition, and the lead's
  comes before any of them.
* A failure of a threaded copy strikes only where it starts from an empty table; what is
  left of the failed attempt are workers inside their COPY, which hold the table, so the
  next attempt's TRUNCATE comes after their end (`Workers`). `Rows` then says which
  blocks are there: those that the workers of this attempt have committed.
* The objects are in the table, in the memory of a process that will not fail before it
  creates them, or stored with the lead's queue (`Objects`); foreign keys are gone before
  the first row goes, and return when every queue has left *in-copy* (`Fkeys`).

`Cascade_proofs` proves `SetsAgree`, `VersionExact`, `NeverBlocked` and the action
property `Kept`, for any depth, tables, sequences, events, commands and skip lists of
every node, under `Careful`; its `TypeCorrect` without. `Lists` says of the lists that
what is on its way to a node (`Coming`, in an order that `Ordered` restricts) leads to
what the root has, and that a node to which nothing about an object is on its way knows it
only if the root does, does if its provider does, and does if the root does and no node on
the way skips it (`Known`, `Free`), which no command disturbs because what it has read is
still true when it uses it (`Fresh`). `Exact` is the sum that every script keeps: the
version of an attached table and the scripts still to come make the root's version. With
`Based`, the same for the version a script was written for, the next script of a worker
finds the version that it needs; with `Whole` it finds all of its tables or none, and that
is `NeverBlocked`. The proof attempt showed a step that the properties did not survive and
that TLC's bounds had not reached: the first thing add-table does is to bring the node's
list up to date, and that detaches tables whose scripts are still to come (section 5).
`Careful` has a condition for it since, and the run a second initial state that reaches
it.

What stays with TLC: all liveness (`SyncsEventually`, `EventsArrive`, `LockReleased`,
`AllCopied`, `AllSent`, `Settled`), since fairness and ENABLED are out of reach of the
prover. Every invariant and every other action property of a passing run is a theorem.
Outside of the conditions of the theorems there is nothing left to prove: `TableSync`
without `Simple` or with faults among collected batches, `CopyTx` with `AnyFault` or
`LateWorkers`, `Deny` without `AsMarked` and `Cascade` without `Careful` do not have the
properties (section 5).

## 5. Findings

Two divergences between the code and what its comments say are kept as runs and
quoted in `PROJECT.json`:

* `bulk_truncate`: TRUNCATE and EXECUTE flush `sql_list` but not what the bulk handler
  has collected, so they overtake the events before them.
* `rest_file`: the file of a batch has the same name in all processes of the REST
  variant, so one empties it while the other is about to send it.

The following configurations give further counterexamples, each by dropping one
condition of a passing run. They are run by hand (and so is `CollectInv`, which passes:
section 3).

| configuration | module | property | what happens |
|---|---|---|---|
| `TickerDead` | `MCSyncer` | `LockReleased` | the lock timeout does not cover `force_tick` (`syncer.py:211`): with a stopped ticker the SHARE lock, and every writer, waits for ever |
| `GcStale` | `MCTableSync` | `SnapshotOutlived` | `last_snapshot_tick` (`playback.py:285`) survives a change of the snapshot; after a resync the running worker drops the new snapshot at once |
| `CopiesOverwrite` | `MCTableSync` | `OwnerOnly` | with `parallel_copies = 2`, a copy process that drops the snapshot of another table saves that table as it had loaded it (`playback.py:954`, `1053`): a table that waits in *wanna-sync* by now is *catching-up* again |
| `LaunchWaits` | `MCTableSync` | `NoMutualWait` | a resync while the table's copy process runs makes worker and copy process wait for each other (`playback.py:1013`) |
| `HandOverMerged` | `MCTableSync` | `HandOverAligned` | with `pgq_min_*`, a hand-over at equal batch ends but different batch starts loses the events in between |
| `CopyDdlLost` | `MCCopyTx` | `ObjectsBack` | a threaded copy commits the drop of indexes and constraints and keeps them in memory only (`table_copy.py:152`); a failure loses them |
| `CopyLeadRetry` | `MCCopyTx` | `CopyWhole` | a lead that fails between its first commit (`dropped_ddl`) and the end of its copy truncates again when it begins anew, and takes what others have copied meanwhile (`table_copy.py:170`) |
| `DenyClash` | `MCDeny` | `NoClash` | two processes that start together both create a trigger; one dies (`deny_trigger_manager.py:126`) |
| `DenyEdited` | `MCDeny` | `Enforced` | a process that started before an edit of the configuration writes the old triggers over the new |
| `DenyMarked` | `MCDeny` | `Recorded` | with `deny_triggers_only_mark_state` the bookkeeping is written from the configuration without a look at the triggers (`deny_trigger_manager.py:120-134`); where they are others, or none, it names what is not there |
| `CascadeSkip` | `MCCascade` | `SetsEqual` | the root adds a table, a node skips it, the node below adds it from the same event (`playback.py:878-886`) though its provider does not know it; the next add-table there removes it again (`admin.py:348-353`), and detaches it if it was attached: `Kept` without its last exception |
| `CascadeScript` | `MCCascade` | `NeverBlocked` | `--create` copies a table as it is now, and the scripts still to come then run on a table that has them; or only some tables of a script are attached |
| `CascadeList` | `MCCascade` | `SetsAgree` | the provider's list, read before the node's worker removed a table, brings it back (`admin.py:348`) |

With other constants the same modules show relatives of these. With `CarefulAdmin =
FALSE`, a running copy process overwrites a resync (`OwnerOnly`), a resync between its
last load and save is lost (`ResyncKept`), and a resynced table frees its slot while its
copy goes on (`CopiesBounded`, two tables). With `ParallelCopies = 2`, a copy process
drops the snapshot of another table, because `gc_snapshot` looks at the state of a table
and not at whose it is (`SnapshotOutlived`, two tables), and so `IInv` cannot be proved
for more than one copy at a time: `OwnerOnly` is false there (`CopiesOverwrite`). With
`BatchCollect = TRUE` and one fault, a copy process restarted in *do-sync* jumps over the
sync tick and retries forever (`SyncTickMet` without its condition on faults). With
`Careful = FALSE`, `Cascade` also loses `VersionExact` and `Kept`; and `NeverBlocked` in
one more way: after a removal at the provider, add-table of another table synchronises the
lists (`admin.py:337-353`), which detaches the removed table at once, and a script for it
and a second table, still to come to this node, then finds only one of the two.

`Batch` shows two more of the bulk handler. With `MergedKeyOnly = TRUE`, method 2
loses every insert into a table of key columns only: `bulk_flush` moves the inserts
to the update list (`bulk.py:192`) and then drops that list, because such a table
has nothing to update (`bulk.py:232`). With `BulkStatements = TRUE`, a batch whose
only event for the table is a TRUNCATE cannot finish (`NoColumns`): `bulk_flush`
builds its column list from data events it never saw (`bulk.py:181`). No property of a
passing run covers these two, since the instances leave the cases out.

Some behaviour the modules reproduce as it is:

* `handlers/dispatch.py:734` and `handlers/shard.py:91` define
  `prepare_batch(self, batch_info, src_curs, dst_curs)` and call
  `super().prepare_batch(batch_info, dst_curs)`, one argument short. The first event of
  a table with one of these handlers raises, so their routing and collapsing code
  cannot run at this commit.
* `find_copy_source` returns the name it was given when the provider itself is the
  source. `cmd_add_table` gives it "?" (`admin.py:194`), so `--find-copy-node --create`
  with a good direct provider fails in `get_provider_db` (`admin.py:643-650`):
  `Cascade!FindSource` refuses it.
* `sync_seq_list` deletes from the dictionary it iterates over (`admin.py:491-496`). The
  RuntimeError comes before the commit (`admin.py:427`), so all that the command did is
  rolled back, and it is the same at every attempt: add-seq cannot get past a sequence
  that the provider has removed, until the node's worker has come to its removal
  (`Cascade!SyncSeqs`).
* `update_seq` adds a sequence that `register_skip_seqs` lists (`playback.py:1102`), so a
  sequence reaches every node whoever skips it (`Cascade!Skips`).
* `cmd_execute` queues a script also when the root has none of its tables
  (`admin.py:628-638`); it then runs where they are. `Cascade!Execute` has it; the careful
  administrator does not queue one.
* With `deny_triggers_only_mark_state` unused triggers are dropped all the same
  (`deny_trigger_manager.py:103-115`), though the comment at `playback.py:385` says that
  the state is only marked; `Deny!Dropped` has it.
* Without `rest_work_dir`, `rest/playback.py:47-49` sets a local variable and not the
  attribute that is used.

## 6. Plan

Done: `TableSync` with `Replica`, `Syncer`, `Batch`, `CopyTx` (with the merge of
partitions and the foreign keys), `Rest`, `Deny`, `Cascade` (with EXECUTE, sequences and
the search of a copy source), and the theorems of section 4. What would come next:

1. If `gc_snapshot` were to leave the tables of other processes alone, `TableSync` with
   more than one copy at a time: `InvOne` and the last part of `CopyOK`, which use
   `ParallelCopies = 1`, would become statements about the processes that own the tables.
2. If a copy process restarted in *do-sync* were to take single batches (`playback.py:648`),
   `IInv` with collected batches and faults: `Tidy` would no longer be needed.

## 7. Not modelled

* `handlers/dispatch.py`, `handlers/shard.py`: cannot run at this commit (section 5).
* The handlers `applyfn`, `column_mapper`, `multimaster`, `obfuscate`, `qtable`, `vtable`:
  maps of one event without state, or a call of a function in the database.
* `util.py` beyond the parallel COPY and `find_copy_source`: formatting and quoting.
* change-handler, the wait commands (`wait-sync`, `wait-root`, `wait-provider`) and the
  displays of `admin.py`: they write nothing another part reads, or only wait.
* EXECUTE attributes other than Local-Table: they are matched in the same way (all of
  the values hold here, or none, or the script is refused) against other lists of names.
* `rest/compare.py`: the comparison of `Syncer` with another way to get the rows.
  Partition merging in the REST variant.
* Command line, packaging, images, documentation generators, connection handling: they
  hold no state of their own.
* The SQL functions of `pgq`, `pgq_node` and `londiste` live in other repositories and
  appear as the code here uses them; PostgreSQL appears as its locks, its unique keys
  and its snapshots.
