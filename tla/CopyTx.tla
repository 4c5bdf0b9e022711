------------------------------- MODULE CopyTx -------------------------------
(***************************************************************************)
(* The transactions of one full copy: CopyTable.do_copy and the parallel   *)
(* COPY of util.py.  TableSync takes a copy for one step that happens or   *)
(* does not; here it is taken apart.                                       *)
(*                                                                         *)
(* One destination table is filled by the copy processes of one queue, or  *)
(* of several queues that merge their partitions into it.  A process drops *)
(* the foreign keys, then indexes and constraints, truncates, copies -     *)
(* itself, or through worker processes that commit alone - and puts the    *)
(* dropped objects back.  Each commit is a step; the process may fail, and *)
(* begins again, between any two of them.                                  *)
(***************************************************************************)
EXTENDS Integers, FiniteSets

CONSTANTS
  Part,          \* queues (numbers, in the order of their names)
  Parallel,      \* threaded_copy_pool_size
  NBlock,        \* blocks of rows that COPY sends
  MaxFault,      \* bound: failures of a copy process or a worker
  AnyFault,      \* failures strike where a copy cannot be repeated, too
  LateWorkers    \* a worker may start its COPY after its copy process failed

ASSUME CopyAssumption ==
  /\ Part \subseteq Nat /\ IsFiniteSet(Part) /\ Part # {}
  /\ Parallel \in Nat \ {0} /\ NBlock \in Nat /\ MaxFault \in Nat
  /\ AnyFault \in BOOLEAN /\ LateWorkers \in BOOLEAN

VARIABLES
  cf,      \* the configuration: queues of the table, threaded copy, skip_truncate
  st,      \* merge_state of the table in each queue
  saved,   \* dropped_ddl is in the table's row
  ddl,     \* the table has its indexes and constraints
  fk,      \* the table has its foreign keys (if not, they are pending)
  rows,    \* rows[p][b]: how often the table has block b of partition p
  pc,      \* where each copy process is
  role,    \* copy_role as the process last loaded it
  cmode,   \* 0: don't touch, 1: single tx, 2: multi tx
  found,   \* dst_struct: the objects the process found on the table
  lock,    \* the lock that the process's transaction has on the table
  try,     \* number of the process's attempt
  sent,    \* sent[p][g]: blocks sent in attempt g
  wk,      \* wk[p][g][w]: worker w of attempt g
  fault    \* failures so far

vars == <<cf, st, saved, ddl, fk, rows, pc, role, cmode, found, lock, try, sent,
          wk, fault>>

Block == 1..NBlock
Worker == 0..(Parallel - 1)
Try == 1..(MaxFault + 1)
States == {"absent", "in-copy", "catching-up", "wanna-sync", "ok"}
Roles == {"none", "lead", "wait-copy", "wait-replay"}
Places == {"idle", "sync", "wait", "fkeys", "prepare", "copy", "copying", "sending",
           "joining", "copied", "waitall"}
WorkerStates == {"none", "started", "copying", "committed", "failed"}

-----------------------------------------------------------------------------
(* Helpers *)

NoRows == [b \in Block |-> 0]
AllRows == [b \in Block |-> 1]

\* copy_role of londiste.get_table_list, as do_copy and sync_from_copy_thread use
\* it: the lead drops the DDL while the others wait, then all copy, and until the
\* last one has copied nobody goes on.
Role(p) ==
  LET holder == {q \in cf.parts : saved[q]}
  IN IF \/ cf.parts = {p}
        \/ \A q \in cf.parts : st[q] # "in-copy" THEN "none"
     ELSE IF holder # {} THEN (IF p \in holder THEN "lead" ELSE "wait-replay")
     ELSE IF \A q \in cf.parts : p <= q THEN "lead" ELSE "wait-copy"

\* cmode of do_copy
Mode(r) == CASE r = "none" -> 1 [] r = "lead" -> 2 [] OTHER -> 0

\* the worker that send_blocks gives block b
OwnerOf(b) == (b - 1) % Parallel

\* the rows after p, which holds the table alone, has dropped the data.  (Of a partially
\* synced table only the rows of its condition are deleted: those it has from here.)
Cleared == IF cf.skip THEN rows ELSE [p \in Part |-> NoRows]

\* the rows after one more copy of the blocks in B, which are p's
Added(r, p, B) == [r EXCEPT ![p] = [b \in Block |-> IF b \in B THEN @[b] + 1 ELSE @[b]]]

\* workers, of any attempt, that are inside their COPY
Copying == {x \in cf.parts \X Try \X Worker : wk[x[1]][x[2]][x[3]] = "copying"}

\* LOCK TABLE waits for everyone, COPY for the holder of that lock
Free(p) == Copying = {} /\ \A q \in cf.parts \ {p} : lock[q] = "none"
Open(p) == \A q \in cf.parts \ {p} : lock[q] # "exclusive"

\* the objects can be created: the primary key allows no row twice
Unique(r) == \A p \in Part, b \in Block : r[p][b] <= 1

-----------------------------------------------------------------------------
(* A copy process: sync_from_copy_thread *)

\* load_table_state; a state that is not the copy process's business ends it
Load(p) ==
  /\ pc[p] = "idle" /\ st[p] \in {"in-copy", "catching-up"}
  /\ role' = [role EXCEPT ![p] = Role(p)]
  /\ pc' = [pc EXCEPT ![p] = "sync"]
  /\ UNCHANGED <<cf, st, saved, ddl, fk, rows, cmode, found, lock, try, sent, wk, fault>>

\* table is not copied yet, do it
BeginCopy(p) ==
  /\ pc[p] = "sync" /\ st[p] = "in-copy"
  /\ pc' = [pc EXCEPT ![p] = "wait"]
  /\ UNCHANGED <<cf, st, saved, ddl, fk, rows, role, cmode, found, lock, try, sent, wk,
                 fault>>

\* partition merging: SYNC_LOOP while others copy
MergeWait(p) ==
  /\ pc[p] = "sync" /\ st[p] = "catching-up" /\ role[p] \in {"wait-replay", "lead"}
  /\ pc' = [pc EXCEPT ![p] = "idle"]
  /\ UNCHANGED <<cf, st, saved, ddl, fk, rows, role, cmode, found, lock, try, sent, wk,
                 fault>>

\* restore_copy_ddl: the objects come back and dropped_ddl is forgotten
RestoreDdl(p) ==
  /\ pc[p] = "sync" /\ st[p] = "catching-up" /\ role[p] \notin {"wait-replay", "lead"}
  /\ saved[p] /\ Unique(rows)
  /\ \A q \in cf.parts : lock[q] = "none"
  /\ ddl' = TRUE
  /\ saved' = [saved EXCEPT ![p] = FALSE]
  /\ pc' = [pc EXCEPT ![p] = "idle"]
  /\ UNCHANGED <<cf, st, fk, rows, role, cmode, found, lock, try, sent, wk, fault>>

\* mutant: a copy that has caught up does not look for dropped objects
WannaSync_noDdl(p) ==
  /\ pc[p] = "sync" /\ st[p] = "catching-up" /\ role[p] \notin {"wait-replay", "lead"}
  /\ st' = [st EXCEPT ![p] = "wanna-sync"]
  /\ pc' = [pc EXCEPT ![p] = "idle"]
  /\ UNCHANGED <<cf, saved, ddl, fk, rows, role, cmode, found, lock, try, sent, wk, fault>>

\* seems we have caught up
WannaSync(p) ==
  /\ pc[p] = "sync" /\ st[p] = "catching-up" /\ role[p] \notin {"wait-replay", "lead"}
  /\ ~saved[p]
  /\ st' = [st EXCEPT ![p] = "wanna-sync"]
  /\ pc' = [pc EXCEPT ![p] = "idle"]
  /\ UNCHANGED <<cf, saved, ddl, fk, rows, role, cmode, found, lock, try, sent, wk, fault>>

-----------------------------------------------------------------------------
(* A copy process: do_copy *)

\* waiting for first partition to initialize copy
WaitCopy(p) ==
  /\ pc[p] = "wait" /\ role[p] = "wait-copy"
  /\ role' = [role EXCEPT ![p] = Role(p)]
  /\ UNCHANGED <<cf, st, saved, ddl, fk, rows, pc, cmode, found, lock, try, sent, wk, fault>>

\* mutant: the others do not wait for the lead
ChooseMode_noWait(p) ==
  /\ pc[p] = "wait"
  /\ cmode' = [cmode EXCEPT ![p] = Mode(role[p])]
  /\ pc' = [pc EXCEPT ![p] = IF cmode'[p] > 0 THEN "fkeys" ELSE "copy"]
  /\ UNCHANGED <<cf, st, saved, ddl, fk, rows, role, found, lock, try, sent, wk, fault>>

ChooseMode(p) ==
  /\ pc[p] = "wait" /\ role[p] # "wait-copy"
  /\ cmode' = [cmode EXCEPT ![p] = Mode(role[p])]
  /\ pc' = [pc EXCEPT ![p] = IF cmode'[p] > 0 THEN "fkeys" ELSE "copy"]
  /\ UNCHANGED <<cf, st, saved, ddl, fk, rows, role, found, lock, try, sent, wk, fault>>

\* drop_fkeys commits, so it comes before anything else
DropFkeys(p) ==
  /\ pc[p] = "fkeys" /\ (fk => Free(p))
  /\ fk' = FALSE
  /\ pc' = [pc EXCEPT ![p] = "prepare"]
  /\ UNCHANGED <<cf, st, saved, ddl, rows, role, cmode, found, lock, try, sent, wk, fault>>

\* lock, find the structure, drop objects and data.  A lead that has not done so
\* before stores the DDL and commits; everyone else goes on inside the transaction.
Prepare(p) ==
  /\ pc[p] = "prepare" /\ Free(p)
  /\ found' = [found EXCEPT ![p] = ddl]
  /\ IF cmode[p] = 2 /\ ~saved[p]
     THEN /\ saved' = [saved EXCEPT ![p] = ddl]
          /\ ddl' = FALSE
          /\ rows' = Cleared
          /\ UNCHANGED lock
     ELSE /\ lock' = [lock EXCEPT ![p] = "exclusive"]
          /\ UNCHANGED <<saved, ddl, rows>>
  /\ pc' = [pc EXCEPT ![p] = "copy"]
  /\ UNCHANGED <<cf, st, fk, role, cmode, try, sent, wk, fault>>

\* real_copy, in the transaction of the process
CopyIn(p) ==
  /\ pc[p] = "copy" /\ ~cf.threaded /\ Open(p)
  /\ lock' = [lock EXCEPT ![p] = IF @ = "none" THEN "row" ELSE @]
  /\ pc' = [pc EXCEPT ![p] = "copying"]
  /\ UNCHANGED <<cf, st, saved, ddl, fk, rows, role, cmode, found, try, sent, wk, fault>>

\* real_copy_threaded: commit what was done so far and start the workers
Spawn(p) ==
  /\ pc[p] = "copy" /\ cf.threaded
  /\ IF lock[p] = "exclusive" THEN ddl' = FALSE /\ rows' = Cleared
                              ELSE UNCHANGED <<ddl, rows>>
  /\ lock' = [lock EXCEPT ![p] = "none"]
  /\ wk' = [wk EXCEPT ![p][try[p]] = [w \in Worker |-> "started"]]
  /\ pc' = [pc EXCEPT ![p] = "sending"]
  /\ UNCHANGED <<cf, st, saved, fk, role, cmode, found, try, sent, fault>>

\* mutant: one block too many
SendBlock_oneMore(p) ==
  /\ pc[p] = "sending" /\ sent[p][try[p]] <= NBlock
  /\ sent' = [sent EXCEPT ![p][try[p]] = @ + 1]
  /\ UNCHANGED <<cf, st, saved, ddl, fk, rows, pc, role, cmode, found, lock, try, wk, fault>>

\* send_blocks fails when the worker has closed its end
SendBlock(p) ==
  /\ pc[p] = "sending" /\ sent[p][try[p]] < NBlock
  /\ wk[p][try[p]][OwnerOf(sent[p][try[p]] + 1)] # "failed"
  /\ sent' = [sent EXCEPT ![p][try[p]] = @ + 1]
  /\ UNCHANGED <<cf, st, saved, ddl, fk, rows, pc, role, cmode, found, lock, try, wk, fault>>

\* flush: close all pipes
ClosePipes(p) ==
  /\ pc[p] = "sending" /\ sent[p][try[p]] = NBlock
  /\ pc' = [pc EXCEPT ![p] = "joining"]
  /\ UNCHANGED <<cf, st, saved, ddl, fk, rows, role, cmode, found, lock, try, sent, wk,
                 fault>>

\* flush: f.result() of every worker
Joined(p) ==
  /\ pc[p] = "joining" /\ \A w \in Worker : wk[p][try[p]][w] = "committed"
  /\ pc' = [pc EXCEPT ![p] = "copied"]
  /\ UNCHANGED <<cf, st, saved, ddl, fk, rows, role, cmode, found, lock, try, sent, wk,
                 fault>>

\* the end of the copy is one transaction: rows (unless workers committed them),
\* state, snapshot and, with a single one, the objects that were found before
Commit(p) ==
  /\ pc[p] \in {"copying", "copied"}
  /\ rows' = IF pc[p] = "copied" THEN rows
             ELSE Added(IF lock[p] = "exclusive" THEN Cleared ELSE rows, p, Block)
  /\ cmode[p] = 1 => /\ found[p] => Unique(rows')
                     /\ pc[p] = "copied" => Free(p)
  /\ ddl' = IF cmode[p] = 1 THEN found[p] ELSE ddl
  /\ st' = [st EXCEPT ![p] = "catching-up"]
  /\ lock' = [lock EXCEPT ![p] = "none"]
  /\ pc' = [pc EXCEPT ![p] = IF cmode[p] = 2 THEN "waitall" ELSE "idle"]
  /\ UNCHANGED <<cf, saved, fk, role, cmode, found, try, sent, wk, fault>>

\* mutant: the table's state is not loaded again
WaitAll_stale(p) ==
  /\ pc[p] = "waitall" /\ role[p] # "none"
  /\ UNCHANGED vars

\* waiting for other partitions to finish copy
WaitAll(p) ==
  /\ pc[p] = "waitall" /\ role[p] # "none"
  /\ role' = [role EXCEPT ![p] = Role(p)]
  /\ UNCHANGED <<cf, st, saved, ddl, fk, rows, pc, cmode, found, lock, try, sent, wk, fault>>

\* the lead puts the objects back
LeadDone(p) ==
  /\ pc[p] = "waitall" /\ role[p] = "none"
  /\ saved[p] => Unique(rows) /\ \A q \in cf.parts : lock[q] = "none"
  /\ ddl' = (ddl \/ saved[p])
  /\ saved' = [saved EXCEPT ![p] = FALSE]
  /\ pc' = [pc EXCEPT ![p] = "idle"]
  /\ UNCHANGED <<cf, st, fk, rows, role, cmode, found, lock, try, sent, wk, fault>>

-----------------------------------------------------------------------------
(* A worker of a threaded copy: copy_worker_proc *)

WorkerCopies(p, g, w) ==
  /\ wk[p][g][w] = "started" /\ \A q \in cf.parts : lock[q] # "exclusive"
  /\ wk' = [wk EXCEPT ![p][g][w] = "copying"]
  /\ UNCHANGED <<cf, st, saved, ddl, fk, rows, pc, role, cmode, found, lock, try, sent,
                 fault>>

\* the pipe of attempt g is closed, by flush or because the process is gone
Closed(p, g) == g < try[p] \/ pc[p] # "sending"

\* at the end of the pipe the worker commits what it was sent
WorkerCommits(p, g, w) ==
  /\ wk[p][g][w] = "copying" /\ Closed(p, g)
  /\ rows' = Added(rows, p, {b \in 1..sent[p][g] : OwnerOf(b) = w})
  /\ wk' = [wk EXCEPT ![p][g][w] = "committed"]
  /\ UNCHANGED <<cf, st, saved, ddl, fk, pc, role, cmode, found, lock, try, sent, fault>>

-----------------------------------------------------------------------------
(* Failures *)

\* where a failed attempt leaves nothing that the next one does not undo: not a
\* threaded copy that does not clear the table before it starts again, and not a
\* lead between its two commits
Repeatable(p) == IF cf.parts = {p} THEN ~(cf.threaded /\ cf.skip)
                 ELSE ~cf.threaded /\ (saved[p] => st[p] # "in-copy")

WorkerFails(p, w) ==
  /\ fault < MaxFault /\ (AnyFault \/ Repeatable(p))
  /\ wk[p][try[p]][w] \in {"started", "copying"}
  /\ wk' = [wk EXCEPT ![p][try[p]][w] = "failed"]
  /\ fault' = fault + 1
  /\ UNCHANGED <<cf, st, saved, ddl, fk, rows, pc, role, cmode, found, lock, try, sent>>

\* the copy process's transaction is rolled back and its pipes close; its workers
\* run on.  An attempt that lost a worker ends like this without another fault.
Abandon(p) ==
  /\ lock' = [lock EXCEPT ![p] = "none"]
  /\ pc' = [pc EXCEPT ![p] = "idle"]
  /\ IF pc[p] \in {"sending", "joining", "copied"}
     THEN /\ try' = [try EXCEPT ![p] = @ + 1]
          /\ wk' = [wk EXCEPT ![p][try[p]] = [w \in Worker |->
                      IF @[w] = "started" /\ ~LateWorkers THEN "failed" ELSE @[w]]]
     ELSE UNCHANGED <<try, wk>>
  /\ UNCHANGED <<cf, st, saved, ddl, fk, rows, role, cmode, found, sent>>

Fail(p) ==
  /\ pc[p] # "idle" /\ fault < MaxFault /\ (AnyFault \/ Repeatable(p))
  /\ fault' = fault + 1
  /\ Abandon(p)

WorkerLost(p) ==
  /\ pc[p] \in {"sending", "joining"} /\ \E w \in Worker : wk[p][try[p]][w] = "failed"
  /\ UNCHANGED fault
  /\ Abandon(p)

-----------------------------------------------------------------------------
(* The worker of the queue *)

\* the hand-over of TableSync
HandOver(p) ==
  /\ st[p] = "wanna-sync"
  /\ st' = [st EXCEPT ![p] = "ok"]
  /\ UNCHANGED <<cf, saved, ddl, fk, rows, pc, role, cmode, found, lock, try, sent, wk,
                 fault>>

\* mutant: restore_all_fkeys, whatever the state of the tables
RestoreFkeys_all ==
  /\ ~fk /\ Copying = {} /\ \A p \in cf.parts : lock[p] = "none"
  /\ fk' = TRUE
  /\ UNCHANGED <<cf, st, saved, ddl, rows, pc, role, cmode, found, lock, try, sent, wk,
                 fault>>

\* restore_fkeys: valid pending foreign keys, those of tables in sync
RestoreFkeys ==
  /\ ~fk /\ Copying = {} /\ \A p \in cf.parts : st[p] = "ok" /\ lock[p] = "none"
  /\ fk' = TRUE
  /\ UNCHANGED <<cf, st, saved, ddl, rows, pc, role, cmode, found, lock, try, sent, wk,
                 fault>>

-----------------------------------------------------------------------------
\* A table before its first copy is empty; one that is copied again still has its
\* old rows, and perhaps foreign keys that were not dropped on the way.
Init ==
  /\ cf \in [parts : {{q \in Part : q <= n} : n \in Part}, threaded : BOOLEAN,
             skip : BOOLEAN]
  /\ st = [p \in Part |-> IF p \in cf.parts THEN "in-copy" ELSE "absent"]
  /\ \E old \in {NoRows, AllRows} :
       /\ cf.skip => old = NoRows
       /\ rows = [p \in Part |-> IF p \in cf.parts THEN old ELSE NoRows]
       /\ fk \in {FALSE, old = AllRows}
  /\ ddl = TRUE
  /\ saved = [p \in Part |-> FALSE]
  /\ pc = [p \in Part |-> "idle"]
  /\ role = [p \in Part |-> "none"]
  /\ cmode = [p \in Part |-> 0]
  /\ found = [p \in Part |-> FALSE]
  /\ lock = [p \in Part |-> "none"]
  /\ try = [p \in Part |-> 1]
  /\ sent = [p \in Part |-> [g \in Try |-> 0]]
  /\ wk = [p \in Part |-> [g \in Try |-> [w \in Worker |-> "none"]]]
  /\ fault = 0

Process(p) ==
  \/ Load(p) \/ BeginCopy(p) \/ MergeWait(p) \/ RestoreDdl(p) \/ WannaSync(p)
  \/ WaitCopy(p) \/ ChooseMode(p) \/ DropFkeys(p) \/ Prepare(p)
  \/ CopyIn(p) \/ Spawn(p) \/ SendBlock(p) \/ ClosePipes(p) \/ Joined(p)
  \/ Commit(p) \/ WaitAll(p) \/ LeadDone(p) \/ WorkerLost(p)

WorkerStep(p, g, w) == WorkerCopies(p, g, w) \/ WorkerCommits(p, g, w)

Next ==
  \/ \E p \in cf.parts : Process(p) \/ HandOver(p) \/ Fail(p)
  \/ \E p \in cf.parts, w \in Worker : WorkerFails(p, w)
  \/ \E p \in cf.parts, g \in Try, w \in Worker : WorkerStep(p, g, w)
  \/ RestoreFkeys

Spec == Init /\ [][Next]_vars

-----------------------------------------------------------------------------
(* Properties *)

\* The variables have their types.
TypeOK ==
  /\ cf \in [parts : SUBSET Part, threaded : BOOLEAN, skip : BOOLEAN]
  /\ st \in [Part -> States]
  /\ saved \in [Part -> BOOLEAN] /\ ddl \in BOOLEAN /\ fk \in BOOLEAN
  /\ rows \in [Part -> [Block -> Nat]]
  /\ pc \in [Part -> Places] /\ role \in [Part -> Roles] /\ cmode \in [Part -> 0..2]
  /\ found \in [Part -> BOOLEAN]
  /\ lock \in [Part -> {"none", "row", "exclusive"}]
  /\ try \in [Part -> Try] /\ sent \in [Part -> [Try -> 0..NBlock]]
  /\ wk \in [Part -> [Try -> [Worker -> WorkerStates]]]
  /\ fault \in 0..MaxFault

\* A partition that has left in-copy is in the table completely and once, whatever
\* other processes truncate, which workers committed, and how often a copy began
\* again (table_copy.py:156-170, 192, 215; util.py:253).
CopyWhole == \A p \in cf.parts : st[p] # "in-copy" => rows[p] = AllRows

\* When every copy has ended the table has the objects that were dropped for it
\* ("create previously dropped objects", table_copy.py:219, 232; playback.py:695).
ObjectsBack == (\A p \in cf.parts : st[p] \in {"wanna-sync", "ok"}) => ddl

\* The same where the code keeps them: a threaded copy commits the drop before it
\* copies and remembers the objects in memory only, so it must not fail.
ObjectsKept == (cf.threaded => fault = 0) => ObjectsBack

\* The table has foreign keys only while all of its rows are there: dropped before
\* the first of them goes, restored after the last has come (playback.py:1062-1092).
FkeysWhole == fk => \A p \in cf.parts : rows[p] = AllRows
=============================================================================
