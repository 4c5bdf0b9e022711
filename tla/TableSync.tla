------------------------------ MODULE TableSync ------------------------------
(***************************************************************************)
(* How one subscriber node brings its tables in sync with the provider and *)
(* keeps them there: londiste/playback.py (class Replicator, TableState)   *)
(* and londiste/table_copy.py (class CopyTable).                           *)
(*                                                                         *)
(* The main worker and one copy process per table run the same batch code. *)
(* Both consume the provider's queue, each from its own position.  They    *)
(* share nothing but the subscriber's database, where every table has a    *)
(* state (merge_state) and a snapshot (custom_snapshot).  Each process     *)
(* acts on a copy of these rows in its own memory, which it refreshes at   *)
(* load_table_state and writes back at save_table_state.                   *)
(*                                                                         *)
(* Data abstraction.  One transaction on the provider writes one table and *)
(* makes one event; the i-th to commit is event i.  A snapshot (that of a  *)
(* tick or that of a COPY) sees the transactions that committed before it, *)
(* a prefix of the log, so it is the length of that prefix.  A destination *)
(* table is the set of events its rows reflect, and "twice" the events     *)
(* that reached it although it reflected them already.                     *)
(*                                                                         *)
(* A definition X_y stands before the definition X it is a wrong variant   *)
(* of; it is what a plausible bug would make of X, and shows that a        *)
(* property can fail.  The specification uses none of them.                *)
(***************************************************************************)
EXTENDS Integers, Sequences, FiniteSets

CONSTANTS
    Tables,          \* the tables of the subscriber; each names its copy process
    Main,            \* the main worker process
    ParallelCopies,  \* config parallel_copies
    OkBatchLimit,    \* interesting batches before the snapshot is dropped (3)
    BatchCollect,    \* pgq_min_count / pgq_min_interval are configured
    CarefulAdmin,    \* resync only while the table's processes are stopped
    MaxCommit, MaxTick, MaxFault, MaxAdmin   \* bounds of the model

ASSUME TablesAssumption == IsFiniteSet(Tables) /\ Main \notin Tables
ASSUME ConfigAssumption ==
    /\ ParallelCopies \in Nat \ {0}
    /\ OkBatchLimit \in Nat \ {0}
    /\ BatchCollect \in BOOLEAN
    /\ CarefulAdmin \in BOOLEAN
ASSUME BoundAssumption ==
    /\ MaxCommit \in Nat
    /\ MaxTick \in Nat
    /\ MaxFault \in Nat
    /\ MaxAdmin \in Nat

VARIABLES
    \* the provider
    log,        \* log[i] is the table written by the i-th committed transaction
    tick,       \* the last tick of the queue
    snapAt,     \* snapAt[k] is the snapshot of tick k
    \* the queue's record of its consumers
    reg,        \* the processes registered as consumers
    prev, cur,  \* last finished tick; end of the open batch (cur = prev: none)
    \* the subscriber's database
    db,         \* londiste.table_info: state, sync tick and snapshot per table
    data,       \* events reflected by the rows of the destination table
    twice,      \* history: events applied to rows that reflected them already
    \* the processes
    pc,         \* where each process is
    mem,        \* table_list: the TableState objects of each process
    work,       \* work_state: the last poll of the queue had a batch
    big,        \* pgq_min_count / pgq_min_interval are in force
    held,       \* last tick seen by a poll that held its batch back
    dsync,      \* main: dsync_backup[0], 0 for None
    mloop,      \* main: this pass of sync_from_main_thread returns SYNC_LOOP
    launching,  \* main: table whose copy process is being launched
    csnap,      \* copy: the snapshot its COPY reads from
    faults, admins  \* bounded counters

provider == <<log, tick, snapAt>>
queue    == <<reg, prev, cur>>
subscr   == <<db, data, twice>>
tuning   == <<work, big, held>>
sync     == <<dsync, mloop, launching, csnap>>
bounds   == <<faults, admins>>
vars     == <<provider, queue, subscr, pc, mem, tuning, sync, bounds>>

Procs   == Tables \cup {Main}
NoSnap  == -1
NoTick  == 0
Copying == {"in-copy", "catching-up", "wanna-sync", "do-sync"}
States  == {"absent", "missing", "ok"} \cup Copying

-----------------------------------------------------------------------------
\* Events and snapshots

\* What table t looks like to a snapshot of length n.
Ev(t, n) == {i \in 1..Len(log) : i <= n /\ log[i] = t}

\* The events of t in the batch between two ticks.
BatchEv(t, from, to) == Ev(t, snapAt[to]) \ Ev(t, snapAt[from])

-----------------------------------------------------------------------------
\* TableState: one table in the memory of one process

NewTableState_unset ==
    [state |-> "absent", tick |-> NoTick, snap |-> NoSnap,
     changed |-> FALSE, okc |-> 0, last |-> NoSnap, gc |-> NoSnap]

\* A new object, before load_table_state gives it its row.
NewTableState == [state |-> "absent", tick |-> NoTick, snap |-> NoSnap,
                  changed |-> FALSE, okc |-> 0, last |-> 0, gc |-> NoTick]

\* loaded_state: the row is taken over, the counters of earlier batches stay.
\* (The code also keeps the tick of an earlier state; nothing reads it then.)
LoadedState(r, row) ==
    IF row.state = "absent" THEN NewTableState
    ELSE [r EXCEPT !.state = row.state, !.tick = row.tick,
                   !.snap = row.snap, !.changed = FALSE]

\* change_state
ChangeState(r, s, k) ==
    IF r.state = s /\ r.tick = k THEN r
    ELSE [r EXCEPT !.state = s, !.tick = k, !.changed = TRUE]

\* change_snapshot with tag_changed
ChangeSnapshot(r, s) ==
    IF r.snap = s THEN r
    ELSE [r EXCEPT !.snap = s, !.okc = 0, !.last = 0, !.changed = TRUE]

GcSnapshot_lagging(r, isCopy, from, to, noLag) ==
    IF r.snap = NoSnap \/ r.state # (IF isCopy THEN "catching-up" ELSE "ok") THEN r
    ELSE IF r.gc = NoTick THEN [r EXCEPT !.gc = to]
    ELSE IF r.gc < from THEN ChangeSnapshot(r, NoSnap)
    ELSE r

\* gc_snapshot: note that a copy process looks at the state of whatever table
\* it is called for, not only of its own.
GcSnapshot(r, isCopy, from, to, noLag) ==
    IF r.snap = NoSnap \/ r.state # (IF isCopy THEN "catching-up" ELSE "ok") THEN r
    ELSE IF r.gc = NoTick THEN [r EXCEPT !.gc = IF noLag THEN to ELSE NoTick]
    ELSE IF r.gc < from THEN ChangeSnapshot(r, NoSnap)
    ELSE r

Wants_notDoSync(p, t) ==
    IF p = Main THEN mem[p][t].state = "ok"
    ELSE p = t /\ mem[p][t].state = "catching-up"

\* interesting: is the process to apply the events of the table at all?
Wants(p, t) ==
    IF p = Main THEN mem[p][t].state = "ok"
    ELSE p = t /\ mem[p][t].state \in {"catching-up", "do-sync"}

\* interesting: the bookkeeping of a batch with an event outside the snapshot.
CountBatch(r, k) ==
    IF k = r.last THEN r
    ELSE LET n == [r EXCEPT !.last = k, !.okc = @ + 1]
         IN  IF n.okc > OkBatchLimit THEN ChangeSnapshot(n, NoSnap) ELSE n

-----------------------------------------------------------------------------
\* The database side of the table rows

Saved_upsert(ts) ==
    [t \in Tables |->
        IF ts[t].changed
        THEN [state |-> ts[t].state, tick |-> ts[t].tick, snap |-> ts[t].snap]
        ELSE db[t]]

\* save_table_state: every changed object overwrites its row, whatever the row
\* has become since it was loaded; a removed row stays removed.
Saved(ts) ==
    [t \in Tables |->
        IF ts[t].changed /\ db[t].state # "absent"
        THEN [state |-> ts[t].state, tick |-> ts[t].tick, snap |-> ts[t].snap]
        ELSE db[t]]

Clean(ts) == [t \in Tables |-> [ts[t] EXCEPT !.changed = FALSE]]

\* change_table_state: change one object, store all changed ones, commit.
ChangeTableState(p, t, s, k) ==
    LET ts == [mem[p] EXCEPT ![t] = ChangeState(@, s, k)]
    IN  /\ db' = Saved(ts)
        /\ mem' = [mem EXCEPT ![p] = Clean(ts)]

Goto(p, l) == pc' = [pc EXCEPT ![p] = l]

\* A process that ends takes its TableState objects with it.
Forget(p) == mem' = [mem EXCEPT ![p] = [t \in Tables |-> NewTableState]]

TableRow(s) == [state |-> s, tick |-> NoTick, snap |-> NoSnap]

-----------------------------------------------------------------------------
\* The provider: transactions commit, the ticker ticks

Commit(t) ==
    /\ Len(log) < MaxCommit
    /\ log' = Append(log, t)
    /\ UNCHANGED <<tick, snapAt, queue, subscr, pc, mem, tuning, sync, bounds>>

Tick ==
    /\ tick < MaxTick
    /\ tick' = tick + 1
    /\ snapAt' = [snapAt EXCEPT ![tick + 1] = Len(log)]
    /\ UNCHANGED <<log, queue, subscr, pc, mem, tuning, sync, bounds>>

-----------------------------------------------------------------------------
\* The administrator (londiste/admin.py)

\* No process runs that could hold the table's row in memory.
Stopped(t) == pc[Main] = "down" /\ pc[t] = "none"

\* Nobody remembers a table of that name.
Forgotten(t) == pc[t] = "none" /\ mem[Main][t].state = "absent"

Admin(t, s) ==
    /\ admins < MaxAdmin
    /\ admins' = admins + 1
    /\ db' = [db EXCEPT ![t] = TableRow(s)]
    /\ UNCHANGED <<provider, queue, data, twice, pc, mem, tuning, sync, faults>>

AddTable(t) ==
    /\ db[t].state = "absent"
    /\ CarefulAdmin => Forgotten(t)
    /\ Admin(t, "missing")

RemoveTable(t) ==
    /\ db[t].state # "absent"
    /\ Admin(t, "absent")

Resync(t) ==
    /\ db[t].state \notin {"absent", "missing"}
    /\ CarefulAdmin => Stopped(t)
    /\ Admin(t, "missing")

-----------------------------------------------------------------------------
\* What both kinds of process do: get a batch, load the table states

\* The ticks the next batch of p may end at.  Without pgq_min_* it is the next
\* tick; with them the queue picks any tick that its last answer did not see.
NextEnds(p) ==
    IF big[p] THEN {k \in prev[p] + 1 .. tick : k > held[p]}
    ELSE {prev[p] + 1} \cap 1..tick

\* An open batch is handed out again until it is finished.
Poll(p) ==
    /\ pc[p] = "poll"
    /\ \/ cur[p] > prev[p] /\ UNCHANGED cur
       \/ /\ cur[p] = prev[p]
          /\ \E k \in NextEnds(p) : cur' = [cur EXCEPT ![p] = k]
    /\ Goto(p, "load")
    /\ UNCHANGED <<provider, reg, prev, subscr, mem, tuning, sync, bounds>>

\* There is no batch: the process sleeps, and remembers that it was up to date.
Idle(p) ==
    /\ pc[p] = "poll"
    /\ cur[p] = prev[p]
    /\ big[p] \/ prev[p] = tick
    /\ work' = [work EXCEPT ![p] = FALSE]
    /\ held' = IF big[p] THEN [held EXCEPT ![p] = tick] ELSE held
    /\ UNCHANGED <<provider, queue, subscr, pc, mem, big, sync, bounds>>

\* load_table_state, and into sync_tables
Load(p) ==
    /\ pc[p] = "load"
    /\ mem' = [mem EXCEPT ![p] = [t \in Tables |-> LoadedState(mem[p][t], db[t])]]
    /\ mloop' = IF p = Main THEN FALSE ELSE mloop
    /\ Goto(p, IF p = Main THEN "dosync" ELSE "sync")
    /\ UNCHANGED <<provider, queue, subscr, tuning, dsync, launching, csnap, bounds>>

-----------------------------------------------------------------------------
\* sync_from_main_thread

\* Tables whose copy process waits for main, and main has come far enough.
Waiting == {t \in Tables : /\ mem[Main][t].state = "wanna-sync"
                           /\ cur[Main] >= mem[Main][t].tick}

DsyncOk_always == TRUE

\* Hand-overs need small batches, also the one that is open now.
DsyncOk == ~big[Main] /\ dsync < cur[Main]

MainDoSync(t) ==
    /\ pc[Main] = "dosync"
    /\ DsyncOk
    /\ t \in Waiting
    /\ ChangeTableState(Main, t, "do-sync", cur[Main])
    /\ UNCHANGED <<provider, queue, data, twice, pc, tuning, sync, bounds>>

\* mutant: the backup names the tick before the open batch
MainTune_prevTick ==
    LET needDsync == Waiting # {}
    IN  /\ pc[Main] = "dosync"
        /\ DsyncOk => ~needDsync
        /\ IF needDsync
           THEN /\ big' = [big EXCEPT ![Main] = FALSE]
                /\ dsync' = IF big[Main] THEN prev[Main] ELSE dsync
           ELSE /\ big' = [big EXCEPT ![Main] = @ \/ dsync # 0]
                /\ dsync' = 0
        /\ Goto(Main, "start")
        /\ UNCHANGED <<provider, queue, subscr, mem, work, held, mloop, launching,
                       csnap, bounds>>

\* Tune the batch size once every waiting table was looked at.
MainTune ==
    LET needDsync == Waiting # {}
    IN  /\ pc[Main] = "dosync"
        /\ DsyncOk => ~needDsync
        /\ IF needDsync
           THEN /\ big' = [big EXCEPT ![Main] = FALSE]
                /\ dsync' = IF big[Main] THEN cur[Main] ELSE dsync
           ELSE /\ big' = [big EXCEPT ![Main] = @ \/ dsync # 0]
                /\ dsync' = 0
        /\ Goto(Main, "start")
        /\ UNCHANGED <<provider, queue, subscr, mem, work, held, mloop, launching,
                       csnap, bounds>>

Possible_inCopy ==
    ParallelCopies - Cardinality({t \in Tables : mem[Main][t].state = "in-copy"})

Possible_served ==
    ParallelCopies
        - Cardinality({t \in Tables : mem[Main][t].state \in Copying \cup {"ok"}})

\* npossible of the code: Counter counts the tables in a copy state once when
\* the pass begins, and every copy it starts takes one off.
Possible == ParallelCopies
                - Cardinality({t \in Tables : mem[Main][t].state \in Copying})

MainStartCopy(t) ==
    /\ pc[Main] = "start"
    /\ mem[Main][t].state = "missing"
    /\ Possible > 0
    /\ ChangeTableState(Main, t, "in-copy", NoTick)
    /\ launching' = {t}
    /\ mloop' = TRUE
    /\ Goto(Main, "launch")
    /\ UNCHANGED <<provider, queue, data, twice, tuning, dsync, csnap, bounds>>

\* launch_copy: waits while a copy process of the table holds its pidfile.
MainLaunch(t) ==
    /\ pc[Main] = "launch"
    /\ t \in launching
    /\ pc[t] = "none"
    /\ pc' = [pc EXCEPT ![Main] = "start", ![t] = "reg"]
    /\ launching' = {}
    /\ UNCHANGED <<provider, queue, subscr, mem, tuning, dsync, mloop, csnap, bounds>>

MainAgain_noWait == mloop

\* SYNC_LOOP while a table is being handed over or a copy was started just now.
MainAgain == mloop \/ \E t \in Tables : mem[Main][t].state = "do-sync"

\* All tables were looked at: SYNC_LOOP or SYNC_OK.
MainSyncDone ==
    /\ pc[Main] = "start"
    /\ ~\E t \in Tables : mem[Main][t].state = "missing" /\ Possible > 0
    /\ Goto(Main, IF MainAgain THEN "load" ELSE "cleanup")
    /\ UNCHANGED <<provider, queue, subscr, mem, tuning, sync, bounds>>

-----------------------------------------------------------------------------
\* sync_from_copy_thread, for the copy process of table t

\* register_copy_consumer: an existing registration keeps its position.
Register(t) ==
    /\ pc[t] = "reg"
    /\ reg' = reg \cup {t}
    /\ IF t \in reg THEN UNCHANGED <<prev, cur>>
       ELSE /\ prev' = [prev EXCEPT ![t] = tick]
            /\ cur' = [cur EXCEPT ![t] = tick]
    /\ Goto(t, "poll")
    /\ UNCHANGED <<provider, subscr, mem, tuning, sync, bounds>>

\* The table is gone or in no copy state: SYNC_EXIT.
CopyLost(t) ==
    /\ pc[t] = "sync"
    /\ mem[t][t].state \notin Copying
    /\ Goto(t, "exit")
    /\ UNCHANGED <<provider, queue, subscr, mem, tuning, sync, bounds>>

SmallBatches_notYet(t) == UNCHANGED big

\* pgq_min_count and pgq_min_interval "may cause copy to miss right tick".
SmallBatches(t) == big' = [big EXCEPT ![t] = FALSE]

AtSyncTick_early(t) == cur[t] <= mem[t][t].tick

AtSyncTick(t) == cur[t] = mem[t][t].tick

\* Main has started to wait at the sync tick: the copy's batch that ends there
\* is main's open batch, so the table is handed over before it.
CopyHandOver(t) ==
    /\ pc[t] = "sync"
    /\ mem[t][t].state = "do-sync"
    /\ AtSyncTick(t)
    /\ SmallBatches(t)
    /\ ChangeTableState(t, t, "ok", NoTick)
    /\ Goto(t, "exit")
    /\ UNCHANGED <<provider, queue, data, twice, work, held, sync, bounds>>

\* Behind the sync tick: process this batch.
CopyBehind(t) ==
    /\ pc[t] = "sync"
    /\ mem[t][t].state = "do-sync"
    /\ cur[t] < mem[t][t].tick
    /\ SmallBatches(t)
    /\ Goto(t, "cleanup")
    /\ UNCHANGED <<provider, queue, subscr, mem, work, held, sync, bounds>>

\* Past the sync tick: "Invalid table state", the same batch is tried again.
CopyOvershoot(t) ==
    /\ pc[t] = "sync"
    /\ mem[t][t].state = "do-sync"
    /\ cur[t] > mem[t][t].tick
    /\ SmallBatches(t)
    /\ work' = [work EXCEPT ![t] = TRUE]
    /\ Goto(t, "poll")
    /\ UNCHANGED <<provider, queue, subscr, mem, held, sync, bounds>>

\* Wait for main to react.
CopyWait(t) ==
    /\ pc[t] = "sync"
    /\ mem[t][t].state = "wanna-sync"
    /\ Goto(t, "load")
    /\ UNCHANGED <<provider, queue, subscr, mem, tuning, sync, bounds>>

\* More batches are known to be there: process this one.
CopyCatchUp(t) ==
    /\ pc[t] = "sync"
    /\ mem[t][t].state = "catching-up"
    /\ work[t]
    /\ Goto(t, "cleanup")
    /\ UNCHANGED <<provider, queue, subscr, mem, tuning, sync, bounds>>

\* The poll before this batch found nothing: ask main for the hand-over.
CopyWantSync(t) ==
    /\ pc[t] = "sync"
    /\ mem[t][t].state = "catching-up"
    /\ ~work[t]
    /\ ChangeTableState(t, t, "wanna-sync", cur[t])
    /\ Goto(t, "load")
    /\ UNCHANGED <<provider, queue, data, twice, tuning, sync, bounds>>

\* do_copy, first half: the REPEATABLE READ transaction on the provider.
CopySnapshot(t) ==
    /\ pc[t] = "sync"
    /\ mem[t][t].state = "in-copy"
    /\ csnap' = [csnap EXCEPT ![t] = Len(log)]
    /\ Goto(t, "copying")
    /\ UNCHANGED <<provider, queue, subscr, mem, tuning, dsync, mloop, launching, bounds>>

\* The rows that are left before the COPY.
Truncated(t) == {}

CopiedState_noSnapshot(t) == ChangeState(mem[t][t], "catching-up", NoTick)

\* The table's state and snapshot after the COPY.
CopiedState(t) == ChangeSnapshot(ChangeState(mem[t][t], "catching-up", NoTick), csnap[t])

\* do_copy, second half: truncate, load, state and snapshot in one transaction;
\* then the process forgets that it was up to date.
CopyLoad(t) ==
    LET ts == [mem[t] EXCEPT ![t] = CopiedState(t)]
    IN  /\ pc[t] = "copying"
        /\ data' = [data EXCEPT ![t] = Truncated(t) \cup Ev(t, csnap[t])]
        /\ twice' = [twice EXCEPT ![t] = Truncated(t) \cap Ev(t, csnap[t])]
        /\ db' = Saved(ts)
        /\ mem' = [mem EXCEPT ![t] = Clean(ts)]
        /\ work' = [work EXCEPT ![t] = TRUE]
        /\ Goto(t, "load")
        /\ UNCHANGED <<provider, queue, big, held, sync, bounds>>

\* A process that starts knows nothing and has the configured batch size.
Restarted(p) ==
    /\ Forget(p)
    /\ work' = [work EXCEPT ![p] = TRUE]
    /\ big' = [big EXCEPT ![p] = BatchCollect]
    /\ held' = [held EXCEPT ![p] = NoTick]

\* unregister_consumer and exit
CopyExit(t) ==
    /\ pc[t] = "exit"
    /\ reg' = reg \ {t}
    /\ Restarted(t)
    /\ Goto(t, "none")
    /\ UNCHANGED <<provider, prev, cur, subscr, sync, bounds>>

-----------------------------------------------------------------------------
\* What both kinds of process do with the batch

\* The objects after gc_snapshot was called for every table.
Collected(p) ==
    [t \in Tables |-> GcSnapshot(mem[p][t], p # Main, prev[p], cur[p], ~work[p])]

\* copy_snapshot_cleanup: every table of the list, in a transaction of its own.
Cleanup(p) ==
    /\ pc[p] = "cleanup"
    /\ db' = Saved(Collected(p))
    /\ mem' = [mem EXCEPT ![p] = Clean(Collected(p))]
    /\ Goto(p, "apply")
    /\ UNCHANGED <<provider, queue, data, twice, tuning, sync, bounds>>

Applied_offByOne(p, t, late) ==
    LET b == BatchEv(t, prev[p], cur[p])
    IN  IF Wants(p, t) THEN {i \in b : i > mem[p][t].snap + 1 \/ i \in late} ELSE {}

Applied_unfiltered(p, t, late) ==
    IF Wants(p, t) THEN BatchEv(t, prev[p], cur[p]) ELSE {}

\* The events of the batch that p applies to t, when those of the snapshot that
\* come after the snapshot was dropped are in "late": event order in the queue
\* is the order of insertion, not the order of commits.
Applied(p, t, late) ==
    LET b == BatchEv(t, prev[p], cur[p])
    IN  IF Wants(p, t) THEN {i \in b : i > mem[p][t].snap \/ i \in late} ELSE {}

\* The objects after interesting was called for every event.
Counted(p) ==
    [t \in Tables |-> LET r == mem[p][t]
                      IN  IF r.snap # NoSnap /\ Applied(p, t, {}) # {}
                          THEN CountBatch(r, cur[p]) ELSE r]

\* Events, table states and the finished batch are committed together.
Apply(p) ==
    LET dropping == {t \in Tables : Counted(p)[t].snap # mem[p][t].snap}
    IN  /\ pc[p] = "apply"
        /\ \E late \in SUBSET UNION {BatchEv(t, prev[p], cur[p]) : t \in dropping} :
              /\ data' = [t \in Tables |-> data[t] \cup Applied(p, t, late)]
              /\ twice' = [t \in Tables |->
                              twice[t] \cup (data[t] \cap Applied(p, t, late))]
        /\ db' = Saved(Counted(p))
        /\ mem' = [mem EXCEPT ![p] = Clean(Counted(p))]
        /\ prev' = [prev EXCEPT ![p] = cur[p]]
        /\ work' = [work EXCEPT ![p] = TRUE]
        /\ Goto(p, "poll")
        /\ UNCHANGED <<provider, reg, cur, big, held, sync, bounds>>

-----------------------------------------------------------------------------
\* Faults

\* An exception in the batch: both connections roll back, the process sleeps
\* and gets the same batch again.  Its memory stays, with what gc_snapshot and
\* interesting had done to any of the tables by then.
Fail(p) ==
    /\ faults < MaxFault
    /\ faults' = faults + 1
    /\ pc[p] \in {"load", "dosync", "sync", "start", "copying", "cleanup", "apply", "exit"}
    /\ \/ pc[p] \notin {"cleanup", "apply"} /\ UNCHANGED mem
       \/ \E done \in SUBSET Tables :
             LET ts == IF pc[p] = "cleanup" THEN Collected(p) ELSE Counted(p)
             IN  /\ pc[p] \in {"cleanup", "apply"}
                 /\ mem' = [mem EXCEPT ![p] =
                               [t \in Tables |-> IF t \in done THEN ts[t] ELSE mem[p][t]]]
    /\ work' = [work EXCEPT ![p] = TRUE]
    /\ Goto(p, "poll")
    /\ UNCHANGED <<provider, queue, subscr, big, held, sync, admins>>

CrashMain ==
    /\ faults < MaxFault
    /\ faults' = faults + 1
    /\ pc[Main] # "down"
    /\ Restarted(Main)
    /\ dsync' = 0
    /\ launching' = {}
    /\ Goto(Main, "down")
    /\ UNCHANGED <<provider, queue, subscr, mloop, csnap, admins>>

StartMain ==
    /\ pc[Main] = "down"
    /\ Goto(Main, "poll")
    /\ UNCHANGED <<provider, queue, subscr, mem, tuning, sync, bounds>>

CrashCopy(t) ==
    /\ faults < MaxFault
    /\ faults' = faults + 1
    /\ pc[t] # "none"
    /\ Restarted(t)
    /\ Goto(t, "none")
    /\ UNCHANGED <<provider, queue, subscr, sync, admins>>

\* Nothing in the code starts a dead copy process again: the administrator has
\* to run "londiste copy <table>" (not while main is about to launch it).
RestartCopy(t) ==
    /\ pc[t] = "none"
    /\ t \notin launching
    /\ db[t].state \in Copying
    /\ Goto(t, "reg")
    /\ UNCHANGED <<provider, queue, subscr, mem, tuning, sync, bounds>>

-----------------------------------------------------------------------------
\* The worker runs for the first time, after the tables were created or not;
\* "ok" is a table of a node created with --expect-sync before the provider wrote.
InitIn(states) ==
    /\ log = <<>>
    /\ tick = 0
    /\ snapAt = [k \in 0..MaxTick |-> 0]
    /\ reg = {Main}
    /\ prev = [p \in Procs |-> 0]
    /\ cur = [p \in Procs |-> 0]
    /\ db \in [Tables -> {TableRow(s) : s \in states}]
    /\ data = [t \in Tables |-> {}]
    /\ twice = [t \in Tables |-> {}]
    /\ pc = [p \in Procs |-> IF p = Main THEN "poll" ELSE "none"]
    /\ mem = [p \in Procs |-> [t \in Tables |-> NewTableState]]
    /\ work = [p \in Procs |-> TRUE]
    /\ big = [p \in Procs |-> BatchCollect]
    /\ held = [p \in Procs |-> NoTick]
    /\ dsync = 0
    /\ mloop = FALSE
    /\ launching = {}
    /\ csnap = [t \in Tables |-> 0]
    /\ faults = 0
    /\ admins = 0

Init == InitIn({"absent", "missing", "ok"})

Provider == Tick \/ \E t \in Tables : Commit(t)

Setup == \E t \in Tables : AddTable(t) \/ RemoveTable(t) \/ Resync(t)

Batch(p) == Poll(p) \/ Idle(p) \/ Load(p) \/ Cleanup(p) \/ Apply(p)

MainStep ==
    \/ Batch(Main)
    \/ MainTune
    \/ MainSyncDone
    \/ \E t \in Tables : MainDoSync(t) \/ MainStartCopy(t) \/ MainLaunch(t)

CopyStep(t) ==
    \/ Batch(t)
    \/ Register(t)
    \/ CopyLost(t)
    \/ CopyHandOver(t)
    \/ CopyBehind(t)
    \/ CopyOvershoot(t)
    \/ CopyWait(t)
    \/ CopyCatchUp(t)
    \/ CopyWantSync(t)
    \/ CopySnapshot(t)
    \/ CopyLoad(t)
    \/ CopyExit(t)

Faults ==
    \/ CrashMain
    \/ StartMain
    \/ \E p \in Procs : Fail(p)
    \/ \E t \in Tables : CrashCopy(t) \/ RestartCopy(t)

Next == Provider \/ Setup \/ MainStep \/ (\E t \in Tables : CopyStep(t)) \/ Faults

Spec == Init /\ [][Next]_vars

-----------------------------------------------------------------------------
\* A row of londiste.table_info, and an object of table_list.
Row == [state : States, tick : 0..MaxTick, snap : -1..MaxCommit]
Object == [state : States, tick : 0..MaxTick, snap : -1..MaxCommit, changed : BOOLEAN,
           okc : Nat, last : 0..MaxTick, gc : 0..MaxTick]

Labels == {"poll", "load", "dosync", "start", "launch", "down", "none", "reg", "sync",
           "copying", "exit", "cleanup", "apply"}

\* Type correctness of every variable.
TypeOK ==
    /\ log \in Seq(Tables) /\ Len(log) <= MaxCommit
    /\ tick \in 0..MaxTick
    /\ snapAt \in [0..MaxTick -> 0..MaxCommit]
    /\ reg \subseteq Procs
    /\ prev \in [Procs -> 0..MaxTick]
    /\ cur \in [Procs -> 0..MaxTick]
    /\ db \in [Tables -> Row]
    /\ data \in [Tables -> SUBSET (1..MaxCommit)]
    /\ twice \in [Tables -> SUBSET (1..MaxCommit)]
    /\ pc \in [Procs -> Labels]
    /\ mem \in [Procs -> [Tables -> Object]]
    /\ work \in [Procs -> BOOLEAN]
    /\ big \in [Procs -> BOOLEAN]
    /\ held \in [Procs -> 0..MaxTick]
    /\ dsync \in 0..MaxTick
    /\ mloop \in BOOLEAN
    /\ launching \subseteq Tables
    /\ csnap \in [Tables -> 0..MaxCommit]
    /\ faults \in 0..MaxFault
    /\ admins \in 0..MaxAdmin

\* Where the process that owns a table in state s has got to.
Reached(t) == LET p == IF db[t].state = "ok" THEN Main ELSE t
              IN  IF db[t].snap > snapAt[prev[p]] THEN db[t].snap ELSE snapAt[prev[p]]

\* No loss, no invention: a table that was copied reflects exactly the events
\* seen by its snapshot or by the last batch finished by the process that owns
\* it.
ExactPrefix ==
    \A t \in Tables : db[t].state \in {"catching-up", "wanna-sync", "do-sync", "ok"}
                        => data[t] = Ev(t, Reached(t))

\* No event reaches rows that reflect it already, through any interleaving of
\* the two consumers, snapshot clean-ups, repeated batches and restarts.
AppliedOnce == \A t \in Tables : twice[t] = {}

\* No more tables are being copied at a time than parallel_copies.
CopiesBounded ==
    Cardinality({t \in Tables : db[t].state \in Copying}) <= ParallelCopies

\* The table's owner column of playback.py:26-32: which process takes a table
\* out of a state, and to which state.  A step of no process is the
\* administrator's.
Steps(p) == pc'[p] # pc[p] \/ mem'[p] # mem[p]
Moves(t) == <<db[t].state, db'[t].state>>
OwnerMoves ==
    \A t \in Tables : db'[t].state # db[t].state =>
        \/ Steps(Main) /\ Moves(t) \in {<<"missing", "in-copy">>, <<"wanna-sync", "do-sync">>}
        \/ Steps(t) /\ Moves(t) \in {<<"in-copy", "catching-up">>,
                                     <<"catching-up", "wanna-sync">>, <<"do-sync", "ok">>}
        \/ UNCHANGED <<pc, mem>> /\ db'[t].state \in {"absent", "missing"}
OwnerOnly == [][OwnerMoves]_vars

\* The two consumers meet: when a copy process gives a table back, it has
\* finished exactly the batches that main has, and main is still held in
\* sync_tables in front of the next one.
HandOverMoves ==
    \A t \in Tables : db[t].state = "do-sync" /\ db'[t].state = "ok" =>
        /\ prev[t] = prev[Main]
        /\ cur[t] = cur[Main]
        /\ pc[Main] \notin {"cleanup", "apply"}
HandOverAligned == [][HandOverMoves]_vars

\* A table loses its snapshot only when its consumer is past it: none of the
\* events it hides is still to come ("the snapshot is not needed beyond next
\* batch", playback.py:264).
SnapshotMoves ==
    \A t \in Tables :
        /\ db[t].snap # NoSnap
        /\ db'[t].snap = NoSnap
        /\ db'[t].state \in {"catching-up", "wanna-sync", "do-sync", "ok"}
        => Ev(t, db[t].snap) \subseteq
              Ev(t, snapAt[prev[IF db[t].state = "ok" THEN Main ELSE t]])
SnapshotOutlived == [][SnapshotMoves]_vars

\* Main never waits for a copy process to exit that itself waits for main
\* ("let existing copy finish and clean its pidfile", playback.py:1013).
NoMutualWait ==
    \A t \in launching :
        ~(/\ pc[t] = "sync"
          /\ mem[t][t].state = "wanna-sync"
          /\ db[t].state = "wanna-sync")

\* A copy process that was never restarted does not get past the tick main waits
\* for ("these settings may cause copy to miss right tick", playback.py:648).
SyncTickMet ==
    \A t \in Tables : pc[t] = "sync" /\ mem[t][t].state = "do-sync" /\ faults = 0
                          => cur[t] <= mem[t][t].tick

\* Batch collecting by itself, without a fault, loses nothing at a hand-over.
CollectedPrefix == faults = 0 => ExactPrefix

\* A table that is to be copied again is not declared ok by anyone before it
\* was ("Reload data from provider node", admin.py:506).  With a careful administrator
\* OwnerOnly implies it; it is there to be refuted without one.
ResyncMoves == \A t \in Tables : Moves(t) # <<"missing", "ok">>
ResyncKept == [][ResyncMoves]_vars

\* The node keeps the promise of Replica: a table in state 'ok' reflects an
\* exact prefix of the provider's log and never moves back.
Promise == INSTANCE Replica WITH serving <- {t \in Tables : db[t].state = "ok"}
KeepsPromise == Promise!Spec
=============================================================================
