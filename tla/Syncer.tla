------------------------------- MODULE Syncer -------------------------------
(***************************************************************************)
(* One pass of `londiste compare` or `londiste repair` over one table      *)
(* (londiste/syncer.py, compare.py, repair.py).  The tool takes a SHARE    *)
(* lock on the provider's table, forces two ticks, waits until the         *)
(* replication worker has passed the second one, takes a snapshot on both  *)
(* sides, releases the lock, and compares or repairs from the snapshots    *)
(* while writers, ticker and worker go on.                                 *)
(*                                                                         *)
(* A table is a function from keys to rows; Absent is the row that is not  *)
(* there.  The subscriber may have drifted from the provider before the    *)
(* pass begins: that is what the tools are for.                            *)
(***************************************************************************)
EXTENDS Integers, Sequences, FiniteSets

CONSTANTS
    Keys,       \* primary keys, in the order of the sorted dumps
    Vals,       \* contents a row can have
    Absent,     \* the row that does not exist
    Untouched,  \* a row the worker's open transaction has not written
    IgnoreLag,  \* --force: do not limit the time the lock is held
    MaxCommit,  \* bound: transactions the writer commits
    MaxTick     \* bound: ticks nobody waits for

ASSUME KeysAssumption == Keys \subseteq Nat
ASSUME RowsAssumption == Absent \notin Vals /\ Untouched \notin Vals \union {Absent}
ASSUME OptionAssumption == IgnoreLag \in BOOLEAN
ASSUME BoundsAssumption == MaxCommit \in Nat /\ MaxTick \in Nat

VARIABLES
    \* provider database
    src,      \* the committed table
    open,     \* changes of the writer's open transaction: none or one
    log,      \* data events of the committed transactions, in commit order
    ticks,    \* ticks[i]: how many events tick i covers
    ticking,  \* the snapshot of a tick the ticker has not committed: none or one
    \* subscriber database
    dst,      \* the committed table
    done,     \* worker_last_tick: the last tick whose batch is committed
    pos,      \* events the worker has handled, its open batch included
    work,     \* rows written by the worker's open transaction
    \* the tool
    pc,       \* where the tool is
    mode,     \* what it was started for (chosen when the code first asks)
    waitFor,  \* cur_pos, then tick_id, of lock_table_root
    late,     \* lock_timeout has passed since lock_time
    ssnap,    \* snapshot of src_db
    dsnap,    \* snapshot of dst_db
    srcLeft,  \* keys of the lines not yet read from the sorted source dump
    dstLeft,  \* keys of the lines not yet read from the sorted target dump
    fixes,    \* statements the repair has issued
    bad,      \* the comparison found a difference
    \* history
    past,     \* past[n+1]: src after n events
    drifted   \* rows that differed before the tool was started

provider   == <<src, open, log, ticks, ticking, past>>
subscriber == <<done, pos, work>>
dumps      == <<srcLeft, dstLeft, fixes>>
tool       == <<waitFor, late, ssnap, dsnap, bad, dumps>>
fixed      == <<mode, drifted>>
vars == <<provider, subscriber, dst, pc, tool, fixed>>

-----------------------------------------------------------------------------
Rows   == Vals \union {Absent}
Tables == [Keys -> Rows]
Ops    == {"I", "U", "D"}
Change == [op : Ops, key : Keys, row : Rows]
Fix    == [op : {"insert", "update", "delete"}, key : Keys, row : Rows, old : Rows]
Modes  == {"compare", "count", "dump", "apply"}   \* "none": not asked yet

\* the lock on the table is held in these places of the code
Locked   == pc \in {"tick1", "again1", "tick2", "again2", "wait", "snapSrc", "snapDst", "unlock"}
Waiting  == pc \in {"again1", "again2"} /\ Len(ticks) = waitFor
Finished == pc \in {"done", "failed"}

TypeOK ==
    /\ src \in Tables /\ dst \in Tables /\ ssnap \in Tables /\ dsnap \in Tables
    /\ open \in SUBSET Change /\ log \in Seq(Change) /\ past \in Seq(Tables)
    /\ ticks \in Seq(Nat) /\ ticking \in SUBSET Nat
    /\ done \in Nat /\ pos \in Nat /\ work \in [Keys -> Rows \union {Untouched}]
    /\ pc \in {"start", "lock", "tick1", "again1", "tick2", "again2", "wait", "snapSrc",
               "snapDst", "unlock", "work", "merge", "done", "failed"}
    /\ mode \in Modes \union {"none"} /\ late \in BOOLEAN /\ bad \in BOOLEAN
    /\ waitFor \in Nat /\ drifted \subseteq Keys
    /\ srcLeft \subseteq Keys /\ dstLeft \subseteq Keys /\ fixes \subseteq Fix

Init ==
    /\ src \in Tables /\ dst \in Tables
    /\ drifted = {k \in Keys : src[k] # dst[k]}
    /\ open = {} /\ log = <<>> /\ past = <<src>>
    /\ ticks = <<0>> /\ ticking = {}
    /\ done = 1 /\ pos = 0 /\ work = [k \in Keys |-> Untouched]
    /\ pc = "start" /\ mode = "none"
    /\ waitFor = 0 /\ late = FALSE /\ bad = FALSE
    /\ ssnap = src /\ dsnap = src
    /\ srcLeft = {} /\ dstLeft = {} /\ fixes = {}

-----------------------------------------------------------------------------
(* Writers on the provider.  LOCK TABLE ... IN SHARE MODE conflicts with    *)
(* the ROW EXCLUSIVE lock of a writer, and a writer that comes later queues *)
(* behind the request.                                                      *)

CanWrite_noLock == pc # "lock"

CanWrite == pc # "lock" /\ ~Locked

Begin(k, r) ==
    /\ CanWrite /\ open = {} /\ Len(log) < MaxCommit
    /\ src[k] # r
    /\ open' = {[op |-> IF src[k] = Absent THEN "I" ELSE IF r = Absent THEN "D" ELSE "U",
                 key |-> k, row |-> r]}
    /\ UNCHANGED <<src, log, ticks, ticking, past, subscriber, dst, pc, tool, fixed>>

Commit ==
    \E c \in open :
        /\ src' = [src EXCEPT ![c.key] = c.row]
        /\ log' = Append(log, c)
        /\ past' = Append(past, src')
        /\ open' = {}
        /\ UNCHANGED <<ticks, ticking, subscriber, dst, pc, tool, fixed>>

Abort ==
    /\ open # {}
    /\ open' = {}
    /\ UNCHANGED <<src, log, ticks, ticking, past, subscriber, dst, pc, tool, fixed>>

(* The ticker: takes its snapshot, then commits the tick.                   *)

\* a tool that has its snapshots has waited for two ticks
Allowed == MaxTick + IF pc \in {"work", "merge", "done", "failed"} THEN 2 ELSE 0

TickSnap ==
    /\ ticking = {}
    /\ Len(ticks) < Allowed \/ Waiting
    /\ ticking' = {Len(log)}
    /\ UNCHANGED <<src, open, log, ticks, past, subscriber, dst, pc, tool, fixed>>

TickCommit ==
    \E n \in ticking :
        /\ ticks' = Append(ticks, n)
        /\ ticking' = {}
        /\ UNCHANGED <<src, open, log, past, subscriber, dst, pc, tool, fixed>>

-----------------------------------------------------------------------------
(* The worker applies the batch of the next tick in one transaction, which  *)
(* also moves worker_last_tick.                                             *)

Seen_ownOnly(k) == work[k]

Seen(k) == IF work[k] = Untouched THEN dst[k] ELSE work[k]

\* the row after the statement of an event: an update or delete of a row
\* that is not there does nothing
Written(c) ==
    CASE c.op = "I" -> c.row
      [] c.op = "U" -> IF Seen(c.key) = Absent THEN Absent ELSE c.row
      [] c.op = "D" -> Absent

InBatch == done < Len(ticks) /\ pos < ticks[done + 1]

ApplyEvent ==
    /\ InBatch
    /\ LET c == log[pos + 1]
       IN /\ ~(c.op = "I" /\ Seen(c.key) # Absent)
          /\ work' = IF c.op # "I" /\ Seen(c.key) = Absent
                     THEN work ELSE [work EXCEPT ![c.key] = Written(c)]
    /\ pos' = pos + 1
    /\ UNCHANGED <<provider, done, dst, pc, tool, fixed>>

\* an insert of a row that is there fails the batch, which is retried
FailBatch ==
    /\ InBatch
    /\ log[pos + 1].op = "I" /\ Seen(log[pos + 1].key) # Absent
    /\ work' = [k \in Keys |-> Untouched]
    /\ pos' = ticks[done]
    /\ UNCHANGED <<provider, done, dst, pc, tool, fixed>>

CommitBatch ==
    /\ done < Len(ticks) /\ pos = ticks[done + 1]
    /\ dst' = [k \in Keys |-> Seen(k)]
    /\ work' = [k \in Keys |-> Untouched]
    /\ done' = done + 1
    /\ UNCHANGED <<provider, pos, pc, tool, fixed>>

-----------------------------------------------------------------------------
(* The tool, up to the two snapshots.                                       *)

\* check_table asks for the lock; on a provider that is not the root, the
\* request and the release in the finally clause both raise
RequestLock ==
    /\ pc = "start"
    /\ pc' \in {"lock", "failed"}
    /\ UNCHANGED <<provider, subscriber, dst, tool, fixed>>

GrantLock ==
    /\ pc = "lock" /\ open = {}
    /\ pc' = "tick1"
    /\ UNCHANGED <<provider, subscriber, dst, tool, fixed>>

\* statement_timeout ends the LOCK statement
LockTimeout ==
    /\ pc = "lock" /\ open # {}
    /\ pc' = "failed"
    /\ UNCHANGED <<provider, subscriber, dst, tool, fixed>>

ForceTick(from, to) ==
    /\ pc = from
    /\ waitFor' = Len(ticks)
    /\ pc' = to
    /\ UNCHANGED <<provider, subscriber, dst, late, ssnap, dsnap, bad, dumps, fixed>>

NewTick_once(from, to) ==
    /\ pc = from /\ Len(ticks) # waitFor
    /\ waitFor' = Len(ticks)
    /\ pc' = "wait"
    /\ UNCHANGED <<provider, subscriber, dst, late, ssnap, dsnap, bad, dumps, fixed>>

NewTick(from, to) ==
    /\ pc = from /\ Len(ticks) # waitFor
    /\ waitFor' = Len(ticks)
    /\ pc' = to
    /\ UNCHANGED <<provider, subscriber, dst, late, ssnap, dsnap, bad, dumps, fixed>>

TickReached_early == done >= waitFor - 1

TickReached == done >= waitFor

WaitDone ==
    /\ pc = "wait" /\ TickReached
    /\ pc' = "snapSrc"
    /\ UNCHANGED <<provider, subscriber, dst, tool, fixed>>

\* time.time() > lock_time + self.lock_timeout
Elapse ==
    /\ Locked /\ ~late
    /\ late' = TRUE
    /\ UNCHANGED <<provider, subscriber, dst, pc, waitFor, ssnap, dsnap, bad, dumps, fixed>>

GiveUp_forced ==
    /\ pc = "wait" /\ ~TickReached /\ late /\ IgnoreLag
    /\ pc' = "failed"
    /\ UNCHANGED <<provider, subscriber, dst, tool, fixed>>

GiveUp ==
    /\ pc = "wait" /\ ~TickReached /\ late /\ ~IgnoreLag
    /\ pc' = "failed"
    /\ UNCHANGED <<provider, subscriber, dst, tool, fixed>>

SnapSrc ==
    /\ pc = "snapSrc"
    /\ ssnap' = src
    /\ pc' = "snapDst"
    /\ UNCHANGED <<provider, subscriber, dst, waitFor, late, dsnap, bad, dumps, fixed>>

SnapDst ==
    /\ pc = "snapDst"
    /\ dsnap' = dst
    /\ pc' = "unlock"
    /\ UNCHANGED <<provider, subscriber, dst, waitFor, late, ssnap, bad, dumps, fixed>>

Unlock ==
    /\ pc = "unlock"
    /\ pc' = "work"
    /\ UNCHANGED <<provider, subscriber, dst, tool, fixed>>

-----------------------------------------------------------------------------
(* process_sync of the two tools.                                           *)

Present(tab) == {k \in Keys : tab[k] # Absent}

\* the result of the query Comparator runs on each side
Answer(tab, m) == IF m = "count" THEN Cardinality(Present(tab)) ELSE tab

Compare ==
    /\ pc = "work"
    /\ mode' \in {"compare", "count"}
    /\ bad' = (Answer(ssnap, mode') # Answer(dsnap, mode'))
    /\ pc' = "done"
    /\ UNCHANGED <<provider, subscriber, dst, waitFor, late, ssnap, dsnap, dumps, drifted>>

Dump ==
    /\ pc = "work"
    /\ mode' \in {"dump", "apply"}
    /\ srcLeft' = Present(ssnap) /\ dstLeft' = Present(dsnap)
    /\ pc' = "merge"
    /\ UNCHANGED <<provider, subscriber, dst, waitFor, late, ssnap, dsnap, bad, fixes, drifted>>

\* the next line of a sorted dump is the one with the least key left
IsLine(k, left) == k \in left /\ \A j \in left : k <= j

\* cmp_keys: the end of a dump is larger than any row
Before(k, left) == \A j \in left : k < j

\* an UPDATE or DELETE whose row the worker has written waits for the
\* worker's commit; so does an INSERT of a key the worker has inserted
Blocked(f) == work[f.key] # Untouched /\ (f.op = "insert" \/ dst[f.key] # Absent)

Fixed(f) ==
    CASE f.op = "insert" -> f.row
      [] f.op = "update" -> IF dst[f.key] = f.old THEN f.row ELSE dst[f.key]
      [] f.op = "delete" -> Absent

\* show_fix: with --apply the statement is run at once, each in a
\* transaction of its own; otherwise it is written to a file
Issue(f) ==
    /\ fixes' = fixes \union {f}
    /\ IF mode = "apply"
       THEN /\ ~Blocked(f)
            /\ f.op = "insert" => dst[f.key] = Absent
            /\ dst' = [dst EXCEPT ![f.key] = Fixed(f)]
       ELSE UNCHANGED dst

MissedDelete(k) ==
    /\ pc = "merge" /\ IsLine(k, dstLeft) /\ Before(k, srcLeft)
    /\ Issue([op |-> "delete", key |-> k, row |-> Absent, old |-> dsnap[k]])
    /\ dstLeft' = dstLeft \ {k}
    /\ UNCHANGED <<provider, subscriber, pc, waitFor, late, ssnap, dsnap, bad, srcLeft, fixed>>

MissedInsert(k) ==
    /\ pc = "merge" /\ IsLine(k, srcLeft) /\ Before(k, dstLeft)
    /\ Issue([op |-> "insert", key |-> k, row |-> ssnap[k], old |-> Absent])
    /\ srcLeft' = srcLeft \ {k}
    /\ UNCHANGED <<provider, subscriber, pc, waitFor, late, ssnap, dsnap, bad, dstLeft, fixed>>

SameKey_keepDst(k) ==
    /\ pc = "merge" /\ IsLine(k, srcLeft) /\ IsLine(k, dstLeft)
    /\ IF ssnap[k] # dsnap[k]
       THEN Issue([op |-> "update", key |-> k, row |-> ssnap[k], old |-> dsnap[k]])
       ELSE UNCHANGED <<fixes, dst>>
    /\ srcLeft' = srcLeft \ {k}
    /\ UNCHANGED <<provider, subscriber, pc, waitFor, late, ssnap, dsnap, bad, dstLeft, fixed>>

SameKey(k) ==
    /\ pc = "merge" /\ IsLine(k, srcLeft) /\ IsLine(k, dstLeft)
    /\ IF ssnap[k] # dsnap[k]
       THEN Issue([op |-> "update", key |-> k, row |-> ssnap[k], old |-> dsnap[k]])
       ELSE UNCHANGED <<fixes, dst>>
    /\ srcLeft' = srcLeft \ {k} /\ dstLeft' = dstLeft \ {k}
    /\ UNCHANGED <<provider, subscriber, pc, waitFor, late, ssnap, dsnap, bad, fixed>>

\* the row the repair inserts is there by now: the statement raises and the
\* program ends, the fixes made so far stay
InsertFails(k) ==
    /\ pc = "merge" /\ mode = "apply"
    /\ IsLine(k, srcLeft) /\ Before(k, dstLeft)
    /\ work[k] = Untouched /\ dst[k] # Absent
    /\ pc' = "failed"
    /\ UNCHANGED <<provider, subscriber, dst, tool, fixed>>

MergeDone_firstEnd ==
    /\ pc = "merge" /\ (srcLeft = {} \/ dstLeft = {})
    /\ pc' = "done"
    /\ UNCHANGED <<provider, subscriber, dst, tool, fixed>>

MergeDone ==
    /\ pc = "merge" /\ srcLeft = {} /\ dstLeft = {}
    /\ pc' = "done"
    /\ UNCHANGED <<provider, subscriber, dst, tool, fixed>>

-----------------------------------------------------------------------------
Write  == (\E k \in Keys, r \in Rows : Begin(k, r)) \/ Commit \/ Abort
Tick   == TickSnap \/ TickCommit
Worker == ApplyEvent \/ FailBatch \/ CommitBatch
Tool ==
    \/ RequestLock \/ GrantLock \/ LockTimeout
    \/ ForceTick("tick1", "again1") \/ NewTick("again1", "tick2")
    \/ ForceTick("tick2", "again2") \/ NewTick("again2", "wait")
    \/ WaitDone \/ GiveUp \/ SnapSrc \/ SnapDst \/ Unlock
    \/ Compare \/ Dump \/ MergeDone
    \/ \E k \in Keys : MissedDelete(k) \/ MissedInsert(k) \/ SameKey(k) \/ InsertFails(k)

Next == Write \/ Tick \/ Worker \/ Elapse \/ Tool

Spec == Init /\ [][Next]_vars

-----------------------------------------------------------------------------
(* Properties.                                                              *)

\* A row that had not drifted is the same in the two snapshots, whatever the
\* writers, the ticker and the worker were doing: the tools raise no false
\* alarm.  It is what lock, two ticks and wait are for (check_table).
SnapshotsAgree ==
    pc \in {"unlock", "work", "merge", "done"} =>
        \A k \in Keys \ drifted : ssnap[k] = dsnap[k]

\* the statement that turns row k of the target snapshot into that of the source
FixOf(k) ==
    [op |-> IF ssnap[k] = Absent THEN "delete"
            ELSE IF dsnap[k] = Absent THEN "insert" ELSE "update",
     key |-> k, row |-> ssnap[k], old |-> dsnap[k]]

\* The statements a finished repair has issued are exactly the ones that
\* turn the target snapshot into the source snapshot: the merge of the two
\* sorted dumps misses no row and issues nothing twice (dump_compare_streams).
FixesExact ==
    (pc = "done" /\ mode \in {"dump", "apply"}) =>
        fixes = {FixOf(k) : k \in {j \in Keys : ssnap[j] # dsnap[j]}}

\* When nothing was committed on the provider since its snapshot, an applied
\* repair leaves the subscriber equal to the provider.
RepairConverges ==
    (pc = "done" /\ mode = "apply" /\ src = ssnap /\ Len(log) = ticks[done]) => dst = src

\* A repair never touches a row that had not drifted, also while the worker
\* goes on applying batches to it (show_fix runs on the live table).
CleanRowsKept ==
    [][pc = "merge" =>
         \A k \in Keys \ drifted : done' = done => dst'[k] = dst[k]]_vars

\* Writers are not shut out for ever: a lock that is held is released, by
\* success or by giving up (wait_until_tick limits the lock time).
LockReleased == Locked ~> ~Locked
-----------------------------------------------------------------------------
(* The inductive invariant behind these properties.                         *)

Clean == Keys \ drifted

\* what a change says about the table it was made on
Fits(c, tab) ==
    /\ c.op = "I" <=> tab[c.key] = Absent
    /\ c.op = "D" <=> c.row = Absent

\* the log leads from one past table to the next, up to the present one
PastOK ==
    /\ Len(past) = Len(log) + 1
    /\ past[Len(log) + 1] = src
    /\ \A i \in 1..Len(log) : /\ Fits(log[i], past[i])
                             /\ past[i + 1] = [past[i] EXCEPT ![log[i].key] = log[i].row]
    /\ \A c \in open : Fits(c, src)

\* ticks cover more and more of the log, and the worker is inside the batch
\* between its last tick and the next one
TicksOK ==
    /\ done \in 1..Len(ticks)
    /\ \A i \in 1..Len(ticks) : ticks[i] <= Len(log)
    /\ \A i \in 1..(Len(ticks) - 1) : ticks[i] <= ticks[i + 1]
    /\ \A n \in ticking : ticks[Len(ticks)] <= n /\ n <= Len(log)
    /\ ticks[done] <= pos
    /\ IF done < Len(ticks) THEN pos <= ticks[done + 1] ELSE pos = ticks[done]

\* until a repair writes to it, a row that had not drifted is as the provider
\* had it at the tick of the worker
WorkerOK ==
    pc \notin {"work", "merge", "done", "failed"} =>
        \A k \in Clean : /\ dst[k] = past[ticks[done] + 1][k]
                         /\ Seen(k) = past[pos + 1][k]

\* under the lock nothing is written, and from the second new tick on every
\* tick covers all of the log
LockOK ==
    /\ Locked => open = {}
    /\ pc \in {"again1", "again2", "wait", "snapSrc", "snapDst", "unlock"} =>
           waitFor \in 1..Len(ticks)
    /\ (pc = "again1" /\ Len(ticks) > waitFor) \/ pc \in {"tick2", "again2", "wait",
           "snapSrc", "snapDst", "unlock"} => \A n \in ticking : n = Len(log)
    /\ pc = "again2" => \A i \in (waitFor + 1)..Len(ticks) : ticks[i] = Len(log)
    /\ pc \in {"wait", "snapSrc", "snapDst", "unlock"} =>
           \A i \in waitFor..Len(ticks) : ticks[i] = Len(log)

\* the tool reads the source after the wait and the target after the source
SnapOK ==
    /\ pc \in {"snapSrc", "snapDst", "unlock"} => TickReached
    /\ pc = "snapDst" => ssnap = src
    /\ pc \in {"unlock", "work", "merge", "done"} => \A k \in Clean : ssnap[k] = dsnap[k]

\* the worker's open transaction has the rows of the events it has handled: none
\* at the beginning of a batch
BatchOK ==
    /\ pos = ticks[done] => \A k \in Keys : work[k] = Untouched
    /\ \A k \in Keys : work[k] # Untouched => work[k] = past[pos + 1][k]

Merged == pc \in {"merge", "done"} /\ mode \in {"dump", "apply"}

\* a row that both dumps have leaves them together, and a row that has left them is
\* repaired if it was different
MergeOK ==
    /\ pc \notin {"merge", "done", "failed"} => fixes = {}
    /\ pc = "merge" => Merged
    /\ Merged =>
         /\ srcLeft \subseteq Present(ssnap) /\ dstLeft \subseteq Present(dsnap)
         /\ \A k \in Present(ssnap) \intersect Present(dsnap) : k \in srcLeft <=> k \in dstLeft
         /\ fixes = {FixOf(k) : k \in {j \in Keys : ssnap[j] # dsnap[j]} \ (srcLeft \union dstLeft)}
         /\ pc = "done" => srcLeft = {} /\ dstLeft = {}

\* the row the tool knows of: that of the target snapshot, or of the source snapshot
\* once an applied repair has come past it
Known(k) == IF Merged /\ mode = "apply" /\ k \notin srcLeft \union dstLeft THEN ssnap[k] ELSE dsnap[k]

\* from the target snapshot on a row is what the tool knows, or what the worker has made
\* of it: the row the provider had then, whatever it was before
RepairOK ==
    pc \in {"unlock", "work", "merge", "done"} =>
        \A k \in Keys : /\ dst[k] \in {Known(k), past[ticks[done] + 1][k]}
                        /\ Seen(k) \in {Known(k), past[pos + 1][k]}

IInv ==
    /\ TypeOK /\ PastOK /\ TicksOK /\ WorkerOK /\ LockOK /\ SnapOK
    /\ BatchOK /\ MergeOK /\ RepairOK
=============================================================================
