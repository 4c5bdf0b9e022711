----------------------------- MODULE TableSyncInv -----------------------------
(***************************************************************************)
(* The inductive invariant behind the safety of TableSync, in named parts, *)
(* most of them about one table.  It holds when one copy runs at a time    *)
(* and the administrator is careful, and with batch collecting until the   *)
(* first fault; section 5 of README.md names the property that fails       *)
(* without each of the three.                                              *)
(***************************************************************************)
EXTENDS TableSync

Simple == ParallelCopies = 1 /\ CarefulAdmin

\* Nothing has gone wrong yet, where batches are collected.
Tidy == BatchCollect => faults = 0

MainLabels == {"poll", "load", "dosync", "start", "launch", "down", "cleanup", "apply"}
CopyLabels == {"poll", "load", "none", "reg", "sync", "copying", "exit", "cleanup", "apply"}

\* Main, inside its batch, works with the objects that it has loaded.
MainIn == pc[Main] \in {"dosync", "start", "launch", "cleanup", "apply"}

\* So does the copy process of t.
CopyIn(t) == pc[t] \in {"sync", "copying", "cleanup", "apply"}

\* States in which the copy process of a table owns its rows.
CopyOwns == {"catching-up", "wanna-sync", "do-sync"}

\* The later of a snapshot (or none) and the snapshot of a tick.
Later(s, n) == IF s > n THEN s ELSE n

\* An object r in memory is as good as the row d it was loaded from.
SameRow(r, d) == d.state = r.state /\ d.tick = r.tick /\ d.snap = r.snap

-----------------------------------------------------------------------------
\* Ticks are ordered.
TicksOK ==
    /\ \A k \in 0..tick : \A j \in 0..k : snapAt[j] <= snapAt[k]
    /\ \A k \in 0..tick : snapAt[k] <= Len(log)

\* A process has a batch open wherever it works on one; without collecting, that
\* is at most the next tick.
BatchOK(p) ==
    /\ prev[p] <= cur[p]
    /\ cur[p] <= tick
    /\ pc[p] \notin {"poll", "down", "none", "reg"} => cur[p] > prev[p]
    /\ ~BatchCollect => cur[p] <= prev[p] + 1 /\ ~big[p]

\* Main takes single batches from the one on, at dsync, in which it saw a table
\* wait; until it looks again nothing can start to wait behind its back.
DsyncInv ==
    /\ big[Main] <=> BatchCollect /\ dsync = 0
    /\ dsync <= cur[Main]
    /\ ~big[Main] /\ dsync < cur[Main] => cur[Main] <= prev[Main] + 1
    /\ dsync # 0 => BatchCollect
    /\ dsync # 0 => \A t \in Tables :
          /\ db[t].state \notin {"in-copy", "catching-up"}
          /\ db[t].state = "wanna-sync" => db[t].tick <= dsync
    /\ dsync # 0 /\ pc[Main] \in {"start", "launch"} =>
          \E t \in Tables : mem[Main][t].state = "wanna-sync"

InvQueue == TicksOK /\ DsyncInv /\ \A p \in Procs : BatchOK(p)

\* Where the processes can be, and what a process that is not running knows.
PlaceOK(t) ==
    /\ pc[t] \in CopyLabels
    /\ pc[t] \in {"none", "reg"} => work[t] /\ mem[t] = [u \in Tables |-> NewTableState]
    /\ pc[t] \notin {"none", "reg"} => t \in reg
    /\ t \in launching => /\ pc[Main] = "launch"
                          /\ mem[Main][t].state = "in-copy"
                          /\ db[t].state \in {"absent", "in-copy"}
                          /\ pc[t] = "none"

InvProcs ==
    /\ pc[Main] \in MainLabels
    /\ pc[Main] = "down" => mem[Main] = [t \in Tables |-> NewTableState]
    /\ \A t \in Tables : PlaceOK(t)
    /\ \A p \in Procs, t \in Tables :
          /\ mem[p][t].state = "absent" => mem[p][t] = NewTableState
          /\ mem[p][t].snap <= Len(log)

\* The row of a table, and what it says of the two consumers.
RowOK(t) ==
    LET d == db[t] IN
    /\ d.snap <= Len(log) /\ csnap[t] <= Len(log)
    /\ pc[t] = "copying" => csnap[t] >= snapAt[cur[t]]
    /\ d.state \in {"absent", "missing", "in-copy"} => d.snap = NoSnap
    /\ d.state = "missing" => pc[t] = "none"
    /\ d.state \in CopyOwns => t \in reg
    /\ d.state = "wanna-sync" => /\ d.tick = cur[t]
                                 /\ cur[t] > prev[t]
                                 /\ d.snap <= snapAt[cur[t]]
                                 /\ BatchCollect => pc[t] \in {"load", "sync"}
    /\ d.state = "do-sync" => /\ d.tick = cur[Main]
                              /\ cur[Main] = prev[Main] + 1
                              /\ cur[t] <= cur[Main]
                              /\ prev[t] <= prev[Main]
                              /\ cur[t] = cur[Main] => prev[t] = prev[Main]
                              /\ d.snap <= snapAt[cur[Main]]
                              /\ BatchCollect /\ big[t] =>
                                    /\ pc[t] \in {"load", "sync"}
                                    /\ cur[t] <= prev[Main]
    /\ d.state = "ok" => d.snap <= snapAt[cur[Main]]
    /\ d.state = "catching-up" /\ ~work[t] =>
          /\ cur[t] > prev[t] => d.snap <= snapAt[cur[t]]
          /\ cur[t] = prev[t] => \A k \in NextEnds(t) : d.snap <= snapAt[k]

InvRows == \A t \in Tables : RowOK(t)

\* At most one table is being copied, as the rows and as main see it.
InvOne ==
    \A t, u \in Tables :
        db[u].state \in Copying =>
            /\ db[t].state \in Copying => t = u
            /\ MainIn /\ mem[Main][t].state \in Copying => t = u

\* How far main's object of a table can be behind the row.
MainOK(t) ==
    LET r == mem[Main][t]  d == db[t] IN
    MainIn =>
        /\ ~r.changed
        /\ d.state # "absent" =>
             /\ r.state = "absent" => d.state = "missing"
             /\ r.state \in {"missing", "wanna-sync", "ok"} => SameRow(r, d)
             /\ r.state = "in-copy" => d.state \in {"in-copy", "catching-up", "wanna-sync"}
             /\ r.state = "catching-up" => d.state \in {"catching-up", "wanna-sync"}
             /\ r.state = "do-sync" => d.state \in {"do-sync", "ok"}
        /\ pc[Main] \in {"cleanup", "apply"} => r.state # "do-sync"
        /\ r.state = "missing" => pc[t] = "none"
        /\ r.state = "ok" =>
             /\ r.snap <= snapAt[cur[Main]]
             /\ pc[t] \notin {"copying", "cleanup", "apply"}
             /\ pc[t] = "sync" => mem[t][t].state \in {"absent", "ok"}

InvMain == \A t \in Tables : MainOK(t)

\* How far the objects of a copy process can be behind the rows.
CopyOK(t) ==
    LET r == mem[t][t]  d == db[t] IN
    /\ \A u \in Tables : mem[t][u].gc = NoTick
    /\ CopyIn(t) =>
          /\ \A u \in Tables : ~mem[t][u].changed
          /\ d.state # "absent" =>
                /\ r.state \notin {"absent", "missing"}
                /\ r.state \in {"in-copy", "catching-up", "do-sync"} => SameRow(r, d)
                /\ r.state = "wanna-sync" => d.state \in {"wanna-sync", "do-sync"}
                /\ r.state = "ok" => d.state = "ok"
          /\ r.state = "in-copy" => r.snap = NoSnap
          /\ r.state \in Copying =>
                \A u \in Tables \ {t} : mem[t][u].state \notin Copying
    /\ pc[t] = "copying" => r.state = "in-copy"
    /\ pc[t] \in {"cleanup", "apply"} =>
          /\ r.state \in {"catching-up", "do-sync"}
          /\ r.state = "catching-up" => work[t]
          /\ r.state = "do-sync" => cur[t] < r.tick
    /\ pc[t] = "sync" /\ r.state = "do-sync" => cur[t] <= r.tick
    /\ pc[t] = "exit" => d.state \in {"absent", "ok"}

InvCopy == \A t \in Tables : CopyOK(t)

\* The counters in memory: an interesting batch that was counted, and a tick
\* remembered by gc_snapshot, are past the snapshot.
CountOK(p, t) ==
    LET r == mem[p][t]  d == db[t] IN
    r.okc >= 1 =>
        /\ p \in {t, Main}
        /\ r.last \in 1..cur[p]
        /\ r.last <= prev[p] \/ r.last = cur[p]
        /\ r.snap <= snapAt[r.last]
        /\ p = t /\ d.state \in CopyOwns \cup {"ok"} => d.snap <= snapAt[r.last]
        /\ p = Main => d.state \in {"absent", "ok"}
        /\ p = Main /\ d.state = "ok" => d.snap <= snapAt[r.last]

GcOK(t) ==
    LET r == mem[Main][t]  d == db[t] IN
    r.gc # NoTick => /\ r.gc <= cur[Main]
                     /\ r.snap <= snapAt[r.gc]
                     /\ d.state \in {"absent", "ok"}
                     /\ d.state = "ok" => d.snap <= snapAt[r.gc]

InvCounters ==
    /\ \A p \in Procs, t \in Tables : CountOK(p, t)
    /\ \A t \in Tables : GcOK(t)

\* The destination table, as the row and as the memory of a process that is about
\* to apply events see it.
DataOK(t) ==
    /\ db[t].state \in CopyOwns => data[t] = Ev(t, Later(db[t].snap, snapAt[prev[t]]))
    /\ db[t].state = "ok" => data[t] = Ev(t, Later(db[t].snap, snapAt[prev[Main]]))
    /\ pc[t] \in {"sync", "cleanup", "apply"} /\ mem[t][t].state \in {"catching-up", "do-sync"}
          => data[t] = Ev(t, Later(mem[t][t].snap, snapAt[prev[t]]))
    /\ MainIn /\ mem[Main][t].state = "ok"
          => data[t] = Ev(t, Later(mem[Main][t].snap, snapAt[prev[Main]]))

InvData == \A t \in Tables : DataOK(t)

Safe ==
    /\ InvQueue
    /\ InvProcs
    /\ InvRows
    /\ InvOne
    /\ InvMain
    /\ InvCopy
    /\ InvCounters
    /\ InvData
    /\ AppliedOnce

IInv == TypeOK /\ (Tidy => Safe)
=============================================================================
