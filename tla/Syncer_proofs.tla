---------------------------- MODULE Syncer_proofs ----------------------------
(***************************************************************************)
(* Proofs about Syncer: for any set of keys and rows, any number of        *)
(* commits and ticks, the two snapshots of the tool agree on every row     *)
(* that had not drifted, the merge of the dumps finds every row that did,  *)
(* and a repair beside a running worker ends with the provider's rows.     *)
(***************************************************************************)
EXTENDS Syncer, TLAPS

\* The tool and its clock leave the provider's tables and the worker alone.
LEMMA ToolKeeps ==
    ASSUME Tool \/ Elapse
    PROVE  UNCHANGED <<provider, subscriber>>
  <1>1. CASE Elapse
    BY <1>1 DEF Elapse
  <1>2. CASE Tool
    <2>1. CASE \E k \in Keys : MissedDelete(k) \/ MissedInsert(k) \/ SameKey(k) \/ InsertFails(k)
      BY <2>1 DEF MissedDelete, MissedInsert, SameKey, InsertFails
    <2>2. CASE ~(\E k \in Keys : MissedDelete(k) \/ MissedInsert(k) \/ SameKey(k) \/ InsertFails(k))
      BY <1>2, <2>2 DEF Tool, RequestLock, GrantLock, LockTimeout, ForceTick, NewTick, WaitDone,
           GiveUp, SnapSrc, SnapDst, Unlock, Compare, Dump, MergeDone
    <2> QED BY <2>1, <2>2
  <1> QED BY <1>1, <1>2

\* No step changes what had drifted before.
LEMMA DriftKept ==
    ASSUME Tool \/ Elapse
    PROVE  drifted' = drifted
  <1>1. CASE \E k \in Keys : MissedDelete(k) \/ MissedInsert(k) \/ SameKey(k) \/ InsertFails(k)
    BY <1>1 DEF MissedDelete, MissedInsert, SameKey, InsertFails, fixed
  <1>2. CASE ~(\E k \in Keys : MissedDelete(k) \/ MissedInsert(k) \/ SameKey(k) \/ InsertFails(k))
    BY <1>2 DEF Elapse, Tool, RequestLock, GrantLock, LockTimeout, ForceTick, NewTick, WaitDone,
         GiveUp, SnapSrc, SnapDst, Unlock, Compare, Dump, MergeDone, fixed
  <1> QED BY <1>1, <1>2

\* Until the repair begins, the tool does not write to the target table.
LEMMA EarlyTool ==
    ASSUME Tool \/ Elapse, pc' \notin {"work", "merge", "done", "failed"}
    PROVE  pc \notin {"work", "merge", "done", "failed"} /\ dst' = dst
  <1>1. CASE \E k \in Keys : MissedDelete(k) \/ MissedInsert(k) \/ SameKey(k) \/ InsertFails(k)
    BY <1>1 DEF MissedDelete, MissedInsert, SameKey, InsertFails
  <1>2. CASE ~(\E k \in Keys : MissedDelete(k) \/ MissedInsert(k) \/ SameKey(k) \/ InsertFails(k))
    BY <1>2 DEF Elapse, Locked, Tool, RequestLock, GrantLock, LockTimeout, ForceTick, NewTick,
         WaitDone, GiveUp, SnapSrc, SnapDst, Unlock, Compare, Dump, MergeDone
  <1> QED BY <1>1, <1>2

\* Only the two snapshot steps write the snapshots.
LEMMA SnapsKept ==
    ASSUME Tool \/ Elapse, ~SnapSrc, ~SnapDst
    PROVE  UNCHANGED <<ssnap, dsnap>>
  <1>1. CASE \E k \in Keys : MissedDelete(k) \/ MissedInsert(k) \/ SameKey(k) \/ InsertFails(k)
    BY <1>1 DEF MissedDelete, MissedInsert, SameKey, InsertFails, tool
  <1>2. CASE ~(\E k \in Keys : MissedDelete(k) \/ MissedInsert(k) \/ SameKey(k) \/ InsertFails(k))
    BY <1>2 DEF Elapse, Tool, RequestLock, GrantLock, LockTimeout, ForceTick, NewTick, WaitDone,
         GiveUp, Unlock, Compare, Dump, MergeDone, tool
  <1> QED BY <1>1, <1>2

\* The tool comes to the source snapshot from the wait, and leaves the target
\* snapshot only by taking it.
LEMMA LateTool ==
    ASSUME Tool \/ Elapse, ~SnapSrc, ~SnapDst
    PROVE  /\ pc' \in {"snapSrc", "snapDst", "unlock"} => waitFor' = waitFor
           /\ pc' \in {"snapSrc", "snapDst", "unlock"} => pc' = pc \/ (pc = "wait" /\ TickReached)
           /\ pc' = "snapDst" => pc = "snapDst"
           /\ pc' \in {"unlock", "work", "merge", "done"} => pc \in {"unlock", "work", "merge", "done"}
  <1>1. CASE \E k \in Keys : MissedDelete(k) \/ MissedInsert(k) \/ SameKey(k) \/ InsertFails(k)
    BY <1>1 DEF MissedDelete, MissedInsert, SameKey, InsertFails, tool
  <1>2. CASE ~(\E k \in Keys : MissedDelete(k) \/ MissedInsert(k) \/ SameKey(k) \/ InsertFails(k))
    BY <1>2 DEF Elapse, Tool, RequestLock, GrantLock, LockTimeout, ForceTick, NewTick, WaitDone,
         GiveUp, Unlock, Compare, Dump, MergeDone, tool
  <1> QED BY <1>1, <1>2

-----------------------------------------------------------------------------
(* Types.                                                                   *)

\* The types hold at the start.
LEMMA TypeInit == Init => TypeOK
  <1> SUFFICES ASSUME Init PROVE TypeOK
    OBVIOUS
  <1> USE DEF Init
  <1>1. past \in Seq(Tables) /\ log \in Seq(Change) /\ ticks \in Seq(Nat)
    OBVIOUS
  <1>2. work \in [Keys -> Rows \union {Untouched}]
    OBVIOUS
  <1>3. drifted \subseteq Keys /\ mode \in Modes \union {"none"}
    OBVIOUS
  <1> QED BY <1>1, <1>2, <1>3 DEF TypeOK

\* A write on the provider keeps the types.
LEMMA TypeWrite == TypeOK /\ Write => TypeOK'
  <1> SUFFICES ASSUME TypeOK, Write PROVE TypeOK'
    OBVIOUS
  <1>1. ASSUME NEW k \in Keys, NEW r \in Rows, Begin(k, r) PROVE TypeOK'
    <2>1. open' \in SUBSET Change
      BY <1>1 DEF Begin, Change, Ops
    <2> QED BY <1>1, <2>1 DEF TypeOK, Begin, subscriber, tool, dumps, fixed
  <1>2. CASE Commit
    <2> PICK c \in open : /\ src' = [src EXCEPT ![c.key] = c.row]
                          /\ log' = Append(log, c)
                          /\ past' = Append(past, src')
                          /\ open' = {}
                          /\ UNCHANGED <<ticks, ticking, subscriber, dst, pc, tool, fixed>>
      BY <1>2 DEF Commit
    <2>1. c \in Change
      BY DEF TypeOK
    <2>2. c.key \in Keys /\ c.row \in Rows
      BY <2>1 DEF Change
    <2>3. src' \in Tables
      BY <2>2 DEF TypeOK, Tables
    <2>4. log' \in Seq(Change) /\ past' \in Seq(Tables)
      BY <2>1, <2>3 DEF TypeOK
    <2> QED BY <2>3, <2>4 DEF TypeOK, subscriber, tool, dumps, fixed
  <1>3. CASE Abort
    BY <1>3 DEF TypeOK, Abort, subscriber, tool, dumps, fixed
  <1> QED BY <1>1, <1>2, <1>3 DEF Write

\* A tick keeps the types.
LEMMA TypeTick == TypeOK /\ Tick => TypeOK'
  <1> SUFFICES ASSUME TypeOK, Tick PROVE TypeOK'
    OBVIOUS
  <1>1. CASE TickSnap
    <2>1. Len(log) \in Nat
      BY DEF TypeOK
    <2> QED BY <1>1, <2>1 DEF TypeOK, TickSnap, subscriber, tool, dumps, fixed
  <1>2. CASE TickCommit
    BY <1>2 DEF TypeOK, TickCommit, subscriber, tool, dumps, fixed
  <1> QED BY <1>1, <1>2 DEF Tick

\* An open batch has a next event.
LEMMA NextEvent ==
    ASSUME TypeOK, TicksOK, InBatch
    PROVE  pos + 1 \in 1..Len(log)
  <1>1. Len(ticks) \in Nat /\ Len(log) \in Nat
    BY DEF TypeOK
  <1>2. done + 1 \in 1..Len(ticks)
    BY <1>1 DEF InBatch, TypeOK
  <1>3. ticks[done + 1] <= Len(log) /\ ticks[done + 1] \in Nat
    BY <1>2 DEF TicksOK, TypeOK
  <1> QED BY <1>1, <1>3 DEF InBatch, TypeOK

\* A step of the worker keeps the types.
LEMMA TypeWorker ==
    ASSUME TypeOK, TicksOK, Worker
    PROVE  TypeOK'
  <1>1. CASE ApplyEvent
    <2> DEFINE c == log[pos + 1]
    <2>1. pos + 1 \in 1..Len(log)
      BY <1>1, NextEvent DEF ApplyEvent
    <2>2. c \in Change
      BY <2>1 DEF TypeOK
    <2>3. c.key \in Keys /\ c.row \in Rows /\ c.op \in Ops
      BY <2>2 DEF Change
    <2>4. Written(c) \in Rows
      BY <2>3 DEF Written, Ops, Rows
    <2>5. work' \in [Keys -> Rows \union {Untouched}]
      BY <1>1, <2>3, <2>4 DEF ApplyEvent, TypeOK
    <2>6. pos' \in Nat
      BY <1>1 DEF ApplyEvent, TypeOK
    <2> QED BY <1>1, <2>5, <2>6 DEF ApplyEvent, TypeOK, provider, tool, dumps, fixed
  <1>2. CASE FailBatch
    <2>1. work' \in [Keys -> Rows \union {Untouched}]
      BY <1>2 DEF FailBatch
    <2>2. pos' \in Nat
      BY <1>2 DEF FailBatch, TypeOK, TicksOK
    <2> QED BY <1>2, <2>1, <2>2 DEF FailBatch, TypeOK, provider, tool, dumps, fixed
  <1>3. CASE CommitBatch
    <2>1. \A k \in Keys : Seen(k) \in Rows
      BY DEF Seen, TypeOK, Tables
    <2>2. dst' \in Tables
      BY <1>3, <2>1 DEF CommitBatch, Tables
    <2>3. work' \in [Keys -> Rows \union {Untouched}]
      BY <1>3 DEF CommitBatch
    <2> QED BY <1>3, <2>2, <2>3 DEF CommitBatch, TypeOK, provider, tool, dumps, fixed
  <1> QED BY <1>1, <1>2, <1>3 DEF Worker

\* A statement of the repair leaves a table behind, and the list of fixes a
\* list of fixes.
LEMMA TypeIssue ==
    ASSUME TypeOK, NEW f \in Fix, Issue(f)
    PROVE  dst' \in Tables /\ fixes' \subseteq Fix
  <1>1. fixes' \subseteq Fix
    BY DEF Issue, TypeOK
  <1>2. f.key \in Keys /\ f.row \in Rows /\ f.op \in {"insert", "update", "delete"}
    BY DEF Fix
  <1>3. Fixed(f) \in Rows
    BY <1>2 DEF Fixed, TypeOK, Tables, Rows
  <1> QED BY <1>1, <1>2, <1>3 DEF Issue, TypeOK, Tables

\* A step of the tool keeps the types.
LEMMA TypeTool == TypeOK /\ (Tool \/ Elapse) => TypeOK'
  <1> SUFFICES ASSUME TypeOK, Tool \/ Elapse PROVE TypeOK'
    OBVIOUS
  <1> USE DEF TypeOK, provider, subscriber, tool, dumps, fixed
  <1>1. CASE Elapse
    BY <1>1 DEF Elapse
  <1>2. CASE RequestLock \/ GrantLock \/ LockTimeout \/ WaitDone \/ GiveUp \/ Unlock \/ MergeDone
    BY <1>2 DEF RequestLock, GrantLock, LockTimeout, WaitDone, GiveUp, Unlock, MergeDone
  <1>3. ASSUME NEW from, NEW to \in {"again1", "again2", "tick2", "wait"},
               ForceTick(from, to) \/ NewTick(from, to)
        PROVE  TypeOK'
    <2>1. Len(ticks) \in Nat
      OBVIOUS
    <2> QED BY <1>3, <2>1 DEF ForceTick, NewTick
  <1>4. CASE SnapSrc \/ SnapDst
    BY <1>4 DEF SnapSrc, SnapDst
  <1>5. CASE Compare
    BY <1>5 DEF Compare, Modes
  <1>6. CASE Dump
    BY <1>6 DEF Dump, Present, Modes
  <1>7. ASSUME NEW k \in Keys, MissedDelete(k) \/ MissedInsert(k) \/ SameKey(k) \/ InsertFails(k)
        PROVE  TypeOK'
    <2>0. ssnap[k] \in Rows /\ dsnap[k] \in Rows /\ Absent \in Rows
      BY DEF Tables, Rows
    <2>1. CASE MissedDelete(k)
      <3> DEFINE f == [op |-> "delete", key |-> k, row |-> Absent, old |-> dsnap[k]]
      <3>1. f \in Fix
        BY <2>0 DEF Fix
      <3>2. dst' \in Tables /\ fixes' \subseteq Fix
        BY <2>1, <3>1, TypeIssue DEF MissedDelete
      <3> QED BY <2>1, <3>2 DEF MissedDelete
    <2>2. CASE MissedInsert(k)
      <3> DEFINE f == [op |-> "insert", key |-> k, row |-> ssnap[k], old |-> Absent]
      <3>1. f \in Fix
        BY <2>0 DEF Fix
      <3>2. dst' \in Tables /\ fixes' \subseteq Fix
        BY <2>2, <3>1, TypeIssue DEF MissedInsert
      <3> QED BY <2>2, <3>2 DEF MissedInsert
    <2>3. CASE SameKey(k)
      <3> DEFINE f == [op |-> "update", key |-> k, row |-> ssnap[k], old |-> dsnap[k]]
      <3>1. f \in Fix
        BY <2>0 DEF Fix
      <3>2. dst' \in Tables /\ fixes' \subseteq Fix
        BY <2>3, <3>1, TypeIssue DEF SameKey
      <3> QED BY <2>3, <3>2 DEF SameKey
    <2>4. CASE InsertFails(k)
      BY <2>4 DEF InsertFails
    <2> QED BY <1>7, <2>1, <2>2, <2>3, <2>4
  <1> QED BY <1>1, <1>2, <1>3, <1>4, <1>5, <1>6, <1>7 DEF Tool

-----------------------------------------------------------------------------
(* The log and the past tables.                                             *)

\* Every step keeps the history of the provider one of its log.
LEMMA PastStep ==
    ASSUME TypeOK, PastOK, Next
    PROVE  PastOK'
  <1>1. ASSUME NEW k \in Keys, NEW r \in Rows, Begin(k, r) PROVE PastOK'
    <2>1. \A c \in open' : Fits(c, src)
      BY <1>1 DEF Begin, Fits
    <2> QED BY <1>1, <2>1 DEF Begin, PastOK, Fits
  <1>2. CASE Commit
    <2> PICK c \in open : /\ src' = [src EXCEPT ![c.key] = c.row]
                          /\ log' = Append(log, c)
                          /\ past' = Append(past, src')
                          /\ open' = {}
      BY <1>2 DEF Commit
    <2>1. Fits(c, src)
      BY DEF PastOK
    <2>2. Len(log') = Len(log) + 1 /\ Len(past') = Len(past) + 1
      BY DEF TypeOK
    <2>3. \A i \in 1..Len(log) : log'[i] = log[i]
      BY DEF TypeOK
    <2>4. \A i \in 1..Len(past) : past'[i] = past[i]
      BY DEF TypeOK
    <2>5. log'[Len(log) + 1] = c /\ past'[Len(past) + 1] = src'
      BY DEF TypeOK
    <2>6. Len(past) = Len(log) + 1 /\ past[Len(log) + 1] = src /\ Len(log) \in Nat
      BY DEF PastOK, TypeOK
    <2>7. ASSUME NEW i \in 1..Len(log')
          PROVE  /\ Fits(log'[i], past'[i])
                 /\ past'[i + 1] = [past'[i] EXCEPT ![log'[i].key] = log'[i].row]
      <3>1. CASE i \in 1..Len(log)
        <4>1. i \in 1..Len(past) /\ i + 1 \in 1..Len(past)
          BY <2>6, <3>1
        <4>2. log'[i] = log[i] /\ past'[i] = past[i] /\ past'[i + 1] = past[i + 1]
          BY <2>3, <2>4, <3>1, <4>1
        <4>3. /\ Fits(log[i], past[i])
              /\ past[i + 1] = [past[i] EXCEPT ![log[i].key] = log[i].row]
          BY <3>1 DEF PastOK
        <4> QED BY <4>2, <4>3
      <3>2. CASE i = Len(log) + 1
        <4>1. past'[i] = src /\ log'[i] = c /\ past'[i + 1] = src'
          BY <2>4, <2>5, <2>6, <3>2
        <4>2. src' = [src EXCEPT ![c.key] = c.row]
          OBVIOUS
        <4>3. Fits(log'[i], past'[i])
          BY <2>1, <4>1 DEF Fits
        <4>4. past'[i + 1] = [past'[i] EXCEPT ![log'[i].key] = log'[i].row]
          BY <4>1, <4>2
        <4> QED BY <4>3, <4>4
      <3>3. i \in 1..Len(log) \/ i = Len(log) + 1
        BY <2>2, <2>6
      <3> QED BY <3>1, <3>2, <3>3
    <2>8. past'[Len(log') + 1] = src' /\ Len(past') = Len(log') + 1
      BY <2>2, <2>5, <2>6
    <2> QED BY <2>7, <2>8 DEF PastOK, Fits
  <1>3. CASE Abort
    BY <1>3 DEF Abort, PastOK, Fits
  <1>4. CASE Tick \/ Worker \/ Tool \/ Elapse
    <2>1. UNCHANGED <<src, open, log, past>>
      BY <1>4, ToolKeeps DEF Tick, TickSnap, TickCommit, Worker, ApplyEvent, FailBatch,
           CommitBatch, provider
    <2> QED BY <2>1 DEF PastOK, Fits
  <1> QED BY <1>1, <1>2, <1>3, <1>4 DEF Next, Write

(* The ticks and the worker's place in them.                                *)

\* Every step keeps the ticks in order.
LEMMA TicksStep ==
    ASSUME TypeOK, PastOK, TicksOK, Next
    PROVE  TicksOK'
  <1>0. Len(ticks) \in Nat /\ Len(log) \in Nat /\ \A i \in 1..Len(ticks) : ticks[i] \in Nat
    BY DEF TypeOK
  <1>1. CASE Write
    <2>1. UNCHANGED <<ticks, ticking, done, pos>>
      BY <1>1 DEF Write, Begin, Commit, Abort, subscriber
    <2>2. Len(log') \in Nat /\ Len(log') >= Len(log)
      BY <1>0, <1>1 DEF Write, Begin, Commit, Abort, TypeOK
    <2> QED BY <1>0, <2>1, <2>2 DEF TicksOK, TypeOK
  <1>2. CASE TickSnap
    <2>1. ticks[Len(ticks)] <= Len(log)
      BY <1>0 DEF TicksOK
    <2> QED BY <1>0, <1>2, <2>1 DEF TickSnap, TicksOK, subscriber
  <1>3. CASE TickCommit
    <2> PICK n \in ticking : ticks' = Append(ticks, n) /\ ticking' = {}
                             /\ UNCHANGED <<log, done, pos>>
      BY <1>3 DEF TickCommit, subscriber
    <2>1. n \in Nat /\ ticks[Len(ticks)] <= n /\ n <= Len(log)
      BY DEF TypeOK, TicksOK
    <2>2. Len(ticks') = Len(ticks) + 1 /\ ticks'[Len(ticks) + 1] = n
      BY <2>1 DEF TypeOK
    <2>3. \A i \in 1..Len(ticks) : ticks'[i] = ticks[i]
      BY <2>1 DEF TypeOK
    <2>4. done' \in 1..Len(ticks')
      BY <1>0, <2>2 DEF TicksOK
    <2>8. ASSUME NEW i \in 1..Len(ticks') PROVE ticks'[i] <= Len(log')
      <3>1. i \in 1..Len(ticks) \/ i = Len(ticks) + 1
        BY <1>0, <2>2
      <3>2. Len(log') = Len(log)
        OBVIOUS
      <3>3. \A j \in 1..Len(ticks) : ticks[j] <= Len(log)
        BY DEF TicksOK
      <3> QED BY <2>1, <2>2, <2>3, <3>1, <3>2, <3>3
    <2>5. ASSUME NEW i \in 1..(Len(ticks') - 1) PROVE ticks'[i] <= ticks'[i + 1]
      <3>1. i \in 1..Len(ticks) /\ ticks'[i] = ticks[i]
        BY <1>0, <2>2, <2>3
      <3>2. CASE i = Len(ticks)
        BY <2>1, <2>2, <3>1, <3>2
      <3>3. CASE i # Len(ticks)
        <4>1. i \in 1..(Len(ticks) - 1) /\ i + 1 \in 1..Len(ticks)
          BY <1>0, <3>1, <3>3
        <4> QED BY <2>3, <3>1, <4>1 DEF TicksOK
      <3> QED BY <3>2, <3>3
    <2>6. ticks'[done] <= pos
      BY <1>0, <2>3 DEF TicksOK
    <2>7. pos <= ticks'[done + 1]
      <3>1. CASE done < Len(ticks)
        BY <1>0, <2>3, <3>1 DEF TicksOK
      <3>2. CASE done = Len(ticks)
        BY <1>0, <2>1, <2>2, <3>2 DEF TicksOK
      <3> QED BY <1>0, <3>1, <3>2 DEF TicksOK
    <2> QED BY <1>0, <2>2, <2>4, <2>5, <2>6, <2>7, <2>8 DEF TicksOK
  <1>4. CASE ApplyEvent
    <2>1. UNCHANGED <<log, ticks, ticking, done>> /\ pos' = pos + 1
      BY <1>4 DEF ApplyEvent, provider
    <2>2. done < Len(ticks) /\ pos < ticks[done + 1] /\ ticks[done] <= pos /\ done \in 1..Len(ticks)
      BY <1>4 DEF ApplyEvent, InBatch, TicksOK
    <2>3. ticks[done] \in Nat /\ ticks[done + 1] \in Nat /\ pos \in Nat
      BY <1>0, <2>2 DEF TypeOK
    <2> QED BY <1>0, <2>1, <2>2, <2>3 DEF TicksOK
  <1>5. CASE FailBatch
    <2>1. UNCHANGED <<log, ticks, ticking, done>> /\ pos' = ticks[done]
      BY <1>5 DEF FailBatch, provider
    <2>2. done < Len(ticks) /\ pos < ticks[done + 1] /\ ticks[done] <= pos /\ done \in 1..Len(ticks)
      BY <1>5 DEF FailBatch, InBatch, TicksOK
    <2>3. ticks[done] \in Nat /\ ticks[done + 1] \in Nat /\ pos \in Nat
      BY <1>0, <2>2 DEF TypeOK
    <2> QED BY <1>0, <2>1, <2>2, <2>3 DEF TicksOK
  <1>6. CASE CommitBatch
    <2>1. UNCHANGED <<log, ticks, ticking, pos>> /\ done' = done + 1
      BY <1>6 DEF CommitBatch, provider
    <2>2. done < Len(ticks) /\ pos = ticks[done + 1] /\ done \in 1..Len(ticks)
      BY <1>6 DEF CommitBatch, TicksOK
    <2>3. done + 1 < Len(ticks) => ticks[done + 1] <= ticks[done + 2]
      BY <1>0, <2>2 DEF TicksOK
    <2> QED BY <1>0, <2>1, <2>2, <2>3 DEF TicksOK
  <1>7. CASE Tool \/ Elapse
    BY <1>7, ToolKeeps DEF TicksOK, provider, subscriber
  <1> QED BY <1>1, <1>2, <1>3, <1>4, <1>5, <1>6, <1>7 DEF Next, Tick, Worker

(* The lock and the two ticks.                                              *)

\* Under the lock nothing is written, and ticks come to cover the whole log.
LEMMA LockStep ==
    ASSUME TypeOK, TicksOK, LockOK, Next
    PROVE  LockOK'
  <1>0. Len(ticks) \in Nat /\ Len(ticks) >= 1 /\ Len(log) \in Nat /\ waitFor \in Nat
    BY DEF TypeOK, TicksOK
  <1>1. CASE \E k \in Keys, r \in Rows : Begin(k, r)
    BY <1>1 DEF Begin, CanWrite, LockOK, Locked, tool
  <1>2. CASE Commit
    <2>1. ~Locked
      BY <1>2 DEF Commit, LockOK
    <2> QED BY <1>2, <2>1 DEF Commit, LockOK, Locked, tool
  <1>3. CASE Abort
    BY <1>3 DEF Abort, LockOK, Locked, tool
  <1>4. CASE TickSnap
    BY <1>4 DEF TickSnap, LockOK, Locked, tool
  <1>5. CASE TickCommit
    <2> PICK n \in ticking : /\ ticks' = Append(ticks, n) /\ ticking' = {}
                             /\ UNCHANGED <<open, log, pc, waitFor>>
      BY <1>5 DEF TickCommit, tool
    <2>1. n \in Nat
      BY DEF TypeOK
    <2>2. Len(ticks') = Len(ticks) + 1 /\ ticks'[Len(ticks) + 1] = n
      BY <2>1 DEF TypeOK
    <2>3. \A i \in 1..Len(ticks) : ticks'[i] = ticks[i]
      BY <2>1 DEF TypeOK
    <2> QED BY <1>0, <2>1, <2>2, <2>3 DEF LockOK, Locked
  <1>6. CASE Worker
    BY <1>6 DEF Worker, ApplyEvent, FailBatch, CommitBatch, provider, tool, LockOK, Locked
  <1>7. CASE Elapse
    BY <1>7 DEF Elapse, provider, LockOK, Locked
  <1>8. CASE ForceTick("tick1", "again1")
    BY <1>0, <1>8 DEF ForceTick, provider, LockOK, Locked
  <1>9. CASE NewTick("again1", "tick2")
    BY <1>0, <1>9 DEF NewTick, provider, LockOK, Locked
  <1>10. CASE ForceTick("tick2", "again2")
    BY <1>0, <1>10 DEF ForceTick, provider, LockOK, Locked
  <1>11. CASE NewTick("again2", "wait")
    BY <1>0, <1>11 DEF NewTick, provider, LockOK, Locked
  <1>12. CASE RequestLock \/ GrantLock \/ LockTimeout \/ WaitDone \/ GiveUp \/ Unlock \/ MergeDone
    BY <1>12 DEF RequestLock, GrantLock, LockTimeout, WaitDone, GiveUp, Unlock, MergeDone,
         provider, tool, LockOK, Locked
  <1>13. CASE SnapSrc \/ SnapDst \/ Compare \/ Dump
    BY <1>13 DEF SnapSrc, SnapDst, Compare, Dump, provider, LockOK, Locked
  <1>14. CASE \E k \in Keys : MissedDelete(k) \/ MissedInsert(k) \/ SameKey(k) \/ InsertFails(k)
    BY <1>14 DEF MissedDelete, MissedInsert, SameKey, InsertFails, provider, tool, LockOK, Locked
  <1> QED BY <1>1, <1>2, <1>3, <1>4, <1>5, <1>6, <1>7, <1>8, <1>9, <1>10, <1>11, <1>12,
           <1>13, <1>14 DEF Next, Write, Tick, Tool

-----------------------------------------------------------------------------
(* The worker's copy of a row that had not drifted.                         *)

\* What a worker that has handled the first n events sees of a row does not
\* change when the provider goes on.
LEMMA PastKept ==
    ASSUME TypeOK, PastOK, Next
    PROVE  /\ Len(log') >= Len(log)
           /\ \A n \in 0..Len(log) : past'[n + 1] = past[n + 1]
  <1>0. Len(past) = Len(log) + 1 /\ Len(log) \in Nat
    BY DEF PastOK, TypeOK
  <1>1. CASE Commit
    <2>1. Len(log') >= Len(log)
      BY <1>1 DEF Commit, TypeOK
    <2>2. \A i \in 1..Len(past) : past'[i] = past[i]
      BY <1>1 DEF Commit, TypeOK
    <2> QED BY <1>0, <2>1, <2>2
  <1>2. CASE ~Commit
    <2>1. UNCHANGED <<log, past>>
      BY <1>2, ToolKeeps DEF Next, Write, Begin, Abort, Tick, TickSnap, TickCommit, Worker,
           ApplyEvent, FailBatch, CommitBatch, provider
    <2> QED BY <1>0, <2>1
  <1> QED BY <1>1, <1>2

\* Until the repair, every step keeps a row that has not drifted as the provider had it.
LEMMA WorkerStep ==
    ASSUME TypeOK, PastOK, TicksOK, WorkerOK, Next
    PROVE  WorkerOK'
  <1> DEFINE Early == pc \notin {"work", "merge", "done", "failed"}
  <1>0. /\ Len(ticks) \in Nat /\ Len(log) \in Nat /\ pos \in Nat /\ done \in 1..Len(ticks)
        /\ \A i \in 1..Len(ticks) : ticks[i] \in 0..Len(log)
    BY DEF TypeOK, TicksOK
  <1>1. pos \in 0..Len(log) /\ ticks[done] \in 0..Len(log)
    BY <1>0 DEF TicksOK
  <1>2. CASE Write \/ Tick
    <2>1. UNCHANGED <<dst, work, pos, done, pc, drifted>>
      BY <1>2 DEF Write, Begin, Commit, Abort, Tick, TickSnap, TickCommit, subscriber, fixed
    <2>2. ticks'[done] = ticks[done]
      BY <1>0, <1>2 DEF Write, Begin, Commit, Abort, Tick, TickSnap, TickCommit, TypeOK
    <2>3. /\ past'[pos + 1] = past[pos + 1]
          /\ past'[ticks[done] + 1] = past[ticks[done] + 1]
      BY <1>1, PastKept
    <2> QED BY <2>1, <2>2, <2>3 DEF WorkerOK, Clean, Seen
  <1>3. CASE Tool \/ Elapse
    <2>1. UNCHANGED <<past, ticks, done, pos, work, drifted>>
      BY <1>3, ToolKeeps, DriftKept DEF provider, subscriber
    <2>2. Early' => Early /\ dst' = dst
      BY <1>3, EarlyTool
    <2> QED BY <2>1, <2>2 DEF WorkerOK, Clean, Seen
  <1>4. CASE ApplyEvent
    <2> DEFINE c == log[pos + 1]
    <2>1. UNCHANGED <<past, ticks, done, dst, pc, drifted>> /\ pos' = pos + 1
      BY <1>4 DEF ApplyEvent, provider, fixed
    <2>2. pos + 1 \in 1..Len(log)
      BY <1>4, NextEvent DEF ApplyEvent
    <2>10. c \in Change
      BY <2>2 DEF TypeOK
    <2>3. c.key \in Keys /\ c.op \in Ops /\ c.row \in Rows
      BY <2>10 DEF Change
    <2>11. \A i \in 1..Len(log) : /\ Fits(log[i], past[i])
                                  /\ past[i + 1] = [past[i] EXCEPT ![log[i].key] = log[i].row]
      BY DEF PastOK
    <2>12. pos + 1 + 1 = pos + 2
      BY <1>0
    <2>4. Fits(c, past[pos + 1]) /\ past[pos + 2] = [past[pos + 1] EXCEPT ![c.key] = c.row]
      BY <2>2, <2>11, <2>12
    <2>5. past[pos + 1] \in Tables
      BY <1>0, <2>2 DEF TypeOK, PastOK
    <2>6. ASSUME Early, NEW k \in Clean PROVE Seen(k)' = past[pos + 2][k]
      <3>1. Seen(k) = past[pos + 1][k] /\ k \in Keys
        BY <2>6 DEF WorkerOK, Clean
      <3>2. CASE k = c.key
        <4>1. c.op = "I" <=> Seen(k) = Absent
          BY <2>4, <3>1, <3>2 DEF Fits
        <4>2. work' = [work EXCEPT ![c.key] = Written(c)]
          BY <1>4, <3>2, <4>1 DEF ApplyEvent
        <4>3. Written(c) = c.row
          BY <2>3, <2>4, <3>2, <4>1 DEF Written, Ops, Fits
        <4>4. work'[k] = c.row /\ c.row # Untouched
          <5>1. c.row # Untouched
            BY <2>3, RowsAssumption DEF Rows
          <5>2. work'[k] = Written(c)
            BY <3>1, <3>2, <4>2 DEF TypeOK
          <5> QED BY <4>3, <5>1, <5>2
        <4>5. past[pos + 2][k] = c.row
          BY <2>4, <2>5, <3>1, <3>2 DEF Tables
        <4> QED BY <4>4, <4>5 DEF Seen
      <3>3. CASE k # c.key
        <4>1. work'[k] = work[k]
          BY <1>4, <3>1, <3>3 DEF ApplyEvent, TypeOK
        <4>2. past[pos + 2][k] = past[pos + 1][k]
          BY <2>4, <2>5, <3>1, <3>3 DEF Tables
        <4> QED BY <2>1, <3>1, <4>1, <4>2 DEF Seen
      <3> QED BY <3>2, <3>3
    <2>7. pos' + 1 = pos + 2
      BY <1>0, <2>1
    <2> QED BY <2>1, <2>6, <2>7 DEF WorkerOK, Clean
  <1>5. CASE FailBatch
    <2>1. UNCHANGED <<past, ticks, done, dst, pc, drifted>> /\ pos' = ticks[done]
      BY <1>5 DEF FailBatch, provider, fixed
    <2>2. \A k \in Keys : Seen(k)' = dst[k]
      BY <1>5 DEF FailBatch, Seen
    <2> QED BY <2>1, <2>2 DEF WorkerOK, Clean
  <1>6. CASE CommitBatch
    <2>1. UNCHANGED <<past, ticks, pos, pc, drifted>> /\ done' = done + 1 /\ pos = ticks[done + 1]
      BY <1>6 DEF CommitBatch, provider, fixed
    <2>2. \A k \in Keys : dst'[k] = Seen(k)
      BY <1>6 DEF CommitBatch
    <2>3. \A k \in Keys : Seen(k)' = dst'[k]
      BY <1>6 DEF CommitBatch, Seen
    <2> QED BY <2>1, <2>2, <2>3 DEF WorkerOK, Clean
  <1> QED BY <1>2, <1>3, <1>4, <1>5, <1>6 DEF Next, Worker

-----------------------------------------------------------------------------
(* The snapshots.                                                           *)

\* Every step keeps the two dumps equal on the rows that have not drifted.
LEMMA SnapStep ==
    ASSUME TypeOK, PastOK, TicksOK, WorkerOK, LockOK, SnapOK, Next
    PROVE  SnapOK'
  <1>0. Len(ticks) \in Nat /\ Len(log) \in Nat /\ done \in 1..Len(ticks) /\ waitFor \in Nat
    BY DEF TypeOK, TicksOK
  <1>1. CASE Write
    <2>1. UNCHANGED <<pc, done, waitFor, ssnap, dsnap, drifted>>
      BY <1>1 DEF Write, Begin, Commit, Abort, subscriber, tool, fixed
    <2>2. pc = "snapDst" => src' = src
      BY <1>1 DEF Write, Begin, Commit, Abort, LockOK, Locked
    <2> QED BY <2>1, <2>2 DEF SnapOK, TickReached, Clean
  <1>2. CASE Tick
    BY <1>2 DEF Tick, TickSnap, TickCommit, subscriber, tool, fixed, SnapOK, TickReached, Clean
  <1>3. CASE Worker
    <2>1. UNCHANGED <<src, pc, waitFor, ssnap, dsnap, drifted>>
      BY <1>3 DEF Worker, ApplyEvent, FailBatch, CommitBatch, provider, tool, fixed
    <2>2. done' \in Nat /\ done' >= done
      BY <1>0, <1>3 DEF Worker, ApplyEvent, FailBatch, CommitBatch
    <2> QED BY <1>0, <2>1, <2>2 DEF SnapOK, TickReached, Clean
  <1>4. CASE SnapDst
    <2>1. pc = "snapDst" /\ pc' = "unlock" /\ dsnap' = dst
          /\ UNCHANGED <<src, done, waitFor, ssnap, drifted>>
      BY <1>4 DEF SnapDst, provider, subscriber, fixed
    <2>2. ticks[done] = Len(log)
      BY <1>0, <2>1 DEF SnapOK, TickReached, LockOK
    <2>3. \A k \in Clean : dst[k] = src[k]
      BY <2>1, <2>2 DEF WorkerOK, PastOK
    <2> QED BY <2>1, <2>3 DEF SnapOK, TickReached, Clean
  <1>5. CASE SnapSrc
    BY <1>5 DEF SnapSrc, provider, subscriber, fixed, SnapOK, TickReached, Clean
  <1>6. CASE (Tool \/ Elapse) /\ ~SnapSrc /\ ~SnapDst
    <2>1. UNCHANGED <<src, done, ssnap, dsnap, drifted>>
      BY <1>6, ToolKeeps, DriftKept, SnapsKept DEF provider, subscriber
    <2>2. /\ pc' \in {"snapSrc", "snapDst", "unlock"} => waitFor' = waitFor
          /\ pc' \in {"snapSrc", "snapDst", "unlock"} => pc' = pc \/ (pc = "wait" /\ TickReached)
          /\ pc' = "snapDst" => pc = "snapDst"
          /\ pc' \in {"unlock", "work", "merge", "done"} => pc \in {"unlock", "work", "merge", "done"}
      BY <1>6, LateTool
    <2> QED BY <2>1, <2>2 DEF SnapOK, TickReached, Clean
  <1> QED BY <1>1, <1>2, <1>3, <1>4, <1>5, <1>6 DEF Next

-----------------------------------------------------------------------------
(* The merge of the two dumps.                                              *)

\* Outside of the merge the tool issues no statement.
LEMMA NoFixes ==
    ASSUME Next, ~(\E k \in Keys : MissedDelete(k) \/ MissedInsert(k) \/ SameKey(k))
    PROVE  fixes' = fixes
  <1>1. CASE Write \/ Tick \/ Worker
    BY <1>1 DEF Write, Begin, Commit, Abort, Tick, TickSnap, TickCommit, Worker, ApplyEvent,
       FailBatch, CommitBatch, tool, dumps
  <1>2. CASE Tool \/ Elapse
    <2>1. CASE \E k \in Keys : InsertFails(k)
      BY <2>1 DEF InsertFails, tool, dumps
    <2>2. CASE ~(\E k \in Keys : InsertFails(k))
      BY <1>2, <2>2 DEF Elapse, Tool, RequestLock, GrantLock, LockTimeout, ForceTick, NewTick,
         WaitDone, GiveUp, SnapSrc, SnapDst, Unlock, Compare, Dump, MergeDone, tool, dumps
    <2> QED BY <2>1, <2>2
  <1> QED BY <1>1, <1>2 DEF Next

\* What a statement of the merge is about: the dumps are sorted, so a line that is before
\* all lines of the other dump has none there.
LEMMA Lines ==
    ASSUME TypeOK, MergeOK, NEW k \in Keys, MissedDelete(k) \/ MissedInsert(k) \/ SameKey(k)
    PROVE  /\ pc = "merge" /\ Merged /\ k \in srcLeft \union dstLeft
           /\ MissedDelete(k) => k \in dstLeft /\ k \notin srcLeft /\ ssnap[k] = Absent /\ dsnap[k] # Absent
           /\ MissedInsert(k) => k \in srcLeft /\ k \notin dstLeft /\ dsnap[k] = Absent /\ ssnap[k] # Absent
           /\ SameKey(k) => k \in srcLeft /\ k \in dstLeft /\ ssnap[k] # Absent /\ dsnap[k] # Absent
  <1>1. pc = "merge" /\ Merged
    BY DEF MissedDelete, MissedInsert, SameKey, MergeOK
  <1>2. /\ srcLeft \subseteq Present(ssnap) /\ dstLeft \subseteq Present(dsnap)
        /\ \A j \in Present(ssnap) \intersect Present(dsnap) : j \in srcLeft <=> j \in dstLeft
    BY <1>1 DEF MergeOK
  <1>3. \A j \in Keys : ~(j < j)
    BY KeysAssumption
  <1> QED BY <1>1, <1>2, <1>3 DEF MissedDelete, MissedInsert, SameKey, IsLine, Before, Present

\* A statement of the merge is the one that repairs its row, and takes that row's lines.
LEMMA Statement ==
    ASSUME TypeOK, MergeOK, NEW k \in Keys, MissedDelete(k) \/ MissedInsert(k) \/ SameKey(k)
    PROVE  /\ srcLeft' = srcLeft \ {k} /\ dstLeft' = dstLeft \ {k}
           /\ UNCHANGED <<provider, subscriber, pc, waitFor, ssnap, dsnap, mode, drifted>>
           /\ ssnap[k] # dsnap[k] => Issue(FixOf(k))
           /\ ssnap[k] = dsnap[k] => UNCHANGED <<fixes, dst>>
  <1>1. /\ MissedDelete(k) => k \in dstLeft /\ k \notin srcLeft /\ ssnap[k] = Absent /\ dsnap[k] # Absent
        /\ MissedInsert(k) => k \in srcLeft /\ k \notin dstLeft /\ dsnap[k] = Absent /\ ssnap[k] # Absent
        /\ SameKey(k) => k \in srcLeft /\ k \in dstLeft /\ ssnap[k] # Absent /\ dsnap[k] # Absent
    BY Lines
  <1>2. CASE MissedDelete(k)
    <2>1. FixOf(k) = [op |-> "delete", key |-> k, row |-> Absent, old |-> dsnap[k]]
      BY <1>1, <1>2 DEF FixOf
    <2> QED BY <1>1, <1>2, <2>1 DEF MissedDelete, fixed
  <1>3. CASE MissedInsert(k)
    <2>1. FixOf(k) = [op |-> "insert", key |-> k, row |-> ssnap[k], old |-> Absent]
      BY <1>1, <1>3 DEF FixOf
    <2> QED BY <1>1, <1>3, <2>1 DEF MissedInsert, fixed
  <1>4. CASE SameKey(k)
    <2>1. FixOf(k) = [op |-> "update", key |-> k, row |-> ssnap[k], old |-> dsnap[k]]
      BY <1>1, <1>4 DEF FixOf
    <2> QED BY <1>4, <2>1 DEF SameKey, fixed
  <1> QED BY <1>2, <1>3, <1>4

\* Every step keeps the statements those of the rows that the merge has passed.
LEMMA MergeStep ==
    ASSUME TypeOK, MergeOK, Next
    PROVE  MergeOK'
  <1>1. CASE \E k \in Keys : MissedDelete(k) \/ MissedInsert(k) \/ SameKey(k)
    <2> PICK k \in Keys : MissedDelete(k) \/ MissedInsert(k) \/ SameKey(k)
      BY <1>1
    <2> DEFINE Diff == {j \in Keys : ssnap[j] # dsnap[j]}
    <2>1. /\ srcLeft' = srcLeft \ {k} /\ dstLeft' = dstLeft \ {k}
          /\ UNCHANGED <<pc, ssnap, dsnap, mode>>
          /\ ssnap[k] # dsnap[k] => fixes' = fixes \union {FixOf(k)}
          /\ ssnap[k] = dsnap[k] => fixes' = fixes
      BY Statement DEF Issue
    <2>2. pc = "merge" /\ Merged /\ Merged' /\ k \in srcLeft \union dstLeft
      BY <2>1, Lines DEF Merged
    <2>3. /\ srcLeft \subseteq Present(ssnap) /\ dstLeft \subseteq Present(dsnap)
          /\ \A j \in Present(ssnap) \intersect Present(dsnap) : j \in srcLeft <=> j \in dstLeft
          /\ fixes = {FixOf(j) : j \in Diff \ (srcLeft \union dstLeft)}
      BY <2>2 DEF MergeOK
    <2>4. \A j : FixOf(j)' = FixOf(j)
      BY <2>1 DEF FixOf
    <2>5. fixes' = {FixOf(j) : j \in Diff \ (srcLeft' \union dstLeft')}
      <3>1. Diff \ (srcLeft' \union dstLeft') =
              IF ssnap[k] # dsnap[k] THEN (Diff \ (srcLeft \union dstLeft)) \union {k}
              ELSE Diff \ (srcLeft \union dstLeft)
        BY <2>1
      <3> QED BY <2>1, <2>3, <3>1
    <2>6. /\ srcLeft' \subseteq Present(ssnap)' /\ dstLeft' \subseteq Present(dsnap)'
          /\ \A j \in (Present(ssnap) \intersect Present(dsnap))' : j \in srcLeft' <=> j \in dstLeft'
      BY <2>1, <2>3 DEF Present
    <2>7. fixes' = {FixOf(j)' : j \in {i \in Keys : ssnap'[i] # dsnap'[i]} \ (srcLeft' \union dstLeft')}
      BY <2>1, <2>4, <2>5
    <2> QED BY <2>1, <2>2, <2>6, <2>7 DEF MergeOK
  <1>2. CASE ~(\E k \in Keys : MissedDelete(k) \/ MissedInsert(k) \/ SameKey(k))
    <2>1. fixes' = fixes
      BY <1>2, NoFixes
    <2>2. CASE Write \/ Tick \/ Worker
      <3>1. UNCHANGED <<pc, mode, ssnap, dsnap, srcLeft, dstLeft>>
        BY <2>2 DEF Write, Begin, Commit, Abort, Tick, TickSnap, TickCommit, Worker, ApplyEvent,
           FailBatch, CommitBatch, tool, dumps, fixed
      <3> QED BY <2>1, <3>1 DEF MergeOK, Merged, Present, FixOf
    <2>3. CASE Dump
      <3>1. /\ pc = "work" /\ pc' = "merge" /\ mode' \in {"dump", "apply"}
            /\ srcLeft' = Present(ssnap) /\ dstLeft' = Present(dsnap) /\ UNCHANGED <<ssnap, dsnap>>
        BY <2>3 DEF Dump
      <3>2. fixes' = {}
        BY <2>1, <3>1 DEF MergeOK
      <3>3. {j \in Keys : ssnap[j] # dsnap[j]} \ (srcLeft' \union dstLeft') = {}
        BY <3>1 DEF Present
      <3>4. fixes' = {FixOf(j)' : j \in {i \in Keys : ssnap'[i] # dsnap'[i]} \ (srcLeft' \union dstLeft')}
        BY <3>1, <3>2, <3>3
      <3> QED BY <3>1, <3>4 DEF MergeOK, Merged, Present
    <2>4. CASE MergeDone
      <3>1. /\ pc = "merge" /\ pc' = "done" /\ srcLeft = {} /\ dstLeft = {}
            /\ UNCHANGED <<mode, ssnap, dsnap, srcLeft, dstLeft>>
        BY <2>4 DEF MergeDone, tool, dumps, fixed
      <3> QED BY <2>1, <3>1 DEF MergeOK, Merged, Present, FixOf
    <2>5. CASE \E k \in Keys : InsertFails(k)
      BY <2>5 DEF InsertFails, MergeOK, Merged
    <2>6. CASE Compare
      BY <2>6 DEF Compare, MergeOK, Merged
    <2>7. CASE Elapse
      <3>1. pc' = pc /\ pc \notin {"merge", "done", "failed"}
        BY <2>7 DEF Elapse, Locked
      <3> QED BY <2>1, <3>1 DEF MergeOK, Merged
    <2>8. CASE (Tool \/ Elapse) /\ ~Dump /\ ~MergeDone /\ ~Compare /\ ~Elapse
               /\ ~(\E k \in Keys : InsertFails(k))
      <3>1. pc \notin {"merge", "done", "failed"} /\ pc' \notin {"merge", "done"}
        BY <1>2, <2>8 DEF Tool, RequestLock, GrantLock, LockTimeout, ForceTick, NewTick,
           WaitDone, GiveUp, SnapSrc, SnapDst, Unlock
      <3> QED BY <2>1, <3>1 DEF MergeOK, Merged
    <2> QED BY <2>2, <2>3, <2>4, <2>5, <2>6, <2>7, <2>8 DEF Next
  <1> QED BY <1>1, <1>2

-----------------------------------------------------------------------------
(* The worker's open transaction, and the rows after the target snapshot.   *)

\* An event makes of a row what the provider made of it, or finds it gone.
LEMMA EventRow ==
    ASSUME TypeOK, PastOK, TicksOK, ApplyEvent
    PROVE  /\ past[pos + 1] \in Tables /\ past[pos + 2] \in Tables
           /\ \A k \in Keys :
                \/ work'[k] = past[pos + 2][k] /\ work'[k] # Untouched
                \/ /\ work'[k] = work[k] /\ past[pos + 2][k] = past[pos + 1][k]
                \/ /\ work'[k] = work[k] /\ Seen(k) = Absent /\ past[pos + 1][k] # Absent
  <1> DEFINE c == log[pos + 1]
  <1>1. pos + 1 \in 1..Len(log) /\ pos \in Nat /\ Len(log) \in Nat
    BY NextEvent DEF ApplyEvent, TypeOK
  <1>2. c \in Change
    BY <1>1 DEF TypeOK
  <1>3. c.key \in Keys /\ c.op \in Ops /\ c.row \in Rows
    BY <1>2 DEF Change
  <1>4. \A i \in 1..Len(log) : /\ Fits(log[i], past[i])
                               /\ past[i + 1] = [past[i] EXCEPT ![log[i].key] = log[i].row]
    BY DEF PastOK
  <1>5. pos + 1 + 1 = pos + 2
    BY <1>1
  <1>6. Fits(c, past[pos + 1]) /\ past[pos + 2] = [past[pos + 1] EXCEPT ![c.key] = c.row]
    BY <1>1, <1>4, <1>5
  <1>7. past[pos + 1] \in Tables /\ past[pos + 2] \in Tables
    BY <1>1 DEF TypeOK, PastOK
  <1>8. ASSUME NEW k \in Keys, k # c.key
        PROVE  work'[k] = work[k] /\ past[pos + 2][k] = past[pos + 1][k]
    <2>1. work'[k] = work[k]
      BY <1>3, <1>8 DEF ApplyEvent, TypeOK
    <2> QED BY <1>3, <1>6, <1>7, <1>8, <2>1 DEF Tables
  <1>9. ASSUME NEW k \in Keys, k = c.key
        PROVE  \/ work'[k] = past[pos + 2][k] /\ work'[k] # Untouched
               \/ work'[k] = work[k] /\ Seen(k) = Absent /\ past[pos + 1][k] # Absent
    <2>1. past[pos + 2][k] = c.row /\ c.row # Untouched
      <3>1. past[pos + 2][k] = c.row
        BY <1>3, <1>6, <1>7, <1>9 DEF Tables
      <3> QED BY <1>3, <3>1, RowsAssumption DEF Rows
    <2>2. CASE c.op # "I" /\ Seen(k) = Absent
      <3>1. work' = work
        BY <1>9, <2>2 DEF ApplyEvent
      <3> QED BY <1>6, <1>9, <2>2, <3>1 DEF Fits
    <2>3. CASE ~(c.op # "I" /\ Seen(k) = Absent)
      <3>1. work' = [work EXCEPT ![c.key] = Written(c)]
        BY <1>9, <2>3 DEF ApplyEvent
      <3>2. Written(c) = c.row
        BY <1>3, <1>6, <1>9, <2>3 DEF Written, Ops, Fits
      <3>3. work'[k] = c.row
        BY <1>3, <1>9, <3>1, <3>2 DEF TypeOK
      <3> QED BY <2>1, <3>3
    <2> QED BY <2>2, <2>3
  <1> QED BY <1>7, <1>8, <1>9

\* Every step keeps the open transaction one of the events that were handled.
LEMMA BatchStep ==
    ASSUME TypeOK, PastOK, TicksOK, BatchOK, Next
    PROVE  BatchOK'
  <1>0. /\ Len(ticks) \in Nat /\ Len(log) \in Nat /\ pos \in Nat /\ done \in 1..Len(ticks)
        /\ \A i \in 1..Len(ticks) : ticks[i] \in 0..Len(log)
    BY DEF TypeOK, TicksOK
  <1>1. pos \in 0..Len(log) /\ ticks[done] \in 0..Len(log) /\ ticks[done] <= pos
    BY <1>0 DEF TicksOK
  <1>2. CASE Write \/ Tick \/ Tool \/ Elapse
    <2>1. UNCHANGED <<work, pos, done>>
      BY <1>2, ToolKeeps DEF Write, Begin, Commit, Abort, Tick, TickSnap, TickCommit, subscriber
    <2>2. ticks'[done] = ticks[done]
      BY <1>0, <1>2, ToolKeeps DEF Write, Begin, Commit, Abort, Tick, TickSnap, TickCommit, TypeOK, provider
    <2>3. past'[pos + 1] = past[pos + 1]
      BY <1>1, PastKept
    <2> QED BY <2>1, <2>2, <2>3 DEF BatchOK
  <1>3. CASE ApplyEvent
    <2>1. UNCHANGED <<past, ticks, done>> /\ pos' = pos + 1 /\ pos' + 1 = pos + 2
      BY <1>0, <1>3 DEF ApplyEvent, provider
    <2>2. pos' # ticks'[done']
      BY <1>0, <1>1, <2>1
    <2>3. ASSUME NEW k \in Keys, work'[k] # Untouched PROVE work'[k] = past[pos + 2][k]
      <3>1. CASE work'[k] = work[k] /\ Seen(k) = Absent /\ past[pos + 1][k] # Absent
        BY <2>3, <3>1 DEF BatchOK, Seen
      <3>2. CASE work'[k] = work[k] /\ past[pos + 2][k] = past[pos + 1][k]
        BY <2>3, <3>2 DEF BatchOK
      <3> QED BY <1>3, <3>1, <3>2, EventRow
    <2> QED BY <2>1, <2>2, <2>3 DEF BatchOK
  <1>4. CASE FailBatch \/ CommitBatch
    BY <1>4 DEF FailBatch, CommitBatch, BatchOK
  <1> QED BY <1>2, <1>3, <1>4 DEF Next, Worker

\* A step of the tool other than a statement of the repair.
LEMMA KnownKept ==
    ASSUME TypeOK, MergeOK, Tool \/ Elapse, pc' \in {"unlock", "work", "merge", "done"}, ~SnapDst,
           ~(\E k \in Keys : MissedDelete(k) \/ MissedInsert(k) \/ SameKey(k))
    PROVE  /\ pc \in {"unlock", "work", "merge", "done"} /\ UNCHANGED <<ticks, pos, done, past, work, dst>>
           /\ \A k \in Keys : Known(k)' = Known(k)
  <1>0. UNCHANGED <<ticks, pos, done, past, work>>
    BY ToolKeeps DEF provider, subscriber
  <1>1. CASE Dump
    <2>1. /\ pc = "work" /\ srcLeft' = Present(ssnap) /\ dstLeft' = Present(dsnap)
          /\ UNCHANGED <<ssnap, dsnap, dst>>
      BY <1>1 DEF Dump
    <2>2. ASSUME NEW k \in Keys PROVE Known(k)' = Known(k)
      BY <2>1 DEF Known, Merged, Present
    <2> QED BY <1>0, <2>1, <2>2
  <1>2. CASE Compare
    <2>1. pc = "work" /\ mode' \in {"compare", "count"} /\ UNCHANGED <<ssnap, dsnap, dst>>
      BY <1>2 DEF Compare
    <2> QED BY <1>0, <2>1 DEF Known, Merged
  <1>3. CASE MergeDone
    BY <1>0, <1>3 DEF MergeDone, Known, Merged, tool, dumps, fixed
  <1>4. CASE Unlock
    BY <1>0, <1>4 DEF Unlock, Known, Merged, tool, dumps, fixed
  <1>5. CASE Elapse
    BY <1>0, <1>5 DEF Elapse, Known, Merged, Locked, dumps, fixed
  <1>6. CASE \E k \in Keys : InsertFails(k)
    BY <1>6 DEF InsertFails
  <1>7. CASE Tool /\ ~Dump /\ ~Compare /\ ~MergeDone /\ ~Unlock /\ ~(\E k \in Keys : InsertFails(k))
    BY <1>7 DEF Tool, RequestLock, GrantLock, LockTimeout, ForceTick, NewTick, WaitDone, GiveUp, SnapSrc
  <1> QED BY <1>1, <1>2, <1>3, <1>4, <1>5, <1>6, <1>7

\* A statement that is run leaves the row it was made for, or what the worker made of it.
LEMMA IssueStep ==
    ASSUME TypeOK, BatchOK, MergeOK, RepairOK, NEW k \in Keys,
           MissedDelete(k) \/ MissedInsert(k) \/ SameKey(k)
    PROVE  RepairOK'
  <1> DEFINE f == FixOf(k)
  <1>1. /\ srcLeft' = srcLeft \ {k} /\ dstLeft' = dstLeft \ {k}
        /\ UNCHANGED <<past, ticks, pos, done, work, pc, ssnap, dsnap, mode>>
        /\ ssnap[k] # dsnap[k] => Issue(f)
        /\ ssnap[k] = dsnap[k] => UNCHANGED <<fixes, dst>>
    BY Statement DEF provider, subscriber
  <1>2. /\ pc = "merge" /\ Merged /\ Merged' /\ k \in srcLeft \union dstLeft
        /\ k \in srcLeft => ssnap[k] # Absent
        /\ k \in dstLeft => dsnap[k] # Absent
        /\ MissedDelete(k) => ssnap[k] = Absent /\ dsnap[k] # Absent
        /\ MissedInsert(k) => dsnap[k] = Absent /\ ssnap[k] # Absent
        /\ SameKey(k) => ssnap[k] # Absent /\ dsnap[k] # Absent
    BY <1>1, Lines DEF Merged
  <1>3. ASSUME NEW j \in Keys, j # k
        PROVE  Known(j)' = Known(j) /\ dst'[j] = dst[j] /\ Seen(j)' = Seen(j)
    <2>1. dst'[j] = dst[j]
      <3>1. f.key = k
        BY DEF FixOf
      <3> QED BY <1>1, <1>3, <3>1 DEF Issue, TypeOK, Tables
    <2> QED BY <1>1, <1>2, <1>3, <2>1 DEF Known, Seen, Merged
  <1>4. /\ Known(k) = dsnap[k]
        /\ Known(k)' = IF mode = "apply" THEN ssnap[k] ELSE dsnap[k]
    BY <1>1, <1>2 DEF Known
  <1>5. /\ dst[k] \in {dsnap[k], past[ticks[done] + 1][k]}
        /\ Seen(k) \in {dsnap[k], past[pos + 1][k]}
        /\ work[k] # Untouched => work[k] = past[pos + 1][k]
    BY <1>2, <1>4 DEF RepairOK, BatchOK
  <1>6. /\ dst'[k] \in {Known(k)', past[ticks[done] + 1][k]}
        /\ Seen(k)' \in {Known(k)', past[pos + 1][k]}
    <2>1. CASE mode # "apply" \/ ssnap[k] = dsnap[k]
      <3>1. dst' = dst
        BY <1>1, <2>1 DEF Issue
      <3> QED BY <1>1, <1>4, <1>5, <2>1, <3>1 DEF Seen
    <2>2. CASE mode = "apply" /\ ssnap[k] # dsnap[k]
      <3>1. /\ ~Blocked(f) /\ (f.op = "insert" => dst[f.key] = Absent) /\ f.key = k
            /\ dst' = [dst EXCEPT ![k] = Fixed(f)] /\ f.row = ssnap[k] /\ f.old = dsnap[k]
        BY <1>1, <2>2 DEF Issue, FixOf
      <3>2. dst'[k] = Fixed(f) /\ Known(k)' = ssnap[k]
        BY <1>4, <2>2, <3>1 DEF TypeOK, Tables
      <3>3. CASE ssnap[k] = Absent
        <4>1. f.op = "delete"
          BY <3>3 DEF FixOf
        <4>2. dst'[k] = ssnap[k]
          BY <3>2, <3>3, <4>1 DEF Fixed
        <4> QED BY <1>1, <1>5, <3>2, <4>2 DEF Seen
      <3>4. CASE ssnap[k] # Absent /\ dsnap[k] = Absent
        <4>1. f.op = "insert"
          BY <3>4 DEF FixOf
        <4>2. dst'[k] = ssnap[k] /\ work[k] = Untouched
          BY <3>1, <3>2, <4>1 DEF Fixed, Blocked
        <4> QED BY <1>1, <3>2, <4>2 DEF Seen
      <3>5. CASE ssnap[k] # Absent /\ dsnap[k] # Absent
        <4>1. f.op = "update"
          BY <3>5 DEF FixOf
        <4>2. CASE dst[k] = dsnap[k]
          <5>1. dst'[k] = ssnap[k] /\ work[k] = Untouched
            BY <3>1, <3>2, <3>5, <4>1, <4>2 DEF Fixed, Blocked
          <5> QED BY <1>1, <3>2, <5>1 DEF Seen
        <4>3. CASE dst[k] # dsnap[k]
          <5>1. dst'[k] = dst[k]
            BY <3>1, <3>2, <4>1, <4>3 DEF Fixed
          <5> QED BY <1>1, <1>5, <4>3, <5>1 DEF Seen
        <4> QED BY <4>2, <4>3
      <3> QED BY <3>3, <3>4, <3>5
    <2> QED BY <2>1, <2>2
  <1> HIDE DEF f
  <1>7. ASSUME NEW j \in Keys
        PROVE  /\ dst'[j] \in {Known(j)', past[ticks[done] + 1][j]}
               /\ Seen(j)' \in {Known(j)', past[pos + 1][j]}
    BY <1>2, <1>3, <1>6 DEF RepairOK
  <1> QED BY <1>1, <1>7 DEF RepairOK

\* Every step keeps a row what the tool knows or what the worker made of it.
LEMMA RepairStep ==
    ASSUME TypeOK, PastOK, TicksOK, LockOK, SnapOK, BatchOK, MergeOK, RepairOK, Next
    PROVE  RepairOK'
  <1>0. /\ Len(ticks) \in Nat /\ Len(log) \in Nat /\ pos \in Nat /\ done \in 1..Len(ticks)
        /\ waitFor \in Nat /\ \A i \in 1..Len(ticks) : ticks[i] \in 0..Len(log)
    BY DEF TypeOK, TicksOK
  <1>1. pos \in 0..Len(log) /\ ticks[done] \in 0..Len(log) /\ ticks[done] <= pos
    BY <1>0 DEF TicksOK
  <1>2. CASE Write \/ Tick
    <2>1. UNCHANGED <<dst, work, pos, done, pc, mode, ssnap, dsnap, srcLeft, dstLeft>>
      BY <1>2 DEF Write, Begin, Commit, Abort, Tick, TickSnap, TickCommit, subscriber, tool, dumps, fixed
    <2>2. ticks'[done] = ticks[done]
      BY <1>0, <1>2 DEF Write, Begin, Commit, Abort, Tick, TickSnap, TickCommit, TypeOK
    <2>3. /\ past'[pos + 1] = past[pos + 1]
          /\ past'[ticks[done] + 1] = past[ticks[done] + 1]
      BY <1>1, PastKept
    <2> QED BY <2>1, <2>2, <2>3 DEF RepairOK, Known, Merged, Seen
  <1>3. CASE Worker
    <2>1. /\ UNCHANGED <<past, ticks, pc, mode, ssnap, dsnap, srcLeft, dstLeft>>
          /\ \A k \in Keys : Known(k)' = Known(k)
      BY <1>3 DEF Worker, ApplyEvent, FailBatch, CommitBatch, provider, tool, dumps, fixed, Known, Merged
    <2>2. CASE ApplyEvent
      <3>1. UNCHANGED <<dst, done>> /\ pos' + 1 = pos + 2
        BY <1>0, <2>2 DEF ApplyEvent
      <3>2. ASSUME pc \in {"unlock", "work", "merge", "done"}, NEW k \in Keys
            PROVE  Seen(k)' \in {Known(k), past[pos + 2][k]}
        <4>1. Seen(k) \in {Known(k), past[pos + 1][k]}
          BY <3>2 DEF RepairOK
        <4>2. CASE work'[k] = past[pos + 2][k] /\ work'[k] # Untouched
          BY <4>2 DEF Seen
        <4>3. CASE work'[k] = work[k]
          BY <2>2, <3>1, <3>2, <4>1, <4>3, EventRow DEF Seen
        <4> QED BY <2>2, <4>2, <4>3, EventRow
      <3> QED BY <2>1, <3>1, <3>2 DEF RepairOK
    <2>3. CASE FailBatch
      <3>1. UNCHANGED <<dst, done>> /\ pos' = ticks[done] /\ \A k \in Keys : Seen(k)' = dst[k]
        BY <2>3 DEF FailBatch, Seen
      <3> QED BY <2>1, <3>1 DEF RepairOK
    <2>4. CASE CommitBatch
      <3>1. /\ done' = done + 1 /\ pos' = pos /\ pos = ticks[done + 1]
            /\ \A k \in Keys : dst'[k] = Seen(k) /\ Seen(k)' = Seen(k)
        BY <2>4 DEF CommitBatch, Seen
      <3> QED BY <2>1, <3>1 DEF RepairOK
    <2> QED BY <1>3, <2>2, <2>3, <2>4 DEF Worker
  <1>4. CASE SnapDst
    <2>1. /\ pc = "snapDst" /\ pc' = "unlock" /\ dsnap' = dst
          /\ UNCHANGED <<past, ticks, pos, done, work, dst, log>>
      BY <1>4 DEF SnapDst, provider, subscriber
    <2>2. ticks[done] = Len(log)
      BY <1>0, <2>1 DEF SnapOK, TickReached, LockOK
    <2>3. \A k \in Keys : work[k] = Untouched
      BY <1>0, <1>1, <2>2 DEF BatchOK
    <2>4. \A k \in Keys : Known(k)' = dst[k] /\ Seen(k)' = dst[k]
      BY <2>1, <2>3 DEF Known, Merged, Seen
    <2> QED BY <2>1, <2>4 DEF RepairOK
  <1>5. CASE \E k \in Keys : MissedDelete(k) \/ MissedInsert(k) \/ SameKey(k)
    BY <1>5, IssueStep
  <1>6. CASE /\ Tool \/ Elapse
             /\ ~SnapDst /\ ~(\E k \in Keys : MissedDelete(k) \/ MissedInsert(k) \/ SameKey(k))
    BY <1>6, KnownKept DEF RepairOK, Seen
  <1> QED BY <1>2, <1>3, <1>4, <1>5, <1>6 DEF Next

-----------------------------------------------------------------------------
(* The theorems.                                                            *)

\* The invariant holds at the start.
LEMMA InitInv == Init => IInv
  <1> SUFFICES ASSUME Init PROVE IInv
    OBVIOUS
  <1>1. PastOK
    BY DEF Init, PastOK
  <1>2. TicksOK
    BY DEF Init, TicksOK
  <1>3. WorkerOK
    <2>1. \A k \in Clean : src[k] = dst[k]
      BY DEF Init, Clean
    <2> QED BY <2>1 DEF Init, WorkerOK, Seen, Clean
  <1>4. LockOK /\ SnapOK
    BY DEF Init, LockOK, SnapOK, Locked
  <1>5. BatchOK /\ MergeOK /\ RepairOK
    BY DEF Init, BatchOK, MergeOK, Merged, RepairOK
  <1> QED BY <1>1, <1>2, <1>3, <1>4, <1>5, TypeInit DEF IInv

\* Every step keeps the invariant.
LEMMA NextInv == IInv /\ [Next]_vars => IInv'
  <1> SUFFICES ASSUME IInv, [Next]_vars PROVE IInv'
    OBVIOUS
  <1> USE DEF IInv
  <1>1. CASE Next
    <2>1. TypeOK'
      BY <1>1, TypeWrite, TypeTick, TypeWorker, TypeTool DEF Next
    <2>2. PastOK' /\ TicksOK' /\ WorkerOK' /\ LockOK' /\ SnapOK'
      BY <1>1, PastStep, TicksStep, WorkerStep, LockStep, SnapStep
    <2>3. BatchOK' /\ MergeOK' /\ RepairOK'
      BY <1>1, BatchStep, MergeStep, RepairStep
    <2> QED BY <2>1, <2>2, <2>3
  <1>2. CASE UNCHANGED vars
    <2> USE <1>2 DEF vars, provider, subscriber, dumps, tool, fixed
    <2>1. TypeOK'
      BY DEF TypeOK
    <2>2. PastOK' /\ TicksOK'
      BY DEF PastOK, Fits, TicksOK
    <2>3. WorkerOK'
      BY DEF WorkerOK, Seen, Clean
    <2>4. LockOK' /\ SnapOK'
      BY DEF LockOK, Locked, SnapOK, TickReached, Clean
    <2>5. BatchOK' /\ MergeOK' /\ RepairOK'
      BY DEF BatchOK, MergeOK, Merged, Present, FixOf, RepairOK, Known, Seen
    <2> QED BY <2>1, <2>2, <2>3, <2>4, <2>5
  <1> QED BY <1>1, <1>2

\* The invariant holds as long as the code runs, with any keys, rows, commits and ticks.
THEOREM Inductive == Spec => []IInv
  BY InitInv, NextInv, PTL DEF Spec

\* Every variable of the tool, the databases and the worker keeps its type.
THEOREM TypeCorrect == Spec => []TypeOK
  <1>1. IInv => TypeOK
    BY DEF IInv
  <1> QED BY <1>1, InitInv, NextInv, PTL DEF Spec

\* compare and repair never see a difference in a row that had not drifted
\* before they were started, with any number of writes, ticks and batches.
THEOREM NoFalseAlarm == Spec => []SnapshotsAgree
  <1>1. IInv => SnapshotsAgree
    BY DEF IInv, SnapOK, SnapshotsAgree, Clean
  <1> QED BY <1>1, InitInv, NextInv, PTL DEF Spec

\* The statements of a finished repair are exactly those that turn the target snapshot
\* into the source snapshot.
THEOREM RepairExact == Spec => []FixesExact
  <1>1. IInv => FixesExact
    <2> SUFFICES ASSUME IInv, pc = "done", mode \in {"dump", "apply"}
                 PROVE  fixes = {FixOf(k) : k \in {j \in Keys : ssnap[j] # dsnap[j]}}
      BY DEF FixesExact
    <2>1. /\ srcLeft = {} /\ dstLeft = {}
          /\ fixes = {FixOf(k) : k \in {j \in Keys : ssnap[j] # dsnap[j]} \ (srcLeft \union dstLeft)}
      BY DEF IInv, MergeOK, Merged
    <2> QED BY <2>1
  <1> QED BY <1>1, Inductive, PTL

\* When nothing was committed on the provider since its snapshot, an applied repair leaves
\* the two tables equal.
THEOREM RepairEnds == Spec => []RepairConverges
  <1>1. IInv => RepairConverges
    <2> SUFFICES ASSUME IInv, pc = "done", mode = "apply", src = ssnap, Len(log) = ticks[done]
                 PROVE  dst = src
      BY DEF RepairConverges
    <2>1. srcLeft = {} /\ dstLeft = {}
      BY DEF IInv, MergeOK, Merged
    <2>2. \A k \in Keys : Known(k) = src[k] /\ past[ticks[done] + 1][k] = src[k]
      BY <2>1 DEF Known, Merged, IInv, PastOK
    <2>3. \A k \in Keys : dst[k] = src[k]
      BY <2>2 DEF IInv, RepairOK
    <2> QED BY <2>3 DEF IInv, TypeOK, Tables
  <1> QED BY <1>1, Inductive, PTL

\* A repair never touches a row that had not drifted.
THEOREM CleanRowsStay == Spec => CleanRowsKept
  <1>1. IInv /\ [Next]_vars =>
          [pc = "merge" => \A k \in Keys \ drifted : done' = done => dst'[k] = dst[k]]_vars
    <2> SUFFICES ASSUME IInv, Next, pc = "merge", NEW k \in Keys \ drifted, done' = done
                 PROVE  dst'[k] = dst[k]
      BY DEF vars
    <2>1. CASE \E j \in Keys : MissedDelete(j) \/ MissedInsert(j) \/ SameKey(j)
      <3> PICK j \in Keys : MissedDelete(j) \/ MissedInsert(j) \/ SameKey(j)
        BY <2>1
      <3>1. (ssnap[j] # dsnap[j] => Issue(FixOf(j))) /\ (ssnap[j] = dsnap[j] => dst' = dst)
        BY Statement DEF IInv
      <3>2. ssnap[k] = dsnap[k]
        BY DEF IInv, SnapOK, Clean
      <3>3. FixOf(j).key = j
        BY DEF FixOf
      <3>4. Issue(FixOf(j)) => dst' = dst \/ dst' = [dst EXCEPT ![j] = Fixed(FixOf(j))]
        BY <3>3 DEF Issue
      <3> QED BY <3>1, <3>2, <3>4 DEF IInv, TypeOK, Tables
    <2>2. CASE ~(\E j \in Keys : MissedDelete(j) \/ MissedInsert(j) \/ SameKey(j))
      <3>1. CASE Write \/ Tick
        BY <3>1 DEF Write, Begin, Commit, Abort, Tick, TickSnap, TickCommit
      <3>2. CASE Worker
        <4>1. done \in Nat
          BY DEF IInv, TypeOK
        <4> QED BY <3>2, <4>1 DEF Worker, ApplyEvent, FailBatch, CommitBatch
      <3>3. CASE Tool \/ Elapse
        BY <2>2, <3>3 DEF Tool, Elapse, RequestLock, GrantLock, LockTimeout, ForceTick, NewTick,
           WaitDone, GiveUp, SnapSrc, SnapDst, Unlock, Compare, Dump, MergeDone, InsertFails
      <3> QED BY <3>1, <3>2, <3>3 DEF Next
    <2> QED BY <2>1, <2>2
  <1> QED BY <1>1, Inductive, PTL DEF Spec, CleanRowsKept
=============================================================================
