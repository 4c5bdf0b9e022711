--------------------------- MODULE TableSync_proofs ---------------------------
(***************************************************************************)
(* Theorems about TableSync, for every value of its constants: its types   *)
(* without a condition; that IInv is inductive under Simple; from it, that *)
(* a node which collects batches loses nothing until something fails; and, *)
(* when batches are not collected or nothing fails (Sound), the safety of  *)
(* the module and its refinement of Replica.                               *)
(***************************************************************************)
EXTENDS TableSyncInv, FiniteSetTheorems, TLAPS

-----------------------------------------------------------------------------
\* Type correctness

\* The events of a table are numbers of the log.
LEMMA EvType == ASSUME TypeOK, NEW t \in Tables, NEW n
                PROVE  Ev(t, n) \subseteq 1..MaxCommit
BY BoundAssumption DEF TypeOK, Ev

\* A new TableState is one.
LEMMA NewObject == NewTableState \in Object
BY BoundAssumption DEF NewTableState, Object, States, Copying, NoTick, NoSnap

\* So is one loaded from its row,
LEMMA LoadedObject == ASSUME NEW r \in Object, NEW row \in Row
                      PROVE  LoadedState(r, row) \in Object
BY NewObject DEF LoadedState, Object, Row

\* one after change_state,
LEMMA ChangedState == ASSUME NEW r \in Object, NEW s \in States, NEW k \in 0..MaxTick
                      PROVE  ChangeState(r, s, k) \in Object
BY DEF ChangeState, Object

\* one after change_snapshot,
LEMMA ChangedSnapshot == ASSUME NEW r \in Object, NEW n \in -1..MaxCommit
                         PROVE  ChangeSnapshot(r, n) \in Object
<1> DEFINE a == [r EXCEPT !.snap = n]
           b == [a EXCEPT !.okc = 0]
           c == [b EXCEPT !.last = 0]
           d == [c EXCEPT !.changed = TRUE]
<1>1. a \in Object
  BY DEF Object
<1>2. b \in Object
  <2> HIDE DEF a
  <2> QED  BY <1>1 DEF Object
<1>3. c \in Object
  <2> HIDE DEF b
  <2> QED  BY BoundAssumption, <1>2 DEF Object
<1>4. d \in Object
  <2> HIDE DEF c
  <2> QED  BY <1>3 DEF Object
<1>5. d = [r EXCEPT !.snap = n, !.okc = 0, !.last = 0, !.changed = TRUE]
  BY DEF Object
<1> QED
  BY <1>4, <1>5 DEF ChangeSnapshot

\* one after gc_snapshot,
LEMMA CleanedObject == ASSUME NEW r \in Object, NEW n \in 0..MaxTick, NEW k \in 0..MaxTick,
                              NEW c \in BOOLEAN, NEW l \in BOOLEAN
                       PROVE  GcSnapshot(r, c, n, k, l) \in Object
BY BoundAssumption, ChangedSnapshot DEF GcSnapshot, Object, NoTick, NoSnap

\* and one after interesting has counted a batch.
LEMMA CountedObject == ASSUME NEW r \in Object, NEW k \in 0..MaxTick
                       PROVE  CountBatch(r, k) \in Object
<1> DEFINE n == [r EXCEPT !.last = k, !.okc = @ + 1]
<1>1. ASSUME NEW o \in Nat
      PROVE  [r EXCEPT !.last = k, !.okc = o] \in Object
  BY DEF Object
<1>2. n \in Object
  <2>1. n = [r EXCEPT !.last = k, !.okc = r.okc + 1] /\ r.okc + 1 \in Nat
    BY DEF Object
  <2> QED
    BY <1>1, <2>1
<1>3. ChangeSnapshot(n, NoSnap) \in Object
  BY BoundAssumption, <1>2, ChangedSnapshot DEF NoSnap
<1> QED
  BY <1>2, <1>3 DEF CountBatch

\* What is written back to the database and what stays in memory.
LEMMA SavedType == ASSUME TypeOK, NEW ts \in [Tables -> Object]
                   PROVE  Saved(ts) \in [Tables -> Row] /\ Clean(ts) \in [Tables -> Object]
<1>1. ASSUME NEW t \in Tables
      PROVE  [state |-> ts[t].state, tick |-> ts[t].tick, snap |-> ts[t].snap] \in Row
  BY DEF Object, Row
<1>2. Saved(ts) \in [Tables -> Row]
  BY <1>1 DEF Saved, TypeOK
<1>3. Clean(ts) \in [Tables -> Object]
  BY DEF Clean, Object
<1> QED
  BY <1>2, <1>3

\* The objects after copy_snapshot_cleanup have their type,
LEMMA CollectedType == ASSUME TypeOK, NEW p \in Procs
                       PROVE  Collected(p) \in [Tables -> Object]
<1> SUFFICES ASSUME NEW t \in Tables
             PROVE  GcSnapshot(mem[p][t], p # Main, prev[p], cur[p], ~work[p]) \in Object
  BY DEF Collected
<1>1. mem[p][t] \in Object /\ prev[p] \in 0..MaxTick /\ cur[p] \in 0..MaxTick
  BY DEF TypeOK
<1>2. (p # Main) \in BOOLEAN /\ (~work[p]) \in BOOLEAN
  OBVIOUS
<1> QED
  BY <1>1, <1>2, CleanedObject

\* and so have those after the batch is counted.
LEMMA CountedType == ASSUME TypeOK, NEW p \in Procs
                     PROVE  Counted(p) \in [Tables -> Object]
<1>1. ASSUME NEW t \in Tables
      PROVE  mem[p][t] \in Object /\ CountBatch(mem[p][t], cur[p]) \in Object
  BY CountedObject DEF TypeOK
<1> QED
  BY <1>1 DEF Counted

\* What change_table_state does to the database and to the memory of p.
LEMMA ChangedType == ASSUME TypeOK, NEW p \in Procs, NEW t \in Tables,
                            NEW s \in States, NEW k \in 0..MaxTick,
                            ChangeTableState(p, t, s, k)
                     PROVE  /\ db' \in [Tables -> Row]
                            /\ mem' \in [Procs -> [Tables -> Object]]
<1> DEFINE ts == [mem[p] EXCEPT ![t] = ChangeState(@, s, k)]
<1>1. ts \in [Tables -> Object]
  BY ChangedState DEF TypeOK
<1>2. /\ Saved(ts) \in [Tables -> Row]
      /\ Clean(ts) \in [Tables -> Object]
  BY <1>1, SavedType
<1> QED
  BY <1>2 DEF ChangeTableState, TypeOK

\* A process that starts again has new objects and flags.
LEMMA ForgottenType == ASSUME TypeOK, NEW p \in Procs, Restarted(p)
                       PROVE  /\ mem' \in [Procs -> [Tables -> Object]]
                              /\ work' \in [Procs -> BOOLEAN]
                              /\ big' \in [Procs -> BOOLEAN]
                              /\ held' \in [Procs -> 0..MaxTick]
<1>1. mem' \in [Procs -> [Tables -> Object]]
  BY NewObject DEF Restarted, Forget, TypeOK
<1>2. work' \in [Procs -> BOOLEAN] /\ big' \in [Procs -> BOOLEAN]
  BY ConfigAssumption DEF Restarted, TypeOK
<1>3. held' \in [Procs -> 0..MaxTick]
  BY BoundAssumption DEF Restarted, TypeOK, NoTick
<1> QED
  BY <1>1, <1>2, <1>3

\* The types hold at the start.
LEMMA InitType == Init => TypeOK
<1> SUFFICES ASSUME Init PROVE TypeOK
  OBVIOUS
<1> USE DEF Init, InitIn
<1>1. \A s \in {"absent", "missing", "ok"} : TableRow(s) \in Row
  BY BoundAssumption DEF TableRow, Row, States, NoTick, NoSnap
<1>2. db \in [Tables -> Row]
  <2>1. \A x \in {TableRow(s) : s \in {"absent", "missing", "ok"}} : x \in Row
    BY <1>1
  <2> QED
    BY <2>1
<1>21. mem \in [Procs -> [Tables -> Object]]
  BY NewObject
<1>3. log \in Seq(Tables) /\ Len(log) <= MaxCommit
  BY BoundAssumption
<1>4. pc \in [Procs -> Labels]
  BY DEF Labels
<1>5. /\ tick \in 0..MaxTick
      /\ snapAt \in [0..MaxTick -> 0..MaxCommit]
      /\ prev \in [Procs -> 0..MaxTick]
      /\ cur \in [Procs -> 0..MaxTick]
      /\ held \in [Procs -> 0..MaxTick]
      /\ csnap \in [Tables -> 0..MaxCommit]
      /\ dsync \in 0..MaxTick
      /\ faults \in 0..MaxFault
      /\ admins \in 0..MaxAdmin
  BY BoundAssumption DEF NoTick
<1>6. /\ reg \subseteq Procs
      /\ data \in [Tables -> SUBSET (1..MaxCommit)]
      /\ twice \in [Tables -> SUBSET (1..MaxCommit)]
      /\ work \in [Procs -> BOOLEAN]
      /\ big \in [Procs -> BOOLEAN]
      /\ mloop \in BOOLEAN
      /\ launching \subseteq Tables
  BY ConfigAssumption DEF Procs
<1> QED
  BY <1>2, <1>21, <1>3, <1>4, <1>5, <1>6 DEF TypeOK

\* The actions of main and of a copy process that the two share.
LEMMA BatchType == ASSUME TypeOK, NEW p \in Procs, Batch(p)
                   PROVE  TypeOK'
<1> USE DEF provider, queue, subscr, tuning, sync, bounds, Goto
<1>1. CASE Poll(p)
  <2>1. cur' \in [Procs -> 0..MaxTick]
    <3>1. NextEnds(p) \subseteq 0..MaxTick
      <4>1. prev[p] \in Nat /\ tick \in Nat /\ tick <= MaxTick /\ MaxTick \in Nat
        BY BoundAssumption DEF TypeOK
      <4>2. NextEnds(p) \subseteq (prev[p] + 1)..tick \cup 1..tick
        BY DEF NextEnds
      <4> QED
        BY <4>1, <4>2
    <3>2. CASE UNCHANGED cur
      BY <3>2 DEF TypeOK
    <3>3. CASE \E k \in NextEnds(p) : cur' = [cur EXCEPT ![p] = k]
      BY <3>1, <3>3 DEF TypeOK
    <3> QED
      BY <1>1, <3>2, <3>3 DEF Poll
  <2>2. pc' \in [Procs -> Labels]
    BY <1>1 DEF Poll, TypeOK, Labels
  <2> QED
    BY <1>1, <2>1, <2>2 DEF Poll, TypeOK
<1>2. CASE Idle(p)
  BY <1>2 DEF Idle, TypeOK
<1>3. CASE Load(p)
  <2>1. mem' \in [Procs -> [Tables -> Object]]
    BY <1>3, LoadedObject DEF Load, TypeOK
  <2>2. pc' \in [Procs -> Labels]
    BY <1>3 DEF Load, TypeOK, Labels
  <2>3. mloop' \in BOOLEAN
    BY <1>3 DEF Load, TypeOK
  <2> QED
    BY <1>3, <2>1, <2>2, <2>3 DEF Load, TypeOK
<1>4. CASE Cleanup(p)
  <2>1. Collected(p) \in [Tables -> Object]
    BY CollectedType
  <2>2. /\ Saved(Collected(p)) \in [Tables -> Row]
        /\ Clean(Collected(p)) \in [Tables -> Object]
    BY <2>1, SavedType
  <2>3. db' \in [Tables -> Row] /\ mem' \in [Procs -> [Tables -> Object]]
    BY <1>4, <2>2 DEF Cleanup, TypeOK
  <2>4. pc' \in [Procs -> Labels]
    BY <1>4 DEF Cleanup, TypeOK, Labels
  <2> QED
    BY <1>4, <2>3, <2>4 DEF Cleanup, TypeOK
<1>5. CASE Apply(p)
  <2>1. Counted(p) \in [Tables -> Object]
    BY CountedType
  <2>2. /\ Saved(Counted(p)) \in [Tables -> Row]
        /\ Clean(Counted(p)) \in [Tables -> Object]
    BY <2>1, SavedType
  <2>3. db' \in [Tables -> Row] /\ mem' \in [Procs -> [Tables -> Object]]
    BY <1>5, <2>2 DEF Apply, TypeOK
  <2>4. ASSUME NEW t \in Tables, NEW late
        PROVE  Applied(p, t, late) \subseteq 1..MaxCommit
    BY EvType DEF Applied, BatchEv
  <2>5. data' \in [Tables -> SUBSET (1..MaxCommit)]
    BY <1>5, <2>4 DEF Apply, TypeOK
  <2>6. twice' \in [Tables -> SUBSET (1..MaxCommit)]
    BY <1>5, <2>4 DEF Apply, TypeOK
  <2>7. pc' \in [Procs -> Labels]
    BY <1>5 DEF Apply, TypeOK, Labels
  <2>8. prev' \in [Procs -> 0..MaxTick] /\ work' \in [Procs -> BOOLEAN]
    BY <1>5 DEF Apply, TypeOK
  <2> QED
    BY <1>5, <2>3, <2>5, <2>6, <2>7, <2>8 DEF Apply, TypeOK
<1> QED
  BY <1>1, <1>2, <1>3, <1>4, <1>5 DEF Batch

\* A step of main keeps the types.
LEMMA MainType == ASSUME TypeOK, MainStep
                  PROVE  TypeOK'
<1> USE DEF provider, queue, subscr, tuning, sync, bounds, Goto
<1>0. Main \in Procs
  BY DEF Procs
<1>1. CASE Batch(Main)
  BY <1>0, <1>1, BatchType
<1>2. CASE MainTune
  <2>1. pc' \in [Procs -> Labels]
    BY <1>2 DEF MainTune, TypeOK, Labels
  <2>2. dsync' \in 0..MaxTick
    BY BoundAssumption, <1>0, <1>2 DEF MainTune, TypeOK
  <2>3. big' \in [Procs -> BOOLEAN]
    <3>1. (big[Main] \/ dsync # 0) \in BOOLEAN
      OBVIOUS
    <3>2. CASE big' = [big EXCEPT ![Main] = FALSE]
      BY <3>2 DEF TypeOK
    <3>3. CASE big' = [big EXCEPT ![Main] = @ \/ dsync # 0]
      BY <3>1, <3>3, Zenon DEF TypeOK
    <3> QED
      BY <1>2, <3>2, <3>3 DEF MainTune
  <2> QED
    BY <1>2, <2>1, <2>2, <2>3 DEF MainTune, TypeOK
<1>3. CASE MainSyncDone
  <2>1. pc' \in [Procs -> Labels]
    BY <1>3 DEF MainSyncDone, TypeOK, Labels
  <2> QED
    BY <1>3, <2>1 DEF MainSyncDone, TypeOK
<1>4. ASSUME NEW t \in Tables, MainDoSync(t)
      PROVE  TypeOK'
  <2>1. cur[Main] \in 0..MaxTick /\ "do-sync" \in States
    BY <1>0 DEF TypeOK, States, Copying
  <2>2. db' \in [Tables -> Row] /\ mem' \in [Procs -> [Tables -> Object]]
    BY <1>0, <1>4, <2>1, ChangedType DEF MainDoSync
  <2> QED
    BY <1>4, <2>2 DEF MainDoSync, TypeOK
<1>5. ASSUME NEW t \in Tables, MainStartCopy(t)
      PROVE  TypeOK'
  <2>1. NoTick \in 0..MaxTick /\ "in-copy" \in States
    BY BoundAssumption DEF NoTick, States, Copying
  <2>2. db' \in [Tables -> Row] /\ mem' \in [Procs -> [Tables -> Object]]
    BY <1>0, <1>5, <2>1, ChangedType DEF MainStartCopy
  <2>3. pc' \in [Procs -> Labels]
    BY <1>5 DEF MainStartCopy, TypeOK, Labels
  <2> QED
    BY <1>5, <2>2, <2>3 DEF MainStartCopy, TypeOK
<1>6. ASSUME NEW t \in Tables, MainLaunch(t)
      PROVE  TypeOK'
  <2>1. pc' \in [Procs -> Labels]
    BY <1>6 DEF MainLaunch, TypeOK, Labels
  <2> QED
    BY <1>6, <2>1 DEF MainLaunch, TypeOK
<1> QED
  BY <1>1, <1>2, <1>3, <1>4, <1>5, <1>6 DEF MainStep

\* A step of a copy process keeps the types.
LEMMA CopyType == ASSUME TypeOK, NEW t \in Tables, CopyStep(t)
                  PROVE  TypeOK'
<1> USE DEF provider, queue, subscr, tuning, sync, bounds, Goto
<1>0. t \in Procs /\ NoTick \in 0..MaxTick /\ cur[t] \in 0..MaxTick
  BY BoundAssumption DEF Procs, NoTick, TypeOK
<1>1. CASE Batch(t)
  BY <1>0, <1>1, BatchType
<1>2. CASE Register(t)
  <2>1. pc' \in [Procs -> Labels]
    BY <1>2 DEF Register, TypeOK, Labels
  <2>2. prev' \in [Procs -> 0..MaxTick] /\ cur' \in [Procs -> 0..MaxTick]
    BY <1>2 DEF Register, TypeOK
  <2>3. reg' \subseteq Procs
    BY <1>0, <1>2 DEF Register, TypeOK
  <2> QED
    BY <1>2, <2>1, <2>2, <2>3 DEF Register, TypeOK
<1>3. CASE CopyLost(t) \/ CopyWait(t) \/ CopyCatchUp(t)
  <2>1. pc' \in [Procs -> Labels]
    BY <1>3 DEF CopyLost, CopyWait, CopyCatchUp, TypeOK, Labels
  <2> QED
    BY <1>3, <2>1 DEF CopyLost, CopyWait, CopyCatchUp, TypeOK
<1>4. CASE CopyHandOver(t)
  <2>1. db' \in [Tables -> Row] /\ mem' \in [Procs -> [Tables -> Object]]
    BY <1>0, <1>4, ChangedType DEF CopyHandOver, States
  <2>2. pc' \in [Procs -> Labels] /\ big' \in [Procs -> BOOLEAN]
    BY <1>4 DEF CopyHandOver, SmallBatches, TypeOK, Labels
  <2> QED
    BY <1>4, <2>1, <2>2 DEF CopyHandOver, TypeOK
<1>5. CASE CopyBehind(t)
  <2>1. pc' \in [Procs -> Labels] /\ big' \in [Procs -> BOOLEAN]
    BY <1>5 DEF CopyBehind, SmallBatches, TypeOK, Labels
  <2> QED
    BY <1>5, <2>1 DEF CopyBehind, TypeOK
<1>6. CASE CopyOvershoot(t)
  <2>1. /\ pc' \in [Procs -> Labels]
        /\ big' \in [Procs -> BOOLEAN]
        /\ work' \in [Procs -> BOOLEAN]
    BY <1>6 DEF CopyOvershoot, SmallBatches, TypeOK, Labels
  <2> QED
    BY <1>6, <2>1 DEF CopyOvershoot, TypeOK
<1>7. CASE CopyWantSync(t)
  <2>1. db' \in [Tables -> Row] /\ mem' \in [Procs -> [Tables -> Object]]
    BY <1>0, <1>7, ChangedType DEF CopyWantSync, States, Copying
  <2>2. pc' \in [Procs -> Labels]
    BY <1>7 DEF CopyWantSync, TypeOK, Labels
  <2> QED
    BY <1>7, <2>1, <2>2 DEF CopyWantSync, TypeOK
<1>8. CASE CopySnapshot(t)
  <2>1. csnap' \in [Tables -> 0..MaxCommit]
    BY <1>8 DEF CopySnapshot, TypeOK
  <2>2. pc' \in [Procs -> Labels]
    BY <1>8 DEF CopySnapshot, TypeOK, Labels
  <2> QED
    BY <1>8, <2>1, <2>2 DEF CopySnapshot, TypeOK
<1>9. CASE CopyLoad(t)
  <2> DEFINE ts == [mem[t] EXCEPT ![t] = CopiedState(t)]
  <2>1. CopiedState(t) \in Object
    <3>1. mem[t][t] \in Object /\ csnap[t] \in -1..MaxCommit
      BY <1>0 DEF TypeOK
    <3>2. ChangeState(mem[t][t], "catching-up", NoTick) \in Object
      BY <1>0, <3>1, ChangedState DEF States, Copying
    <3> QED
      BY <3>1, <3>2, ChangedSnapshot DEF CopiedState
  <2>2. ts \in [Tables -> Object]
    BY <1>0, <2>1 DEF TypeOK
  <2>3. Saved(ts) \in [Tables -> Row] /\ Clean(ts) \in [Tables -> Object]
    BY <2>2, SavedType
  <2>4. db' \in [Tables -> Row] /\ mem' \in [Procs -> [Tables -> Object]]
    BY <1>9, <2>3 DEF CopyLoad, TypeOK
  <2>5. /\ data' \in [Tables -> SUBSET (1..MaxCommit)]
        /\ twice' \in [Tables -> SUBSET (1..MaxCommit)]
    BY <1>9, EvType DEF CopyLoad, Truncated, TypeOK
  <2>6. pc' \in [Procs -> Labels] /\ work' \in [Procs -> BOOLEAN]
    BY <1>9 DEF CopyLoad, TypeOK, Labels
  <2> QED
    BY <1>9, <2>4, <2>5, <2>6 DEF CopyLoad, TypeOK
<1>10. CASE CopyExit(t)
  <2>1. pc' \in [Procs -> Labels] /\ reg' \subseteq Procs
    BY <1>10 DEF CopyExit, TypeOK, Labels
  <2> QED
    BY <1>0, <1>10, <2>1, ForgottenType DEF CopyExit, TypeOK
<1> QED
  BY <1>1, <1>2, <1>3, <1>4, <1>5, <1>6, <1>7, <1>8, <1>9, <1>10 DEF CopyStep

\* Commits, ticks, commands and failures keep the types.
LEMMA EnvironmentType == ASSUME TypeOK, Provider \/ Setup \/ Faults
                         PROVE  TypeOK'
<1> USE DEF provider, queue, subscr, tuning, sync, bounds, Goto
<1>1. ASSUME NEW t \in Tables, Commit(t)
      PROVE  TypeOK'
  <2>1. log' \in Seq(Tables) /\ Len(log') <= MaxCommit
    BY BoundAssumption, <1>1 DEF Commit, TypeOK
  <2> QED
    BY <1>1, <2>1 DEF Commit, TypeOK
<1>2. CASE Tick
  <2>1. tick' \in 0..MaxTick
    BY BoundAssumption, <1>2 DEF Tick, TypeOK
  <2>2. snapAt' \in [0..MaxTick -> 0..MaxCommit]
    <3>1. Len(log) \in 0..MaxCommit
      BY DEF TypeOK
    <3> QED
      BY <1>2, <3>1 DEF Tick, TypeOK
  <2> QED
    BY <1>2, <2>1, <2>2 DEF Tick, TypeOK
<1>3. ASSUME NEW t \in Tables, NEW s \in States, Admin(t, s)
      PROVE  TypeOK'
  <2>1. TableRow(s) \in Row
    BY BoundAssumption DEF TableRow, Row, NoTick, NoSnap
  <2>2. db' \in [Tables -> Row] /\ admins' \in 0..MaxAdmin
    BY BoundAssumption, <1>3, <2>1 DEF Admin, TypeOK
  <2> QED
    BY <1>3, <2>2 DEF Admin, TypeOK
<1>4. CASE Setup
  <2>1. "absent" \in States /\ "missing" \in States
    BY DEF States
  <2> QED
    BY <1>3, <1>4, <2>1 DEF Setup, AddTable, RemoveTable, Resync
<1>5. CASE CrashMain
  <2>1. Main \in Procs
    BY DEF Procs
  <2>2. pc' \in [Procs -> Labels]
    BY <1>5 DEF CrashMain, TypeOK, Labels
  <2>3. dsync' \in 0..MaxTick /\ launching' \subseteq Tables /\ faults' \in 0..MaxFault
    BY BoundAssumption, <1>5 DEF CrashMain, TypeOK
  <2> QED
    BY <1>5, <2>1, <2>2, <2>3, ForgottenType DEF CrashMain, TypeOK
<1>6. CASE StartMain
  <2>1. pc' \in [Procs -> Labels]
    BY <1>6 DEF StartMain, TypeOK, Labels
  <2> QED
    BY <1>6, <2>1 DEF StartMain, TypeOK
<1>7. ASSUME NEW p \in Procs, Fail(p)
      PROVE  TypeOK'
  <2>1. /\ pc' \in [Procs -> Labels]
        /\ work' \in [Procs -> BOOLEAN]
        /\ faults' \in 0..MaxFault
    BY BoundAssumption, <1>7 DEF Fail, TypeOK, Labels
  <2>2. mem' \in [Procs -> [Tables -> Object]]
    <3> DEFINE ts == IF pc[p] = "cleanup" THEN Collected(p) ELSE Counted(p)
    <3>1. ts \in [Tables -> Object]
      BY CollectedType, CountedType
    <3>2. ASSUME NEW done \in SUBSET Tables
          PROVE  [t \in Tables |-> IF t \in done THEN ts[t] ELSE mem[p][t]]
                     \in [Tables -> Object]
      <4> HIDE DEF ts
      <4> QED
        BY <3>1 DEF TypeOK
    <3>3. \/ UNCHANGED mem
          \/ \E done \in SUBSET Tables : mem' = [mem EXCEPT ![p] =
                 [t \in Tables |-> IF t \in done THEN ts[t] ELSE mem[p][t]]]
      BY <1>7 DEF Fail
    <3>4. CASE UNCHANGED mem
      BY <3>4 DEF TypeOK
    <3>5. ASSUME NEW done \in SUBSET Tables,
                 mem' = [mem EXCEPT ![p] =
                    [t \in Tables |-> IF t \in done THEN ts[t] ELSE mem[p][t]]]
          PROVE  mem' \in [Procs -> [Tables -> Object]]
      <4> DEFINE f == [t \in Tables |-> IF t \in done THEN ts[t] ELSE mem[p][t]]
      <4>1. f \in [Tables -> Object]
        BY <3>2
      <4> HIDE DEF ts, f
      <4>2. mem' = [mem EXCEPT ![p] = f]
        BY <3>5 DEF f
      <4> QED
        BY <4>1, <4>2 DEF TypeOK
    <3> QED
      BY <3>3, <3>4, <3>5
  <2> QED
    BY <1>7, <2>1, <2>2 DEF Fail, TypeOK
<1>8. ASSUME NEW t \in Tables, CrashCopy(t)
      PROVE  TypeOK'
  <2>1. t \in Procs
    BY DEF Procs
  <2>2. pc' \in [Procs -> Labels]
    BY <1>8 DEF CrashCopy, TypeOK, Labels
  <2>3. faults' \in 0..MaxFault
    BY BoundAssumption, <1>8 DEF CrashCopy, TypeOK
  <2> QED
    BY <1>8, <2>1, <2>2, <2>3, ForgottenType DEF CrashCopy, TypeOK
<1>9. ASSUME NEW t \in Tables, RestartCopy(t)
      PROVE  TypeOK'
  <2>1. pc' \in [Procs -> Labels]
    BY <1>9 DEF RestartCopy, TypeOK, Labels
  <2> QED
    BY <1>9, <2>1 DEF RestartCopy, TypeOK
<1> QED
  BY <1>1, <1>2, <1>4, <1>5, <1>6, <1>7, <1>8, <1>9 DEF Provider, Faults

\* Every variable keeps its type, whatever the configuration and the bounds.
THEOREM TypeCorrect == Spec => []TypeOK
<1>1. Init => TypeOK
  BY InitType
<1>2. TypeOK /\ [Next]_vars => TypeOK'
  <2> SUFFICES ASSUME TypeOK, [Next]_vars PROVE TypeOK'
    OBVIOUS
  <2>1. CASE Provider \/ Setup \/ Faults
    BY <2>1, EnvironmentType
  <2>2. CASE MainStep
    BY <2>2, MainType
  <2>3. CASE \E t \in Tables : CopyStep(t)
    BY <2>3, CopyType
  <2>4. CASE UNCHANGED vars
    BY <2>4 DEF vars, provider, queue, subscr, tuning, sync, bounds, TypeOK
  <2> QED
    BY <2>1, <2>2, <2>3, <2>4 DEF Next
<1> QED
  BY <1>1, <1>2, PTL DEF Spec

-----------------------------------------------------------------------------
\* Constants and types, as the steps below need them

\* Main is a process and not a table; every other process is named after its table.
LEMMA Names == /\ Main \in Procs /\ Main \notin Tables /\ Tables \subseteq Procs
               /\ \A p \in Procs : p = Main \/ p \in Tables
BY TablesAssumption DEF Procs

\* The counters that the types give.
LEMMA Numbers == ASSUME TypeOK
                 PROVE  /\ Len(log) \in Nat /\ tick \in Nat /\ tick <= MaxTick /\ MaxTick \in Nat
                        /\ \A k \in 0..MaxTick : snapAt[k] \in Nat
                        /\ \A p \in Procs : /\ prev[p] \in 0..MaxTick /\ cur[p] \in 0..MaxTick
                                            /\ work[p] \in BOOLEAN /\ big[p] \in BOOLEAN
                        /\ \A t \in Tables : csnap[t] \in Nat
BY BoundAssumption DEF TypeOK

\* The rows and objects that the types give.
LEMMA Rows == ASSUME TypeOK
              PROVE  /\ \A t \in Tables : /\ db[t].state \in States /\ db[t].tick \in 0..MaxTick
                                          /\ db[t].snap \in Int /\ db[t].snap >= NoSnap
                     /\ \A p \in Procs, t \in Tables :
                          /\ mem[p][t] \in Object
                          /\ mem[p][t].state \in States /\ mem[p][t].tick \in 0..MaxTick
                          /\ mem[p][t].snap \in Int /\ mem[p][t].snap >= NoSnap
                          /\ mem[p][t].okc \in Nat /\ mem[p][t].last \in 0..MaxTick
                          /\ mem[p][t].gc \in 0..MaxTick /\ mem[p][t].changed \in BOOLEAN
<1>1. ASSUME NEW t \in Tables
      PROVE  /\ db[t].state \in States /\ db[t].tick \in 0..MaxTick
             /\ db[t].snap \in Int /\ db[t].snap >= NoSnap
  <2>1. db[t] \in Row
    BY DEF TypeOK
  <2> QED
    BY <2>1, BoundAssumption DEF Row, NoSnap
<1>2. ASSUME NEW p \in Procs, NEW t \in Tables
      PROVE  /\ mem[p][t] \in Object
             /\ mem[p][t].state \in States /\ mem[p][t].tick \in 0..MaxTick
             /\ mem[p][t].snap \in Int /\ mem[p][t].snap >= NoSnap
             /\ mem[p][t].okc \in Nat /\ mem[p][t].last \in 0..MaxTick
             /\ mem[p][t].gc \in 0..MaxTick /\ mem[p][t].changed \in BOOLEAN
  <2>1. mem[p][t] \in Object
    BY DEF TypeOK
  <2> QED
    BY <2>1, BoundAssumption DEF Object, NoSnap
<1> QED
  BY <1>1, <1>2

-----------------------------------------------------------------------------
\* The invariant, table by table

\* Everything that IInv says of one table.
TableOK(t) == /\ PlaceOK(t)
              /\ RowOK(t)
              /\ MainOK(t)
              /\ CopyOK(t)
              /\ CountOK(t, t)
              /\ CountOK(Main, t)
              /\ GcOK(t)
              /\ DataOK(t)
              /\ twice[t] = {}

\* What it says of main and of the objects in memory as such.
MemOK == /\ pc[Main] \in MainLabels
         /\ pc[Main] = "down" => mem[Main] = [t \in Tables |-> NewTableState]
         /\ \A p \in Procs, t \in Tables :
               /\ mem[p][t].state = "absent" => mem[p][t] = NewTableState
               /\ mem[p][t].okc >= 1 => p \in {t, Main}
               /\ mem[p][t].snap <= Len(log)

Whole == TypeOK /\ InvQueue /\ MemOK /\ InvOne /\ \A t \in Tables : TableOK(t)

\* The invariant can be taken apart by tables,
LEMMA Apart == TypeOK /\ Safe => Whole
BY Names DEF Safe, Whole, TableOK, MemOK, InvProcs, InvRows, InvMain, InvCopy, InvCounters,
             InvData, AppliedOnce, CountOK

\* and put together again.
LEMMA Together == Whole => Safe
<1> SUFFICES ASSUME Whole PROVE Safe
  OBVIOUS
<1>1. InvProcs /\ InvRows /\ InvMain /\ InvCopy /\ InvData /\ AppliedOnce
  BY DEF Whole, TableOK, MemOK, InvProcs, InvRows, InvMain, InvCopy, InvData, AppliedOnce
<1>2. InvCounters
  <2>1. ASSUME NEW p \in Procs, NEW t \in Tables
        PROVE  CountOK(p, t)
    <3>1. CASE p \in {t, Main}
      BY <3>1 DEF Whole, TableOK
    <3>2. CASE p \notin {t, Main}
      BY <3>2 DEF Whole, MemOK, CountOK
    <3> QED
      BY <3>1, <3>2
  <2> QED
    BY <2>1 DEF InvCounters, Whole, TableOK
<1> QED
  BY <1>1, <1>2 DEF Whole, Safe

\* What main knows of its waiting tables outlasts a step that does not make a
\* table wait for it.
LEMMA DsyncKept ==
    ASSUME DsyncInv,
           dsync' = dsync, cur'[Main] = cur[Main], prev'[Main] = prev[Main],
           big'[Main] <=> big[Main],
           pc'[Main] \in {"start", "launch"} =>
               pc[Main] \in {"start", "launch"} /\ mem'[Main] = mem[Main],
           \A u \in Tables :
               \/ db'[u] = db[u]
               \/ db'[u].state \notin {"in-copy", "catching-up", "wanna-sync"}
               \/ db[u].state \in {"in-copy", "catching-up"}
    PROVE  DsyncInv'
BY DEF DsyncInv

\* A step that touches nothing the parts of one table are about keeps them;
\* main may get on, but not past a table that it has asked to hand over.
LEMMA FrameMain ==
    ASSUME NEW u \in Tables, TableOK(u),
           log' = log, tick' = tick, snapAt' = snapAt,
           db'[u] = db[u], data'[u] = data[u], twice'[u] = twice[u], csnap'[u] = csnap[u],
           pc'[u] = pc[u], mem'[u] = mem[u], prev'[u] = prev[u], cur'[u] = cur[u],
           work'[u] = work[u], big'[u] = big[u], held'[u] = held[u],
           u \in reg' <=> u \in reg,
           u \in launching' => u \in launching /\ pc'[Main] = pc[Main],
           mem'[Main][u] = mem[Main][u],
           prev'[Main] = prev[Main], cur'[Main] = cur[Main],
           MainIn' => MainIn,
           \/ pc'[Main] \notin {"cleanup", "apply"}
           \/ pc[Main] \in {"cleanup", "apply"}
           \/ mem[Main][u].state # "do-sync"
    PROVE  TableOK(u)'
<1>1. PlaceOK(u)' /\ RowOK(u)'
  BY DEF TableOK, PlaceOK, RowOK, NextEnds
<1>2. MainOK(u)'
  <2>1. MainOK(u)
    BY DEF TableOK
  <2> QED
    BY <2>1 DEF MainOK, SameRow
<1>3. CopyOK(u)'
  BY DEF TableOK, CopyOK, CopyIn, SameRow
<1>4. CountOK(u, u)' /\ CountOK(Main, u)' /\ GcOK(u)'
  BY DEF TableOK, CountOK, GcOK
<1>5. DataOK(u)'
  <2>1. DataOK(u)
    BY DEF TableOK
  <2> QED
    BY <2>1 DEF DataOK, Ev
<1> QED
  BY <1>1, <1>2, <1>3, <1>4, <1>5 DEF TableOK

\* A step that changes nothing of a table and its two processes keeps its part.
LEMMA Frame ==
    ASSUME NEW u \in Tables, TableOK(u),
           log' = log, tick' = tick, snapAt' = snapAt,
           db'[u] = db[u], data'[u] = data[u], twice'[u] = twice[u], csnap'[u] = csnap[u],
           pc'[u] = pc[u], mem'[u] = mem[u], prev'[u] = prev[u], cur'[u] = cur[u],
           work'[u] = work[u], big'[u] = big[u], held'[u] = held[u],
           u \in reg' <=> u \in reg, u \in launching' => u \in launching,
           pc'[Main] = pc[Main], mem'[Main][u] = mem[Main][u],
           prev'[Main] = prev[Main], cur'[Main] = cur[Main]
    PROVE  TableOK(u)'
BY FrameMain DEF MainIn

-----------------------------------------------------------------------------
\* Steps of a copy process that only take it somewhere else

\* Waiting, missing a lock and going on keep the invariant.
LEMMA CopyMoves ==
    ASSUME Simple, Whole, NEW t \in Tables,
           \/ CopyLost(t) \/ CopyBehind(t) \/ CopyOvershoot(t) \/ CopyWait(t)
           \/ CopyCatchUp(t) \/ CopySnapshot(t),
           TypeOK'
    PROVE  Whole'
<1>0. Main \in Procs /\ t \in Procs /\ t # Main /\ \A u \in Tables : u # Main
  BY Names
<1>1. /\ log' = log /\ tick' = tick /\ snapAt' = snapAt /\ reg' = reg /\ prev' = prev /\ cur' = cur
      /\ db' = db /\ data' = data /\ twice' = twice /\ mem' = mem /\ dsync' = dsync
      /\ launching' = launching /\ held' = held
  BY DEF CopyLost, CopyBehind, CopyOvershoot, CopyWait, CopyCatchUp, CopySnapshot,
         provider, queue, subscr, tuning, sync
<1>2. /\ pc[t] = "sync" /\ \A p \in Procs : p # t => pc'[p] = pc[p]
      /\ \A u \in Tables : u # t => csnap'[u] = csnap[u] /\ work'[u] = work[u]
      /\ \A p \in Procs : p # t => big'[p] = big[p]
      /\ \/ pc'[t] = "exit" /\ mem[t][t].state \notin Copying /\ csnap'[t] = csnap[t]
         \/ /\ pc'[t] = "cleanup" /\ mem[t][t].state = "do-sync" /\ cur[t] < mem[t][t].tick
            /\ csnap'[t] = csnap[t] /\ ~big'[t]
         \/ /\ pc'[t] = "cleanup" /\ mem[t][t].state = "catching-up" /\ work[t]
            /\ csnap'[t] = csnap[t]
         \/ pc'[t] = "poll" /\ mem[t][t].state = "do-sync" /\ ~big'[t] /\ csnap'[t] = csnap[t]
         \/ pc'[t] = "load" /\ mem[t][t].state = "wanna-sync" /\ csnap'[t] = csnap[t]
         \/ pc'[t] = "copying" /\ mem[t][t].state = "in-copy" /\ csnap'[t] = Len(log)
      /\ mem[t][t].state # "do-sync" => big'[t] = big[t]
  <2>1. pc \in [Procs -> Labels] /\ csnap \in [Tables -> 0..MaxCommit] /\ work \in [Procs -> BOOLEAN]
        /\ big \in [Procs -> BOOLEAN]
    BY DEF Whole, TypeOK
  <2>2. CASE CopyLost(t)
    BY <1>0, <2>1, <2>2 DEF CopyLost, Goto, tuning, sync
  <2>21. CASE CopyWait(t)
    BY <1>0, <2>1, <2>21 DEF CopyWait, Goto, tuning, sync
  <2>22. CASE CopyCatchUp(t)
    BY <1>0, <2>1, <2>22 DEF CopyCatchUp, Goto, tuning, sync
  <2>3. CASE CopyBehind(t)
    BY <1>0, <2>1, <2>3 DEF CopyBehind, SmallBatches, Goto, sync
  <2>31. CASE CopyOvershoot(t)
    BY <1>0, <2>1, <2>31 DEF CopyOvershoot, SmallBatches, Goto, sync
  <2>4. CASE CopySnapshot(t)
    BY <1>0, <2>1, <2>4 DEF CopySnapshot, Goto, tuning
  <2> QED
    BY <2>2, <2>21, <2>22, <2>3, <2>31, <2>4
<1>3. /\ \A p \in Procs : big'[p] => big[p]
      /\ work[t] => work'[t]
  BY <1>0 DEF CopyLost, CopyBehind, CopyOvershoot, CopyWait, CopyCatchUp, CopySnapshot,
         SmallBatches, tuning, Whole, TypeOK
<1>4. InvQueue'
  <2>1. ASSUME NEW p \in Procs
        PROVE  BatchOK(p)'
    BY <1>1, <1>2, <1>3 DEF Whole, InvQueue, BatchOK
  <2>2. DsyncInv'
    BY <1>0, <1>1, <1>2, DsyncKept DEF Whole, InvQueue
  <2> QED
    BY <2>1, <2>2, <1>1 DEF Whole, InvQueue, TicksOK
<1>5. MemOK'
  BY <1>0, <1>1, <1>2 DEF Whole, MemOK
<1>6. InvOne'
  BY <1>0, <1>1, <1>2 DEF Whole, InvOne, MainIn
<1>7. TableOK(t)'
  <2>0. TableOK(t) /\ TicksOK /\ BatchOK(t) /\ BatchOK(Main)
    BY <1>0 DEF Whole, InvQueue
  <2>1. PlaceOK(t)'
    BY <2>0, <1>0, <1>1, <1>2, <1>3 DEF TableOK, PlaceOK, CopyLabels
  <2>2. RowOK(t)'
    <3>1. snapAt[cur[t]] <= Len(log) /\ Len(log) \in Nat
      BY <1>0, <2>0, Numbers DEF Whole, TicksOK, BatchOK
    <3>2. pc'[Main] = pc[Main] /\ pc'[t] # "none"
      BY <1>0, <1>2
    <3>3. csnap'[t] \in {csnap[t], Len(log)} /\ (pc'[t] = "copying" => csnap'[t] = Len(log))
      BY <1>2
    <3>4. /\ db[t].state = "wanna-sync" => pc'[t] = "load"
          /\ db[t].state = "do-sync" => pc'[t] = "load" \/ ~big'[t]
          /\ db[t].state = "catching-up" => big'[t] = big[t]
      <4>1. mem[t][t].state \in States /\ CopyOK(t) /\ pc[t] = "sync"
        BY <1>0, <1>2, <2>0, Rows DEF Whole, TableOK
      <4>2. /\ db[t].state = "wanna-sync" => mem[t][t].state = "wanna-sync"
            /\ db[t].state = "do-sync" => mem[t][t].state \in {"wanna-sync", "do-sync"}
            /\ db[t].state = "catching-up" => mem[t][t].state = "catching-up"
        BY <4>1 DEF CopyOK, CopyIn, SameRow, States, Copying
      <4> QED
        BY <4>2, <1>2 DEF Copying
    <3>5. RowOK(t) /\ pc[t] = "sync" /\ (work[t] => work'[t]) /\ (big'[t] => big[t])
      BY <1>0, <2>0, <1>2, <1>3 DEF TableOK
    <3> QED
      BY <3>1, <3>2, <3>3, <3>4, <3>5, <1>1 DEF RowOK, CopyOwns, NextEnds
  <2>3. MainOK(t)'
    <3>1. MainOK(t) /\ pc'[Main] = pc[Main]
      BY <1>0, <1>2, <2>0 DEF TableOK
    <3>2. /\ pc[t] = "sync" /\ pc'[t] # "sync" /\ pc'[t] # "apply"
          /\ pc'[t] \in {"copying", "cleanup"} => mem[t][t].state \notin {"absent", "ok"}
      BY <1>2
    <3> QED
      BY <3>1, <3>2, <1>1 DEF MainOK, MainIn, SameRow
  <2>4. CopyOK(t)'
    <3>1. mem[t][t].state \in States
      BY <1>0, Rows DEF Whole
    <3> QED
      BY <3>1, <2>0, <1>0, <1>1, <1>2, <1>3 DEF TableOK, CopyOK, CopyIn, SameRow, Copying, States
  <2>5. CountOK(t, t)' /\ CountOK(Main, t)' /\ GcOK(t)'
    BY <2>0, <1>1 DEF TableOK, CountOK, GcOK
  <2>6. DataOK(t)'
    BY <2>0, <1>0, <1>1, <1>2 DEF TableOK, DataOK, Ev, MainIn
  <2> QED
    BY <2>0, <2>1, <2>2, <2>3, <2>4, <2>5, <2>6, <1>1 DEF TableOK
<1>8. ASSUME NEW u \in Tables, u # t
      PROVE  TableOK(u)'
  <2>1. TableOK(u) /\ u \in Procs /\ pc'[u] = pc[u] /\ pc'[Main] = pc[Main]
    BY <1>0, <1>2, <1>8, Names DEF Whole
  <2> QED
    BY <2>1, <1>1, <1>2, <1>8, Frame
<1> QED
  BY <1>4, <1>5, <1>6, <1>7, <1>8 DEF Whole

-----------------------------------------------------------------------------
\* The provider

\* What a snapshot sees does not change any more.
LEMMA Settled ==
    ASSUME NEW t \in Tables, NEW u \in Tables, log \in Seq(Tables), log' = Append(log, t),
           NEW n \in Int, n <= Len(log)
    PROVE  {i \in 1..Len(log') : i <= n /\ log'[i] = u} = Ev(u, n)
<1>1. Len(log') = Len(log) + 1 /\ Len(log) \in Nat
  OBVIOUS
<1>2. \A i \in 1..Len(log) : log'[i] = log[i]
  OBVIOUS
<1> QED
  BY <1>1, <1>2 DEF Ev

\* A commit on the provider adds an event that no snapshot or tick covers yet.
LEMMA CommitStep ==
    ASSUME Simple, Whole, NEW t \in Tables, Commit(t), TypeOK'
    PROVE  Whole'
<1>1. /\ log' = Append(log, t) /\ log \in Seq(Tables)
      /\ tick' = tick /\ snapAt' = snapAt /\ reg' = reg /\ prev' = prev /\ cur' = cur
      /\ db' = db /\ data' = data /\ twice' = twice /\ mem' = mem /\ dsync' = dsync
      /\ launching' = launching /\ pc' = pc /\ big' = big /\ work' = work /\ csnap' = csnap
      /\ held' = held
  BY DEF Commit, queue, subscr, tuning, sync, Whole, TypeOK
<1>2. Len(log') = Len(log) + 1 /\ Len(log) \in Nat
  BY <1>1
<1>3. \A k \in 0..tick : snapAt[k] \in Nat
  BY Numbers DEF Whole
<1>4. InvQueue'
  BY <1>1, <1>2, <1>3 DEF Whole, InvQueue, TicksOK, BatchOK, DsyncInv
<1>5. MemOK'
  BY <1>1, <1>2, Rows DEF Whole, MemOK
<1>6. InvOne'
  BY <1>1 DEF Whole, InvOne, MainIn
<1>7. ASSUME NEW u \in Tables
      PROVE  TableOK(u)'
  <2>0. TableOK(u) /\ u \in Procs /\ Main \in Procs
    BY Names DEF Whole
  <2>1. PlaceOK(u)'
    BY <2>0, <1>1 DEF TableOK, PlaceOK
  <2>2. RowOK(u)'
    <3>1. db[u].snap \in Int /\ csnap[u] \in Nat
      BY Rows, Numbers DEF Whole
    <3> QED
      BY <3>1, <2>0, <1>1, <1>2 DEF TableOK, RowOK, NextEnds
  <2>3. MainOK(u)' /\ CopyOK(u)'
    BY <2>0, <1>1 DEF TableOK, MainOK, MainIn, CopyOK, CopyIn, SameRow
  <2>4. CountOK(u, u)' /\ CountOK(Main, u)' /\ GcOK(u)'
    BY <2>0, <1>1 DEF TableOK, CountOK, GcOK
  <2>5. DataOK(u)'
    <3>1. /\ snapAt[prev[u]] \in Int /\ snapAt[prev[u]] <= Len(log)
          /\ snapAt[prev[Main]] \in Int /\ snapAt[prev[Main]] <= Len(log)
      <4>1. prev[u] \in 0..tick /\ prev[Main] \in 0..tick
        BY <2>0, Numbers DEF Whole, InvQueue, BatchOK
      <4> QED
        BY <4>1, <1>3 DEF Whole, InvQueue, TicksOK
    <3>2. /\ db[u].snap \in Int /\ db[u].snap <= Len(log)
          /\ mem[u][u].snap \in Int /\ mem[u][u].snap <= Len(log)
          /\ mem[Main][u].snap \in Int /\ mem[Main][u].snap <= Len(log)
      BY <2>0, Rows DEF Whole, MemOK, TableOK, RowOK
    <3>3. /\ Ev(u, Later(db[u].snap, snapAt[prev[u]]))' = Ev(u, Later(db[u].snap, snapAt[prev[u]]))
          /\ Ev(u, Later(db[u].snap, snapAt[prev[Main]]))' = Ev(u, Later(db[u].snap, snapAt[prev[Main]]))
          /\ Ev(u, Later(mem[u][u].snap, snapAt[prev[u]]))' = Ev(u, Later(mem[u][u].snap, snapAt[prev[u]]))
          /\ Ev(u, Later(mem[Main][u].snap, snapAt[prev[Main]]))'
                = Ev(u, Later(mem[Main][u].snap, snapAt[prev[Main]]))
      <4>1. ASSUME NEW a \in Int, a <= Len(log), NEW b \in Int, b <= Len(log)
            PROVE  /\ {i \in 1..Len(log') : i <= Later(a, b) /\ log'[i] = u} = Ev(u, Later(a, b))
        <5>1. Later(a, b) \in Int /\ Later(a, b) <= Len(log)
          BY <4>1 DEF Later
        <5> QED
          BY <5>1, <1>1, Settled
      <4>2. (Ev(u, Later(db[u].snap, snapAt[prev[u]])))'
               = {i \in 1..Len(log') : i <= Later(db[u].snap, snapAt[prev[u]]) /\ log'[i] = u}
        BY <1>1 DEF Ev, Later
      <4>3. (Ev(u, Later(db[u].snap, snapAt[prev[Main]])))'
               = {i \in 1..Len(log') : i <= Later(db[u].snap, snapAt[prev[Main]]) /\ log'[i] = u}
        BY <1>1 DEF Ev, Later
      <4>4. (Ev(u, Later(mem[u][u].snap, snapAt[prev[u]])))'
               = {i \in 1..Len(log') : i <= Later(mem[u][u].snap, snapAt[prev[u]]) /\ log'[i] = u}
        BY <1>1 DEF Ev, Later
      <4>5. (Ev(u, Later(mem[Main][u].snap, snapAt[prev[Main]])))'
               = {i \in 1..Len(log') : i <= Later(mem[Main][u].snap, snapAt[prev[Main]]) /\ log'[i] = u}
        BY <1>1 DEF Ev, Later
      <4> QED
        BY <4>1, <4>2, <4>3, <4>4, <4>5, <3>1, <3>2
    <3>4. DataOK(u)
      BY <2>0 DEF TableOK
    <3> QED
      BY <3>3, <3>4, <1>1 DEF DataOK, MainIn
  <2> QED
    BY <2>0, <2>1, <2>2, <2>3, <2>4, <2>5, <1>1 DEF TableOK
<1> QED
  BY <1>4, <1>5, <1>6, <1>7 DEF Whole

\* A tick takes a snapshot of the log; no earlier tick changes.
LEMMA TickStep ==
    ASSUME Simple, Whole, Tick, TypeOK'
    PROVE  Whole'
<1>1. /\ log' = log /\ tick < MaxTick /\ tick' = tick + 1
      /\ snapAt' = [snapAt EXCEPT ![tick + 1] = Len(log)]
      /\ reg' = reg /\ prev' = prev /\ cur' = cur
      /\ db' = db /\ data' = data /\ twice' = twice /\ mem' = mem /\ dsync' = dsync
      /\ launching' = launching /\ pc' = pc /\ big' = big /\ work' = work /\ csnap' = csnap
      /\ held' = held
  BY DEF Tick, queue, subscr, tuning, sync
<1>2. /\ tick \in Nat /\ MaxTick \in Nat /\ Len(log) \in Nat
      /\ snapAt'[tick + 1] = Len(log) /\ \A k \in 0..tick : snapAt'[k] = snapAt[k] /\ snapAt[k] \in Nat
  <2>1. tick \in Nat /\ MaxTick \in Nat /\ Len(log) \in Nat /\ \A k \in 0..tick : snapAt[k] \in Nat
    BY Numbers DEF Whole
  <2> QED
    BY <2>1, <1>1 DEF Whole, TypeOK
<1>3. InvQueue'
  <2>1. TicksOK'
    <3>1. TicksOK
      BY DEF Whole, InvQueue
    <3> QED
      BY <3>1, <1>1, <1>2 DEF TicksOK
  <2>2. ASSUME NEW p \in Procs
        PROVE  BatchOK(p)'
    BY <1>1, <1>2, Numbers DEF Whole, InvQueue, BatchOK
  <2> QED
    BY <2>1, <2>2, <1>1 DEF Whole, InvQueue, DsyncInv
<1>4. MemOK' /\ InvOne'
  BY <1>1 DEF Whole, MemOK, InvOne, MainIn
<1>5. ASSUME NEW u \in Tables
      PROVE  TableOK(u)'
  <2>0. /\ TableOK(u) /\ u \in Procs /\ Main \in Procs
        /\ prev[u] \in 0..tick /\ prev[Main] \in 0..tick /\ cur[u] \in 0..tick /\ cur[Main] \in 0..tick
    BY Names, Numbers DEF Whole, InvQueue, BatchOK
  <2>1. /\ snapAt'[prev[u]] = snapAt[prev[u]] /\ snapAt'[prev[Main]] = snapAt[prev[Main]]
        /\ snapAt'[cur[u]] = snapAt[cur[u]] /\ snapAt'[cur[Main]] = snapAt[cur[Main]]
    BY <1>2, <2>0
  <2>2. PlaceOK(u)'
    BY <2>0, <1>1 DEF TableOK, PlaceOK
  <2>3. RowOK(u)'
    <3>1. RowOK(u)
      BY <2>0 DEF TableOK
    <3>2. ASSUME NEW k \in NextEnds(u)'
          PROVE  (k \in NextEnds(u) /\ snapAt'[k] = snapAt[k]) \/ snapAt'[k] = Len(log)
      <4>1. \/ k \in NextEnds(u) /\ k \in 0..tick
            \/ k = tick + 1
        BY <1>1, <1>2, <2>0 DEF NextEnds
      <4> QED
        BY <4>1, <1>2
    <3>3. db[u].snap <= Len(log)
      BY <3>1 DEF RowOK
    <3>4. /\ db[u].state = "catching-up" /\ ~work[u] /\ cur[u] = prev[u]
                => \A k \in NextEnds(u)' : db[u].snap <= snapAt'[k]
      BY <3>1, <3>2, <3>3 DEF RowOK
    <3> QED
      BY <3>1, <3>4, <2>1, <1>1 DEF RowOK
  <2>4. MainOK(u)' /\ CopyOK(u)'
    <3>1. MainOK(u)'
      BY <2>0, <2>1, <1>1 DEF TableOK, MainOK, MainIn, SameRow
    <3>2. CopyOK(u)'
      BY <2>0, <1>1 DEF TableOK, CopyOK, CopyIn, SameRow
    <3> QED
      BY <3>1, <3>2
  <2>5. CountOK(u, u)' /\ CountOK(Main, u)'
    <3>1. ASSUME NEW p \in {u, Main}
          PROVE  mem[p][u].last \in 1..cur[p] => snapAt'[mem[p][u].last] = snapAt[mem[p][u].last]
      <4>1. cur[p] \in 0..tick /\ tick \in Nat
        BY <1>2, <2>0
      <4>2. \A k \in 1..cur[p] : k \in 0..tick
        BY <4>1
      <4> QED
        BY <4>2, <1>2
    <3> QED
      BY <3>1, <2>0, <1>1 DEF TableOK, CountOK
  <2>6. GcOK(u)'
    <3>1. mem[Main][u].gc <= cur[Main] => snapAt'[mem[Main][u].gc] = snapAt[mem[Main][u].gc]
      <4>1. mem[Main][u].gc \in 0..MaxTick
        BY <2>0, Rows DEF Whole
      <4> QED
        BY <4>1, <1>2, <2>0
    <3> QED
      BY <3>1, <2>0, <1>1 DEF TableOK, GcOK
  <2>7. DataOK(u)'
    BY <2>0, <2>1, <1>1 DEF TableOK, DataOK, Ev, MainIn
  <2> QED
    BY <2>0, <2>2, <2>3, <2>4, <2>5, <2>6, <2>7, <1>1 DEF TableOK
<1> QED
  BY <1>3, <1>4, <1>5 DEF Whole

-----------------------------------------------------------------------------
\* The administrator

\* A command writes a row whose processes are stopped, or one that nobody has.
LEMMA AdminStep ==
    ASSUME Simple, Whole, NEW t \in Tables, AddTable(t) \/ RemoveTable(t) \/ Resync(t), TypeOK'
    PROVE  Whole'
<1>0. Main \in Procs /\ t \in Procs /\ t # Main /\ \A u \in Tables : u # Main
  BY Names
<1>1. /\ log' = log /\ tick' = tick /\ snapAt' = snapAt /\ reg' = reg /\ prev' = prev /\ cur' = cur
      /\ data' = data /\ twice' = twice /\ mem' = mem /\ dsync' = dsync /\ pc' = pc
      /\ launching' = launching /\ big' = big /\ work' = work /\ csnap' = csnap
      /\ held' = held
  BY DEF AddTable, RemoveTable, Resync, Admin, provider, queue, tuning, sync
<1>2. /\ \A u \in Tables : u # t => db'[u] = db[u]
      /\ \/ db'[t] = TableRow("absent")
         \/ db'[t] = TableRow("missing") /\ Forgotten(t)
         \/ db'[t] = TableRow("missing") /\ Stopped(t)
  <2>1. db \in [Tables -> Row]
    BY DEF Whole, TypeOK
  <2> QED
    BY <2>1 DEF AddTable, RemoveTable, Resync, Admin, Simple
<1>4. MemOK'
  BY <1>1 DEF Whole, MemOK
<1>5. db'[t].state \in {"absent", "missing"} /\ db'[t].snap = NoSnap
  BY <1>2 DEF TableRow
<1>3. InvQueue'
  <2>1. DsyncInv'
    BY <1>0, <1>1, <1>2, <1>5, DsyncKept DEF Whole, InvQueue
  <2> QED
    BY <2>1, <1>1 DEF Whole, InvQueue, TicksOK, BatchOK
<1>6. InvOne'
  BY <1>1, <1>2, <1>5 DEF Whole, InvOne, MainIn, Copying
<1>7. TableOK(t)'
  <2>0. TableOK(t)
    BY DEF Whole
  <2>1. db'[t].state = "missing" =>
            /\ pc[t] = "none" /\ mem[t][t] = NewTableState /\ mem[Main][t] = NewTableState
            /\ t \notin launching
    <3>1. PlaceOK(t) /\ MemOK
      BY <2>0 DEF TableOK, Whole
    <3>2. pc[t] = "none" => mem[t][t] = NewTableState
      BY <3>1 DEF PlaceOK
    <3>3. CASE Forgotten(t)
      <4>1. pc[t] = "none" /\ mem[Main][t].state = "absent"
        BY <3>3 DEF Forgotten
      <4> QED
        BY <3>1, <3>2, <4>1, <1>0 DEF MemOK, PlaceOK
    <3>4. CASE Stopped(t)
      <4>1. pc[t] = "none" /\ pc[Main] = "down"
        BY <3>4 DEF Stopped
      <4> QED
        BY <3>1, <3>2, <4>1, <1>0 DEF MemOK, PlaceOK
    <3> QED
      BY <1>2, <3>3, <3>4 DEF TableRow
  <2>2. PlaceOK(t)'
    BY <2>0, <2>1, <1>1, <1>5 DEF TableOK, PlaceOK
  <2>3. RowOK(t)'
    <3>1. NoSnap <= Len(log)
      BY Numbers DEF Whole, NoSnap
    <3> QED
      BY <3>1, <2>0, <2>1, <1>1, <1>5 DEF TableOK, RowOK, CopyOwns
  <2>4. MainOK(t)'
    BY <2>0, <2>1, <1>1, <1>5 DEF TableOK, MainOK, MainIn, SameRow, NewTableState
  <2>5. CopyOK(t)'
    BY <2>0, <2>1, <1>1, <1>5 DEF TableOK, CopyOK, CopyIn, SameRow, NewTableState
  <2>6. CountOK(t, t)' /\ CountOK(Main, t)' /\ GcOK(t)'
    BY <2>0, <2>1, <1>1, <1>5 DEF TableOK, CountOK, GcOK, NewTableState, CopyOwns
  <2>7. DataOK(t)'
    BY <2>0, <2>1, <1>1, <1>5 DEF TableOK, DataOK, Ev, MainIn, CopyOwns
  <2> QED
    BY <2>0, <2>2, <2>3, <2>4, <2>5, <2>6, <2>7, <1>1 DEF TableOK
<1>8. ASSUME NEW u \in Tables, u # t
      PROVE  TableOK(u)'
  BY <1>1, <1>2, <1>8, Frame DEF Whole
<1> QED
  BY <1>3, <1>4, <1>6, <1>7, <1>8 DEF Whole

-----------------------------------------------------------------------------
\* Batches begin

\* A new batch begins where the last one ended.
LEMMA PollStep ==
    ASSUME Simple, Whole, NEW p \in Procs, Poll(p) \/ Idle(p), TypeOK'
    PROVE  Whole'
<1>0. Main \in Procs /\ \A u \in Tables : u # Main /\ u \in Procs
  BY Names
<1>1. /\ log' = log /\ tick' = tick /\ snapAt' = snapAt /\ reg' = reg /\ prev' = prev
      /\ db' = db /\ data' = data /\ twice' = twice /\ mem' = mem /\ dsync' = dsync
      /\ launching' = launching /\ big' = big /\ csnap' = csnap
  BY DEF Poll, Idle, provider, queue, subscr, tuning, sync
<1>2. /\ tick \in Nat /\ \A q \in Procs : prev[q] \in Nat /\ cur[q] \in Nat /\ BatchOK(q)
      /\ \A k \in 0..tick : snapAt[k] \in Nat
      /\ TicksOK /\ tick <= MaxTick
  BY Numbers DEF Whole, InvQueue
<1>3. /\ pc[p] = "poll" /\ pc'[p] \in {"poll", "load"}
      /\ \A q \in Procs : q # p => /\ pc'[q] = pc[q] /\ cur'[q] = cur[q]
                                  /\ work'[q] = work[q] /\ held'[q] = held[q]
      /\ \/ /\ cur[p] > prev[p] /\ cur'[p] = cur[p] /\ pc'[p] = "load"
            /\ work'[p] = work[p] /\ held'[p] = held[p]
         \/ /\ cur[p] = prev[p] /\ cur'[p] \in NextEnds(p) /\ pc'[p] = "load"
            /\ work'[p] = work[p] /\ held'[p] = held[p]
         \/ /\ cur[p] = prev[p] /\ cur'[p] = cur[p] /\ pc'[p] = "poll"
            /\ NextEnds(p)' = {}
  <2>1. /\ pc \in [Procs -> Labels] /\ cur \in [Procs -> 0..MaxTick] /\ work \in [Procs -> BOOLEAN]
        /\ held \in [Procs -> 0..MaxTick]
    BY DEF Whole, TypeOK
  <2>2. prev[p] <= cur[p] /\ cur[p] <= tick
    BY <1>2 DEF BatchOK
  <2>3. CASE Poll(p)
    <3>1. pc[p] = "poll" /\ pc' = [pc EXCEPT ![p] = "load"] /\ work' = work /\ held' = held
      BY <2>3 DEF Poll, Goto, tuning
    <3>2. \/ cur' = cur /\ cur[p] > prev[p]
          \/ cur[p] = prev[p] /\ \E k \in NextEnds(p) : cur' = [cur EXCEPT ![p] = k]
      BY <2>3 DEF Poll
    <3>3. CASE cur' = cur /\ cur[p] > prev[p]
      BY <3>1, <3>3, <2>1
    <3>4. CASE cur[p] = prev[p] /\ \E k \in NextEnds(p) : cur' = [cur EXCEPT ![p] = k]
      BY <3>1, <3>4, <2>1
    <3> QED
      BY <3>2, <3>3, <3>4
  <2>4. CASE Idle(p)
    <3>1. /\ pc[p] = "poll" /\ pc' = pc /\ cur' = cur /\ cur[p] = prev[p]
          /\ work' = [work EXCEPT ![p] = FALSE]
          /\ big[p] \/ prev[p] = tick
          /\ held' = IF big[p] THEN [held EXCEPT ![p] = tick] ELSE held
      BY <2>4 DEF Idle, queue
    <3>2. \A q \in Procs : q # p => work'[q] = work[q] /\ held'[q] = held[q]
      BY <3>1, <2>1
    <3>3. big[p] => held'[p] = tick
      BY <3>1, <2>1
    <3>4. NextEnds(p)' = {}
      BY <3>1, <3>3, <1>1, <1>2 DEF NextEnds
    <3> QED
      BY <3>1, <3>2, <3>4
  <2> QED
    BY <2>3, <2>4
<1>4. ASSUME NEW q \in Procs
      PROVE  /\ BatchOK(q)'
             /\ cur[q] <= cur'[q] /\ cur'[q] <= tick /\ cur'[q] \in Nat
             /\ cur[q] > prev[q] => cur'[q] = cur[q]
             /\ cur'[q] # cur[q] => pc[q] = "poll" /\ cur[q] = prev[q] /\ cur'[q] \in NextEnds(q)
             /\ cur'[q] # cur[q] /\ ~big[q] => cur'[q] = prev[q] + 1
             /\ pc'[q] # pc[q] => pc[q] = "poll" /\ pc'[q] = "load"
             /\ pc'[q] # "load" => pc'[q] = pc[q]
  <2>1. CASE q # p
    BY <2>1, <1>1, <1>2, <1>3 DEF BatchOK
  <2>2. CASE q = p
    <3>1. /\ \A k \in NextEnds(p) : k > prev[p] /\ k <= tick /\ k \in Nat
          /\ ~big[p] => \A k \in NextEnds(p) : k = prev[p] + 1
      BY <1>2 DEF NextEnds
    <3> QED
      BY <3>1, <2>2, <1>1, <1>2, <1>3 DEF BatchOK
  <2> QED
    BY <2>1, <2>2
<1>5. InvQueue'
  <2>1. /\ DsyncInv /\ dsync \in Nat /\ cur[Main] \in Nat /\ prev[Main] \in Nat
        /\ cur'[Main] \in Nat /\ cur[Main] <= cur'[Main]
        /\ cur'[Main] # cur[Main] /\ ~big[Main] => cur'[Main] = prev[Main] + 1
        /\ pc'[Main] \in {"start", "launch"} => pc[Main] \in {"start", "launch"}
    <3>1. DsyncInv /\ dsync \in 0..MaxTick
      BY DEF Whole, InvQueue, TypeOK
    <3> QED
      BY <3>1, <1>0, <1>2, <1>4
  <2>2. DsyncInv'
    BY <2>1, <1>1 DEF DsyncInv
  <2> QED
    BY <2>2, <1>1, <1>4 DEF Whole, InvQueue, TicksOK
<1>6. MemOK' /\ InvOne'
  BY <1>0, <1>1, <1>4 DEF Whole, MemOK, InvOne, MainIn, MainLabels
<1>7. ASSUME NEW u \in Tables
      PROVE  TableOK(u)'
  <2>0. TableOK(u) /\ u \in Procs /\ u # Main
    BY <1>0 DEF Whole
  <2>1. PlaceOK(u)'
    <3>1. \/ pc'[u] = "load" /\ pc[u] = "poll"
          \/ pc'[u] = pc[u] /\ (work[u] => work'[u] \/ pc[u] = "poll")
      BY <1>3, <1>4, <2>0
    <3>2. pc[Main] = "launch" => pc'[Main] = "launch"
      BY <1>0, <1>4
    <3> QED
      BY <3>1, <3>2, <2>0, <1>1, <1>3 DEF TableOK, PlaceOK, CopyLabels
  <2>2. RowOK(u)'
    <3>1. snapAt[cur[Main]] <= snapAt[cur'[Main]] /\ snapAt[cur[Main]] \in Nat /\ snapAt[cur'[Main]] \in Nat
      BY <1>0, <1>2, <1>4 DEF TicksOK
    <3>2. RowOK(u) /\ BatchOK(u)
      BY <2>0, <1>2 DEF TableOK
    <3>3. db[u].state = "do-sync" =>
              /\ cur'[u] <= cur[Main]
              /\ cur'[u] = cur[Main] => prev[u] = prev[Main]
      <4>1. CASE cur'[u] = cur[u]
        BY <4>1, <3>2 DEF RowOK
      <4>2. CASE cur'[u] # cur[u]
        <5>1. pc[u] = "poll" /\ (~big[u] => cur'[u] = prev[u] + 1)
          BY <4>2, <1>4, <2>0
        <5>2. db[u].state = "do-sync" => ~big[u] /\ prev[u] <= prev[Main] /\ cur[Main] = prev[Main] + 1
          BY <5>1, <3>2 DEF RowOK, BatchOK
        <5> QED
          BY <5>1, <5>2, <1>0, <1>2, <2>0
      <4> QED
        BY <4>1, <4>2
    <3>4. /\ cur[u] > prev[u] => cur'[u] = cur[u]
          /\ cur[Main] > prev[Main] => cur'[Main] = cur[Main]
          /\ cur[Main] = prev[Main] + 1 => cur[Main] > prev[Main]
          /\ pc'[u] = "copying" => pc[u] = "copying" /\ cur'[u] = cur[u]
          /\ pc[u] \in {"none", "load", "sync"} => pc'[u] = pc[u] /\ cur'[u] = cur[u]
      BY <1>0, <1>2, <1>3, <1>4, <2>0
    <3>5. db[u].snap \in Int
      BY Rows DEF Whole
    <3>6. db[u].state = "catching-up" /\ ~work'[u] =>
              /\ cur'[u] > prev[u] => db[u].snap <= snapAt[cur'[u]]
              /\ cur'[u] = prev[u] => \A k \in NextEnds(u)' : db[u].snap <= snapAt[k]
      <4>1. CASE NextEnds(u)' = {} /\ cur'[u] = prev[u]
        BY <4>1, <1>2, <2>0
      <4>2. CASE work'[u] = work[u] /\ held'[u] = held[u]
        <5>1. NextEnds(u)' = NextEnds(u)
          BY <4>2, <1>1 DEF NextEnds
        <5>2. \/ cur'[u] = cur[u]
              \/ cur[u] = prev[u] /\ cur'[u] \in NextEnds(u) /\ cur'[u] > prev[u]
          BY <1>2, <1>4, <2>0
        <5> QED
          BY <5>1, <5>2, <4>2, <3>2, <1>2, <2>0 DEF RowOK
      <4> QED
        BY <4>1, <4>2, <1>3, <2>0
    <3> QED
      BY <3>1, <3>2, <3>3, <3>4, <3>5, <3>6, <1>1 DEF RowOK
  <2>3. MainOK(u)' /\ CopyOK(u)'
    <3>1. /\ MainIn' => MainIn /\ cur'[Main] = cur[Main] /\ pc'[Main] = pc[Main]
          /\ pc[u] = "none" => pc'[u] = "none"
          /\ pc'[u] # "load" => pc'[u] = pc[u]
      BY <1>0, <1>3, <1>4, <2>0 DEF MainIn
    <3>2. MainOK(u)'
      BY <3>1, <2>0, <1>1 DEF TableOK, MainOK, SameRow
    <3>3. pc'[u] \notin {"poll", "load"} => cur'[u] = cur[u] /\ work'[u] = work[u]
      BY <1>3, <1>4, <2>0
    <3>4. CopyOK(u)'
      BY <3>1, <3>3, <2>0, <1>1 DEF TableOK, CopyOK, CopyIn, SameRow
    <3> QED
      BY <3>2, <3>4
  <2>4. CountOK(u, u)' /\ CountOK(Main, u)' /\ GcOK(u)'
    <3>1. \A q \in {u, Main} : /\ cur[q] \in Nat /\ cur'[q] \in Nat /\ cur[q] <= cur'[q]
                               /\ mem[q][u].last \in Nat /\ mem[q][u].gc \in Nat
                               /\ prev[q] \in Nat /\ (cur'[q] # cur[q] => cur[q] = prev[q])
      BY <1>0, <1>2, <1>4, <2>0, Rows DEF Whole
    <3> QED
      BY <3>1, <2>0, <1>1 DEF TableOK, CountOK, GcOK
  <2>5. DataOK(u)'
    <3>1. /\ MainIn' => MainIn
          /\ pc'[u] \in {"sync", "cleanup", "apply"} => pc[u] = pc'[u]
      BY <1>0, <1>3, <1>4, <2>0 DEF MainIn
    <3> QED
      BY <3>1, <2>0, <1>1 DEF TableOK, DataOK, Ev
  <2> QED
    BY <2>0, <2>1, <2>2, <2>3, <2>4, <2>5, <1>1 DEF TableOK
<1> QED
  BY <1>5, <1>6, <1>7 DEF Whole

\* What an object takes from its row, and what it keeps (TableState.loaded_state).
LEMMA LoadedFields ==
    ASSUME NEW r \in Object, NEW row \in Row
    PROVE  /\ LoadedState(r, row).state = row.state /\ ~LoadedState(r, row).changed
           /\ row.state = "absent" => LoadedState(r, row) = NewTableState
           /\ row.state # "absent" => /\ LoadedState(r, row).tick = row.tick
                                      /\ LoadedState(r, row).snap = row.snap
                                      /\ LoadedState(r, row).okc = r.okc
                                      /\ LoadedState(r, row).last = r.last
                                      /\ LoadedState(r, row).gc = r.gc
BY DEF LoadedState, NewTableState, Object, Row

\* The objects of p after load_table_state, for either kind of process.
LEMMA LoadEffect ==
    ASSUME Simple, Whole, NEW p \in Procs, Load(p), TypeOK'
    PROVE  /\ \A q \in Procs : q # p => pc'[q] = pc[q] /\ mem'[q] = mem[q]
           /\ pc[p] = "load" /\ pc'[p] = (IF p = Main THEN "dosync" ELSE "sync")
           /\ \A u \in Tables : mem'[p][u] = LoadedState(mem[p][u], db[u])
           /\ InvQueue' /\ MemOK' /\ InvOne'
<1>1. /\ log' = log /\ tick' = tick /\ snapAt' = snapAt /\ reg' = reg /\ prev' = prev /\ cur' = cur
      /\ db' = db /\ dsync' = dsync /\ big' = big /\ held' = held
  BY DEF Load, provider, queue, subscr, tuning
<1>2. /\ pc[p] = "load" /\ pc'[p] = (IF p = Main THEN "dosync" ELSE "sync")
      /\ \A q \in Procs : q # p => pc'[q] = pc[q] /\ mem'[q] = mem[q]
      /\ \A u \in Tables : mem'[p][u] = LoadedState(mem[p][u], db[u])
  BY DEF Load, Goto, Whole, TypeOK
<1>3. InvQueue'
  <2>1. /\ DsyncInv
        /\ pc'[Main] \in {"start", "launch"} =>
               pc[Main] \in {"start", "launch"} /\ mem'[Main] = mem[Main]
    BY <1>2, Names DEF Whole, InvQueue
  <2>2. DsyncInv'
    BY <2>1, <1>1, DsyncKept
  <2> QED
    BY <2>2, <1>1, <1>2 DEF Whole, InvQueue, TicksOK, BatchOK
<1>4. MemOK'
  <2>0. Main \in Procs /\ MemOK
    BY Names DEF Whole
  <2>1. pc'[Main] \in MainLabels /\ (pc'[Main] = "down" => p # Main /\ mem'[Main] = mem[Main] /\ pc[Main] = "down")
    BY <1>2, <2>0 DEF MemOK, MainLabels
  <2>2. ASSUME NEW q \in Procs, NEW u \in Tables
        PROVE  /\ mem'[q][u].state = "absent" => mem'[q][u] = NewTableState
               /\ mem'[q][u].okc >= 1 => q \in {u, Main}
               /\ mem'[q][u].snap <= Len(log)
    <3>1. CASE q # p
      BY <3>1, <1>2, <2>0 DEF MemOK
    <3>2. CASE q = p
      <4>1. db[u] \in Row /\ mem[p][u] \in Object /\ db[u].snap <= Len(log) /\ Len(log) \in Nat
        BY Numbers DEF Whole, TypeOK, TableOK, RowOK
      <4>2. mem'[p][u] = LoadedState(mem[p][u], db[u])
        BY <1>2
      <4>3. mem[p][u].okc >= 1 => p \in {u, Main}
        BY <2>0 DEF MemOK
      <4>4. NewTableState.okc = 0 /\ NewTableState.snap <= Len(log)
        BY <4>1 DEF NewTableState, NoSnap
      <4> QED
        BY <3>2, <4>1, <4>2, <4>3, <4>4, LoadedFields
    <3> QED
      BY <3>1, <3>2
  <2> QED
    BY <1>1, <2>0, <2>1, <2>2 DEF MemOK
<1>5. InvOne'
  <2>1. CASE p = Main
    <3>1. ASSUME NEW u \in Tables
          PROVE  mem'[Main][u].state = db[u].state
      <4>1. mem[p][u] \in Object /\ db[u] \in Row /\ mem'[p][u] = LoadedState(mem[p][u], db[u])
        BY <1>2 DEF Whole, TypeOK
      <4> QED
        BY <4>1, <2>1, LoadedFields
    <3> QED
      BY <3>1, <1>1 DEF Whole, InvOne
  <2>2. CASE p # Main
    <3>1. (MainIn' => MainIn) /\ mem'[Main] = mem[Main]
      BY <2>2, <1>2, Names DEF MainIn
    <3> QED
      BY <3>1, <1>1 DEF Whole, InvOne
  <2> QED
    BY <2>1, <2>2
<1> QED
  BY <1>2, <1>3, <1>4, <1>5

\* Main loads the rows: its objects are as good as the rows again.
LEMMA LoadMain ==
    ASSUME Simple, Whole, Load(Main), TypeOK'
    PROVE  Whole'
<1>0. Main \in Procs /\ \A u \in Tables : u # Main /\ u \in Procs
  BY Names
<1>1. /\ log' = log /\ tick' = tick /\ snapAt' = snapAt /\ reg' = reg /\ prev' = prev /\ cur' = cur
      /\ db' = db /\ data' = data /\ twice' = twice /\ launching' = launching
      /\ work' = work /\ big' = big /\ held' = held /\ csnap' = csnap
  BY DEF Load, provider, queue, subscr, tuning
<1>2. /\ pc[Main] = "load" /\ pc'[Main] = "dosync"
      /\ \A u \in Tables : pc'[u] = pc[u] /\ mem'[u] = mem[u]
  BY <1>0, LoadEffect
<1>3. ASSUME NEW u \in Tables
      PROVE  TableOK(u)'
  <2>0. TableOK(u) /\ u \in Procs /\ u # Main
    BY <1>0 DEF Whole
  <2> DEFINE r == mem[Main][u]
             n == mem'[Main][u]
             d == db[u]
  <2>1. /\ n.state = d.state /\ ~n.changed
        /\ d.state = "absent" => n = NewTableState
        /\ d.state # "absent" => n.tick = d.tick /\ n.snap = d.snap /\ n.okc = r.okc
                                 /\ n.last = r.last /\ n.gc = r.gc
    <3>1. d \in Row /\ r \in Object
      BY <1>0 DEF Whole, TypeOK
    <3>2. n = LoadedState(r, d)
      BY <1>0, LoadEffect
    <3> QED
      BY <3>1, <3>2, LoadedFields
  <2>2. NewTableState.okc = 0 /\ NewTableState.gc = NoTick
    BY DEF NewTableState
  <2>3. PlaceOK(u)' /\ RowOK(u)'
    BY <2>0, <1>1, <1>2 DEF TableOK, PlaceOK, RowOK, NextEnds
  <2>4. MainOK(u)'
    <3>1. RowOK(u) /\ CopyOK(u) /\ mem[u][u].state \in States
      BY <2>0, Rows DEF TableOK, Whole
    <3>2. d.state = "ok" => /\ d.snap <= snapAt[cur[Main]]
                            /\ pc[u] \notin {"copying", "cleanup", "apply"}
                            /\ pc[u] = "sync" => mem[u][u].state = "ok"
      BY <3>1 DEF RowOK, CopyOK, CopyIn, SameRow, States, Copying
    <3>3. d.state = "missing" => pc[u] = "none"
      BY <3>1 DEF RowOK
    <3> QED
      BY <3>2, <3>3, <2>1, <1>1, <1>2, <2>0 DEF MainOK, SameRow
  <2>5. CopyOK(u)' /\ CountOK(u, u)'
    BY <2>0, <1>1, <1>2 DEF TableOK, CopyOK, CopyIn, SameRow, CountOK
  <2>6. CountOK(Main, u)' /\ GcOK(u)'
    <3>1. CountOK(Main, u) /\ GcOK(u)
      BY <2>0 DEF TableOK
    <3> QED
      BY <3>1, <2>1, <2>2, <1>1 DEF CountOK, GcOK
  <2>7. DataOK(u)'
    <3>1. DataOK(u)
      BY <2>0 DEF TableOK
    <3> QED
      BY <3>1, <2>1, <1>1, <1>2 DEF DataOK, Ev
  <2> QED
    BY <2>0, <2>3, <2>4, <2>5, <2>6, <2>7, <1>1 DEF TableOK
<1> QED
  BY <1>0, <1>3, LoadEffect DEF Whole

\* A copy process loads the rows, or finds that the table is gone.
LEMMA LoadCopy ==
    ASSUME Simple, Whole, NEW t \in Tables, Load(t), TypeOK'
    PROVE  Whole'
<1>0. Main \in Procs /\ t # Main /\ \A u \in Tables : u # Main /\ u \in Procs
  BY Names
<1>1. /\ log' = log /\ tick' = tick /\ snapAt' = snapAt /\ reg' = reg /\ prev' = prev /\ cur' = cur
      /\ db' = db /\ data' = data /\ twice' = twice /\ launching' = launching
      /\ work' = work /\ big' = big /\ held' = held /\ csnap' = csnap
  BY DEF Load, provider, queue, subscr, tuning
<1>2. /\ pc[t] = "load" /\ pc'[t] = "sync"
      /\ pc'[Main] = pc[Main] /\ mem'[Main] = mem[Main]
      /\ \A u \in Tables : u # t => pc'[u] = pc[u] /\ mem'[u] = mem[u]
  BY <1>0, LoadEffect
<1>3. TableOK(t)'
  <2>0. TableOK(t)
    BY DEF Whole
  <2> DEFINE r == mem[t][t]
             n == mem'[t][t]
             d == db[t]
  <2>1. ASSUME NEW u \in Tables
        PROVE  /\ mem'[t][u].state = db[u].state /\ ~mem'[t][u].changed
               /\ mem'[t][u].gc = NoTick
               /\ db[u].state = "absent" => mem'[t][u] = NewTableState
               /\ db[u].state # "absent" => /\ mem'[t][u].tick = db[u].tick
                                            /\ mem'[t][u].snap = db[u].snap
                                            /\ mem'[t][u].okc = mem[t][u].okc
                                            /\ mem'[t][u].last = mem[t][u].last
    <3>0. db[u] \in Row /\ mem[t][u] \in Object
      BY <1>0 DEF Whole, TypeOK
    <3>1. mem'[t][u] = LoadedState(mem[t][u], db[u])
      BY <1>0, LoadEffect
    <3>2. mem[t][u].gc = NoTick /\ NewTableState.gc = NoTick
      BY <2>0 DEF TableOK, CopyOK, NewTableState
    <3> QED
      BY <3>0, <3>1, <3>2, LoadedFields
  <2>2. NewTableState.okc = 0
    BY DEF NewTableState
  <2>3. PlaceOK(t)' /\ RowOK(t)'
    BY <2>0, <1>1, <1>2 DEF TableOK, PlaceOK, RowOK, NextEnds, CopyLabels
  <2>4. MainOK(t)'
    <3>1. n.state = d.state
      BY <2>1
    <3> QED
      BY <3>1, <2>0, <1>1, <1>2 DEF TableOK, MainOK, MainIn, SameRow
  <2>5. CopyOK(t)'
    <3>1. /\ d.state # "missing"
          /\ d.state = "in-copy" => d.snap = NoSnap
          /\ d.state \in Copying => \A u \in Tables \ {t} : db[u].state \notin Copying
      BY <2>0, <1>2 DEF Whole, InvOne, TableOK, RowOK
    <3>2. /\ ~n.changed /\ n.state = d.state
          /\ d.state # "absent" => n.tick = d.tick /\ n.snap = d.snap
      BY <2>1
    <3>3. \A u \in Tables : /\ mem'[t][u].state = db[u].state /\ ~mem'[t][u].changed
                            /\ mem'[t][u].gc = NoTick
      BY <2>1
    <3>4. d.state = "do-sync" => cur[t] <= d.tick
      BY <2>0 DEF TableOK, RowOK
    <3> QED
      BY <3>1, <3>2, <3>3, <3>4, <1>1, <1>2 DEF CopyOK, SameRow
  <2>6. CountOK(t, t)'
    <3>1. RowOK(t) /\ CountOK(t, t) /\ d.state \in States
      BY <2>0, Rows DEF Whole, TableOK
    <3>2. /\ d.state = "absent" => n = NewTableState
          /\ d.state # "absent" => n.snap = d.snap /\ n.okc = r.okc /\ n.last = r.last
      BY <2>1
    <3>3. r.last \in 1..cur[t] => NoSnap <= snapAt[r.last]
      <4>1. snapAt \in [0..MaxTick -> 0..MaxCommit] /\ cur[t] \in 0..MaxTick /\ MaxTick \in Nat
            /\ MaxCommit \in Nat
        BY <1>0, BoundAssumption DEF Whole, TypeOK
      <4>2. r.last \in 1..cur[t] => snapAt[r.last] \in 0..MaxCommit
        BY <4>1
      <4> QED
        BY <4>1, <4>2 DEF NoSnap
    <3> QED
      BY <3>1, <3>2, <3>3, <2>2, <1>1 DEF RowOK, CountOK, States, Copying, CopyOwns
  <2>7. CountOK(Main, t)' /\ GcOK(t)'
    BY <2>0, <1>1, <1>2 DEF TableOK, CountOK, GcOK
  <2>8. DataOK(t)'
    <3>1. DataOK(t) /\ n.state = d.state /\ (d.state # "absent" => n.snap = d.snap)
      BY <2>0, <2>1 DEF TableOK
    <3> QED
      BY <3>1, <1>1, <1>2 DEF DataOK, Ev, MainIn, CopyOwns
  <2> QED
    BY <2>0, <2>3, <2>4, <2>5, <2>6, <2>7, <2>8, <1>1 DEF TableOK
<1>4. ASSUME NEW u \in Tables, u # t
      PROVE  TableOK(u)'
  BY <1>0, <1>1, <1>2, <1>4, Frame DEF Whole
<1> QED
  BY <1>0, <1>3, <1>4, LoadEffect DEF Whole

-----------------------------------------------------------------------------
\* change_table_state

\* Clearing the flag of an object without changes changes nothing.
LEMMA CleanIsSame == ASSUME NEW r \in Object, ~r.changed
                     PROVE  [r EXCEPT !.changed = FALSE] = r
<1>1. r.changed = FALSE
  BY DEF Object
<1> QED
  BY <1>1 DEF Object

\* One object is changed and saved: only that object and its row change, the row
\* unless it was removed.
SavedAs(p, ts) == db' = Saved(ts) /\ mem' = [mem EXCEPT ![p] = Clean(ts)]
SaveWith(p, t, c) == SavedAs(p, [mem[p] EXCEPT ![t] = c])

\* save_table_state with one changed object writes its row if it is there, and no other.
LEMMA SaveOne ==
    ASSUME TypeOK, NEW p \in Procs, NEW t \in Tables, NEW c \in Object, c.changed = TRUE,
           \A u \in Tables : ~mem[p][u].changed,
           SaveWith(p, t, c)
    PROVE  /\ \A q \in Procs : q # p => mem'[q] = mem[q]
           /\ \A u \in Tables : u # t => mem'[p][u] = mem[p][u] /\ db'[u] = db[u]
           /\ mem'[p][t].state = c.state /\ mem'[p][t].tick = c.tick /\ mem'[p][t].snap = c.snap
           /\ mem'[p][t].okc = c.okc /\ mem'[p][t].last = c.last /\ mem'[p][t].gc = c.gc
           /\ mem'[p][t].changed = FALSE
           /\ db[t].state = "absent" => db'[t] = db[t]
           /\ db[t].state # "absent" => /\ db'[t].state = c.state /\ db'[t].tick = c.tick
                                        /\ db'[t].snap = c.snap
<1> DEFINE ts == [mem[p] EXCEPT ![t] = c]
<1>0. \A q \in Procs, u \in Tables : mem[q][u] \in Object
  BY DEF TypeOK
<1>1. ts[t] = c /\ \A u \in Tables : u # t => ts[u] = mem[p][u]
  BY DEF TypeOK
<1>2. db' = Saved(ts) /\ mem' = [mem EXCEPT ![p] = Clean(ts)]
  BY DEF SaveWith, SavedAs
<1> HIDE DEF ts
<1>3. /\ \A u \in Tables : mem'[p][u] = [ts[u] EXCEPT !.changed = FALSE]
      /\ \A q \in Procs : q # p => mem'[q] = mem[q]
  BY <1>2 DEF Clean, TypeOK
<1>4. ASSUME NEW u \in Tables, u # t
      PROVE  mem'[p][u] = mem[p][u] /\ db'[u] = db[u]
  <2>1. ts[u] = mem[p][u] /\ mem[p][u] \in Object /\ ~mem[p][u].changed
    BY <1>0, <1>1, <1>4
  <2>2. mem'[p][u] = mem[p][u]
    BY <1>3, <2>1, CleanIsSame
  <2>3. db'[u] = db[u]
    BY <1>2, <2>1 DEF Saved
  <2> QED
    BY <2>2, <2>3
<1>5. /\ mem'[p][t].state = c.state /\ mem'[p][t].tick = c.tick /\ mem'[p][t].snap = c.snap
      /\ mem'[p][t].okc = c.okc /\ mem'[p][t].last = c.last /\ mem'[p][t].gc = c.gc
      /\ mem'[p][t].changed = FALSE
  <2>1. mem'[p][t] = [c EXCEPT !.changed = FALSE]
    BY <1>1, <1>3
  <2> QED
    BY <2>1 DEF Object
<1>6. /\ db[t].state = "absent" => db'[t] = db[t]
      /\ db[t].state # "absent" => db'[t] = [state |-> c.state, tick |-> c.tick, snap |-> c.snap]
  BY <1>1, <1>2 DEF Saved
<1> QED
  BY <1>3, <1>4, <1>5, <1>6

\* The same for change_state and the save that follows it.
LEMMA ChangeEffect ==
    ASSUME TypeOK, NEW p \in Procs, NEW t \in Tables, NEW s \in States, NEW k \in 0..MaxTick,
           ChangeTableState(p, t, s, k), mem[p][t].state # s,
           \A u \in Tables : ~mem[p][u].changed
    PROVE  /\ \A q \in Procs : q # p => mem'[q] = mem[q]
           /\ \A u \in Tables : u # t => mem'[p][u] = mem[p][u] /\ db'[u] = db[u]
           /\ mem'[p][t].state = s /\ mem'[p][t].tick = k /\ ~mem'[p][t].changed
           /\ mem'[p][t].snap = mem[p][t].snap /\ mem'[p][t].okc = mem[p][t].okc
           /\ mem'[p][t].last = mem[p][t].last /\ mem'[p][t].gc = mem[p][t].gc
           /\ db[t].state = "absent" => db'[t] = db[t]
           /\ db[t].state # "absent" => /\ db'[t].state = s /\ db'[t].tick = k
                                        /\ db'[t].snap = mem[p][t].snap
<1> DEFINE c == [mem[p][t] EXCEPT !.state = s, !.tick = k, !.changed = TRUE]
<1>1. /\ c.state = s /\ c.tick = k /\ c.changed = TRUE /\ c.snap = mem[p][t].snap
      /\ c.okc = mem[p][t].okc /\ c.last = mem[p][t].last /\ c.gc = mem[p][t].gc
      /\ c \in Object
  <2>1. mem[p][t] \in Object
    BY DEF TypeOK
  <2> QED
    BY <2>1 DEF Object
<1>2. ChangeState(mem[p][t], s, k) = c
  BY DEF ChangeState
<1>3. SaveWith(p, t, c)
  BY <1>2 DEF ChangeTableState, SaveWith, SavedAs
<1> HIDE DEF c
<1>4. /\ \A q \in Procs : q # p => mem'[q] = mem[q]
      /\ \A u \in Tables : u # t => mem'[p][u] = mem[p][u] /\ db'[u] = db[u]
      /\ mem'[p][t].state = c.state /\ mem'[p][t].tick = c.tick /\ mem'[p][t].snap = c.snap
      /\ mem'[p][t].okc = c.okc /\ mem'[p][t].last = c.last /\ mem'[p][t].gc = c.gc
      /\ mem'[p][t].changed = FALSE
      /\ db[t].state = "absent" => db'[t] = db[t]
      /\ db[t].state # "absent" => /\ db'[t].state = c.state /\ db'[t].tick = c.tick
                                   /\ db'[t].snap = c.snap
  BY <1>1, <1>3, SaveOne, ZenonT(30)
<1> QED
  BY <1>1, <1>4

\* Main writes do-sync with the end of its batch (sync_from_main_thread).
LEMMA DoSyncStep ==
    ASSUME Simple, Whole, NEW t \in Tables, MainDoSync(t), TypeOK'
    PROVE  Whole'
<1>0. Main \in Procs /\ t \in Procs /\ t # Main /\ \A u \in Tables : u # Main /\ u \in Procs
  BY Names
<1> DEFINE r == mem[Main][t]
           d == db[t]
<1>1. /\ log' = log /\ tick' = tick /\ snapAt' = snapAt /\ reg' = reg /\ prev' = prev /\ cur' = cur
      /\ data' = data /\ twice' = twice /\ dsync' = dsync /\ pc' = pc
      /\ launching' = launching /\ big' = big /\ work' = work /\ csnap' = csnap
      /\ held' = held
  BY DEF MainDoSync, provider, queue, tuning, sync
<1>2. pc[Main] = "dosync" /\ r.state = "wanna-sync" /\ r.tick <= cur[Main]
  <2>1. r.tick \in Int /\ cur[Main] \in Int
    BY <1>0, Rows, Numbers DEF Whole
  <2> QED
    BY <2>1 DEF MainDoSync, Waiting
<1>3. MainIn /\ \A u \in Tables : TableOK(u) /\ ~mem[Main][u].changed
  BY <1>2 DEF Whole, TableOK, MainOK, MainIn
<1>4. /\ \A q \in Procs : q # Main => mem'[q] = mem[q]
      /\ \A u \in Tables : u # t => mem'[Main][u] = mem[Main][u] /\ db'[u] = db[u]
      /\ mem'[Main][t].state = "do-sync" /\ mem'[Main][t].tick = cur[Main]
      /\ ~mem'[Main][t].changed
      /\ mem'[Main][t].snap = r.snap /\ mem'[Main][t].okc = r.okc
      /\ mem'[Main][t].last = r.last /\ mem'[Main][t].gc = r.gc
      /\ d.state = "absent" => db'[t] = d
      /\ d.state # "absent" => /\ db'[t].state = "do-sync" /\ db'[t].tick = cur[Main]
                               /\ db'[t].snap = r.snap
  <2>1. ChangeTableState(Main, t, "do-sync", cur[Main]) /\ TypeOK
    BY DEF MainDoSync, Whole
  <2>2. cur[Main] \in 0..MaxTick /\ "do-sync" \in States
    BY <1>0, <2>1, Numbers DEF States, Copying
  <2> QED
    BY <1>0, <1>2, <1>3, <2>1, <2>2, ChangeEffect
<1>5. d.state # "absent" => d.state = "wanna-sync" /\ d.tick = r.tick /\ d.snap = r.snap
  BY <1>2, <1>3 DEF TableOK, MainOK, SameRow
<1>6. InvQueue'
  <2>1. DsyncInv'
    BY <1>1, <1>2, <1>4, <1>5, DsyncKept DEF Whole, InvQueue
  <2> QED
    BY <2>1, <1>1 DEF Whole, InvQueue, TicksOK, BatchOK
<1>7. MemOK'
  <2>1. ASSUME NEW q \in Procs, NEW u \in Tables
        PROVE  /\ mem'[q][u].state = "absent" => mem'[q][u] = NewTableState
               /\ mem'[q][u].okc >= 1 => q \in {u, Main}
               /\ mem'[q][u].snap <= Len(log)
    BY <1>4 DEF Whole, MemOK
  <2> QED
    BY <2>1, <1>1, <1>2 DEF Whole, MemOK
<1>8. InvOne'
  <2>1. \A u \in Tables : db'[u].state \in Copying => db[u].state \in Copying
    BY <1>4, <1>5 DEF Copying
  <2>2. \A u \in Tables : mem'[Main][u].state \in Copying => mem[Main][u].state \in Copying
    BY <1>2, <1>4 DEF Copying
  <2> QED
    BY <2>1, <2>2, <1>3 DEF Whole, InvOne
<1>9. TableOK(t)'
  <2>0. TableOK(t)
    BY <1>3
  <2>1. PlaceOK(t)'
    BY <2>0, <1>0, <1>1, <1>2, <1>4 DEF TableOK, PlaceOK
  <2>2. RowOK(t)'
    <3>1. RowOK(t)
      BY <2>0 DEF TableOK
    <3>2. CASE d.state = "absent"
      BY <3>1, <3>2, <1>1, <1>4 DEF RowOK, NextEnds
    <3>3. CASE d.state # "absent"
      <4>1. /\ prev[t] \in Nat /\ cur[t] \in Nat /\ prev[Main] \in Nat /\ cur[Main] \in Nat
            /\ cur[Main] = prev[Main] + 1 /\ cur[Main] <= tick /\ tick \in Nat
        <5>1. BatchOK(Main) /\ DsyncInv /\ ~big[Main] /\ dsync < cur[Main] /\ TypeOK
          BY <1>0 DEF Whole, InvQueue, MainDoSync, DsyncOk
        <5>2. cur[Main] > prev[Main] /\ cur[Main] <= prev[Main] + 1 /\ cur[Main] <= tick
          BY <1>2, <5>1 DEF BatchOK, DsyncInv
        <5> QED
          BY <1>0, <5>1, <5>2, Numbers
      <4>2. /\ r.tick = cur[t] /\ cur[t] > prev[t] /\ r.snap <= snapAt[cur[t]]
            /\ BatchCollect => pc[t] \in {"load", "sync"}
        BY <3>1, <3>3, <1>5 DEF RowOK
      <4>3. snapAt[cur[t]] <= snapAt[cur[Main]]
        BY <4>1, <4>2, <1>2 DEF Whole, InvQueue, TicksOK
      <4>4. /\ snapAt[cur[t]] \in Int /\ snapAt[cur[Main]] \in Int /\ r.snap \in Int
        BY <1>0, Rows, Numbers DEF Whole
      <4>5. r.snap <= snapAt[cur[Main]] /\ cur[t] <= cur[Main] /\ prev[t] <= prev[Main]
        BY <4>1, <4>2, <4>3, <4>4, <1>2
      <4>6. CASE BatchCollect
        <5>1. DsyncInv /\ ~big[Main] /\ dsync < cur[Main] /\ dsync \in 0..MaxTick
          BY DEF Whole, InvQueue, TypeOK, MainDoSync, DsyncOk
        <5>2. cur[t] <= dsync
          BY <5>1, <4>2, <4>6, <3>3, <1>5 DEF DsyncInv
        <5>3. cur[t] # cur[Main] /\ cur[t] <= prev[Main]
          BY <5>1, <5>2, <4>1
        <5> QED
          BY <5>3, <4>1, <4>2, <4>5, <3>1, <3>3, <1>1, <1>4, <1>5 DEF RowOK, CopyOwns
      <4>7. CASE ~BatchCollect
        <5>1. cur[t] <= prev[t] + 1
          BY <4>7, <1>0 DEF Whole, InvQueue, BatchOK
        <5>2. cur[t] = cur[Main] => prev[t] = prev[Main]
          BY <5>1, <4>1, <4>2
        <5> QED
          BY <5>2, <4>1, <4>5, <4>7, <3>1, <3>3, <1>1, <1>4, <1>5 DEF RowOK, CopyOwns
      <4> QED
        BY <4>6, <4>7
    <3> QED
      BY <3>2, <3>3
  <2>3. MainOK(t)'
    BY <2>0, <1>0, <1>1, <1>2, <1>4, <1>5 DEF TableOK, MainOK, MainIn, SameRow
  <2>4. CopyOK(t)'
    <3>1. CopyOK(t) /\ mem'[t] = mem[t]
      BY <2>0, <1>0, <1>4 DEF TableOK
    <3> QED
      BY <3>1, <1>1, <1>4, <1>5 DEF CopyOK, CopyIn, SameRow
  <2>5. CountOK(t, t)' /\ CountOK(Main, t)' /\ GcOK(t)'
    <3>1. CountOK(t, t) /\ CountOK(Main, t) /\ GcOK(t) /\ mem'[t] = mem[t]
      BY <2>0, <1>0, <1>4 DEF TableOK
    <3> QED
      BY <3>1, <1>1, <1>4, <1>5 DEF CountOK, GcOK, CopyOwns
  <2>6. DataOK(t)'
    <3>1. DataOK(t) /\ mem'[t] = mem[t]
      BY <2>0, <1>0, <1>4 DEF TableOK
    <3> QED
      BY <3>1, <1>1, <1>4, <1>5 DEF DataOK, Ev, CopyOwns
  <2> QED
    BY <2>0, <2>1, <2>2, <2>3, <2>4, <2>5, <2>6, <1>1 DEF TableOK
<1>10. ASSUME NEW u \in Tables, u # t
       PROVE  TableOK(u)'
  BY <1>0, <1>1, <1>3, <1>4, <1>10, Frame
<1> QED
  BY <1>6, <1>7, <1>8, <1>9, <1>10 DEF Whole

\* Main writes in-copy when a slot is free.
LEMMA StartCopyStep ==
    ASSUME Simple, Whole, NEW t \in Tables, MainStartCopy(t), TypeOK'
    PROVE  Whole'
<1>0. Main \in Procs /\ t \in Procs /\ t # Main /\ \A u \in Tables : u # Main /\ u \in Procs
  BY Names
<1> DEFINE r == mem[Main][t]
           d == db[t]
<1>1. /\ log' = log /\ tick' = tick /\ snapAt' = snapAt /\ reg' = reg /\ prev' = prev /\ cur' = cur
      /\ data' = data /\ twice' = twice /\ dsync' = dsync
      /\ launching' = {t} /\ big' = big /\ work' = work /\ csnap' = csnap
      /\ held' = held
  BY DEF MainStartCopy, provider, queue, tuning
<1>2. /\ pc[Main] = "start" /\ r.state = "missing" /\ pc'[Main] = "launch"
      /\ \A q \in Procs : q # Main => pc'[q] = pc[q]
  BY <1>0 DEF MainStartCopy, Goto, Whole, TypeOK
<1>3. MainIn /\ MainIn' /\ \A u \in Tables : TableOK(u) /\ ~mem[Main][u].changed
  BY <1>2 DEF Whole, TableOK, MainOK, MainIn
<1>4. /\ \A q \in Procs : q # Main => mem'[q] = mem[q]
      /\ \A u \in Tables : u # t => mem'[Main][u] = mem[Main][u] /\ db'[u] = db[u]
      /\ mem'[Main][t].state = "in-copy" /\ ~mem'[Main][t].changed
      /\ mem'[Main][t].snap = r.snap /\ mem'[Main][t].okc = r.okc
      /\ mem'[Main][t].last = r.last /\ mem'[Main][t].gc = r.gc
      /\ d.state = "absent" => db'[t] = d
      /\ d.state # "absent" => db'[t].state = "in-copy" /\ db'[t].snap = r.snap
  <2>1. ChangeTableState(Main, t, "in-copy", NoTick) /\ TypeOK
    BY DEF MainStartCopy, Whole
  <2>2. NoTick \in 0..MaxTick /\ "in-copy" \in States
    BY BoundAssumption DEF States, Copying, NoTick
  <2> QED
    BY <1>0, <1>2, <1>3, <2>1, <2>2, ChangeEffect
<1>5. /\ d.state # "absent" => d.state = "missing" /\ d.snap = r.snap /\ d.snap = NoSnap
      /\ pc[t] = "none"
  BY <1>2, <1>3 DEF TableOK, MainOK, SameRow, RowOK
<1>7. MemOK'
  <2>1. ASSUME NEW q \in Procs, NEW u \in Tables
        PROVE  /\ mem'[q][u].state = "absent" => mem'[q][u] = NewTableState
               /\ mem'[q][u].okc >= 1 => q \in {u, Main}
               /\ mem'[q][u].snap <= Len(log)
    BY <1>4 DEF Whole, MemOK
  <2> QED
    BY <2>1, <1>1, <1>2 DEF Whole, MemOK, MainLabels
<1>6. \A u \in Tables : mem[Main][u].state \notin Copying
  <2> DEFINE S == {u \in Tables : mem[Main][u].state \in Copying}
  <2>1. S = {}
    <3>1. IsFiniteSet(S) /\ ParallelCopies - Cardinality(S) > 0 /\ ParallelCopies = 1
      BY TablesAssumption, FS_Subset DEF MainStartCopy, Possible, Simple
    <3>2. Cardinality(S) \in Nat
      BY <3>1, FS_CardinalityType
    <3>3. Cardinality(S) = 0
      BY <3>1, <3>2
    <3> QED
      BY <3>1, <3>3, FS_EmptySet
  <2> QED
    BY <2>1
<1>8. InvOne'
  <2>2. ASSUME NEW u \in Tables
        PROVE  db[u].state \notin Copying
    <3>1. MainOK(u) /\ mem[Main][u].state \in States /\ mem[Main][u].state \notin Copying
      BY <1>0, <1>3, <1>6, Rows DEF Whole, TableOK
    <3> QED
      BY <3>1, <1>3 DEF MainOK, SameRow, States, Copying
  <2>3. \A u \in Tables : db'[u].state \in Copying => u = t
    BY <1>4, <2>2
  <2>4. \A u \in Tables : mem'[Main][u].state \in Copying => u = t
    BY <1>4, <1>6
  <2> QED
    BY <2>3, <2>4 DEF InvOne
<1>11. InvQueue'
  <2>1. dsync = 0
    BY <1>2, <1>6 DEF Whole, InvQueue, DsyncInv, Copying
  <2>2. DsyncInv'
    BY <2>1, <1>0, <1>1 DEF Whole, InvQueue, DsyncInv
  <2> QED
    BY <2>2, <1>1, <1>2 DEF Whole, InvQueue, TicksOK, BatchOK
<1>9. TableOK(t)'
  <2>0. TableOK(t)
    BY <1>3
  <2>1. PlaceOK(t)'
    <3>1. mem'[t] = mem[t] /\ pc'[t] = pc[t] /\ PlaceOK(t)
      BY <2>0, <1>0, <1>2, <1>4 DEF TableOK
    <3> QED
      BY <3>1, <1>1, <1>2, <1>4, <1>5 DEF PlaceOK
  <2>2. RowOK(t)'
    <3>1. RowOK(t) /\ pc'[t] = pc[t]
      BY <2>0, <1>0, <1>2 DEF TableOK
    <3> QED
      BY <3>1, <1>1, <1>4, <1>5 DEF RowOK, CopyOwns, NextEnds
  <2>3. MainOK(t)'
    BY <2>0, <1>0, <1>1, <1>2, <1>4, <1>5 DEF TableOK, MainOK, MainIn, SameRow
  <2>4. CopyOK(t)'
    <3>1. CopyOK(t) /\ mem'[t] = mem[t] /\ pc'[t] = "none"
      BY <2>0, <1>0, <1>2, <1>4, <1>5 DEF TableOK
    <3> QED
      BY <3>1 DEF CopyOK, CopyIn
  <2>5. CountOK(t, t)' /\ CountOK(Main, t)' /\ GcOK(t)'
    <3>1. CountOK(t, t) /\ CountOK(Main, t) /\ GcOK(t) /\ mem'[t] = mem[t]
      BY <2>0, <1>0, <1>4 DEF TableOK
    <3>2. mem[t][t].okc = 0
      BY <2>0, <1>5 DEF TableOK, PlaceOK, NewTableState
    <3> QED
      BY <3>1, <3>2, <1>1, <1>4, <1>5 DEF CountOK, GcOK, CopyOwns
  <2>6. DataOK(t)'
    <3>1. DataOK(t) /\ mem'[t] = mem[t] /\ pc'[t] = "none"
      BY <2>0, <1>0, <1>2, <1>4, <1>5 DEF TableOK
    <3> QED
      BY <3>1, <1>1, <1>2, <1>4, <1>5 DEF DataOK, Ev, CopyOwns
  <2> QED
    BY <2>0, <2>1, <2>2, <2>3, <2>4, <2>5, <2>6, <1>1 DEF TableOK
<1>10. ASSUME NEW u \in Tables, u # t
       PROVE  TableOK(u)'
  BY <1>0, <1>1, <1>2, <1>3, <1>4, <1>10, FrameMain
<1> QED
  BY <1>7, <1>8, <1>9, <1>10, <1>11 DEF Whole

\* A copy process at the end of its batches writes wanna-sync.
LEMMA WantSyncStep ==
    ASSUME Simple, Whole, NEW t \in Tables, CopyWantSync(t), TypeOK'
    PROVE  Whole'
<1>0. Main \in Procs /\ t \in Procs /\ t # Main /\ \A u \in Tables : u # Main /\ u \in Procs
  BY Names
<1> DEFINE r == mem[t][t]
           d == db[t]
<1>1. /\ log' = log /\ tick' = tick /\ snapAt' = snapAt /\ reg' = reg /\ prev' = prev /\ cur' = cur
      /\ data' = data /\ twice' = twice /\ dsync' = dsync
      /\ launching' = launching /\ big' = big /\ work' = work /\ csnap' = csnap
      /\ held' = held
  BY DEF CopyWantSync, provider, queue, tuning, sync
<1>2. /\ pc[t] = "sync" /\ r.state = "catching-up" /\ ~work[t] /\ pc'[t] = "load"
      /\ \A q \in Procs : q # t => pc'[q] = pc[q]
  BY <1>0 DEF CopyWantSync, Goto, Whole, TypeOK
<1>3. TableOK(t) /\ \A u \in Tables : ~mem[t][u].changed
  BY <1>2 DEF Whole, TableOK, CopyOK, CopyIn
<1>4. /\ \A q \in Procs : q # t => mem'[q] = mem[q]
      /\ \A u \in Tables : u # t => mem'[t][u] = mem[t][u] /\ db'[u] = db[u]
      /\ mem'[t][t].state = "wanna-sync" /\ mem'[t][t].snap = r.snap
      /\ mem'[t][t].okc = r.okc /\ mem'[t][t].last = r.last /\ mem'[t][t].gc = r.gc
      /\ d.state = "absent" => db'[t] = d
      /\ d.state # "absent" => /\ db'[t].state = "wanna-sync" /\ db'[t].tick = cur[t]
                               /\ db'[t].snap = r.snap
  <2>1. ChangeTableState(t, t, "wanna-sync", cur[t]) /\ TypeOK
    BY DEF CopyWantSync, Whole
  <2>2. cur[t] \in 0..MaxTick /\ "wanna-sync" \in States
    BY <1>0, <2>1, Numbers DEF States, Copying
  <2> QED
    BY <1>0, <1>2, <1>3, <2>1, <2>2, ChangeEffect
<1>5. d.state # "absent" => d.state = "catching-up" /\ d.snap = r.snap
  BY <1>2, <1>3 DEF TableOK, CopyOK, CopyIn, SameRow
<1>6. InvQueue'
  <2>1. DsyncInv'
    BY <1>0, <1>1, <1>2, <1>4, <1>5, DsyncKept DEF Whole, InvQueue
  <2> QED
    BY <2>1, <1>0, <1>1, <1>2 DEF Whole, InvQueue, TicksOK, BatchOK
<1>7. MemOK'
  <2>1. ASSUME NEW q \in Procs, NEW u \in Tables
        PROVE  /\ mem'[q][u].state = "absent" => mem'[q][u] = NewTableState
               /\ mem'[q][u].okc >= 1 => q \in {u, Main}
               /\ mem'[q][u].snap <= Len(log)
    BY <1>4 DEF Whole, MemOK
  <2> QED
    BY <2>1, <1>0, <1>1, <1>2, <1>4 DEF Whole, MemOK
<1>8. InvOne'
  <2>1. \A u \in Tables : db'[u].state \in Copying => db[u].state \in Copying
    BY <1>4, <1>5 DEF Copying
  <2> QED
    BY <2>1, <1>0, <1>2, <1>4 DEF Whole, InvOne, MainIn
<1>9. TableOK(t)'
  <2>1. PlaceOK(t)'
    BY <1>0, <1>1, <1>2, <1>3, <1>4 DEF TableOK, PlaceOK, CopyLabels
  <2>2. RowOK(t)'
    <3>1. RowOK(t)
      BY <1>3 DEF TableOK
    <3>2. CASE d.state = "absent"
      BY <3>1, <3>2, <1>1, <1>2, <1>4 DEF RowOK, NextEnds
    <3>3. CASE d.state # "absent"
      <4>1. cur[t] > prev[t]
        BY <1>0, <1>2, Numbers DEF Whole, InvQueue, BatchOK
      <4>2. d.snap <= snapAt[cur[t]]
        BY <4>1, <3>1, <3>3, <1>2, <1>5 DEF RowOK
      <4> QED
        BY <4>1, <4>2, <3>1, <3>3, <1>1, <1>2, <1>4, <1>5 DEF RowOK, CopyOwns
    <3> QED
      BY <3>2, <3>3
  <2>3. MainOK(t)'
    <3>1. MainOK(t) /\ mem'[Main] = mem[Main] /\ pc'[Main] = pc[Main]
      BY <1>0, <1>2, <1>3, <1>4 DEF TableOK
    <3> QED
      BY <3>1, <1>1, <1>2, <1>4, <1>5 DEF MainOK, MainIn, SameRow
  <2>4. CopyOK(t)'
    <3>1. \A u \in Tables : mem'[t][u].gc = NoTick
      BY <1>3, <1>4 DEF TableOK, CopyOK
    <3> QED
      BY <3>1, <1>2 DEF CopyOK, CopyIn
  <2>5. CountOK(t, t)' /\ CountOK(Main, t)' /\ GcOK(t)'
    <3>1. CountOK(t, t) /\ CountOK(Main, t) /\ GcOK(t) /\ mem'[Main] = mem[Main]
      BY <1>0, <1>3, <1>4 DEF TableOK
    <3> QED
      BY <3>1, <1>1, <1>4, <1>5 DEF CountOK, GcOK, CopyOwns
  <2>6. DataOK(t)'
    <3>1. DataOK(t) /\ mem'[Main] = mem[Main] /\ pc'[Main] = pc[Main]
      BY <1>0, <1>2, <1>3, <1>4 DEF TableOK
    <3> QED
      BY <3>1, <1>1, <1>2, <1>4, <1>5 DEF DataOK, Ev, MainIn, CopyOwns
  <2> QED
    BY <2>1, <2>2, <2>3, <2>4, <2>5, <2>6, <1>1, <1>3 DEF TableOK
<1>10. ASSUME NEW u \in Tables, u # t
       PROVE  TableOK(u)'
  BY <1>0, <1>1, <1>2, <1>4, <1>10, Frame DEF Whole
<1> QED
  BY <1>6, <1>7, <1>8, <1>9, <1>10 DEF Whole

\* The batch of the copy process is main's open batch when it gives the table
\* back: what it has applied is what main has applied.
LEMMA Aligned ==
    ASSUME Whole, NEW t \in Tables, pc[t] = "sync", mem[t][t].state = "do-sync",
           AtSyncTick(t), db[t].state # "absent"
    PROVE  /\ db[t].state = "do-sync" /\ db[t].snap = mem[t][t].snap
           /\ prev[t] = prev[Main] /\ cur[t] = cur[Main]
<1>1. TableOK(t) /\ t \in Procs /\ Main \in Procs
  BY Names DEF Whole
<1>2. db[t].state = "do-sync" /\ db[t].tick = mem[t][t].tick /\ db[t].snap = mem[t][t].snap
  BY <1>1 DEF TableOK, CopyOK, CopyIn, SameRow
<1>3. db[t].tick = cur[Main] /\ (cur[t] = cur[Main] => prev[t] = prev[Main])
  BY <1>1, <1>2 DEF TableOK, RowOK
<1> QED
  BY <1>2, <1>3 DEF AtSyncTick

\* A copy process at the sync tick writes ok, and main takes the table.
LEMMA HandOverStep ==
    ASSUME Simple, Whole, NEW t \in Tables, CopyHandOver(t), TypeOK'
    PROVE  Whole'
<1>0. Main \in Procs /\ t \in Procs /\ t # Main /\ \A u \in Tables : u # Main /\ u \in Procs
  BY Names
<1> DEFINE r == mem[t][t]
           d == db[t]
<1>1. /\ log' = log /\ tick' = tick /\ snapAt' = snapAt /\ reg' = reg /\ prev' = prev /\ cur' = cur
      /\ data' = data /\ twice' = twice /\ dsync' = dsync
      /\ launching' = launching /\ work' = work /\ held' = held /\ csnap' = csnap
  BY DEF CopyHandOver, provider, queue, sync
<1>2. /\ pc[t] = "sync" /\ r.state = "do-sync" /\ AtSyncTick(t) /\ pc'[t] = "exit"
      /\ \A q \in Procs : q # t => pc'[q] = pc[q]
      /\ \A q \in Procs : (big'[q] => big[q]) /\ (q # t => big'[q] = big[q])
  BY <1>0 DEF CopyHandOver, SmallBatches, Goto, Whole, TypeOK
<1>3. TableOK(t) /\ \A u \in Tables : ~mem[t][u].changed
  BY <1>2 DEF Whole, TableOK, CopyOK, CopyIn
<1>4. /\ \A q \in Procs : q # t => mem'[q] = mem[q]
      /\ \A u \in Tables : u # t => mem'[t][u] = mem[t][u] /\ db'[u] = db[u]
      /\ mem'[t][t].state = "ok" /\ mem'[t][t].snap = r.snap
      /\ mem'[t][t].okc = r.okc /\ mem'[t][t].last = r.last /\ mem'[t][t].gc = r.gc
      /\ d.state = "absent" => db'[t] = d
      /\ d.state # "absent" => db'[t].state = "ok" /\ db'[t].snap = r.snap
  <2>1. ChangeTableState(t, t, "ok", NoTick) /\ TypeOK
    BY DEF CopyHandOver, Whole
  <2>2. NoTick \in 0..MaxTick /\ "ok" \in States
    BY BoundAssumption DEF States, Copying, NoTick
  <2> QED
    BY <1>0, <1>2, <1>3, <2>1, <2>2, ChangeEffect
<1>5. d.state # "absent" => d.state = "do-sync" /\ d.snap = r.snap
                            /\ prev[t] = prev[Main] /\ cur[t] = cur[Main]
  BY <1>2, Aligned
<1>6. InvQueue'
  <2>1. DsyncInv'
    BY <1>0, <1>1, <1>2, <1>4, <1>5, DsyncKept DEF Whole, InvQueue
  <2> QED
    BY <2>1, <1>0, <1>1, <1>2 DEF Whole, InvQueue, TicksOK, BatchOK
<1>7. MemOK'
  <2>1. ASSUME NEW q \in Procs, NEW u \in Tables
        PROVE  /\ mem'[q][u].state = "absent" => mem'[q][u] = NewTableState
               /\ mem'[q][u].okc >= 1 => q \in {u, Main}
               /\ mem'[q][u].snap <= Len(log)
    BY <1>4 DEF Whole, MemOK
  <2> QED
    BY <2>1, <1>0, <1>1, <1>2, <1>4 DEF Whole, MemOK
<1>8. InvOne'
  <2>1. \A u \in Tables : db'[u].state \in Copying => db[u].state \in Copying
    BY <1>4, <1>5 DEF Copying
  <2> QED
    BY <2>1, <1>0, <1>2, <1>4 DEF Whole, InvOne, MainIn
<1>9. TableOK(t)'
  <2>1. PlaceOK(t)'
    BY <1>0, <1>1, <1>2, <1>3, <1>4 DEF TableOK, PlaceOK, CopyLabels
  <2>2. RowOK(t)'
    <3>1. RowOK(t)
      BY <1>3 DEF TableOK
    <3> QED
      BY <3>1, <1>1, <1>2, <1>4, <1>5 DEF RowOK, CopyOwns
  <2>3. MainOK(t)'
    <3>1. MainOK(t) /\ mem'[Main] = mem[Main] /\ pc'[Main] = pc[Main]
          /\ mem[Main][t].state \in States
      BY <1>0, <1>2, <1>3, <1>4, Rows DEF TableOK, Whole
    <3> QED
      BY <3>1, <1>1, <1>2, <1>4, <1>5 DEF MainOK, MainIn, SameRow, States, Copying
  <2>4. CopyOK(t)'
    <3>1. \A u \in Tables : mem'[t][u].gc = NoTick
      BY <1>3, <1>4 DEF TableOK, CopyOK
    <3> QED
      BY <3>1, <1>2, <1>4 DEF CopyOK, CopyIn
  <2>5. CountOK(t, t)' /\ CountOK(Main, t)' /\ GcOK(t)'
    <3>1. CountOK(t, t) /\ CountOK(Main, t) /\ GcOK(t) /\ mem'[Main] = mem[Main]
      BY <1>0, <1>3, <1>4 DEF TableOK
    <3> QED
      BY <3>1, <1>1, <1>4, <1>5 DEF CountOK, GcOK, CopyOwns
  <2>6. DataOK(t)'
    <3>1. DataOK(t) /\ mem'[Main] = mem[Main] /\ pc'[Main] = pc[Main]
      BY <1>0, <1>2, <1>3, <1>4 DEF TableOK
    <3> QED
      BY <3>1, <1>1, <1>2, <1>4, <1>5 DEF DataOK, Ev, MainIn, CopyOwns
  <2> QED
    BY <2>1, <2>2, <2>3, <2>4, <2>5, <2>6, <1>1, <1>3 DEF TableOK
<1>10. ASSUME NEW u \in Tables, u # t
       PROVE  TableOK(u)'
  BY <1>0, <1>1, <1>2, <1>4, <1>10, Frame DEF Whole
<1> QED
  BY <1>6, <1>7, <1>8, <1>9, <1>10 DEF Whole

\* What the end of a copy writes, of the row and of the object.
LEMMA CopyLoadEffect ==
    ASSUME Whole, NEW t \in Tables, CopyLoad(t)
    PROVE  LET r == mem[t][t]  d == db[t]
           IN  /\ \A q \in Procs : q # t => mem'[q] = mem[q]
               /\ \A u \in Tables : u # t => mem'[t][u] = mem[t][u] /\ db'[u] = db[u]
               /\ mem'[t][t].state = "catching-up" /\ mem'[t][t].snap = csnap[t]
               /\ mem'[t][t].okc = 0 /\ mem'[t][t].gc = r.gc
               /\ d.state = "absent" => db'[t] = d
               /\ d.state # "absent" => db'[t].state = "catching-up" /\ db'[t].snap = csnap[t]
<1>0. Main \in Procs /\ t \in Procs /\ t # Main /\ \A u \in Tables : u # Main /\ u \in Procs
  BY Names
<1> DEFINE r == mem[t][t]
           d == db[t]
<1>1. pc[t] = "copying"
  BY DEF CopyLoad
<1>3. /\ TableOK(t) /\ r.state = "in-copy" /\ r.snap = NoSnap
      /\ \A u \in Tables : ~mem[t][u].changed
      /\ csnap[t] \in Nat
  BY <1>1, Numbers DEF Whole, TableOK, CopyOK, CopyIn
<1>4. /\ \A q \in Procs : q # t => mem'[q] = mem[q]
      /\ \A u \in Tables : u # t => mem'[t][u] = mem[t][u] /\ db'[u] = db[u]
      /\ mem'[t][t].state = "catching-up" /\ mem'[t][t].snap = csnap[t]
      /\ mem'[t][t].okc = 0 /\ mem'[t][t].gc = r.gc
      /\ d.state = "absent" => db'[t] = d
      /\ d.state # "absent" => db'[t].state = "catching-up" /\ db'[t].snap = csnap[t]
  <2> DEFINE a == [r EXCEPT !.state = "catching-up", !.tick = NoTick, !.changed = TRUE]
             c == CopiedState(t)
  <2>0. r \in Object /\ csnap[t] \in 0..MaxCommit /\ MaxCommit \in Nat
    BY <1>0, BoundAssumption DEF Whole, TypeOK
  <2>1. ChangeState(r, "catching-up", NoTick) = a
    BY <1>3 DEF ChangeState
  <2>2. a.snap # csnap[t] /\ a \in Object
    <3>1. a.snap = NoSnap /\ a \in Object
      <4>1. NoTick \in 0..MaxTick /\ "catching-up" \in States
        BY BoundAssumption DEF NoTick, States, Copying
      <4> QED
        BY <2>0, <1>3, <4>1 DEF Object
    <3> QED
      BY <3>1, <1>3 DEF NoSnap
  <2>3. c = [a EXCEPT !.snap = csnap[t], !.okc = 0, !.last = 0, !.changed = TRUE]
    BY <2>1, <2>2 DEF CopiedState, ChangeSnapshot
  <2>4. c \in Object
    BY <2>0, <2>1, <2>2, ChangedSnapshot DEF CopiedState
  <2>5. c.state = "catching-up" /\ c.snap = csnap[t] /\ c.okc = 0 /\ c.gc = r.gc /\ c.changed = TRUE
    <3>1. a.state = "catching-up" /\ a.gc = r.gc
      BY <2>0 DEF Object
    <3> HIDE DEF a
    <3> QED
      BY <2>2, <2>3, <3>1 DEF Object
  <2>6. SaveWith(t, t, c)
    BY DEF CopyLoad, SaveWith, SavedAs
  <2> HIDE DEF c
  <2>7. /\ \A q \in Procs : q # t => mem'[q] = mem[q]
        /\ \A u \in Tables : u # t => mem'[t][u] = mem[t][u] /\ db'[u] = db[u]
        /\ mem'[t][t].state = c.state /\ mem'[t][t].snap = c.snap
        /\ mem'[t][t].okc = c.okc /\ mem'[t][t].gc = c.gc
        /\ db[t].state = "absent" => db'[t] = db[t]
        /\ db[t].state # "absent" => db'[t].state = c.state /\ db'[t].snap = c.snap
    <3>1. TypeOK /\ t \in Procs /\ \A u \in Tables : ~mem[t][u].changed
      BY <1>0, <1>3 DEF Whole
    <3>2. c.changed = TRUE
      BY <2>5
    <3>3. ASSUME NEW o \in Object, o.changed = TRUE, SaveWith(t, t, o)
          PROVE  /\ \A q \in Procs : q # t => mem'[q] = mem[q]
                 /\ \A u \in Tables : u # t => mem'[t][u] = mem[t][u] /\ db'[u] = db[u]
                 /\ mem'[t][t].state = o.state /\ mem'[t][t].tick = o.tick /\ mem'[t][t].snap = o.snap
                 /\ mem'[t][t].okc = o.okc /\ mem'[t][t].last = o.last /\ mem'[t][t].gc = o.gc
                 /\ mem'[t][t].changed = FALSE
                 /\ db[t].state = "absent" => db'[t] = db[t]
                 /\ db[t].state # "absent" => /\ db'[t].state = o.state /\ db'[t].tick = o.tick
                                              /\ db'[t].snap = o.snap
      BY <3>1, <3>3, SaveOne, ZenonT(30)
    <3> QED
      BY <2>4, <2>6, <3>2, <3>3
  <2> QED
    BY <2>5, <2>7
<1> QED
  BY <1>4

\* do_copy: the table has what the snapshot of the COPY sees, which is more than
\* the batches that the copy process has finished.
LEMMA CopyLoadStep ==
    ASSUME Simple, Whole, NEW t \in Tables, CopyLoad(t), TypeOK'
    PROVE  Whole'
<1>0. Main \in Procs /\ t \in Procs /\ t # Main /\ \A u \in Tables : u # Main /\ u \in Procs
  BY Names
<1> DEFINE r == mem[t][t]
           d == db[t]
<1>1. /\ log' = log /\ tick' = tick /\ snapAt' = snapAt /\ reg' = reg /\ prev' = prev /\ cur' = cur
      /\ dsync' = dsync /\ launching' = launching /\ csnap' = csnap /\ big' = big
      /\ held' = held
      /\ pc[t] = "copying"
  BY DEF CopyLoad, provider, queue, sync
<1>2. /\ pc'[t] = "load" /\ work'[t] /\ data'[t] = Ev(t, csnap[t]) /\ twice'[t] = {}
      /\ \A q \in Procs : q # t => pc'[q] = pc[q] /\ work'[q] = work[q]
      /\ \A u \in Tables : u # t => data'[u] = data[u] /\ twice'[u] = twice[u]
  BY <1>0 DEF CopyLoad, Truncated, Goto, Whole, TypeOK
<1>3. /\ TableOK(t) /\ r.state = "in-copy" /\ r.snap = NoSnap
      /\ \A u \in Tables : ~mem[t][u].changed
      /\ csnap[t] \in Nat
  BY <1>1, Numbers DEF Whole, TableOK, CopyOK, CopyIn
<1>4. /\ \A q \in Procs : q # t => mem'[q] = mem[q]
      /\ \A u \in Tables : u # t => mem'[t][u] = mem[t][u] /\ db'[u] = db[u]
      /\ mem'[t][t].state = "catching-up" /\ mem'[t][t].snap = csnap[t]
      /\ mem'[t][t].okc = 0 /\ mem'[t][t].gc = r.gc
      /\ d.state = "absent" => db'[t] = d
      /\ d.state # "absent" => db'[t].state = "catching-up" /\ db'[t].snap = csnap[t]
  BY CopyLoadEffect
<1>5. d.state # "absent" => d.state = "in-copy"
  BY <1>1, <1>3 DEF TableOK, CopyOK, CopyIn, SameRow
<1>6. InvQueue'
  <2>1. DsyncInv'
    BY <1>0, <1>1, <1>2, <1>4, <1>5, DsyncKept DEF Whole, InvQueue
  <2> QED
    BY <2>1, <1>0, <1>1, <1>2 DEF Whole, InvQueue, TicksOK, BatchOK
<1>7. MemOK'
  <2>1. ASSUME NEW q \in Procs, NEW u \in Tables
        PROVE  /\ mem'[q][u].state = "absent" => mem'[q][u] = NewTableState
               /\ mem'[q][u].okc >= 1 => q \in {u, Main}
               /\ mem'[q][u].snap <= Len(log)
    BY <1>3, <1>4 DEF Whole, MemOK, TableOK, RowOK
  <2> QED
    BY <2>1, <1>0, <1>1, <1>2, <1>4 DEF Whole, MemOK
<1>8. InvOne'
  <2>1. \A u \in Tables : db'[u].state \in Copying => db[u].state \in Copying
    BY <1>4, <1>5 DEF Copying
  <2> QED
    BY <2>1, <1>0, <1>2, <1>4 DEF Whole, InvOne, MainIn
<1>9. TableOK(t)'
  <2>1. PlaceOK(t)'
    BY <1>0, <1>1, <1>2, <1>3, <1>4 DEF TableOK, PlaceOK, CopyLabels
  <2>2. RowOK(t)'
    <3>1. RowOK(t) /\ t \in reg
      BY <1>1, <1>3 DEF TableOK, PlaceOK
    <3> QED
      BY <3>1, <1>1, <1>2, <1>4, <1>5 DEF RowOK, CopyOwns
  <2>3. MainOK(t)'
    <3>1. MainOK(t) /\ mem'[Main] = mem[Main] /\ pc'[Main] = pc[Main]
          /\ mem[Main][t].state \in States
      BY <1>0, <1>2, <1>3, <1>4, Rows DEF TableOK, Whole
    <3> QED
      BY <3>1, <1>1, <1>2, <1>4, <1>5 DEF MainOK, MainIn, SameRow, States, Copying
  <2>4. CopyOK(t)'
    <3>1. \A u \in Tables : mem'[t][u].gc = NoTick
      BY <1>3, <1>4 DEF TableOK, CopyOK
    <3> QED
      BY <3>1, <1>2, <1>4 DEF CopyOK, CopyIn
  <2>5. CountOK(t, t)' /\ CountOK(Main, t)' /\ GcOK(t)'
    <3>1. CountOK(Main, t) /\ GcOK(t) /\ mem'[Main] = mem[Main]
      BY <1>0, <1>3, <1>4 DEF TableOK
    <3> QED
      BY <3>1, <1>1, <1>4, <1>5 DEF CountOK, GcOK, CopyOwns
  <2>6. DataOK(t)'
    <3>1. mem'[Main] = mem[Main] /\ pc'[Main] = pc[Main]
      BY <1>0, <1>2, <1>4
    <3>2. ~(MainIn /\ mem[Main][t].state = "ok")
      BY <1>1, <1>3 DEF TableOK, MainOK
    <3>3. Later(csnap[t], snapAt[prev[t]]) = csnap[t]
      <4>1. /\ prev[t] \in Nat /\ cur[t] \in Nat /\ tick \in Nat
            /\ prev[t] <= cur[t] /\ cur[t] <= tick
        BY <1>0, Numbers DEF Whole, InvQueue, BatchOK
      <4>2. snapAt[prev[t]] <= snapAt[cur[t]]
        BY <4>1 DEF Whole, InvQueue, TicksOK
      <4>3. csnap[t] >= snapAt[cur[t]]
        BY <1>1, <1>3 DEF TableOK, RowOK
      <4>4. snapAt[prev[t]] \in Nat /\ snapAt[cur[t]] \in Nat
        BY <1>0, Numbers DEF Whole
      <4> QED
        BY <4>2, <4>3, <4>4, <1>3 DEF Later
    <3>4. Ev(t, csnap[t])' = Ev(t, csnap[t])
      BY <1>1 DEF Ev
    <3>5. db'[t].state # "ok"
      BY <1>4, <1>5
    <3>6. db'[t].state \in CopyOwns => db'[t].snap = csnap[t]
      BY <1>4, <1>5 DEF CopyOwns
    <3> QED
      BY <3>1, <3>2, <3>3, <3>4, <3>5, <3>6, <1>1, <1>2 DEF DataOK, Ev, MainIn
  <2> QED
    BY <2>1, <2>2, <2>3, <2>4, <2>5, <2>6, <1>2 DEF TableOK
<1>10. ASSUME NEW u \in Tables, u # t
       PROVE  TableOK(u)'
  BY <1>0, <1>1, <1>2, <1>4, <1>10, Frame DEF Whole
<1> QED
  BY <1>6, <1>7, <1>8, <1>9, <1>10 DEF Whole

-----------------------------------------------------------------------------
\* Steps of main that only take it somewhere else, and the launch of a copy

\* Main tunes its batch size by the tables that it sees waiting.
LEMMA TuneKept ==
    ASSUME Whole, MainTune
    PROVE  DsyncInv' /\ \A q \in Procs : q # Main => big'[q] = big[q]
<1>0. /\ Main \in Procs /\ DsyncInv /\ BatchOK(Main) /\ InvOne
      /\ big \in [Procs -> BOOLEAN] /\ prev[Main] \in Nat /\ cur[Main] \in Nat /\ dsync \in Nat
      /\ \A u \in Tables : MainOK(u)
  <2>1. dsync \in 0..MaxTick /\ TypeOK
    BY DEF Whole, TypeOK
  <2> QED
    BY <2>1, Names, Numbers DEF Whole, InvQueue, TableOK, TypeOK
<1>1. /\ pc[Main] = "dosync" /\ MainIn
      /\ cur' = cur /\ prev' = prev /\ db' = db /\ mem' = mem /\ cur[Main] > prev[Main]
  BY <1>0 DEF MainTune, queue, subscr, MainIn, BatchOK
<1>2. CASE Waiting # {}
  <2>1. /\ big' = [big EXCEPT ![Main] = FALSE]
        /\ dsync' = IF big[Main] THEN cur[Main] ELSE dsync
    BY <1>2 DEF MainTune
  <2>2. ~big'[Main] /\ \A q \in Procs : q # Main => big'[q] = big[q]
    BY <1>0, <2>1
  <2>3. PICK t \in Tables : mem[Main][t].state = "wanna-sync" /\ cur[Main] >= mem[Main][t].tick
    BY <1>2 DEF Waiting
  <2>4. CASE big[Main]
    <3>1. dsync' = cur[Main] /\ dsync' # 0 /\ BatchCollect
      BY <2>1, <2>4, <1>0, <1>1 DEF DsyncInv
    <3>2. ASSUME NEW u \in Tables
          PROVE  /\ db[u].state \notin {"in-copy", "catching-up"}
                 /\ db[u].state = "wanna-sync" => db[u].tick <= cur[Main]
      <4>1. db[u].state \in Copying => u = t
        BY <2>3, <1>0, <1>1 DEF InvOne, Copying
      <4>2. db[t].state # "absent" => db[t].state = "wanna-sync" /\ db[t].tick = mem[Main][t].tick
        BY <2>3, <1>0, <1>1 DEF MainOK, SameRow
      <4>3. mem[Main][t].tick \in Int
        BY <1>0, Rows DEF Whole
      <4> QED
        BY <4>1, <4>2, <4>3, <2>3, <1>0 DEF Copying
    <3> QED
      BY <3>1, <3>2, <2>2, <2>3, <1>0, <1>1 DEF DsyncInv
  <2>5. CASE ~big[Main]
    <3>1. dsync' = dsync
      BY <2>1, <2>5
    <3> QED
      BY <3>1, <2>2, <2>3, <2>5, <1>0, <1>1 DEF DsyncInv
  <2> QED
    BY <2>4, <2>5
<1>3. CASE Waiting = {}
  <2>1. dsync' = 0 /\ big' = [big EXCEPT ![Main] = @ \/ dsync # 0]
    BY <1>3 DEF MainTune
  <2>2. \A q \in Procs : q # Main => big'[q] = big[q]
    BY <1>0, <2>1
  <2>3. big'[Main] = (big[Main] \/ dsync # 0)
    BY <1>0, <2>1
  <2>4. big'[Main] <=> BatchCollect
    BY <1>0, <2>3 DEF DsyncInv
  <2>5. ~BatchCollect => cur[Main] <= prev[Main] + 1
    BY <1>0 DEF BatchOK
  <2> QED
    BY <2>1, <2>2, <2>4, <2>5, <1>0, <1>1 DEF DsyncInv
<1> QED
  BY <1>2, <1>3

\* Tuning the batch, ending the sync and the start of main keep the invariant.
LEMMA MainMoves ==
    ASSUME Simple, Whole, MainTune \/ MainSyncDone \/ StartMain, TypeOK'
    PROVE  Whole'
<1>0. Main \in Procs /\ \A u \in Tables : u # Main /\ u \in Procs
  BY Names
<1>1. /\ log' = log /\ tick' = tick /\ snapAt' = snapAt /\ reg' = reg /\ prev' = prev /\ cur' = cur
      /\ db' = db /\ data' = data /\ twice' = twice /\ mem' = mem
      /\ launching' = launching /\ work' = work /\ held' = held /\ csnap' = csnap
  BY DEF MainTune, MainSyncDone, StartMain, provider, queue, subscr, tuning, sync
<1>2. /\ \A q \in Procs : q # Main => pc'[q] = pc[q]
      /\ \/ pc[Main] = "dosync" /\ pc'[Main] = "start"
         \/ pc[Main] = "start" /\ pc'[Main] = "load"
         \/ /\ pc[Main] = "start" /\ pc'[Main] = "cleanup"
            /\ \A u \in Tables : mem[Main][u].state # "do-sync"
         \/ pc[Main] = "down" /\ pc'[Main] = "poll"
  <2>1. pc \in [Procs -> Labels]
    BY DEF Whole, TypeOK
  <2>2. CASE MainTune
    BY <1>0, <2>1, <2>2 DEF MainTune, Goto
  <2>3. CASE MainSyncDone
    BY <1>0, <2>1, <2>3 DEF MainSyncDone, MainAgain, Goto
  <2>4. CASE StartMain
    BY <1>0, <2>1, <2>4 DEF StartMain, Goto
  <2> QED
    BY <2>2, <2>3, <2>4
<1>3. DsyncInv' /\ \A q \in Procs : q # Main => big'[q] = big[q]
  <2>1. CASE MainTune
    BY <2>1, TuneKept
  <2>2. CASE MainSyncDone \/ StartMain
    <3>1. big' = big /\ dsync' = dsync
      BY <2>2 DEF MainSyncDone, StartMain, tuning, sync
    <3>2. pc'[Main] \notin {"start", "launch"}
      BY <2>2, <1>0 DEF MainSyncDone, StartMain, Goto, Whole, TypeOK
    <3> QED
      BY <3>1, <3>2, <1>1, DsyncKept DEF Whole, InvQueue
  <2> QED
    BY <2>1, <2>2
<1>4. InvQueue'
  <2>1. ASSUME NEW q \in Procs
        PROVE  BatchOK(q)'
    <3>1. BatchOK(q)
      BY DEF Whole, InvQueue
    <3>2. ~BatchCollect => ~big'[q]
      BY <1>3, <3>1 DEF BatchOK, DsyncInv
    <3> QED
      BY <3>1, <3>2, <1>1, <1>2 DEF BatchOK
  <2> QED
    BY <2>1, <1>1, <1>3 DEF Whole, InvQueue, TicksOK
<1>5. MemOK' /\ InvOne'
  BY <1>1, <1>2 DEF Whole, MemOK, MainLabels, InvOne, MainIn
<1>6. ASSUME NEW u \in Tables
      PROVE  TableOK(u)'
  <2>1. /\ MainIn' => MainIn
        /\ pc'[u] = pc[u]
        /\ \/ pc'[Main] \notin {"cleanup", "apply"}
           \/ pc[Main] \in {"cleanup", "apply"}
           \/ mem[Main][u].state # "do-sync"
    <3>1. MemOK /\ u # Main
      BY <1>0 DEF Whole
    <3> QED
      BY <3>1, <1>0, <1>2 DEF MainIn
  <2>2. u \notin launching
    BY <1>2 DEF Whole, TableOK, PlaceOK
  <2>3. TableOK(u)
    BY DEF Whole
  <2> QED
    BY <2>1, <2>2, <2>3, <1>0, <1>1, <1>3, FrameMain
<1> QED
  BY <1>4, <1>5, <1>6 DEF Whole

\* A copy process starts, launched by main or by the administrator.
LEMMA CopyStarts ==
    ASSUME Simple, Whole, NEW t \in Tables, MainLaunch(t) \/ RestartCopy(t), TypeOK'
    PROVE  Whole'
<1>0. Main \in Procs /\ t \in Procs /\ t # Main /\ \A u \in Tables : u # Main /\ u \in Procs
  BY Names
<1>1. /\ log' = log /\ tick' = tick /\ snapAt' = snapAt /\ reg' = reg /\ prev' = prev /\ cur' = cur
      /\ db' = db /\ data' = data /\ twice' = twice /\ mem' = mem /\ dsync' = dsync
      /\ work' = work /\ big' = big /\ held' = held /\ csnap' = csnap
  BY DEF MainLaunch, RestartCopy, provider, queue, subscr, tuning, sync
<1>2. /\ pc[t] = "none" /\ pc'[t] = "reg" /\ t \notin launching'
      /\ \A q \in Procs : q # t /\ q # Main => pc'[q] = pc[q]
      /\ \/ pc[Main] = "launch" /\ t \in launching /\ pc'[Main] = "start" /\ launching' = {}
         \/ db[t].state \in Copying /\ pc'[Main] = pc[Main] /\ launching' = launching
  <2>1. pc \in [Procs -> Labels]
    BY DEF Whole, TypeOK
  <2>2. CASE MainLaunch(t)
    BY <1>0, <2>1, <2>2 DEF MainLaunch
  <2>3. CASE RestartCopy(t)
    BY <1>0, <2>1, <2>3 DEF RestartCopy, Goto, sync
  <2> QED
    BY <2>2, <2>3
<1>3. InvQueue'
  <2>1. ASSUME NEW q \in Procs
        PROVE  BatchOK(q)'
    BY <1>0, <1>1, <1>2 DEF Whole, InvQueue, BatchOK
  <2>2. DsyncInv'
    BY <1>1, <1>2, DsyncKept DEF Whole, InvQueue
  <2> QED
    BY <2>1, <2>2, <1>1 DEF Whole, InvQueue, TicksOK
<1>5. MainIn' => MainIn
  BY <1>2 DEF MainIn
<1>4. MemOK' /\ InvOne'
  <2>1. pc'[Main] \in MainLabels /\ (pc'[Main] = "down" => pc[Main] = "down")
    BY <1>2 DEF Whole, MemOK, MainLabels
  <2> QED
    BY <2>1, <1>1, <1>5 DEF Whole, MemOK, InvOne
<1>6. pc'[Main] \in {"cleanup", "apply"} => pc[Main] \in {"cleanup", "apply"}
  BY <1>2
<1>7. TableOK(t)'
  <2>0. TableOK(t)
    BY DEF Whole
  <2>1. db[t].state # "missing" /\ (MainIn => mem[Main][t].state # "missing")
    BY <2>0, <1>2 DEF TableOK, PlaceOK, MainOK, SameRow, Copying
  <2>2. PlaceOK(t)'
    BY <2>0, <1>1, <1>2 DEF TableOK, PlaceOK, CopyLabels
  <2>3. RowOK(t)'
    BY <2>0, <2>1, <1>1, <1>2 DEF TableOK, RowOK, NextEnds
  <2>4. MainOK(t)'
    <3>1. MainOK(t)
      BY <2>0 DEF TableOK
    <3> QED
      BY <3>1, <2>1, <1>1, <1>2, <1>5, <1>6 DEF MainOK, SameRow
  <2>5. CopyOK(t)'
    BY <2>0, <1>1, <1>2 DEF TableOK, CopyOK, CopyIn
  <2>6. CountOK(t, t)' /\ CountOK(Main, t)' /\ GcOK(t)'
    BY <2>0, <1>1 DEF TableOK, CountOK, GcOK
  <2>7. DataOK(t)'
    <3>1. DataOK(t)
      BY <2>0 DEF TableOK
    <3> QED
      BY <3>1, <1>1, <1>2, <1>5 DEF DataOK, Ev
  <2> QED
    BY <2>0, <2>2, <2>3, <2>4, <2>5, <2>6, <2>7, <1>1 DEF TableOK
<1>8. ASSUME NEW u \in Tables, u # t
      PROVE  TableOK(u)'
  <2>1. TableOK(u) /\ pc'[u] = pc[u] /\ (u \in launching' => u \in launching /\ pc'[Main] = pc[Main])
    BY <1>0, <1>2, <1>8 DEF Whole
  <2> QED
    BY <2>1, <1>1, <1>5, <1>6, FrameMain
<1> QED
  BY <1>3, <1>4, <1>7, <1>8 DEF Whole

\* A copy process registers its consumer at the position of main.
LEMMA RegisterStep ==
    ASSUME Simple, Whole, NEW t \in Tables, Register(t), TypeOK'
    PROVE  Whole'
<1>0. Main \in Procs /\ t \in Procs /\ t # Main /\ \A u \in Tables : u # Main /\ u \in Procs
  BY Names
<1>1. /\ log' = log /\ tick' = tick /\ snapAt' = snapAt
      /\ db' = db /\ data' = data /\ twice' = twice /\ mem' = mem /\ dsync' = dsync
      /\ work' = work /\ big' = big /\ held' = held /\ csnap' = csnap /\ launching' = launching
      /\ reg' = reg \cup {t}
  BY DEF Register, provider, subscr, tuning, sync
<1>2. /\ pc[t] = "reg" /\ pc'[t] = "poll" /\ \A q \in Procs : q # t => pc'[q] = pc[q]
      /\ \A q \in Procs : q # t => prev'[q] = prev[q] /\ cur'[q] = cur[q]
      /\ \/ t \in reg /\ prev'[t] = prev[t] /\ cur'[t] = cur[t]
         \/ t \notin reg /\ prev'[t] = tick /\ cur'[t] = tick
  <2>1. /\ pc \in [Procs -> Labels] /\ prev \in [Procs -> 0..MaxTick]
        /\ cur \in [Procs -> 0..MaxTick]
    BY DEF Whole, TypeOK
  <2>2. pc[t] = "reg" /\ pc' = [pc EXCEPT ![t] = "poll"]
    BY DEF Register, Goto
  <2>3. CASE t \in reg
    BY <1>0, <2>1, <2>2, <2>3 DEF Register
  <2>4. CASE t \notin reg
    <3>1. prev' = [prev EXCEPT ![t] = tick] /\ cur' = [cur EXCEPT ![t] = tick]
      BY <2>4 DEF Register
    <3> QED
      BY <1>0, <2>1, <2>2, <2>4, <3>1
  <2> QED
    BY <2>3, <2>4
<1>3. TableOK(t) /\ mem[t] = [u \in Tables |-> NewTableState] /\ work[t]
  BY <1>2 DEF Whole, TableOK, PlaceOK
<1>4. InvQueue'
  <2>1. ASSUME NEW q \in Procs
        PROVE  BatchOK(q)'
    <3>1. BatchOK(q) /\ tick \in Nat
      BY Numbers DEF Whole, InvQueue
    <3> QED
      BY <3>1, <1>1, <1>2 DEF BatchOK
  <2>2. DsyncInv'
    BY <1>0, <1>1, <1>2, DsyncKept DEF Whole, InvQueue
  <2> QED
    BY <2>1, <2>2, <1>1 DEF Whole, InvQueue, TicksOK
<1>5. MemOK' /\ InvOne'
  BY <1>0, <1>1, <1>2 DEF Whole, MemOK, InvOne, MainIn
<1>6. TableOK(t)'
  <2>1. PlaceOK(t)'
    BY <1>0, <1>1, <1>2, <1>3 DEF TableOK, PlaceOK, CopyLabels
  <2>2. RowOK(t)'
    BY <1>0, <1>1, <1>2, <1>3 DEF TableOK, RowOK, CopyOwns, NextEnds
  <2>3. MainOK(t)' /\ CopyOK(t)'
    BY <1>0, <1>1, <1>2, <1>3 DEF TableOK, MainOK, MainIn, SameRow, CopyOK, CopyIn
  <2>4. CountOK(t, t)'
    BY <1>1, <1>3 DEF CountOK, NewTableState
  <2>5. CountOK(Main, t)' /\ GcOK(t)'
    BY <1>0, <1>1, <1>2, <1>3 DEF TableOK, CountOK, GcOK
  <2>6. DataOK(t)'
    <3>1. db[t].state \in CopyOwns => prev'[t] = prev[t]
      BY <1>2, <1>3 DEF TableOK, RowOK
    <3> QED
      BY <3>1, <1>0, <1>1, <1>2, <1>3 DEF TableOK, DataOK, Ev, MainIn
  <2> QED
    BY <2>1, <2>2, <2>3, <2>4, <2>5, <2>6, <1>1, <1>3 DEF TableOK
<1>7. ASSUME NEW u \in Tables, u # t
      PROVE  TableOK(u)'
  <2>1. TableOK(u) /\ u \in Procs
    BY <1>0 DEF Whole
  <2> QED
    BY <2>1, <1>0, <1>1, <1>2, <1>7, Frame
<1> QED
  BY <1>4, <1>5, <1>6, <1>7 DEF Whole

-----------------------------------------------------------------------------
\* Processes end

\* The end or the crash of a copy process loses its objects, and main never relied on them.
LEMMA CopyEnds ==
    ASSUME Simple, Whole, NEW t \in Tables, CopyExit(t) \/ CrashCopy(t), Tidy',
           TypeOK'
    PROVE  Whole'
<1>0. Main \in Procs /\ t \in Procs /\ t # Main /\ \A u \in Tables : u # Main /\ u \in Procs
  BY Names
<1>1. /\ log' = log /\ tick' = tick /\ snapAt' = snapAt /\ prev' = prev /\ cur' = cur
      /\ db' = db /\ data' = data /\ twice' = twice /\ dsync' = dsync
      /\ csnap' = csnap /\ launching' = launching
  BY DEF CopyExit, CrashCopy, provider, queue, subscr, sync
<1>2. /\ pc[t] # "none" /\ pc'[t] = "none" /\ \A q \in Procs : q # t => pc'[q] = pc[q]
      /\ mem'[t] = [u \in Tables |-> NewTableState] /\ \A q \in Procs : q # t => mem'[q] = mem[q]
      /\ work'[t] /\ \A q \in Procs : q # t => /\ work'[q] = work[q]
                                               /\ big'[q] = big[q] /\ held'[q] = held[q]
      /\ reg' = reg \/ (pc[t] = "exit" /\ reg' = reg \ {t})
  <2>1. pc \in [Procs -> Labels] /\ mem \in [Procs -> [Tables -> Object]] /\ work \in [Procs -> BOOLEAN]
        /\ big \in [Procs -> BOOLEAN] /\ held \in [Procs -> 0..MaxTick]
    BY DEF Whole, TypeOK
  <2>2. Restarted(t) /\ pc' = [pc EXCEPT ![t] = "none"]
    BY DEF CopyExit, CrashCopy, Goto
  <2>3. /\ pc[t] # "none"
        /\ reg' = reg \/ (pc[t] = "exit" /\ reg' = reg \ {t})
    <3>1. CASE CopyExit(t)
      BY <3>1 DEF CopyExit
    <3>2. CASE CrashCopy(t)
      BY <3>2 DEF CrashCopy, queue
    <3> QED
      BY <3>1, <3>2
  <2>4. pc'[t] = "none" /\ \A q \in Procs : q # t => pc'[q] = pc[q]
    BY <1>0, <2>1, <2>2
  <2>5. /\ mem'[t] = [u \in Tables |-> NewTableState]
        /\ \A q \in Procs : q # t => mem'[q] = mem[q]
    BY <1>0, <2>1, <2>2 DEF Restarted, Forget
  <2>6. work'[t] /\ \A q \in Procs : q # t => /\ work'[q] = work[q]
                                             /\ big'[q] = big[q] /\ held'[q] = held[q]
    BY <1>0, <2>1, <2>2 DEF Restarted
  <2> QED
    BY <2>3, <2>4, <2>5, <2>6
<1>3. /\ ~BatchCollect => \A q \in Procs : ~big'[q]
      /\ BatchCollect => db[t].state \in {"absent", "ok"}
  <2>1. big' = [big EXCEPT ![t] = BatchCollect]
    BY DEF CopyExit, CrashCopy, Restarted
  <2>2. big \in [Procs -> BOOLEAN] /\ (~BatchCollect => \A q \in Procs : ~big[q])
    BY DEF Whole, TypeOK, InvQueue, BatchOK
  <2>3. BatchCollect => db[t].state \in {"absent", "ok"}
    <3>1. CASE CopyExit(t)
      BY <3>1 DEF CopyExit, Whole, TableOK, CopyOK
    <3>2. CASE CrashCopy(t)
      <4>1. faults' = faults + 1 /\ faults \in Nat
        BY <3>2, BoundAssumption DEF CrashCopy, Whole, TypeOK
      <4> QED
        BY <4>1 DEF Tidy
    <3> QED
      BY <3>1, <3>2
  <2>4. ~BatchCollect => \A q \in Procs : ~big'[q]
    BY <2>1, <2>2
  <2> QED
    BY <2>3, <2>4
<1>4. InvQueue'
  <2>1. ASSUME NEW q \in Procs
        PROVE  BatchOK(q)'
    BY <1>1, <1>2, <1>3 DEF Whole, InvQueue, BatchOK
  <2>2. DsyncInv'
    BY <1>0, <1>1, <1>2, DsyncKept DEF Whole, InvQueue
  <2> QED
    BY <2>1, <2>2, <1>1 DEF Whole, InvQueue, TicksOK
<1>5. MemOK' /\ InvOne'
  <2>1. ASSUME NEW q \in Procs, NEW u \in Tables
        PROVE  /\ mem'[q][u].state = "absent" => mem'[q][u] = NewTableState
               /\ mem'[q][u].okc >= 1 => q \in {u, Main}
               /\ mem'[q][u].snap <= Len(log)
    <3>1. CASE q = t
      <4>1. Len(log) \in Nat
        BY Numbers DEF Whole
      <4> QED
        BY <3>1, <4>1, <1>2 DEF NewTableState, NoSnap
    <3>2. CASE q # t
      BY <3>2, <1>2 DEF Whole, MemOK
    <3> QED
      BY <3>1, <3>2
  <2>2. pc'[Main] = pc[Main] /\ mem'[Main] = mem[Main]
    BY <1>0, <1>2
  <2> QED
    BY <2>1, <2>2, <1>1 DEF Whole, MemOK, InvOne, MainIn
<1>6. TableOK(t)'
  <2>0. TableOK(t)
    BY DEF Whole
  <2>1. PlaceOK(t)'
    BY <2>0, <1>0, <1>1, <1>2 DEF TableOK, PlaceOK, CopyLabels
  <2>2. RowOK(t)'
    <3>1. (t \in reg => t \in reg') \/ db[t].state \in {"absent", "ok"}
      BY <2>0, <1>2 DEF TableOK, CopyOK
    <3>2. RowOK(t)
      BY <2>0 DEF TableOK
    <3> QED
      BY <3>1, <3>2, <1>0, <1>1, <1>2, <1>3 DEF RowOK, CopyOwns, NextEnds
  <2>3. MainOK(t)'
    <3>1. MainOK(t) /\ pc'[Main] = pc[Main] /\ mem'[Main] = mem[Main]
      BY <2>0, <1>0, <1>2 DEF TableOK
    <3> QED
      BY <3>1, <1>1, <1>2 DEF MainOK, MainIn, SameRow
  <2>4. CopyOK(t)' /\ CountOK(t, t)'
    BY <1>1, <1>2 DEF CopyOK, CopyIn, CountOK, NewTableState
  <2>5. CountOK(Main, t)' /\ GcOK(t)'
    BY <2>0, <1>0, <1>1, <1>2 DEF TableOK, CountOK, GcOK
  <2>6. DataOK(t)'
    <3>1. DataOK(t) /\ pc'[Main] = pc[Main] /\ mem'[Main] = mem[Main]
      BY <2>0, <1>0, <1>2 DEF TableOK
    <3> QED
      BY <3>1, <1>1, <1>2 DEF DataOK, Ev, MainIn
  <2> QED
    BY <2>0, <2>1, <2>2, <2>3, <2>4, <2>5, <2>6, <1>1 DEF TableOK
<1>7. ASSUME NEW u \in Tables, u # t
      PROVE  TableOK(u)'
  <2>1. TableOK(u) /\ u \in Procs /\ (u \in reg' <=> u \in reg)
    BY <1>0, <1>2, <1>7 DEF Whole
  <2> QED
    BY <2>1, <1>0, <1>1, <1>2, <1>7, Frame
<1> QED
  BY <1>4, <1>5, <1>6, <1>7 DEF Whole

\* So does a crash of main, whose batch begins again.
LEMMA MainEnds ==
    ASSUME Simple, Whole, CrashMain, Tidy', TypeOK'
    PROVE  Whole'
<1>0. Main \in Procs /\ \A u \in Tables : u # Main /\ u \in Procs
  BY Names
<1>1. /\ log' = log /\ tick' = tick /\ snapAt' = snapAt /\ prev' = prev /\ cur' = cur /\ reg' = reg
      /\ db' = db /\ data' = data /\ twice' = twice /\ dsync' = 0
      /\ csnap' = csnap /\ launching' = {}
  BY DEF CrashMain, provider, queue, subscr
<1>2. /\ pc'[Main] = "down" /\ \A q \in Procs : q # Main => pc'[q] = pc[q]
      /\ mem'[Main] = [u \in Tables |-> NewTableState]
      /\ \A q \in Procs : q # Main => /\ mem'[q] = mem[q] /\ work'[q] = work[q]
                                     /\ big'[q] = big[q] /\ held'[q] = held[q]
  <2>1. pc \in [Procs -> Labels] /\ mem \in [Procs -> [Tables -> Object]] /\ work \in [Procs -> BOOLEAN]
        /\ big \in [Procs -> BOOLEAN] /\ held \in [Procs -> 0..MaxTick]
    BY DEF Whole, TypeOK
  <2>2. Restarted(Main) /\ pc' = [pc EXCEPT ![Main] = "down"]
    BY DEF CrashMain, Goto
  <2>3. pc'[Main] = "down" /\ \A q \in Procs : q # Main => pc'[q] = pc[q]
    BY <1>0, <2>1, <2>2
  <2>4. /\ mem'[Main] = [u \in Tables |-> NewTableState]
        /\ \A q \in Procs : q # Main => mem'[q] = mem[q]
    BY <1>0, <2>1, <2>2 DEF Restarted, Forget
  <2>5. \A q \in Procs : q # Main => work'[q] = work[q] /\ big'[q] = big[q] /\ held'[q] = held[q]
    BY <1>0, <2>1, <2>2 DEF Restarted
  <2> QED
    BY <2>3, <2>4, <2>5, Zenon
<1>3. ~BatchCollect /\ \A q \in Procs : ~big'[q]
  <2>1. ~BatchCollect
    <3>1. faults' = faults + 1 /\ faults \in Nat
      BY BoundAssumption DEF CrashMain, Whole, TypeOK
    <3> QED
      BY <3>1 DEF Tidy
  <2>2. big' = [big EXCEPT ![Main] = FALSE]
    BY <2>1, ConfigAssumption DEF CrashMain, Restarted
  <2>3. big \in [Procs -> BOOLEAN] /\ \A q \in Procs : ~big[q]
    BY <2>1 DEF Whole, TypeOK, InvQueue, BatchOK
  <2> QED
    BY <2>1, <2>2, <2>3
<1>4. InvQueue'
  <2>1. ASSUME NEW q \in Procs
        PROVE  BatchOK(q)'
    BY <1>1, <1>2, <1>3 DEF Whole, InvQueue, BatchOK
  <2>2. DsyncInv'
    <3>1. cur[Main] \in Nat /\ cur[Main] <= prev[Main] + 1
      BY <1>0, <1>3, Numbers DEF Whole, InvQueue, BatchOK
    <3> QED
      BY <3>1, <1>0, <1>1, <1>3 DEF DsyncInv
  <2> QED
    BY <2>1, <2>2, <1>1 DEF Whole, InvQueue, TicksOK
<1>5. MemOK' /\ InvOne'
  <2>1. ASSUME NEW q \in Procs, NEW u \in Tables
        PROVE  /\ mem'[q][u].state = "absent" => mem'[q][u] = NewTableState
               /\ mem'[q][u].okc >= 1 => q \in {u, Main}
               /\ mem'[q][u].snap <= Len(log)
    <3>1. CASE q = Main
      <4>1. Len(log) \in Nat
        BY Numbers DEF Whole
      <4> QED
        BY <3>1, <4>1, <1>2 DEF NewTableState, NoSnap
    <3>2. CASE q # Main
      BY <3>2, <1>2 DEF Whole, MemOK
    <3> QED
      BY <3>1, <3>2
  <2> QED
    BY <2>1, <1>1, <1>2 DEF Whole, MemOK, InvOne, MainIn, MainLabels
<1>6. ASSUME NEW u \in Tables
      PROVE  TableOK(u)'
  <2>0. TableOK(u) /\ pc'[u] = pc[u] /\ mem'[u] = mem[u] /\ work'[u] = work[u]
        /\ big'[u] = big[u] /\ held'[u] = held[u]
    BY <1>0, <1>2 DEF Whole
  <2>1. PlaceOK(u)' /\ RowOK(u)'
    BY <2>0, <1>1 DEF TableOK, PlaceOK, RowOK, NextEnds
  <2>2. MainOK(u)'
    BY <1>2 DEF MainOK, MainIn
  <2>3. CopyOK(u)' /\ CountOK(u, u)'
    BY <2>0, <1>1 DEF TableOK, CopyOK, CopyIn, SameRow, CountOK
  <2>4. CountOK(Main, u)' /\ GcOK(u)'
    BY <1>2 DEF CountOK, GcOK, NewTableState
  <2>5. DataOK(u)'
    BY <2>0, <1>1, <1>2 DEF TableOK, DataOK, Ev, MainIn
  <2> QED
    BY <2>0, <2>1, <2>2, <2>3, <2>4, <2>5, <1>1 DEF TableOK
<1> QED
  BY <1>4, <1>5, <1>6 DEF Whole

-----------------------------------------------------------------------------
\* What gc_snapshot and interesting do to the objects

\* All changed objects are saved at once.
LEMMA SaveAll ==
    ASSUME TypeOK, NEW p \in Procs, NEW ts \in [Tables -> Object], SavedAs(p, ts),
           NEW u \in Tables
    PROVE  /\ mem'[p][u].state = ts[u].state /\ mem'[p][u].tick = ts[u].tick
           /\ mem'[p][u].snap = ts[u].snap /\ mem'[p][u].okc = ts[u].okc
           /\ mem'[p][u].last = ts[u].last /\ mem'[p][u].gc = ts[u].gc
           /\ ~mem'[p][u].changed
           /\ ~ts[u].changed => mem'[p][u] = ts[u] /\ db'[u] = db[u]
           /\ db[u].state = "absent" => db'[u] = db[u]
           /\ ts[u].changed /\ db[u].state # "absent" =>
                 db'[u].state = ts[u].state /\ db'[u].tick = ts[u].tick /\ db'[u].snap = ts[u].snap
<1>1. mem'[p][u] = [ts[u] EXCEPT !.changed = FALSE] /\ ts[u] \in Object
  BY DEF Clean, TypeOK, SavedAs
<1>2. ~ts[u].changed => mem'[p][u] = ts[u]
  BY <1>1, CleanIsSame
<1>3. db'[u] = IF ts[u].changed /\ db[u].state # "absent"
               THEN [state |-> ts[u].state, tick |-> ts[u].tick, snap |-> ts[u].snap]
               ELSE db[u]
  BY DEF Saved, SavedAs
<1>4. /\ ts[u].changed /\ db[u].state # "absent" =>
             db'[u] = [state |-> ts[u].state, tick |-> ts[u].tick, snap |-> ts[u].snap]
      /\ db[u].state = "absent" \/ ~ts[u].changed => db'[u] = db[u]
  BY <1>3, Zenon
<1> QED
  BY <1>1, <1>2, <1>4 DEF Object

\* ChangeSnapshot, when there is a snapshot to drop.
LEMMA Dropped ==
    ASSUME NEW r \in Object, r.snap # NoSnap
    PROVE  LET n == ChangeSnapshot(r, NoSnap)
           IN  /\ n.state = r.state /\ n.tick = r.tick /\ n.gc = r.gc
               /\ n.snap = NoSnap /\ n.okc = 0 /\ n.changed = TRUE
BY DEF ChangeSnapshot, Object

\* main collects: it remembers where it is, or drops a snapshot that it has
\* remembered to be behind it.
LEMMA CollectedMain ==
    ASSUME Whole, pc[Main] = "cleanup", NEW u \in Tables
    PROVE  LET r == mem[Main][u]  n == Collected(Main)[u]
           IN  /\ n \in Object
               /\ \/ n = r
                  \/ /\ r.state = "ok" /\ n.state = "ok" /\ n.tick = r.tick /\ n.snap = r.snap
                     /\ n.okc = r.okc /\ n.last = r.last /\ n.gc = cur[Main] /\ ~n.changed
                  \/ /\ r.state = "ok" /\ n.state = "ok" /\ n.tick = r.tick /\ n.gc = r.gc
                     /\ n.snap = NoSnap /\ n.okc = 0 /\ n.changed
                     /\ r.gc # NoTick /\ r.gc < prev[Main]
<1> DEFINE r == mem[Main][u]
           n == Collected(Main)[u]
<1>0. Main \in Procs /\ TypeOK
  BY Names DEF Whole
<1>1. r \in Object /\ ~r.changed
  BY <1>0 DEF Whole, TypeOK, TableOK, MainOK, MainIn
<1>2. n \in Object
  BY <1>0, CollectedType
<1>3. n = GcSnapshot(r, FALSE, prev[Main], cur[Main], ~work[Main])
  BY DEF Collected
<1>4. CASE r.snap = NoSnap \/ r.state # "ok"
  BY <1>2, <1>3, <1>4 DEF GcSnapshot
<1>5. CASE r.snap # NoSnap /\ r.state = "ok"
  <2>1. CASE r.gc = NoTick /\ work[Main]
    <3>1. n = [r EXCEPT !.gc = NoTick]
      BY <1>3, <1>5, <2>1 DEF GcSnapshot
    <3>2. n = r
      BY <1>1, <2>1, <3>1 DEF Object
    <3> QED
      BY <1>2, <3>2
  <2>2. CASE r.gc = NoTick /\ ~work[Main]
    <3>1. n = [r EXCEPT !.gc = cur[Main]]
      BY <1>3, <1>5, <2>2 DEF GcSnapshot
    <3> QED
      BY <1>1, <1>2, <1>5, <3>1 DEF Object
  <2>3. CASE r.gc # NoTick /\ r.gc < prev[Main]
    <3>1. n = ChangeSnapshot(r, NoSnap)
      BY <1>3, <1>5, <2>3 DEF GcSnapshot
    <3> QED
      BY <1>1, <1>2, <1>5, <2>3, <3>1, Dropped
  <2>4. CASE r.gc # NoTick /\ ~(r.gc < prev[Main])
    BY <1>2, <1>3, <1>5, <2>4 DEF GcSnapshot
  <2> QED
    BY <2>1, <2>2, <2>3, <2>4
<1> QED
  BY <1>4, <1>5

\* A copy process collects nothing: it processes batches only as long as it has
\* not been up to date, or after it has asked to be synced.
LEMMA CollectedCopy ==
    ASSUME Whole, NEW t \in Tables, pc[t] = "cleanup", NEW u \in Tables
    PROVE  Collected(t)[u] = mem[t][u]
<1> DEFINE r == mem[t][u]
<1>0. t \in Procs /\ t # Main /\ TypeOK
  BY Names DEF Whole
<1>1. r \in Object /\ r.gc = NoTick
  BY <1>0 DEF Whole, TypeOK, TableOK, CopyOK
<1>2. r.state = "catching-up" => work[t]
  BY <1>0 DEF Whole, TableOK, CopyOK, CopyIn, Copying
<1>3. Collected(t)[u] = GcSnapshot(r, TRUE, prev[t], cur[t], ~work[t])
  BY <1>0 DEF Collected
<1>4. CASE r.snap = NoSnap \/ r.state # "catching-up"
  BY <1>3, <1>4 DEF GcSnapshot
<1>5. CASE r.snap # NoSnap /\ r.state = "catching-up"
  <2>1. Collected(t)[u] = [r EXCEPT !.gc = NoTick]
    BY <1>1, <1>2, <1>3, <1>5 DEF GcSnapshot
  <2> QED
    BY <1>1, <2>1 DEF Object
<1> QED
  BY <1>4, <1>5

\* Whose events a process applies, and what it knows of them.
LEMMA Wanted ==
    ASSUME Whole, NEW p \in Procs, pc[p] = "apply", NEW u \in Tables
    PROVE  LET r == mem[p][u]  d == db[u]
           IN  /\ r \in Object /\ ~r.changed /\ CountOK(p, u)
               /\ Wants(p, u) => /\ p \in {u, Main}
                                 /\ d.state # "absent" => SameRow(r, d)
                                 /\ data[u] = Ev(u, Later(r.snap, snapAt[prev[p]]))
                                 /\ p = Main => r.state = "ok"
                                 /\ p = u => /\ r.state \in {"catching-up", "do-sync"}
                                             /\ r.state = "do-sync" => cur[u] < r.tick
<1>0. (p = Main \/ p \in Tables) /\ Main \notin Tables /\ TypeOK /\ mem[p][u] \in Object
  <2>1. TypeOK
    BY DEF Whole
  <2>2. mem[p][u] \in Object
    BY <2>1 DEF TypeOK
  <2> QED
    BY <2>1, <2>2, Names
<1>1. CASE p = Main
  BY <1>0, <1>1 DEF Whole, TableOK, MainOK, MainIn, DataOK, Wants
<1>2. CASE p \in Tables
  <2>1. ~mem[p][u].changed
    BY <1>2 DEF Whole, TableOK, CopyOK, CopyIn
  <2>2. CountOK(p, u)
    <3>1. CASE p = u
      BY <3>1 DEF Whole, TableOK
    <3>2. CASE p # u
      BY <1>0, <1>2, <3>2 DEF Whole, MemOK, CountOK
    <3> QED
      BY <3>1, <3>2
  <2>3. Wants(p, u) => p = u /\ mem[p][u].state \in {"catching-up", "do-sync"}
    BY <1>0, <1>2 DEF Wants
  <2>4. ASSUME p = u, mem[u][u].state \in {"catching-up", "do-sync"}
        PROVE  /\ db[u].state # "absent" => SameRow(mem[u][u], db[u])
               /\ data[u] = Ev(u, Later(mem[u][u].snap, snapAt[prev[u]]))
               /\ mem[u][u].state = "do-sync" => cur[u] < mem[u][u].tick
    BY <2>4 DEF Whole, TableOK, CopyOK, CopyIn, DataOK
  <2> QED
    BY <1>0, <1>2, <2>1, <2>2, <2>3, <2>4
<1> QED
  BY <1>0, <1>1, <1>2

\* The bookkeeping of a batch: nothing, a batch with events after the snapshot
\* is counted, or the snapshot is dropped, which an earlier batch is past.
LEMMA CountedMem ==
    ASSUME Whole, NEW p \in Procs, pc[p] = "apply", NEW u \in Tables
    PROVE  LET r == mem[p][u]  n == Counted(p)[u]
           IN  /\ n \in Object
               /\ \/ n = r
                  \/ /\ Wants(p, u) /\ ~n.changed
                     /\ n.state = r.state /\ n.tick = r.tick /\ n.snap = r.snap /\ n.gc = r.gc
                     /\ n.last = cur[p] /\ r.snap <= snapAt[cur[p]]
                  \/ /\ Wants(p, u) /\ n.changed
                     /\ n.state = r.state /\ n.tick = r.tick /\ n.gc = r.gc
                     /\ n.snap = NoSnap /\ n.okc = 0
                     /\ r.snap # NoSnap /\ r.snap <= snapAt[prev[p]]
<1> DEFINE r == mem[p][u]
           n == Counted(p)[u]
<1>0. TypeOK /\ r \in Object /\ ~r.changed /\ CountOK(p, u)
  BY Wanted DEF Whole
<1>1. n \in Object
  BY <1>0, CountedType
<1>2. n = IF r.snap # NoSnap /\ Applied(p, u, {}) # {} THEN CountBatch(r, cur[p]) ELSE r
  BY DEF Counted
<1>3. CASE ~(r.snap # NoSnap /\ Applied(p, u, {}) # {}) \/ cur[p] = r.last
  BY <1>1, <1>2, <1>3 DEF CountBatch
<1>4. CASE r.snap # NoSnap /\ Applied(p, u, {}) # {} /\ cur[p] # r.last
  <2> DEFINE m == [r EXCEPT !.last = cur[p], !.okc = @ + 1]
  <2>1. n = IF m.okc > OkBatchLimit THEN ChangeSnapshot(m, NoSnap) ELSE m
    BY <1>2, <1>4 DEF CountBatch
  <2>2. /\ m.state = r.state /\ m.tick = r.tick /\ m.snap = r.snap /\ m.gc = r.gc
        /\ m.last = cur[p] /\ m.okc = r.okc + 1 /\ ~m.changed
    BY <1>0 DEF Object
  <2>3. m \in Object
    <3>0. cur[p] \in 0..MaxTick
      BY <1>0, Numbers
    <3>1. cur[p] \in 0..MaxTick /\ r.okc + 1 \in Nat
      BY <1>0, <3>0 DEF Object
    <3>2. \A o \in Nat : [r EXCEPT !.last = cur[p], !.okc = o] \in Object
      BY <1>0, <3>1 DEF Object
    <3>3. m = [r EXCEPT !.last = cur[p], !.okc = r.okc + 1]
      BY <1>0 DEF Object
    <3> QED
      BY <3>1, <3>2, <3>3
  <2> HIDE DEF m
  <2>4. Wants(p, u)
    BY <1>4 DEF Applied
  <2>5. r.snap <= snapAt[cur[p]]
    <3>1. PICK i \in BatchEv(u, prev[p], cur[p]) : i > r.snap
      BY <1>4 DEF Applied
    <3>2. i \in Int /\ i <= snapAt[cur[p]]
      BY <3>1 DEF BatchEv, Ev
    <3>3. r.snap \in Int /\ snapAt[cur[p]] \in Int
      BY <1>0, Rows, Numbers
    <3> QED
      BY <3>1, <3>2, <3>3
  <2>6. CASE ~(m.okc > OkBatchLimit)
    BY <1>1, <2>1, <2>2, <2>4, <2>5, <2>6
  <2>7. CASE m.okc > OkBatchLimit
    <3>1. r.okc >= 1
      <4>1. r.okc \in Nat
        BY <1>0 DEF Object
      <4> QED
        BY <4>1, <2>2, <2>7, ConfigAssumption
    <3>2. /\ r.last \in 1..cur[p] /\ r.snap <= snapAt[r.last]
          /\ r.last <= prev[p] \/ r.last = cur[p]
      BY <1>0, <3>1 DEF CountOK
    <3>3. /\ prev[p] \in Nat /\ cur[p] \in Nat /\ cur[p] > prev[p]
          /\ cur[p] <= tick /\ tick \in Nat
      BY <1>0, Numbers DEF Whole, InvQueue, BatchOK
    <3>4. r.last <= prev[p] /\ r.last \in 0..tick /\ prev[p] \in 0..tick
      BY <1>4, <3>2, <3>3
    <3>5. snapAt[r.last] <= snapAt[prev[p]]
      BY <3>4 DEF Whole, InvQueue, TicksOK
    <3>6. r.snap \in Int /\ snapAt[prev[p]] \in Int /\ snapAt[r.last] \in Int
      BY <1>0, <3>4, Rows, Numbers
    <3>7. r.snap <= snapAt[prev[p]]
      BY <3>2, <3>5, <3>6
    <3>8. n = ChangeSnapshot(m, NoSnap) /\ m.snap # NoSnap
      BY <1>4, <2>1, <2>2, <2>7
    <3> QED
      BY <1>1, <1>4, <2>2, <2>3, <2>4, <3>7, <3>8, Dropped
  <2> QED
    BY <2>6, <2>7
<1> QED
  BY <1>3, <1>4

-----------------------------------------------------------------------------
\* copy_snapshot_cleanup

\* A copy process drops no snapshot: with one copy at a time the others are not ok.
LEMMA CleanupNothing ==
    ASSUME Whole, NEW t \in Tables, Cleanup(t)
    PROVE  /\ \A q \in Procs : q # t => mem'[q] = mem[q]
           /\ \A u \in Tables : mem'[t][u] = mem[t][u] /\ db'[u] = db[u]
<1>0. Main \in Procs /\ t \in Procs /\ t # Main /\ \A u \in Tables : u # Main /\ u \in Procs
  BY Names
<1>2. pc[t] = "cleanup"
  BY DEF Cleanup
<1>3. /\ \A q \in Procs : q # t => mem'[q] = mem[q]
      /\ \A u \in Tables : mem'[t][u] = mem[t][u] /\ db'[u] = db[u]
  <2>1. TypeOK /\ Collected(t) \in [Tables -> Object]
    BY <1>0, CollectedType DEF Whole
  <2>2. SavedAs(t, Collected(t))
    BY DEF Cleanup, SavedAs
  <2>3. ASSUME NEW u \in Tables
        PROVE  mem'[t][u] = mem[t][u] /\ db'[u] = db[u]
    <3>1. Collected(t)[u] = mem[t][u] /\ ~mem[t][u].changed
      BY <1>2, CollectedCopy DEF Whole, TableOK, CopyOK, CopyIn
    <3> QED
      BY <1>0, <2>1, <2>2, <3>1, SaveAll
  <2>4. \A q \in Procs : q # t => mem'[q] = mem[q]
    BY <2>1, <2>2 DEF TypeOK, SavedAs
  <2> QED
    BY <2>3, <2>4
<1> QED
  BY <1>3

\* So the clean-up of a copy process keeps the invariant.
LEMMA CleanupCopy ==
    ASSUME Simple, Whole, NEW t \in Tables, Cleanup(t), TypeOK'
    PROVE  Whole'
<1>0. Main \in Procs /\ t \in Procs /\ t # Main /\ \A u \in Tables : u # Main /\ u \in Procs
  BY Names
<1>1. /\ log' = log /\ tick' = tick /\ snapAt' = snapAt /\ reg' = reg /\ prev' = prev /\ cur' = cur
      /\ data' = data /\ twice' = twice /\ dsync' = dsync
      /\ launching' = launching /\ work' = work /\ big' = big /\ held' = held /\ csnap' = csnap
  BY DEF Cleanup, provider, queue, tuning, sync
<1>2. /\ pc[t] = "cleanup" /\ pc'[t] = "apply" /\ \A q \in Procs : q # t => pc'[q] = pc[q]
  BY <1>0 DEF Cleanup, Goto, Whole, TypeOK
<1>3. /\ \A q \in Procs : q # t => mem'[q] = mem[q]
      /\ \A u \in Tables : mem'[t][u] = mem[t][u] /\ db'[u] = db[u]
  BY CleanupNothing
<1>4. InvQueue'
  <2>1. ASSUME NEW q \in Procs
        PROVE  BatchOK(q)'
    BY <1>1, <1>2 DEF Whole, InvQueue, BatchOK
  <2>2. DsyncInv'
    BY <1>0, <1>1, <1>2, <1>3, DsyncKept DEF Whole, InvQueue
  <2> QED
    BY <2>1, <2>2, <1>1 DEF Whole, InvQueue, TicksOK
<1>5. MemOK' /\ InvOne'
  <2>1. ASSUME NEW q \in Procs, NEW u \in Tables
        PROVE  mem'[q][u] = mem[q][u]
    BY <1>3
  <2>2. pc'[Main] = pc[Main] /\ mem'[Main] = mem[Main] /\ \A u \in Tables : db'[u] = db[u]
    BY <1>0, <1>2, <1>3
  <2> QED
    BY <2>1, <2>2, <1>1 DEF Whole, MemOK, InvOne, MainIn
<1>6. TableOK(t)'
  <2>0. /\ TableOK(t) /\ pc'[Main] = pc[Main] /\ mem'[Main] = mem[Main]
        /\ mem'[t][t] = mem[t][t] /\ db'[t] = db[t]
    BY <1>0, <1>2, <1>3 DEF Whole
  <2>1. PlaceOK(t)' /\ RowOK(t)'
    BY <2>0, <1>1, <1>2 DEF TableOK, PlaceOK, RowOK, CopyLabels, NextEnds
  <2>2. MainOK(t)'
    BY <2>0, <1>1, <1>2 DEF TableOK, MainOK, MainIn, SameRow
  <2>3. CopyOK(t)'
    <3>1. CopyOK(t) /\ CopyIn(t) /\ \A u \in Tables : mem'[t][u] = mem[t][u]
      BY <2>0, <1>2, <1>3 DEF TableOK, CopyIn
    <3> QED
      BY <3>1, <2>0, <1>1, <1>2 DEF CopyOK, SameRow
  <2>4. CountOK(t, t)' /\ CountOK(Main, t)' /\ GcOK(t)'
    BY <2>0, <1>1 DEF TableOK, CountOK, GcOK
  <2>5. DataOK(t)'
    BY <2>0, <1>1, <1>2 DEF TableOK, DataOK, Ev, MainIn
  <2> QED
    BY <2>0, <2>1, <2>2, <2>3, <2>4, <2>5, <1>1 DEF TableOK
<1>7. ASSUME NEW u \in Tables, u # t
      PROVE  TableOK(u)'
  <2>1. /\ TableOK(u) /\ pc'[u] = pc[u] /\ pc'[Main] = pc[Main]
        /\ mem'[u] = mem[u] /\ mem'[Main] = mem[Main] /\ db'[u] = db[u]
    BY <1>0, <1>2, <1>3, <1>7 DEF Whole
  <2> QED
    BY <2>1, <1>1, Frame
<1> QED
  BY <1>4, <1>5, <1>6, <1>7 DEF Whole

\* A snapshot that the reader is past hides nothing.
LEMMA Hidden ==
    ASSUME NEW s \in Int, NEW n \in Nat, s <= n
    PROVE  Later(s, n) = n /\ Later(NoSnap, n) = n
BY DEF Later, NoSnap

\* The clean-up of main drops a snapshot only when the previous tick is past it.
LEMMA CleanupEffect ==
    ASSUME Whole, Cleanup(Main), NEW u \in Tables
    PROVE  LET r == mem[Main][u]  n == mem'[Main][u]  d == db[u]  e == db'[u]
           IN  /\ n.state = r.state /\ ~n.changed
               /\ d.state = "absent" => e = d
               /\ \/ n = r /\ e = d
                  \/ /\ r.state = "ok" /\ n.tick = r.tick /\ n.snap = r.snap
                     /\ n.okc = r.okc /\ n.last = r.last /\ n.gc = cur[Main] /\ e = d
                  \/ /\ r.state = "ok" /\ n.tick = r.tick /\ n.gc = r.gc
                     /\ n.snap = NoSnap /\ n.okc = 0
                     /\ r.snap <= snapAt[prev[Main]]
                     /\ d.state # "absent" => /\ d.state = "ok" /\ e.state = "ok"
                                              /\ e.tick = d.tick /\ e.snap = NoSnap
                                              /\ d.snap <= snapAt[prev[Main]]
<1>0. Main \in Procs /\ TypeOK /\ \A w \in Tables : w # Main /\ w \in Procs
  BY Names DEF Whole
<1>2. pc[Main] = "cleanup"
  BY DEF Cleanup
<1>3. /\ prev[Main] \in 0..tick /\ cur[Main] \in 0..tick /\ prev[Main] < cur[Main] /\ tick \in Nat
      /\ \A k \in 0..tick : snapAt[k] \in Nat
      /\ TicksOK
  BY <1>0, <1>2, Numbers DEF Whole, InvQueue, BatchOK
<1>4. LET r == mem[Main][u]  n == mem'[Main][u]  d == db[u]  e == db'[u]
       IN  /\ n.state = r.state /\ ~n.changed
           /\ d.state = "absent" => e = d
           /\ \/ n = r /\ e = d
              \/ /\ r.state = "ok" /\ n.tick = r.tick /\ n.snap = r.snap
                 /\ n.okc = r.okc /\ n.last = r.last /\ n.gc = cur[Main] /\ e = d
              \/ /\ r.state = "ok" /\ n.tick = r.tick /\ n.gc = r.gc
                 /\ n.snap = NoSnap /\ n.okc = 0
                 /\ r.snap <= snapAt[prev[Main]]
                 /\ d.state # "absent" => /\ d.state = "ok" /\ e.state = "ok"
                                          /\ e.tick = d.tick /\ e.snap = NoSnap
                                          /\ d.snap <= snapAt[prev[Main]]
  <2> DEFINE r == mem[Main][u]
             n == mem'[Main][u]
             c == Collected(Main)[u]
  <2>1. Collected(Main) \in [Tables -> Object]
    BY <1>0, CollectedType
  <2>2. SavedAs(Main, Collected(Main))
    BY DEF Cleanup, SavedAs
  <2>3. /\ n.state = c.state /\ n.tick = c.tick /\ n.snap = c.snap
        /\ n.okc = c.okc /\ n.last = c.last /\ n.gc = c.gc /\ ~n.changed
        /\ ~c.changed => n = c /\ db'[u] = db[u]
        /\ db[u].state = "absent" => db'[u] = db[u]
        /\ c.changed /\ db[u].state # "absent" =>
              db'[u].state = c.state /\ db'[u].tick = c.tick /\ db'[u].snap = c.snap
    BY <1>0, <2>1, <2>2, SaveAll
  <2>4. ~r.changed /\ (r.state = "ok" /\ db[u].state # "absent" => SameRow(r, db[u]))
    BY <1>2 DEF Whole, TableOK, MainOK, MainIn
  <2>5. \/ c = r
        \/ /\ r.state = "ok" /\ c.state = "ok" /\ c.tick = r.tick /\ c.snap = r.snap
           /\ c.okc = r.okc /\ c.last = r.last /\ c.gc = cur[Main] /\ ~c.changed
        \/ /\ r.state = "ok" /\ c.state = "ok" /\ c.tick = r.tick /\ c.gc = r.gc
           /\ c.snap = NoSnap /\ c.okc = 0 /\ c.changed
           /\ r.gc # NoTick /\ r.gc < prev[Main]
    BY <1>2, CollectedMain
  <2>6. ASSUME r.gc # NoTick, r.gc < prev[Main]
        PROVE  /\ r.snap <= snapAt[prev[Main]]
               /\ db[u].state = "ok" => db[u].snap <= snapAt[prev[Main]]
    <3>1. GcOK(u)
      BY DEF Whole, TableOK
    <3>2. r.gc \in Nat /\ r.snap \in Int /\ db[u].snap \in Int
      BY <1>0, Rows
    <3>3. r.gc \in 0..tick
      BY <1>3, <2>6, <3>2
    <3>4. snapAt[r.gc] <= snapAt[prev[Main]] /\ snapAt[r.gc] \in Int /\ snapAt[prev[Main]] \in Int
      BY <1>3, <2>6, <3>3 DEF TicksOK
    <3> QED
      BY <2>6, <3>1, <3>2, <3>4 DEF GcOK
  <2> HIDE DEF c
  <2>7. CASE c = r
    BY <2>3, <2>4, <2>7
  <2>8. CASE c # r
    BY <2>3, <2>4, <2>5, <2>6, <2>8 DEF SameRow
  <2> QED
    BY <2>7, <2>8
<1> QED
  BY <1>4

\* So the clean-up of main keeps the invariant.
LEMMA CleanupMain ==
    ASSUME Simple, Whole, Cleanup(Main), TypeOK'
    PROVE  Whole'
<1>0. Main \in Procs /\ TypeOK /\ \A u \in Tables : u # Main /\ u \in Procs
  BY Names DEF Whole
<1>1. /\ log' = log /\ tick' = tick /\ snapAt' = snapAt /\ reg' = reg /\ prev' = prev /\ cur' = cur
      /\ data' = data /\ twice' = twice /\ dsync' = dsync
      /\ launching' = launching /\ work' = work /\ big' = big /\ held' = held /\ csnap' = csnap
  BY DEF Cleanup, provider, queue, tuning, sync
<1>2. /\ pc[Main] = "cleanup" /\ pc'[Main] = "apply"
      /\ \A q \in Procs : q # Main => pc'[q] = pc[q] /\ mem'[q] = mem[q]
  BY <1>0 DEF Cleanup, Goto, TypeOK
<1>3. /\ prev[Main] \in 0..tick /\ cur[Main] \in 0..tick /\ prev[Main] < cur[Main] /\ tick \in Nat
      /\ \A k \in 0..tick : snapAt[k] \in Nat
      /\ TicksOK
  BY <1>0, <1>2, Numbers DEF Whole, InvQueue, BatchOK
<1>4. ASSUME NEW u \in Tables
      PROVE  LET r == mem[Main][u]  n == mem'[Main][u]  d == db[u]  e == db'[u]
             IN  /\ n.state = r.state /\ ~n.changed
                 /\ d.state = "absent" => e = d
                 /\ \/ n = r /\ e = d
                    \/ /\ r.state = "ok" /\ n.tick = r.tick /\ n.snap = r.snap
                       /\ n.okc = r.okc /\ n.last = r.last /\ n.gc = cur[Main] /\ e = d
                    \/ /\ r.state = "ok" /\ n.tick = r.tick /\ n.gc = r.gc
                       /\ n.snap = NoSnap /\ n.okc = 0
                       /\ r.snap <= snapAt[prev[Main]]
                       /\ d.state # "absent" => /\ d.state = "ok" /\ e.state = "ok"
                                                /\ e.tick = d.tick /\ e.snap = NoSnap
                                                /\ d.snap <= snapAt[prev[Main]]
  BY CleanupEffect
<1>5. InvQueue'
  <2>1. ASSUME NEW q \in Procs
        PROVE  BatchOK(q)'
    BY <1>1, <1>2 DEF Whole, InvQueue, BatchOK
  <2>2. \A u \in Tables : db'[u] = db[u] \/ db'[u].state \in {"absent", "ok"}
    BY <1>4
  <2>3. DsyncInv'
    BY <2>2, <1>1, <1>2, DsyncKept DEF Whole, InvQueue
  <2> QED
    BY <2>1, <2>3, <1>1 DEF Whole, InvQueue, TicksOK
<1>6. MemOK' /\ InvOne'
  <2>1. ASSUME NEW q \in Procs, NEW u \in Tables
        PROVE  /\ mem'[q][u].state = "absent" => mem'[q][u] = NewTableState
               /\ mem'[q][u].okc >= 1 => q \in {u, Main}
               /\ mem'[q][u].snap <= Len(log)
    <3>1. CASE q # Main
      BY <3>1, <1>2 DEF Whole, MemOK
    <3>2. CASE q = Main
      <4>1. Len(log) \in Nat
        BY <1>0, Numbers
      <4>2. mem[Main][u].snap <= Len(log) /\ (mem[Main][u].state = "absent" => mem[Main][u] = NewTableState)
        BY <1>0 DEF Whole, MemOK
      <4> QED
        BY <3>2, <4>1, <4>2, <1>4 DEF NoSnap
    <3> QED
      BY <3>1, <3>2
  <2>2. \A u \in Tables : db'[u].state \in Copying => db[u].state \in Copying
    BY <1>4 DEF Copying
  <2>3. InvOne'
    <3>1. MainIn /\ \A u \in Tables : mem'[Main][u].state = mem[Main][u].state
      BY <1>2, <1>4 DEF MainIn
    <3> QED
      BY <2>2, <3>1 DEF Whole, InvOne
  <2> QED
    BY <2>1, <2>3, <1>1, <1>2 DEF MemOK, MainLabels
<1>7. ASSUME NEW u \in Tables
      PROVE  TableOK(u)'
  <2> DEFINE r == mem[Main][u]
             n == mem'[Main][u]
             d == db[u]
             e == db'[u]
  <2>0. TableOK(u) /\ pc'[u] = pc[u] /\ mem'[u] = mem[u] /\ r.state \in States
    BY <1>0, <1>2, Rows DEF Whole
  <2>1. /\ snapAt[cur[Main]] \in Nat /\ snapAt[prev[Main]] \in Nat
        /\ snapAt[prev[Main]] <= snapAt[cur[Main]]
    BY <1>3 DEF TicksOK
  <2>2. CASE e = d /\ (n = r \/ (/\ r.state = "ok" /\ n.state = "ok" /\ ~n.changed
                                 /\ n.tick = r.tick /\ n.snap = r.snap
                                 /\ n.okc = r.okc /\ n.last = r.last /\ n.gc = cur[Main]))
    <3>1. n.state = r.state /\ n.tick = r.tick /\ n.snap = r.snap /\ n.okc = r.okc /\ n.last = r.last
          /\ (~r.changed => ~n.changed)
      BY <2>2
    <3>2. PlaceOK(u)' /\ RowOK(u)'
      BY <2>0, <2>2, <3>1, <1>1, <1>2 DEF TableOK, PlaceOK, RowOK, NextEnds
    <3>3. MainOK(u)'
      BY <2>0, <2>2, <3>1, <1>1, <1>2 DEF TableOK, MainOK, MainIn, SameRow
    <3>4. CopyOK(u)' /\ CountOK(u, u)'
      BY <2>0, <2>2, <1>1 DEF TableOK, CopyOK, CopyIn, SameRow, CountOK
    <3>5. CountOK(Main, u)'
      BY <2>0, <2>2, <3>1, <1>1 DEF TableOK, CountOK
    <3>6. GcOK(u)'
      <4>1. CASE n = r
        BY <4>1, <2>0, <2>2, <1>1 DEF TableOK, GcOK
      <4>2. CASE r.state = "ok" /\ n.gc = cur[Main]
        <5>1. /\ r.snap <= snapAt[cur[Main]]
              /\ d.state # "absent" => d.state = "ok" /\ d.snap = r.snap
          BY <2>0, <4>2, <1>2 DEF TableOK, MainOK, MainIn, SameRow
        <5> QED
          BY <4>2, <5>1, <2>2, <3>1, <1>1, <1>3 DEF GcOK
      <4> QED
        BY <2>2, <4>1, <4>2
    <3>7. DataOK(u)'
      BY <2>0, <2>2, <3>1, <1>1, <1>2 DEF TableOK, DataOK, Ev, MainIn
    <3> QED
      BY <2>0, <3>2, <3>3, <3>4, <3>5, <3>6, <3>7, <1>1 DEF TableOK
  <2>3. CASE /\ r.state = "ok" /\ n.state = "ok" /\ ~n.changed /\ n.tick = r.tick /\ n.gc = r.gc
             /\ n.snap = NoSnap /\ n.okc = 0
             /\ r.snap <= snapAt[prev[Main]]
             /\ d.state = "absent" => e = d
             /\ d.state # "absent" => /\ d.state = "ok" /\ e.state = "ok"
                                      /\ e.tick = d.tick /\ e.snap = NoSnap
                                      /\ d.snap <= snapAt[prev[Main]]
    <3>1. r.snap \in Int /\ d.snap \in Int /\ Len(log) \in Nat
      BY <1>0, Rows, Numbers
    <3>2. e.state = d.state /\ e.snap <= d.snap
      BY <1>0, <2>3, Rows
    <3>3. PlaceOK(u)'
      BY <2>0, <2>3, <3>2, <1>1, <1>2 DEF TableOK, PlaceOK
    <3>4. RowOK(u)'
      <4>1. RowOK(u)
        BY <2>0 DEF TableOK
      <4>2. CASE d.state = "absent"
        BY <4>1, <4>2, <2>0, <2>3, <1>1 DEF RowOK, NextEnds
      <4>3. CASE d.state # "absent"
        BY <4>1, <4>3, <2>0, <2>1, <2>3, <3>1, <1>1 DEF RowOK, CopyOwns, NoSnap, NextEnds
      <4> QED
        BY <4>2, <4>3
    <3>5. MainOK(u)'
      <4>1. MainOK(u) /\ MainIn
        BY <2>0, <1>2 DEF TableOK, MainIn
      <4>2. NoSnap <= snapAt[cur[Main]]
        BY <2>1 DEF NoSnap
      <4> QED
        BY <4>1, <4>2, <2>0, <2>3, <1>1, <1>2 DEF MainOK, SameRow
    <3>6. CopyOK(u)'
      <4>1. CopyOK(u)
        BY <2>0 DEF TableOK
      <4>2. CASE d.state = "absent"
        BY <4>1, <4>2, <2>0, <2>3, <1>1 DEF CopyOK, CopyIn, SameRow
      <4>3. CASE d.state # "absent"
        BY <4>1, <4>3, <2>0, <2>3, <1>1 DEF CopyOK, CopyIn, SameRow
      <4> QED
        BY <4>2, <4>3
    <3>7. CountOK(u, u)'
      <4>1. mem[u][u].last \in 1..cur[u] => snapAt[mem[u][u].last] \in Nat
        <5>1. cur[u] \in 0..tick
          BY <1>0, Numbers DEF Whole, InvQueue, BatchOK
        <5> QED
          BY <5>1, <1>3
      <4>2. e.snap \in Int /\ NoSnap \in Int /\ e.snap \in {d.snap, NoSnap}
        BY <2>3, <3>1 DEF NoSnap
      <4> QED
        BY <4>1, <4>2, <2>0, <3>1, <3>2, <1>1 DEF TableOK, CountOK, NoSnap
    <3>8. CountOK(Main, u)' /\ GcOK(u)'
      <4>1. CountOK(Main, u)'
        BY <2>3 DEF CountOK
      <4>2. GcOK(u)'
        <5>1. r.gc # NoTick => r.gc <= cur[Main] /\ snapAt[r.gc] \in Nat /\ d.state \in {"absent", "ok"}
          <6>1. GcOK(u) /\ r.gc \in Nat
            BY <2>0, <1>0, Rows DEF TableOK
          <6> QED
            BY <6>1, <1>3 DEF GcOK
        <5> QED
          BY <5>1, <2>3, <3>2, <1>1 DEF GcOK, NoSnap
      <4> QED
        BY <4>1, <4>2
    <3>9. DataOK(u)'
      <4>1. DataOK(u) /\ MainIn
        BY <2>0, <1>2 DEF TableOK, MainIn
      <4>2. /\ Later(r.snap, snapAt[prev[Main]]) = snapAt[prev[Main]]
            /\ Later(NoSnap, snapAt[prev[Main]]) = snapAt[prev[Main]]
            /\ d.state # "absent" => Later(d.snap, snapAt[prev[Main]]) = snapAt[prev[Main]]
        BY <2>1, <2>3, <3>1, Hidden
      <4> QED
        BY <4>1, <4>2, <2>0, <2>3, <1>1, <1>2 DEF DataOK, Ev, CopyOwns
    <3> QED
      BY <2>0, <3>3, <3>4, <3>5, <3>6, <3>7, <3>8, <3>9, <1>1 DEF TableOK
  <2> QED
    BY <1>4, <2>2, <2>3
<1> QED
  BY <1>5, <1>6, <1>7 DEF Whole

-----------------------------------------------------------------------------
\* The batch is applied

\* Whatever the order of the events, those of the snapshot are left out: by the
\* time a snapshot is dropped none of them is in the batch.
LEMMA AppliedIs ==
    ASSUME Whole, NEW p \in Procs, pc[p] = "apply", NEW u \in Tables,
           NEW late \in SUBSET UNION {BatchEv(v, prev[p], cur[p]) :
                                v \in {w \in Tables : Counted(p)[w].snap # mem[p][w].snap}}
    PROVE  Applied(p, u, late) =
              IF Wants(p, u)
              THEN {i \in BatchEv(u, prev[p], cur[p]) : i > mem[p][u].snap} ELSE {}
<1> SUFFICES ASSUME Wants(p, u), NEW i \in BatchEv(u, prev[p], cur[p]), i \in late
             PROVE  i > mem[p][u].snap
  BY DEF Applied
<1>1. PICK v \in Tables : Counted(p)[v].snap # mem[p][v].snap /\ i \in BatchEv(v, prev[p], cur[p])
  OBVIOUS
<1>2. v = u
  BY <1>1 DEF BatchEv, Ev
<1>3. mem[p][u].snap <= snapAt[prev[p]]
  BY <1>1, <1>2, CountedMem
<1>4. i \in Nat /\ ~(i <= snapAt[prev[p]])
  BY DEF BatchEv, Ev, Whole, TypeOK
<1>5. mem[p][u].snap \in Int /\ snapAt[prev[p]] \in Int
  BY Rows, Numbers DEF Whole
<1> QED
  BY <1>3, <1>4, <1>5

\* A table that is at the later of a snapshot and a tick gets to the later of
\* the snapshot and the next tick, and no event reaches it twice.
LEMMA Advance ==
    ASSUME NEW u \in Tables, NEW s \in Int, NEW a \in Nat, NEW b \in Nat, a <= b, Len(log) \in Nat
    PROVE  LET new == {i \in Ev(u, b) \ Ev(u, a) : i > s}
           IN  /\ Ev(u, Later(s, a)) \cup new = Ev(u, Later(s, b))
               /\ Ev(u, Later(s, a)) \cap new = {}
BY DEF Ev, Later

\* A batch applies the events after the snapshot to the tables that want it, and counts it.
LEMMA ApplyEffect ==
    ASSUME Whole, NEW p \in Procs, Apply(p), NEW u \in Tables
    PROVE  LET r == mem[p][u]  n == mem'[p][u]  d == db[u]  e == db'[u]
           IN  /\ Wants(p, u) => data'[u] = Ev(u, Later(r.snap, snapAt[cur[p]]))
               /\ ~Wants(p, u) => data'[u] = data[u]
               /\ twice'[u] = {}
               /\ n.state = r.state /\ n.tick = r.tick /\ n.gc = r.gc /\ ~n.changed
               /\ d.state = "absent" => e = d
               /\ \/ n = r /\ e = d
                  \/ /\ Wants(p, u) /\ e = d /\ n.snap = r.snap
                     /\ n.last = cur[p] /\ r.snap <= snapAt[cur[p]]
                  \/ /\ Wants(p, u) /\ n.snap = NoSnap /\ n.okc = 0
                     /\ r.snap <= snapAt[prev[p]]
                     /\ d.state # "absent" => /\ e.state = d.state /\ e.tick = d.tick
                                              /\ e.snap = NoSnap /\ d.snap = r.snap
<1> DEFINE r == mem[p][u]
           n == mem'[p][u]
           c == Counted(p)[u]
           new == {i \in BatchEv(u, prev[p], cur[p]) : i > r.snap}
<1>0. TypeOK /\ pc[p] = "apply"
  BY DEF Whole, Apply
<1>1. /\ data'[u] = data[u] \cup (IF Wants(p, u) THEN new ELSE {})
      /\ twice'[u] = twice[u] \cup (data[u] \cap (IF Wants(p, u) THEN new ELSE {}))
  <2> DEFINE S == UNION {BatchEv(v, prev[p], cur[p]) :
                            v \in {w \in Tables : Counted(p)[w].snap # mem[p][w].snap}}
  <2>1. PICK late \in SUBSET S :
            /\ data' = [t \in Tables |-> data[t] \cup Applied(p, t, late)]
            /\ twice' = [t \in Tables |-> twice[t] \cup (data[t] \cap Applied(p, t, late))]
    BY DEF Apply
  <2>2. Applied(p, u, late) = IF Wants(p, u) THEN new ELSE {}
    BY <1>0, AppliedIs
  <2> HIDE DEF S, new
  <2> QED
    BY <2>1, <2>2
<1>2. /\ r \in Object /\ ~r.changed /\ twice[u] = {}
      /\ Wants(p, u) => /\ data[u] = Ev(u, Later(r.snap, snapAt[prev[p]]))
                        /\ db[u].state # "absent" => SameRow(r, db[u])
  BY <1>0, Wanted DEF Whole, TableOK
<1>3. /\ Wants(p, u) => data'[u] = Ev(u, Later(r.snap, snapAt[cur[p]]))
      /\ ~Wants(p, u) => data'[u] = data[u]
      /\ twice'[u] = {}
  <2>1. CASE ~Wants(p, u)
    BY <1>1, <1>2, <2>1
  <2>2. CASE Wants(p, u)
    <3>1. /\ prev[p] \in 0..tick /\ cur[p] \in 0..tick /\ prev[p] <= cur[p]
          /\ r.snap \in Int /\ Len(log) \in Nat
      BY <1>0, Numbers, Rows DEF Whole, InvQueue, BatchOK
    <3>2. snapAt[prev[p]] \in Nat /\ snapAt[cur[p]] \in Nat /\ snapAt[prev[p]] <= snapAt[cur[p]]
      BY <1>0, <3>1, Numbers DEF Whole, InvQueue, TicksOK
    <3>3. new = {i \in Ev(u, snapAt[cur[p]]) \ Ev(u, snapAt[prev[p]]) : i > r.snap}
      BY DEF BatchEv
    <3>4. /\ data[u] \cup new = Ev(u, Later(r.snap, snapAt[cur[p]]))
          /\ data[u] \cap new = {}
      BY <1>2, <2>2, <3>1, <3>2, <3>3, Advance
    <3> QED
      BY <1>1, <1>2, <2>2, <3>4
  <2> QED
    BY <2>1, <2>2
<1>4. Counted(p) \in [Tables -> Object] /\ SavedAs(p, Counted(p))
  BY <1>0, CountedType DEF Apply, SavedAs
<1>5. /\ n.state = c.state /\ n.tick = c.tick /\ n.snap = c.snap
      /\ n.okc = c.okc /\ n.last = c.last /\ n.gc = c.gc /\ ~n.changed
      /\ ~c.changed => n = c /\ db'[u] = db[u]
      /\ db[u].state = "absent" => db'[u] = db[u]
      /\ c.changed /\ db[u].state # "absent" =>
            db'[u].state = c.state /\ db'[u].tick = c.tick /\ db'[u].snap = c.snap
  BY <1>0, <1>4, SaveAll
<1>6. \/ c = r
      \/ /\ Wants(p, u) /\ ~c.changed
         /\ c.state = r.state /\ c.tick = r.tick /\ c.snap = r.snap /\ c.gc = r.gc
         /\ c.last = cur[p] /\ r.snap <= snapAt[cur[p]]
      \/ /\ Wants(p, u) /\ c.changed
         /\ c.state = r.state /\ c.tick = r.tick /\ c.gc = r.gc
         /\ c.snap = NoSnap /\ c.okc = 0
         /\ r.snap # NoSnap /\ r.snap <= snapAt[prev[p]]
  BY <1>0, CountedMem
<1> HIDE DEF c, new
<1>7. CASE c = r
  BY <1>2, <1>3, <1>5, <1>7
<1>8. CASE c # r
  BY <1>2, <1>3, <1>5, <1>6, <1>8 DEF SameRow
<1> QED
  BY <1>7, <1>8

\* What the step does to the process itself and to the queue.
LEMMA ApplyMoves ==
    ASSUME Simple, Whole, NEW p \in Procs, Apply(p)
    PROVE  /\ log' = log /\ tick' = tick /\ snapAt' = snapAt /\ reg' = reg /\ cur' = cur
           /\ launching' = launching /\ csnap' = csnap /\ big' = big /\ held' = held
           /\ pc[p] = "apply" /\ pc'[p] = "poll" /\ prev'[p] = cur[p] /\ work'[p]
           /\ \A q \in Procs : q # p => /\ pc'[q] = pc[q] /\ mem'[q] = mem[q]
                                        /\ prev'[q] = prev[q] /\ work'[q] = work[q]
           /\ InvQueue' /\ MemOK' /\ InvOne'
<1>0. Main \in Procs /\ TypeOK
  BY Names DEF Whole
<1>1. /\ log' = log /\ tick' = tick /\ snapAt' = snapAt /\ reg' = reg /\ cur' = cur
      /\ launching' = launching /\ csnap' = csnap /\ dsync' = dsync
      /\ big' = big /\ held' = held
  BY DEF Apply, provider, sync
<1>2. /\ pc[p] = "apply" /\ pc'[p] = "poll" /\ prev'[p] = cur[p]
      /\ \A q \in Procs : q # p => /\ pc'[q] = pc[q] /\ mem'[q] = mem[q]
                                   /\ prev'[q] = prev[q]
  BY <1>0 DEF Apply, Goto, TypeOK
<1>3. work'[p] /\ \A q \in Procs : q # p => work'[q] = work[q]
  BY <1>0 DEF Apply, TypeOK
<1>7. \A u \in Tables : db'[u].state = db[u].state /\ mem'[Main][u].state = mem[Main][u].state
  BY <1>0, <1>2, ApplyEffect
<1>4. InvQueue'
  <2>1. ASSUME NEW q \in Procs
        PROVE  BatchOK(q)'
    <3>1. BatchOK(q) /\ cur[q] \in Nat
      BY <1>0, Numbers DEF Whole, InvQueue
    <3> QED
      BY <3>1, <1>1, <1>2 DEF BatchOK
  <2>2. DsyncInv'
    <3>1. DsyncInv /\ cur[Main] \in Nat
      BY <1>0, Numbers DEF Whole, InvQueue
    <3>2. pc'[Main] \in {"start", "launch"} => pc[Main] = pc'[Main] /\ mem'[Main] = mem[Main]
      BY <1>0, <1>2
    <3>3. prev'[Main] = prev[Main] \/ prev'[Main] = cur[Main]
      BY <1>0, <1>2
    <3>4. \A u \in Tables : db'[u].state = "wanna-sync" => db'[u].tick = db[u].tick
      BY ApplyEffect
    <3> QED
      BY <3>1, <3>2, <3>3, <3>4, <1>1, <1>7 DEF DsyncInv
  <2> QED
    BY <2>1, <2>2, <1>1 DEF Whole, InvQueue, TicksOK
<1>5. MemOK'
  <2>1. ASSUME NEW q \in Procs, NEW u \in Tables
        PROVE  /\ mem'[q][u].state = "absent" => mem'[q][u] = NewTableState
               /\ mem'[q][u].okc >= 1 => q \in {u, Main}
               /\ mem'[q][u].snap <= Len(log)
    <3>1. CASE q # p
      BY <3>1, <1>2 DEF Whole, MemOK
    <3>2. CASE q = p
      <4>1. Len(log) \in Nat
        BY <1>0, Numbers
      <4>2. mem[p][u].snap <= Len(log) /\ (mem[p][u].state = "absent" => mem[p][u] = NewTableState)
            /\ (mem[p][u].okc >= 1 => p \in {u, Main})
        BY DEF Whole, MemOK
      <4>3. Wants(p, u) => p \in {u, Main} /\ mem[p][u].state # "absent"
        BY <1>2, Wanted
      <4>4. LET r == mem[p][u]  n == mem'[p][u]
            IN  n.state = r.state /\ (n = r \/ (Wants(p, u) /\ n.snap \in {r.snap, NoSnap}))
        BY ApplyEffect
      <4> QED
        BY <3>2, <4>1, <4>2, <4>3, <4>4 DEF NoSnap
    <3> QED
      BY <3>1, <3>2
  <2>2. pc'[Main] \in MainLabels /\ (pc'[Main] = "down" => p # Main /\ pc[Main] = "down")
    BY <1>0, <1>2 DEF Whole, MemOK, MainLabels
  <2> QED
    BY <2>1, <2>2, <1>0, <1>1, <1>2 DEF Whole, MemOK
<1>6. InvOne'
  <2>1. MainIn' => MainIn
    BY <1>0, <1>2 DEF MainIn
  <2> QED
    BY <2>1, <1>7 DEF Whole, InvOne
<1> QED
  BY <1>1, <1>2, <1>3, <1>4, <1>5, <1>6

\* The batch of a copy process keeps the invariant.
LEMMA ApplyCopy ==
    ASSUME Simple, Whole, NEW t \in Tables, Apply(t), TypeOK'
    PROVE  Whole'
<1> DEFINE r == mem[t][t]
           n == mem'[t][t]
           d == db[t]
           e == db'[t]
<1>0. t \in Procs /\ Main \in Procs /\ t # Main /\ TypeOK /\ (\A u \in Tables : u \in Procs /\ u # Main)
  BY Names DEF Whole
<1>1. /\ log' = log /\ tick' = tick /\ snapAt' = snapAt /\ reg' = reg /\ cur' = cur
      /\ launching' = launching /\ csnap' = csnap /\ big' = big /\ held' = held
      /\ pc[t] = "apply" /\ pc'[t] = "poll" /\ prev'[t] = cur[t] /\ work'[t]
      /\ \A q \in Procs : q # t => /\ pc'[q] = pc[q] /\ mem'[q] = mem[q]
                                   /\ prev'[q] = prev[q] /\ work'[q] = work[q]
      /\ InvQueue' /\ MemOK' /\ InvOne'
  BY <1>0, ApplyMoves
<1>2. TableOK(t) /\ r.state \in {"catching-up", "do-sync"}
      /\ \A u \in Tables : Wants(t, u) <=> u = t
  BY <1>0, <1>1 DEF Whole, TableOK, CopyOK, Wants
<1>3. /\ data'[t] = Ev(t, Later(r.snap, snapAt[cur[t]])) /\ twice'[t] = {}
      /\ n.state = r.state /\ n.tick = r.tick /\ n.gc = r.gc /\ ~n.changed
      /\ d.state = "absent" => e = d
      /\ \/ n = r /\ e = d
         \/ e = d /\ n.snap = r.snap /\ n.last = cur[t] /\ r.snap <= snapAt[cur[t]]
         \/ /\ n.snap = NoSnap /\ n.okc = 0
            /\ r.snap <= snapAt[prev[t]]
            /\ d.state # "absent" => /\ e.state = d.state /\ e.tick = d.tick
                                     /\ e.snap = NoSnap /\ d.snap = r.snap
  BY <1>0, <1>2, ApplyEffect
<1>4. d.state # "absent" => SameRow(r, d)
  BY <1>0, <1>1, <1>2, Wanted
<1>5. /\ e.state = d.state /\ e.tick = d.tick
      /\ d.state \in {"absent", "catching-up", "do-sync"}
      /\ e.snap \in {d.snap, NoSnap}
  BY <1>2, <1>3, <1>4 DEF SameRow
<1>6. ASSUME NEW u \in Tables, u # t
      PROVE  TableOK(u)'
  <2>1. /\ ~Wants(t, u) /\ TableOK(u) /\ u \in Procs
    BY <1>0, <1>2, <1>6 DEF Whole
  <2>2. data'[u] = data[u] /\ twice'[u] = {} /\ db'[u] = db[u]
    BY <1>0, <2>1, ApplyEffect
  <2>3. twice[u] = {}
    BY <2>1 DEF TableOK
  <2> QED
    BY <1>0, <1>1, <1>6, <2>1, <2>2, <2>3, Frame
<1>7. TableOK(t)'
  <2>0. /\ prev[t] \in 0..tick /\ cur[t] \in 1..tick /\ cur[t] > prev[t]
        /\ prev[Main] \in Nat /\ cur[Main] \in Nat /\ Len(log) \in Nat
        /\ r.snap \in Int /\ d.snap \in Int
    <3>1. BatchOK(t)
      BY <1>0 DEF Whole, InvQueue
    <3>2. /\ prev[t] \in Nat /\ cur[t] \in Nat /\ tick \in Nat /\ Len(log) \in Nat
          /\ prev[Main] \in Nat /\ cur[Main] \in Nat
      BY <1>0, Numbers
    <3>3. r.snap \in Int /\ d.snap \in Int
      BY <1>0, Rows
    <3> QED
      BY <1>1, <3>1, <3>2, <3>3 DEF BatchOK
  <2>1. /\ snapAt[prev[t]] \in Nat /\ snapAt[cur[t]] \in Nat /\ snapAt[prev[t]] <= snapAt[cur[t]]
    BY <1>0, <2>0, Numbers DEF Whole, InvQueue, TicksOK
  <2>2. PlaceOK(t)'
    BY <1>0, <1>1, <1>2, <1>3 DEF TableOK, PlaceOK, CopyLabels
  <2>3. RowOK(t)'
    <3>1. RowOK(t)
      BY <1>2 DEF TableOK
    <3>2. d.state = "do-sync" => /\ prev'[t] <= prev'[Main] /\ prev'[Main] = prev[Main]
                                 /\ cur[t] # cur[Main] /\ ~(BatchCollect /\ big[t])
      <4>1. r.state = "do-sync" => cur[t] < r.tick
        BY <1>2, <1>1 DEF TableOK, CopyOK
      <4> QED
        BY <1>0, <1>1, <1>4, <2>0, <3>1, <4>1 DEF SameRow, RowOK
    <3>3. prev'[Main] = prev[Main] /\ e.snap \in Int /\ e.snap <= d.snap
      BY <1>0, <1>1, <1>5, <2>0, Rows DEF NoSnap
    <3>4. e.snap = d.snap \/ (e.snap = NoSnap /\ d.state # "absent")
      BY <1>3, <1>5
    <3>5. e.snap <= Len(log) /\ csnap'[t] <= Len(log) /\ pc'[t] = "poll"
      <4>1. d.snap <= Len(log) /\ csnap[t] <= Len(log)
        BY <3>1 DEF RowOK
      <4> QED
        BY <1>1, <2>0, <3>3, <4>1
    <3>6. CASE d.state = "absent"
      BY <3>1, <3>4, <3>5, <3>6, <1>1, <1>3 DEF RowOK, CopyOwns
    <3>7. CASE d.state = "catching-up"
      BY <3>1, <3>5, <3>7, <1>1, <1>5 DEF RowOK, CopyOwns, NextEnds
    <3>8. CASE d.state = "do-sync"
      <4>1. cur'[Main] = cur[Main] /\ snapAt[cur[Main]] \in Int
        BY <1>0, <1>1, Numbers
      <4> QED
        BY <3>1, <3>2, <3>3, <3>5, <3>8, <4>1, <1>1, <1>5, <2>0 DEF RowOK, CopyOwns
    <3> QED
      BY <3>6, <3>7, <3>8, <1>5
  <2>4. MainOK(t)'
    BY <1>0, <1>1, <1>2, <1>5 DEF TableOK, MainOK, MainIn, SameRow
  <2>5. CopyOK(t)'
    <3>1. \A u \in Tables : mem'[t][u].gc = mem[t][u].gc
      BY <1>0, ApplyEffect
    <3> QED
      BY <3>1, <1>1, <1>2 DEF TableOK, CopyOK, CopyIn
  <2>6. CountOK(t, t)'
    <3>1. CountOK(t, t)
      BY <1>2 DEF TableOK
    <3>2. CASE n = r /\ e = d
      BY <3>1, <3>2, <1>1 DEF CountOK
    <3>3. CASE e = d /\ n.snap = r.snap /\ n.last = cur[t] /\ r.snap <= snapAt[cur[t]]
      BY <3>3, <1>0, <1>1, <1>4, <1>5, <2>0 DEF CountOK, SameRow, CopyOwns
    <3>4. CASE n.okc = 0
      BY <3>4 DEF CountOK
    <3> QED
      BY <3>2, <3>3, <3>4, <1>3
  <2>7. CountOK(Main, t)' /\ GcOK(t)'
    <3>1. mem'[Main][t] = mem[Main][t] /\ CountOK(Main, t) /\ GcOK(t)
      BY <1>0, <1>1, <1>2 DEF TableOK
    <3>2. d.state \in {"absent", "ok"} => e = d
      BY <1>3, <1>5
    <3> QED
      BY <3>1, <3>2, <1>1, <1>0 DEF CountOK, GcOK
  <2>8. DataOK(t)'
    <3>1. mem[Main][t].state = "ok" => ~MainIn
      BY <1>1, <1>2 DEF TableOK, MainOK
    <3>2. MainIn' <=> MainIn
      BY <1>0, <1>1 DEF MainIn
    <3>3. d.state # "absent" => Later(e.snap, snapAt[cur[t]]) = Later(r.snap, snapAt[cur[t]])
      <4>1. CASE e = d
        BY <4>1, <1>4 DEF SameRow
      <4>2. CASE r.snap <= snapAt[prev[t]] /\ e.snap = NoSnap
        <5>1. \A a, c \in Int : a <= c => Later(a, c) = c
          BY DEF Later
        <5>2. /\ r.snap \in Int /\ e.snap \in Int /\ snapAt[cur[t]] \in Int
              /\ r.snap <= snapAt[cur[t]] /\ e.snap <= snapAt[cur[t]]
          BY <4>2, <2>0, <2>1 DEF NoSnap
        <5> QED
          BY <5>1, <5>2
      <4> QED
        BY <4>1, <4>2, <1>3
    <3>4. DataOK(t)' <=>
              /\ e.state \in CopyOwns => data'[t] = Ev(t, Later(e.snap, snapAt[cur[t]]))
              /\ e.state = "ok" => data'[t] = Ev(t, Later(e.snap, snapAt[prev[Main]]))
              /\ MainIn' /\ mem[Main][t].state = "ok"
                    => data'[t] = Ev(t, Later(mem[Main][t].snap, snapAt[prev[Main]]))
      BY <1>0, <1>1 DEF DataOK, Ev
    <3> QED
      BY <1>3, <1>5, <3>1, <3>2, <3>3, <3>4 DEF CopyOwns
  <2> QED
    BY <2>2, <2>3, <2>4, <2>5, <2>6, <2>7, <2>8, <1>3 DEF TableOK
<1> QED
  BY <1>1, <1>6, <1>7 DEF Whole

\* The batch of main keeps the invariant.
LEMMA ApplyMain ==
    ASSUME Simple, Whole, Apply(Main), TypeOK'
    PROVE  Whole'
<1>0. Main \in Procs /\ TypeOK /\ (\A u \in Tables : u \in Procs /\ u # Main)
  BY Names DEF Whole
<1>1. /\ log' = log /\ tick' = tick /\ snapAt' = snapAt /\ reg' = reg /\ cur' = cur
      /\ launching' = launching /\ csnap' = csnap /\ big' = big /\ held' = held
      /\ pc[Main] = "apply" /\ pc'[Main] = "poll" /\ prev'[Main] = cur[Main] /\ work'[Main]
      /\ \A q \in Procs : q # Main => /\ pc'[q] = pc[q] /\ mem'[q] = mem[q]
                                      /\ prev'[q] = prev[q] /\ work'[q] = work[q]
      /\ InvQueue' /\ MemOK' /\ InvOne'
  BY <1>0, ApplyMoves
<1>2. /\ prev[Main] \in 0..tick /\ cur[Main] \in 1..tick /\ cur[Main] > prev[Main]
      /\ tick \in Nat /\ \A k \in 0..tick : snapAt[k] \in Nat
  <2>1. BatchOK(Main)
    BY <1>0 DEF Whole, InvQueue
  <2>2. prev[Main] \in Nat /\ cur[Main] \in Nat /\ tick \in Nat
    BY <1>0, Numbers
  <2> QED
    BY <1>0, <1>1, <2>1, <2>2, Numbers DEF BatchOK
<1>3. snapAt[prev[Main]] <= snapAt[cur[Main]]
  BY <1>2 DEF Whole, InvQueue, TicksOK
<1>4. ASSUME NEW u \in Tables
      PROVE  TableOK(u)'
  <2> DEFINE r == mem[Main][u]
             n == mem'[Main][u]
             d == db[u]
             e == db'[u]
  <2>0. /\ TableOK(u) /\ MainOK(u) /\ u \in Procs /\ u # Main
        /\ pc'[u] = pc[u] /\ mem'[u] = mem[u] /\ prev'[u] = prev[u] /\ work'[u] = work[u]
    BY <1>0, <1>1 DEF Whole, TableOK
  <2>1. Wants(Main, u) <=> r.state = "ok"
    BY DEF Wants
  <2>2. /\ r.state = "ok" => data'[u] = Ev(u, Later(r.snap, snapAt[cur[Main]]))
        /\ r.state # "ok" => data'[u] = data[u]
        /\ twice'[u] = {}
        /\ n.state = r.state /\ n.tick = r.tick /\ n.gc = r.gc /\ ~n.changed
        /\ d.state = "absent" => e = d
        /\ \/ n = r /\ e = d
           \/ /\ r.state = "ok" /\ e = d /\ n.snap = r.snap
              /\ n.last = cur[Main] /\ r.snap <= snapAt[cur[Main]]
           \/ /\ r.state = "ok" /\ n.snap = NoSnap /\ n.okc = 0
              /\ r.snap <= snapAt[prev[Main]]
              /\ d.state # "absent" => /\ e.state = d.state /\ e.tick = d.tick
                                       /\ e.snap = NoSnap /\ d.snap = r.snap
    BY <1>0, <2>1, ApplyEffect
  <2>3. /\ d.state \in States /\ r.state \in States
        /\ r.snap \in Int /\ d.snap \in Int /\ NoSnap \in Int
        /\ d.snap >= NoSnap /\ r.snap >= NoSnap /\ Len(log) \in Nat
    BY <1>0, Rows, Numbers DEF NoSnap
  <2>4. /\ r.state = "ok" /\ d.state # "absent" => d.state = "ok" /\ d.snap = r.snap
        /\ d.state = "ok" => r.state = "ok"
        /\ d.state # "do-sync"
    BY <1>1, <2>0, <2>3 DEF MainOK, MainIn, SameRow, States, Copying
  <2>5. /\ e.state = d.state
        /\ e.snap = d.snap \/ (e.snap = NoSnap /\ d.state = "ok")
        /\ d.state # "ok" => e = d
    BY <2>2, <2>4
  <2>6. PlaceOK(u)'
    BY <2>0, <2>2, <1>1 DEF TableOK, PlaceOK
  <2>7. RowOK(u)'
    <3>1. RowOK(u)
      BY <2>0 DEF TableOK
    <3>2. CASE d.state # "ok"
      BY <3>1, <3>2, <2>0, <2>4, <2>5, <1>1 DEF RowOK, NextEnds
    <3>3. CASE d.state = "ok"
      BY <3>1, <3>3, <2>0, <2>3, <2>5, <1>1, <1>2 DEF RowOK, CopyOwns, NoSnap
    <3> QED
      BY <3>2, <3>3
  <2>8. MainOK(u)'
    BY <1>1 DEF MainOK, MainIn
  <2>9. CopyOK(u)'
    <3>1. CopyOK(u)
      BY <2>0 DEF TableOK
    <3>2. CASE d.state # "ok"
      BY <3>1, <3>2, <2>0, <2>5, <1>1 DEF CopyOK, CopyIn, SameRow
    <3>3. CASE d.state = "ok"
      BY <3>1, <3>3, <2>0, <2>5, <1>1 DEF CopyOK, CopyIn, SameRow
    <3> QED
      BY <3>2, <3>3
  <2>10. CountOK(u, u)'
    <3>1. mem[u][u].last \in 1..cur[u] => snapAt[mem[u][u].last] \in Nat
      <4>1. cur[u] \in 0..tick
        BY <1>0, <2>0, Numbers DEF Whole, InvQueue, BatchOK
      <4> QED
        BY <4>1, <1>2
    <3> QED
      BY <3>1, <2>0, <2>3, <2>5, <1>1 DEF TableOK, CountOK, NoSnap
  <2>11. CountOK(Main, u)'
    <3>1. CountOK(Main, u)
      BY <2>0 DEF TableOK
    <3>2. CASE n = r /\ e = d
      BY <3>1, <3>2, <1>1 DEF CountOK
    <3>3. CASE r.state = "ok" /\ e = d /\ n.snap = r.snap /\ n.last = cur[Main] /\ r.snap <= snapAt[cur[Main]]
      <4>1. d.state \in {"absent", "ok"} /\ (d.state = "ok" => d.snap = r.snap)
        BY <2>4, <3>3
      <4> QED
        BY <4>1, <3>3, <2>0, <1>1, <1>2 DEF CountOK
    <3>4. CASE n.okc = 0
      BY <3>4 DEF CountOK
    <3> QED
      BY <3>2, <3>3, <3>4, <2>2
  <2>12. GcOK(u)'
    <3>1. GcOK(u)
      BY <2>0 DEF TableOK
    <3>2. r.gc # NoTick => snapAt[r.gc] \in Nat
      <4>1. r.gc \in Nat
        BY <1>0, Rows
      <4> QED
        BY <4>1, <3>1, <1>2 DEF GcOK
    <3>3. n.snap = r.snap \/ n.snap = NoSnap
      BY <2>2
    <3> QED
      BY <3>1, <3>2, <3>3, <2>2, <2>3, <2>5, <1>1 DEF GcOK, NoSnap
  <2>13. DataOK(u)'
    <3>1. DataOK(u)
      BY <2>0 DEF TableOK
    <3>2. d.state = "ok" => Later(e.snap, snapAt[cur[Main]]) = Later(r.snap, snapAt[cur[Main]])
      <4>1. CASE e = d
        BY <4>1, <2>4
      <4>2. CASE r.snap <= snapAt[prev[Main]] /\ e.snap = NoSnap
        <5>1. r.snap <= snapAt[cur[Main]] /\ snapAt[cur[Main]] \in Nat
          BY <4>2, <1>2, <1>3, <2>3
        <5> QED
          BY <5>1, <4>2, <2>3, Hidden
      <4> QED
        BY <4>1, <4>2, <2>2
    <3>3. r.state = "ok" => ~(/\ pc[u] \in {"sync", "cleanup", "apply"}
                              /\ mem[u][u].state \in {"catching-up", "do-sync"})
      BY <1>1, <2>0 DEF MainOK, MainIn
    <3>4. ~MainIn'
      BY <1>1 DEF MainIn
    <3>5. CASE r.state = "ok"
      BY <3>2, <3>3, <3>4, <3>5, <2>0, <2>2, <2>4, <2>5, <1>1 DEF DataOK, Ev, CopyOwns
    <3>6. CASE r.state # "ok"
      <4>1. data'[u] = data[u] /\ e = d /\ d.state # "ok"
        BY <3>6, <2>2, <2>4
      <4> QED
        BY <4>1, <3>1, <3>4, <2>0, <1>1 DEF DataOK, Ev
    <3> QED
      BY <3>5, <3>6
  <2> QED
    BY <2>2, <2>6, <2>7, <2>8, <2>9, <2>10, <2>11, <2>12, <2>13 DEF TableOK
<1> QED
  BY <1>1, <1>4 DEF Whole

-----------------------------------------------------------------------------
\* An exception in the batch

\* What the objects in memory keep of it.
LEMMA FailMem ==
    ASSUME Whole, NEW p \in Procs, Fail(p), NEW u \in Tables
    PROVE  LET r == mem[p][u]  n == mem'[p][u]  d == db[u]
           IN  \/ n = r
               \/ /\ p = Main /\ pc[p] = "cleanup" /\ r.state = "ok" /\ n.state = "ok"
                  /\ n.snap = r.snap /\ n.okc = r.okc /\ n.last = r.last /\ n.gc = cur[Main]
                  /\ r.snap <= snapAt[cur[Main]]
                  /\ d.state # "absent" => SameRow(r, d)
               \/ /\ pc[p] = "apply" /\ Wants(p, u) /\ n.state = r.state
                  /\ n.snap = r.snap /\ n.last = cur[p] /\ n.gc = r.gc
                  /\ r.snap <= snapAt[cur[p]]
                  /\ d.state # "absent" => SameRow(r, d)
               \/ /\ (p = Main /\ r.state = "ok") \/ Wants(p, u)
                  /\ n.state = r.state /\ n.snap = NoSnap /\ n.okc = 0 /\ n.gc = r.gc
<1> DEFINE r == mem[p][u]
           n == mem'[p][u]
<1>0. TypeOK /\ mem \in [Procs -> [Tables -> Object]]
  BY DEF Whole, TypeOK
<1>1. \/ n = r
      \/ pc[p] = "cleanup" /\ n = Collected(p)[u]
      \/ pc[p] = "apply" /\ n = Counted(p)[u]
  <2>1. CASE mem' = mem
    BY <2>1
  <2>2. ASSUME NEW done \in SUBSET Tables, NEW ts, pc[p] \in {"cleanup", "apply"},
               ts = IF pc[p] = "cleanup" THEN Collected(p) ELSE Counted(p),
               mem' = [mem EXCEPT ![p] = [t \in Tables |-> IF t \in done THEN ts[t] ELSE mem[p][t]]]
        PROVE  \/ n = r
               \/ pc[p] = "cleanup" /\ n = Collected(p)[u]
               \/ pc[p] = "apply" /\ n = Counted(p)[u]
    <3>1. n = IF u \in done THEN ts[u] ELSE r
      BY <1>0, <2>2
    <3> QED
      BY <2>2, <3>1
  <2> QED
    BY <2>1, <2>2 DEF Fail
<1>2. CASE pc[p] = "cleanup" /\ n = Collected(p)[u]
  <2>1. CASE p = Main
    <3>1. MainOK(u) /\ MainIn
      BY <1>2, <2>1 DEF Whole, TableOK, MainIn
    <3>2. /\ r.state = "ok" => r.snap <= snapAt[cur[Main]]
          /\ r.state = "ok" /\ db[u].state # "absent" => SameRow(r, db[u])
      BY <2>1, <3>1 DEF MainOK
    <3>3. \/ n = r
          \/ /\ r.state = "ok" /\ n.state = "ok" /\ n.tick = r.tick /\ n.snap = r.snap
             /\ n.okc = r.okc /\ n.last = r.last /\ n.gc = cur[Main] /\ ~n.changed
          \/ /\ r.state = "ok" /\ n.state = "ok" /\ n.tick = r.tick /\ n.gc = r.gc
             /\ n.snap = NoSnap /\ n.okc = 0 /\ n.changed
             /\ r.gc # NoTick /\ r.gc < prev[Main]
      BY <1>2, <2>1, CollectedMain
    <3> QED
      BY <1>2, <2>1, <3>2, <3>3
  <2>2. CASE p # Main
    BY <1>2, <2>2, CollectedCopy, Names
  <2> QED
    BY <2>1, <2>2
<1>3. CASE pc[p] = "apply" /\ n = Counted(p)[u]
  <2>1. Wants(p, u) /\ db[u].state # "absent" => SameRow(r, db[u])
    BY <1>3, Wanted
  <2>2. \/ n = r
        \/ /\ Wants(p, u) /\ ~n.changed
           /\ n.state = r.state /\ n.tick = r.tick /\ n.snap = r.snap /\ n.gc = r.gc
           /\ n.last = cur[p] /\ r.snap <= snapAt[cur[p]]
        \/ /\ Wants(p, u) /\ n.changed
           /\ n.state = r.state /\ n.tick = r.tick /\ n.gc = r.gc
           /\ n.snap = NoSnap /\ n.okc = 0
           /\ r.snap # NoSnap /\ r.snap <= snapAt[prev[p]]
    BY <1>3, CountedMem
  <2> QED
    BY <1>3, <2>1, <2>2
<1> QED
  BY <1>1, <1>2, <1>3

\* What it leaves alone.
LEMMA FailMoves ==
    ASSUME Simple, Whole, NEW p \in Procs, Fail(p), Tidy'
    PROVE  /\ log' = log /\ tick' = tick /\ snapAt' = snapAt /\ reg' = reg /\ cur' = cur
           /\ prev' = prev /\ db' = db /\ data' = data /\ twice' = twice
           /\ launching' = launching /\ csnap' = csnap /\ big' = big /\ held' = held
           /\ pc[p] \notin {"none", "reg", "launch", "down", "poll"} /\ pc'[p] = "poll" /\ work'[p]
           /\ \A q \in Procs : q # p => pc'[q] = pc[q] /\ mem'[q] = mem[q] /\ work'[q] = work[q]
           /\ InvQueue' /\ MemOK' /\ InvOne' /\ ~BatchCollect
<1>0. Main \in Procs /\ TypeOK
  BY Names DEF Whole
<1>1. /\ log' = log /\ tick' = tick /\ snapAt' = snapAt /\ reg' = reg /\ cur' = cur
      /\ prev' = prev /\ db' = db /\ data' = data /\ twice' = twice
      /\ launching' = launching /\ csnap' = csnap /\ dsync' = dsync
      /\ big' = big /\ held' = held
  BY DEF Fail, provider, queue, subscr, sync
<1>2. /\ pc[p] \notin {"none", "reg", "launch", "down", "poll"} /\ pc'[p] = "poll"
      /\ \A q \in Procs : q # p => pc'[q] = pc[q] /\ mem'[q] = mem[q]
  BY <1>0 DEF Fail, Goto, TypeOK
<1>3. work'[p] /\ \A q \in Procs : q # p => work'[q] = work[q]
  BY <1>0 DEF Fail, TypeOK
<1>4. InvQueue'
  <2>1. ASSUME NEW q \in Procs
        PROVE  BatchOK(q)'
    BY <1>1, <1>2 DEF Whole, InvQueue, BatchOK
  <2>2. DsyncInv'
    BY <1>0, <1>1, <1>2, DsyncKept DEF Whole, InvQueue
  <2> QED
    BY <2>1, <2>2, <1>1 DEF Whole, InvQueue, TicksOK
<1>5. MemOK'
  <2>1. ASSUME NEW q \in Procs, NEW u \in Tables
        PROVE  /\ mem'[q][u].state = "absent" => mem'[q][u] = NewTableState
               /\ mem'[q][u].okc >= 1 => q \in {u, Main}
               /\ mem'[q][u].snap <= Len(log)
    <3> DEFINE r == mem[q][u]
               n == mem'[q][u]
    <3>0. /\ r.state = "absent" => r = NewTableState
          /\ r.okc >= 1 => q \in {u, Main}
          /\ r.snap <= Len(log) /\ Len(log) \in Nat
      BY <1>0, Numbers DEF Whole, MemOK
    <3>1. CASE q # p
      BY <3>0, <3>1, <1>1, <1>2
    <3>2. CASE q = p
      <4>1. Wants(p, u) => p \in {u, Main} /\ mem[p][u].state # "absent"
        BY DEF Wants
      <4>2. \/ n = r
            \/ /\ p = Main /\ n.state = "ok" /\ n.snap = r.snap
            \/ /\ Wants(p, u) /\ n.state = r.state /\ n.snap = r.snap
            \/ /\ (p = Main /\ r.state = "ok") \/ Wants(p, u)
               /\ n.state = r.state /\ n.snap = NoSnap /\ n.okc = 0
        BY <3>2, FailMem
      <4>3. CASE n = r
        BY <3>0, <4>3, <1>1
      <4>4. CASE n # r
        <5>1. n.state # "absent" /\ n.snap \in {r.snap, NoSnap} /\ p \in {u, Main}
          BY <3>2, <4>1, <4>2, <4>4
        <5> QED
          BY <3>0, <3>2, <5>1, <1>1 DEF NoSnap
      <4> QED
        BY <4>3, <4>4
    <3> QED
      BY <3>1, <3>2
  <2>2. pc'[Main] \in MainLabels /\ (pc'[Main] = "down" => p # Main /\ pc[Main] = "down")
    BY <1>0, <1>2 DEF Whole, MemOK, MainLabels
  <2> QED
    BY <2>1, <2>2, <1>0, <1>1, <1>2 DEF Whole, MemOK
<1>6. InvOne'
  BY <1>0, <1>1, <1>2 DEF Whole, InvOne, MainIn
<1>7. ~BatchCollect
  <2>1. faults' = faults + 1 /\ faults \in Nat
    BY <1>0, BoundAssumption DEF Fail, TypeOK
  <2> QED
    BY <2>1 DEF Tidy
<1> QED
  BY <1>1, <1>2, <1>3, <1>4, <1>5, <1>6, <1>7

\* A batch that fails is rolled back and begins again.
LEMMA FailStep ==
    ASSUME Simple, Whole, NEW p \in Procs, Fail(p), Tidy', TypeOK'
    PROVE  Whole'
<1>0. Main \in Procs /\ TypeOK /\ (\A u \in Tables : u \in Procs /\ u # Main)
      /\ (p = Main \/ p \in Tables)
  BY Names DEF Whole
<1>1. /\ log' = log /\ tick' = tick /\ snapAt' = snapAt /\ reg' = reg /\ cur' = cur
      /\ prev' = prev /\ db' = db /\ data' = data /\ twice' = twice
      /\ launching' = launching /\ csnap' = csnap /\ big' = big /\ held' = held
      /\ pc[p] \notin {"none", "reg", "launch", "down", "poll"} /\ pc'[p] = "poll" /\ work'[p]
      /\ \A q \in Procs : q # p => pc'[q] = pc[q] /\ mem'[q] = mem[q] /\ work'[q] = work[q]
      /\ InvQueue' /\ MemOK' /\ InvOne' /\ ~BatchCollect
  BY FailMoves
<1>2. BatchOK(p) /\ pc[p] \notin {"none", "reg", "down", "poll"}
      /\ prev[p] \in Nat /\ cur[p] \in Nat /\ cur[p] \in 1..tick /\ tick \in Nat
      /\ \A k \in 0..tick : snapAt[k] \in Nat
  <2>1. BatchOK(p) /\ prev[p] \in Nat /\ cur[p] \in Nat /\ tick \in Nat
    BY <1>0, Numbers DEF Whole, InvQueue
  <2> QED
    BY <1>0, <1>1, <2>1, Numbers DEF BatchOK
\* The counters of the process that failed.
<1>3. ASSUME NEW u \in Tables
      PROVE  /\ CountOK(p, u)'
             /\ p = Main => GcOK(u)'
             /\ p # Main => mem'[p][u].gc = mem[p][u].gc
  <2> DEFINE r == mem[p][u]
             n == mem'[p][u]
             d == db[u]
  <2>1. \/ n = r
        \/ /\ p = Main /\ pc[p] = "cleanup" /\ r.state = "ok" /\ n.state = "ok"
           /\ n.snap = r.snap /\ n.okc = r.okc /\ n.last = r.last /\ n.gc = cur[Main]
           /\ r.snap <= snapAt[cur[Main]]
           /\ d.state # "absent" => SameRow(r, d)
        \/ /\ pc[p] = "apply" /\ Wants(p, u) /\ n.state = r.state
           /\ n.snap = r.snap /\ n.last = cur[p] /\ n.gc = r.gc
           /\ r.snap <= snapAt[cur[p]]
           /\ d.state # "absent" => SameRow(r, d)
        \/ /\ (p = Main /\ r.state = "ok") \/ Wants(p, u)
           /\ n.state = r.state /\ n.snap = NoSnap /\ n.okc = 0 /\ n.gc = r.gc
    BY FailMem
  <2>2. CountOK(p, u) /\ (p = Main => GcOK(u))
    <3>1. CASE p \in {u, Main}
      BY <3>1 DEF Whole, TableOK
    <3>2. CASE p \notin {u, Main}
      BY <3>2, <1>0 DEF Whole, MemOK, CountOK
    <3> QED
      BY <3>1, <3>2
  <2>3. Wants(p, u) => /\ p \in {u, Main}
                       /\ p = Main => r.state = "ok"
    BY DEF Wants
  <2>4. r.gc \in Nat /\ r.snap \in Int /\ d.snap \in Int
    BY <1>0, Rows
  <2>5. CountOK(p, u)' <=>
           (n.okc >= 1 =>
                /\ p \in {u, Main}
                /\ n.last \in 1..cur[p]
                /\ n.last <= prev[p] \/ n.last = cur[p]
                /\ n.snap <= snapAt[n.last]
                /\ p = u /\ d.state \in CopyOwns \cup {"ok"} => d.snap <= snapAt[n.last]
                /\ p = Main => d.state \in {"absent", "ok"}
                /\ p = Main /\ d.state = "ok" => d.snap <= snapAt[n.last])
    BY <1>1 DEF CountOK
  <2>6. p = Main => (GcOK(u)' <=>
            (n.gc # NoTick => /\ n.gc <= cur[Main]
                              /\ n.snap <= snapAt[n.gc]
                              /\ d.state \in {"absent", "ok"}
                              /\ d.state = "ok" => d.snap <= snapAt[n.gc]))
    BY <1>1 DEF GcOK
  <2>7. CASE n = r
    BY <2>2, <2>5, <2>6, <2>7 DEF CountOK, GcOK
  <2>8. CASE /\ p = Main /\ r.state = "ok"
             /\ n.snap = r.snap /\ n.okc = r.okc /\ n.last = r.last /\ n.gc = cur[Main]
             /\ r.snap <= snapAt[cur[Main]]
             /\ d.state # "absent" => SameRow(r, d)
    <3>1. CountOK(p, u)'
      BY <2>2, <2>5, <2>8 DEF CountOK
    <3>2. GcOK(u)'
      BY <1>2, <2>4, <2>6, <2>8 DEF SameRow
    <3> QED
      BY <3>1, <3>2, <2>8
  <2>9. CASE /\ Wants(p, u) /\ n.snap = r.snap /\ n.last = cur[p] /\ n.gc = r.gc
             /\ r.snap <= snapAt[cur[p]]
             /\ d.state # "absent" => SameRow(r, d)
    <3>1. CountOK(p, u)'
      BY <1>2, <2>3, <2>4, <2>5, <2>9 DEF SameRow, CopyOwns
    <3>2. p = Main => GcOK(u)'
      BY <2>2, <2>6, <2>9 DEF GcOK
    <3> QED
      BY <3>1, <3>2, <2>9
  <2>10. CASE n.snap = NoSnap /\ n.okc = 0 /\ n.gc = r.gc
    <3>1. CountOK(p, u)'
      BY <2>5, <2>10
    <3>2. ASSUME p = Main, n.gc # NoTick
          PROVE  /\ n.gc <= cur[Main] /\ NoSnap <= snapAt[n.gc]
                 /\ d.state \in {"absent", "ok"}
                 /\ d.state = "ok" => d.snap <= snapAt[n.gc]
      <4>1. /\ r.gc <= cur[Main] /\ d.state \in {"absent", "ok"}
            /\ d.state = "ok" => d.snap <= snapAt[r.gc]
        BY <2>2, <2>10, <3>2 DEF GcOK
      <4>2. r.gc \in 0..tick
        BY <1>2, <2>4, <3>2, <4>1
      <4> QED
        BY <1>2, <2>10, <4>1, <4>2 DEF NoSnap
    <3>3. p = Main => GcOK(u)'
      BY <2>6, <2>10, <3>2
    <3> QED
      BY <3>1, <3>3, <2>10
  <2> QED
    BY <2>1, <2>7, <2>8, <2>9, <2>10
<1>4. CASE p = Main
  <2>1. ASSUME NEW u \in Tables
        PROVE  TableOK(u)'
    <3>0. /\ TableOK(u) /\ pc'[u] = pc[u] /\ mem'[u] = mem[u] /\ work'[u] = work[u]
          /\ pc[Main] # "launch" /\ ~MainIn'
      BY <1>0, <1>1, <1>4 DEF Whole, MainIn
    <3>1. PlaceOK(u)'
      BY <3>0, <1>1 DEF TableOK, PlaceOK
    <3>2. RowOK(u)' /\ MainOK(u)' /\ CopyOK(u)'
      BY <3>0, <1>1 DEF TableOK, RowOK, MainOK, CopyOK, CopyIn, SameRow, NextEnds
    <3>3. CountOK(u, u)'
      BY <3>0, <1>1 DEF TableOK, CountOK
    <3>4. DataOK(u)'
      BY <3>0, <1>1 DEF TableOK, DataOK, Ev
    <3> QED
      BY <3>0, <3>1, <3>2, <3>3, <3>4, <1>1, <1>3, <1>4 DEF TableOK
  <2> QED
    BY <1>1, <2>1 DEF Whole
<1>5. CASE p \in Tables
  <2>0. p # Main /\ pc'[Main] = pc[Main] /\ mem'[Main] = mem[Main] /\ TableOK(p)
    BY <1>0, <1>1, <1>5 DEF Whole
  <2>1. ASSUME NEW u \in Tables, u # p
        PROVE  TableOK(u)'
    <3>1. TableOK(u) /\ pc'[u] = pc[u] /\ mem'[u] = mem[u] /\ work'[u] = work[u]
      BY <1>0, <1>1, <2>1 DEF Whole
    <3> QED
      BY <3>1, <2>0, <1>1, Frame
  <2>2. TableOK(p)'
    <3>1. PlaceOK(p)'
      BY <2>0, <1>1 DEF TableOK, PlaceOK, CopyLabels
    <3>2. RowOK(p)'
      BY <2>0, <1>1 DEF TableOK, RowOK, NextEnds
    <3>3. MainOK(p)'
      BY <2>0, <1>1 DEF TableOK, MainOK, MainIn, SameRow
    <3>4. CopyOK(p)'
      BY <1>0, <1>1, <1>3, <1>5, <2>0 DEF TableOK, CopyOK, CopyIn
    <3>5. CountOK(p, p)' /\ CountOK(Main, p)' /\ GcOK(p)'
      BY <1>1, <1>3, <1>5, <2>0 DEF TableOK, CountOK, GcOK
    <3>6. DataOK(p)'
      BY <2>0, <1>1 DEF TableOK, DataOK, MainIn, Ev
    <3> QED
      BY <2>0, <3>1, <3>2, <3>3, <3>4, <3>5, <3>6, <1>1 DEF TableOK
  <2> QED
    BY <1>1, <1>5, <2>1, <2>2 DEF Whole
<1> QED
  BY <1>0, <1>4, <1>5

-----------------------------------------------------------------------------
\* The invariant holds at the start and in every step

\* The invariant holds at the start, of registered tables and of copied ones.
LEMMA InitStep == ASSUME Simple, Init PROVE Whole
<1> USE DEF Init, InitIn
<1>0. TypeOK /\ Main \in Procs /\ (\A u \in Tables : u \in Procs /\ u # Main)
  BY InitType, Names
<1>1. /\ tick = 0 /\ prev = [p \in Procs |-> 0] /\ cur = [p \in Procs |-> 0]
      /\ 0 \in 0..MaxTick /\ snapAt[0] = 0 /\ Len(log) = 0
      /\ pc[Main] = "poll" /\ (\A t \in Tables : pc[t] = "none")
      /\ \A p \in Procs : mem[p] = [t \in Tables |-> NewTableState]
  BY <1>0, BoundAssumption
<1>2. ASSUME NEW t \in Tables
      PROVE  /\ db[t].state \in {"absent", "missing", "ok"} /\ db[t].snap = NoSnap
             /\ data[t] = {} /\ twice[t] = {} /\ csnap[t] = 0 /\ work[t]
  <2>1. PICK s \in {"absent", "missing", "ok"} : db[t] = TableRow(s)
    OBVIOUS
  <2> QED
    BY <1>0, <2>1 DEF TableRow
<1>3. \A p \in Procs, t \in Tables :
         mem[p][t] = NewTableState /\ mem[p][t].state = "absent" /\ mem[p][t].snap = NoSnap
         /\ mem[p][t].okc = 0 /\ mem[p][t].gc = NoTick /\ ~mem[p][t].changed
  BY <1>1 DEF NewTableState
<1>4. InvQueue
  <2>1. TicksOK
    <3>1. \A k \in 0..tick : k = 0
      BY <1>1
    <3> QED
      BY <1>1, <3>1 DEF TicksOK
  <2>2. ASSUME NEW p \in Procs
        PROVE  BatchOK(p)
    <3>1. pc[p] \in {"poll", "none"} /\ prev[p] = 0 /\ cur[p] = 0 /\ big[p] = BatchCollect
      OBVIOUS
    <3> QED
      BY <1>1, <3>1 DEF BatchOK
  <2>3. DsyncInv
    <3>1. big[Main] = BatchCollect /\ dsync = 0 /\ cur[Main] = 0 /\ prev[Main] = 0
      BY <1>0
    <3> QED
      BY <3>1 DEF DsyncInv
  <2> QED
    BY <2>1, <2>2, <2>3 DEF InvQueue
<1>5. MemOK
  BY <1>1, <1>3 DEF MemOK, MainLabels, NoSnap
<1>6. InvOne
  BY <1>2 DEF InvOne, Copying
<1>7. ASSUME NEW t \in Tables
      PROVE  TableOK(t)
  <2>1. PlaceOK(t)
    BY <1>0, <1>1, <1>2 DEF PlaceOK, CopyLabels
  <2>2. RowOK(t)
    <3>1. cur[Main] = 0 /\ snapAt[cur[Main]] = 0 /\ Len(log) = 0 /\ pc[t] = "none"
      BY <1>0, <1>1
    <3> HIDE DEF Init, InitIn
    <3>0. db[t].snap = NoSnap /\ csnap[t] = 0 /\ db[t].state \in {"absent", "missing", "ok"}
      BY <1>2
    <3>2. db[t].snap <= Len(log) /\ csnap[t] <= Len(log) /\ db[t].snap <= snapAt[cur[Main]]
      BY <3>0, <3>1 DEF NoSnap
    <3>3. db[t].state \notin CopyOwns /\ db[t].snap = NoSnap
      BY <1>2 DEF CopyOwns
    <3> HIDE DEF NoSnap
    <3> QED
      BY <3>1, <3>2, <3>3 DEF RowOK, CopyOwns
  <2>3. MainOK(t)
    BY <1>1 DEF MainOK, MainIn
  <2>4. CopyOK(t)
    BY <1>0, <1>1, <1>3 DEF CopyOK, CopyIn
  <2>5. CountOK(t, t) /\ CountOK(Main, t) /\ GcOK(t)
    BY <1>0, <1>3 DEF CountOK, GcOK
  <2>6. DataOK(t)
    <3>1. \A n : Ev(t, n) = {}
      BY <1>1 DEF Ev
    <3> QED
      BY <1>1, <1>2, <3>1 DEF DataOK, CopyOwns, MainIn
  <2> QED
    BY <1>2, <2>1, <2>2, <2>3, <2>4, <2>5, <2>6 DEF TableOK
<1> QED
  BY <1>0, <1>4, <1>5, <1>6, <1>7 DEF Whole

\* Every step keeps the invariant.
LEMMA NextStep == ASSUME Simple, Whole, [Next]_vars, Tidy' PROVE Whole'
<1>0. TypeOK /\ Main \in Procs /\ Tables \subseteq Procs
  BY Names DEF Whole
<1>1. CASE Provider
  <2>1. TypeOK'
    BY <1>0, <1>1, EnvironmentType
  <2> QED
    BY <1>1, <2>1, CommitStep, TickStep DEF Provider
<1>2. CASE Setup
  <2>1. TypeOK'
    BY <1>0, <1>2, EnvironmentType
  <2> QED
    BY <1>2, <2>1, AdminStep DEF Setup
<1>3. CASE MainStep
  <2>1. TypeOK'
    BY <1>0, <1>3, MainType
  <2>2. CASE Batch(Main)
    BY <1>0, <2>1, <2>2, PollStep, LoadMain, CleanupMain, ApplyMain DEF Batch
  <2>3. CASE MainTune \/ MainSyncDone
    BY <2>1, <2>3, MainMoves
  <2>4. CASE \E t \in Tables : MainDoSync(t) \/ MainStartCopy(t) \/ MainLaunch(t)
    BY <2>1, <2>4, DoSyncStep, StartCopyStep, CopyStarts
  <2> QED
    BY <1>3, <2>2, <2>3, <2>4 DEF MainStep
<1>4. ASSUME NEW t \in Tables, CopyStep(t)
      PROVE  Whole'
  <2>1. TypeOK' /\ t \in Procs
    BY <1>0, <1>4, CopyType
  <2>2. CASE Batch(t)
    BY <2>1, <2>2, PollStep, LoadCopy, CleanupCopy, ApplyCopy DEF Batch
  <2>3. CASE \/ CopyLost(t) \/ CopyBehind(t) \/ CopyOvershoot(t) \/ CopyWait(t)
             \/ CopyCatchUp(t) \/ CopySnapshot(t)
    BY <2>1, <2>3, CopyMoves
  <2>4. CASE Register(t) \/ CopyExit(t)
    BY <2>1, <2>4, RegisterStep, CopyEnds
  <2>5. CASE CopyHandOver(t) \/ CopyWantSync(t) \/ CopyLoad(t)
    BY <2>1, <2>5, HandOverStep, WantSyncStep, CopyLoadStep
  <2> QED
    BY <1>4, <2>2, <2>3, <2>4, <2>5 DEF CopyStep
<1>5. CASE Faults
  <2>1. TypeOK'
    BY <1>0, <1>5, EnvironmentType
  <2>2. CASE CrashMain \/ StartMain
    BY <2>1, <2>2, MainEnds, MainMoves
  <2>3. CASE \E p \in Procs : Fail(p)
    BY <2>1, <2>3, FailStep
  <2>4. CASE \E t \in Tables : CrashCopy(t) \/ RestartCopy(t)
    BY <2>1, <2>4, CopyEnds, CopyStarts
  <2> QED
    BY <1>5, <2>2, <2>3, <2>4 DEF Faults
<1>6. CASE UNCHANGED vars
  <2>0. /\ log' = log /\ tick' = tick /\ snapAt' = snapAt /\ reg' = reg /\ cur' = cur
        /\ prev' = prev /\ db' = db /\ data' = data /\ twice' = twice /\ work' = work
        /\ launching' = launching /\ csnap' = csnap /\ pc' = pc /\ mem' = mem
        /\ big' = big /\ held' = held /\ dsync' = dsync
    BY <1>6 DEF vars, provider, queue, subscr, tuning, sync
  <2>1. TypeOK'
    BY <1>0, <1>6 DEF vars, provider, queue, subscr, tuning, sync, bounds, TypeOK
  <2>2. InvQueue' /\ MemOK' /\ InvOne'
    <3>1. DsyncInv'
      BY <2>0, DsyncKept DEF Whole, InvQueue
    <3> QED
      BY <2>0, <3>1 DEF Whole, InvQueue, TicksOK, BatchOK, MemOK, InvOne, MainIn
  <2>3. \A t \in Tables : TableOK(t)'
    BY <1>0, <2>0, Frame DEF Whole
  <2> QED
    BY <2>1, <2>2, <2>3 DEF Whole
<1> QED
  BY <1>1, <1>2, <1>3, <1>4, <1>5, <1>6 DEF Next

-----------------------------------------------------------------------------
\* What follows for every behaviour

\* No step takes a fault back.
LEMMA FaultsStay == ASSUME TypeOK, [Next]_vars PROVE faults' \in {faults, faults + 1}
BY DEF Next, Provider, Setup, MainStep, CopyStep, Faults, Batch, vars, bounds,
       Commit, Tick, AddTable, RemoveTable, Resync, Admin, Poll, Idle, Load, Cleanup, Apply,
       MainTune, MainSyncDone, MainDoSync, MainStartCopy, MainLaunch, Register, CopyLost,
       CopyHandOver, CopyBehind, CopyOvershoot, CopyWait, CopyCatchUp, CopyWantSync,
       CopySnapshot, CopyLoad, CopyExit, CrashMain, StartMain, Fail, CrashCopy, RestartCopy

\* So what is tidy after a step was tidy before.
LEMMA TidyBefore == ASSUME TypeOK, [Next]_vars, Tidy' PROVE Tidy
<1>1. faults \in Nat /\ faults' \in {faults, faults + 1}
  BY FaultsStay, BoundAssumption DEF TypeOK
<1> QED
  BY <1>1 DEF Tidy

\* A copied table that is in order reflects an exact prefix.
LEMMA PrefixSafe == Safe => ExactPrefix
<1> SUFFICES ASSUME Safe, NEW t \in Tables,
                    db[t].state \in {"catching-up", "wanna-sync", "do-sync", "ok"}
             PROVE  data[t] = Ev(t, Reached(t))
  BY DEF ExactPrefix
<1>1. DataOK(t)
  BY DEF Safe, InvData
<1>2. CASE db[t].state = "ok"
  BY <1>1, <1>2 DEF DataOK, Reached, Later
<1>3. CASE db[t].state \in CopyOwns
  BY <1>1, <1>3 DEF DataOK, Reached, Later, CopyOwns
<1> QED
  BY <1>2, <1>3 DEF CopyOwns

\* The invariant is inductive: it holds however many tables there are, when one
\* copy runs at a time and a resync waits until the processes are stopped,
\* however often processes fail and restart, and with batch collecting until
\* the first of them does.
THEOREM Inductive == ASSUME Simple PROVE Spec => []IInv
<1> DEFINE Held == Tidy => Whole
<1>1. Init => Held
  BY InitStep
<1>2. TypeOK /\ Held /\ [Next]_vars => Held'
  BY NextStep, TidyBefore
<1>3. TypeOK /\ Held => IInv
  BY Together DEF IInv
<1> HIDE DEF Held
<1> QED
  BY <1>1, <1>2, <1>3, TypeCorrect, PTL DEF Spec

-----------------------------------------------------------------------------
\* Batches that are collected, until something fails

\* A node that collects batches loses nothing at its hand-overs.
THEOREM PrefixCollected == ASSUME Simple PROVE Spec => []CollectedPrefix
<1>1. IInv => CollectedPrefix
  BY PrefixSafe DEF IInv, Tidy, CollectedPrefix
<1> QED
  BY <1>1, Inductive, PTL

\* And none of its copy processes gets past the tick that main waits at.
THEOREM TickMet == ASSUME Simple PROVE Spec => []SyncTickMet
<1>1. IInv => SyncTickMet
  BY DEF IInv, Tidy, Safe, InvCopy, CopyOK, SyncTickMet
<1> QED
  BY <1>1, Inductive, PTL

-----------------------------------------------------------------------------
\* Batches of one tick, or no faults: the invariant without its condition

Sound == Simple /\ (BatchCollect => MaxFault = 0)

\* Then it holds always.
LEMMA AlwaysSafe == ASSUME Sound PROVE Spec => [](TypeOK /\ Safe)
<1>1. IInv => TypeOK /\ Safe
  BY DEF IInv, TypeOK, Tidy, Sound
<1>2. Simple
  BY DEF Sound
<1> QED
  BY <1>1, <1>2, Inductive, PTL

\* No event reaches rows of the destination table that reflect it already.
THEOREM OnceOnly == ASSUME Sound PROVE Spec => []AppliedOnce
<1>1. Safe => AppliedOnce
  BY DEF Safe
<1> QED
  BY <1>1, AlwaysSafe, PTL

\* No loss, no invention: a copied table reflects an exact prefix of the log.
THEOREM PrefixKept == ASSUME Sound PROVE Spec => []ExactPrefix
<1>1. Safe => ExactPrefix
  BY PrefixSafe
<1> QED
  BY <1>1, AlwaysSafe, PTL

\* Main and a copy process never wait for each other: main launches a copy
\* process only when none of the table runs.
THEOREM NeverWaits == ASSUME Sound PROVE Spec => []NoMutualWait
<1>1. TypeOK /\ Safe => NoMutualWait
  <2> SUFFICES ASSUME TypeOK, Safe, NEW t \in launching PROVE pc[t] # "sync"
    BY DEF NoMutualWait
  <2> QED
    BY DEF TypeOK, Safe, InvProcs, PlaceOK
<1> QED
  BY <1>1, AlwaysSafe, PTL

\* At most parallel_copies (one) tables are in a copy state.
THEOREM Bounded == ASSUME Sound PROVE Spec => []CopiesBounded
<1>1. Safe => CopiesBounded
  <2> SUFFICES ASSUME Safe PROVE CopiesBounded
    OBVIOUS
  <2> DEFINE S == {t \in Tables : db[t].state \in Copying}
  <2>1. \A t, u \in S : t = u
    BY DEF Safe, InvOne
  <2>2. Cardinality(S) <= 1
    <3>1. CASE S = {}
      BY <3>1, FS_EmptySet
    <3>2. CASE S # {}
      <4>1. PICK t \in S : TRUE
        BY <3>2
      <4>2. S = {t}
        BY <2>1, <4>1
      <4> QED
        BY <4>2, FS_Singleton
    <3> QED
      BY <3>1, <3>2
  <2> QED
    BY <2>2 DEF CopiesBounded, Sound, Simple
<1> QED
  BY <1>1, AlwaysSafe, PTL

-----------------------------------------------------------------------------
\* What a step can make of a row

ByMain(t) == /\ Steps(Main) /\ db'[t].snap = db[t].snap
             /\ \/ db[t].state = "missing" /\ db'[t].state = "in-copy"
                \/ db[t].state = "wanna-sync" /\ db'[t].state = "do-sync"

ByCopy(t) == /\ Steps(t) /\ (db'[t].snap = db[t].snap \/ db[t].snap = NoSnap)
             /\ \/ db[t].state = "in-copy" /\ db'[t].state = "catching-up"
                \/ db[t].state = "catching-up" /\ db'[t].state = "wanna-sync"

ByHandOver(t) == /\ Steps(t) /\ db'[t].snap = db[t].snap
                 /\ db[t].state = "do-sync" /\ db'[t].state = "ok"
                 /\ prev[t] = prev[Main] /\ cur[t] = cur[Main]
                 /\ pc[Main] \notin {"cleanup", "apply"}

ByAdmin(t) == pc' = pc /\ mem' = mem /\ db'[t].state \in {"absent", "missing"}

DropsSnapshot(t) == /\ db'[t].state = db[t].state /\ db'[t].snap = NoSnap
                    /\ db[t].state \in CopyOwns \cup {"ok"}
                    /\ db[t].state = "ok" => db[t].snap <= snapAt[prev[Main]]
                    /\ db[t].state # "ok" => db[t].snap <= snapAt[prev[t]]

RowMoves(t) ==
    db'[t] # db[t] => ByMain(t) \/ ByCopy(t) \/ ByHandOver(t) \/ ByAdmin(t) \/ DropsSnapshot(t)

\* A command writes as an administrator may (OwnerOnly).
LEMMA AdminMoves ==
    ASSUME Whole, NEW u \in Tables, AddTable(u) \/ RemoveTable(u) \/ Resync(u), NEW t \in Tables
    PROVE  db'[t] # db[t] => ByAdmin(t)
<1>1. PICK s \in {"absent", "missing"} :
         db' = [db EXCEPT ![u] = TableRow(s)] /\ pc' = pc /\ mem' = mem
  BY DEF AddTable, RemoveTable, Resync, Admin
<1>2. db \in [Tables -> Row]
  BY DEF Whole, TypeOK
<1> QED
  BY <1>1, <1>2 DEF ByAdmin, TableRow

\* do-sync is written by main for a table in wanna-sync.
LEMMA DoSyncMoves ==
    ASSUME Whole, NEW u \in Tables, MainDoSync(u), NEW t \in Tables
    PROVE  db'[t] # db[t] => ByMain(t)
<1> SUFFICES ASSUME db'[t] # db[t] PROVE ByMain(t)
  OBVIOUS
<1>0. TypeOK /\ Main \in Procs
  BY Names DEF Whole
<1>1. pc[Main] = "dosync" /\ mem[Main][u].state = "wanna-sync"
  BY DEF MainDoSync, Waiting
<1>2. MainOK(u) /\ MainIn /\ \A v \in Tables : ~mem[Main][v].changed
  BY <1>1 DEF Whole, TableOK, MainOK, MainIn
<1>3. cur[Main] \in 0..MaxTick /\ "do-sync" \in States
  BY <1>0, Numbers DEF States, Copying
<1>4. /\ \A v \in Tables : v # u => db'[v] = db[v]
      /\ mem'[Main][u].state = "do-sync"
      /\ db[u].state = "absent" => db'[u] = db[u]
      /\ db[u].state # "absent" => db'[u].state = "do-sync" /\ db'[u].snap = mem[Main][u].snap
  BY <1>0, <1>1, <1>2, <1>3, ChangeEffect DEF MainDoSync
<1>5. t = u /\ db[u].state # "absent"
  BY <1>4
<1>6. db[u].state = "wanna-sync" /\ db[u].snap = mem[Main][u].snap
  BY <1>1, <1>2, <1>5 DEF MainOK, SameRow
<1>7. Steps(Main)
  BY <1>1, <1>4 DEF Steps
<1> QED
  BY <1>4, <1>5, <1>6, <1>7 DEF ByMain

\* in-copy is written by main for a missing table.
LEMMA StartCopyMoves ==
    ASSUME Whole, NEW u \in Tables, MainStartCopy(u), NEW t \in Tables
    PROVE  db'[t] # db[t] => ByMain(t)
<1> SUFFICES ASSUME db'[t] # db[t] PROVE ByMain(t)
  OBVIOUS
<1>0. TypeOK /\ Main \in Procs
  BY Names DEF Whole
<1>1. pc[Main] = "start" /\ mem[Main][u].state = "missing"
  BY DEF MainStartCopy
<1>2. MainOK(u) /\ MainIn /\ \A v \in Tables : ~mem[Main][v].changed
  BY <1>1 DEF Whole, TableOK, MainOK, MainIn
<1>3. NoTick \in 0..MaxTick /\ "in-copy" \in States
  BY BoundAssumption DEF States, Copying, NoTick
<1>4. /\ \A v \in Tables : v # u => db'[v] = db[v]
      /\ mem'[Main][u].state = "in-copy"
      /\ db[u].state = "absent" => db'[u] = db[u]
      /\ db[u].state # "absent" => db'[u].state = "in-copy" /\ db'[u].snap = mem[Main][u].snap
  BY <1>0, <1>1, <1>2, <1>3, ChangeEffect DEF MainStartCopy
<1>5. t = u /\ db[u].state # "absent"
  BY <1>4
<1>6. db[u].state = "missing" /\ db[u].snap = mem[Main][u].snap
  BY <1>1, <1>2, <1>5 DEF MainOK, SameRow
<1>7. Steps(Main)
  BY <1>1, <1>4 DEF Steps
<1> QED
  BY <1>4, <1>5, <1>6, <1>7 DEF ByMain

\* wanna-sync is written by the copy process of the table.
LEMMA WantSyncMoves ==
    ASSUME Whole, NEW u \in Tables, CopyWantSync(u), NEW t \in Tables
    PROVE  db'[t] # db[t] => ByCopy(t)
<1> SUFFICES ASSUME db'[t] # db[t] PROVE ByCopy(t)
  OBVIOUS
<1>0. TypeOK /\ u \in Procs
  BY Names DEF Whole
<1>1. pc[u] = "sync" /\ mem[u][u].state = "catching-up"
  BY DEF CopyWantSync
<1>2. CopyOK(u) /\ CopyIn(u) /\ \A v \in Tables : ~mem[u][v].changed
  BY <1>1 DEF Whole, TableOK, CopyOK, CopyIn
<1>3. cur[u] \in 0..MaxTick /\ "wanna-sync" \in States
  BY <1>0, Numbers DEF States, Copying
<1>4. /\ \A v \in Tables : v # u => db'[v] = db[v]
      /\ mem'[u][u].state = "wanna-sync"
      /\ db[u].state = "absent" => db'[u] = db[u]
      /\ db[u].state # "absent" => db'[u].state = "wanna-sync" /\ db'[u].snap = mem[u][u].snap
  BY <1>0, <1>1, <1>2, <1>3, ChangeEffect DEF CopyWantSync
<1>5. t = u /\ db[u].state # "absent"
  BY <1>4
<1>6. db[u].state = "catching-up" /\ db[u].snap = mem[u][u].snap
  BY <1>1, <1>2, <1>5 DEF CopyOK, SameRow
<1>7. Steps(u)
  BY <1>1, <1>4 DEF Steps
<1> QED
  BY <1>4, <1>5, <1>6, <1>7 DEF ByCopy

\* ok is written by the copy process of the table, at the sync tick.
LEMMA HandOverRow ==
    ASSUME Whole, NEW u \in Tables, CopyHandOver(u), NEW t \in Tables
    PROVE  db'[t] # db[t] => ByHandOver(t)
<1> SUFFICES ASSUME db'[t] # db[t] PROVE ByHandOver(t)
  OBVIOUS
<1>0. TypeOK /\ u \in Procs /\ Main \in Procs
  BY Names DEF Whole
<1>1. pc[u] = "sync" /\ mem[u][u].state = "do-sync" /\ AtSyncTick(u)
  BY DEF CopyHandOver
<1>2. MainOK(u) /\ CopyIn(u) /\ \A v \in Tables : ~mem[u][v].changed
  BY <1>1 DEF Whole, TableOK, CopyOK, CopyIn
<1>3. NoTick \in 0..MaxTick /\ "ok" \in States
  BY BoundAssumption DEF States, Copying, NoTick
<1>4. /\ \A v \in Tables : v # u => db'[v] = db[v]
      /\ mem'[u][u].state = "ok"
      /\ db[u].state = "absent" => db'[u] = db[u]
      /\ db[u].state # "absent" => db'[u].state = "ok" /\ db'[u].snap = mem[u][u].snap
  BY <1>0, <1>1, <1>2, <1>3, ChangeEffect DEF CopyHandOver
<1>5. t = u /\ db[u].state # "absent"
  BY <1>4
<1>6. /\ db[u].state = "do-sync" /\ db[u].snap = mem[u][u].snap
      /\ prev[u] = prev[Main] /\ cur[u] = cur[Main]
  BY <1>1, <1>5, Aligned
<1>7. Steps(u)
  BY <1>1, <1>4 DEF Steps
<1>8. pc[Main] \notin {"cleanup", "apply"}
  <2>1. mem[Main][u].state \in States
    BY <1>0, Rows
  <2> QED
    BY <2>1, <1>2, <1>6 DEF MainOK, MainIn, SameRow, States, Copying
<1> QED
  BY <1>4, <1>5, <1>6, <1>7, <1>8 DEF ByHandOver

\* catching-up is written by the copy process of the table.
LEMMA CopyLoadMoves ==
    ASSUME Whole, NEW u \in Tables, CopyLoad(u), NEW t \in Tables
    PROVE  db'[t] # db[t] => ByCopy(t)
<1> SUFFICES ASSUME db'[t] # db[t] PROVE ByCopy(t)
  OBVIOUS
<1>1. pc[u] = "copying" /\ TableOK(u)
  BY DEF CopyLoad, Whole
<1>2. mem[u][u].state = "in-copy"
  BY <1>1 DEF TableOK, CopyOK
<1>3. /\ \A v \in Tables : v # u => db'[v] = db[v]
      /\ mem'[u][u].state = "catching-up"
      /\ db[u].state = "absent" => db'[u] = db[u]
      /\ db[u].state # "absent" => db'[u].state = "catching-up"
  BY CopyLoadEffect
<1>4. t = u /\ db[u].state # "absent"
  BY <1>3
<1>5. db[u].state = "in-copy" /\ db[u].snap = NoSnap
  BY <1>1, <1>2, <1>4 DEF TableOK, CopyOK, CopyIn, SameRow
<1>6. Steps(u)
  BY <1>2, <1>3 DEF Steps
<1> QED
  BY <1>3, <1>4, <1>5, <1>6 DEF ByCopy

\* A batch only drops snapshots.
LEMMA BatchMoves ==
    ASSUME Whole, NEW p \in Procs, Cleanup(p) \/ Apply(p), NEW t \in Tables
    PROVE  db'[t] # db[t] => DropsSnapshot(t)
<1> SUFFICES ASSUME db'[t] # db[t] PROVE DropsSnapshot(t)
  OBVIOUS
<1>0. (p = Main \/ p \in Tables) /\ Main \notin Tables
  BY Names
<1>1. CASE Cleanup(p)
  <2>1. p = Main
    BY <1>0, <1>1, CleanupNothing
  <2>2. /\ db[t].state = "ok" /\ db'[t].state = "ok" /\ db'[t].snap = NoSnap
        /\ db[t].snap <= snapAt[prev[Main]]
    BY <1>1, <2>1, CleanupEffect
  <2> QED
    BY <2>2 DEF DropsSnapshot
<1>2. CASE Apply(p)
  <2>1. pc[p] = "apply"
    BY <1>2 DEF Apply
  <2>2. /\ Wants(p, t) /\ mem[p][t].snap <= snapAt[prev[p]]
        /\ db[t].state # "absent"
        /\ db'[t].state = db[t].state /\ db'[t].snap = NoSnap /\ db[t].snap = mem[p][t].snap
    BY <1>2, ApplyEffect
  <2>3. /\ p \in {t, Main} /\ SameRow(mem[p][t], db[t])
        /\ p = Main => mem[p][t].state = "ok"
        /\ p = t => mem[p][t].state \in {"catching-up", "do-sync"}
    BY <2>1, <2>2, Wanted
  <2> QED
    BY <2>2, <2>3 DEF SameRow, DropsSnapshot, CopyOwns
<1> QED
  BY <1>1, <1>2

\* Every change of a row is made by who may make it.
LEMMA EveryRowMoves ==
    ASSUME Whole, Next, NEW t \in Tables
    PROVE  RowMoves(t)
<1>0. Main \in Procs /\ Tables \subseteq Procs
  BY Names
<1>1. CASE db' = db
  BY <1>1 DEF RowMoves
<1>2. ASSUME NEW p \in Procs, Batch(p)
      PROVE  RowMoves(t)
  <2>1. CASE Poll(p) \/ Idle(p) \/ Load(p)
    BY <1>1, <2>1 DEF Poll, Idle, Load, subscr
  <2> QED
    BY <1>2, <2>1, BatchMoves DEF Batch, RowMoves
<1>3. CASE Provider \/ Setup
  <2>1. CASE Setup
    BY <2>1, AdminMoves DEF Setup, RowMoves
  <2>2. CASE Provider
    BY <1>1, <2>2 DEF Provider, Tick, Commit, subscr
  <2> QED
    BY <1>3, <2>1, <2>2
<1>4. CASE MainStep
  <2>1. CASE MainTune \/ MainSyncDone \/ \E u \in Tables : MainLaunch(u)
    BY <1>1, <2>1 DEF MainTune, MainSyncDone, MainLaunch, subscr
  <2> QED
    BY <1>0, <1>2, <1>4, <2>1, DoSyncMoves, StartCopyMoves DEF MainStep, RowMoves
<1>5. ASSUME NEW u \in Tables, CopyStep(u)
      PROVE  RowMoves(t)
  <2>1. CASE \/ CopyLost(u) \/ CopyBehind(u) \/ CopyOvershoot(u) \/ CopyWait(u)
             \/ CopyCatchUp(u) \/ CopySnapshot(u) \/ Register(u) \/ CopyExit(u)
    BY <1>1, <2>1 DEF CopyLost, CopyBehind, CopyOvershoot, CopyWait, CopyCatchUp,
                      CopySnapshot, Register, CopyExit, subscr
  <2> QED
    BY <1>0, <1>2, <1>5, <2>1, HandOverRow, WantSyncMoves, CopyLoadMoves DEF CopyStep, RowMoves
<1>6. CASE Faults
  BY <1>1, <1>6 DEF Faults, CrashMain, StartMain, Fail, CrashCopy, RestartCopy, subscr
<1> QED
  BY <1>3, <1>4, <1>5, <1>6 DEF Next

\* A step that leaves every variable as it is moves no row.
LEMMA RowsMove ==
    ASSUME Whole, [Next]_vars, NEW t \in Tables
    PROVE  RowMoves(t)
BY EveryRowMoves DEF RowMoves, vars, subscr

-----------------------------------------------------------------------------
\* What no step may do

\* Safe in the form that the steps below start from.
LEMMA AlwaysWhole == ASSUME Sound PROVE Spec => []Whole
<1>1. TypeOK /\ Safe => Whole
  BY Apart
<1> QED
  BY <1>1, AlwaysSafe, PTL

\* A table moves from state to state only as its owner moves it.
THEOREM OwnersMove == ASSUME Sound PROVE Spec => OwnerOnly
<1>1. Whole /\ [Next]_vars => [OwnerMoves]_vars
  <2> SUFFICES ASSUME Whole, [Next]_vars, NEW t \in Tables, db'[t].state # db[t].state
               PROVE  \/ Steps(Main) /\ Moves(t) \in {<<"missing", "in-copy">>, <<"wanna-sync", "do-sync">>}
                      \/ Steps(t) /\ Moves(t) \in {<<"in-copy", "catching-up">>,
                                                   <<"catching-up", "wanna-sync">>, <<"do-sync", "ok">>}
                      \/ UNCHANGED <<pc, mem>> /\ db'[t].state \in {"absent", "missing"}
    BY DEF OwnerMoves
  <2>1. ByMain(t) \/ ByCopy(t) \/ ByHandOver(t) \/ ByAdmin(t)
    BY RowsMove DEF RowMoves, DropsSnapshot
  <2> QED
    BY <2>1 DEF ByMain, ByCopy, ByHandOver, ByAdmin, Moves
<1> QED
  BY <1>1, AlwaysWhole, PTL DEF Spec, OwnerOnly

\* When a copy process gives its table back, it has finished exactly the
\* batches that main has, and main is held in front of the next one.
THEOREM HandedOverAligned == ASSUME Sound PROVE Spec => HandOverAligned
<1>1. Whole /\ [Next]_vars => [HandOverMoves]_vars
  <2> SUFFICES ASSUME Whole, [Next]_vars, NEW t \in Tables,
                      db[t].state = "do-sync", db'[t].state = "ok"
               PROVE  /\ prev[t] = prev[Main]
                      /\ cur[t] = cur[Main]
                      /\ pc[Main] \notin {"cleanup", "apply"}
    BY DEF HandOverMoves
  <2>1. ByHandOver(t)
    BY RowsMove DEF RowMoves, ByMain, ByCopy, ByHandOver, ByAdmin, DropsSnapshot
  <2> QED
    BY <2>1 DEF ByHandOver
<1> QED
  BY <1>1, AlwaysWhole, PTL DEF Spec, HandOverAligned

\* A snapshot is dropped only when the owner of the table is past it.
THEOREM SnapshotsOutlived == ASSUME Sound PROVE Spec => SnapshotOutlived
<1>1. Whole /\ [Next]_vars => [SnapshotMoves]_vars
  <2> SUFFICES ASSUME Whole, [Next]_vars, NEW t \in Tables,
                      db[t].snap # NoSnap, db'[t].snap = NoSnap,
                      db'[t].state \in {"catching-up", "wanna-sync", "do-sync", "ok"}
               PROVE  Ev(t, db[t].snap) \subseteq
                         Ev(t, snapAt[prev[IF db[t].state = "ok" THEN Main ELSE t]])
    BY DEF SnapshotMoves
  <2> DEFINE n == snapAt[prev[IF db[t].state = "ok" THEN Main ELSE t]]
  <2>1. db[t].snap <= n
    <3>1. DropsSnapshot(t)
      BY RowsMove DEF RowMoves, ByMain, ByCopy, ByHandOver, ByAdmin
    <3> QED
      BY <3>1 DEF DropsSnapshot
  <2>2. db[t].snap \in Int /\ n \in Int
    BY Names, Rows, Numbers DEF Whole
  <2> HIDE DEF n
  <2> QED
    BY <2>1, <2>2 DEF Ev, n
<1> QED
  BY <1>1, AlwaysWhole, PTL DEF Spec, SnapshotOutlived

-----------------------------------------------------------------------------
\* The node keeps the promise of Replica

Serving == {t \in Tables : db[t].state = "ok"}

\* What a table reflects are transactions that have committed.
Known == \A t \in Tables : data[t] \subseteq 1..Len(log)

\* A table that is served reflects a prefix.
Faithful == \A t \in Tables : db[t].state = "ok" => data[t] \in Promise!Prefixes(t)

\* The data of a table in state ok are those of a prefix of its events.
LEMMA ServedPrefix ==
    ASSUME Whole, NEW t \in Tables, db[t].state = "ok"
    PROVE  data[t] \in Promise!Prefixes(t)
<1>1. data[t] = Ev(t, Later(db[t].snap, snapAt[prev[Main]]))
  BY DEF Whole, TableOK, DataOK
<1>2. Later(db[t].snap, snapAt[prev[Main]]) \in 0..Len(log)
  <2>0. TypeOK /\ Main \in Procs
    BY Names DEF Whole
  <2>1. db[t].snap \in Int /\ prev[Main] \in 0..tick /\ Len(log) \in Nat
    BY <2>0, Numbers, Rows DEF Whole, InvQueue, BatchOK
  <2>2. snapAt[prev[Main]] \in Nat /\ snapAt[prev[Main]] <= Len(log)
    BY <2>0, <2>1, Numbers DEF Whole, InvQueue, TicksOK
  <2>3. db[t].snap <= Len(log)
    BY DEF Whole, TableOK, RowOK
  <2> QED
    BY <2>1, <2>2, <2>3 DEF Later
<1> QED
  BY <1>1, <1>2 DEF Promise!Prefixes, Promise!Seen, Ev

\* Only a step of the batch code touches the destination tables: events are
\* added, and a table that is loaded again is not served.
LEMMA DataMoves ==
    ASSUME Whole, Next, NEW t \in Tables
    PROVE  \/ data'[t] = data[t]
           \/ /\ log' = log /\ data[t] \subseteq data'[t]
              /\ data'[t] \subseteq data[t] \cup 1..Len(log)
           \/ log' = log /\ data'[t] \subseteq 1..Len(log) /\ db[t].state # "ok"
<1> DEFINE Goal == \/ data'[t] = data[t]
                   \/ /\ log' = log /\ data[t] \subseteq data'[t]
                      /\ data'[t] \subseteq data[t] \cup 1..Len(log)
                   \/ log' = log /\ data'[t] \subseteq 1..Len(log) /\ db[t].state # "ok"
<1>0. Main \in Procs /\ Tables \subseteq Procs
  BY Names
<1>1. CASE data' = data
  BY <1>1
<1>2. ASSUME NEW p \in Procs, Batch(p)
      PROVE  Goal
  <2>1. CASE Poll(p) \/ Idle(p) \/ Load(p) \/ Cleanup(p)
    BY <1>1, <2>1 DEF Poll, Idle, Load, Cleanup, subscr
  <2>2. CASE Apply(p)
    <3>1. PICK late : data' = [u \in Tables |-> data[u] \cup Applied(p, u, late)]
      BY <2>2 DEF Apply
    <3>2. Applied(p, t, late) \subseteq 1..Len(log)
      BY DEF Applied, BatchEv, Ev
    <3>3. log' = log
      BY <2>2 DEF Apply, provider
    <3> QED
      BY <3>1, <3>2, <3>3
  <2> QED
    BY <1>2, <2>1, <2>2 DEF Batch
<1>3. ASSUME NEW u \in Tables, CopyLoad(u)
      PROVE  Goal
  <2>1. /\ log' = log /\ pc[u] = "copying"
        /\ data' = [data EXCEPT ![u] = Ev(u, csnap[u])]
    BY <1>3 DEF CopyLoad, Truncated, provider
  <2>2. db[u].state # "ok"
    BY <2>1 DEF Whole, TableOK, CopyOK, CopyIn, SameRow
  <2>3. data \in [Tables -> SUBSET (1..MaxCommit)]
    BY DEF Whole, TypeOK
  <2> QED
    BY <2>1, <2>2, <2>3 DEF Ev
<1> HIDE DEF Goal
<1>4. ASSUME Provider \/ Setup PROVE Goal
  BY <1>1, <1>4 DEF Provider, Tick, Commit, Setup, AddTable, RemoveTable, Resync, Admin, subscr, Goal
<1>5. ASSUME MainStep PROVE Goal
  <2>1. CASE \/ MainTune \/ MainSyncDone
             \/ \E u \in Tables : MainDoSync(u) \/ MainStartCopy(u) \/ MainLaunch(u)
    BY <1>1, <2>1 DEF MainTune, MainSyncDone, MainDoSync, MainStartCopy, MainLaunch, subscr, Goal
  <2> QED
    BY <1>0, <1>2, <1>5, <2>1 DEF MainStep
<1>6. ASSUME NEW u \in Tables, CopyStep(u)
      PROVE  Goal
  <2>1. CASE \/ CopyLost(u) \/ CopyBehind(u) \/ CopyOvershoot(u) \/ CopyWait(u)
             \/ CopyCatchUp(u) \/ CopySnapshot(u) \/ Register(u) \/ CopyExit(u)
             \/ CopyHandOver(u) \/ CopyWantSync(u)
    BY <1>1, <2>1 DEF CopyLost, CopyBehind, CopyOvershoot, CopyWait, CopyCatchUp, CopySnapshot,
                      Register, CopyExit, CopyHandOver, CopyWantSync, subscr, Goal
  <2> QED
    BY <1>0, <1>2, <1>3, <1>6, <2>1 DEF CopyStep
<1>7. ASSUME Faults PROVE Goal
  BY <1>1, <1>7 DEF Faults, CrashMain, StartMain, Fail, CrashCopy, RestartCopy, subscr, Goal
<1>8. Goal
  BY <1>4, <1>5, <1>6, <1>7 DEF Next
<1> QED
  BY <1>8 DEF Goal

\* What has been promised stays true.
LEMMA StaysKnown == ASSUME Whole, Known, [Next]_vars PROVE Known'
<1>0. log \in Seq(Tables)
  BY DEF Whole, TypeOK
<1>1. Len(log) \in Nat /\ Len(log') \in Nat /\ Len(log) <= Len(log')
  <2>1. CASE log' = log
    BY <1>0, <2>1
  <2>2. ASSUME NEW u \in Tables, Commit(u)
        PROVE  Len(log) \in Nat /\ Len(log') \in Nat /\ Len(log) <= Len(log')
    BY <1>0, <2>2 DEF Commit
  <2>3. log' = log \/ \E u \in Tables : Commit(u)
    BY DEF Next, Provider, Setup, MainStep, CopyStep, Faults, Batch, vars, provider,
           Tick, AddTable, RemoveTable, Resync, Admin, Poll, Idle, Load, Cleanup, Apply,
           MainTune, MainSyncDone, MainDoSync, MainStartCopy, MainLaunch, Register, CopyLost,
           CopyHandOver, CopyBehind, CopyOvershoot, CopyWait, CopyCatchUp, CopyWantSync,
           CopySnapshot, CopyLoad, CopyExit, CrashMain, StartMain, Fail, CrashCopy, RestartCopy
  <2> QED
    BY <2>1, <2>2, <2>3
<1>2. ASSUME NEW t \in Tables
      PROVE  data'[t] \subseteq 1..Len(log')
  <2>1. CASE UNCHANGED vars
    BY <2>1 DEF vars, provider, subscr, Known
  <2>2. CASE Next
    <3>1. 1..Len(log) \subseteq 1..Len(log') /\ data[t] \subseteq 1..Len(log)
      BY <1>1 DEF Known
    <3> QED
      BY <2>2, <3>1, DataMoves
  <2> QED
    BY <2>1, <2>2
<1> QED
  BY <1>2 DEF Known

\* Apart from the administrator, only a hand-over changes what is served.
LEMMA ServingStays ==
    ASSUME Whole, MainStep \/ (\E u \in Tables : CopyStep(u) /\ ~CopyHandOver(u)) \/ Faults
    PROVE  Serving' = Serving
<1>0. Main \in Procs /\ Tables \subseteq Procs
  BY Names
<1> SUFFICES ASSUME NEW t \in Tables PROVE db'[t].state = "ok" <=> db[t].state = "ok"
  BY DEF Serving
<1> SUFFICES ASSUME db'[t] # db[t] PROVE ByMain(t) \/ ByCopy(t) \/ DropsSnapshot(t)
  BY DEF ByMain, ByCopy, DropsSnapshot
<1>1. db' # db
  OBVIOUS
<1>2. ASSUME NEW p \in Procs, Batch(p)
      PROVE  DropsSnapshot(t)
  BY <1>1, <1>2, BatchMoves DEF Batch, Poll, Idle, Load, subscr
<1>3. CASE MainStep
  <2>1. ~(MainTune \/ MainSyncDone \/ \E u \in Tables : MainLaunch(u))
    BY <1>1 DEF MainTune, MainSyncDone, MainLaunch, subscr
  <2> QED
    BY <1>0, <1>2, <1>3, <2>1, DoSyncMoves, StartCopyMoves DEF MainStep
<1>4. ASSUME NEW u \in Tables, CopyStep(u), ~CopyHandOver(u)
      PROVE  ByCopy(t) \/ DropsSnapshot(t)
  <2>1. ~(\/ CopyLost(u) \/ CopyBehind(u) \/ CopyOvershoot(u) \/ CopyWait(u)
          \/ CopyCatchUp(u) \/ CopySnapshot(u) \/ Register(u) \/ CopyExit(u))
    BY <1>1 DEF CopyLost, CopyBehind, CopyOvershoot, CopyWait, CopyCatchUp,
                CopySnapshot, Register, CopyExit, subscr
  <2> QED
    BY <1>0, <1>2, <1>4, <2>1, WantSyncMoves, CopyLoadMoves DEF CopyStep
<1>5. CASE Faults
  BY <1>1, <1>5 DEF Faults, CrashMain, StartMain, Fail, CrashCopy, RestartCopy, subscr
<1> QED
  BY <1>3, <1>4, <1>5

\* Every step is one of the promise, or none.
LEMMA PromiseStep ==
    ASSUME Whole, Whole', Known, Known', Faithful', [Next]_vars
    PROVE  [Promise!Next]_(Promise!replica)
<1>0. db \in [Tables -> Row] /\ data \in [Tables -> SUBSET (1..MaxCommit)]
      /\ data' \in [Tables -> SUBSET (1..MaxCommit)]
  BY DEF Whole, TypeOK
\* A step that is none of Replica's, or the provider's.
<1>1. CASE log' = log /\ data' = data /\ Serving' = Serving
  BY <1>1 DEF Promise!replica, Serving
<1>2. ASSUME NEW u \in Tables, Commit(u)
      PROVE  Promise!Next
  BY <1>2 DEF Commit, subscr, Promise!Next, Promise!Write
\* Tables that are served, move forward.
<1>3. ASSUME Next, log' = log, Serving' = Serving
      PROVE  Promise!Next
  <2>1. ASSUME NEW t \in Serving
        PROVE  data[t] \subseteq data'[t] /\ data'[t] \in Promise!Prefixes(t)
    <3>1. t \in Tables /\ db[t].state = "ok" /\ db'[t].state = "ok"
      BY <1>3 DEF Serving
    <3>2. data[t] \subseteq data'[t]
      BY <1>3, <3>1, DataMoves
    <3>3. data'[t] \in Promise!Prefixes(t)'
      BY <3>1 DEF Faithful
    <3>4. Promise!Prefixes(t)' = Promise!Prefixes(t)
      BY <1>3 DEF Promise!Prefixes, Promise!Seen
    <3> QED
      BY <3>2, <3>3, <3>4
  <2>2. data' \in [Tables -> SUBSET (1..Len(log))]
    BY <1>0, <1>3 DEF Known
  <2>3. Promise!Advance
    BY <1>3, <2>1, <2>2 DEF Promise!Advance, Serving
  <2> QED
    BY <2>3 DEF Promise!Next
\* The administrator takes a table out of service.
<1>4. ASSUME NEW u \in Tables, AddTable(u) \/ RemoveTable(u) \/ Resync(u)
      PROVE  Promise!Next
  <2>1. PICK s \in {"absent", "missing"} :
           db' = [db EXCEPT ![u] = TableRow(s)] /\ log' = log /\ data' = data
    BY <1>4 DEF AddTable, RemoveTable, Resync, Admin, provider
  <2>2. Serving' = Serving \ {u}
    BY <1>0, <2>1 DEF Serving, TableRow
  <2> QED
    BY <2>1, <2>2 DEF Promise!Next, Promise!Leave, Serving
\* A copy process gives its table back, into service.
<1>5. ASSUME NEW u \in Tables, CopyHandOver(u), db' # db
      PROVE  Promise!Next
  <2>1. log' = log /\ data' = data
    BY <1>5 DEF CopyHandOver, provider
  <2>2. \A t \in Tables : db'[t] # db[t] => ByHandOver(t)
    BY <1>5, HandOverRow
  <2>3. /\ \A t \in Tables : t # u => db'[t] = db[t]
        /\ db' \in [Tables -> Row]
    <3>1. pc[u] = "sync" /\ mem[u][u].state = "do-sync" /\ u \in Procs /\ TypeOK
      BY <1>5, Names DEF CopyHandOver, Whole
    <3>2. \A v \in Tables : ~mem[u][v].changed
      BY <3>1 DEF Whole, TableOK, CopyOK, CopyIn
    <3>3. NoTick \in 0..MaxTick /\ "ok" \in States
      BY BoundAssumption DEF States, Copying, NoTick
    <3>4. db' \in [Tables -> Row]
      BY DEF Whole, TypeOK
    <3> QED
      BY <1>5, <3>1, <3>2, <3>3, <3>4, ChangeEffect DEF CopyHandOver
  <2>4. db'[u] # db[u]
    BY <1>0, <1>5, <2>3
  <2>5. Serving' = Serving \cup {u} /\ db'[u].state = "ok"
    BY <2>2, <2>3, <2>4 DEF Serving, ByHandOver
  <2>6. data[u] \in Promise!Prefixes(u)
    <3>1. data'[u] \in Promise!Prefixes(u)'
      BY <2>5 DEF Faithful
    <3> QED
      BY <2>1, <3>1 DEF Promise!Prefixes, Promise!Seen
  <2> QED
    BY <2>1, <2>5, <2>6 DEF Promise!Next, Promise!Enter, Serving
<1>6. CASE UNCHANGED vars
  BY <1>1, <1>6 DEF vars, provider, subscr, Serving
<1>7. CASE Next
  <2>1. CASE Tick
    BY <1>1, <2>1 DEF Tick, subscr, Serving
  <2>2. CASE MainStep \/ (\E u \in Tables : CopyStep(u) /\ ~CopyHandOver(u)) \/ Faults
    <3>1. Serving' = Serving
      BY <2>2, ServingStays
    <3>2. log' = log
      BY <2>2 DEF MainStep, CopyStep, Faults, Batch, provider, Poll, Idle, Load, Cleanup, Apply,
           MainTune, MainSyncDone, MainDoSync, MainStartCopy, MainLaunch, Register, CopyLost,
           CopyHandOver, CopyBehind, CopyOvershoot, CopyWait, CopyCatchUp, CopyWantSync,
           CopySnapshot, CopyLoad, CopyExit, CrashMain, StartMain, Fail, CrashCopy, RestartCopy
    <3> QED
      BY <1>3, <1>7, <3>1, <3>2
  <2>3. ASSUME NEW u \in Tables, CopyHandOver(u)
        PROVE  [Promise!Next]_(Promise!replica)
    <3>1. log' = log /\ data' = data
      BY <2>3 DEF CopyHandOver, provider
    <3> QED
      BY <1>1, <1>5, <2>3, <3>1 DEF Serving
  <2> QED
    BY <1>2, <1>4, <1>7, <2>1, <2>2, <2>3 DEF Next, Provider, Setup
<1> QED
  BY <1>6, <1>7

\* The node as its readers see it: a served table reflects an exact prefix of
\* the provider's log and moves only forward, through every hand-over, failure,
\* restart and administrator's command.
THEOREM PromiseKept == ASSUME Sound PROVE Spec => KeepsPromise
<1>1. Init => Promise!Init /\ Known
  BY DEF Init, InitIn, Promise!Init, Known
<1>2. Whole /\ Known /\ [Next]_vars => Known'
  BY StaysKnown
<1>3. Whole /\ Whole' /\ Known /\ Known' /\ Faithful' /\ [Next]_vars => [Promise!Next]_(Promise!replica)
  BY PromiseStep
<1>4. Whole => Faithful
  BY ServedPrefix DEF Faithful
<1> QED
  BY <1>1, <1>2, <1>3, <1>4, AlwaysWhole, PTL DEF Spec, KeepsPromise, Promise!Spec

=============================================================================
