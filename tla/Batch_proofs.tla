--------------------------- MODULE Batch_proofs ---------------------------
(***************************************************************************)
(* Proofs about Batch: for any keys, rows, size of the buffer, length of   *)
(* the history and number of failures, what the worker commits is what the *)
(* provider had.                                                           *)
(***************************************************************************)
EXTENDS Batch, TLAPS

\* The kinds of event and the fields each of them has.
LEMMA EventFields ==
    ASSUME NEW e \in Event
    PROVE  /\ IsData(e) => e \in Data /\ e.op \in {"I", "U", "D"} /\ e.key \in Keys /\ e.row \in Vals
           /\ ~IsData(e) => e.op \in {"R", "EXECUTE"} /\ (e.op = "EXECUTE" => e.row \in Vals)
  BY DEF Event, Data, Whole, IsData

\* A statement makes a table of a table.
LEMMA EffectType ==
    ASSUME NEW e \in Event, NEW tab \in Tables
    PROVE  Effect(e, tab) \in Tables
  <1>1. CASE IsData(e)
    <2>1. e.key \in Keys /\ e.row \in Rows /\ e.op \in {"I", "U", "D"} /\ Absent \in Rows
      BY <1>1, EventFields DEF Rows
    <2> QED BY <2>1 DEF Effect, Tables
  <1>2. CASE ~IsData(e)
    <2>1. Absent \in Rows /\ e.op \in {"R", "EXECUTE"} /\ (e.op = "EXECUTE" => e.row \in Rows)
      BY <1>2, EventFields DEF Rows
    <2>2. CASE e.op = "R"
      BY <2>1, <2>2 DEF Effect, Tables, Empty
    <2>3. CASE e.op = "EXECUTE"
      BY <2>1, <2>3 DEF Effect, Tables
    <2> QED BY <2>1, <2>2, <2>3
  <1> QED BY <1>1, <1>2

\* An event of one key leaves the others, and makes of its own key what it says.
LEMMA DataEffect ==
    ASSUME NEW e \in Event, IsData(e), NEW tab \in Tables, NEW k \in Keys
    PROVE  /\ k # e.key => Effect(e, tab)[k] = tab[k]
           /\ k = e.key /\ e.op = "D" => Effect(e, tab)[k] = Absent
           /\ k = e.key /\ e.op = "I" => Effect(e, tab)[k] = e.row
           /\ k = e.key /\ e.op = "U" /\ tab[k] # Absent => Effect(e, tab)[k] = e.row
  BY EventFields DEF Effect, Tables

\* A table of key columns only has one possible content for a row.
LEMMA OneContent ==
    ASSUME keyOnly, NEW r \in Content \union {Absent}, NEW s \in Content \union {Absent},
           r # Absent, s # Absent
    PROVE  r = s
  BY DEF Content

-----------------------------------------------------------------------------
\* A stuttering step, variable by variable.
LEMMA Stutter ==
    ASSUME UNCHANGED vars
    PROVE  /\ handler' = handler /\ method' = method /\ keyOnly' = keyOnly
           /\ log' = log /\ past' = past /\ dst' = dst /\ base' = base /\ work' = work
           /\ phase' = phase /\ end' = end /\ pos' = pos /\ sql' = sql /\ pend' = pend
           /\ slow' = slow /\ fails' = fails
  <1>1. setup' = setup /\ source' = source
    BY DEF vars
  <1>2. handler' = handler /\ method' = method /\ keyOnly' = keyOnly
    BY <1>1 DEF setup
  <1>3. log' = log /\ past' = past
    BY <1>1 DEF source
  <1> QED BY <1>2, <1>3 DEF vars

\* Type correctness, for any history and any interleaving of failures.
LEMMA InitType == Init => TypeOK
  <1> SUFFICES ASSUME Init PROVE TypeOK
    OBVIOUS
  <1>1. PICK tab \in [Keys -> Content \union {Absent}] : past = <<tab>> /\ dst = tab /\ work = tab
    BY DEF Init
  <1>2. Content \subseteq Vals
    BY RowsAssumption DEF Content
  <1>3. tab \in Tables
    BY <1>1, <1>2 DEF Tables, Rows
  <1>4. past \in Seq(Tables) /\ dst \in Tables /\ work \in Tables
    BY <1>1, <1>3
  <1>5. log \in Seq(Event) /\ sql \in Seq(Data) /\ Len(sql) <= SqlLimit
    BY LimitAssumption DEF Init
  <1>6. pend \in [Keys -> Pending \union {Nothing}]
    BY DEF Init, NoPend
  <1> QED BY <1>4, <1>5, <1>6 DEF Init, TypeOK

\* What bulk_handler notes of a key has the type of a note.
LEMMA NotedType ==
    ASSUME NEW p \in Pending \union {Nothing}, NEW e \in Data
    PROVE  Noted(p, e) \in Pending
  <1>1. e.row \in Vals
    BY DEF Data
  <1>2. (IF p.seen THEN p.before ELSE e.op # "I") \in BOOLEAN
    <2>1. CASE p \in Pending
      <3>1. p.seen = TRUE /\ p.before \in BOOLEAN
        BY <2>1 DEF Pending
      <3> QED BY <3>1
    <2>2. CASE p = Nothing
      <3>1. p.seen = FALSE
        BY <2>2 DEF Nothing
      <3> QED BY <3>1
    <2> QED BY <2>1, <2>2
  <1>3. (IF e.op = "U" THEN p.seen => p.after ELSE e.op = "I") \in BOOLEAN
    OBVIOUS
  <1> QED BY <1>1, <1>2, <1>3 DEF Noted, Pending

\* The loads of bulk_flush leave a table.
LEMMA ResultType ==
    ASSUME TypeOK
    PROVE  Result \in Tables
  <1>1. \A k \in UpdList \union InsList : pend[k].seen
    BY DEF UpdList, InsList, Listed
  <1>2. ASSUME NEW k \in Keys, pend[k].seen PROVE pend[k].row \in Rows
    <2>1. pend[k] \in Pending \/ pend[k] = Nothing
      BY DEF TypeOK
    <2>2. pend[k] # Nothing
      BY <1>2 DEF Nothing
    <2>3. pend[k].row \in Vals
      BY <2>1, <2>2 DEF Pending
    <2> QED BY <2>3 DEF Rows
  <1>3. \A k \in UpdList \union InsList : k \in Keys
    BY DEF UpdList, InsList, Listed
  <1>4. Deleted \in Tables
    BY DEF Deleted, Tables, TypeOK, Rows
  <1>5. Updated \in Tables
    BY <1>1, <1>2, <1>4 DEF Updated, Tables
  <1>6. Loaded \in Tables
    BY <1>1, <1>2, <1>5 DEF Loaded, Tables
  <1> QED BY <1>6 DEF Result, TypeOK

\* A consumer that has done nothing is at the start of the history.
LEMMA InitBatch == Init => BatchInv
  BY LimitAssumption DEF Init, BatchInv

\* Inside a batch, the next event is one of the log.
LEMMA NextEvent ==
    ASSUME TypeOK, BatchInv, HasNext
    PROVE  Next1 \in Event /\ pos + 1 \in 1..Len(log)
  <1>1. pos + 1 \in 1..Len(log)
    BY DEF TypeOK, BatchInv, HasNext
  <1> QED BY <1>1 DEF TypeOK, Next1

\* Every step keeps the types.
LEMMA StepType ==
    ASSUME TypeOK, BatchInv, [Next]_vars
    PROVE  TypeOK'
  <1> USE LimitAssumption
  <1>1. ASSUME NEW e \in Event, Produce(e) PROVE TypeOK'
    <2>1. Now \in Tables
      <3>1. Len(past) \in 1..Len(past)
        BY DEF TypeOK, BatchInv
      <3> QED BY <3>1 DEF TypeOK, Now
    <2>2. log' \in Seq(Event)
      BY <1>1 DEF Produce, TypeOK
    <2>3. past' \in Seq(Tables)
      BY <1>1, <2>1, EffectType DEF Produce, TypeOK
    <2> QED BY <1>1, <2>2, <2>3 DEF Produce, TypeOK, setup
  <1>2. CASE OpenBatch
    BY <1>2 DEF OpenBatch, TypeOK, setup, source, NoPend
  <1>3. CASE QueueSql
    <2>1. Next1 \in Data
      BY <1>3, NextEvent, EventFields DEF QueueSql
    <2>2. Len(sql) < SqlLimit
      BY <1>3 DEF QueueSql, HasNext, BatchInv
    <2> QED BY <1>3, <2>1, <2>2 DEF QueueSql, HasNext, TypeOK, setup, source, FlushNow
  <1>4. CASE Collect
    <2>1. Next1 \in Data
      BY <1>4, NextEvent, EventFields DEF Collect
    <2>2. pend' \in [Keys -> Pending \union {Nothing}]
      BY <1>4, <2>1, NotedType DEF Collect, TypeOK, Data
    <2> QED BY <1>4, <2>2 DEF Collect, HasNext, TypeOK, setup, source
  <1>5. CASE StartFlush
    BY <1>5 DEF StartFlush, TypeOK, setup, source
  <1>6. CASE RunSql
    <2>1. Head(sql) \in Event
      BY <1>6 DEF RunSql, TypeOK, Event
    <2>2. work' \in Tables
      BY <1>6, <2>1, EffectType DEF RunSql, TypeOK
    <2>3. sql' \in Seq(Data) /\ Len(sql') <= SqlLimit
      BY <1>6 DEF RunSql, TypeOK
    <2> QED BY <1>6, <2>2, <2>3 DEF RunSql, TypeOK, setup, source
  <1>7. CASE EndFlush
    BY <1>7 DEF EndFlush, TypeOK, setup, source
  <1>8. CASE RunStatement
    <2>1. Next1 \in Event
      BY <1>8, NextEvent DEF RunStatement
    <2>2. work' \in Tables
      BY <1>8, <2>1, EffectType DEF RunStatement, TypeOK
    <2> QED BY <1>8, <2>2 DEF RunStatement, HasNext, TypeOK, setup, source
  <1>9. CASE FinishBatch
    BY <1>9, ResultType DEF FinishBatch, TypeOK, setup, source, NoPend
  <1>10. CASE Fail
    <2>1. sql' \in Seq(Data) /\ Len(sql') <= SqlLimit
      BY <1>10 DEF Fail, TypeOK
    <2> QED BY <1>10, <2>1 DEF Fail, TypeOK, setup, source
  <1>11. CASE Crash
    <2>1. sql' \in Seq(Data) /\ Len(sql') <= SqlLimit
      BY <1>11 DEF Crash
    <2>2. pend' \in [Keys -> Pending \union {Nothing}]
      BY <1>11 DEF Crash, NoPend
    <2>3. slow' \in BOOLEAN
      BY <1>11 DEF Crash
    <2> QED BY <1>11, <2>1, <2>2, <2>3 DEF Crash, TypeOK, setup, source
  <1>12. CASE UNCHANGED vars
    BY <1>12, Stutter DEF TypeOK
  <1> QED
    BY <1>1, <1>2, <1>3, <1>4, <1>5, <1>6, <1>7, <1>8, <1>9, <1>10, <1>11, <1>12 DEF Next, Step

\* Every step keeps the place of the consumer in the history.
LEMMA StepBatch ==
    ASSUME TypeOK, BatchInv, [Next]_vars
    PROVE  BatchInv'
  <1> USE LimitAssumption
  <1>1. ASSUME NEW e \in Event, Produce(e) PROVE BatchInv'
    <2>1. Len(past') = Len(log') + 1 /\ Len(log') = Len(log) + 1
      BY <1>1 DEF Produce, BatchInv, TypeOK
    <2> QED BY <1>1, <2>1 DEF Produce, BatchInv, TypeOK
  <1>2. CASE OpenBatch
    BY <1>2 DEF OpenBatch, BatchInv, TypeOK, source
  <1>3. CASE QueueSql \/ Collect \/ RunStatement
    BY <1>3 DEF QueueSql, Collect, RunStatement, HasNext, FlushNow, BatchInv, TypeOK, source
  <1>4. CASE StartFlush \/ RunSql \/ EndFlush
    BY <1>4 DEF StartFlush, RunSql, EndFlush, BatchInv, TypeOK, source
  <1>5. CASE FinishBatch
    BY <1>5 DEF FinishBatch, BatchInv, TypeOK, source
  <1>6. CASE Fail \/ Crash
    BY <1>6 DEF Fail, Crash, BatchInv, TypeOK, source
  <1>7. CASE UNCHANGED vars
    BY <1>7, Stutter DEF BatchInv
  <1> QED BY <1>1, <1>2, <1>3, <1>4, <1>5, <1>6, <1>7 DEF Next, Step

\* Every variable of the batch keeps its type, and the buffer of statements
\* never outgrows its limit (playback.py:856-865).
THEOREM TypeCorrect == Spec => []TypeOK
  <1>1. Init => TypeOK /\ BatchInv
    BY InitType, InitBatch
  <1>2. TypeOK /\ BatchInv /\ [Next]_vars => (TypeOK /\ BatchInv)'
    BY StepType, StepBatch
  <1> QED BY <1>1, <1>2, PTL DEF Spec

-----------------------------------------------------------------------------
(* Exactness, where TRUNCATE and EXECUTE do not reach bulk-loaded tables    *)
(* and method 2 does not load tables of key columns only.                   *)

\* The provider's history grows by one event at a time and is otherwise kept.
LEMMA SourceInitial == Init => SourceInv
  <1> SUFFICES ASSUME Init PROVE SourceInv
    OBVIOUS
  <1>1. PICK tab \in [Keys -> Content \union {Absent}] : past = <<tab>>
    BY DEF Init
  <1>2. Len(past) = 1 /\ past[1] = tab /\ Len(log) = 0
    BY <1>1 DEF Init
  <1>3. \A n \in 1..Len(past) : \A k \in Keys : past[n][k] \in Content \union {Absent}
    BY <1>2
  <1> QED BY <1>2, <1>3 DEF SourceInv

\* An event makes rows of the table's own content only.
LEMMA EffectContent ==
    ASSUME NEW e \in Event, NEW tab \in Tables, Fits(e, tab),
           e.op \in {"I", "U", "EXECUTE"} => e.row \in Content,
           \A k \in Keys : tab[k] \in Content \union {Absent}
    PROVE  \A k \in Keys : Effect(e, tab)[k] \in Content \union {Absent}
  <1>1. CASE IsData(e)
    BY <1>1, EventFields DEF Effect, Tables
  <1>2. CASE ~IsData(e)
    BY <1>2, EventFields DEF Effect, Tables, Empty
  <1> QED BY <1>1, <1>2

\* An event of the source adds one table to the history and changes no earlier one.
LEMMA SourceProduce ==
    ASSUME TypeOK, BatchInv, SourceInv, ~BulkStatements, NEW e \in Event, Produce(e)
    PROVE  /\ SourceInv'
           /\ \A n \in 1..Len(log) : log'[n] = log[n]
           /\ \A n \in 1..Len(past) : past'[n] = past[n]
  <1>1. log' = Append(log, e) /\ past' = Append(past, Effect(e, Now)) /\ UNCHANGED <<handler, keyOnly>>
    BY DEF Produce, setup
  <1>2. Len(log) \in Nat /\ Len(log') = Len(log) + 1 /\ \A n \in 1..Len(log) : log'[n] = log[n]
    BY <1>1 DEF TypeOK
  <1>3. log'[Len(log) + 1] = e
    BY <1>1 DEF TypeOK
  <1>4. Now \in Tables /\ Now = past[Len(log) + 1] /\ Len(past) = Len(log) + 1
    <2>1. Len(past) \in 1..Len(past)
      BY DEF TypeOK, BatchInv
    <2> QED BY <2>1 DEF TypeOK, Now, BatchInv
  <1>5. Len(past') = Len(past) + 1 /\ (\A n \in 1..Len(past) : past'[n] = past[n])
        /\ past'[Len(past) + 1] = Effect(e, Now)
    BY <1>1, <1>4, EffectType DEF TypeOK
  <1>6. Content' = Content
    BY <1>1 DEF Content
  <1>7. Fits(e, Now) /\ (handler = "bulk" => IsData(e))
    BY DEF Produce, TypeOK
  <1>8. ASSUME NEW n \in 1..Len(log')
        PROVE  /\ Fits(log'[n], past'[n]) /\ past'[n + 1] = Effect(log'[n], past'[n])
               /\ handler = "bulk" => IsData(log'[n])
    <2>1. CASE n \in 1..Len(log)
      <3>1. n \in 1..Len(past) /\ n + 1 \in 1..Len(past)
        BY <2>1, <1>2, <1>4
      <3>2. log'[n] = log[n] /\ past'[n] = past[n] /\ past'[n + 1] = past[n + 1]
        BY <2>1, <3>1, <1>2, <1>5
      <3> QED BY <2>1, <3>2 DEF SourceInv
    <2>2. CASE n = Len(log) + 1
      <3>1. log'[n] = e /\ past'[n] = Now /\ past'[n + 1] = Effect(e, Now)
        BY <2>2, <1>2, <1>3, <1>4, <1>5
      <3> QED BY <3>1, <1>7
    <2> QED BY <2>1, <2>2, <1>2
  <1>9. ASSUME NEW n \in 1..Len(past'), NEW k \in Keys
        PROVE  past'[n][k] \in Content \union {Absent}
    <2>1. CASE n \in 1..Len(past)
      BY <2>1, <1>5 DEF SourceInv
    <2>2. CASE n = Len(past) + 1
      <3>1. \A j \in Keys : Now[j] \in Content \union {Absent}
        BY <1>2, <1>4 DEF SourceInv
      <3>2. e.op \in {"I", "U", "EXECUTE"} => e.row \in Content
        BY DEF Produce
      <3>3. Effect(e, Now)[k] \in Content \union {Absent}
        BY <3>1, <3>2, <1>4, <1>7, EffectContent
      <3> QED BY <2>2, <3>3, <1>5
    <2> QED BY <2>1, <2>2, <1>2, <1>4, <1>5
  <1>10. SourceInv'
    BY <1>1, <1>6, <1>8, <1>9 DEF SourceInv
  <1> QED BY <1>2, <1>5, <1>10

\* What is true of the history stays true while nothing is added to it.
LEMMA SourceKept ==
    ASSUME SourceInv, UNCHANGED <<handler, keyOnly, log, past>>
    PROVE  SourceInv'
  BY DEF SourceInv, Content

\* The n-th table of the history, and the one after it.
LEMMA HistoryAt ==
    ASSUME TypeOK, BatchInv, SourceInv, NEW n \in 1..Len(log)
    PROVE  /\ log[n] \in Event /\ past[n] \in Tables /\ past[n + 1] \in Tables
           /\ Fits(log[n], past[n]) /\ past[n + 1] = Effect(log[n], past[n])
           /\ handler = "bulk" => IsData(log[n])
  <1>1. n \in 1..Len(past) /\ n + 1 \in 1..Len(past)
    BY DEF BatchInv, TypeOK
  <1> QED BY <1>1 DEF TypeOK, SourceInv

\* A batch is open only where nothing is produced.
LEMMA ProduceIdle ==
    ASSUME TypeOK, BatchInv, NEW e \in Event, Produce(e)
    PROVE  phase = "idle" /\ phase' = "idle"
  BY DEF Produce, BatchInv, TypeOK

\* The plain handler: the transaction lags behind by the statements that wait.
LEMMA PlainStep ==
    ASSUME TypeOK, BatchInv, SourceInv, PlainInv, Exact, [Next]_vars
    PROVE  PlainInv'
  <1> SUFFICES ASSUME handler' = "plain", phase' # "idle"
               PROVE  /\ Len(sql') <= pos' - base'
                      /\ \A i \in 1..Len(sql') : sql'[i] = log'[pos' - Len(sql') + i]
                      /\ work' = past'[pos' - Len(sql') + 1]
    BY DEF PlainInv
  <1>1. ASSUME NEW e \in Event, Produce(e) PROVE FALSE
    BY <1>1, ProduceIdle
  <1>2. CASE OpenBatch
    <2>1. Len(sql') = 0 /\ pos' = base /\ base' = base /\ work' = dst /\ past' = past
      BY <1>2 DEF OpenBatch, source, BatchInv
    <2> QED BY <2>1 DEF Exact, TypeOK
  <1>3. CASE QueueSql
    <2>1. /\ sql' = Append(sql, Next1) /\ pos' = pos + 1 /\ phase = "events" /\ handler = "plain"
          /\ UNCHANGED <<log, past, base, work>>
      BY <1>3 DEF QueueSql, HasNext, source
    <2>2. Next1 \in Data
      BY <1>3, NextEvent, EventFields DEF QueueSql
    <2>3. Len(sql) \in Nat /\ Len(sql') = Len(sql) + 1 /\ pos \in Nat /\ base \in Nat
      BY <2>1, <2>2 DEF TypeOK
    <2>4. pos' - Len(sql') = pos - Len(sql)
      BY <2>1, <2>3
    <2>5. ASSUME NEW i \in 1..Len(sql') PROVE sql'[i] = log'[pos' - Len(sql') + i]
      <3>1. CASE i \in 1..Len(sql)
        <4>1. sql'[i] = sql[i]
          BY <3>1, <2>1, <2>2 DEF TypeOK
        <4> QED BY <4>1, <3>1, <2>1, <2>4 DEF PlainInv
      <3>2. CASE i = Len(sql) + 1
        <4>1. sql'[i] = Next1
          BY <3>2, <2>1, <2>2 DEF TypeOK
        <4>2. pos' - Len(sql') + i = pos + 1
          BY <3>2, <2>3, <2>1
        <4> QED BY <4>1, <4>2, <2>1 DEF Next1
      <3> QED BY <3>1, <3>2, <2>3
    <2>6. Len(sql') <= pos' - base'
      BY <2>1, <2>3 DEF PlainInv
    <2>7. work' = past'[pos' - Len(sql') + 1]
      BY <2>1, <2>4 DEF PlainInv
    <2> QED BY <2>5, <2>6, <2>7
  <1>4. CASE Collect
    BY <1>4 DEF Collect, setup
  <1>5. CASE StartFlush \/ EndFlush
    BY <1>5 DEF StartFlush, EndFlush, PlainInv, setup, source
  <1>6. CASE RunSql
    <2>1. /\ sql # <<>> /\ work' = Effect(Head(sql), work) /\ sql' = Tail(sql) /\ phase = "flush"
          /\ handler = "plain" /\ UNCHANGED <<log, past, base, pos>>
      BY <1>6 DEF RunSql, setup, source
    <2> DEFINE m == pos - Len(sql) + 1
    <2>2. Len(sql) \in Nat \ {0} /\ Len(sql') = Len(sql) - 1 /\ pos \in Nat /\ base \in Nat
      BY <2>1 DEF TypeOK
    <2>3. Len(sql) <= pos - base /\ pos <= Len(log) /\ Len(log) \in Nat
      BY <2>1 DEF PlainInv, BatchInv, TypeOK
    <2>4. m \in 1..Len(log)
      BY <2>2, <2>3
    <2>5. Head(sql) = log[m] /\ work = past[m]
      <3>1. Head(sql) = sql[1] /\ 1 \in 1..Len(sql)
        BY <2>1, <2>2 DEF TypeOK
      <3> QED BY <3>1, <2>1 DEF PlainInv
    <2>6. work' = past[m + 1]
      BY <2>1, <2>4, <2>5, HistoryAt
    <2>7. pos' - Len(sql') + 1 = m + 1
      BY <2>1, <2>2
    <2>8. ASSUME NEW i \in 1..Len(sql') PROVE sql'[i] = log'[pos' - Len(sql') + i]
      <3>1. i + 1 \in 1..Len(sql) /\ sql'[i] = sql[i + 1]
        BY <2>1, <2>2 DEF TypeOK
      <3>2. sql[i + 1] = log[pos - Len(sql) + (i + 1)]
        BY <3>1, <2>1 DEF PlainInv
      <3>3. pos - Len(sql) + (i + 1) = pos' - Len(sql') + i
        BY <2>1, <2>2
      <3> QED BY <3>1, <3>2, <3>3, <2>1
    <2>9. Len(sql') <= pos' - base'
      BY <2>1, <2>2, <2>3
    <2>10. work' = past'[pos' - Len(sql') + 1]
      BY <2>1, <2>6, <2>7
    <2> QED BY <2>8, <2>9, <2>10
  <1>7. CASE RunStatement
    <2>1. /\ sql = <<>> /\ work' = Effect(Next1, work) /\ pos' = pos + 1 /\ phase = "events"
          /\ handler = "plain" /\ UNCHANGED <<log, past, base, sql>>
      BY <1>7 DEF RunStatement, HasNext, setup, source
    <2>2. Len(sql) = 0 /\ Len(sql') = 0 /\ pos \in Nat /\ base \in Nat
      BY <2>1 DEF TypeOK
    <2>3. pos + 1 \in 1..Len(log)
      BY <1>7, NextEvent DEF RunStatement
    <2>4. work = past[pos + 1]
      <3>1. work = past[pos - Len(sql) + 1]
        BY <2>1 DEF PlainInv
      <3> QED BY <3>1, <2>2
    <2>5. work' = past[(pos + 1) + 1]
      BY <2>1, <2>3, <2>4, HistoryAt DEF Next1
    <2>6. Len(sql') <= pos' - base'
      BY <2>1, <2>2 DEF PlainInv
    <2>7. pos' - Len(sql') + 1 = (pos + 1) + 1
      BY <2>1, <2>2
    <2>8. \A i \in 1..Len(sql') : FALSE
      BY <2>2
    <2> QED BY <2>1, <2>5, <2>6, <2>7, <2>8
  <1>8. CASE FinishBatch \/ Fail \/ Crash
    BY <1>8 DEF FinishBatch, Fail, Crash
  <1>9. CASE UNCHANGED vars
    BY <1>9, Stutter DEF PlainInv
  <1> QED BY <1>1, <1>2, <1>3, <1>4, <1>5, <1>6, <1>7, <1>8, <1>9 DEF Next, Step

\* The bulk handler: the notes of a key tell its row before the batch and now.
LEMMA BulkStep ==
    ASSUME TypeOK, BatchInv, SourceInv, BulkInv, Exact, [Next]_vars
    PROVE  BulkInv'
  <1> SUFFICES ASSUME handler' = "bulk", phase' # "idle"
               PROVE  /\ phase' = "events" /\ sql' = <<>> /\ work' = past'[base' + 1]
                      /\ \A k \in Keys :
                            /\ ~pend'[k].seen => past'[pos' + 1][k] = work'[k]
                            /\ pend'[k].seen =>
                                  /\ pend'[k].before <=> work'[k] # Absent
                                  /\ pend'[k].after <=> past'[pos' + 1][k] # Absent
                                  /\ pend'[k].after => pend'[k].row = past'[pos' + 1][k]
    BY DEF BulkInv
  <1>1. ASSUME NEW e \in Event, Produce(e) PROVE FALSE
    BY <1>1, ProduceIdle
  <1>2. CASE OpenBatch
    <2>1. /\ sql' = <<>> /\ pos' = base /\ base' = base /\ work' = dst /\ past' = past
          /\ phase' = "events" /\ pend' = NoPend
      BY <1>2 DEF OpenBatch, source, BatchInv
    <2>2. \A k \in Keys : pend'[k].seen = FALSE
      BY <2>1 DEF NoPend, Nothing
    <2> QED BY <2>1, <2>2 DEF Exact
  <1>3. CASE Collect
    <2> DEFINE e == Next1
    <2>1. /\ phase = "events" /\ handler = "bulk" /\ IsData(e) /\ pos' = pos + 1
          /\ pend' = [pend EXCEPT ![e.key] = Noted(@, e)]
          /\ UNCHANGED <<log, past, base, work, sql, phase>>
      BY <1>3 DEF Collect, HasNext, source
    <2>2. e \in Event /\ e \in Data /\ pos + 1 \in 1..Len(log) /\ e = log[pos + 1] /\ e.key \in Keys
      BY <1>3, NextEvent, EventFields DEF Collect, Next1
    <2>3. past[pos + 1] \in Tables /\ Fits(e, past[pos + 1])
          /\ past[pos' + 1] = Effect(e, past[pos + 1])
      BY <2>1, <2>2, HistoryAt
    <2>4. sql = <<>> /\ work = past[base + 1]
      BY <2>1 DEF BulkInv
    <2>5. ASSUME NEW k \in Keys
          PROVE  /\ ~pend'[k].seen => past'[pos' + 1][k] = work'[k]
                 /\ pend'[k].seen =>
                       /\ pend'[k].before <=> work'[k] # Absent
                       /\ pend'[k].after <=> past'[pos' + 1][k] # Absent
                       /\ pend'[k].after => pend'[k].row = past'[pos' + 1][k]
      <3>1. CASE k # e.key
        <4>1. pend'[k] = pend[k]
          BY <3>1, <2>1 DEF TypeOK
        <4>2. past[pos' + 1][k] = past[pos + 1][k]
          BY <3>1, <2>1, <2>2, <2>3, DataEffect
        <4> QED BY <4>1, <4>2, <2>1 DEF BulkInv
      <3>2. CASE k = e.key
        <4> DEFINE now == past[pos + 1][k]
                   next == past[pos' + 1][k]
        <4>1. pend'[k] = Noted(pend[k], e)
          BY <3>2, <2>1 DEF TypeOK
        <4>2. (e.op = "I") <=> (now = Absent)
          BY <3>2, <2>1, <2>3 DEF Fits
        <4>3. e.op \in {"I", "U", "D"}
          BY <2>1, <2>2, EventFields
        <4>4. e.op = "D" => next = Absent
          BY <3>2, <2>1, <2>2, <2>3, DataEffect
        <4>5. e.op # "D" => next = e.row
          BY <3>2, <4>2, <4>3, <2>1, <2>2, <2>3, DataEffect
        <4>6. /\ ~pend[k].seen => now = work[k]
              /\ pend[k].seen => (pend[k].before <=> work[k] # Absent) /\ (pend[k].after <=> now # Absent)
          BY <2>1 DEF BulkInv
        <4> HIDE DEF now, next, e
        <4>7. /\ Noted(pend[k], e).seen
              /\ Noted(pend[k], e).before <=> work[k] # Absent
              /\ Noted(pend[k], e).after <=> next # Absent
              /\ Noted(pend[k], e).after => Noted(pend[k], e).row = next
          <5>1. Noted(pend[k], e).seen /\ Noted(pend[k], e).row = e.row
            BY DEF Noted
          <5>2. Noted(pend[k], e).before <=> work[k] # Absent
            <6>1. Noted(pend[k], e).before = (IF pend[k].seen THEN pend[k].before ELSE e.op # "I")
              BY DEF Noted
            <6>2. CASE pend[k].seen
              BY <6>1, <6>2, <4>6
            <6>3. CASE ~pend[k].seen
              BY <6>1, <6>3, <4>2, <4>6
            <6> QED BY <6>2, <6>3
          <5>3. Noted(pend[k], e).after <=> next # Absent
            <6>1. Noted(pend[k], e).after
                    = (IF e.op = "U" THEN pend[k].seen => pend[k].after ELSE e.op = "I")
              BY DEF Noted
            <6>2. e.row # Absent
              BY <2>2, RowsAssumption DEF Data
            <6>3. CASE e.op = "U"
              BY <6>1, <6>2, <6>3, <4>2, <4>5, <4>6
            <6>4. CASE e.op = "I"
              BY <6>1, <6>2, <6>4, <4>5
            <6>5. CASE e.op = "D"
              BY <6>1, <6>5, <4>4
            <6> QED BY <6>3, <6>4, <6>5, <4>3
          <5>4. Noted(pend[k], e).after => Noted(pend[k], e).row = next
            BY <5>1, <5>3, <4>4, <4>5
          <5> QED BY <5>1, <5>2, <5>3, <5>4
        <4> QED BY <4>1, <4>7, <2>1 DEF next
      <3> QED BY <3>1, <3>2
    <2> QED BY <2>1, <2>4, <2>5
  <1>4. CASE QueueSql
    BY <1>4 DEF QueueSql, setup
  <1>5. CASE StartFlush \/ EndFlush \/ RunSql
    <2>1. handler = "bulk" /\ phase # "idle" /\ ((phase = "events" /\ sql # <<>>) \/ phase = "flush")
      BY <1>5 DEF StartFlush, EndFlush, RunSql, setup
    <2> QED BY <2>1 DEF BulkInv
  <1>6. CASE RunStatement
    <2>1. handler = "bulk" /\ ~IsData(Next1) /\ pos + 1 \in 1..Len(log)
      BY <1>6, NextEvent DEF RunStatement, setup
    <2> QED BY <2>1, HistoryAt DEF Next1
  <1>7. CASE FinishBatch \/ Fail \/ Crash
    BY <1>7 DEF FinishBatch, Fail, Crash
  <1>8. CASE UNCHANGED vars
    BY <1>8, Stutter DEF BulkInv
  <1> QED BY <1>1, <1>2, <1>3, <1>4, <1>5, <1>6, <1>7, <1>8 DEF Next, Step

\* The three lists, loaded one after the other, make the provider's rows of
\* the rows before the batch.
LEMMA LoadedRow ==
    ASSUME TypeOK, BatchInv, SetupInv, SourceInv, BulkInv, handler = "bulk", phase # "idle",
           NEW k \in Keys
    PROVE  Loaded[k] = past[pos + 1][k]
  <1> DEFINE now == past[pos + 1][k]
  <1>1. /\ ~pend[k].seen => now = work[k]
        /\ pend[k].seen =>
              /\ pend[k].before <=> work[k] # Absent
              /\ pend[k].after <=> now # Absent
              /\ pend[k].after => pend[k].row = now
    BY DEF BulkInv
  <1>2. pend[k].seen => pend[k].before \in BOOLEAN /\ pend[k].after \in BOOLEAN
    <2>1. pend[k] \in Pending \/ pend[k] = Nothing
      BY DEF TypeOK
    <2>2. pend[k].seen => pend[k] \in Pending
      BY <2>1 DEF Nothing
    <2> QED BY <2>2 DEF Pending
  <1>3. keyOnly /\ work[k] # Absent /\ now # Absent => work[k] = now
    <2>1. base + 1 \in 1..Len(past) /\ pos + 1 \in 1..Len(past) /\ work = past[base + 1]
      BY DEF BatchInv, BulkInv, TypeOK
    <2>2. work[k] \in Content \union {Absent} /\ now \in Content \union {Absent}
      BY <2>1 DEF SourceInv
    <2> QED BY <2>2, OneContent
  <1>4. k \in DelList <=> pend[k].seen /\ pend[k].before = TRUE /\ pend[k].after = FALSE
    BY DEF DelList, Listed
  <1>5. k \in InsList <=> method # 2 /\ pend[k].seen /\ pend[k].before = FALSE /\ pend[k].after = TRUE
    BY DEF InsList, Listed, Merged
  <1>6. k \in UpdList <=> /\ ~keyOnly /\ pend[k].seen /\ pend[k].after = TRUE
                          /\ pend[k].before = TRUE \/ (method = 2 /\ pend[k].before = FALSE)
    BY DEF UpdList, Listed, Merged
  <1>7. keyOnly => method # 2
    BY DEF SetupInv
  <1>8. /\ Deleted[k] = IF k \in DelList THEN Absent ELSE work[k]
        /\ Updated[k] = IF k \in UpdList /\ (method = 0 => Deleted[k] # Absent)
                        THEN pend[k].row ELSE Deleted[k]
        /\ Loaded[k] = IF k \in InsList THEN pend[k].row ELSE Updated[k]
    BY DEF Deleted, Updated, Loaded
  <1> HIDE DEF now
  <1>9. CASE ~pend[k].seen
    BY <1>9, <1>1, <1>4, <1>5, <1>6, <1>8 DEF now
  <1>10. CASE pend[k].seen /\ pend[k].after = FALSE
    <2>1. now = Absent /\ k \notin InsList /\ k \notin UpdList
      BY <1>10, <1>1, <1>5, <1>6
    <2>2. Loaded[k] = Deleted[k]
      BY <2>1, <1>8
    <2>3. Deleted[k] = Absent
      <3>1. CASE pend[k].before = TRUE
        BY <3>1, <1>10, <1>4, <1>8
      <3>2. CASE pend[k].before = FALSE
        <4>1. work[k] = Absent
          BY <3>2, <1>10, <1>1
        <4> QED BY <4>1, <1>8
      <3> QED BY <3>1, <3>2, <1>10, <1>2
    <2> QED BY <2>1, <2>2, <2>3 DEF now
  <1>11. CASE pend[k].seen /\ pend[k].after = TRUE /\ pend[k].before = FALSE
    <2>1. pend[k].row = now
      BY <1>11, <1>1
    <2>2. CASE method = 2
      BY <2>1, <2>2, <1>11, <1>5, <1>6, <1>7, <1>8 DEF now
    <2>3. CASE method # 2
      BY <2>1, <2>3, <1>11, <1>5, <1>8 DEF now
    <2> QED BY <2>2, <2>3
  <1>12. CASE pend[k].seen /\ pend[k].after = TRUE /\ pend[k].before = TRUE
    <2>1. pend[k].row = now /\ now # Absent /\ work[k] # Absent
      BY <1>12, <1>1
    <2>2. k \notin InsList /\ Deleted[k] = work[k]
      BY <1>12, <1>4, <1>5, <1>8
    <2>3. CASE keyOnly
      <3>1. work[k] = now
        BY <2>1, <2>3, <1>3
      <3>2. k \notin UpdList
        BY <2>3, <1>6
      <3> QED BY <3>1, <3>2, <2>2, <1>8 DEF now
    <2>4. CASE ~keyOnly
      <3>1. k \in UpdList
        BY <2>4, <1>12, <1>6
      <3> QED BY <3>1, <2>1, <2>2, <1>8 DEF now
    <2> QED BY <2>3, <2>4
  <1> QED BY <1>9, <1>10, <1>11, <1>12, <1>2

\* What a finished batch commits.
LEMMA ResultExact ==
    ASSUME TypeOK, BatchInv, SetupInv, SourceInv, PlainInv, BulkInv, FinishBatch
    PROVE  Result = past[end + 1]
  <1>1. phase = "events" /\ pos = end /\ sql = <<>> /\ phase # "idle"
    BY DEF FinishBatch
  <1>2. CASE handler = "plain"
    <2>1. work = past[pos - Len(sql) + 1] /\ Len(sql) = 0 /\ pos \in Nat
      BY <1>1, <1>2 DEF PlainInv, TypeOK
    <2>2. Result = work
      BY <1>2 DEF Result
    <2> QED BY <2>1, <2>2, <1>1
  <1>3. CASE handler = "bulk"
    <2>1. end + 1 \in 1..Len(past)
      BY DEF BatchInv, TypeOK
    <2>2. past[end + 1] \in Tables
      BY <2>1 DEF TypeOK
    <2>3. Result = Loaded /\ Result \in Tables
      BY <1>3, ResultType DEF Result
    <2>4. \A k \in Keys : Loaded[k] = past[end + 1][k]
      BY <1>1, <1>3, LoadedRow
    <2> QED BY <2>2, <2>3, <2>4 DEF Tables
  <1> QED BY <1>2, <1>3 DEF TypeOK

\* Every step keeps the rows of the target those that the history asks for.
LEMMA ExactStep ==
    ASSUME TypeOK, IInv, ~BulkStatements, [Next]_vars
    PROVE  Exact'
  <1> USE DEF IInv
  <1>1. ASSUME NEW e \in Event, Produce(e) PROVE Exact'
    <2>1. base + 1 \in 1..Len(past)
      BY DEF BatchInv, TypeOK
    <2>2. past'[base + 1] = past[base + 1]
      BY <1>1, <2>1, SourceProduce
    <2> QED BY <1>1, <2>2 DEF Produce, Exact
  <1>2. CASE FinishBatch
    BY <1>2, ResultExact DEF FinishBatch, Exact, source
  <1>3. CASE OpenBatch \/ QueueSql \/ Collect \/ StartFlush \/ RunSql \/ EndFlush \/ RunStatement
    BY <1>3 DEF OpenBatch, QueueSql, Collect, StartFlush, RunSql, EndFlush, RunStatement, Exact, source
  <1>4. CASE Fail \/ Crash
    BY <1>4 DEF Fail, Crash, Exact, source
  <1>5. CASE UNCHANGED vars
    BY <1>5, Stutter DEF Exact
  <1> QED BY <1>1, <1>2, <1>3, <1>4, <1>5 DEF Next, Step

\* Every step keeps what is true of the history and of the choice of a handler.
LEMMA SourceStep ==
    ASSUME TypeOK, IInv, ~BulkStatements, [Next]_vars
    PROVE  SourceInv' /\ SetupInv'
  <1> USE DEF IInv
  <1>1. ASSUME NEW e \in Event, Produce(e) PROVE SourceInv' /\ SetupInv'
    BY <1>1, SourceProduce DEF Produce, SetupInv, setup
  <1>2. CASE UNCHANGED <<setup, source>>
    <2>1. UNCHANGED <<handler, method, keyOnly, log, past>>
      BY <1>2 DEF setup, source
    <2> QED BY <2>1, SourceKept DEF SetupInv
  <1>3. CASE Step \/ Fail \/ Crash
    BY <1>2, <1>3 DEF Step, OpenBatch, QueueSql, Collect, StartFlush, RunSql, EndFlush, RunStatement,
       FinishBatch, Fail, Crash
  <1>4. CASE UNCHANGED vars
    BY <1>2, <1>4 DEF vars
  <1> QED BY <1>1, <1>3, <1>4 DEF Next

\* The invariant holds at the start.
LEMMA InitIInv == ~MergedKeyOnly /\ Init => IInv
  <1> SUFFICES ASSUME ~MergedKeyOnly, Init PROVE IInv
    OBVIOUS
  <1>1. SetupInv /\ PlainInv /\ BulkInv
    BY DEF Init, SetupInv, PlainInv, BulkInv
  <1>2. Exact
    BY DEF Init, Exact
  <1> QED BY <1>1, <1>2, InitBatch, SourceInitial DEF IInv

\* At every step the open transaction and what waits in the worker's memory
\* add up to the provider's table after the events handled so far
\* (playback.py:776-876, bulk.py:133-317).
THEOREM Inductive ==
    ASSUME ~BulkStatements, ~MergedKeyOnly
    PROVE  Spec => []IInv
  <1>1. Init => TypeOK /\ IInv
    BY InitType, InitIInv
  <1>2. TypeOK /\ IInv /\ [Next]_vars => (TypeOK /\ IInv)'
    <2> SUFFICES ASSUME TypeOK, IInv, [Next]_vars PROVE (TypeOK /\ IInv)'
      OBVIOUS
    <2>1. TypeOK' /\ BatchInv'
      BY StepType, StepBatch DEF IInv
    <2>2. SourceInv' /\ SetupInv' /\ Exact'
      BY SourceStep, ExactStep
    <2>3. PlainInv' /\ BulkInv'
      BY PlainStep, BulkStep DEF IInv
    <2> QED BY <2>1, <2>2, <2>3 DEF IInv
  <1> QED BY <1>1, <1>2, PTL DEF Spec

\* The committed table is always the provider's table after the events of the
\* committed batches, whichever handler and method load it.
THEOREM Exactness ==
    ASSUME ~BulkStatements, ~MergedKeyOnly
    PROVE  Spec => []Exact
  <1>1. IInv => Exact
    BY DEF IInv
  <1> QED BY <1>1, Inductive, PTL

\* Where the invariant holds, nothing waits that meets a row of the same key.
LEMMA Conflicts ==
    ASSUME TypeOK, IInv
    PROVE  NoConflict
  <1> USE DEF IInv
  <1>1. ASSUME phase = "flush", sql # <<>>, Head(sql).op = "I"
        PROVE  work[Head(sql).key] = Absent
    <2>1. handler = "plain"
      BY <1>1 DEF BulkInv, TypeOK
    <2> DEFINE m == pos - Len(sql) + 1
    <2>2. Head(sql) = sql[1] /\ Len(sql) \in Nat \ {0} /\ 1 \in 1..Len(sql)
      BY <1>1 DEF TypeOK
    <2>3. Head(sql) = log[m] /\ work = past[m] /\ Len(sql) <= pos - base
      BY <1>1, <2>1, <2>2 DEF PlainInv
    <2>4. m \in 1..Len(log)
      BY <1>1, <2>2, <2>3 DEF BatchInv, TypeOK
    <2> QED BY <1>1, <2>3, <2>4, HistoryAt DEF Fits, IsData
  <1>2. ASSUME phase = "events", handler = "bulk", NEW k \in InsList
        PROVE  Updated[k] = Absent
    <2>1. k \in Keys /\ method # 2 /\ pend[k].seen /\ pend[k].before = FALSE /\ pend[k].after = TRUE
      BY DEF InsList, Listed, Merged
    <2>2. work[k] = Absent
      BY <1>2, <2>1 DEF BulkInv
    <2>3. k \notin UpdList
      BY <2>1 DEF UpdList, Listed, Merged
    <2> QED BY <2>1, <2>2, <2>3 DEF Updated, Deleted
  <1> QED BY <1>1, <1>2 DEF NoConflict, CopyConflict

\* No INSERT and no COPY of a batch meets a row of the same key, so that no
\* batch fails for it again and again (playback.py:867-876, bulk.py:301-305).
THEOREM NeverStuck ==
    ASSUME ~BulkStatements, ~MergedKeyOnly
    PROVE  Spec => []NoConflict
  <1>1. TypeOK /\ IInv => NoConflict
    BY Conflicts
  <1> QED BY <1>1, TypeCorrect, Inductive, PTL
=============================================================================
