------------------------------- MODULE Batch -------------------------------
(***************************************************************************)
(* The events of a batch on their way into one table of the subscriber     *)
(* (londiste/playback.py, handler.py, handlers/bulk.py).  The plain        *)
(* handler turns every event into a statement that waits in sql_list; the  *)
(* bulk handler collects the events of each key and loads the table when   *)
(* the batch ends.  TRUNCATE and EXECUTE events are run at once.  All of   *)
(* it is one transaction, which a failure or a crash undoes; the batch is  *)
(* then processed again.                                                   *)
(***************************************************************************)
EXTENDS Integers, Sequences, FiniteSets

CONSTANTS
    Keys,            \* primary keys
    Vals,            \* contents of the other columns
    Absent,          \* the row that does not exist
    SqlLimit,        \* statements sent together (200 in the code)
    BulkStatements,  \* TRUNCATE and EXECUTE also reach tables loaded in bulk
    MergedKeyOnly,   \* tables of key columns only are also loaded by method 2
    MaxEvent,        \* bound: events of the provider
    MaxFail          \* bound: failures and crashes

ASSUME RowsAssumption == Vals # {} /\ Absent \notin Vals
ASSUME LimitAssumption == SqlLimit \in Nat \ {0}
ASSUME OptionsAssumption == BulkStatements \in BOOLEAN /\ MergedKeyOnly \in BOOLEAN
ASSUME BoundsAssumption == MaxEvent \in Nat /\ MaxFail \in Nat

VARIABLES
    \* how the table is set up
    handler,  \* "plain" (TableHandler) or "bulk" (BulkLoader)
    method,   \* method=N of the bulk loader
    keyOnly,  \* the table has no columns besides the key
    \* the provider
    log,      \* events, in the order of the queue
    past,     \* history: past[n+1] is the provider's table after n events
    \* the subscriber's database
    dst,      \* the committed table
    base,     \* events covered by the last committed batch
    work,     \* the table inside the open transaction
    \* the worker's memory
    phase,    \* "idle": no batch, "events": between two events, "flush": in flush_sql
    end,      \* events covered by the open batch, or by the batch to retry
    pos,      \* events of it handled so far
    sql,      \* sql_list
    pend,     \* pkey_ev_map, per key: what prepare_data makes of its events
    slow,     \* work_state is -1: the batch failed before
    fails     \* failures and crashes so far

setup == <<handler, method, keyOnly>>
source == <<log, past>>
vars == <<setup, source, dst, base, work, phase, end, pos, sql, pend, slow, fails>>

-----------------------------------------------------------------------------
Rows    == Vals \union {Absent}
Tables  == [Keys -> Rows]
Content == IF keyOnly THEN {CHOOSE v \in Vals : TRUE} ELSE Vals
Data    == [op : {"I", "U", "D"}, key : Keys, row : Vals]
Whole   == [op : {"R"}] \union [op : {"EXECUTE"}, row : Vals]
Event   == Data \union Whole
IsData(e) == e.op \in {"I", "U", "D"}

Empty   == [k \in Keys |-> Absent]
Nothing == [seen |-> FALSE]
Pending == [seen : {TRUE}, before : BOOLEAN, after : BOOLEAN, row : Vals]
NoPend  == [k \in Keys |-> Nothing]

TypeOK ==
    /\ handler \in {"plain", "bulk"} /\ method \in 0..2 /\ keyOnly \in BOOLEAN
    /\ log \in Seq(Event) /\ past \in Seq(Tables)
    /\ dst \in Tables /\ work \in Tables
    /\ base \in Nat /\ end \in Nat /\ pos \in Nat /\ fails \in Nat
    /\ phase \in {"idle", "events", "flush"}
    /\ sql \in Seq(Data) /\ Len(sql) <= SqlLimit
    /\ pend \in [Keys -> Pending \union {Nothing}]
    /\ slow \in BOOLEAN

Init ==
    /\ handler \in {"plain", "bulk"} /\ method \in 0..2 /\ keyOnly \in BOOLEAN
    /\ handler = "plain" => method = 0
    /\ handler = "bulk" /\ keyOnly /\ method = 2 => MergedKeyOnly
    /\ \E tab \in [Keys -> Content \union {Absent}] : past = <<tab>> /\ dst = tab /\ work = tab
    /\ log = <<>> /\ base = 0 /\ end = 0 /\ pos = 0
    /\ phase = "idle" /\ sql = <<>> /\ pend = NoPend
    /\ slow = FALSE /\ fails = 0

-----------------------------------------------------------------------------
(* The provider.                                                            *)

\* what an event, or the statement made from it, does to a table that it fits
Fits(e, tab) == IsData(e) => ((e.op = "I") <=> (tab[e.key] = Absent))

Effect(e, tab) ==
    CASE e.op = "I" -> [tab EXCEPT ![e.key] = e.row]
      [] e.op = "U" -> [tab EXCEPT ![e.key] = IF @ = Absent THEN Absent ELSE e.row]
      [] e.op = "D" -> [tab EXCEPT ![e.key] = Absent]
      [] e.op = "R" -> Empty
      [] e.op = "EXECUTE" -> [k \in Keys |-> IF tab[k] = Absent THEN Absent ELSE e.row]

Now == past[Len(past)]

\* what is produced while a batch waits to be finished belongs to a later one:
\* nothing is lost by producing it afterwards
Produce(e) ==
    /\ end = base /\ Len(log) < MaxEvent
    /\ Fits(e, Now)
    /\ e.op \in {"I", "U", "EXECUTE"} => e.row \in Content
    /\ e.op = "D" => e.row = Now[e.key]
    /\ ~IsData(e) => handler = "plain" \/ BulkStatements
    /\ log' = Append(log, e)
    /\ past' = Append(past, Effect(e, Now))
    /\ UNCHANGED <<setup, dst, base, work, phase, end, pos, sql, pend, slow, fails>>

-----------------------------------------------------------------------------
(* A batch: process_remote_batch.                                           *)

\* a batch that was not finished is given out again; pending data of an
\* earlier attempt is dropped (p.reset, sql_list = [])
OpenBatch ==
    /\ phase = "idle" /\ base < Len(log)
    /\ end' = Len(log)
    /\ phase' = "events"
    /\ pos' = base
    /\ sql' = <<>> /\ pend' = NoPend
    /\ UNCHANGED <<setup, source, dst, base, work, slow, fails>>

Next1 == log[pos + 1]
HasNext == phase = "events" /\ pos < end

\* apply_sql: a batch that failed before is run statement by statement
FlushNow_late(s) == slow \/ Len(s) > SqlLimit

FlushNow(s) == slow \/ Len(s) >= SqlLimit

\* TableHandler.process_event and apply_sql
QueueSql ==
    /\ HasNext /\ handler = "plain" /\ IsData(Next1)
    /\ sql' = Append(sql, Next1)
    /\ phase' = IF FlushNow(sql') THEN "flush" ELSE "events"
    /\ pos' = pos + 1
    /\ UNCHANGED <<setup, source, dst, base, work, end, pend, slow, fails>>

\* prepare_data, one event of a key at a time: exists_before is set by the
\* first event, exists_after by the last insert or delete
Noted_lastBefore(p, e) ==
    [seen |-> TRUE, before |-> e.op # "I",
     after |-> IF e.op = "U" THEN p.seen => p.after ELSE e.op = "I", row |-> e.row]

Noted(p, e) ==
    [seen   |-> TRUE,
     before |-> IF p.seen THEN p.before ELSE e.op # "I",
     after  |-> IF e.op = "U" THEN p.seen => p.after ELSE e.op = "I",
     row    |-> e.row]

\* BulkLoader.process_event
Collect ==
    /\ HasNext /\ handler = "bulk" /\ IsData(Next1)
    /\ pend' = [pend EXCEPT ![Next1.key] = Noted(@, Next1)]
    /\ pos' = pos + 1
    /\ UNCHANGED <<setup, source, dst, base, work, phase, end, sql, slow, fails>>

\* flush_sql comes before a statement of its own and at the end of the batch
StartFlush ==
    /\ phase = "events" /\ sql # <<>>
    /\ pos < end => ~IsData(Next1)
    /\ phase' = "flush"
    /\ UNCHANGED <<setup, source, dst, base, work, end, pos, sql, pend, slow, fails>>

\* the database runs the statements of the buffer one by one; an INSERT of a
\* key that is there fails
RunSql ==
    /\ phase = "flush" /\ sql # <<>>
    /\ Head(sql).op = "I" => work[Head(sql).key] = Absent
    /\ work' = Effect(Head(sql), work)
    /\ sql' = Tail(sql)
    /\ UNCHANGED <<setup, source, dst, base, phase, end, pos, pend, slow, fails>>

EndFlush ==
    /\ phase = "flush" /\ sql = <<>>
    /\ phase' = "events"
    /\ UNCHANGED <<setup, source, dst, base, work, end, pos, sql, pend, slow, fails>>

\* handle_truncate_event, handle_execute_event
RunStatement_noFlush ==
    /\ HasNext /\ ~IsData(Next1)
    /\ work' = Effect(Next1, work)
    /\ pos' = pos + 1
    /\ UNCHANGED <<setup, source, dst, base, phase, end, sql, pend, slow, fails>>

RunStatement ==
    /\ HasNext /\ ~IsData(Next1) /\ sql = <<>>
    /\ work' = Effect(Next1, work)
    /\ pos' = pos + 1
    /\ UNCHANGED <<setup, source, dst, base, phase, end, sql, pend, slow, fails>>

-----------------------------------------------------------------------------
(* bulk_flush: the three lists, and the table after each of them.           *)

Listed(b, a) == {k \in Keys : pend[k].seen /\ pend[k].before = b /\ pend[k].after = a}

Merged == method = 2

DelList == Listed(TRUE, FALSE)

\* method 2 puts the inserts into the update list, and a table of key columns
\* only has its update list emptied
UpdList == IF keyOnly THEN {} ELSE Listed(TRUE, TRUE) \union IF Merged THEN Listed(FALSE, TRUE) ELSE {}

InsList_all == IF Merged THEN {} ELSE Listed(FALSE, TRUE) \union Listed(TRUE, TRUE)

InsList == IF Merged THEN {} ELSE Listed(FALSE, TRUE)

Deleted == [k \in Keys |-> IF k \in DelList THEN Absent ELSE work[k]]

\* method 0 updates from the temporary table, the others delete and insert
Updated ==
    [k \in Keys |-> IF k \in UpdList /\ (method = 0 => Deleted[k] # Absent)
                    THEN pend[k].row ELSE Deleted[k]]

Loaded == [k \in Keys |-> IF k \in InsList THEN pend[k].row ELSE Updated[k]]

\* COPY fails on a key that is there
CopyConflict == \E k \in InsList : Updated[k] # Absent

\* the list of columns comes from the data events: a batch that has only a
\* TRUNCATE for the table leaves bulk_flush without one
NoColumns ==
    /\ \E n \in (base + 1)..end : log[n].op = "R"
    /\ \A k \in Keys : ~pend[k].seen

Result == IF handler = "bulk" THEN Loaded ELSE work

\* flush_sql, finish_batch, and the commit that also finishes the tick
FinishBatch ==
    /\ phase = "events" /\ pos = end /\ sql = <<>>
    /\ handler = "bulk" => ~CopyConflict /\ ~NoColumns
    /\ dst' = Result /\ work' = Result
    /\ base' = end
    /\ phase' = "idle"
    /\ pend' = NoPend
    /\ slow' = FALSE
    /\ UNCHANGED <<setup, source, end, pos, sql, fails>>

\* an exception: rollback; the process goes on with the memory it has
Fail ==
    /\ phase # "idle" /\ fails < MaxFail
    /\ work' = dst
    /\ phase' = "idle"
    /\ slow' = TRUE
    /\ sql' = IF phase = "flush" THEN <<>> ELSE sql
    /\ fails' = fails + 1
    /\ UNCHANGED <<setup, source, dst, base, end, pos, pend>>

\* the process dies and is started again
Crash ==
    /\ phase # "idle" /\ fails < MaxFail
    /\ work' = dst
    /\ phase' = "idle"
    /\ sql' = <<>> /\ pend' = NoPend /\ slow' = FALSE
    /\ fails' = fails + 1
    /\ UNCHANGED <<setup, source, dst, base, end, pos>>

Step ==
    \/ OpenBatch \/ QueueSql \/ Collect \/ StartFlush \/ RunSql \/ EndFlush
    \/ RunStatement \/ FinishBatch

Next == (\E e \in Event : Produce(e)) \/ Step \/ Fail \/ Crash

Spec == Init /\ [][Next]_vars

-----------------------------------------------------------------------------
(* Properties.                                                              *)

\* What the subscriber has committed is the provider's table after the events
\* of the committed batches: whatever the handler collects, reorders or drops,
\* and however often a batch is tried ("bulk ... functionally" one statement
\* per event, bulk.py:57).
Exact == dst = past[base + 1]

\* No statement and no COPY of a batch meets a row that should not be there:
\* otherwise the batch fails again each time it is tried, and replication stops.
NoConflict ==
    /\ phase = "flush" /\ sql # <<>> /\ Head(sql).op = "I" => work[Head(sql).key] = Absent
    /\ phase = "events" /\ handler = "bulk" => ~CopyConflict

-----------------------------------------------------------------------------
(* The inductive invariant, for tables that TRUNCATE and EXECUTE do not     *)
(* reach behind the bulk handler's back.                                    *)

SetupInv ==
    handler = "bulk" => (keyOnly => method # 2)

\* the history of the provider, event by event
SourceInv ==
    /\ \A n \in 1..Len(log) :
          /\ Fits(log[n], past[n]) /\ past[n + 1] = Effect(log[n], past[n])
          /\ handler = "bulk" => IsData(log[n])
    /\ \A n \in 1..Len(past) : \A k \in Keys : past[n][k] \in Content \union {Absent}

\* where the worker is in it
BatchInv ==
    /\ Len(past) = Len(log) + 1
    /\ base <= end /\ end <= Len(log)
    /\ phase # "idle" => base < end /\ base <= pos /\ pos <= end /\ end = Len(log)
    /\ phase = "idle" => work = dst
    /\ phase = "events" => Len(sql) < SqlLimit

\* the table in the transaction lags behind the events handled by the
\* statements that wait
PlainInv ==
    handler = "plain" /\ phase # "idle" =>
        /\ Len(sql) <= pos - base
        /\ \A i \in 1..Len(sql) : sql[i] = log[pos - Len(sql) + i]
        /\ work = past[pos - Len(sql) + 1]

\* what is noted of a key tells its row before the batch and its row by now
BulkInv ==
    handler = "bulk" /\ phase # "idle" =>
        /\ phase = "events" /\ sql = <<>> /\ work = past[base + 1]
        /\ \A k \in Keys :
              /\ ~pend[k].seen => past[pos + 1][k] = work[k]
              /\ pend[k].seen =>
                    /\ pend[k].before <=> work[k] # Absent
                    /\ pend[k].after <=> past[pos + 1][k] # Absent
                    /\ pend[k].after => pend[k].row = past[pos + 1][k]

\* The strengthening behind Exact and NoConflict: at every step the open
\* transaction and what waits in the worker's memory add up to the provider's
\* table after the events handled so far (playback.py:776-876, bulk.py:133-175).
IInv == SetupInv /\ SourceInv /\ BatchInv /\ PlainInv /\ BulkInv /\ Exact
=============================================================================
