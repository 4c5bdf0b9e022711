----------------------------- MODULE MCTableSync -----------------------------
(* Small instances of TableSync for TLC. *)
EXTENDS TableSyncInv, TLC

\* Further on: at tick 1 main started a copy of every table, their processes
\* registered there, opened the batch up to tick 2 and have just committed their
\* COPY, which saw the transactions in l; none had committed before tick 2.
InitCopied(l) ==
    LET row == [state |-> "catching-up", tick |-> NoTick, snap |-> Len(l)]
        obj(s, n) == [NewTableState EXCEPT !.state = s, !.snap = n]
    IN  /\ log = l
        /\ tick = 2
        /\ snapAt = [k \in 0..MaxTick |-> 0]
        /\ reg = Procs
        /\ prev = [p \in Procs |-> 1]
        /\ cur = [p \in Procs |-> IF p = Main THEN 1 ELSE 2]
        /\ db = [t \in Tables |-> row]
        /\ data = [t \in Tables |-> Ev(t, Len(l))]
        /\ twice = [t \in Tables |-> {}]
        /\ pc = [p \in Procs |-> IF p = Main THEN "poll" ELSE "load"]
        /\ mem = [p \in Procs |-> [t \in Tables |->
                     IF p = t THEN obj("catching-up", Len(l)) ELSE obj("in-copy", NoSnap)]]
        /\ work = [p \in Procs |-> TRUE]
        /\ big = [p \in Procs |-> BatchCollect]
        /\ held = [p \in Procs |-> NoTick]
        /\ dsync = 0
        /\ mloop = FALSE
        /\ launching = {}
        /\ csnap = [t \in Tables |-> Len(l)]
        /\ faults = 0
        /\ admins = 0

\* The worker has finished n ticks without any table; some were added just now.
InitAdded(n) ==
    /\ log = <<>>
    /\ tick = n
    /\ snapAt = [k \in 0..MaxTick |-> 0]
    /\ reg = {Main}
    /\ prev = [p \in Procs |-> IF p = Main THEN n ELSE 0]
    /\ cur = [p \in Procs |-> IF p = Main THEN n ELSE 0]
    /\ db \in [Tables -> {TableRow("absent"), TableRow("missing")}]
    /\ data = [t \in Tables |-> {}]
    /\ twice = [t \in Tables |-> {}]
    /\ pc = [p \in Procs |-> IF p = Main THEN "poll" ELSE "none"]
    /\ mem = [p \in Procs |-> [t \in Tables |-> NewTableState]]
    /\ work = [p \in Procs |-> TRUE]
    /\ big = [p \in Procs |-> BatchCollect]
    /\ held = [p \in Procs |-> NoTick]
    /\ dsync = 0
    /\ mloop = FALSE
    /\ launching = {}
    /\ csnap = [t \in Tables |-> 0]
    /\ faults = 0
    /\ admins = 0

SpecMissing == InitIn({"missing"}) /\ [][Next]_vars
SpecCopied == (\E t \in Tables : InitCopied(<<t>>)) /\ [][Next]_vars
SpecCopiedEmpty == InitCopied(<<>>) /\ [][Next]_vars

\* From the registration of a table, four ticks; from its copy, the ticks that a
\* second copy needs.
SpecSync == (InitAdded(MaxTick - 4) \/ \E t \in Tables : InitCopied(<<t>>)) /\ [][Next]_vars

\* The tables are interchangeable.
TableSymmetry == Permutations(Tables)

-----------------------------------------------------------------------------
\* Liveness.  A copy asks for its hand-over when it has once seen an empty
\* queue, so progress needs consumers that keep up with the ticker: here the
\* ticker waits until every process has done what it can.  Processes that are
\* running keep running (weak fairness), a stopped worker is started again and
\* a dead copy process is run again by the administrator, both before the next
\* tick.
Settled(p) ==
    \/ pc[p] = "none" /\ db[p].state \notin Copying
    \/ pc[p] = "poll" /\ prev[p] = tick /\ ~work[p]
    \/ p \in Tables /\ mem[p][p].state = "wanna-sync" /\ db[p].state = "wanna-sync"

SlowTick == Tick /\ \A p \in Procs : Settled(p)

LiveNext ==
    \/ SlowTick
    \/ \E t \in Tables : Commit(t) \/ CopyStep(t)
    \/ MainStep
    \/ Faults

LiveSpec ==
    /\ InitIn({"missing"}) /\ [][LiveNext]_vars
    /\ WF_vars(SlowTick)
    /\ WF_vars(MainStep)
    /\ WF_vars(StartMain)
    /\ \A t \in Tables : WF_vars(CopyStep(t)) /\ WF_vars(RestartCopy(t))

\* Every table that was added is in sync in the end, whatever process fails or
\* crashes on the way.
SyncsEventually == \A t \in Tables : db[t].state = "missing" ~> db[t].state = "ok"

\* Every transaction that a tick has covered reaches the subscriber's table.
EventsArrive == \A i \in 1..MaxCommit :
                   i <= snapAt[tick] ~> (i <= Len(log) /\ i \in data[log[i]])
=============================================================================
