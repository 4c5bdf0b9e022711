---------------------------- MODULE Deny_proofs -----------------------------
(***************************************************************************)
(* Proofs about Deny: for any tables, filters, processes and failures the  *)
(* bookkeeping is true, and with a configuration that only changes while   *)
(* the node is stopped the triggers are what it says.                      *)
(***************************************************************************)
EXTENDS Deny, TLAPS

\* What a process has read or done concerns tables of the node.
Known == \A p \in Proc : tabs[p] \subseteq local /\ done[p] \subseteq local

\* While triggers are only marked nothing changes but the bookkeeping.
Marked ==
  mark =>
    /\ \A t \in Table : /\ t \in local => trig[t] = Triggers(conf[t])
                        /\ t \notin local => trig[t] = NoTriggers /\ info[t] = NoTriggers
    /\ \A p \in Proc : pc[p] # "down" => want[p] = conf
    /\ \A p \in Proc : pc[p] = "run" =>
         \A t \in Table, k \in Type : seen[p][t][k] \in {Absent, trig[t][k]}

\* With one configuration, a trigger is as a process has read it, or as it must be.
Current ==
  ~Running =>
    /\ \A p \in Proc : pc[p] # "down" => want[p] = conf
    /\ ~mark => \A p \in Proc : pc[p] = "run" =>
         \A t \in Table, k \in Type : trig[t][k] \in {seen[p][t][k], Triggers(conf[t])[k]}

DenyInv == TypeOK /\ Recorded /\ Known /\ Marked /\ Current

-----------------------------------------------------------------------------
\* A stuttering step changes nothing.
LEMMA Stutter ==
    ASSUME UNCHANGED vars
    PROVE  /\ local' = local /\ conf' = conf /\ mark' = mark /\ trig' = trig /\ info' = info
           /\ pc' = pc /\ want' = want /\ seen' = seen /\ tabs' = tabs /\ done' = done
           /\ fault' = fault /\ change' = change
  BY DEF vars

\* The steps of Next, one by one.
LEMMA Steps ==
    ASSUME [Next]_vars
    PROVE  \/ UNCHANGED vars \/ Reconfigure \/ UnMark
           \/ \E p \in Proc : \/ Start(p) \/ ReadInfo(p) \/ (\E t \in Table : UpdateTable(p, t))
                              \/ Die(p) \/ Started(p) \/ Crash(p)
           \/ \E t \in Table, p \in Copy : AddTable(t, p)
  BY DEF Next, Process

\* What a table needs is a set of triggers, and so is what an update makes.
LEMMA TriggersType == \A f \in Filter \cup {None} : Triggers(f) \in Set
  BY DEF Triggers, Set, Definition, Type

\* The triggers and the bookkeeping that update_table writes have their types.
LEMMA NewType ==
    ASSUME NEW now \in Set, NEW old \in Set, NEW w \in Set
    PROVE  NewTriggers(now, old, w) \in Set /\ NewInfo(now, old, w) \in Set
  BY DEF NewTriggers, NewInfo, Set, Definition

\* An update leaves each trigger alone, or makes it what is wanted; so it does with
\* the bookkeeping, and, unless it only marks, with both at a time.
LEMMA NewPoint ==
    ASSUME NEW now \in Set, NEW inf \in Set, NEW old \in Set, NEW w \in Set, NEW k \in Type,
           mark \in BOOLEAN
    PROVE  /\ ~mark /\ old[k] = w[k] =>
                NewTriggers(now, old, w)[k] = now[k] /\ NewInfo(inf, old, w)[k] = inf[k]
           /\ ~mark /\ old[k] # w[k] =>
                NewTriggers(now, old, w)[k] = w[k] /\ NewInfo(inf, old, w)[k] = w[k]
           /\ mark /\ (old[k] = w[k] \/ w[k] # Absent) => NewTriggers(now, old, w)[k] = now[k]
           /\ mark /\ old[k] # w[k] => NewInfo(inf, old, w)[k] = w[k]
           /\ mark /\ old[k] = w[k] => NewInfo(inf, old, w)[k] = inf[k]
  <1>1. k \in Stale(old, w) <=> w[k] # Absent /\ old[k] # w[k]
    BY DEF Stale
  <1>2. k \in Unused(old, w) <=> old[k] # Absent /\ w[k] = Absent
    BY DEF Unused
  <1>3. k \in Created(old, w) <=> ~mark /\ k \in Stale(old, w)
    BY DEF Created
  <1>4. k \in Dropped(old, w) <=>
          k \in Unused(old, w) \/ (~mark /\ k \in Stale(old, w) /\ old[k] # Absent)
    BY DEF Dropped
  <1> QED BY <1>1, <1>2, <1>3, <1>4 DEF NewTriggers, NewInfo

\* The end of some processes.
LEMMA ExitStep ==
    ASSUME TypeOK, NEW P \in SUBSET Proc, Exit(P)
    PROVE  /\ pc' \in [Proc -> {"down", "start", "run", "up"}] /\ want' \in [Proc -> Conf]
           /\ seen' \in [Proc -> [Table -> Set]]
           /\ tabs' \in [Proc -> SUBSET Table] /\ done' \in [Proc -> SUBSET Table]
           /\ \A p \in Proc : /\ tabs'[p] \subseteq tabs[p] /\ done'[p] \subseteq done[p]
                              /\ p \in P => pc'[p] = "down"
                              /\ pc'[p] # "down" => /\ pc'[p] = pc[p] /\ want'[p] = want[p]
                                                    /\ seen'[p] = seen[p]
  <1>1. NoConf \in Conf /\ NoInfo \in [Table -> Set]
    BY DEF NoConf, Conf, NoInfo, NoTriggers, Set, Definition
  <1> QED BY <1>1 DEF Exit, TypeOK

-----------------------------------------------------------------------------
\* The variables have their types at the start.
LEMMA InitType == Init => TypeOK
  <1> SUFFICES ASSUME Init PROVE TypeOK
    OBVIOUS
  <1>1. NoTriggers \in Set /\ NoConf \in Conf /\ NoInfo \in [Table -> Set]
    BY DEF NoConf, Conf, NoInfo, NoTriggers, Set, Definition
  <1>2. \A t \in Table : Triggers(conf[t]) \in Set
    BY TriggersType DEF Init, Conf
  <1>3. 0 \in 0..MaxFault /\ 0 \in 0..MaxChange
    BY DenyAssumption
  <1>4. trig \in [Table -> Set]
    <2>1. PICK own \in IF AsMarked THEN {[t \in Table |-> Triggers(conf[t])]} ELSE [Table -> Set] :
                trig = [t \in Table |-> IF mark /\ t \in local THEN own[t] ELSE NoTriggers]
      BY DEF Init
    <2>2. own \in [Table -> Set]
      BY <1>2
    <2> QED BY <1>1, <2>1, <2>2
  <1> QED BY <1>1, <1>3, <1>4 DEF Init, TypeOK

\* The invariant holds at the start, where the triggers to mark are the configured ones.
LEMMA InitDeny == ASSUME AsMarked PROVE Init => DenyInv
  <1> SUFFICES ASSUME Init PROVE DenyInv
    OBVIOUS
  <1>1. trig = [t \in Table |-> IF mark /\ t \in local THEN Triggers(conf[t]) ELSE NoTriggers]
    BY DEF Init
  <1>2. Recorded
    BY <1>1 DEF Init, Recorded, NoInfo, NoTriggers
  <1>3. Known /\ Marked /\ Current
    BY <1>1 DEF Init, Known, Marked, Current, NoInfo
  <1> QED BY <1>2, <1>3, InitType DEF DenyInv

\* Every step keeps the types.
LEMMA TypeStep == TypeOK /\ [Next]_vars => TypeOK'
  <1> SUFFICES ASSUME TypeOK, [Next]_vars PROVE TypeOK'
    OBVIOUS
  <1>0. MaxFault \in Nat /\ MaxChange \in Nat /\ Copy \subseteq Proc
    BY DenyAssumption DEF Proc
  <1>1. CASE UNCHANGED vars
    BY <1>1, Stutter DEF TypeOK
  <1>2. CASE Reconfigure
    <2>1. change' \in 0..MaxChange
      BY <1>0, <1>2 DEF Reconfigure, TypeOK
    <2>2. \E P \in SUBSET Proc : Exit(P)
      BY <1>2 DEF Reconfigure
    <2> QED BY <1>2, <2>1, <2>2, ExitStep DEF Reconfigure, TypeOK
  <1>3. CASE UnMark
    BY <1>3, ExitStep DEF UnMark, TypeOK
  <1>4. ASSUME NEW p \in Proc, \/ Start(p) \/ ReadInfo(p) \/ (\E t \in Table : UpdateTable(p, t))
                               \/ Die(p) \/ Started(p) \/ Crash(p)
        PROVE  TypeOK'
    <2>1. CASE Start(p)
      BY <2>1 DEF Start, TypeOK
    <2>2. CASE ReadInfo(p)
      BY <2>2 DEF ReadInfo, TypeOK
    <2>3. ASSUME NEW t \in Table, UpdateTable(p, t)
          PROVE  TypeOK'
      <3> DEFINE old == seen[p][t]
                 w == Triggers(want[p][t])
      <3>1. old \in Set /\ w \in Set /\ trig[t] \in Set /\ info[t] \in Set
        BY TriggersType DEF TypeOK, Conf
      <3>2. NewTriggers(trig[t], old, w) \in Set /\ NewInfo(info[t], old, w) \in Set
        BY <3>1, NewType
      <3> HIDE DEF old, w
      <3>3. trig' = [trig EXCEPT ![t] = NewTriggers(trig[t], old, w)]
            /\ info' = [info EXCEPT ![t] = NewInfo(info[t], old, w)]
        BY <2>3 DEF UpdateTable, old, w
      <3>4. trig' \in [Table -> Set] /\ info' \in [Table -> Set]
        BY <3>2, <3>3 DEF TypeOK
      <3> QED BY <2>3, <3>4 DEF UpdateTable, TypeOK
    <2>4. CASE Die(p)
      BY <2>4, ExitStep DEF Die, TypeOK
    <2>5. CASE Started(p)
      <3>1. NoInfo \in [Table -> Set]
        BY DEF NoInfo, NoTriggers, Set, Definition
      <3> QED BY <2>5, <3>1 DEF Started, TypeOK
    <2>6. CASE Crash(p)
      <3>1. fault' \in 0..MaxFault
        BY <1>0, <2>6 DEF Crash, TypeOK
      <3> QED BY <2>6, <3>1, ExitStep DEF Crash, TypeOK
    <2> QED BY <1>4, <2>1, <2>2, <2>3, <2>4, <2>5, <2>6
  <1>5. ASSUME NEW t \in Table, NEW p \in Copy, AddTable(t, p)
        PROVE  TypeOK'
    BY <1>0, <1>5, ExitStep DEF AddTable, TypeOK
  <1> QED BY <1>1, <1>2, <1>3, <1>4, <1>5, Steps


-----------------------------------------------------------------------------
\* What an update of a table of the node does to a trigger and to its bookkeeping.
LEMMA UpdatePoint ==
    ASSUME TypeOK, Recorded, Known, Marked, NEW p \in Proc, NEW t \in Table,
           UpdateTable(p, t), NEW k \in Type
    PROVE  /\ mark => trig'[t][k] = trig[t][k]
           /\ ~mark => \/ /\ trig'[t][k] = trig[t][k] /\ info'[t][k] = info[t][k]
                          /\ seen[p][t][k] = Triggers(want[p][t])[k]
                       \/ /\ trig'[t][k] = Triggers(want[p][t])[k]
                          /\ info'[t][k] = Triggers(want[p][t])[k]
           /\ mark => info'[t][k] \in {info[t][k], trig[t][k]}
           /\ trig'[t] \in Set /\ t \in local
  <1> DEFINE old == seen[p][t]
             w == Triggers(want[p][t])
  <1>1. old \in Set /\ w \in Set /\ trig[t] \in Set /\ info[t] \in Set /\ mark \in BOOLEAN
    BY TriggersType DEF TypeOK, Conf
  <1>2. trig'[t] = NewTriggers(trig[t], old, w) /\ info'[t] = NewInfo(info[t], old, w)
    BY DEF UpdateTable, TypeOK
  <1>3. pc[p] = "run" /\ t \in local
    BY DEF UpdateTable, Known
  <1>4. mark => w = trig[t] /\ old[k] \in {Absent, trig[t][k]}
    BY <1>3 DEF Marked
  <1> HIDE DEF old, w
  <1>5. /\ ~mark /\ old[k] = w[k] => trig'[t][k] = trig[t][k] /\ info'[t][k] = info[t][k]
        /\ ~mark /\ old[k] # w[k] => trig'[t][k] = w[k] /\ info'[t][k] = w[k]
        /\ mark /\ (old[k] = w[k] \/ w[k] # Absent) => trig'[t][k] = trig[t][k]
        /\ mark /\ old[k] # w[k] => info'[t][k] = w[k]
        /\ mark /\ old[k] = w[k] => info'[t][k] = info[t][k]
    <2> DEFINE now == trig[t]
               inf == info[t]
    <2> HIDE DEF now, inf
    <2>1. /\ ~mark /\ old[k] = w[k] =>
               NewTriggers(now, old, w)[k] = now[k] /\ NewInfo(inf, old, w)[k] = inf[k]
          /\ ~mark /\ old[k] # w[k] =>
               NewTriggers(now, old, w)[k] = w[k] /\ NewInfo(inf, old, w)[k] = w[k]
          /\ mark /\ (old[k] = w[k] \/ w[k] # Absent) => NewTriggers(now, old, w)[k] = now[k]
          /\ mark /\ old[k] # w[k] => NewInfo(inf, old, w)[k] = w[k]
          /\ mark /\ old[k] = w[k] => NewInfo(inf, old, w)[k] = inf[k]
      <3>1. now \in Set /\ inf \in Set
        BY <1>1 DEF now, inf
      <3> QED BY <1>1, <3>1, NewPoint
    <2> QED BY <1>2, <2>1 DEF now, inf
  <1>6. mark /\ old[k] # w[k] => w[k] # Absent
    BY <1>4
  <1>7. trig'[t] \in Set
    BY <1>1, <1>2, NewType
  <1>8. mark => w[k] = trig[t][k]
    BY <1>4
  <1> QED BY <1>3, <1>5, <1>6, <1>7, <1>8 DEF old, w

\* No other trigger changes.
LEMMA UpdateOthers ==
    ASSUME TypeOK, NEW p \in Proc, NEW t \in Table, UpdateTable(p, t), NEW u \in Table, u # t
    PROVE  trig'[u] = trig[u] /\ info'[u] = info[u]
  BY DEF UpdateTable, TypeOK

\* Every step keeps the bookkeeping equal to the triggers, or short of them while they are marked.
LEMMA RecordedStep == TypeOK /\ Recorded /\ Known /\ Marked /\ [Next]_vars => Recorded'
  <1> SUFFICES ASSUME TypeOK, Recorded, Known, Marked, [Next]_vars PROVE Recorded'
    OBVIOUS
  <1>1. CASE UNCHANGED <<mark, trig, info>>
    BY <1>1 DEF Recorded
  <1>2. CASE UnMark
    <2>1. \A t \in Table : trig[t] = info[t]
      BY <1>2 DEF UnMark, Marked, TypeOK
    <2> QED BY <1>2, <2>1 DEF UnMark, Recorded
  <1>3. ASSUME NEW p \in Proc, NEW t \in Table, UpdateTable(p, t)
        PROVE  Recorded'
    <2> SUFFICES ASSUME NEW u \in Table, NEW k \in Type
                 PROVE  trig'[u][k] = info'[u][k] \/ (mark' /\ info'[u][k] = Absent)
      BY DEF Recorded
    <2>1. mark' = mark /\ (trig[u][k] = info[u][k] \/ (mark /\ info[u][k] = Absent))
      BY <1>3 DEF UpdateTable, Recorded
    <2>2. CASE u # t
      BY <1>3, <2>1, <2>2, UpdateOthers
    <2>3. CASE u = t
      BY <1>3, <2>1, <2>3, UpdatePoint
    <2> QED BY <2>2, <2>3
  <1> QED BY <1>1, <1>2, <1>3, Steps DEF vars, Reconfigure, Start, ReadInfo, Die, Started, Crash, AddTable

\* Every step keeps what a process has read or done about tables of the node.
LEMMA KnownStep == TypeOK /\ Known /\ [Next]_vars => Known'
  <1> SUFFICES ASSUME TypeOK, Known, [Next]_vars PROVE Known'
    OBVIOUS
  <1>0. Copy \subseteq Proc
    BY DEF Proc
  <1>1. CASE UNCHANGED <<local, tabs, done>>
    BY <1>1 DEF Known
  <1>2. ASSUME NEW P \in SUBSET Proc, Exit(P), local \subseteq local'
        PROVE  Known'
    BY <1>2, ExitStep DEF Known
  <1>3. CASE Reconfigure
    BY <1>2, <1>3 DEF Reconfigure
  <1>4. CASE UnMark
    BY <1>2, <1>4 DEF UnMark
  <1>5. ASSUME NEW p \in Proc, Die(p) \/ Crash(p)
        PROVE  Known'
    BY <1>2, <1>5 DEF Die, Crash
  <1>6. ASSUME NEW t \in Table, NEW p \in Copy, AddTable(t, p)
        PROVE  Known'
    BY <1>0, <1>2, <1>6 DEF AddTable
  <1>7. ASSUME NEW p \in Proc, ReadInfo(p) \/ Started(p) \/ \E t \in Table : UpdateTable(p, t)
        PROVE  Known'
    BY <1>7 DEF ReadInfo, Started, UpdateTable, Known, TypeOK
  <1> QED BY <1>1, <1>3, <1>4, <1>5, <1>6, <1>7, Steps DEF vars, Start

\* While triggers are only marked, every step changes nothing but the bookkeeping.
LEMMA MarkedStep == TypeOK /\ Recorded /\ Known /\ Marked /\ [Next]_vars => Marked'
  <1> SUFFICES ASSUME TypeOK, Recorded, Known, Marked, [Next]_vars, mark' PROVE Marked'
    BY DEF Marked
  <1>1. CASE UNCHANGED vars
    BY <1>1, Stutter DEF Marked
  <1>2. ~Reconfigure /\ ~UnMark /\ ~(\E t \in Table, p \in Copy : AddTable(t, p))
    BY DEF Reconfigure, UnMark, AddTable
  <1>3. ASSUME NEW p \in Proc, Start(p)
        PROVE  Marked'
    BY <1>3 DEF Start, Marked, TypeOK
  <1>4. ASSUME NEW p \in Proc, ReadInfo(p)
        PROVE  Marked'
    BY <1>4 DEF ReadInfo, Marked, Recorded, TypeOK
  <1>5. ASSUME NEW p \in Proc, NEW t \in Table, UpdateTable(p, t)
        PROVE  Marked'
    <2>1. mark /\ local' = local /\ conf' = conf /\ pc' = pc /\ want' = want /\ seen' = seen
      BY <1>5 DEF UpdateTable
    <2>2. trig'[t] = trig[t]
      <3>1. \A k \in Type : trig'[t][k] = trig[t][k]
        BY <1>5, <2>1, UpdatePoint
      <3>2. trig'[t] \in Set /\ trig[t] \in Set
        BY <1>5, UpdatePoint DEF TypeOK, Type
      <3> QED BY <3>1, <3>2 DEF Set
    <2>3. \A u \in Table : trig'[u] = trig[u]
      BY <1>5, <2>2, UpdateOthers
    <2>4. \A u \in Table : u \notin local => info'[u] = info[u]
      <3>1. t \in local
        BY <1>5, UpdatePoint DEF Type
      <3> QED BY <1>5, <3>1, UpdateOthers
    <2> QED BY <2>1, <2>3, <2>4 DEF Marked
  <1>6. ASSUME NEW p \in Proc, Die(p) \/ Crash(p)
        PROVE  Marked'
    <2>1. /\ local' = local /\ conf' = conf /\ mark' = mark /\ trig' = trig /\ info' = info
          /\ Exit({p})
      BY <1>6 DEF Die, Crash
    <2>2. \A q \in Proc : pc'[q] # "down" => /\ pc'[q] = pc[q] /\ want'[q] = want[q]
                                             /\ seen'[q] = seen[q]
      BY <2>1, ExitStep
    <2> QED BY <2>1, <2>2 DEF Marked
  <1>7. ASSUME NEW p \in Proc, Started(p)
        PROVE  Marked'
    BY <1>7 DEF Started, Marked, TypeOK
  <1> QED BY <1>1, <1>2, <1>3, <1>4, <1>5, <1>6, <1>7, Steps

\* While the configuration stands, a trigger stays as a process has read it, or as it must be.
LEMMA CurrentStep ==
    TypeOK /\ Recorded /\ Known /\ Marked /\ Current /\ [Next]_vars => Current'
  <1> SUFFICES ASSUME TypeOK, Recorded, Known, Marked, Current, [Next]_vars, ~Running
               PROVE  Current'
    BY DEF Current
  <1>1. CASE UNCHANGED vars
    BY <1>1, Stutter DEF Current
  <1>2. CASE Reconfigure \/ UnMark
    <2>1. Exit(Proc)
      BY <1>2 DEF Reconfigure, UnMark
    <2>2. \A p \in Proc : pc'[p] = "down"
      BY <2>1, ExitStep
    <2> QED BY <2>2 DEF Current
  <1>3. ASSUME NEW p \in Proc, Start(p)
        PROVE  Current'
    BY <1>3 DEF Start, Current, TypeOK
  <1>4. ASSUME NEW p \in Proc, ReadInfo(p)
        PROVE  Current'
    BY <1>4 DEF ReadInfo, Current, Recorded, TypeOK
  <1>5. ASSUME NEW p \in Proc, NEW t \in Table, UpdateTable(p, t)
        PROVE  Current'
    <2>1. mark' = mark /\ conf' = conf /\ pc' = pc /\ want' = want /\ seen' = seen /\ pc[p] = "run"
      BY <1>5 DEF UpdateTable
    <2>2. want[p] = conf
      BY <2>1 DEF Current
    <2> SUFFICES ASSUME ~mark, NEW q \in Proc, pc[q] = "run", NEW u \in Table, NEW k \in Type
                 PROVE  trig'[u][k] \in {seen[q][u][k], Triggers(conf[u])[k]}
      BY <2>1 DEF Current
    <2>3. trig[u][k] \in {seen[q][u][k], Triggers(conf[u])[k]}
      BY DEF Current
    <2>4. u = t => trig'[u][k] \in {trig[u][k], Triggers(conf[u])[k]}
      BY <1>5, <2>2, UpdatePoint
    <2> QED BY <1>5, <2>3, <2>4, UpdateOthers
  <1>6. ASSUME NEW P \in SUBSET Proc, Exit(P), UNCHANGED <<conf, mark, trig>>
        PROVE  Current'
    <2>1. \A q \in Proc : pc'[q] # "down" => /\ pc'[q] = pc[q] /\ want'[q] = want[q]
                                             /\ seen'[q] = seen[q]
      BY <1>6, ExitStep
    <2> QED BY <1>6, <2>1 DEF Current
  <1>7. ASSUME NEW p \in Proc, Die(p) \/ Crash(p)
        PROVE  Current'
    BY <1>6, <1>7 DEF Die, Crash
  <1>8. ASSUME NEW t \in Table, NEW p \in Copy, AddTable(t, p)
        PROVE  Current'
    BY <1>6, <1>8 DEF AddTable, Proc
  <1>9. ASSUME NEW p \in Proc, Started(p)
        PROVE  Current'
    BY <1>9 DEF Started, Current, TypeOK
  <1> QED BY <1>1, <1>2, <1>3, <1>4, <1>5, <1>7, <1>8, <1>9, Steps

-----------------------------------------------------------------------------
\* Each state satisfies the invariant.
LEMMA Always == ASSUME AsMarked PROVE Spec => []DenyInv
  <1>1. DenyInv /\ [Next]_vars => DenyInv'
    BY TypeStep, RecordedStep, KnownStep, MarkedStep, CurrentStep DEF DenyInv
  <1> QED BY <1>1, InitDeny, PTL DEF Spec

\* The variables have their types, for any tables, filters and processes.
THEOREM TypeCorrect == Spec => []TypeOK
  BY InitType, TypeStep, PTL DEF Spec

\* Whatever processes overlap and wherever they die, and even while the configuration
\* is edited under them, deny_trigger_info names exactly the triggers that are there, if
\* those that were marked were the configured ones (deny_trigger_manager.py:100-136).
THEOREM Bookkeeping == ASSUME AsMarked PROVE Spec => []Recorded
  <1>1. DenyInv => Recorded
    BY DEF DenyInv
  <1> QED BY <1>1, Always, PTL

\* The tables a process has brought up to date are protected as the configuration says.
Guarded == \A p \in Proc : pc[p] \in {"run", "up"} => \A t \in done[p] : trig[t] = Triggers(conf[t])

\* While the configuration stands, every step keeps the tables brought up to date protected.
LEMMA GuardedStep == ASSUME ~Running PROVE DenyInv /\ Guarded /\ [Next]_vars => Guarded'
  <1> SUFFICES ASSUME TypeOK, Recorded, Known, Marked, Current, Guarded, [Next]_vars
               PROVE  Guarded'
    BY DEF DenyInv
  <1>1. CASE UNCHANGED vars
    BY <1>1, Stutter DEF Guarded
  <1>2. CASE Reconfigure \/ UnMark
    <2>1. Exit(Proc)
      BY <1>2 DEF Reconfigure, UnMark
    <2>2. \A p \in Proc : pc'[p] = "down"
      BY <2>1, ExitStep
    <2> QED BY <2>2 DEF Guarded
  <1>3. ASSUME NEW p \in Proc, Start(p) \/ ReadInfo(p) \/ Started(p)
        PROVE  Guarded'
    BY <1>3 DEF Start, ReadInfo, Started, Guarded, TypeOK
  <1>4. ASSUME NEW p \in Proc, NEW t \in Table, UpdateTable(p, t)
        PROVE  Guarded'
    <2>1. /\ mark' = mark /\ conf' = conf /\ pc' = pc /\ pc[p] = "run"
          /\ done' = [done EXCEPT ![p] = @ \cup {t}]
      BY <1>4 DEF UpdateTable
    <2>2. want[p] = conf /\ t \in local
      BY <1>4, <2>1 DEF Current, UpdateTable, Known
    <2>3. trig'[t] = Triggers(conf[t])
      <3>1. \A k \in Type : trig'[t][k] = Triggers(conf[t])[k]
        <4> TAKE k \in Type
        <4>1. CASE mark
          BY <1>4, <2>2, <4>1, UpdatePoint DEF Marked
        <4>2. CASE ~mark
          <5>1. trig[t][k] \in {seen[p][t][k], Triggers(conf[t])[k]}
            BY <2>1, <4>2 DEF Current
          <5> QED BY <1>4, <2>2, <4>2, <5>1, UpdatePoint
        <4> QED BY <4>1, <4>2
      <3>2. trig'[t] \in Set /\ Triggers(conf[t]) \in Set
        BY <1>4, UpdatePoint, TriggersType DEF TypeOK, Type, Conf
      <3> QED BY <3>1, <3>2 DEF Set
    <2> SUFFICES ASSUME NEW q \in Proc, pc[q] \in {"run", "up"}, NEW u \in done'[q]
                 PROVE  trig'[u] = Triggers(conf[u])
      BY <2>1 DEF Guarded
    <2>4. CASE u = t
      BY <2>3, <2>4
    <2>5. CASE u # t
      <3>1. u \in done[q] /\ u \in Table
        BY <2>1, <2>5 DEF TypeOK
      <3> QED BY <1>4, <2>5, <3>1, UpdateOthers DEF Guarded
    <2> QED BY <2>4, <2>5
  <1>5. ASSUME NEW P \in SUBSET Proc, Exit(P), UNCHANGED <<conf, trig>>
        PROVE  Guarded'
    <2>1. \A q \in Proc : done'[q] \subseteq done[q] /\ (pc'[q] # "down" => pc'[q] = pc[q])
      BY <1>5, ExitStep
    <2> QED BY <1>5, <2>1 DEF Guarded
  <1>6. ASSUME NEW p \in Proc, Die(p) \/ Crash(p)
        PROVE  Guarded'
    BY <1>5, <1>6 DEF Die, Crash
  <1>7. ASSUME NEW t \in Table, NEW p \in Copy, AddTable(t, p)
        PROVE  Guarded'
    BY <1>5, <1>7 DEF AddTable, Proc
  <1> QED BY <1>1, <1>2, <1>3, <1>4, <1>6, <1>7, Steps

\* With a configuration that only changes while the node is stopped, a table that a
\* process has brought up to date is protected as the configuration says, and no
\* process undoes it with what it has read before (deny_trigger_manager.py:78-136).
THEOREM Protected == ASSUME AsMarked, ~Running PROVE Spec => []Enforced
  <1>1. Init => Guarded
    BY DEF Init, Guarded
  <1>2. DenyInv /\ Guarded /\ [Next]_vars => Guarded'
    BY GuardedStep
  <1>3. Guarded => Enforced
    BY DEF Guarded, Enforced
  <1> QED BY <1>1, <1>2, <1>3, Always, PTL DEF Spec
=============================================================================
