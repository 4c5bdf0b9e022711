---------------------------- MODULE Cascade_proofs ----------------------------
(***************************************************************************)
(* Proofs about Cascade: for any depth, tables, skip lists, events and     *)
(* commands, the catalogues of the nodes agree and no script stops a       *)
(* worker, if the administrator is careful.                                *)
(***************************************************************************)
EXTENDS Cascade, FiniteSetTheorems, TLAPS

\* A command and what it has read.
CmdType == [at : Steps, node : Node, obj : SUBSET Obj, create : BOOLEAN, find : BOOLEAN,
            src : SUBSET Obj, has : SUBSET Obj, from : Node]

\* A version counts scripts, and there were no more scripts than events.
Versions ==
  /\ \A n \in Node, o \in Obj : ver[n][o] <= Len(log) + 1
  /\ \A i \in 1..Len(log), o \in Obj : log[i].base[o] <= i

TypeInv == TypeOK /\ cmd \in CmdType /\ Versions

\* A node detaches what it forgets, and does not know the tables it skips.
Attached ==
  /\ set[1] = local[1]
  /\ \A n \in Node : local[n] \subseteq set[n]
  /\ \A n \in Below, o \in Obj : o \in set[n] => ~Skips(n, o)

\* What a command has read is true until it has used it, and it takes objects from above.
Fresh ==
  /\ cmd.at # "none" => cmd.node \in Below /\ cmd.from < cmd.node
  /\ cmd.at = "sync" =>
       /\ cmd.src = set[cmd.node - 1] /\ cmd.has = local[cmd.node - 1]
       /\ \A t \in local[cmd.node] \ cmd.src : Pending(cmd.node, t) = {}

\* The events that node n has still to process.
Ahead(n) == (pos[n] + 1)..Len(log)

\* An object is added when nothing about it is on its way, and nothing follows its
\* removal before all nodes have seen that.
Ordered ==
  \A i \in 1..Len(log) : \A j \in 1..(i - 1) : \A o \in log[i].objs \cap log[j].objs :
    log[i].type = "add" \/ log[j].type = "remove" => \A m \in Below : j <= pos[m]

\* What is on its way to node n leads to what the root has.
Coming ==
  \A n \in Below : \A i \in Ahead(n) : \A o \in log[i].objs :
    /\ log[i].type = "remove" => o \notin set[1]
    /\ log[i].type = "add" =>
         o \in set[1] \/ \E j \in (i + 1)..Len(log) : log[j].type = "remove" /\ o \in log[j].objs

\* Nothing that adds or removes object o is on its way to node n.
Settled(n, o) == \A i \in Ahead(n) : o \in log[i].objs => log[i].type = "execute"

\* No node down to n skips o.
Free(n, o) == \A m \in Below : m <= n => ~Skips(m, o)

\* What a node has seen all events about it knows if its provider does and it does not
\* skip it, and only if the root has it; if nobody down to it skips it, exactly then.
Known ==
  \A n \in Below, o \in Obj : Settled(n, o) =>
    /\ o \in set[n] => o \in set[1]
    /\ o \in set[n - 1] /\ ~Skips(n, o) => o \in set[n]
    /\ o \in set[1] /\ Free(n, o) => o \in set[n]

\* A node knows only what its provider knows, or what was removed or is skipped above it.
Downward ==
  \A n \in Below, o \in Obj :
    o \in set[n] /\ o \in set[1] /\ Free(n - 1, o) => o \in set[n - 1]

\* The scripts for table t from event i on.
Scripts(i, t) == {j \in i..Len(log) : log[j].type = "execute" /\ t \in log[j].objs}

\* A script is for the version that the scripts after it, and itself, make today's.
Based ==
  \A i \in 1..Len(log) : log[i].type = "execute" => \A t \in log[i].objs :
    log[i].base[t] + Cardinality(Scripts(i, t)) = ver[1][t]

\* The scripts that an attached table has still to run make it as the root's is.
Exact ==
  \A n \in Below, t \in Table : t \in local[n] =>
    ver[n][t] + Cardinality(Pending(n, t)) = ver[1][t]

\* On a node all tables of a script on its way are attached, or none.
Whole ==
  \A n \in Below : \A i \in Ahead(n) :
    log[i].type = "execute" => ~Partial(log[i].objs, local[n])

\* No node is ahead of one above it.
Behind == \A m, n \in Below : m <= n => pos[n] <= pos[m]

Lists == Behind /\ Attached /\ Fresh /\ Ordered /\ Coming /\ Known /\ Downward

IInv == TypeInv /\ Lists /\ Based /\ Exact /\ Whole

-----------------------------------------------------------------------------
(* Types. *)

\* Nodes, their providers, and the events on their way.
LEMMA Nodes ==
    ASSUME TypeOK
    PROVE  /\ Depth \in Nat /\ Depth >= 2 /\ Len(log) \in Nat
           /\ 1 \in Node /\ 1 \notin Below /\ Below \subseteq Node /\ Node \subseteq Nat
           /\ \A n \in Below : /\ n \in Nat /\ n >= 2 /\ n <= Depth
                               /\ n - 1 \in Node /\ (n - 1 = 1 \/ n - 1 \in Below)
           /\ \A n \in Node : pos[n] \in Nat /\ pos[n] <= Len(log)
           /\ \A n \in Below : At(n - 1) <= Len(log)
           /\ \A i \in 1..Len(log) : log[i] \in Event
  <1>1. Depth \in Nat /\ Depth >= 2
    BY CascadeAssumption
  <1> QED BY <1>1 DEF TypeOK, Node, Below, At

\* What an event is.
LEMMA Events ==
    ASSUME NEW e \in Event
    PROVE  /\ e.objs \subseteq Obj /\ e.base \in [Obj -> Nat]
           /\ e.type \in {"add", "remove", "execute"}
           /\ e.type = "execute" => e.objs \subseteq Table
  BY DEF Event, Obj

\* The root adds one event at the end of its queue.
LEMMA Emitted ==
    ASSUME TypeOK, NEW type \in {"add", "remove", "execute"}, NEW S \in SUBSET Obj,
           type = "execute" => S \subseteq Table, Emit(type, S)
    PROVE  /\ Len(log') = Len(log) + 1 /\ log' \in Seq(Event)
           /\ \A i \in 1..Len(log) : log'[i] = log[i]
           /\ log'[Len(log) + 1].type = type /\ log'[Len(log) + 1].objs = S
           /\ log'[Len(log) + 1].base = ver[1]
  <1> DEFINE e == [type |-> type, objs |-> S, base |-> ver[1]]
  <1>1. e \in Event
    <2>1. ver[1] \in [Obj -> Nat]
      BY Nodes DEF TypeOK
    <2>2. CASE type = "execute"
      BY <2>1, <2>2 DEF Event
    <2>3. CASE type \in {"add", "remove"}
      BY <2>1, <2>3 DEF Event
    <2> QED BY <2>2, <2>3
  <1>2. log' = Append(log, e) /\ log \in Seq(Event)
    BY DEF Emit, TypeOK
  <1> QED BY <1>1, <1>2

\* The steps of Next, one by one.
LEMMA StepsAre ==
    ASSUME [Next]_vars
    PROVE  \/ UNCHANGED vars
           \/ \E o \in Obj : RootAdd(o) \/ RootRemove(o) \/ Attach(o)
           \/ \E S \in SUBSET Table : Execute(S)
           \/ \E n \in Below : Worker(n)
           \/ \E n \in Below, o \in Obj : \/ \E c \in BOOLEAN, f \in BOOLEAN : ReadProvider(n, o, c, f)
                                          \/ Detach(n, o)
           \/ SyncTables \/ SyncSeqs \/ Expand \/ FindSource \/ GiveUp
  BY DEF Next, Command

\* The types hold at the start.
LEMMA InitType == Init => TypeInv
  <1> SUFFICES ASSUME Init PROVE TypeInv
    OBVIOUS
  <1>1. 1 \in Node /\ 0 \in 0..MaxCmd /\ 0 \in 0..0 /\ MaxEvent \in Nat
    BY CascadeAssumption DEF Node
  <1>2. log \in Seq(Event) /\ Len(log) = 0
    BY DEF Init
  <1>3. ver \in [Node -> [Obj -> 0..1]] /\ skip \in [Node -> SUBSET Obj]
    BY DEF Init
  <1>4. cmd \in CmdType
    BY <1>1 DEF Init, NoCmd, CmdType, Steps
  <1>5. \A n \in Node, o \in Obj : ver[n][o] \in 0..1 /\ ver[n][o] <= 1
    BY <1>3
  <1>6. ver \in [Node -> [Obj -> 0..(MaxEvent + 1)]]
    <2>1. 0..1 \subseteq 0..(MaxEvent + 1)
      BY <1>1
    <2> QED BY <1>3, <2>1
  <1>7. pos \in [Node -> 0..Len(log)] /\ \A n \in Node : n > 2 => pos[n] <= pos[n - 1]
    <2>1. \A n \in Node : n > 2 => n - 1 \in Node
      BY CascadeAssumption DEF Node
    <2> QED BY <1>1, <1>2, <2>1 DEF Init
  <1>8. TypeOK
    BY <1>1, <1>2, <1>3, <1>4, <1>6, <1>7 DEF Init, TypeOK, CmdType
  <1> QED BY <1>2, <1>4, <1>5, <1>8 DEF TypeInv, Versions

\* The command changes, the administrator's copy of lists included, but no versions.
LEMMA CommandType ==
    ASSUME TypeInv,
           \/ SyncTables \/ SyncSeqs \/ Expand \/ FindSource \/ GiveUp
           \/ \E n \in Below, o \in Obj : \/ \E c \in BOOLEAN, f \in BOOLEAN : ReadProvider(n, o, c, f)
                                          \/ Detach(n, o)
    PROVE  /\ UNCHANGED <<log, pos, ver, skip>>
           /\ set' \in [Node -> SUBSET Obj] /\ local' \in [Node -> SUBSET Obj]
           /\ cmd' \in CmdType /\ cmds' \in 0..MaxCmd
  <1> USE DEF TypeInv, TypeOK
  <1>0. NoCmd \in CmdType /\ Node \subseteq Int
    BY Nodes DEF NoCmd, CmdType, Steps, Node
  <1>1. CASE SyncTables
    BY <1>1, <1>0 DEF SyncTables, CmdType, Steps
  <1>2. CASE SyncSeqs
    <2> DEFINE new == (cmd.src \cap Seqs) \ skip[cmd.node]
    <2>1. CASE Refuse
      BY <1>0, <2>1 DEF Refuse
    <2>2. CASE ~Refuse
      <3>1. /\ set' = [set EXCEPT ![cmd.node] = set[cmd.node] \cup new]
            /\ cmd' = [cmd EXCEPT !.at = "expand"] /\ UNCHANGED <<log, pos, local, ver, skip, cmds>>
        BY <1>2, <2>2 DEF SyncSeqs
      <3>2. cmd.node \in Node /\ new \subseteq Obj
        BY DEF CmdType, Obj
      <3>3. set' \in [Node -> SUBSET Obj]
        BY <3>1, <3>2
      <3>4. cmd' \in CmdType
        BY <3>1 DEF CmdType, Steps
      <3> QED BY <3>1, <3>3, <3>4
    <2> QED BY <2>1, <2>2
  <1>3. CASE Expand \/ GiveUp
    BY <1>3, <1>0 DEF Expand, GiveUp, Refuse, Goto, CmdType, Steps
  <1>4. CASE FindSource
    <2>1. \A n \in Node, o \in Obj : Sources(n, o) \subseteq Node
      BY Nodes DEF Sources, Node
    <2>2. UNION {Sources(cmd.node, o) : o \in cmd.obj} \subseteq Node
      BY <2>1 DEF CmdType
    <2>3. CASE Refuse
      BY <2>3, <1>0 DEF Refuse
    <2>4. CASE ~Refuse
      <3>1. PICK q \in Node : /\ cmd' = [cmd EXCEPT !.at = "attach", !.src = set[q],
                                                    !.has = local[q], !.from = q]
                              /\ UNCHANGED <<log, pos, set, local, ver, skip, cmds>>
        BY <1>4, <2>2, <2>4 DEF FindSource
      <3> QED BY <3>1 DEF CmdType, Steps
    <2> QED BY <2>3, <2>4
  <1>5. ASSUME NEW n \in Below, NEW o \in Obj, NEW c \in BOOLEAN, NEW f \in BOOLEAN,
               ReadProvider(n, o, c, f)
        PROVE  /\ UNCHANGED <<log, pos, ver, skip, set, local>>
               /\ cmd' \in CmdType /\ cmds' \in 0..MaxCmd
    <2>1. n \in Node /\ n - 1 \in Node
      BY Nodes
    <2>2. cmds' \in 0..MaxCmd
      BY <1>5, CascadeAssumption DEF ReadProvider
    <2> QED BY <1>5, <2>1, <2>2 DEF ReadProvider, CmdType, Steps
  <1>6. ASSUME NEW n \in Below, NEW o \in Obj, Detach(n, o)
        PROVE  /\ UNCHANGED <<log, pos, ver, skip, set, cmd>>
               /\ local' \in [Node -> SUBSET Obj] /\ cmds' \in 0..MaxCmd
    <2>1. n \in Node /\ MaxCmd \in Nat
      BY Nodes, CascadeAssumption
    <2>2. local' = [local EXCEPT ![n] = local[n] \ {o}] /\ cmds' = cmds + 1 /\ cmds < MaxCmd
      BY <1>6 DEF Detach
    <2>3. local' \in [Node -> SUBSET Obj]
      BY <2>1, <2>2
    <2>4. cmds' \in 0..MaxCmd
      BY <2>1, <2>2
    <2> QED BY <1>6, <2>3, <2>4 DEF Detach
  <1> QED BY <1>1, <1>2, <1>3, <1>4, <1>5, <1>6

\* Every step keeps the types.
LEMMA TypeStep == TypeInv /\ [Next]_vars => TypeInv'
  <1> SUFFICES ASSUME TypeInv, [Next]_vars PROVE TypeInv'
    OBVIOUS
  <1>0. TypeOK /\ Versions /\ MaxEvent \in Nat
    BY CascadeAssumption DEF TypeInv
  <1>1. CASE UNCHANGED vars
    BY <1>1 DEF vars, TypeInv, TypeOK, Versions
  <1>2. ASSUME NEW type \in {"add", "remove", "execute"}, NEW S \in SUBSET Obj,
               type = "execute" => S \subseteq Table, Emit(type, S), Len(log) < MaxEvent,
               UNCHANGED <<pos, skip, cmd, cmds>>,
               set' \in [Node -> SUBSET Obj], local' \in [Node -> SUBSET Obj],
               ver' \in [Node -> [Obj -> Nat]],
               \A n \in Node, o \in Obj : ver'[n][o] <= ver[n][o] + 1
        PROVE  TypeInv'
    <2>1. /\ Len(log') = Len(log) + 1 /\ log' \in Seq(Event)
          /\ \A i \in 1..Len(log) : log'[i] = log[i]
          /\ log'[Len(log) + 1].base = ver[1]
      BY <1>0, <1>2, Emitted
    <2>2. Versions'
      <3>1. \A n \in Node, o \in Obj : ver[n][o] \in Nat /\ ver'[n][o] \in Nat
        BY <1>0, <1>2 DEF TypeOK
      <3>2. ASSUME NEW n \in Node, NEW o \in Obj PROVE ver'[n][o] <= Len(log') + 1
        <4>1. ver[n][o] <= Len(log) + 1 /\ ver'[n][o] <= ver[n][o] + 1
          BY <1>0, <1>2 DEF Versions
        <4> QED BY <1>0, <2>1, <3>1, <4>1, Nodes
      <3>3. ASSUME NEW i \in 1..Len(log'), NEW o \in Obj PROVE log'[i].base[o] <= i
        <4>1. CASE i \in 1..Len(log)
          BY <1>0, <2>1, <4>1 DEF Versions
        <4>2. CASE i = Len(log) + 1
          BY <1>0, <2>1, <4>2, Nodes DEF Versions
        <4> QED BY <2>1, <4>1, <4>2, <1>0, Nodes
      <3> QED BY <3>2, <3>3 DEF Versions
    <2>3. ver' \in [Node -> [Obj -> 0..(MaxEvent + 1)]]
      <3>1. ASSUME NEW n \in Node, NEW o \in Obj PROVE ver'[n][o] \in 0..(MaxEvent + 1)
        <4>1. ver'[n][o] \in Nat /\ ver'[n][o] <= Len(log') + 1
          BY <1>2, <2>2 DEF Versions
        <4>2. Len(log') <= MaxEvent /\ Len(log') \in Nat
          BY <1>0, <1>2, <2>1, Nodes
        <4> QED BY <1>0, <4>1, <4>2
      <3> QED BY <1>2, <3>1
    <2>4. pos' \in [Node -> 0..Len(log')]
      BY <1>0, <1>2, <2>1, Nodes DEF TypeOK
    <2>5. TypeOK'
      <3>1. log' \in Seq(Event) /\ Len(log') <= MaxEvent
        BY <1>0, <1>2, <2>1, Nodes
      <3> QED BY <1>0, <1>2, <2>3, <2>4, <3>1 DEF TypeOK
    <2> QED BY <2>2, <2>5, <1>2 DEF TypeInv
  <1>3. ASSUME NEW o \in Obj, RootAdd(o) \/ RootRemove(o) PROVE TypeInv'
    <2>1. UNCHANGED <<pos, skip, cmd, cmds, ver>> /\ Len(log) < MaxEvent
      BY <1>3 DEF RootAdd, RootRemove
    <2>2. set' \in [Node -> SUBSET Obj] /\ local' \in [Node -> SUBSET Obj]
      <3>1. set[1] \cup {o} \subseteq Obj /\ local[1] \cup {o} \subseteq Obj
        BY <1>0, Nodes DEF TypeOK
      <3>2. CASE RootAdd(o)
        BY <1>0, <3>1, <3>2 DEF RootAdd, TypeOK
      <3>3. CASE RootRemove(o)
        BY <1>0, <3>1, <3>3 DEF RootRemove, TypeOK
      <3> QED BY <1>3, <3>2, <3>3
    <2>3. ver \in [Node -> [Obj -> Nat]] /\ \A n \in Node, x \in Obj : ver[n][x] <= ver[n][x] + 1
      BY <1>0 DEF TypeOK
    <2>4. CASE RootAdd(o)
      BY <2>1, <2>2, <2>3, <2>4, <1>2 DEF RootAdd
    <2>5. CASE RootRemove(o)
      BY <2>1, <2>2, <2>3, <2>5, <1>2 DEF RootRemove
    <2> QED BY <1>3, <2>4, <2>5
  <1>4. ASSUME NEW S \in SUBSET Table, Execute(S) PROVE TypeInv'
    <2>1. /\ UNCHANGED <<pos, skip, cmd, cmds, set, local>> /\ Len(log) < MaxEvent
          /\ Emit("execute", S) /\ S \in SUBSET Obj
      BY <1>4 DEF Execute, Obj
    <2>2. ver \in [Node -> [Obj -> Nat]]
      BY <1>0 DEF TypeOK
    <2>3. ver' = [ver EXCEPT ![1] = [o \in Obj |-> IF o \in S /\ NeedExecute(S, local[1])
                                                  THEN ver[1][o] + 1 ELSE ver[1][o]]]
      BY <1>4 DEF Execute
    <2>4. ver' \in [Node -> [Obj -> Nat]] /\ \A n \in Node, o \in Obj : ver'[n][o] <= ver[n][o] + 1
      BY <2>2, <2>3, <1>0, Nodes
    <2>5. set' \in [Node -> SUBSET Obj] /\ local' \in [Node -> SUBSET Obj]
      BY <2>1, <1>0 DEF TypeOK
    <2> QED BY <2>1, <2>4, <2>5, <1>2
  <1>5. ASSUME NEW n \in Below, Worker(n) PROVE TypeInv'
    <2> DEFINE e == log[pos[n] + 1]
    <2>1. /\ pos[n] + 1 \in 1..Len(log) /\ pos' = [pos EXCEPT ![n] = pos[n] + 1] /\ n \in Node
          /\ UNCHANGED <<log, skip, cmd, cmds>>
      <3>1. n \in Node /\ pos[n] \in Nat /\ At(n - 1) <= Len(log) /\ Len(log) \in Nat
        BY <1>0, Nodes
      <3>2. /\ pos[n] < At(n - 1) /\ pos' = [pos EXCEPT ![n] = pos[n] + 1]
            /\ UNCHANGED <<log, skip, cmd, cmds>>
        BY <1>5 DEF Worker
      <3>3. At(n - 1) \in Nat
        BY <1>0, Nodes DEF At
      <3> QED BY <3>1, <3>2, <3>3
    <2>2. e.objs \subseteq Obj /\ e.base \in [Obj -> Nat] /\ \A o \in Obj : e.base[o] <= pos[n] + 1
      BY <1>0, <2>1, Nodes, Events DEF Versions
    <2>3. set' \in [Node -> SUBSET Obj] /\ local' \in [Node -> SUBSET Obj]
      <3>1. set \in [Node -> SUBSET Obj] /\ local \in [Node -> SUBSET Obj]
        BY <1>0 DEF TypeOK
      <3>2. \/ AddSet(n, e.objs) /\ local' = local
            \/ RemoveSet(n, e.objs)
            \/ UNCHANGED <<set, local>>
        BY <1>5 DEF Worker
      <3>3. CASE AddSet(n, e.objs) /\ local' = local
        <4>1. set[n] \cup {o \in e.objs : ~Skips(n, o)} \in SUBSET Obj
          BY <2>1, <2>2, <3>1
        <4> QED BY <3>1, <3>3, <4>1 DEF AddSet
      <3>4. CASE RemoveSet(n, e.objs)
        <4>1. set[n] \ e.objs \in SUBSET Obj /\ local[n] \ e.objs \in SUBSET Obj
          BY <2>1, <3>1
        <4> QED BY <3>1, <3>4, <4>1 DEF RemoveSet
      <3> QED BY <3>1, <3>2, <3>3, <3>4
    <2>4. /\ ver' \in [Node -> [Obj -> Nat]]
          /\ \A m \in Node, o \in Obj : ver'[m][o] <= Len(log) + 1
      <3>1. /\ ver \in [Node -> [Obj -> Nat]]
            /\ \A m \in Node, o \in Obj : ver[m][o] <= Len(log) + 1
        BY <1>0 DEF TypeOK, Versions
      <3>2. CASE ver' = ver
        BY <3>1, <3>2
      <3>3. CASE ver' # ver
        <4>1. RunScript(n, e)
          BY <1>5, <3>3 DEF Worker
        <4>2. /\ Fits(n, e) /\ e.objs \subseteq Obj
              /\ ver' = [ver EXCEPT ![n] = [o \in Obj |-> IF o \in e.objs THEN ver[n][o] + 1
                                                          ELSE ver[n][o]]]
          BY <2>2, <3>3, <4>1 DEF RunScript
        <4>3. \A o \in e.objs : ver[n][o] + 1 <= Len(log) + 1
          <5>1. \A o \in e.objs : ver[n][o] = e.base[o]
            BY <4>2 DEF Fits
          <5>2. \A o \in e.objs : ver[n][o] \in Nat /\ ver[n][o] <= pos[n] + 1
            BY <5>1, <2>1, <2>2, <3>1
          <5> QED BY <5>2, <2>1, <1>0, Nodes
        <4>4. \A m \in Node, o \in Obj : ver'[m][o] <= Len(log) + 1 /\ ver'[m][o] \in Nat
          <5> SUFFICES ASSUME NEW m \in Node, NEW o \in Obj
                       PROVE  ver'[m][o] <= Len(log) + 1 /\ ver'[m][o] \in Nat
            OBVIOUS
          <5>1. CASE m = n /\ o \in e.objs
            BY <3>1, <4>2, <4>3, <5>1
          <5>2. CASE ~(m = n /\ o \in e.objs)
            BY <3>1, <4>2, <5>2
          <5> QED BY <5>1, <5>2
        <4> QED BY <3>1, <4>2, <4>4
      <3> QED BY <3>2, <3>3
    <2>5. ver' \in [Node -> [Obj -> 0..(MaxEvent + 1)]]
      <3>1. \A m \in Node, o \in Obj : ver'[m][o] \in 0..(MaxEvent + 1)
        BY <1>0, <2>4, Nodes DEF TypeOK
      <3> QED BY <2>4, <3>1
    <2>6. pos' \in [Node -> 0..Len(log)] /\ \A m \in Node : m > 2 => pos'[m] <= pos'[m - 1]
      <3>1. n > 2 => pos[n] + 1 <= pos[n - 1]
        BY <1>0, <1>5, Nodes DEF Worker, At, TypeOK
      <3>2. pos' \in [Node -> 0..Len(log)]
        BY <1>0, <2>1 DEF TypeOK
      <3>3. ASSUME NEW m \in Node, m > 2 PROVE pos'[m] <= pos'[m - 1]
        <4>1. m - 1 \in Node /\ pos[m] <= pos[m - 1] /\ pos[m] \in Nat /\ pos[m - 1] \in Nat
          <5>1. m \in Below
            BY <1>0, <3>3, Nodes DEF Below, Node
          <5>2. m - 1 \in Node /\ pos[m] \in Nat
            BY <1>0, <5>1, Nodes
          <5>3. pos[m] <= pos[m - 1]
            BY <1>0, <3>3 DEF TypeOK
          <5> QED BY <1>0, <5>2, <5>3, Nodes
        <4>2. CASE m = n
          BY <2>1, <3>1, <3>3, <4>1, <4>2, <1>0 DEF TypeOK
        <4>3. CASE m # n
          BY <2>1, <4>1, <4>3, <1>0 DEF TypeOK
        <4> QED BY <4>2, <4>3
      <3> QED BY <3>2, <3>3
    <2>7. TypeOK'
      BY <1>0, <2>1, <2>3, <2>5, <2>6 DEF TypeOK
    <2> QED BY <2>1, <2>4, <2>7, <1>0 DEF TypeInv, Versions
  <1>6. ASSUME NEW o \in Obj, Attach(o) PROVE TypeInv'
    <2>1. cmd.node \in Node /\ cmd.from \in Node
      BY DEF TypeInv, CmdType
    <2>2. /\ ver' = [ver EXCEPT ![cmd.node][o] = IF ver[cmd.node][o] = 0 THEN ver[cmd.from][o]
                                                 ELSE ver[cmd.node][o]]
          /\ local' = [local EXCEPT ![cmd.node] = local[cmd.node] \cup {o}]
          /\ cmd' = NoCmd /\ UNCHANGED <<log, pos, set, skip, cmds>>
      BY <1>6 DEF Attach
    <2>3. ver' \in [Node -> [Obj -> 0..(MaxEvent + 1)]]
      BY <1>0, <2>1, <2>2 DEF TypeOK
    <2>4. \A n \in Node, x \in Obj : ver'[n][x] <= Len(log) + 1
      BY <1>0, <2>1, <2>2 DEF TypeOK, Versions
    <2>5. NoCmd \in CmdType
      BY <1>0, Nodes DEF NoCmd, CmdType, Steps
    <2>6. local' \in [Node -> SUBSET Obj]
      BY <1>0, <2>2 DEF TypeOK
    <2>7. TypeOK'
      BY <1>0, <2>2, <2>3, <2>5, <2>6 DEF TypeOK, CmdType
    <2> QED BY <1>0, <2>2, <2>4, <2>5, <2>7 DEF TypeInv, Versions
  <1>7. CASE \/ SyncTables \/ SyncSeqs \/ Expand \/ FindSource \/ GiveUp
             \/ \E n \in Below, o \in Obj :
                  \/ \E c \in BOOLEAN, f \in BOOLEAN : ReadProvider(n, o, c, f)
                  \/ Detach(n, o)
    <2>1. /\ UNCHANGED <<log, pos, ver, skip>>
          /\ set' \in [Node -> SUBSET Obj] /\ local' \in [Node -> SUBSET Obj]
          /\ cmd' \in CmdType /\ cmds' \in 0..MaxCmd
      BY <1>7, CommandType
    <2> QED BY <1>0, <2>1 DEF TypeInv, TypeOK, Versions, CmdType
  <1> QED BY <1>1, <1>3, <1>4, <1>5, <1>6, <1>7, StepsAre

\* Versions, positions, lists and the command keep their types, whoever the
\* administrator is, and no node gets ahead of its provider.
THEOREM TypeCorrect == Spec => []TypeOK
  <1>1. TypeInv => TypeOK
    BY DEF TypeInv
  <1> QED BY <1>1, InitType, TypeStep, PTL DEF Spec


-----------------------------------------------------------------------------
(* What an event, and a worker's progress, changes of the sets of events. *)

\* The scripts that wait are finitely many.
LEMMA Counted ==
    ASSUME TypeOK, NEW t
    PROVE  /\ \A n \in Node : /\ IsFiniteSet(Pending(n, t))
                              /\ Cardinality(Pending(n, t)) \in Nat
           /\ \A i \in 1..(Len(log) + 1) : /\ IsFiniteSet(Scripts(i, t))
                                           /\ Cardinality(Scripts(i, t)) \in Nat
  <1>1. ASSUME NEW a \in Int, NEW T \in SUBSET (a..Len(log))
        PROVE  IsFiniteSet(T) /\ Cardinality(T) \in Nat
    <2>1. IsFiniteSet(a..Len(log))
      BY Nodes, FS_Interval
    <2>2. IsFiniteSet(T)
      BY <2>1, FS_Subset
    <2> QED BY <2>2, FS_CardinalityType
  <1>2. ASSUME NEW n \in Node
        PROVE  IsFiniteSet(Pending(n, t)) /\ Cardinality(Pending(n, t)) \in Nat
    <2>1. pos[n] + 1 \in Int
      BY Nodes
    <2>2. Pending(n, t) \in SUBSET ((pos[n] + 1)..Len(log))
      BY DEF Pending
    <2> QED BY <2>1, <2>2, <1>1
  <1>3. ASSUME NEW i \in 1..(Len(log) + 1)
        PROVE  IsFiniteSet(Scripts(i, t)) /\ Cardinality(Scripts(i, t)) \in Nat
    <2>1. i \in Int /\ Scripts(i, t) \in SUBSET (i..Len(log))
      BY DEF Scripts
    <2> QED BY <2>1, <1>1
  <1> QED BY <1>2, <1>3

\* A new event is ahead of every node, and a script is one more for its tables.
LEMMA NewEvent ==
    ASSUME TypeOK, NEW type \in {"add", "remove", "execute"}, NEW S \in SUBSET Obj,
           type = "execute" => S \subseteq Table, Emit(type, S), UNCHANGED pos,
           NEW L, L = Len(log) + 1
    PROVE  /\ \A n \in Node : /\ Ahead(n)' = Ahead(n) \cup {L}
                              /\ Ahead(n) \subseteq 1..Len(log)
           /\ \A n \in Node, t \in Obj :
                Pending(n, t)' = IF type = "execute" /\ t \in S THEN Pending(n, t) \cup {L}
                                 ELSE Pending(n, t)
           /\ \A i \in 1..L, t \in Obj :
                Scripts(i, t)' = IF type = "execute" /\ t \in S THEN Scripts(i, t) \cup {L}
                                 ELSE Scripts(i, t)
  <1>1. /\ Len(log') = L /\ L \in Nat /\ Len(log) \in Nat
        /\ \A i \in 1..Len(log) : log'[i] = log[i]
        /\ log'[L].type = type /\ log'[L].objs = S
    BY Emitted, Nodes
  <1>2. \A n \in Node : pos'[n] = pos[n] /\ pos[n] \in Nat /\ pos[n] <= Len(log)
    BY Nodes
  <1>3. ASSUME NEW a \in 1..L
        PROVE  a..Len(log') = (a..Len(log)) \cup {L} /\ a..Len(log) \subseteq 1..Len(log)
    BY <1>1
  <1>4. ASSUME NEW a \in 1..L, NEW t \in Obj
        PROVE  {j \in a..Len(log') : log'[j].type = "execute" /\ t \in log'[j].objs} =
                 IF type = "execute" /\ t \in S
                 THEN {j \in a..Len(log) : log[j].type = "execute" /\ t \in log[j].objs} \cup {L}
                 ELSE {j \in a..Len(log) : log[j].type = "execute" /\ t \in log[j].objs}
    BY <1>1, <1>3
  <1>5. \A n \in Node : pos[n] + 1 \in 1..L
    BY <1>1, <1>2
  <1>6. \A n \in Node : Ahead(n)' = Ahead(n) \cup {L} /\ Ahead(n) \subseteq 1..Len(log)
    BY <1>2, <1>3, <1>5 DEF Ahead
  <1>7. ASSUME NEW n \in Node, NEW t \in Obj
        PROVE  Pending(n, t)' = IF type = "execute" /\ t \in S THEN Pending(n, t) \cup {L}
                                ELSE Pending(n, t)
    BY <1>2, <1>4, <1>5 DEF Pending
  <1>8. ASSUME NEW i \in 1..L, NEW t \in Obj
        PROVE  Scripts(i, t)' = IF type = "execute" /\ t \in S THEN Scripts(i, t) \cup {L}
                                ELSE Scripts(i, t)
    BY <1>4 DEF Scripts
  <1> QED BY <1>6, <1>7, <1>8

\* A worker leaves its next event behind.
LEMMA NextEvent ==
    ASSUME TypeOK, NEW n \in Below, Worker(n), NEW p, p = pos[n] + 1
    PROVE  /\ p \in Ahead(n) /\ p \in 1..Len(log) /\ pos'[n] = p /\ UNCHANGED <<log, skip, cmd>>
           /\ n - 1 \in Below => p \notin Ahead(n - 1) /\ p <= pos[n - 1]
           /\ \A m \in Node : m # n => pos'[m] = pos[m] /\ Ahead(m)' = Ahead(m)
           /\ Ahead(n)' = Ahead(n) \ {p} /\ \A i \in Ahead(n)' : i > p
           /\ \A m \in Node : \A t : Pending(m, t)' = IF m = n THEN Pending(m, t) \ {p}
                                                  ELSE Pending(m, t)
           /\ \A i, t : Scripts(i, t)' = Scripts(i, t)
  <1>1. /\ n \in Node /\ pos[n] \in Nat /\ Len(log) \in Nat /\ At(n - 1) <= Len(log)
        /\ At(n - 1) \in Nat
    BY Nodes DEF At
  <1>2. pos[n] < At(n - 1) /\ pos' = [pos EXCEPT ![n] = p] /\ UNCHANGED <<log, skip, cmd>>
    BY DEF Worker
  <1>3. p \in 1..Len(log) /\ p \in Ahead(n)
    BY <1>1, <1>2 DEF Ahead
  <1>4. pos'[n] = p /\ \A m \in Node : m # n => pos'[m] = pos[m]
    BY <1>1, <1>2 DEF TypeOK
  <1>5. ASSUME n - 1 \in Below PROVE p \notin Ahead(n - 1) /\ p <= pos[n - 1]
    <2>1. n - 1 # 1 /\ pos[n - 1] \in Nat
      BY <1>5, Nodes
    <2> QED BY <2>1, <1>1, <1>2 DEF At, Ahead
  <1>6. Ahead(n)' = Ahead(n) \ {p} /\ \A i \in Ahead(n)' : i > p
    BY <1>1, <1>2, <1>4 DEF Ahead
  <1>7. ASSUME NEW t PROVE Pending(n, t)' = Pending(n, t) \ {p}
    <2>1. (p + 1)..Len(log) = ((pos[n] + 1)..Len(log)) \ {p}
      BY <1>1
    <2> QED BY <2>1, <1>2, <1>4 DEF Pending
  <1>8. ASSUME NEW m \in Node, m # n
        PROVE  pos'[m] = pos[m] /\ Ahead(m)' = Ahead(m) /\ \A t : Pending(m, t)' = Pending(m, t)
    BY <1>2, <1>4, <1>8 DEF Ahead, Pending
  <1>9. \A i, t : Scripts(i, t)' = Scripts(i, t)
    BY <1>2 DEF Scripts
  <1> QED BY <1>2, <1>3, <1>4, <1>5, <1>6, <1>7, <1>8, <1>9

\* Where nothing is queued or processed, only lists, versions and the command can differ.
LEMMA SameEvents ==
    ASSUME UNCHANGED <<log, pos>>
    PROVE  /\ \A n : Ahead(n)' = Ahead(n)
           /\ \A n, t : Pending(n, t)' = Pending(n, t)
           /\ \A i, t : Scripts(i, t)' = Scripts(i, t)
           /\ \A n, o : Settled(n, o)' = Settled(n, o)
           /\ Ordered' = Ordered /\ Behind' = Behind
  BY DEF Ahead, Pending, Scripts, Settled, Ordered, Behind, Below, Node

\* What a node that is behind has seen, those above it have.
LEMMA Above ==
    ASSUME TypeOK, Behind, NEW m \in Below, NEW n \in Below, m <= n
    PROVE  /\ Ahead(m) \subseteq Ahead(n) /\ \A o : Settled(n, o) => Settled(m, o)
           /\ \A t : Pending(m, t) \subseteq Pending(n, t)
  <1>1. pos[n] <= pos[m] /\ pos[n] \in Nat /\ pos[m] \in Nat /\ Len(log) \in Nat
    BY Nodes DEF Behind
  <1>2. (pos[m] + 1)..Len(log) \subseteq (pos[n] + 1)..Len(log)
    BY <1>1
  <1> QED BY <1>2 DEF Ahead, Settled, Pending

-----------------------------------------------------------------------------
(* The root's steps.  They need a careful administrator. *)

\* The start satisfies the invariant.
LEMMA InitInv == Init => IInv
  <1> SUFFICES ASSUME Init PROVE IInv
    OBVIOUS
  <1>1. TypeInv /\ TypeOK
    BY InitType DEF TypeInv
  <1>2. /\ log = <<>> /\ Len(log) = 0 /\ 1 \in Node /\ Below \subseteq Node
        /\ \A n \in Node : pos[n] = 0 /\ set[n] = {} /\ local[n] = {}
        /\ \A n \in Below : n - 1 \in Node
        /\ cmd.at = "none"
    BY <1>1, Nodes DEF Init, NoCmd
  <1>3. \A n \in Node : Ahead(n) = {}
    BY <1>2 DEF Ahead
  <1>4. Behind /\ Attached
    <2>1. \A m, n \in Below : pos[m] = 0 /\ pos[n] = 0
      BY <1>2
    <2>2. Behind
      BY <2>1 DEF Behind
    <2> QED BY <1>2, <2>2 DEF Attached
  <1>5. Fresh /\ Ordered /\ Coming /\ Based /\ Whole
    BY <1>2, <1>3 DEF Fresh, Ordered, Coming, Based, Whole
  <1>6. Known /\ Downward /\ Exact
    BY <1>2 DEF Known, Downward, Exact
  <1> QED BY <1>1, <1>4, <1>5, <1>6 DEF IInv, Lists

\* What add and remove have in common: an event that is no script, and another list
\* of the root, which no command reads.
LEMMA RootStep ==
    ASSUME IInv, Careful, NEW o \in Obj, RootAdd(o) \/ RootRemove(o)
    PROVE  Behind' /\ Attached' /\ Fresh' /\ Based' /\ Exact' /\ Whole'
  <1> DEFINE L == Len(log) + 1
  <1>0. TypeOK /\ TypeOK' /\ TypeInv
    BY TypeStep DEF IInv, TypeInv, Next
  <1>1. PICK type \in {"add", "remove"} : Emit(type, {o})
    BY DEF RootAdd, RootRemove
  <1>2. PICK X \in SUBSET Obj : /\ set' = [set EXCEPT ![1] = X] /\ local' = [local EXCEPT ![1] = X]
    <2>1. set[1] = local[1] /\ set[1] \subseteq Obj
      BY <1>0, Nodes DEF IInv, Lists, Attached, TypeOK
    <2>2. CASE RootAdd(o)
      BY <2>1, <2>2 DEF RootAdd
    <2>3. CASE RootRemove(o)
      BY <2>1, <2>3 DEF RootRemove
    <2> QED BY <2>2, <2>3
  <1>3. UNCHANGED <<pos, ver, skip, cmd>> /\ ~(cmd.at = "sync" /\ cmd.node = 2)
    BY DEF RootAdd, RootRemove, Quiet
  <1>4. /\ \A n \in Node : n # 1 => set'[n] = set[n] /\ local'[n] = local[n]
        /\ set'[1] = X /\ local'[1] = X /\ 1 \in Node /\ 1 \notin Below /\ Below \subseteq Node
    BY <1>0, <1>2, Nodes DEF TypeOK
  <1>5. /\ \A n \in Node : Ahead(n)' = Ahead(n) \cup {L} /\ Ahead(n) \subseteq 1..Len(log)
        /\ \A n \in Node, t \in Obj : Pending(n, t)' = Pending(n, t)
        /\ \A i \in 1..L, t \in Obj : Scripts(i, t)' = Scripts(i, t)
    BY <1>0, <1>1, <1>3, NewEvent
  <1>6. /\ Len(log') = L /\ \A i \in 1..Len(log) : log'[i] = log[i]
        /\ log'[L].type = type /\ Len(log) \in Nat
    BY <1>0, <1>1, Emitted, Nodes
  <1>7. Behind'
    BY <1>3 DEF IInv, Lists, Behind, Below, Node
  <1>8. Attached'
    BY <1>3, <1>4 DEF IInv, Lists, Attached, Skips
  <1>9. Fresh'
    <2>1. cmd.at # "none" => cmd.node \in Below /\ cmd.from < cmd.node
      BY DEF IInv, Lists, Fresh
    <2>2. ASSUME cmd.at = "sync"
          PROVE  /\ cmd.src = set'[cmd.node - 1] /\ cmd.has = local'[cmd.node - 1]
                 /\ \A t \in local'[cmd.node] \ cmd.src : Pending(cmd.node, t)' = {}
      <3>1. cmd.node \in Below /\ cmd.node # 2 /\ cmd.node \in Nat /\ cmd.node - 1 \in Node
        BY <1>0, <1>3, <2>1, <2>2, Nodes
      <3>2. /\ set'[cmd.node - 1] = set[cmd.node - 1] /\ local'[cmd.node - 1] = local[cmd.node - 1]
            /\ local'[cmd.node] = local[cmd.node] /\ local[cmd.node] \subseteq Obj
        <4>1. cmd.node - 1 # 1 /\ cmd.node # 1 /\ cmd.node \in Node
          BY <1>4, <3>1
        <4> QED BY <1>0, <1>4, <3>1, <4>1 DEF TypeOK
      <3>3. /\ cmd.src = set[cmd.node - 1] /\ cmd.has = local[cmd.node - 1]
            /\ \A t \in local[cmd.node] \ cmd.src : Pending(cmd.node, t) = {}
        BY <2>2 DEF IInv, Lists, Fresh
      <3>4. cmd' = cmd /\ cmd.node \in Node
        BY <1>3, <1>4, <3>1
      <3> QED BY <1>5, <3>2, <3>3, <3>4
    <2> QED BY <1>3, <2>1, <2>2 DEF Fresh
  <1>10. Based'
    <2> SUFFICES ASSUME NEW i \in 1..L, log'[i].type = "execute", NEW t \in log'[i].objs
                 PROVE  log'[i].base[t] + Cardinality(Scripts(i, t)') = ver[1][t]
      BY <1>3, <1>6 DEF Based
    <2>1. i \in 1..Len(log) /\ log'[i] = log[i]
      BY <1>6
    <2>2. t \in Obj
      BY <1>0, <2>1, Events, Nodes
    <2> QED BY <1>5, <2>1, <2>2 DEF IInv, Based
  <1>11. Exact'
    <2> SUFFICES ASSUME NEW n \in Below, NEW t \in Table, t \in local'[n]
                 PROVE  ver'[n][t] + Cardinality(Pending(n, t)') = ver'[1][t]
      BY DEF Exact
    <2>1. t \in Obj /\ n \in Node /\ t \in local[n]
      BY <1>4 DEF Obj
    <2> QED BY <1>3, <1>5, <2>1 DEF IInv, Exact
  <1>12. Whole'
    <2> SUFFICES ASSUME NEW n \in Below, NEW i \in Ahead(n)', log'[i].type = "execute"
                 PROVE  ~Partial(log'[i].objs, local'[n])
      BY DEF Whole, Partial
    <2>1. i \in Ahead(n) /\ log'[i] = log[i] /\ local'[n] = local[n]
      BY <1>4, <1>5, <1>6
    <2> QED BY <2>1 DEF IInv, Whole
  <1> QED BY <1>7, <1>8, <1>9, <1>10, <1>11, <1>12

\* The root adds an object of which no node has anything still to hear.
LEMMA AddStep ==
    ASSUME IInv, Careful, NEW o \in Obj, RootAdd(o)
    PROVE  Ordered' /\ Coming' /\ Known' /\ Downward'
  <1> DEFINE L == Len(log) + 1
  <1>0. TypeOK /\ TypeOK' /\ TypeInv
    BY TypeStep DEF IInv, TypeInv, Next
  <1>1. /\ Emit("add", {o}) /\ UNCHANGED <<pos, skip>> /\ o \notin set[1]
        /\ \A n \in Below : \A i \in Ahead(n) : o \notin log[i].objs
    BY DEF RootAdd, Ahead
  <1>2. /\ \A n \in Node : n # 1 => set'[n] = set[n]
        /\ set'[1] = set[1] \cup {o} /\ 1 \in Node /\ 1 \notin Below /\ Below \subseteq Node
    BY <1>0, Nodes DEF TypeOK, RootAdd
  <1>3. \A n \in Node : Ahead(n)' = Ahead(n) \cup {L} /\ Ahead(n) \subseteq 1..Len(log)
    BY <1>0, <1>1, NewEvent
  <1>4. /\ Len(log') = L /\ \A i \in 1..Len(log) : log'[i] = log[i]
        /\ log'[L].type = "add" /\ log'[L].objs = {o} /\ Len(log) \in Nat
    BY <1>0, <1>1, Emitted, Nodes
  <1>5. Ordered'
    <2> SUFFICES ASSUME NEW i \in 1..L, NEW j \in 1..(i - 1), NEW x \in log'[i].objs \cap log'[j].objs,
                        log'[i].type = "add" \/ log'[j].type = "remove", NEW m \in Below
                 PROVE  j <= pos[m]
      BY <1>1, <1>4 DEF Ordered
    <2>1. CASE i = L
      <3>1. j \in 1..Len(log) /\ o \in log[j].objs
        BY <1>4, <2>1
      <3>2. j \notin Ahead(m) /\ pos[m] \in Nat
        BY <1>0, <1>1, <3>1, Nodes
      <3> QED BY <3>1, <3>2, <1>4 DEF Ahead
    <2>2. CASE i # L
      <3>1. i \in 1..Len(log) /\ j \in 1..Len(log)
        BY <1>4, <2>2
      <3> QED BY <3>1, <1>4 DEF IInv, Lists, Ordered
    <2> QED BY <2>1, <2>2
  <1>6. Coming'
    <2> SUFFICES ASSUME NEW n \in Below, NEW i \in Ahead(n)', NEW x \in log'[i].objs
                 PROVE  /\ log'[i].type = "remove" => x \notin set'[1]
                        /\ log'[i].type = "add" =>
                             x \in set'[1] \/ \E j \in (i + 1)..L : /\ log'[j].type = "remove"
                                                                    /\ x \in log'[j].objs
      BY <1>4 DEF Coming
    <2>1. CASE i = L
      BY <1>2, <1>4, <2>1
    <2>2. CASE i # L
      <3>1. i \in Ahead(n) /\ i \in 1..Len(log) /\ log'[i] = log[i]
        BY <1>2, <1>3, <1>4, <2>2
      <3>2. x # o
        BY <1>1, <3>1
      <3>3. \A j \in (i + 1)..Len(log) : j \in 1..Len(log) /\ j \in (i + 1)..L
        BY <1>4, <3>1
      <3> QED BY <1>2, <1>4, <3>1, <3>2, <3>3 DEF IInv, Lists, Coming
    <2> QED BY <2>1, <2>2
  <1>7. Known'
    <2> SUFFICES ASSUME NEW n \in Below, NEW x \in Obj, Settled(n, x)'
                 PROVE  /\ x \in set'[n] => x \in set'[1]
                        /\ x \in set'[n - 1] /\ ~Skips(n, x) => x \in set'[n]
                        /\ x \in set'[1] /\ Free(n, x) => x \in set'[n]
      BY <1>1 DEF Known, Free, Skips
    <2>1. Settled(n, x) /\ x # o
      BY <1>2, <1>3, <1>4 DEF Settled
    <2>2. \A m \in Node : x \in set'[m] <=> x \in set[m]
      BY <1>2, <2>1
    <2>3. n \in Node /\ n - 1 \in Node
      BY <1>0, Nodes
    <2> QED BY <1>2, <2>1, <2>2, <2>3 DEF IInv, Lists, Known
  <1>8. Downward'
    <2> SUFFICES ASSUME NEW n \in Below, NEW x \in Obj, x \in set'[n], x \in set'[1],
                        Free(n - 1, x)
                 PROVE  x \in set'[n - 1]
      BY <1>1 DEF Downward, Free, Skips
    <2>1. n \in Node /\ n - 1 \in Node /\ set'[n] = set[n]
      BY <1>0, <1>2, Nodes
    <2>2. CASE x = o
      BY <1>1, <2>1, <2>2 DEF IInv, Lists, Known, Settled
    <2>3. CASE x # o
      BY <1>2, <2>1, <2>3 DEF IInv, Lists, Downward
    <2> QED BY <2>2, <2>3
  <1> QED BY <1>5, <1>6, <1>7, <1>8

\* The root removes an object, of which no removal is on its way.
LEMMA RemoveStep ==
    ASSUME IInv, Careful, NEW o \in Obj, RootRemove(o)
    PROVE  Ordered' /\ Coming' /\ Known' /\ Downward'
  <1> DEFINE L == Len(log) + 1
  <1>0. TypeOK /\ TypeOK' /\ TypeInv
    BY TypeStep DEF IInv, TypeInv, Next
  <1>1. Emit("remove", {o}) /\ UNCHANGED <<pos, skip>> /\ o \in set[1]
    BY DEF RootRemove, IInv, Lists, Attached
  <1>2. /\ \A n \in Node : n # 1 => set'[n] = set[n]
        /\ set'[1] = set[1] \ {o} /\ 1 \in Node /\ 1 \notin Below /\ Below \subseteq Node
    BY <1>0, Nodes DEF TypeOK, RootRemove
  <1>3. \A n \in Node : Ahead(n)' = Ahead(n) \cup {L} /\ Ahead(n) \subseteq 1..Len(log)
    BY <1>0, <1>1, NewEvent
  <1>4. /\ Len(log') = L /\ \A i \in 1..Len(log) : log'[i] = log[i]
        /\ log'[L].type = "remove" /\ log'[L].objs = {o} /\ Len(log) \in Nat
    BY <1>0, <1>1, Emitted, Nodes
  <1>5. Ordered'
    <2> SUFFICES ASSUME NEW i \in 1..L, NEW j \in 1..(i - 1), NEW x \in log'[i].objs \cap log'[j].objs,
                        log'[i].type = "add" \/ log'[j].type = "remove", NEW m \in Below
                 PROVE  j <= pos[m]
      BY <1>1, <1>4 DEF Ordered
    <2>1. CASE i = L
      <3>1. j \in 1..Len(log) /\ o \in log[j].objs /\ log[j].type = "remove"
        BY <1>4, <2>1
      <3>2. j \notin Ahead(m) /\ pos[m] \in Nat
        BY <1>0, <1>1, <1>2, <3>1, Nodes DEF IInv, Lists, Coming
      <3> QED BY <3>1, <3>2, <1>4 DEF Ahead
    <2>2. CASE i # L
      <3>1. i \in 1..Len(log) /\ j \in 1..Len(log)
        BY <1>4, <2>2
      <3> QED BY <3>1, <1>4 DEF IInv, Lists, Ordered
    <2> QED BY <2>1, <2>2
  <1>6. Coming'
    <2> SUFFICES ASSUME NEW n \in Below, NEW i \in Ahead(n)', NEW x \in log'[i].objs
                 PROVE  /\ log'[i].type = "remove" => x \notin set'[1]
                        /\ log'[i].type = "add" =>
                             x \in set'[1] \/ \E j \in (i + 1)..L : /\ log'[j].type = "remove"
                                                                    /\ x \in log'[j].objs
      BY <1>4 DEF Coming
    <2>1. CASE i = L
      BY <1>2, <1>4, <2>1
    <2>2. CASE i # L
      <3>1. i \in Ahead(n) /\ i \in 1..Len(log) /\ log'[i] = log[i]
        BY <1>2, <1>3, <1>4, <2>2
      <3>2. L \in (i + 1)..L /\ \A j \in (i + 1)..Len(log) : j \in 1..Len(log) /\ j \in (i + 1)..L
        BY <1>4, <3>1
      <3> QED BY <1>2, <1>4, <3>1, <3>2 DEF IInv, Lists, Coming
    <2> QED BY <2>1, <2>2
  <1>7. Known'
    <2> SUFFICES ASSUME NEW n \in Below, NEW x \in Obj, Settled(n, x)'
                 PROVE  /\ x \in set'[n] => x \in set'[1]
                        /\ x \in set'[n - 1] /\ ~Skips(n, x) => x \in set'[n]
                        /\ x \in set'[1] /\ Free(n, x) => x \in set'[n]
      BY <1>1 DEF Known, Free, Skips
    <2>1. Settled(n, x) /\ x # o
      BY <1>2, <1>3, <1>4 DEF Settled
    <2>2. \A m \in Node : x \in set'[m] <=> x \in set[m]
      BY <1>2, <2>1
    <2>3. n \in Node /\ n - 1 \in Node
      BY <1>0, Nodes
    <2> QED BY <1>2, <2>1, <2>2, <2>3 DEF IInv, Lists, Known
  <1>8. Downward'
    <2> SUFFICES ASSUME NEW n \in Below, NEW x \in Obj, x \in set'[n], x \in set'[1],
                        Free(n - 1, x)
                 PROVE  x \in set'[n - 1]
      BY <1>1 DEF Downward, Free, Skips
    <2>1. n \in Node /\ n - 1 \in Node /\ set'[n] = set[n]
      BY <1>0, <1>2, Nodes
    <2> QED BY <1>2, <2>1 DEF IInv, Lists, Downward
  <1> QED BY <1>5, <1>6, <1>7, <1>8

\* A script that the careful administrator queues waits on every node, where its
\* tables are all attached or none is.
LEMMA ExecuteStep ==
    ASSUME IInv, Careful, NEW S \in SUBSET Table, Execute(S)
    PROVE  Lists' /\ Based' /\ Exact' /\ Whole'
  <1> DEFINE L == Len(log) + 1
  <1>0. TypeOK /\ TypeOK' /\ TypeInv
    BY TypeStep DEF IInv, TypeInv, Next
  <1>1. /\ Emit("execute", S) /\ UNCHANGED <<pos, set, local, skip, cmd>> /\ S \subseteq local[1]
        /\ S \subseteq set[1] /\ S \in SUBSET Obj /\ S \cap Going = {}
        /\ \A n \in Below : ~Partial(S, local[n])
    BY DEF Execute, Ready, IInv, Lists, Attached, Obj
  <1>2. /\ \A n \in Node : n # 1 => ver'[n] = ver[n]
        /\ \A o \in Obj : /\ ver'[1][o] = IF o \in S THEN ver[1][o] + 1 ELSE ver[1][o]
                          /\ ver[1][o] \in Nat
        /\ 1 \in Node /\ 1 \notin Below /\ Below \subseteq Node
    BY <1>0, <1>1, Nodes DEF TypeOK, Execute, NeedExecute
  <1>3. /\ \A n \in Node : Ahead(n)' = Ahead(n) \cup {L} /\ Ahead(n) \subseteq 1..Len(log)
        /\ \A n \in Node, t \in Obj :
             Pending(n, t)' = IF t \in S THEN Pending(n, t) \cup {L} ELSE Pending(n, t)
        /\ \A i \in 1..L, t \in Obj :
             Scripts(i, t)' = IF t \in S THEN Scripts(i, t) \cup {L} ELSE Scripts(i, t)
    BY <1>0, <1>1, NewEvent
  <1>4. /\ Len(log') = L /\ \A i \in 1..Len(log) : log'[i] = log[i]
        /\ log'[L].type = "execute" /\ log'[L].objs = S /\ log'[L].base = ver[1] /\ Len(log) \in Nat
    BY <1>0, <1>1, Emitted, Nodes
  <1>5. Behind' /\ Attached' /\ Downward'
    BY <1>1 DEF IInv, Lists, Behind, Attached, Downward, Free, Skips, Below, Node
  <1>6. Fresh'
    <2>1. ASSUME cmd.at = "sync", NEW t \in local[cmd.node] \ cmd.src
          PROVE  Pending(cmd.node, t)' = {}
      <3>1. cmd.node \in Below /\ cmd.src = set[cmd.node - 1] /\ Pending(cmd.node, t) = {}
        BY <2>1 DEF IInv, Lists, Fresh
      <3>2. cmd.node \in Node /\ t \in set[cmd.node] /\ t \in Obj
        BY <1>0, <1>2, <2>1, <3>1 DEF IInv, Lists, Attached, TypeOK
      <3>3. t \notin S
        BY <1>1, <2>1 DEF Going
      <3> QED BY <1>1, <1>3, <3>1, <3>2, <3>3
    <2> QED BY <1>1, <2>1 DEF IInv, Lists, Fresh
  <1>7. Ordered'
    <2> SUFFICES ASSUME NEW i \in 1..L, NEW j \in 1..(i - 1), NEW x \in log'[i].objs \cap log'[j].objs,
                        log'[i].type = "add" \/ log'[j].type = "remove", NEW m \in Below
                 PROVE  j <= pos[m]
      BY <1>1, <1>4 DEF Ordered
    <2>1. CASE i = L
      <3>1. j \in 1..Len(log) /\ x \in S /\ x \in log[j].objs /\ log[j].type = "remove"
        BY <1>4, <2>1
      <3>2. j \notin Ahead(m) /\ pos[m] \in Nat
        BY <1>0, <1>1, <1>2, <3>1, Nodes DEF IInv, Lists, Coming
      <3> QED BY <3>1, <3>2, <1>4 DEF Ahead
    <2>2. CASE i # L
      <3>1. i \in 1..Len(log) /\ j \in 1..Len(log)
        BY <1>4, <2>2
      <3> QED BY <3>1, <1>4 DEF IInv, Lists, Ordered
    <2> QED BY <2>1, <2>2
  <1>8. Coming'
    <2> SUFFICES ASSUME NEW n \in Below, NEW i \in Ahead(n)', NEW x \in log'[i].objs
                 PROVE  /\ log'[i].type = "remove" => x \notin set[1]
                        /\ log'[i].type = "add" =>
                             x \in set[1] \/ \E j \in (i + 1)..L : /\ log'[j].type = "remove"
                                                                   /\ x \in log'[j].objs
      BY <1>1, <1>4 DEF Coming
    <2>1. CASE i = L
      BY <1>4, <2>1
    <2>2. CASE i # L
      <3>1. i \in Ahead(n) /\ i \in 1..Len(log) /\ log'[i] = log[i]
        BY <1>2, <1>3, <1>4, <2>2
      <3>2. \A j \in (i + 1)..Len(log) : j \in 1..Len(log) /\ j \in (i + 1)..L
        BY <1>4, <3>1
      <3> QED BY <1>4, <3>1, <3>2 DEF IInv, Lists, Coming
    <2> QED BY <2>1, <2>2
  <1>9. Known'
    <2>1. \A n \in Below, x \in Obj : Settled(n, x)' => Settled(n, x)
      BY <1>2, <1>3, <1>4 DEF Settled
    <2> QED BY <1>1, <2>1 DEF IInv, Lists, Known, Free, Skips
  <1>10. Based'
    <2> SUFFICES ASSUME NEW i \in 1..L, log'[i].type = "execute", NEW t \in log'[i].objs
                 PROVE  log'[i].base[t] + Cardinality(Scripts(i, t)') = ver'[1][t]
      BY <1>4 DEF Based
    <2>1. CASE i = L
      <3>1. Scripts(i, t) = {}
        BY <2>1, <1>4 DEF Scripts
      <3>2. t \in S /\ t \in Obj
        BY <1>1, <1>4, <2>1
      <3>3. Scripts(i, t)' = {L}
        BY <1>3, <3>1, <3>2
      <3>4. Cardinality(Scripts(i, t)') = 1
        BY <3>3, FS_Singleton
      <3> QED BY <1>2, <1>4, <2>1, <3>2, <3>4
    <2>2. CASE i # L
      <3>1. i \in 1..Len(log) /\ log'[i] = log[i]
        BY <1>4, <2>2
      <3>2. t \in Obj /\ log[i].base[t] \in Nat
        BY <1>0, <3>1, Events, Nodes
      <3>3. IsFiniteSet(Scripts(i, t)) /\ Cardinality(Scripts(i, t)) \in Nat /\ L \notin Scripts(i, t)
        <4>1. i \in 1..(Len(log) + 1) /\ L \notin i..Len(log)
          BY <3>1, <1>4
        <4>2. Scripts(i, t) \subseteq i..Len(log)
          BY DEF Scripts
        <4> QED BY <1>0, <4>1, <4>2, Counted
      <3>4. log[i].base[t] + Cardinality(Scripts(i, t)) = ver[1][t]
        BY <3>1 DEF IInv, Based
      <3>5. Cardinality(Scripts(i, t) \cup {L}) = Cardinality(Scripts(i, t)) + 1
        BY <3>3, FS_AddElement
      <3>6. CASE t \in S
        <4>1. Scripts(i, t)' = Scripts(i, t) \cup {L} /\ ver'[1][t] = ver[1][t] + 1
          BY <1>2, <1>3, <3>1, <3>2, <3>6
        <4>2. Cardinality(Scripts(i, t)') = Cardinality(Scripts(i, t)) + 1
          BY <4>1, <3>5
        <4>3. log'[i].base[t] = log[i].base[t] /\ ver[1][t] \in Nat
          BY <1>2, <3>1, <3>2
        <4> HIDE DEF L
        <4>4. \A a, c, v \in Nat : a + c = v => a + (c + 1) = v + 1
          OBVIOUS
        <4>5. log[i].base[t] + (Cardinality(Scripts(i, t)) + 1) = ver[1][t] + 1
          BY <4>3, <4>4, <3>2, <3>3, <3>4
        <4> QED BY <4>1, <4>2, <4>3, <4>5
      <3>7. CASE t \notin S
        <4>1. Scripts(i, t)' = Scripts(i, t) /\ ver'[1][t] = ver[1][t]
          BY <1>2, <1>3, <3>1, <3>2, <3>7
        <4> QED BY <4>1, <3>1, <3>4
      <3> QED BY <3>6, <3>7
    <2> QED BY <2>1, <2>2
  <1>11. Exact'
    <2> SUFFICES ASSUME NEW n \in Below, NEW t \in Table, t \in local[n]
                 PROVE  ver'[n][t] + Cardinality(Pending(n, t)') = ver'[1][t]
      BY <1>1 DEF Exact
    <2>1. t \in Obj /\ n \in Node /\ n # 1 /\ ver'[n] = ver[n] /\ ver[n][t] \in Nat
      <3>1. t \in Obj /\ n \in Node /\ n # 1
        BY <1>2 DEF Obj
      <3>2. ver[n] \in [Obj -> 0..(MaxEvent + 1)]
        BY <1>0, <3>1 DEF TypeOK
      <3> QED BY <1>2, <3>1, <3>2
    <2>2. IsFiniteSet(Pending(n, t)) /\ Cardinality(Pending(n, t)) \in Nat /\ L \notin Pending(n, t)
      <3>1. L \notin (pos[n] + 1)..Len(log)
        BY <1>4
      <3>2. Pending(n, t) \subseteq (pos[n] + 1)..Len(log)
        BY DEF Pending
      <3> QED BY <1>0, <2>1, <3>1, <3>2, Counted
    <2>3. Cardinality(Pending(n, t) \cup {L}) = Cardinality(Pending(n, t)) + 1
      BY <2>2, FS_AddElement
    <2>4. ver[n][t] + Cardinality(Pending(n, t)) = ver[1][t]
      BY DEF IInv, Exact
    <2>5. CASE t \in S
      <3>1. Pending(n, t)' = Pending(n, t) \cup {L} /\ ver'[1][t] = ver[1][t] + 1
        BY <1>2, <1>3, <2>1, <2>5
      <3>2. ver[n][t] + (Cardinality(Pending(n, t)) + 1) = ver[1][t] + 1
        BY <2>1, <2>2, <2>4
      <3> QED BY <3>1, <3>2, <2>1, <2>3
    <2>6. CASE t \notin S
      <3>1. Pending(n, t)' = Pending(n, t) /\ ver'[1][t] = ver[1][t]
        BY <1>2, <1>3, <2>1, <2>6
      <3> QED BY <3>1, <2>1, <2>4
    <2> QED BY <2>5, <2>6
  <1>12. Whole'
    <2> SUFFICES ASSUME NEW n \in Below, NEW i \in Ahead(n)', log'[i].type = "execute"
                 PROVE  ~Partial(log'[i].objs, local[n])
      BY <1>1 DEF Whole, Partial
    <2>1. CASE i = L
      BY <1>1, <1>4, <2>1
    <2>2. CASE i # L
      <3>1. i \in Ahead(n) /\ log'[i] = log[i]
        BY <1>2, <1>3, <1>4, <2>2
      <3> QED BY <3>1 DEF IInv, Whole
    <2> QED BY <2>1, <2>2
  <1> QED BY <1>5, <1>6, <1>7, <1>8, <1>9, <1>10, <1>11, <1>12 DEF Lists

-----------------------------------------------------------------------------
(* A worker's step. *)

\* What a worker's three kinds of event have in common: they attach nothing, and no
\* command reads the lists they change.
LEMMA WorkerStep ==
    ASSUME IInv, Careful, NEW n \in Below, Worker(n)
    PROVE  /\ Behind' /\ Fresh' /\ Ordered' /\ Coming' /\ Based'
           /\ UNCHANGED <<log, skip, cmd>> /\ log[pos[n] + 1] \in Event
           /\ \A m \in Node : m # n => set'[m] = set[m] /\ local'[m] = local[m] /\ ver'[m] = ver[m]
  <1> DEFINE p == pos[n] + 1
             e == log[p]
  <1>0. TypeOK /\ TypeInv
    BY DEF IInv, TypeInv
  <1>1. /\ p \in Ahead(n) /\ p \in 1..Len(log) /\ pos'[n] = p /\ UNCHANGED <<log, skip, cmd>>
        /\ n - 1 \in Below => p <= pos[n - 1]
        /\ \A m \in Node : m # n => pos'[m] = pos[m] /\ Ahead(m)' = Ahead(m)
        /\ Ahead(n)' = Ahead(n) \ {p}
        /\ \A m \in Node : \A t : Pending(m, t)' = IF m = n THEN Pending(m, t) \ {p} ELSE Pending(m, t)
        /\ \A i, t : Scripts(i, t)' = Scripts(i, t)
    BY <1>0, NextEvent
  <1>2. /\ n \in Node /\ n >= 2 /\ n \in Nat /\ 1 \in Node /\ Below \subseteq Node /\ Node \subseteq Nat
        /\ \A m \in Node : pos[m] \in Nat
    BY <1>0, Nodes
  <1>3. \E X, Y : /\ set' = [set EXCEPT ![n] = Y] /\ local' = [local EXCEPT ![n] = X]
                  /\ X \subseteq local[n]
    <2>1. CASE e.type = "add" /\ AddSet(n, e.objs) /\ UNCHANGED <<local, ver>>
      <3>1. local' = [local EXCEPT ![n] = local[n]]
        BY <1>0, <1>2, <2>1 DEF TypeOK
      <3> QED BY <2>1, <3>1 DEF AddSet
    <2>2. CASE e.type = "remove" /\ RemoveSet(n, e.objs) /\ UNCHANGED ver
      BY <2>2 DEF RemoveSet
    <2>3. CASE e.type = "execute" /\ RunScript(n, e) /\ UNCHANGED <<set, local>>
      <3>1. set' = [set EXCEPT ![n] = set[n]] /\ local' = [local EXCEPT ![n] = local[n]]
        BY <1>0, <1>2, <2>3 DEF TypeOK
      <3> QED BY <3>1
    <2> QED BY <2>1, <2>2, <2>3 DEF Worker
  <1>4. /\ \A m \in Node : m # n => set'[m] = set[m] /\ local'[m] = local[m]
        /\ local'[n] \subseteq local[n]
    BY <1>0, <1>2, <1>3 DEF TypeOK
  <1>5. \A m \in Node : m # n => ver'[m] = ver[m]
    <2>1. CASE ver' = ver
      BY <2>1
    <2>2. CASE ver' # ver
      <3>1. RunScript(n, e)
        BY <2>2 DEF Worker
      <3>2. \E V : ver' = [ver EXCEPT ![n] = V]
        BY <2>2, <3>1 DEF RunScript
      <3> QED BY <1>0, <3>2 DEF TypeOK
    <2> QED BY <2>1, <2>2
  <1>6. set'[1] = set[1] /\ ver'[1] = ver[1]
    BY <1>2, <1>4, <1>5
  <1>7. Behind'
    <2> SUFFICES ASSUME NEW k \in Below, NEW m \in Below, k <= m PROVE pos'[m] <= pos'[k]
      BY DEF Behind
    <2>1. pos[m] <= pos[k] /\ pos[m] \in Nat /\ pos[k] \in Nat /\ k \in Node /\ m \in Node
      BY <1>2 DEF IInv, Lists, Behind
    <2>2. CASE m # n
      BY <1>1, <1>2, <2>1, <2>2
    <2>3. CASE m = n /\ k = n
      BY <2>3, <1>1, <1>2
    <2>4. CASE m = n /\ k # n
      <3>1. k \in Nat /\ k >= 2 /\ k <= n - 1 /\ n - 1 \in Below
        BY <1>0, <2>4, Nodes
      <3>2. pos[n - 1] <= pos[k] /\ pos[n - 1] \in Nat /\ p <= pos[n - 1]
        BY <1>1, <1>2, <3>1 DEF IInv, Lists, Behind
      <3> QED BY <1>1, <1>2, <2>1, <2>4, <3>2
    <2> QED BY <2>2, <2>3, <2>4
  <1>8. Fresh'
    <2>1. ASSUME cmd.at = "sync"
          PROVE  /\ cmd.src = set'[cmd.node - 1] /\ cmd.has = local'[cmd.node - 1]
                 /\ \A t \in local'[cmd.node] \ cmd.src : Pending(cmd.node, t)' = {}
      <3>1. /\ cmd.node \in Below /\ cmd.node \in Node /\ cmd.node # n + 1
            /\ cmd.node - 1 \in Node /\ cmd.node \in Nat
        BY <1>0, <2>1, Nodes DEF IInv, Lists, Fresh, Worker, Quiet
      <3>2. /\ set'[cmd.node - 1] = set[cmd.node - 1] /\ local'[cmd.node - 1] = local[cmd.node - 1]
            /\ local'[cmd.node] \subseteq local[cmd.node]
        <4>1. cmd.node - 1 # n
          BY <1>2, <3>1
        <4> QED BY <1>4, <3>1, <4>1
      <3>3. /\ cmd.src = set[cmd.node - 1] /\ cmd.has = local[cmd.node - 1]
            /\ \A t \in local[cmd.node] \ cmd.src : Pending(cmd.node, t) = {}
        BY <2>1 DEF IInv, Lists, Fresh
      <3> QED BY <1>1, <3>1, <3>2, <3>3
    <2> QED BY <1>1, <2>1 DEF IInv, Lists, Fresh
  <1>9. Ordered'
    <2> SUFFICES ASSUME NEW i \in 1..Len(log), NEW j \in 1..(i - 1),
                        NEW o \in log[i].objs \cap log[j].objs,
                        log[i].type = "add" \/ log[j].type = "remove", NEW m \in Below
                 PROVE  j <= pos'[m]
      BY <1>1 DEF Ordered
    <2>1. j <= pos[m]
      BY DEF IInv, Lists, Ordered
    <2>2. m \in Node /\ pos'[m] \in Nat /\ pos[m] \in Nat /\ pos[m] <= pos'[m] /\ j \in Int
      BY <1>1, <1>2
    <2> QED BY <2>1, <2>2
  <1>10. Coming'
    <2>1. \A m \in Below : Ahead(m)' \subseteq Ahead(m)
      BY <1>1, <1>2
    <2> QED BY <1>1, <1>6, <2>1 DEF IInv, Lists, Coming
  <1>11. Based'
    BY <1>1, <1>6 DEF IInv, Based
  <1>12. e \in Event
    BY <1>0, <1>1, Nodes
  <1> QED BY <1>1, <1>4, <1>5, <1>7, <1>8, <1>9, <1>10, <1>11, <1>12

\* An object that the next event of node n adds, and the root has, is settled above.
LEMMA AddedAbove ==
    ASSUME IInv, NEW n \in Below, Worker(n), n - 1 \in Below,
           log[pos[n] + 1].type = "add", NEW o \in log[pos[n] + 1].objs, o \in set[1],
           Free(n - 1, o)
    PROVE  o \in set[n - 1]
  <1> DEFINE p == pos[n] + 1
  <1>0. TypeOK
    BY DEF IInv, TypeInv
  <1>1. p \in 1..Len(log) /\ p <= pos[n - 1]
    BY <1>0, NextEvent
  <1>2. /\ pos[n] \in Nat /\ pos[n - 1] \in Nat /\ n - 1 < Depth /\ n - 1 \in Node /\ o \in Obj
        /\ Len(log) \in Nat
    BY <1>0, <1>1, Nodes, Events
  <1>3. Settled(n - 1, o)
    <2> SUFFICES ASSUME NEW i \in Ahead(n - 1), o \in log[i].objs PROVE log[i].type = "execute"
      BY DEF Settled
    <2>1. i \in 1..Len(log) /\ p \in 1..(i - 1) /\ log[i] \in Event
      BY <1>0, <1>1, <1>2, Nodes DEF Ahead
    <2>2. log[i].type # "add"
      <3>1. SUFFICES ASSUME log[i].type = "add" PROVE p <= pos[n]
        BY <1>2
      <3> QED BY <2>1, <3>1 DEF IInv, Lists, Ordered
    <2>3. log[i].type # "remove"
      BY <2>1 DEF IInv, Lists, Coming
    <2> QED BY <2>1, <2>2, <2>3, Events
  <1> QED BY <1>2, <1>3 DEF IInv, Lists, Known

\* The worker adds what the root has added.
LEMMA WorkerAdds ==
    ASSUME IInv, Careful, NEW n \in Below, Worker(n), log[pos[n] + 1].type = "add"
    PROVE  Attached' /\ Known' /\ Downward' /\ Exact' /\ Whole'
  <1> DEFINE p == pos[n] + 1
             e == log[p]
  <1>0. TypeOK /\ TypeInv
    BY DEF IInv, TypeInv
  <1>1. /\ p \in Ahead(n) /\ p \in 1..Len(log)
        /\ \A m \in Node : m # n => Ahead(m)' = Ahead(m)
        /\ Ahead(n)' = Ahead(n) \ {p} /\ \A i \in Ahead(n)' : i > p
        /\ \A m \in Node : \A t : Pending(m, t)' = IF m = n THEN Pending(m, t) \ {p} ELSE Pending(m, t)
    BY <1>0, NextEvent
  <1>2. /\ UNCHANGED <<log, skip, cmd, local, ver>> /\ e \in Event
        /\ \A m \in Node : m # n => set'[m] = set[m]
        /\ set'[n] = set[n] \cup {o \in e.objs : ~Skips(n, o)}
    <2>1. AddSet(n, e.objs) /\ UNCHANGED <<local, ver>>
      BY DEF Worker
    <2>2. n \in Node
      BY <1>0, Nodes
    <2> QED BY <1>0, <2>1, <2>2, WorkerStep DEF AddSet, TypeOK
  <1>3. n \in Node /\ n # 1 /\ 1 \in Node /\ Below \subseteq Node /\ set'[1] = set[1]
    BY <1>0, <1>2, Nodes
  <1>4. Attached'
    BY <1>2, <1>3 DEF IInv, Lists, Attached, Skips
  <1>5. Known'
    <2> SUFFICES ASSUME NEW m \in Below, NEW x \in Obj, Settled(m, x)'
                 PROVE  /\ x \in set'[m] => x \in set[1]
                        /\ x \in set'[m - 1] /\ ~Skips(m, x) => x \in set'[m]
                        /\ x \in set[1] /\ Free(m, x) => x \in set'[m]
      BY <1>2, <1>3 DEF Known, Free, Skips
    <2>0. m \in Node /\ m - 1 \in Node /\ m \in Nat /\ n \in Nat
      BY <1>0, <1>3, Nodes
    <2>1. CASE m # n \/ x \notin e.objs
      <3>1. Settled(m, x)
        BY <1>1, <1>2, <1>3, <2>1 DEF Settled
      <3>2. x \in set'[m] <=> x \in set[m]
        BY <1>2, <1>3, <2>1
      <3>3. m - 1 = n => x \notin e.objs
        <4>1. ASSUME m - 1 = n PROVE p \in Ahead(m)
          <5>1. n <= m /\ pos[m] <= pos[n] /\ pos[n] \in Nat /\ pos[m] \in Nat /\ Len(log) \in Nat
            BY <1>0, <1>3, <2>0, <4>1, Nodes DEF IInv, Lists, Behind
          <5> QED BY <1>1, <5>1 DEF Ahead
        <4> QED BY <3>1, <4>1 DEF Settled
      <3>4. x \in set'[m - 1] => x \in set[m - 1]
        BY <1>2, <2>0, <3>3
      <3> QED BY <3>1, <3>2, <3>4 DEF IInv, Lists, Known
    <2>2. CASE m = n /\ x \in e.objs
      <3>1. x \in set[1]
        <4>1. ASSUME NEW j \in (p + 1)..Len(log), log[j].type = "remove" /\ x \in log[j].objs
              PROVE  FALSE
          <5>1. pos[n] \in Nat /\ Len(log) \in Nat
            BY <1>0, <1>3, Nodes
          <5>2. j \in Ahead(n)'
            BY <1>1, <5>1 DEF Ahead
          <5> QED BY <1>2, <2>2, <4>1, <5>2 DEF Settled
        <4> QED BY <1>1, <2>2, <4>1 DEF IInv, Lists, Coming
      <3>2. Free(n, x) => ~Skips(n, x)
        BY <2>0 DEF Free
      <3> QED BY <1>2, <2>2, <3>1, <3>2
    <2> QED BY <2>1, <2>2
  <1>6. Downward'
    <2> SUFFICES ASSUME NEW m \in Below, NEW x \in Obj, x \in set'[m], x \in set[1],
                        Free(m - 1, x)
                 PROVE  x \in set'[m - 1]
      BY <1>2, <1>3 DEF Downward, Free, Skips
    <2>1. m \in Node /\ m - 1 \in Node /\ m \in Nat /\ n \in Nat /\ (m - 1 = 1 \/ m - 1 \in Below)
      BY <1>0, <1>3, Nodes
    <2>2. set[m - 1] \subseteq set'[m - 1]
      BY <1>2, <2>1
    <2>3. CASE x \in set[m]
      BY <2>2, <2>3 DEF IInv, Lists, Downward
    <2>4. CASE x \notin set[m]
      <3>1. m = n /\ x \in e.objs
        BY <1>2, <1>3, <2>4
      <3>2. m - 1 \in Below => x \in set[m - 1]
        BY <3>1, AddedAbove
      <3> QED BY <1>3, <2>1, <2>2, <3>2
    <2> QED BY <2>3, <2>4
  <1>7. Exact'
    <2>1. \A m \in Below : \A t : Pending(m, t)' = Pending(m, t)
      BY <1>1, <1>3 DEF Pending
    <2> QED BY <1>2, <2>1 DEF IInv, Exact
  <1>8. Whole'
    <2>1. \A m \in Below : Ahead(m)' \subseteq Ahead(m)
      BY <1>1, <1>3
    <2> QED BY <1>2, <2>1 DEF IInv, Whole, Partial
  <1> QED BY <1>4, <1>5, <1>6, <1>7, <1>8

\* The worker removes, and detaches, what the root has removed.
LEMMA WorkerRemoves ==
    ASSUME IInv, Careful, NEW n \in Below, Worker(n), log[pos[n] + 1].type = "remove"
    PROVE  Attached' /\ Known' /\ Downward' /\ Exact' /\ Whole'
  <1> DEFINE p == pos[n] + 1
             e == log[p]
  <1>0. TypeOK /\ TypeInv
    BY DEF IInv, TypeInv
  <1>1. /\ p \in Ahead(n) /\ p \in 1..Len(log)
        /\ \A m \in Node : m # n => Ahead(m)' = Ahead(m)
        /\ Ahead(n)' = Ahead(n) \ {p} /\ \A i \in Ahead(n)' : i > p
        /\ \A m \in Node : \A t : Pending(m, t)' = IF m = n THEN Pending(m, t) \ {p} ELSE Pending(m, t)
    BY <1>0, NextEvent
  <1>2. /\ UNCHANGED <<log, skip, cmd, ver>> /\ e \in Event
        /\ \A m \in Node : m # n => set'[m] = set[m] /\ local'[m] = local[m]
        /\ set'[n] = set[n] \ e.objs /\ local'[n] = local[n] \ e.objs
    <2>1. RemoveSet(n, e.objs) /\ UNCHANGED ver
      BY DEF Worker
    <2>2. n \in Node
      BY <1>0, Nodes
    <2> QED BY <1>0, <2>1, <2>2, WorkerStep DEF RemoveSet, TypeOK
  <1>3. /\ n \in Node /\ n # 1 /\ 1 \in Node /\ Below \subseteq Node
        /\ set'[1] = set[1] /\ local'[1] = local[1]
    BY <1>0, <1>2, Nodes
  <1>4. e.objs \cap set[1] = {}
    BY <1>1 DEF IInv, Lists, Coming
  <1>5. Attached'
    BY <1>2, <1>3 DEF IInv, Lists, Attached, Skips
  <1>6. Known'
    <2> SUFFICES ASSUME NEW m \in Below, NEW x \in Obj, Settled(m, x)'
                 PROVE  /\ x \in set'[m] => x \in set[1]
                        /\ x \in set'[m - 1] /\ ~Skips(m, x) => x \in set'[m]
                        /\ x \in set[1] /\ Free(m, x) => x \in set'[m]
      BY <1>2, <1>3 DEF Known, Free, Skips
    <2>0. m \in Node /\ m - 1 \in Node /\ m - 1 # m /\ (m - 1 = 1 \/ m - 1 \in Below)
      BY <1>0, Nodes
    <2>1. CASE m # n \/ x \notin e.objs
      <3>1. Settled(m, x)
        BY <1>1, <1>2, <1>3, <2>1 DEF Settled
      <3>2. x \in set'[m] <=> x \in set[m]
        BY <1>2, <1>3, <2>1
      <3>3. x \in set'[m - 1] => x \in set[m - 1]
        BY <1>2, <2>0
      <3> QED BY <3>1, <3>2, <3>3 DEF IInv, Lists, Known
    <2>2. CASE m = n /\ x \in e.objs
      <3>1. x \notin set'[n] /\ x \notin set[1]
        BY <1>2, <1>4, <2>2
      <3>2. ASSUME n - 1 \in Below PROVE x \notin set[n - 1]
        <4>1. /\ p \notin Ahead(n - 1) /\ Ahead(n - 1) \subseteq Ahead(n)
          <5>1. n - 1 <= n
            BY <1>0, Nodes
          <5> QED BY <1>0, <3>2, <5>1, NextEvent, Above DEF IInv, Lists
        <4>2. Settled(n - 1, x)
          BY <1>1, <1>2, <2>2, <4>1 DEF Settled
        <4> QED BY <3>1, <3>2, <4>2 DEF IInv, Lists, Known
      <3>3. x \notin set'[n - 1]
        BY <1>2, <1>3, <2>0, <2>2, <3>1, <3>2
      <3> QED BY <2>2, <3>1, <3>3
    <2> QED BY <2>1, <2>2
  <1>7. Downward'
    <2> SUFFICES ASSUME NEW m \in Below, NEW x \in Obj, x \in set'[m], x \in set[1],
                        Free(m - 1, x)
                 PROVE  x \in set'[m - 1]
      BY <1>2, <1>3 DEF Downward, Free, Skips
    <2>1. m \in Node /\ m - 1 \in Node
      BY <1>0, Nodes
    <2>2. x \in set[m] /\ x \notin e.objs
      BY <1>2, <1>4, <2>1
    <2> QED BY <1>2, <2>1, <2>2 DEF IInv, Lists, Downward
  <1>8. Exact'
    <2>1. \A m \in Below : \A t : Pending(m, t)' = Pending(m, t)
      BY <1>1, <1>3 DEF Pending
    <2>2. \A m \in Below : local'[m] \subseteq local[m]
      BY <1>2, <1>3
    <2> QED BY <1>2, <2>1, <2>2 DEF IInv, Exact
  <1>9. Whole'
    <2> SUFFICES ASSUME NEW m \in Below, NEW i \in Ahead(m)', log[i].type = "execute"
                 PROVE  ~Partial(log[i].objs, local'[m])
      BY <1>2 DEF Whole, Partial
    <2>1. ~Partial(log[i].objs, local[m])
      BY <1>1, <1>3 DEF IInv, Whole
    <2>2. CASE m # n
      BY <1>2, <1>3, <2>1, <2>2
    <2>3. CASE m = n
      <3>1. ASSUME NEW x \in log[i].objs \cap e.objs PROVE FALSE
        <4>1. /\ i \in 1..Len(log) /\ p \in 1..(i - 1) /\ pos[n] \in Nat /\ ~(p <= pos[n])
          BY <1>0, <1>1, <1>3, <2>3, Nodes DEF Ahead
        <4> QED BY <3>1, <4>1 DEF IInv, Lists, Ordered
      <3> QED BY <1>2, <2>1, <2>3, <3>1 DEF Partial
    <2> QED BY <2>2, <2>3
  <1> QED BY <1>5, <1>6, <1>7, <1>8, <1>9

\* The worker runs a script: it raises the version of all its tables, or has none.
LEMMA WorkerRuns ==
    ASSUME IInv, Careful, NEW n \in Below, Worker(n), log[pos[n] + 1].type = "execute"
    PROVE  Attached' /\ Known' /\ Downward' /\ Exact' /\ Whole'
  <1> DEFINE p == pos[n] + 1
             e == log[p]
  <1>0. TypeOK /\ TypeInv
    BY DEF IInv, TypeInv
  <1>1. /\ p \in Ahead(n) /\ p \in 1..Len(log)
        /\ \A m \in Node : m # n => Ahead(m)' = Ahead(m)
        /\ Ahead(n)' = Ahead(n) \ {p}
        /\ \A m \in Node : \A t : Pending(m, t)' = IF m = n THEN Pending(m, t) \ {p} ELSE Pending(m, t)
    BY <1>0, NextEvent
  <1>2. /\ UNCHANGED <<log, skip, cmd, set, local>> /\ e \in Event /\ RunScript(n, e)
        /\ \A m \in Node : m # n => ver'[m] = ver[m]
    BY <1>0, WorkerStep DEF Worker
  <1>3. n \in Node /\ n # 1 /\ 1 \in Node /\ Below \subseteq Node
    BY <1>0, Nodes
  <1>4. Attached' /\ Downward'
    BY <1>2 DEF IInv, Lists, Attached, Downward, Free, Skips
  <1>5. Known'
    <2>1. \A m \in Below, x \in Obj : Settled(m, x)' => Settled(m, x)
      BY <1>1, <1>2, <1>3 DEF Settled
    <2> QED BY <1>2, <2>1 DEF IInv, Lists, Known, Free, Skips
  <1>6. Exact'
    <2> SUFFICES ASSUME NEW m \in Below, NEW t \in Table, t \in local[m]
                 PROVE  ver'[m][t] + Cardinality(Pending(m, t)') = ver'[1][t]
      BY <1>2 DEF Exact
    <2>1. /\ ver[m][t] + Cardinality(Pending(m, t)) = ver[1][t] /\ ver'[1] = ver[1]
          /\ m \in Node /\ t \in Obj /\ ver[m][t] \in Nat
      BY <1>0, <1>2, <1>3 DEF IInv, Exact, TypeOK, Obj
    <2>2. CASE m # n
      BY <1>1, <1>2, <2>1, <2>2
    <2>3. CASE m = n /\ t \notin e.objs
      <3>1. Pending(m, t)' = Pending(m, t)
        BY <1>1, <2>1, <2>3 DEF Pending
      <3>2. ver'[m][t] = ver[m][t]
        BY <1>0, <1>2, <2>1, <2>3 DEF RunScript, TypeOK
      <3> QED BY <2>1, <3>1, <3>2
    <2>4. CASE m = n /\ t \in e.objs
      <3>1. NeedExecute(e.objs, local[n])
        BY <1>2, <2>4 DEF RunScript, Partial, NeedExecute
      <3>2. ver'[m][t] = ver[m][t] + 1
        BY <1>0, <1>2, <2>1, <2>4, <3>1 DEF RunScript, TypeOK
      <3>3. p \in Pending(n, t)
        BY <1>1, <2>4 DEF Pending, Ahead
      <3>4. IsFiniteSet(Pending(n, t)) /\ Cardinality(Pending(n, t)) \in Nat
        BY <1>0, <1>3, Counted
      <3>5. Cardinality(Pending(n, t) \ {p}) = Cardinality(Pending(n, t)) - 1
        BY <3>3, <3>4, FS_RemoveElement
      <3>6. Cardinality(Pending(m, t)') = Cardinality(Pending(m, t)) - 1
        BY <1>1, <1>3, <2>4, <3>5
      <3> QED BY <2>1, <2>4, <3>2, <3>4, <3>6
    <2> QED BY <2>2, <2>3, <2>4
  <1>7. Whole'
    <2>1. \A m \in Below : Ahead(m)' \subseteq Ahead(m)
      BY <1>1, <1>3
    <2> QED BY <1>2, <2>1 DEF IInv, Whole, Partial
  <1> QED BY <1>4, <1>5, <1>6, <1>7

-----------------------------------------------------------------------------
(* The steps of the administrator's programs. *)

\* A program that changes only the lists of one node: what it forgets the provider does
\* not know, what it learns the provider knows, and no script waits for what it detaches.
LEMMA ListStep ==
    ASSUME IInv, NEW n \in Below, NEW Y \in SUBSET Obj, NEW X \in SUBSET Obj,
           UNCHANGED <<log, pos, ver, skip>>,
           set' = [set EXCEPT ![n] = Y], local' = [local EXCEPT ![n] = X],
           Y \subseteq set[n] \cup set[n - 1], (set[n] \ Y) \cap set[n - 1] = {},
           \A o \in Y : ~Skips(n, o), X \subseteq Y \cap local[n],
           \A t \in (local[n] \ X) \cap Table : Pending(n, t) = {}
    PROVE  Behind' /\ Attached' /\ Ordered' /\ Coming' /\ Known' /\ Downward' /\ Based' /\ Exact' /\ Whole'
  <1>0. TypeOK
    BY DEF IInv, TypeInv
  <1>1. /\ \A m : Ahead(m)' = Ahead(m)
        /\ \A m, t : Pending(m, t)' = Pending(m, t)
        /\ \A i, t : Scripts(i, t)' = Scripts(i, t)
        /\ \A m, o : Settled(m, o)' = Settled(m, o)
        /\ Ordered' /\ Behind'
    BY SameEvents DEF IInv, Lists
  <1>2. /\ n \in Node /\ n # 1 /\ 1 \in Node /\ Below \subseteq Node /\ n - 1 \in Node /\ n \in Nat
        /\ n - 1 < Depth /\ (n - 1 = 1 \/ n - 1 \in Below)
    BY <1>0, Nodes
  <1>3. /\ set'[n] = Y /\ local'[n] = X /\ set'[1] = set[1] /\ local'[1] = local[1]
        /\ \A m \in Node : m # n => set'[m] = set[m] /\ local'[m] = local[m]
    BY <1>0, <1>2 DEF TypeOK
  <1>4. Attached'
    BY <1>2, <1>3 DEF IInv, Lists, Attached, Skips
  <1>5. Coming' /\ Based'
    BY <1>1, <1>3 DEF IInv, Lists, Coming, Based
  <1>6. Known'
    <2> SUFFICES ASSUME NEW m \in Below, NEW x \in Obj, Settled(m, x)
                 PROVE  /\ x \in set'[m] => x \in set[1]
                        /\ x \in set'[m - 1] /\ ~Skips(m, x) => x \in set'[m]
                        /\ x \in set[1] /\ Free(m, x) => x \in set'[m]
      BY <1>1, <1>3 DEF Known, Free, Skips
    <2>0. m \in Node /\ m - 1 \in Node /\ m \in Nat /\ m - 1 # m
      BY <1>0, Nodes
    <2>1. /\ x \in set[m] => x \in set[1]
          /\ x \in set[m - 1] /\ ~Skips(m, x) => x \in set[m]
          /\ x \in set[1] /\ Free(m, x) => x \in set[m]
      BY DEF IInv, Lists, Known
    <2>2. CASE m # n /\ m - 1 # n
      BY <1>3, <2>0, <2>1, <2>2
    <2>3. CASE m - 1 = n
      <3>1. Settled(n, x)
        BY <1>0, <1>2, <2>0, <2>3, Above DEF IInv, Lists
      <3>2. x \in Y => x \in set[n]
        BY <3>1 DEF IInv, Lists, Known
      <3> QED BY <1>3, <2>0, <2>1, <2>3, <3>2
    <2>4. CASE m = n
      <3>1. x \in set[n - 1] => x \in set[1]
        <4>1. CASE n - 1 = 1
          BY <4>1
        <4>2. CASE n - 1 \in Below
          <5>1. Settled(n - 1, x)
            BY <1>0, <1>2, <2>4, <4>2, Above DEF IInv, Lists
          <5> QED BY <4>2, <5>1 DEF IInv, Lists, Known
        <4> QED BY <1>2, <4>1, <4>2
      <3>2. x \in set[1] /\ Free(n, x) /\ x \in set[n] => x \in set[n - 1]
        <4>1. Free(n, x) => Free(n - 1, x)
          BY <1>2 DEF Free, Below, Node
        <4> QED BY <4>1 DEF IInv, Lists, Downward
      <3> QED BY <1>2, <1>3, <2>0, <2>1, <2>4, <3>1, <3>2
    <2> QED BY <2>2, <2>3, <2>4
  <1>7. Downward'
    <2> SUFFICES ASSUME NEW m \in Below, NEW x \in Obj, x \in set'[m], x \in set[1],
                        Free(m - 1, x)
                 PROVE  x \in set'[m - 1]
      BY <1>3 DEF Downward, Free, Skips
    <2>1. m \in Node /\ m - 1 \in Node /\ m \in Nat /\ m - 1 # m
      BY <1>0, Nodes
    <2>2. CASE m = n
      BY <1>2, <1>3, <2>1, <2>2 DEF IInv, Lists, Downward
    <2>3. CASE m # n
      <3>1. x \in set[m] /\ x \in set[m - 1]
        BY <1>3, <2>1, <2>3 DEF IInv, Lists, Downward
      <3>2. m - 1 = n => x \in set[n - 1]
        <4>1. m - 1 = n => Free(n - 1, x)
          BY <1>2 DEF Free, Below, Node
        <4> QED BY <3>1, <4>1 DEF IInv, Lists, Downward
      <3> QED BY <1>3, <2>1, <3>1, <3>2
    <2> QED BY <2>2, <2>3
  <1>8. Exact'
    <2>1. \A m \in Below : local'[m] \subseteq local[m]
      BY <1>2, <1>3
    <2> QED BY <1>1, <2>1 DEF IInv, Exact
  <1>9. Whole'
    <2> SUFFICES ASSUME NEW m \in Below, NEW i \in Ahead(m), log[i].type = "execute"
                 PROVE  ~Partial(log[i].objs, local'[m])
      BY <1>1 DEF Whole, Partial
    <2>1. ~Partial(log[i].objs, local[m])
      BY DEF IInv, Whole
    <2>2. CASE m # n
      BY <1>2, <1>3, <2>1, <2>2
    <2>3. CASE m = n
      <3>1. i \in 1..Len(log) /\ pos[n] \in Nat /\ log[i] \in Event
        BY <1>0, <1>2, <2>3, Nodes DEF Ahead
      <3>2. ASSUME NEW t \in log[i].objs \cap (local[n] \ X) PROVE FALSE
        <4>1. i \in Pending(n, t)
          BY <2>3, <3>2 DEF Ahead, Pending
        <4> QED BY <3>1, <3>2, <4>1, Events
      <3> QED BY <1>3, <2>1, <2>3, <3>2 DEF Partial
    <2> QED BY <2>2, <2>3
  <1> QED BY <1>1, <1>4, <1>5, <1>6, <1>7, <1>8, <1>9

\* sync_table_list and sync_seq_list take over what the provider had, and has, in its list.
LEMMA SyncStep ==
    ASSUME IInv, SyncTables \/ SyncSeqs
    PROVE  Lists' /\ Based' /\ Exact' /\ Whole'
  <1> DEFINE n == cmd.node
  <1>0. TypeOK /\ Table \cap Seqs = {}
    BY CascadeAssumption DEF IInv, TypeInv
  <1>1. /\ cmd.at = "sync" /\ n \in Below /\ cmd.src = set[n - 1] /\ cmd.from < n
        /\ \A t \in local[n] \ cmd.src : Pending(n, t) = {} /\ cmd \in CmdType
    BY DEF SyncTables, SyncSeqs, IInv, Lists, Fresh, TypeInv
  <1>2. /\ n \in Node /\ set[n] \subseteq Obj /\ local[n] \subseteq set[n] /\ cmd.src \subseteq Obj
        /\ (\A o \in set[n] : ~Skips(n, o)) /\ 1 \in Node /\ 1 \notin Below
    BY <1>0, <1>1, Nodes DEF IInv, Lists, Attached, TypeOK, CmdType
  <1>3. Fresh'
    <2>1. CASE cmd' = [cmd EXCEPT !.at = "expand"]
      <3>1. cmd'.at = "expand" /\ cmd'.node = cmd.node /\ cmd'.from = cmd.from
        BY <1>1, <2>1 DEF CmdType
      <3> QED BY <1>1, <3>1 DEF Fresh
    <2>2. CASE cmd' = NoCmd
      BY <2>2 DEF Fresh, NoCmd
    <2> QED BY <2>1, <2>2 DEF SyncTables, SyncSeqs, Refuse
  <1>4. CASE SyncTables
    <2> DEFINE gone == (set[n] \cap Table) \ cmd.src
               Y == (set[n] \cup ((cmd.src \cap Table) \ skip[n])) \ gone
               X == local[n] \ gone
    <2>1. /\ UNCHANGED <<log, pos, ver, skip>>
          /\ set' = [set EXCEPT ![n] = Y] /\ local' = [local EXCEPT ![n] = X]
      BY <1>4 DEF SyncTables
    <2>2. /\ Y \in SUBSET Obj /\ X \in SUBSET Obj
          /\ Y \subseteq set[n] \cup set[n - 1] /\ (set[n] \ Y) \cap set[n - 1] = {}
          /\ (\A o \in Y : ~Skips(n, o)) /\ X \subseteq Y \cap local[n]
      BY <1>1, <1>2 DEF Skips
    <2>3. \A t \in (local[n] \ X) \cap Table : Pending(n, t) = {}
      BY <1>1, <1>2
    <2> HIDE DEF X, Y
    <2>4. Behind' /\ Attached' /\ Ordered' /\ Coming' /\ Known' /\ Downward' /\ Based' /\ Exact' /\ Whole'
      BY <1>1, <2>1, <2>2, <2>3, ListStep
    <2> QED BY <1>3, <2>4 DEF Lists
  <1>5. CASE SyncSeqs
    <2> DEFINE new == (cmd.src \cap Seqs) \ skip[n]
    <2>1. PICK D \in {{}, new} : /\ UNCHANGED <<log, pos, ver, skip, local>>
                                /\ set' = [set EXCEPT ![n] = set[n] \cup D]
      <3>1. CASE Refuse
        <4>1. set' = [set EXCEPT ![n] = set[n] \cup {}]
          BY <1>0, <1>2, <3>1 DEF Refuse, TypeOK
        <4> QED BY <3>1, <4>1 DEF Refuse
      <3>2. CASE ~Refuse
        BY <1>5, <3>2 DEF SyncSeqs
      <3> QED BY <3>1, <3>2
    <2> DEFINE Y == set[n] \cup D
               X == local[n]
    <2>2. /\ Y \in SUBSET Obj /\ X \in SUBSET Obj
          /\ Y \subseteq set[n] \cup set[n - 1] /\ (set[n] \ Y) \cap set[n - 1] = {}
          /\ (\A o \in Y : ~Skips(n, o)) /\ X \subseteq Y \cap local[n]
      BY <1>0, <1>1, <1>2 DEF Skips
    <2>3. local' = [local EXCEPT ![n] = X] /\ \A t \in (local[n] \ X) \cap Table : Pending(n, t) = {}
      BY <1>0, <1>2, <2>1 DEF TypeOK
    <2> HIDE DEF X, Y
    <2>4. set' = [set EXCEPT ![n] = Y] /\ UNCHANGED <<log, pos, ver, skip>>
      BY <2>1 DEF Y
    <2>5. Behind' /\ Attached' /\ Ordered' /\ Coming' /\ Known' /\ Downward' /\ Based' /\ Exact' /\ Whole'
      BY <1>1, <2>2, <2>3, <2>4, ListStep
    <2> QED BY <1>3, <2>5 DEF Lists
  <1> QED BY <1>4, <1>5

\* Reading, looking for a source and giving up change nothing but the command.
LEMMA ReadStep ==
    ASSUME IInv, Careful,
           \/ Expand \/ FindSource \/ GiveUp
           \/ \E n \in Below, o \in Obj, c \in BOOLEAN, f \in BOOLEAN : ReadProvider(n, o, c, f)
    PROVE  Lists' /\ Based' /\ Exact' /\ Whole'
  <1>0. TypeOK /\ cmd \in CmdType
    BY DEF IInv, TypeInv
  <1>1. UNCHANGED <<log, pos, ver, skip, set, local>>
    BY DEF Expand, FindSource, GiveUp, Refuse, Goto, ReadProvider
  <1>2. Fresh'
    <2>1. CASE cmd' = NoCmd
      BY <2>1 DEF Fresh, NoCmd
    <2>2. ASSUME NEW at \in {"find", "attach"}, cmd' = [cmd EXCEPT !.at = at], cmd.at # "none"
          PROVE  Fresh'
      <3>1. cmd'.at = at /\ cmd'.node = cmd.node /\ cmd'.from = cmd.from
        BY <1>0, <2>2 DEF CmdType
      <3>2. cmd.node \in Below /\ cmd.from < cmd.node
        BY <2>2 DEF IInv, Lists, Fresh
      <3> QED BY <2>2, <3>1, <3>2 DEF Fresh
    <2>3. CASE Expand \/ GiveUp
      BY <2>1, <2>2, <2>3 DEF Expand, GiveUp, Refuse, Goto
    <2>4. CASE FindSource
      <3>1. CASE Refuse
        BY <2>1, <3>1 DEF Refuse
      <3>2. CASE ~Refuse
        <4>1. PICK q \in UNION {Sources(cmd.node, o) : o \in cmd.obj} :
                cmd' = [cmd EXCEPT !.at = "attach", !.src = set[q], !.has = local[q], !.from = q]
          BY <2>4, <3>2 DEF FindSource
        <4>2. cmd.node \in Below /\ cmd.node \in Nat
          BY <1>0, <2>4, Nodes DEF FindSource, IInv, Lists, Fresh
        <4>3. q < cmd.node
          BY <4>1, <4>2 DEF Sources
        <4>4. cmd'.at = "attach" /\ cmd'.node = cmd.node /\ cmd'.from = q
          BY <1>0, <4>1 DEF CmdType
        <4> QED BY <4>2, <4>3, <4>4 DEF Fresh
      <3> QED BY <3>1, <3>2
    <2>5. ASSUME NEW n \in Below, NEW o \in Obj, NEW c \in BOOLEAN, NEW f \in BOOLEAN,
                 ReadProvider(n, o, c, f)
          PROVE  Fresh'
      <3>1. /\ cmd'.at = "sync" /\ cmd'.node = n /\ cmd'.src = set[n - 1] /\ cmd'.has = local[n - 1]
            /\ cmd'.from = n - 1 /\ \A t \in local[n] \ set[n - 1] : Pending(n, t) = {}
        BY <2>5 DEF ReadProvider
      <3>2. n - 1 < n
        BY <1>0, Nodes
      <3>3. \A t : Pending(cmd.node, t)' = Pending(n, t)
        BY <1>1, <3>1 DEF Pending
      <3> QED BY <1>1, <3>1, <3>2, <3>3 DEF Fresh
    <2> QED BY <2>3, <2>4, <2>5
  <1>3. /\ Behind' /\ Attached' /\ Ordered' /\ Coming' /\ Known' /\ Downward' /\ Based' /\ Exact' /\ Whole'
    <2>1. /\ \A m : Ahead(m)' = Ahead(m)
          /\ \A m, t : Pending(m, t)' = Pending(m, t)
          /\ \A i, t : Scripts(i, t)' = Scripts(i, t)
          /\ \A m, o : Settled(m, o)' = Settled(m, o)
          /\ Ordered' /\ Behind'
      BY <1>1, SameEvents DEF IInv, Lists
    <2> QED BY <1>1, <2>1
            DEF IInv, Lists, Attached, Coming, Known, Downward, Free, Skips, Based, Exact, Whole,
                Partial
  <1> QED BY <1>2, <1>3 DEF Lists

\* What is attached, with all its scripts run, has the version of the root; so has what is
\* created from a node above, whose scripts are fewer.  What is detached has no scripts.
LEMMA AttachStep ==
    ASSUME IInv, Careful,
           \E o \in Obj : Attach(o) \/ \E n \in Below : Detach(n, o)
    PROVE  Lists' /\ Based' /\ Exact' /\ Whole'
  <1>0. TypeOK
    BY DEF IInv, TypeInv
  <1>1. PICK o \in Obj : Attach(o) \/ \E n \in Below : Detach(n, o)
    OBVIOUS
  <1>2. PICK n \in Below :
          /\ (Attach(o) /\ n = cmd.node) \/ Detach(n, o)
          /\ UNCHANGED <<log, pos, set, skip>> /\ Pending(n, o) = {}
    <2>1. CASE Attach(o)
      <3>1. cmd.node \in Below
        BY <2>1 DEF IInv, Lists, Fresh, Attach
      <3> QED BY <2>1, <3>1 DEF Attach
    <2>2. ASSUME NEW n \in Below, Detach(n, o)
          PROVE  UNCHANGED <<log, pos, set, skip>> /\ Pending(n, o) = {}
      BY <2>2 DEF Detach
    <2> QED BY <1>1, <2>1, <2>2
  <1>3. /\ n \in Node /\ n # 1 /\ 1 \in Node /\ Below \subseteq Node /\ n \in Nat
    BY <1>0, Nodes
  <1>4. PICK X : /\ local' = [local EXCEPT ![n] = X] /\ X \subseteq set[n]
                 /\ X \subseteq local[n] \cup {o} /\ local[n] \ {o} \subseteq X
    <2>1. local[n] \subseteq set[n]
      BY <1>3 DEF IInv, Lists, Attached
    <2>2. CASE Attach(o) /\ n = cmd.node
      <3>1. o \in set[n] /\ local' = [local EXCEPT ![n] = local[n] \cup {o}]
        BY <2>2 DEF Attach, Possible
      <3> QED BY <2>1, <3>1
    <2>3. CASE Detach(n, o)
      <3>1. local' = [local EXCEPT ![n] = local[n] \ {o}]
        BY <2>3 DEF Detach
      <3> QED BY <2>1, <3>1
    <2> QED BY <1>2, <2>2, <2>3
  <1>5. /\ local'[n] = X /\ \A m \in Node : m # n => local'[m] = local[m]
        /\ \A m : Ahead(m)' = Ahead(m)
        /\ \A m, t : Pending(m, t)' = Pending(m, t)
        /\ \A i, t : Scripts(i, t)' = Scripts(i, t)
        /\ \A m, x : Settled(m, x)' = Settled(m, x)
        /\ Ordered' /\ Behind'
    BY <1>0, <1>2, <1>3, <1>4, SameEvents DEF IInv, Lists, TypeOK
  <1>6. Attached' /\ Known' /\ Downward' /\ Coming'
    <2>1. Attached'
      BY <1>2, <1>3, <1>4, <1>5 DEF IInv, Lists, Attached, Skips
    <2>2. Known' /\ Downward'
      BY <1>2, <1>5 DEF IInv, Lists, Known, Downward, Free, Skips
    <2>3. Coming'
      BY <1>2, <1>5 DEF IInv, Lists, Coming
    <2> QED BY <2>1, <2>2, <2>3
  <1>7. Fresh'
    BY <1>2 DEF Fresh, Attach, Detach, NoCmd
  <1>8. /\ \A m \in Node, x \in Obj : m # n \/ x # o => ver'[m][x] = ver[m][x]
        /\ o \in X /\ o \in Table => ver'[n][o] = ver[1][o]
    <2>1. CASE Attach(o) /\ n = cmd.node
      <3>1. /\ ver' = [ver EXCEPT ![n][o] = IF ver[n][o] = 0 THEN ver[cmd.from][o] ELSE ver[n][o]]
            /\ IF ver[n][o] = 0 THEN o \in local[cmd.from] ELSE ver[n][o] = ver[1][o]
            /\ cmd.from < n /\ cmd.from \in Node
        BY <2>1 DEF Attach, IInv, Lists, Fresh, TypeInv, CmdType
      <3>2. \A m \in Node, x \in Obj : m # n \/ x # o => ver'[m][x] = ver[m][x]
        BY <1>0, <3>1 DEF TypeOK
      <3>3. ver'[n][o] = IF ver[n][o] = 0 THEN ver[cmd.from][o] ELSE ver[n][o]
        BY <1>0, <1>3, <3>1 DEF TypeOK
      <3>4. ASSUME ver[n][o] = 0, o \in Table PROVE ver[cmd.from][o] = ver[1][o]
        <4>1. CASE cmd.from = 1
          BY <4>1
        <4>2. CASE cmd.from # 1
          <5>1. cmd.from \in Below /\ cmd.from <= n
            BY <1>3, <3>1, <4>2 DEF Below, Node
          <5>2. Pending(cmd.from, o) = {}
            BY <1>0, <1>2, <5>1, Above DEF IInv, Lists
          <5>3. ver[cmd.from][o] + Cardinality(Pending(cmd.from, o)) = ver[1][o]
            BY <3>1, <3>4, <5>1 DEF IInv, Exact
          <5>4. ver[cmd.from][o] \in Nat
            BY <1>0, <3>1 DEF TypeOK
          <5> QED BY <5>2, <5>3, <5>4, FS_EmptySet
        <4> QED BY <4>1, <4>2
      <3> QED BY <3>1, <3>2, <3>3, <3>4
    <2>2. CASE Detach(n, o)
      <3>1. ver' = ver /\ local' = [local EXCEPT ![n] = local[n] \ {o}]
        BY <2>2 DEF Detach
      <3>2. o \notin X
        BY <1>0, <1>3, <1>5, <3>1 DEF TypeOK
      <3> QED BY <3>1, <3>2
    <2> QED BY <1>2, <2>1, <2>2
  <1>9. Based'
    <2> SUFFICES ASSUME NEW i \in 1..Len(log), log[i].type = "execute", NEW t \in log[i].objs
                 PROVE  log[i].base[t] + Cardinality(Scripts(i, t)) = ver'[1][t]
      BY <1>2, <1>5 DEF Based
    <2>1. t \in Obj
      BY <1>0, Nodes, Events
    <2> QED BY <1>3, <1>8, <2>1 DEF IInv, Based
  <1>10. Exact'
    <2> SUFFICES ASSUME NEW m \in Below, NEW t \in Table, t \in local'[m]
                 PROVE  ver'[m][t] + Cardinality(Pending(m, t)) = ver'[1][t]
      BY <1>5 DEF Exact
    <2>1. t \in Obj /\ m \in Node /\ ver'[1][t] = ver[1][t] /\ ver[1][t] \in Nat
      BY <1>0, <1>3, <1>8 DEF Obj, TypeOK
    <2>2. CASE m = n /\ t = o
      <3>1. Cardinality(Pending(m, t)) = 0
        BY <1>2, <2>2, FS_EmptySet
      <3>2. ver'[m][t] = ver[1][t]
        BY <1>5, <1>8, <2>2
      <3> QED BY <2>1, <3>1, <3>2
    <2>3. CASE m # n \/ t # o
      <3>1. t \in local[m] /\ ver'[m][t] = ver[m][t]
        BY <1>4, <1>5, <1>8, <2>1, <2>3
      <3> QED BY <2>1, <3>1 DEF IInv, Exact
    <2> QED BY <2>2, <2>3
  <1>11. Whole'
    <2> SUFFICES ASSUME NEW m \in Below, NEW i \in Ahead(m), log[i].type = "execute"
                 PROVE  ~Partial(log[i].objs, local'[m])
      BY <1>2, <1>5 DEF Whole, Partial
    <2>1. ~Partial(log[i].objs, local[m])
      BY DEF IInv, Whole
    <2>2. CASE m # n
      BY <1>3, <1>5, <2>1, <2>2
    <2>3. CASE m = n
      <3>1. o \notin log[i].objs
        BY <1>2, <2>3 DEF Ahead, Pending
      <3> QED BY <1>4, <1>5, <2>1, <2>3, <3>1 DEF Partial
    <2> QED BY <2>2, <2>3
  <1> QED BY <1>5, <1>6, <1>7, <1>9, <1>10, <1>11 DEF Lists

-----------------------------------------------------------------------------
(* The theorems. *)

\* Every step of a careful administrator, of the root and of the workers keeps the invariant.
LEMMA NextInv == Careful /\ IInv /\ [Next]_vars => IInv'
  <1> SUFFICES ASSUME Careful, IInv, [Next]_vars PROVE IInv'
    OBVIOUS
  <1>0. TypeInv'
    BY TypeStep DEF IInv
  <1>1. CASE UNCHANGED vars
    <2>1. /\ \A m : Ahead(m)' = Ahead(m)
          /\ \A m, t : Pending(m, t)' = Pending(m, t)
          /\ \A i, t : Scripts(i, t)' = Scripts(i, t)
          /\ \A m, o : Settled(m, o)' = Settled(m, o)
          /\ Ordered' /\ Behind'
      BY <1>1, SameEvents DEF vars, IInv, Lists
    <2>2. Fresh'
      <3>1. \A t : Pending(cmd.node, t)' = Pending(cmd.node, t)
        BY <1>1 DEF vars, Pending
      <3> QED BY <1>1, <3>1 DEF vars, IInv, Lists, Fresh
    <2> QED BY <1>0, <1>1, <2>1, <2>2 DEF vars, IInv, Lists, Attached, Coming, Known, Downward,
            Free, Skips, Based, Exact, Whole, Partial
  <1>2. ASSUME NEW o \in Obj, RootAdd(o) PROVE IInv'
    BY <1>0, <1>2, RootStep, AddStep DEF IInv, Lists
  <1>3. ASSUME NEW o \in Obj, RootRemove(o) PROVE IInv'
    BY <1>0, <1>3, RootStep, RemoveStep DEF IInv, Lists
  <1>4. ASSUME NEW S \in SUBSET Table, Execute(S) PROVE IInv'
    BY <1>0, <1>4, ExecuteStep DEF IInv
  <1>5. ASSUME NEW n \in Below, Worker(n) PROVE IInv'
    <2>1. Behind' /\ Fresh' /\ Ordered' /\ Coming' /\ Based' /\ log[pos[n] + 1] \in Event
      BY <1>5, WorkerStep
    <2>2. Attached' /\ Known' /\ Downward' /\ Exact' /\ Whole'
      BY <1>5, <2>1, Events, WorkerAdds, WorkerRemoves, WorkerRuns
    <2> QED BY <1>0, <2>1, <2>2 DEF IInv, Lists
  <1>6. CASE SyncTables \/ SyncSeqs
    BY <1>0, <1>6, SyncStep DEF IInv
  <1>7. CASE \/ Expand \/ FindSource \/ GiveUp
             \/ \E n \in Below, o \in Obj, c \in BOOLEAN, f \in BOOLEAN : ReadProvider(n, o, c, f)
    BY <1>0, <1>7, ReadStep DEF IInv
  <1>8. CASE \E o \in Obj : Attach(o) \/ \E n \in Below : Detach(n, o)
    BY <1>0, <1>8, AttachStep DEF IInv
  <1> QED BY <1>1, <1>2, <1>3, <1>4, <1>5, <1>6, <1>7, <1>8, StepsAre

\* With a careful administrator, what is on its way to each node, the lists and the
\* versions fit together, whatever the depth and the skip lists of the nodes, and however
\* many events and commands.
THEOREM Inductive == Careful /\ Spec => []IInv
  <1>1. Careful /\ Init /\ [][Next]_vars => []IInv
    <2>1. CASE Careful
      <3>1. IInv /\ [Next]_vars => IInv'
        BY <2>1, NextInv
      <3> QED BY <3>1, InitInv, PTL
    <2>2. CASE ~Careful
      BY <2>2
    <2> QED BY <2>1, <2>2
  <1> QED BY <1>1 DEF Spec

\* A node that has processed all events knows nothing that the root has removed or that it
\* skips, and everything else that its provider has, and that the root has if nobody down
\* to the node skips it.
THEOREM ListsAgree == Careful /\ Spec => []SetsAgree
  <1>1. ASSUME IInv PROVE SetsAgree
    <2> SUFFICES ASSUME NEW n \in Below, NEW o \in Obj, pos[n] = Len(log)
                 PROVE  /\ o \in set[n] => o \in set[1] /\ ~Skips(n, o)
                        /\ o \in set[n - 1] /\ ~Skips(n, o) => o \in set[n]
                        /\ o \in set[1] /\ (\A m \in 2..n : ~Skips(m, o)) => o \in set[n]
      BY DEF SetsAgree
    <2>0. TypeOK
      BY <1>1 DEF IInv, TypeInv
    <2>1. n \in Node /\ n \in Nat /\ Len(log) \in Nat /\ Depth \in Nat
      BY <2>0, Nodes
    <2>2. Settled(n, o)
      BY <2>1 DEF Settled, Ahead
    <2>3. (\A m \in 2..n : ~Skips(m, o)) => Free(n, o)
      <3>1. \A m \in Below : m <= n => m \in 2..n
        BY <2>1 DEF Below, Node
      <3> QED BY <3>1 DEF Free
    <2>4. o \in set[n] => ~Skips(n, o)
      BY <1>1 DEF IInv, Lists, Attached
    <2> QED BY <1>1, <2>2, <2>3, <2>4 DEF IInv, Lists, Known
  <1> QED BY <1>1, Inductive, PTL

\* An attached table has run the scripts that its node has come to, and no others.
THEOREM VersionsRight == Careful /\ Spec => []VersionExact
  <1>1. IInv => VersionExact
    BY DEF IInv, Exact, VersionExact
  <1> QED BY <1>1, Inductive, PTL

\* No worker stops at a script: its tables are all attached or none is, and they have the
\* version that it was written for.
THEOREM WorkersGoOn == Careful /\ Spec => []NeverBlocked
  <1>1. ASSUME IInv PROVE NeverBlocked
    <2> SUFFICES ASSUME NEW n \in Below, Blocked(n) PROVE FALSE
      BY DEF NeverBlocked
    <2> DEFINE p == pos[n] + 1
               e == log[p]
    <2>0. TypeOK
      BY <1>1 DEF IInv, TypeInv
    <2>1. /\ n \in Node /\ pos[n] \in Nat /\ Len(log) \in Nat /\ At(n - 1) <= Len(log)
          /\ At(n - 1) \in Nat
      BY <2>0, Nodes DEF At
    <2>2. p \in Ahead(n) /\ p \in 1..Len(log) /\ e.type = "execute" /\ e \in Event
      BY <2>0, <2>1, Nodes DEF Blocked, Ahead
    <2>3. ~Partial(e.objs, local[n])
      BY <1>1, <2>2 DEF IInv, Whole
    <2>4. ASSUME e.objs \subseteq local[n], NEW t \in e.objs PROVE ver[n][t] = e.base[t]
      <3>1. t \in Table /\ t \in Obj /\ t \in local[n]
        BY <2>2, <2>4, Events
      <3>2. ver[n][t] + Cardinality(Pending(n, t)) = ver[1][t]
        BY <1>1, <3>1 DEF IInv, Exact
      <3>3. e.base[t] + Cardinality(Scripts(p, t)) = ver[1][t]
        BY <1>1, <2>2 DEF IInv, Based
      <3>4. Pending(n, t) = Scripts(p, t)
        BY DEF Pending, Scripts
      <3>5. Cardinality(Pending(n, t)) \in Nat /\ ver[n][t] \in Nat /\ e.base[t] \in Nat
        <4>1. Cardinality(Pending(n, t)) \in Nat
          BY <2>0, <2>1, Counted
        <4>2. ver[n][t] \in Nat
          BY <2>0, <2>1, <3>1 DEF TypeOK
        <4>3. e.base[t] \in Nat
          BY <2>2, <3>1, Events
        <4> QED BY <4>1, <4>2, <4>3
      <3> QED BY <3>2, <3>3, <3>4, <3>5
    <2> QED BY <2>3, <2>4 DEF Blocked, NeedExecute, Fits
  <1> QED BY <1>1, Inductive, PTL

\* What is attached stays attached, until it is detached there or removed from the root,
\* unless a node above skips it.
THEOREM StaysAttached == Careful /\ Spec => Kept
  <1>1. ASSUME Careful, IInv, [Next]_vars
        PROVE  [\A n \in Below, o \in Obj : o \in local[n] /\ o \notin local'[n] =>
                  o \notin set[1] \/ cmds' # cmds
                    \/ \E m \in 2..(n - 1) : Skips(m, o)]_vars
    <2> SUFFICES ASSUME NEW n \in Below, NEW o \in Obj, o \in local[n], o \notin local'[n],
                        o \in set[1], cmds' = cmds,
                        \A m \in 2..(n - 1) : ~Skips(m, o)
                 PROVE  FALSE
      OBVIOUS
    <2>0. TypeOK
      BY <1>1 DEF IInv, TypeInv
    <2>1. n \in Node /\ n # 1 /\ 1 \in Node /\ o \in set[n - 1]
      <3>1. n \in Node /\ n # 1 /\ 1 \in Node /\ n \in Nat /\ Depth \in Nat
        BY <2>0, Nodes
      <3>2. \A m \in Below : m <= n - 1 => m \in 2..(n - 1)
        BY <3>1 DEF Below, Node
      <3>3. Free(n - 1, o)
        BY <3>2 DEF Free
      <3>4. o \in set[n]
        BY <1>1, <3>1 DEF IInv, Lists, Attached
      <3> QED BY <1>1, <3>1, <3>3, <3>4 DEF IInv, Lists, Downward
    <2>2. CASE UNCHANGED local
      BY <2>2
    <2>3. ASSUME NEW x \in Obj, RootAdd(x) \/ RootRemove(x) PROVE FALSE
      BY <2>0, <2>1, <2>3 DEF RootAdd, RootRemove, TypeOK
    <2>4. ASSUME NEW m \in Below, Worker(m) PROVE FALSE
      <3>1. RemoveSet(m, log[pos[m] + 1].objs) /\ log[pos[m] + 1].type = "remove"
        BY <2>2, <2>4 DEF Worker
      <3>2. m = n /\ o \in log[pos[m] + 1].objs
        BY <2>0, <2>1, <3>1 DEF RemoveSet, TypeOK
      <3>3. pos[m] + 1 \in Ahead(m)
        BY <2>0, <2>4, NextEvent
      <3> QED BY <1>1, <3>1, <3>2, <3>3 DEF IInv, Lists, Coming
    <2>5. CASE SyncTables \/ SyncSeqs
      <3>1. cmd.node = n /\ o \notin cmd.src
        <4>1. SyncTables
          BY <2>2, <2>5 DEF SyncSeqs, Refuse
        <4>2. PICK D : /\ local' = [local EXCEPT ![cmd.node] = local[cmd.node] \ D]
                       /\ D \cap cmd.src = {}
          BY <4>1 DEF SyncTables
        <4> QED BY <2>0, <2>1, <4>2 DEF TypeOK
      <3>2. cmd.src = set[n - 1]
        BY <1>1, <2>5, <3>1 DEF SyncTables, SyncSeqs, IInv, Lists, Fresh
      <3> QED BY <2>1, <3>1, <3>2
    <2>6. ASSUME NEW x \in Obj, Attach(x) PROVE FALSE
      <3>1. local' = [local EXCEPT ![cmd.node] = local[cmd.node] \cup {x}]
        BY <2>6 DEF Attach
      <3> QED BY <2>0, <2>1, <3>1 DEF TypeOK
    <2>7. ASSUME NEW m \in Below, NEW x \in Obj, Detach(m, x) PROVE FALSE
      <3>1. cmds \in Nat
        BY <2>0 DEF TypeOK
      <3> QED BY <2>7, <3>1 DEF Detach
    <2>8. ASSUME NEW S \in SUBSET Table, Execute(S) PROVE FALSE
      BY <2>2, <2>8 DEF Execute
    <2>9. CASE Expand \/ FindSource \/ GiveUp
      BY <2>2, <2>9 DEF Expand, FindSource, GiveUp, Refuse, Goto
    <2>10. ASSUME NEW m \in Below, NEW x \in Obj, NEW c \in BOOLEAN, NEW f \in BOOLEAN,
                  ReadProvider(m, x, c, f)
           PROVE  FALSE
      BY <2>2, <2>10 DEF ReadProvider
    <2>11. CASE UNCHANGED vars
      BY <2>2, <2>11 DEF vars
    <2>12. ~ \E m \in Below, x \in Obj : \/ \E c \in BOOLEAN, f \in BOOLEAN : ReadProvider(m, x, c, f)
                                         \/ Detach(m, x)
      BY <2>7, <2>10
    <2> QED BY <1>1, <2>3, <2>4, <2>5, <2>6, <2>8, <2>9, <2>11, <2>12, StepsAre
  <1>2. CASE Careful
    <2>1. IInv /\ [Next]_vars =>
            [\A n \in Below, o \in Obj : o \in local[n] /\ o \notin local'[n] =>
               o \notin set[1] \/ cmds' # cmds \/ \E m \in 2..(n - 1) : Skips(m, o)]_vars
      BY <1>1, <1>2
    <2> QED BY <1>2, <2>1, Inductive, PTL DEF Spec, Kept
  <1>3. CASE ~Careful
    BY <1>3
  <1> QED BY <1>2, <1>3
=============================================================================
