------------------------------ MODULE Cascade -------------------------------
(***************************************************************************)
(* The catalogue of a cascade: which tables and sequences each node knows, *)
(* which it has attached, and in which version of the schema.  Node 1 is   *)
(* the root, node n takes its batches from node n - 1.                     *)
(*                                                                         *)
(* Two ways lead to a node's catalogue.  Its worker applies what the root  *)
(* has queued - add, remove, EXECUTE - when it comes to it; the programs   *)
(* of the administrator look at the provider's catalogue, or copy its      *)
(* schema, now.  The provider is ahead of the node, so a program may do    *)
(* what the worker has still to do.                                        *)
(***************************************************************************)
EXTENDS Integers, Sequences, FiniteSets

CONSTANTS
  Depth,      \* nodes of the cascade
  Table, Seqs,
  MaxEvent,   \* bound: events of the root
  MaxCmd,     \* bound: commands on other nodes
  Careful     \* the administrator looks at what the workers have done first

ASSUME CascadeAssumption ==
  /\ Depth \in Nat \ {0, 1} /\ MaxEvent \in Nat /\ MaxCmd \in Nat
  /\ Table \cap Seqs = {} /\ Careful \in BOOLEAN

VARIABLES
  log,     \* the catalogue events of the root's queue
  pos,     \* pos[n]: how many of them node n has processed
  set,     \* set[n]: objects that node n knows
  local,   \* local[n]: objects attached to node n
  ver,     \* ver[n][o]: version of the object in n's database, 0: it has none
  skip,    \* register_skip_tables, register_skip_seqs of each node
  cmd,     \* the administrator's command that runs
  cmds     \* commands so far

vars == <<log, pos, set, local, ver, skip, cmd, cmds>>

Node == 1..Depth
Obj == Table \cup Seqs
Below == Node \ {1}
Event == [type : {"add", "remove"}, objs : SUBSET Obj, base : [Obj -> Nat]]
         \cup [type : {"execute"}, objs : SUBSET Table, base : [Obj -> Nat]]

\* cmd: the step of the command, the node, the object, the options --create and
\* --find-copy-node; what was read of the provider (src_tbls) and where
NoCmd == [at |-> "none", node |-> 1, obj |-> {}, create |-> FALSE, find |-> FALSE,
          src |-> {}, has |-> {}, from |-> 1]
Steps == {"none", "sync", "expand", "find", "attach"}

-----------------------------------------------------------------------------
(* Helpers *)

\* mutant: every worker reads the root's queue
At_root(n) == Len(log)

\* how far node n's own queue goes
At(n) == IF n = 1 THEN Len(log) ELSE pos[n]

\* ExecAttrs.need_execute: all names match, or there are none
NeedExecute(S, here) == S \subseteq here

\* SQL only partially matches local setup
Partial(S, here) == S \cap here # {} /\ ~(S \subseteq here)

\* a script is written for one version of its tables
Fits(n, e) == \A t \in e.objs : ver[n][t] = e.base[t]

\* the worker cannot get over its next event
Blocked(n) ==
  /\ n \in Below /\ pos[n] < At(n - 1) /\ log[pos[n] + 1].type = "execute"
  /\ LET e == log[pos[n] + 1]
     IN Partial(e.objs, local[n]) \/ (NeedExecute(e.objs, local[n]) /\ ~Fits(n, e))

\* scripts for table t that node n's database misses or has still to run
Pending(n, t) == {i \in (pos[n] + 1)..Len(log) : log[i].type = "execute" /\ t \in log[i].objs}

\* add_set_table and sync_table_list leave out what the node skips; update_seq does not,
\* so that a sequence reaches every node
Skips(n, o) == o \in Table /\ o \in skip[n]

\* handler_allows_copy and local: nodes that find_copy_source accepts
Sources(n, o) == {q \in 1..(n - 1) : o \in local[q]}

\* nothing happens on node n between the two reads of a careful command
Quiet(n) == Careful => ~(cmd.at = "sync" /\ cmd.node = n + 1)

\* tables that the command is about to detach from its node
Going == IF cmd.at = "sync" THEN local[cmd.node] \ cmd.src ELSE {}

\* what a careful administrator asks before a script: the root has its tables, no node
\* has a part of them, and none is about to lose one
Ready(S) ==
  Careful => /\ S \subseteq local[1] /\ S \cap Going = {}
             /\ \A n \in Below : ~Partial(S, local[n])

-----------------------------------------------------------------------------
(* The root *)

Emit(type, S) == log' = Append(log, [type |-> type, objs |-> S, base |-> ver[1]])

\* add-table and add-seq on the root
RootAdd(o) ==
  /\ Len(log) < MaxEvent /\ Quiet(1) /\ o \notin set[1]
  /\ Careful => \A n \in Below : \A i \in (pos[n] + 1)..Len(log) : o \notin log[i].objs
  /\ set' = [set EXCEPT ![1] = @ \cup {o}]
  /\ local' = [local EXCEPT ![1] = @ \cup {o}]
  /\ Emit("add", {o})
  /\ UNCHANGED <<pos, ver, skip, cmd, cmds>>

\* remove-table and remove-seq on the root
RootRemove(o) ==
  /\ Len(log) < MaxEvent /\ Quiet(1) /\ o \in local[1]
  /\ set' = [set EXCEPT ![1] = @ \ {o}]
  /\ local' = [local EXCEPT ![1] = @ \ {o}]
  /\ Emit("remove", {o})
  /\ UNCHANGED <<pos, ver, skip, cmd, cmds>>

\* mutant: the script is queued, and what it did on the root is rolled back
Execute_undone(S) ==
  /\ Len(log) < MaxEvent /\ S # {} /\ ~Partial(S, local[1])
  /\ Ready(S)
  /\ Emit("execute", S)
  /\ UNCHANGED <<pos, set, local, ver, skip, cmd, cmds>>

\* cmd_execute: the script runs on the root in the transaction that queues it, and is
\* queued as well if the root has none of its tables
Execute(S) ==
  /\ Len(log) < MaxEvent /\ S # {} /\ ~Partial(S, local[1])
  /\ Ready(S)
  /\ ver' = [ver EXCEPT ![1] =
                [o \in Obj |-> IF o \in S /\ NeedExecute(S, local[1]) THEN @[o] + 1 ELSE @[o]]]
  /\ Emit("execute", S)
  /\ UNCHANGED <<pos, set, local, skip, cmd, cmds>>

-----------------------------------------------------------------------------
(* A worker: process_remote_event.  A batch is one event. *)

\* mutant: an event adds what the node skips
AddSet_all(n, S) == set' = [set EXCEPT ![n] = @ \cup S]

\* add_set_table, update_seq
AddSet(n, S) == set' = [set EXCEPT ![n] = @ \cup {o \in S : ~Skips(n, o)}]

\* remove_set_table, remove_set_seq
RemoveSet(n, S) ==
  /\ set' = [set EXCEPT ![n] = @ \ S]
  /\ local' = [local EXCEPT ![n] = @ \ S]

\* mutant: the script is taken for one that has run
RunScript_passed(n, e) == ~Partial(e.objs, local[n]) /\ UNCHANGED ver

\* handle_execute_event; an error rolls back, and the event is tried again
RunScript(n, e) ==
  /\ ~Partial(e.objs, local[n])
  /\ IF NeedExecute(e.objs, local[n])
     THEN /\ Fits(n, e)
          /\ ver' = [ver EXCEPT ![n] = [o \in Obj |-> IF o \in e.objs THEN @[o] + 1 ELSE @[o]]]
     ELSE UNCHANGED ver

Worker(n) ==
  /\ pos[n] < At(n - 1) /\ Quiet(n)
  /\ LET e == log[pos[n] + 1]
     IN \/ e.type = "add" /\ AddSet(n, e.objs) /\ UNCHANGED <<local, ver>>
        \/ e.type = "remove" /\ RemoveSet(n, e.objs) /\ UNCHANGED ver
        \/ e.type = "execute" /\ RunScript(n, e) /\ UNCHANGED <<set, local>>
  /\ pos' = [pos EXCEPT ![n] = @ + 1]
  /\ UNCHANGED <<log, skip, cmd, cmds>>

-----------------------------------------------------------------------------
(* add-table and add-seq on another node *)

Refuse == cmd' = NoCmd /\ UNCHANGED <<log, pos, set, local, ver, skip, cmds>>

Goto(at) == cmd' = [cmd EXCEPT !.at = at] /\ UNCHANGED <<log, pos, set, local, ver, skip, cmds>>

\* fetch_set_tables / fetch_seqs of the provider.  What the provider has no more the
\* command will detach: a careful administrator waits for the scripts that name it.
ReadProvider(n, o, create, find) ==
  /\ cmd.at = "none" /\ cmds < MaxCmd
  /\ find => o \in Table
  /\ Careful => \A t \in local[n] \ set[n - 1] : Pending(n, t) = {}
  /\ cmd' = [at |-> "sync", node |-> n, obj |-> {o}, create |-> create, find |-> find,
             src |-> set[n - 1], has |-> local[n - 1], from |-> n - 1]
  /\ cmds' = cmds + 1
  /\ UNCHANGED <<log, pos, set, local, ver, skip>>

\* mutant: what the provider has not attached is gone
SyncTables_attached ==
  LET n == cmd.node
      gone == (set[n] \cap Table) \ cmd.has
  IN /\ cmd.at = "sync" /\ cmd.obj \subseteq Table
     /\ set' = [set EXCEPT ![n] = (@ \cup ((cmd.src \cap Table) \ skip[n])) \ gone]
     /\ local' = [local EXCEPT ![n] = @ \ gone]
     /\ cmd' = [cmd EXCEPT !.at = "expand"]
     /\ UNCHANGED <<log, pos, ver, skip, cmds>>

\* sync_table_list: the node's list becomes the provider's
SyncTables ==
  LET n == cmd.node
      gone == (set[n] \cap Table) \ cmd.src
  IN /\ cmd.at = "sync" /\ cmd.obj \subseteq Table
     /\ set' = [set EXCEPT ![n] = (@ \cup ((cmd.src \cap Table) \ skip[n])) \ gone]
     /\ local' = [local EXCEPT ![n] = @ \ gone]
     /\ cmd' = [cmd EXCEPT !.at = "expand"]
     /\ UNCHANGED <<log, pos, ver, skip, cmds>>

\* sync_seq_list.  It removes what is gone from the dictionary that it iterates over: the
\* error ends the command before the commit, which keeps nothing of what it did.
SyncSeqs ==
  LET n == cmd.node
      gone == (set[n] \cap Seqs) \ cmd.src
  IN /\ cmd.at = "sync" /\ cmd.obj \subseteq Seqs
     /\ IF gone # {} THEN Refuse
        ELSE /\ set' = [set EXCEPT ![n] = @ \cup ((cmd.src \cap Seqs) \ skip[n])]
             /\ cmd' = [cmd EXCEPT !.at = "expand"]
             /\ UNCHANGED <<log, pos, local, ver, skip, cmds>>

\* the provider has not attached the table; nobody asks that of a sequence
Missing(S) == S \subseteq Table /\ S \subseteq cmd.src /\ S \cap cmd.has = {}

\* expand_arg_list, and with no other source the check of the provider's: objects of
\* the set that are not attached
Expand ==
  /\ cmd.at = "expand"
  /\ IF ~(cmd.obj \subseteq set[cmd.node] \ local[cmd.node]) \/ (~cmd.find /\ Missing(cmd.obj))
     THEN Refuse
     ELSE Goto(IF cmd.find /\ cmd.create THEN "find" ELSE "attach")

\* find_copy_source, and the list of the node it found.  For the provider it
\* returns the name it was given, "?", which no node has.
FindSource ==
  LET n == cmd.node
      S == UNION {Sources(n, o) : o \in cmd.obj}
  IN /\ cmd.at = "find"
     /\ IF S = {} \/ n - 1 \in S THEN Refuse
        ELSE \E q \in S :
               /\ \A x \in S : x <= q
               /\ cmd' = [cmd EXCEPT !.at = "attach", !.src = set[q], !.has = local[q],
                                     !.from = q]
               /\ UNCHANGED <<log, pos, set, local, ver, skip, cmds>>

\* what add_table and add_seq need: something to create the object from
Possible(n, o) ==
  /\ o \in set[n] \ local[n]
  /\ ver[n][o] = 0 => cmd.create /\ ver[cmd.from][o] > 0 /\ (o \in Table => o \in cmd.src)

\* add_table / add_seq: an object that is missing is created as the source has it now
Attach(o) ==
  LET n == cmd.node
  IN /\ cmd.at = "attach" /\ o \in cmd.obj /\ Possible(n, o)
     /\ Careful => Pending(n, o) = {} /\ IF ver[n][o] = 0 THEN o \in local[cmd.from]
                                          ELSE ver[n][o] = ver[1][o]
     /\ ver' = [ver EXCEPT ![n][o] = IF @ = 0 THEN ver[cmd.from][o] ELSE @]
     /\ local' = [local EXCEPT ![n] = @ \cup {o}]
     /\ cmd' = NoCmd
     /\ UNCHANGED <<log, pos, set, skip, cmds>>

\* the command fails, or a careful administrator gives it up
GiveUp ==
  /\ cmd.at = "attach"
  /\ Careful \/ \E o \in cmd.obj : ~Possible(cmd.node, o)
  /\ Refuse

\* remove-table and remove-seq on another node
Detach(n, o) ==
  /\ cmd.at = "none" /\ cmds < MaxCmd /\ o \in local[n]
  /\ Careful => Pending(n, o) = {}
  /\ local' = [local EXCEPT ![n] = @ \ {o}]
  /\ cmds' = cmds + 1
  /\ UNCHANGED <<log, pos, set, ver, skip, cmd>>

-----------------------------------------------------------------------------
\* extra_init has given each new node the list of its provider, an empty one.  Each
\* node has skip lists of its own.
Init ==
  /\ log = <<>>
  /\ pos = [n \in Node |-> 0]
  /\ set = [n \in Node |-> {}]
  /\ local = [n \in Node |-> {}]
  /\ \E some \in SUBSET Obj :
       ver = [n \in Node |-> [o \in Obj |-> IF n = 1 \/ o \in some THEN 1 ELSE 0]]
  /\ skip \in [Node -> SUBSET Obj]
  /\ cmd = NoCmd /\ cmds = 0

Command ==
  \/ SyncTables \/ SyncSeqs \/ Expand \/ FindSource \/ GiveUp
  \/ \E o \in Obj : Attach(o)

Next ==
  \/ \E o \in Obj : RootAdd(o) \/ RootRemove(o)
  \/ \E S \in SUBSET Table : Execute(S)
  \/ \E n \in Below : Worker(n)
  \/ \E n \in Below, o \in Obj, create \in BOOLEAN, find \in BOOLEAN :
       ReadProvider(n, o, create, find)
  \/ \E n \in Below, o \in Obj : Detach(n, o)
  \/ Command

Spec == Init /\ [][Next]_vars

-----------------------------------------------------------------------------
(* Properties *)

\* The variables have their types, and no node is ahead of its provider.
TypeOK ==
  /\ log \in Seq(Event) /\ Len(log) <= MaxEvent
  /\ pos \in [Node -> 0..Len(log)] /\ \A n \in Node : n > 2 => pos[n] <= pos[n - 1]
  /\ set \in [Node -> SUBSET Obj] /\ local \in [Node -> SUBSET Obj]
  /\ ver \in [Node -> [Obj -> 0..(MaxEvent + 1)]] /\ skip \in [Node -> SUBSET Obj]
  /\ cmd.at \in Steps /\ cmd.node \in Node /\ cmds \in 0..MaxCmd

\* A node that has processed all events knows nothing that the root has removed or that
\* it skips, and everything else that its provider knows, and that the root has if no
\* node from there to here skips it: so whichever of its worker and the administrator
\* was first (admin.py:337-353, 478-496; playback.py:878-901).  Below a node that skips
\* a table its worker may know the table all the same.
SetsAgree ==
  \A n \in Below, o \in Obj : pos[n] = Len(log) =>
    /\ o \in set[n] => o \in set[1] /\ ~Skips(n, o)
    /\ o \in set[n - 1] /\ ~Skips(n, o) => o \in set[n]
    /\ o \in set[1] /\ (\A m \in 2..n : ~Skips(m, o)) => o \in set[n]

\* A node that has processed all events knows its provider's tables, except those it
\* skips.  Not so below a node that skips one.
SetsEqual ==
  \A n \in Below, t \in Table : pos[n] = Len(log) =>
    (t \in set[n] <=> t \in set[n - 1] /\ ~Skips(n, t))

\* No script stops a worker: on every node its tables are all attached or none is,
\* and they have the version that it was written for (exec_attrs.py:313-343).
NeverBlocked == \A n \in Below : ~Blocked(n)

\* An attached table has run exactly the scripts that its node has come to.
VersionExact ==
  \A n \in Below, t \in Table : t \in local[n] /\ t \in local[1] =>
    ver[n][t] + Cardinality(Pending(n, t)) = ver[1][t]

\* What is attached stays attached, until it is detached here or removed from the root,
\* unless a node above skips it (admin.py:337-370, 478-503; playback.py:888-901).
Kept ==
  [][\A n \in Below, o \in Obj : o \in local[n] /\ o \notin local'[n] =>
       o \notin set[1] \/ cmds' # cmds \/ \E m \in 2..(n - 1) : Skips(m, o)]_vars
=============================================================================
