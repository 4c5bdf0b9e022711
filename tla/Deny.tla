-------------------------------- MODULE Deny --------------------------------
(***************************************************************************)
(* DenyTriggerManager: the triggers that keep everybody but the worker     *)
(* from changing a subscribed table, and the table deny_trigger_info that  *)
(* remembers which were created.  Replicator.__init__ runs it, so every    *)
(* process of a node does - the worker and each copy process - from the    *)
(* configuration it read when it started and from what it then found in    *)
(* deny_trigger_info; one transaction brings one table up to date.         *)
(***************************************************************************)
EXTENDS Integers, FiniteSets

CONSTANTS
  Table,
  Main,       \* the worker
  Copy,       \* places for copy processes
  Filter,     \* conditions of event_filter_config
  None,       \* no condition: the table is not partially synced
  MaxFault,   \* bound: crashes
  MaxChange,  \* bound: changes of the configuration
  Running,    \* the configuration may change while processes run
  AsMarked    \* the administrator's own triggers are those of the configuration

ASSUME DenyAssumption ==
  /\ Main \notin Copy /\ None \notin Filter
  /\ MaxFault \in Nat /\ MaxChange \in Nat /\ Running \in BOOLEAN /\ AsMarked \in BOOLEAN

VARIABLES
  local,   \* tables that the node has
  conf,    \* the configuration: the condition of each table
  mark,    \* deny_triggers_only_mark_state
  trig,    \* trig[t][k]: the trigger of type k that table t has
  info,    \* info[t][k]: the one that deny_trigger_info says it has
  pc,      \* where each process is: down, start, run, up
  want,    \* want[p]: the configuration p has read
  seen,    \* seen[p]: trigger_info of each table, as p has read it
  tabs,    \* tabs[p]: the tables p has read
  done,    \* done[p]: those it has brought up to date
  fault, change

vars == <<local, conf, mark, trig, info, pc, want, seen, tabs, done, fault, change>>

Proc == Copy \cup {Main}
Conf == [Table -> Filter \cup {None}]
Type == {"edit", "before", "after", "truncate"}
Absent == "absent"
Plain == "plain"      \* the text of a trigger without a condition
Definition == Filter \cup {Plain, Absent}
Set == [Type -> Definition]
NoTriggers == [k \in Type |-> Absent]
NoConf == [t \in Table |-> None]
NoInfo == [t \in Table |-> NoTriggers]

-----------------------------------------------------------------------------
(* One table *)

\* get_triggers_for_type: with a condition one trigger sees the row before and
\* one after the change, without it one is enough
Triggers(f) ==
  [k \in Type |->
     CASE k = "truncate" -> Plain
       [] k = "edit" -> IF f = None THEN Plain ELSE Absent
       [] OTHER -> IF f = None THEN Absent ELSE f]

\* types whose triggers the configuration w does not have any more
Unused(old, w) == {k \in Type : old[k] # Absent /\ w[k] = Absent}

\* mutant: a definition that changed is not noticed
Stale_types(old, w) == {k \in Type : w[k] # Absent /\ old[k] = Absent}

\* types whose triggers are not, or not so, in the bookkeeping
Stale(old, w) == {k \in Type : w[k] # Absent /\ old[k] # w[k]}

\* mutant: the original of a trigger that changed is not dropped
Dropped_unused(old, w) == Unused(old, w)

\* drop trigger if exists
Dropped(old, w) ==
  Unused(old, w) \cup IF mark THEN {} ELSE {k \in Stale(old, w) : old[k] # Absent}

\* create trigger
Created(old, w) == IF mark THEN {} ELSE Stale(old, w)

\* create trigger fails on one that is there
Clash(now, old, w) == \E k \in Created(old, w) \ Dropped(old, w) : now[k] # Absent

NewTriggers(now, old, w) ==
  [k \in Type |-> IF k \in Created(old, w) THEN w[k]
                  ELSE IF k \in Dropped(old, w) THEN Absent ELSE now[k]]

\* mutant: the rows of types that are not used any more stay
NewInfo_keep(now, old, w) ==
  [k \in Type |-> IF k \in Stale(old, w) THEN w[k] ELSE now[k]]

NewInfo(now, old, w) ==
  [k \in Type |-> IF k \in Stale(old, w) THEN w[k]
                  ELSE IF k \in Unused(old, w) THEN Absent ELSE now[k]]

-----------------------------------------------------------------------------
(* A process *)

\* load_config
Start(p) ==
  /\ pc[p] = "down"
  /\ pc' = [pc EXCEPT ![p] = "start"]
  /\ want' = [want EXCEPT ![p] = conf]
  /\ UNCHANGED <<local, conf, mark, trig, info, seen, tabs, done, fault, change>>

\* mutant: a table without rows has no trigger_info
ReadInfo_none(p) ==
  /\ pc[p] = "start"
  /\ seen' = [seen EXCEPT ![p] = [t \in {u \in Table : info[u] # NoTriggers} |-> info[t]]]
  /\ tabs' = [tabs EXCEPT ![p] = local]
  /\ done' = [done EXCEPT ![p] = {}]
  /\ pc' = [pc EXCEPT ![p] = "run"]
  /\ UNCHANGED <<local, conf, mark, trig, info, want, fault, change>>

\* get_destination_table_infos
ReadInfo(p) ==
  /\ pc[p] = "start"
  /\ seen' = [seen EXCEPT ![p] = info]
  /\ tabs' = [tabs EXCEPT ![p] = local]
  /\ done' = [done EXCEPT ![p] = {}]
  /\ pc' = [pc EXCEPT ![p] = "run"]
  /\ UNCHANGED <<local, conf, mark, trig, info, want, fault, change>>

\* create_missing_deny_triggers_for_table
UpdateTable(p, t) ==
  /\ pc[p] = "run" /\ t \in tabs[p] \ done[p]
  /\ LET old == seen[p][t]
         w == Triggers(want[p][t])
     IN /\ ~Clash(trig[t], old, w)
        /\ trig' = [trig EXCEPT ![t] = NewTriggers(@, old, w)]
        /\ info' = [info EXCEPT ![t] = NewInfo(@, old, w)]
  /\ done' = [done EXCEPT ![p] = @ \cup {t}]
  /\ UNCHANGED <<local, conf, mark, pc, want, seen, tabs, fault, change>>

\* the process ends, and with it what it knew
Exit(P) ==
  /\ pc' = [p \in Proc |-> IF p \in P THEN "down" ELSE pc[p]]
  /\ want' = [p \in Proc |-> IF p \in P THEN NoConf ELSE want[p]]
  /\ seen' = [p \in Proc |-> IF p \in P THEN NoInfo ELSE seen[p]]
  /\ tabs' = [p \in Proc |-> IF p \in P THEN {} ELSE tabs[p]]
  /\ done' = [p \in Proc |-> IF p \in P THEN {} ELSE done[p]]

\* an error when a script starts ends it
Die(p) ==
  /\ pc[p] = "run"
  /\ \E t \in tabs[p] \ done[p] : Clash(trig[t], seen[p][t], Triggers(want[p][t]))
  /\ Exit({p})
  /\ UNCHANGED <<local, conf, mark, trig, info, fault, change>>

Started(p) ==
  /\ pc[p] = "run" /\ tabs[p] = done[p]
  /\ pc' = [pc EXCEPT ![p] = "up"]
  /\ seen' = [seen EXCEPT ![p] = NoInfo]
  /\ tabs' = [tabs EXCEPT ![p] = {}]
  /\ UNCHANGED <<local, conf, mark, trig, info, want, done, fault, change>>

Crash(p) ==
  /\ pc[p] # "down" /\ fault < MaxFault
  /\ Exit({p})
  /\ fault' = fault + 1
  /\ UNCHANGED <<local, conf, mark, trig, info, change>>

-----------------------------------------------------------------------------
(* The administrator *)

\* its copy process starts in the place of one that has ended
AddTable(t, p) ==
  /\ t \notin local /\ ~mark /\ pc[p] \in {"down", "up"}
  /\ local' = local \cup {t}
  /\ Exit({p})
  /\ UNCHANGED <<conf, mark, trig, info, fault, change>>

\* the configuration is edited, as a rule while the node is stopped
Reconfigure ==
  /\ change < MaxChange /\ ~mark
  /\ conf' \in Conf \ {conf}
  /\ Exit(IF Running THEN {} ELSE Proc)
  /\ change' = change + 1
  /\ UNCHANGED <<local, mark, trig, info, fault>>

\* after an initial run that only marked what the administrator had created
UnMark ==
  /\ mark /\ \A t \in local : info[t] = Triggers(conf[t])
  /\ mark' = FALSE
  /\ Exit(Proc)
  /\ UNCHANGED <<local, conf, trig, info, fault, change>>

-----------------------------------------------------------------------------
\* The management is new on this node: there are no triggers, or the
\* administrator's own, which the first run is told to mark only.  Nothing in the
\* code compares those with the configuration.
Init ==
  /\ local \in SUBSET Table
  /\ conf \in Conf
  /\ mark \in BOOLEAN
  /\ \E own \in IF AsMarked THEN {[t \in Table |-> Triggers(conf[t])]} ELSE [Table -> Set] :
       trig = [t \in Table |-> IF mark /\ t \in local THEN own[t] ELSE NoTriggers]
  /\ info = NoInfo
  /\ pc = [p \in Proc |-> "down"]
  /\ want = [p \in Proc |-> NoConf]
  /\ seen = [p \in Proc |-> NoInfo]
  /\ tabs = [p \in Proc |-> {}]
  /\ done = [p \in Proc |-> {}]
  /\ fault = 0 /\ change = 0

Process(p) ==
  Start(p) \/ ReadInfo(p) \/ (\E t \in Table : UpdateTable(p, t)) \/ Die(p) \/ Started(p)

Next ==
  \/ \E p \in Proc : Process(p) \/ Crash(p)
  \/ \E t \in Table, p \in Copy : AddTable(t, p)
  \/ Reconfigure \/ UnMark

Spec == Init /\ [][Next]_vars

-----------------------------------------------------------------------------
(* Properties *)

\* The variables have their types.
TypeOK ==
  /\ local \subseteq Table /\ conf \in Conf /\ mark \in BOOLEAN
  /\ trig \in [Table -> Set] /\ info \in [Table -> Set]
  /\ pc \in [Proc -> {"down", "start", "run", "up"}]
  /\ want \in [Proc -> Conf] /\ seen \in [Proc -> [Table -> Set]]
  /\ tabs \in [Proc -> SUBSET Table] /\ done \in [Proc -> SUBSET Table]
  /\ fault \in 0..MaxFault /\ change \in 0..MaxChange

\* Whatever processes overlap, with whatever they have read, and wherever they die:
\* the bookkeeping names exactly the triggers that are there, or, while they are
\* only marked, none that is not there (deny_trigger_manager.py:100-136).
Recorded ==
  \A t \in Table, k \in Type :
    trig[t][k] = info[t][k] \/ (mark /\ info[t][k] = Absent)

\* A table that a process has brought up to date is protected as its configuration
\* says, and no other process, with what it has read before, undoes it.
Enforced ==
  \A p \in Proc : pc[p] \in {"run", "up"} /\ want[p] = conf =>
    \A t \in done[p] : trig[t] = Triggers(conf[t])

\* No process dies because a trigger "not yet applied" (deny_trigger_manager.py:82)
\* has been applied by another one.
NoClash == [][\A p \in Proc : ~Die(p)]_vars
=============================================================================
