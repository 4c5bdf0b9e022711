----------------------------- MODULE MCCascade ------------------------------
(* Cascade for TLC: tables are interchangeable. *)
EXTENDS Cascade, TLC

TableSymmetry == Permutations(Table)

\* Later on: every object was added and attached everywhere, and the events of that
\* have been processed.
InitAttached ==
  /\ log = <<>>
  /\ pos = [n \in Node |-> 0]
  /\ set = [n \in Node |-> Obj]
  /\ local = [n \in Node |-> Obj]
  /\ ver = [n \in Node |-> [o \in Obj |-> 1]]
  /\ skip = [n \in Node |-> {}]
  /\ cmd = NoCmd /\ cmds = 0

\* A bound: one node, not the root, skips one object at most; where one does, every
\* database has every object.
OneSkip ==
  /\ \A n, m \in Node : \A o \in skip[n], q \in skip[m] : n = m /\ o = q /\ n # 1
  /\ (\E n \in Node : skip[n] # {}) => \A n \in Node, o \in Obj : ver[n][o] = 1

InitNew == Init /\ OneSkip

SpecNew == InitNew /\ [][Next]_vars

SpecCascade == (InitNew \/ InitAttached) /\ [][Next]_vars
=============================================================================
