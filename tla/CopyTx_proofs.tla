---------------------------- MODULE CopyTx_proofs ----------------------------
(***************************************************************************)
(* Proofs about CopyTx: for any queues, workers, blocks and number of      *)
(* failures, what is copied is there once, the table's objects come back,  *)
(* and its foreign keys never hold over missing rows - if failures strike  *)
(* where a copy can be repeated, and no worker of a failed copy is late.   *)
(***************************************************************************)
EXTENDS CopyTx, TLAPS

\* The case that the theorems are about; CopyLeadRetry and its relatives show the other.
Calm == ~AnyFault /\ ~LateWorkers

\* Each attempt but the first follows a failure; workers belong to attempts that began.
Tries ==
  \A p \in Part :
    /\ try[p] <= fault + 1
    /\ (\E w \in Worker : wk[p][try[p]][w] = "failed") => try[p] <= fault
    /\ \A g \in Try, w \in Worker : g > try[p] => wk[p][g][w] = "none"

TypeInv == TypeOK /\ Tries /\ cf.parts # {}

\* One queue fills the table, or several merge their partitions; the first one leads.
Solo == \A p, q \in cf.parts : p = q
Leads(p) == \A q \in cf.parts : p <= q

\* The lead has stored the dropped objects, and all may copy.
Ready == \E q \in cf.parts : saved[q]

\* Process p copies, alone or through workers that commit on their own.
Busy == {"copy", "copying", "sending", "joining", "copied"}
Active(p) == pc[p] \in {"sending", "joining", "copied"}

\* Where a process is, the state of its queue, and its part in the copy go together.
Control ==
  \A p \in cf.parts :
    /\ pc[p] \in {"wait", "fkeys", "prepare"} \cup Busy => st[p] = "in-copy"
    /\ pc[p] = "waitall" => st[p] = "catching-up" /\ ~Solo
    /\ st[p] \in {"wanna-sync", "ok"} => pc[p] = "idle"
    /\ pc[p] = "copying" => ~cf.threaded
    /\ Active(p) => cf.threaded

\* A role was loaded before, and still tells enough: only one process leads, the others
\* wait until all is ready, and who has no role is alone or finds all queues copied.
RolesAre ==
  \A p \in cf.parts : pc[p] # "idle" =>
    /\ role[p] = "none" => Solo \/ \A q \in cf.parts : st[q] # "in-copy"
    /\ role[p] = "lead" => Leads(p) /\ ~Solo
    /\ role[p] = "wait-copy" => st[p] = "in-copy"
    /\ role[p] = "wait-replay" => ~Solo /\ (st[p] = "in-copy" => Ready)

\* The mode of a copy is its role's; who merges copies only after the lead was there.
Modes ==
  \A p \in cf.parts :
    /\ pc[p] \in {"fkeys", "prepare"} \cup Busy =>
         /\ cmode[p] = 1 <=> Solo
         /\ cmode[p] = 2 => Leads(p) /\ role[p] = "lead"
    /\ pc[p] \in {"fkeys", "prepare"} => cmode[p] # 0
    /\ pc[p] \in Busy => Solo \/ Ready

\* The objects that were dropped are stored while partitions merge, and while only the
\* process remembers them nothing fails.
Objects ==
  /\ \A p \in cf.parts : saved[p] =>
       /\ ~Solo /\ Leads(p) /\ ~fk
       /\ st[p] = "catching-up" \/ (st[p] = "in-copy" /\ pc[p] \in Busy)
  /\ ~Solo /\ ~Ready => /\ ddl
                        /\ \A p, q \in cf.parts : st[p] = "in-copy" <=> st[q] = "in-copy"
  /\ Solo /\ (cf.threaded => fault = 0) => \A p \in cf.parts :
       /\ ddl \/ Active(p)
       /\ pc[p] \in Busy => found[p]

\* The lock that keeps everyone away is that of a single copy that has not begun to send.
Locks ==
  \A p \in cf.parts :
    /\ lock[p] = "exclusive" => Solo /\ pc[p] \in {"copy", "copying"} /\ Copying = {}
    /\ Solo /\ pc[p] \in {"copy", "copying"} => lock[p] = "exclusive"

\* Failures of a threaded copy strike only where it begins with an empty table.  Of an
\* attempt that failed only workers inside their COPY are left, and none of them is by the
\* time that the next attempt has the table.
Workers ==
  /\ cf.threaded /\ fault > 0 => Solo /\ ~cf.skip
  /\ \A p \in cf.parts, g \in Try, w \in Worker :
       /\ wk[p][g][w] \in {"started", "copying"} /\ g = try[p] => pc[p] \in {"sending", "joining"}
       /\ wk[p][g][w] = "started" => g = try[p]
       /\ wk[p][g][w] = "copying" => ~fk
       /\ wk[p][g][w] = "copying" /\ g < try[p] => ~Active(p) /\ st[p] = "in-copy"
       /\ wk[p][g][w] # "none" => cf.threaded
  /\ \A p \in cf.parts :
       /\ pc[p] \in {"joining", "copied"} => sent[p][try[p]] = NBlock
       /\ pc[p] = "copied" => \A w \in Worker : wk[p][try[p]][w] = "committed"

\* The rows of a partition are all there, those that the attempt's workers have
\* committed, or none where the copy does not clear the table.
Rows ==
  \A p \in cf.parts :
    /\ st[p] # "in-copy" => rows[p] = AllRows
    /\ Active(p) => \A b \in Block :
         rows[p][b] = IF wk[p][try[p]][OwnerOf(b)] = "committed" THEN 1 ELSE 0
    /\ st[p] = "in-copy" /\ ~Active(p) /\ (cf.skip \/ (~Solo /\ Ready)) => rows[p] = NoRows

\* Foreign keys are gone before the first row goes.
Fkeys ==
  /\ FkeysWhole
  /\ \A p \in cf.parts : pc[p] \in {"prepare"} \cup Busy => ~fk

IInv ==
  TypeInv /\ Control /\ RolesAre /\ Modes /\ Objects /\ Locks /\ Workers /\ Rows /\ Fkeys

-----------------------------------------------------------------------------
(* Types. *)

\* Blocks are dealt to the workers in turn.
LEMMA Turn == ASSUME NEW a \in Int, NEW n \in Nat, n > 0 PROVE a % n \in 0..(n - 1)
  OBVIOUS

\* A variable of the queues keeps its type when one queue's value changes.
LEMMA Updated ==
    ASSUME NEW S, NEW f \in [Part -> S], NEW p \in Part, NEW x \in S
    PROVE  [f EXCEPT ![p] = x] \in [Part -> S]
  OBVIOUS

\* A queue of the table is one of Part; attempts, workers and blocks are numbers.
LEMMA Basics ==
    ASSUME TypeOK
    PROVE  /\ cf.parts \subseteq Part /\ Part \subseteq Nat /\ Part \subseteq Int
           /\ MaxFault \in Nat /\ fault \in Nat /\ NBlock \in Nat /\ Parallel \in Nat
           /\ Try \subseteq Nat /\ Worker \subseteq Int /\ cf.threaded \in BOOLEAN /\ cf.skip \in BOOLEAN
           /\ \A p \in Part : try[p] \in Try /\ try[p] \in Nat
           /\ \A b \in Block : OwnerOf(b) \in Worker
  <1>1. /\ MaxFault \in Nat /\ NBlock \in Nat /\ Parallel \in Nat /\ Parallel > 0 /\ Part \subseteq Nat
    BY CopyAssumption
  <1>2. Try \subseteq Nat /\ Worker \subseteq Int
    BY <1>1 DEF Try, Worker
  <1>3. /\ cf.parts \subseteq Part /\ fault \in Nat
        /\ \A p \in Part : try[p] \in Try
    BY DEF TypeOK
  <1>6. cf.threaded \in BOOLEAN /\ cf.skip \in BOOLEAN
    BY DEF TypeOK
  <1>4. \A b \in Block : OwnerOf(b) \in Worker
    <2> SUFFICES ASSUME NEW b \in Block PROVE (b - 1) % Parallel \in 0..(Parallel - 1)
      BY DEF Worker, OwnerOf
    <2>1. b - 1 \in Int
      BY <1>1 DEF Block
    <2>2. Parallel \in Nat /\ Parallel > 0
      BY <1>1
    <2> QED BY <2>1, <2>2, Turn
  <1>5. Part \subseteq Int
    BY <1>1
  <1>7. \A p \in Part : try[p] \in Try /\ try[p] \in Nat
    <2> SUFFICES ASSUME NEW p \in Part PROVE try[p] \in Try /\ try[p] \in Nat
      OBVIOUS
    <2>1. try[p] \in Try
      BY <1>3
    <2> QED BY <1>2, <2>1
  <1> QED BY <1>1, <1>2, <1>3, <1>4, <1>5, <1>6, <1>7, Zenon

\* A role is one of four, a mode one of three, and it tells what the role is.
LEMMA RoleIs ==
    ASSUME NEW p
    PROVE  /\ Role(p) \in Roles
           /\ \A r \in Roles : /\ Mode(r) \in 0..2 /\ (Mode(r) = 1 <=> r = "none")
                               /\ Mode(r) = 2 <=> r = "lead"
  BY DEF Role, Roles, Mode

\* What a copy does to the rows.
LEMMA RowsType ==
    ASSUME TypeOK
    PROVE  /\ Cleared \in [Part -> [Block -> Nat]]
           /\ \A p \in Part : Cleared[p] = IF cf.skip THEN rows[p] ELSE NoRows
           /\ \A r \in [Part -> [Block -> Nat]], p \in Part, B \in SUBSET Block :
                /\ Added(r, p, B) \in [Part -> [Block -> Nat]]
                /\ \A q \in Part : q # p => Added(r, p, B)[q] = r[q]
                /\ \A b \in Block : Added(r, p, B)[p][b] = IF b \in B THEN r[p][b] + 1 ELSE r[p][b]
  <1>1. /\ Cleared \in [Part -> [Block -> Nat]]
        /\ \A p \in Part : Cleared[p] = IF cf.skip THEN rows[p] ELSE NoRows
    BY DEF Cleared, NoRows, TypeOK
  <1>2. ASSUME NEW r \in [Part -> [Block -> Nat]], NEW p \in Part, NEW B \in SUBSET Block
        PROVE  /\ Added(r, p, B) \in [Part -> [Block -> Nat]]
               /\ \A q \in Part : q # p => Added(r, p, B)[q] = r[q]
               /\ \A b \in Block : Added(r, p, B)[p][b] = IF b \in B THEN r[p][b] + 1 ELSE r[p][b]
    <2> DEFINE new == [b \in Block |-> IF b \in B THEN r[p][b] + 1 ELSE r[p][b]]
    <2>1. new \in [Block -> Nat]
      <3>1. r[p] \in [Block -> Nat]
        BY <1>2
      <3> QED BY <3>1
    <2>2. Added(r, p, B) = [r EXCEPT ![p] = new]
      BY DEF Added
    <2> QED BY <2>1, <2>2
  <1> QED BY <1>1, <1>2

\* What an attempt leaves behind.
LEMMA Abandoned ==
    ASSUME TypeOK, NEW p \in Part, Abandon(p)
    PROVE  /\ UNCHANGED <<cf, st, saved, ddl, fk, rows, role, cmode, found, sent>>
           /\ lock' = [lock EXCEPT ![p] = "none"] /\ pc' = [pc EXCEPT ![p] = "idle"]
           /\ \A q \in Part : q # p => try'[q] = try[q]
           /\ ~Active(p) => try' = try /\ wk' = wk
           /\ Active(p) =>
                /\ try' = [try EXCEPT ![p] = try[p] + 1]
                /\ wk' \in [Part -> [Try -> [Worker -> WorkerStates]]]
                /\ \A q \in Part, g \in Try, w \in Worker :
                     wk'[q][g][w] = IF /\ q = p /\ g = try[p] /\ wk[q][g][w] = "started"
                                       /\ ~LateWorkers
                                    THEN "failed" ELSE wk[q][g][w]
  <1>1. /\ UNCHANGED <<cf, st, saved, ddl, fk, rows, role, cmode, found, sent>>
        /\ lock' = [lock EXCEPT ![p] = "none"] /\ pc' = [pc EXCEPT ![p] = "idle"]
    BY DEF Abandon
  <1>2. ASSUME ~Active(p) PROVE try' = try /\ wk' = wk
    BY <1>2 DEF Abandon, Active
  <1>3. ASSUME Active(p)
        PROVE  /\ try' = [try EXCEPT ![p] = try[p] + 1]
               /\ wk' \in [Part -> [Try -> [Worker -> WorkerStates]]]
               /\ \A q \in Part, g \in Try, w \in Worker :
                    wk'[q][g][w] = IF /\ q = p /\ g = try[p] /\ wk[q][g][w] = "started"
                                      /\ ~LateWorkers
                                   THEN "failed" ELSE wk[q][g][w]
    <2> DEFINE new == [w \in Worker |-> IF wk[p][try[p]][w] = "started" /\ ~LateWorkers
                                        THEN "failed" ELSE wk[p][try[p]][w]]
    <2>1. /\ try' = [try EXCEPT ![p] = try[p] + 1] /\ wk' = [wk EXCEPT ![p][try[p]] = new]
      BY <1>3 DEF Abandon, Active
    <2>2. try[p] \in Try /\ wk \in [Part -> [Try -> [Worker -> WorkerStates]]]
      BY DEF TypeOK
    <2>3. new \in [Worker -> WorkerStates]
      BY <2>2 DEF WorkerStates
    <2>4. wk' \in [Part -> [Try -> [Worker -> WorkerStates]]]
      BY <2>1, <2>2, <2>3
    <2>5. ASSUME NEW q \in Part, NEW g \in Try, NEW w \in Worker
          PROVE  wk'[q][g][w] = IF /\ q = p /\ g = try[p] /\ wk[q][g][w] = "started"
                                   /\ ~LateWorkers
                                THEN "failed" ELSE wk[q][g][w]
      <3>1. CASE q = p /\ g = try[p]
        BY <2>1, <2>2, <3>1
      <3>2. CASE ~(q = p /\ g = try[p])
        BY <2>1, <2>2, <3>2
      <3> QED BY <3>1, <3>2
    <2> QED BY <2>1, <2>4, <2>5
  <1> QED
    <2>1. \A q \in Part : q # p => try'[q] = try[q]
      BY <1>2, <1>3 DEF TypeOK
    <2> QED BY <1>1, <1>2, <1>3, <2>1

\* The types hold at the start.
LEMMA InitType == Init => TypeInv
  <1> SUFFICES ASSUME Init PROVE TypeInv
    OBVIOUS
  <1>1. /\ MaxFault \in Nat /\ NBlock \in Nat /\ Part # {} /\ Part \subseteq Nat /\ 1 \in Try
        /\ 0 \in 0..MaxFault /\ 0 \in 0..NBlock
    BY CopyAssumption DEF Try
  <1>2. NoRows \in [Block -> Nat] /\ AllRows \in [Block -> Nat]
    BY DEF NoRows, AllRows
  <1>3. rows \in [Part -> [Block -> Nat]] /\ fk \in BOOLEAN
    <2>1. PICK old \in {NoRows, AllRows} :
            /\ rows = [p \in Part |-> IF p \in cf.parts THEN old ELSE NoRows]
            /\ fk \in {FALSE, old = AllRows}
      BY DEF Init
    <2>2. old \in [Block -> Nat]
      BY <1>2
    <2>3. rows \in [Part -> [Block -> Nat]]
      BY <1>2, <2>1, <2>2
    <2> QED BY <2>1, <2>3
  <1>4. /\ cf \in [parts : SUBSET Part, threaded : BOOLEAN, skip : BOOLEAN] /\ cf.parts # {}
    <2>1. PICK n \in Part, b \in BOOLEAN, c \in BOOLEAN :
            cf = [parts |-> {q \in Part : q <= n}, threaded |-> b, skip |-> c]
      BY DEF Init
    <2>2. n \in {q \in Part : q <= n}
      BY <1>1
    <2> QED BY <2>1, <2>2
  <1>5. /\ st \in [Part -> States] /\ saved \in [Part -> BOOLEAN] /\ ddl \in BOOLEAN
        /\ pc \in [Part -> Places] /\ role \in [Part -> Roles] /\ cmode \in [Part -> 0..2]
        /\ found \in [Part -> BOOLEAN] /\ lock \in [Part -> {"none", "row", "exclusive"}]
    BY DEF Init, States, Places, Roles
  <1>6. /\ try \in [Part -> Try] /\ sent \in [Part -> [Try -> 0..NBlock]] /\ fault \in 0..MaxFault
        /\ wk \in [Part -> [Try -> [Worker -> WorkerStates]]]
    BY <1>1 DEF Init, WorkerStates
  <1>7. Tries
    <2>1. \A p \in Part, g \in Try, w \in Worker : wk[p][g][w] = "none"
      BY DEF Init
    <2>2. fault = 0 /\ \A p \in Part : try[p] = 1
      BY DEF Init
    <2> QED BY <1>1, <2>1, <2>2 DEF Tries
  <1> QED BY <1>3, <1>4, <1>5, <1>6, <1>7 DEF TypeInv, TypeOK

\* The steps of Next, one by one.
LEMMA StepsAre ==
    ASSUME [Next]_vars
    PROVE  \/ UNCHANGED vars \/ RestoreFkeys
           \/ \E p \in cf.parts :
                \/ Load(p) \/ BeginCopy(p) \/ MergeWait(p) \/ WaitCopy(p) \/ WaitAll(p)
                \/ RestoreDdl(p) \/ LeadDone(p) \/ WannaSync(p) \/ HandOver(p)
                \/ ChooseMode(p) \/ DropFkeys(p) \/ Prepare(p) \/ CopyIn(p) \/ Spawn(p)
                \/ SendBlock(p) \/ ClosePipes(p) \/ Joined(p) \/ Commit(p)
                \/ WorkerLost(p) \/ Fail(p) \/ \E w \in Worker : WorkerFails(p, w)
                \/ \E g \in Try, w \in Worker : WorkerCopies(p, g, w) \/ WorkerCommits(p, g, w)
  BY DEF Next, Process, WorkerStep

\* Every step keeps the types, failures of any kind included.
LEMMA TypeStep == TypeInv /\ [Next]_vars => TypeInv'
  <1> SUFFICES ASSUME TypeInv, [Next]_vars PROVE TypeInv'
    OBVIOUS
  <1>0. TypeOK /\ Tries
    BY DEF TypeInv
  <1>20. /\ {"idle", "sync", "wait", "fkeys", "prepare", "copy", "copying", "sending", "joining",
             "copied", "waitall"} \subseteq Places
         /\ {"catching-up", "wanna-sync", "ok"} \subseteq States
    BY DEF Places, States
  <1>21. pc \in [Part -> Places]
    BY <1>0 DEF TypeOK
  <1>22. st \in [Part -> States]
    BY <1>0 DEF TypeOK
  <1>23. lock \in [Part -> {"none", "row", "exclusive"}]
    BY <1>0 DEF TypeOK
  <1>24. saved \in [Part -> BOOLEAN] /\ ddl \in BOOLEAN
    BY <1>0 DEF TypeOK
  <1>25. cmode \in [Part -> 0..2] /\ role \in [Part -> Roles]
    BY <1>0 DEF TypeOK
  <1>26. found \in [Part -> BOOLEAN]
    BY <1>0 DEF TypeOK
  <1>1. CASE UNCHANGED vars \/ RestoreFkeys
    <2>1. /\ UNCHANGED <<cf, st, saved, ddl, rows, pc, role, cmode, found, lock, try, sent, wk, fault>>
          /\ fk' \in BOOLEAN
      BY <1>0, <1>1 DEF vars, RestoreFkeys, TypeOK
    <2>2. Tries' /\ cf.parts' # {}
      BY <2>1 DEF TypeInv, Tries
    <2>3. TypeOK'
      BY <1>0, <2>1 DEF TypeOK
    <2> QED BY <2>2, <2>3 DEF TypeInv
  <1>2. ASSUME NEW p \in cf.parts PROVE p \in Part
    BY <1>0, Basics
  <1>3. ASSUME NEW p \in cf.parts,
               \/ Load(p) \/ BeginCopy(p) \/ MergeWait(p) \/ WaitCopy(p) \/ WaitAll(p)
               \/ RestoreDdl(p) \/ LeadDone(p) \/ WannaSync(p) \/ HandOver(p)
        PROVE  TypeInv'
    <2>1. /\ UNCHANGED <<cf, fk, rows, cmode, found, lock, try, sent, wk, fault>>
          /\ st' \in [Part -> States] /\ pc' \in [Part -> Places] /\ role' \in [Part -> Roles]
          /\ saved' \in [Part -> BOOLEAN] /\ ddl' \in BOOLEAN
      <3>1. CASE Load(p) \/ WaitCopy(p) \/ WaitAll(p)
        <4>1. Role(p) \in Roles /\ p \in Part
          BY <1>2, RoleIs
        <4>2. /\ role' = [role EXCEPT ![p] = Role(p)] /\ UNCHANGED <<st, saved, ddl>>
              /\ pc' = pc \/ pc' = [pc EXCEPT ![p] = "sync"]
              /\ UNCHANGED <<cf, fk, rows, cmode, found, lock, try, sent, wk, fault>>
          BY <3>1 DEF Load, WaitCopy, WaitAll
        <4>3. role' \in [Part -> Roles]
          BY <1>25, <4>1, <4>2, Updated
        <4>4. pc' \in [Part -> Places]
          BY <1>20, <1>21, <4>1, <4>2, Updated
        <4> QED BY <1>0, <4>2, <4>3, <4>4 DEF TypeOK
      <3>2. CASE BeginCopy(p) \/ MergeWait(p) \/ WannaSync(p) \/ HandOver(p)
        <4>1. /\ pc' = pc \/ \E x \in {"wait", "idle"} : pc' = [pc EXCEPT ![p] = x]
              /\ st' = st \/ \E x \in {"wanna-sync", "ok"} : st' = [st EXCEPT ![p] = x]
              /\ UNCHANGED <<cf, fk, rows, cmode, found, lock, try, sent, wk, fault, role, saved, ddl>>
          BY <3>2 DEF BeginCopy, MergeWait, WannaSync, HandOver
        <4>2. pc' \in [Part -> Places]
          BY <1>2, <1>20, <1>21, <1>22, <1>23, <1>24, <4>1, Updated
        <4>3. st' \in [Part -> States]
          BY <1>2, <1>20, <1>21, <1>22, <1>23, <1>24, <4>1, Updated
        <4> QED BY <1>0, <4>1, <4>2, <4>3 DEF TypeOK
      <3>3. CASE RestoreDdl(p) \/ LeadDone(p)
        <4>1. /\ pc' = [pc EXCEPT ![p] = "idle"] /\ saved' = [saved EXCEPT ![p] = FALSE]
              /\ ddl' = TRUE \/ ddl' = (ddl \/ saved[p])
              /\ UNCHANGED <<cf, fk, rows, cmode, found, lock, try, sent, wk, fault, role, st>>
          BY <3>3 DEF RestoreDdl, LeadDone
        <4>2. pc' \in [Part -> Places] /\ saved' \in [Part -> BOOLEAN]
          BY <1>2, <1>20, <1>21, <1>22, <1>23, <1>24, <4>1, Updated
        <4> QED BY <1>0, <4>1, <4>2 DEF TypeOK
      <3> QED BY <1>3, <3>1, <3>2, <3>3
    <2> QED BY <1>0, <2>1 DEF TypeInv, TypeOK, Tries
  <1>4. ASSUME NEW p \in cf.parts,
               \/ ChooseMode(p) \/ DropFkeys(p) \/ Prepare(p) \/ CopyIn(p)
               \/ SendBlock(p) \/ ClosePipes(p) \/ Joined(p) \/ Commit(p)
        PROVE  TypeInv'
    <2>1. UNCHANGED <<cf, role, try, wk, fault>>
      BY <1>4 DEF ChooseMode, DropFkeys, Prepare, CopyIn, SendBlock, ClosePipes, Joined, Commit
    <2>2. /\ st' \in [Part -> States] /\ pc' \in [Part -> Places] /\ cmode' \in [Part -> 0..2]
          /\ saved' \in [Part -> BOOLEAN] /\ ddl' \in BOOLEAN /\ fk' \in BOOLEAN
          /\ found' \in [Part -> BOOLEAN] /\ rows' \in [Part -> [Block -> Nat]]
          /\ lock' \in [Part -> {"none", "row", "exclusive"}]
          /\ sent' \in [Part -> [Try -> 0..NBlock]]
      <3>1. CASE ChooseMode(p)
        <4>1. Mode(role[p]) \in 0..2
          BY <1>0, <1>2, RoleIs DEF TypeOK
        <4>2. /\ cmode' = [cmode EXCEPT ![p] = Mode(role[p])]
              /\ \E x \in {"fkeys", "copy"} : pc' = [pc EXCEPT ![p] = x]
              /\ UNCHANGED <<st, saved, ddl, fk, found, rows, lock, sent>>
          BY <3>1 DEF ChooseMode
        <4>3. cmode' \in [Part -> 0..2]
          BY <1>2, <1>25, <4>1, <4>2, Updated
        <4>4. pc' \in [Part -> Places]
          BY <1>2, <1>20, <1>21, <4>2, Updated
        <4> QED BY <1>0, <4>2, <4>3, <4>4 DEF TypeOK
      <3>2. CASE DropFkeys(p) \/ CopyIn(p) \/ ClosePipes(p) \/ Joined(p)
        <4>1. /\ \E x \in {"prepare", "copying", "joining", "copied"} : pc' = [pc EXCEPT ![p] = x]
              /\ lock' = lock \/ lock' = [lock EXCEPT ![p] = IF lock[p] = "none" THEN "row" ELSE lock[p]]
              /\ fk' \in {fk, FALSE}
              /\ UNCHANGED <<st, cmode, saved, ddl, found, rows, sent>>
          BY <3>2 DEF DropFkeys, CopyIn, ClosePipes, Joined
        <4>2. pc' \in [Part -> Places]
          BY <1>2, <1>20, <1>21, <1>22, <1>23, <1>24, <4>1, Updated
        <4>3. lock' \in [Part -> {"none", "row", "exclusive"}]
          <5>1. (IF lock[p] = "none" THEN "row" ELSE lock[p]) \in {"none", "row", "exclusive"}
            BY <1>2, <1>23
          <5> QED BY <1>2, <1>23, <4>1, <5>1, Updated
        <4> QED BY <1>0, <4>1, <4>2, <4>3 DEF TypeOK
      <3>3. CASE Prepare(p)
        <4>1. /\ found' = [found EXCEPT ![p] = ddl] /\ pc' = [pc EXCEPT ![p] = "copy"]
              /\ saved' = saved \/ saved' = [saved EXCEPT ![p] = ddl]
              /\ ddl' \in {ddl, FALSE} /\ rows' \in {rows, Cleared}
              /\ lock' = lock \/ lock' = [lock EXCEPT ![p] = "exclusive"]
              /\ UNCHANGED <<st, cmode, fk, sent>>
          BY <3>3 DEF Prepare
        <4>2. Cleared \in [Part -> [Block -> Nat]]
          BY <1>0, RowsType
        <4>3. found' \in [Part -> BOOLEAN]
          BY <1>2, <1>20, <1>21, <1>22, <1>23, <1>24, <1>26, <4>1, Updated
        <4>4. saved' \in [Part -> BOOLEAN]
          BY <1>2, <1>20, <1>21, <1>22, <1>23, <1>24, <1>26, <4>1, Updated
        <4>5. pc' \in [Part -> Places]
          BY <1>2, <1>20, <1>21, <1>22, <1>23, <1>24, <4>1, Updated
        <4>6. lock' \in [Part -> {"none", "row", "exclusive"}]
          BY <1>2, <1>20, <1>21, <1>22, <1>23, <1>24, <1>26, <4>1, Updated
        <4> QED BY <1>0, <4>1, <4>2, <4>3, <4>4, <4>5, <4>6 DEF TypeOK
      <3>4. CASE SendBlock(p)
        <4>1. /\ sent[p][try[p]] \in 0..NBlock /\ sent[p][try[p]] < NBlock /\ NBlock \in Nat
              /\ sent' = [sent EXCEPT ![p][try[p]] = sent[p][try[p]] + 1] /\ try[p] \in Try
          BY <1>0, <1>2, <3>4, Basics DEF SendBlock, TypeOK
        <4>2. sent' \in [Part -> [Try -> 0..NBlock]]
          BY <1>0, <1>2, <4>1 DEF TypeOK
        <4> QED BY <1>0, <3>4, <4>2 DEF SendBlock, TypeOK
      <3>5. CASE Commit(p)
        <4>1. rows' \in [Part -> [Block -> Nat]]
          <5>1. rows \in [Part -> [Block -> Nat]] /\ Block \in SUBSET Block
            BY <1>0 DEF TypeOK
          <5>2. /\ Added(Cleared, p, Block) \in [Part -> [Block -> Nat]]
                /\ Added(rows, p, Block) \in [Part -> [Block -> Nat]]
            BY <1>0, <1>2, <5>1, RowsType
          <5> QED BY <3>5, <5>1, <5>2 DEF Commit
        <4>2. /\ st' = [st EXCEPT ![p] = "catching-up"] /\ lock' = [lock EXCEPT ![p] = "none"]
              /\ \E x \in {"waitall", "idle"} : pc' = [pc EXCEPT ![p] = x]
              /\ ddl' \in {ddl, found[p]}
              /\ UNCHANGED <<saved, fk, cmode, found, sent>>
          BY <3>5 DEF Commit
        <4>3. st' \in [Part -> States] /\ lock' \in [Part -> {"none", "row", "exclusive"}]
          BY <1>2, <1>20, <1>22, <1>23, <4>2, Updated
        <4>4. pc' \in [Part -> Places] /\ ddl' \in BOOLEAN
          BY <1>2, <1>20, <1>21, <1>24, <1>26, <4>2, Updated
        <4> QED BY <1>0, <4>1, <4>2, <4>3, <4>4 DEF TypeOK
      <3> QED BY <1>4, <3>1, <3>2, <3>3, <3>4, <3>5
    <2> QED BY <1>0, <2>1, <2>2 DEF TypeInv, TypeOK, Tries
  <1>5. ASSUME NEW p \in cf.parts, NEW S, S \in [Worker -> WorkerStates \ {"none"}],
               UNCHANGED <<cf, try, sent>>, wk' = [wk EXCEPT ![p][try[p]] = S],
               st' \in [Part -> States], pc' \in [Part -> Places], role' \in [Part -> Roles],
               saved' \in [Part -> BOOLEAN], ddl' \in BOOLEAN, fk' \in BOOLEAN,
               found' \in [Part -> BOOLEAN], rows' \in [Part -> [Block -> Nat]],
               lock' \in [Part -> {"none", "row", "exclusive"}], cmode' \in [Part -> 0..2],
               fault' \in 0..MaxFault, fault <= fault',
               (\E w \in Worker : S[w] = "failed") => try[p] <= fault'
        PROVE  TypeInv'
    <2>1. wk' \in [Part -> [Try -> [Worker -> WorkerStates]]]
      BY <1>0, <1>2, <1>5 DEF TypeOK
    <2>2. TypeOK'
      BY <1>0, <1>5, <2>1 DEF TypeOK
    <2>3. Tries'
      <3>1. ASSUME NEW q \in Part, q # p PROVE wk'[q] = wk[q]
        BY <1>0, <1>2, <1>5, <3>1 DEF TypeOK
      <3>2. /\ wk'[p][try[p]] = S /\ \A g \in Try : g # try[p] => wk'[p][g] = wk[p][g]
        BY <1>0, <1>2, <1>5, Basics DEF TypeOK
      <3>3. /\ \A q \in Part : try[q] \in Nat /\ try[q] \in Try
            /\ fault \in Nat /\ fault' \in Nat /\ Try \subseteq Nat
        BY <1>0, <1>5, Basics
      <3>4. ASSUME NEW q \in Part
            PROVE  /\ try[q] <= fault' + 1
                   /\ (\E w \in Worker : wk'[q][try[q]][w] = "failed") => try[q] <= fault'
                   /\ \A g \in Try, w \in Worker : g > try[q] => wk'[q][g][w] = "none"
        <4>1. CASE q # p
          BY <1>0, <1>5, <3>1, <3>3, <4>1 DEF Tries
        <4>2. CASE q = p
          BY <1>0, <1>2, <1>5, <3>2, <3>3, <4>2 DEF Tries
        <4> QED BY <4>1, <4>2
      <3> QED BY <1>5, <3>4 DEF Tries
    <2> QED BY <1>5, <2>2, <2>3 DEF TypeInv
  <1>6. ASSUME NEW p \in cf.parts, Spawn(p) PROVE TypeInv'
    <2> DEFINE S == [w \in Worker |-> "started"]
    <2>1. S \in [Worker -> WorkerStates \ {"none"}] /\ \A w \in Worker : S[w] # "failed"
      BY DEF WorkerStates
    <2>2. /\ UNCHANGED <<cf, try, sent, st, saved, fk, role, cmode, found, fault>>
          /\ wk' = [wk EXCEPT ![p][try[p]] = S]
      BY <1>6 DEF Spawn
    <2>3. /\ pc' \in [Part -> Places] /\ ddl' \in BOOLEAN /\ rows' \in [Part -> [Block -> Nat]]
          /\ lock' \in [Part -> {"none", "row", "exclusive"}]
      <3>1. /\ pc' = [pc EXCEPT ![p] = "sending"] /\ lock' = [lock EXCEPT ![p] = "none"]
            /\ ddl' \in {ddl, FALSE} /\ rows' \in {rows, Cleared}
        BY <1>6 DEF Spawn
      <3>2. rows \in [Part -> [Block -> Nat]] /\ Cleared \in [Part -> [Block -> Nat]]
        BY <1>0, RowsType DEF TypeOK
      <3>3. pc' \in [Part -> Places] /\ lock' \in [Part -> {"none", "row", "exclusive"}]
        BY <1>2, <1>20, <1>21, <1>23, <3>1, Updated
      <3> QED BY <1>24, <3>1, <3>2, <3>3
    <2>4. fault \in Nat /\ fault <= fault
      BY <1>0, Basics
    <2> HIDE DEF S
    <2> QED BY <1>0, <1>5, <2>1, <2>2, <2>3, <2>4 DEF TypeOK
  <1>7. ASSUME NEW p \in cf.parts, NEW w \in Worker, WorkerFails(p, w) PROVE TypeInv'
    <2> DEFINE S == [wk[p][try[p]] EXCEPT ![w] = "failed"]
    <2>1. /\ wk' = [wk EXCEPT ![p][try[p]] = S] /\ fault' = fault + 1 /\ fault < MaxFault
          /\ UNCHANGED <<cf, st, saved, ddl, fk, rows, pc, role, cmode, found, lock, try, sent>>
          /\ wk[p][try[p]][w] \in {"started", "copying"}
      BY <1>0, <1>2, <1>7, Basics DEF WorkerFails, TypeOK
    <2>2. TypeOK'
      <3>1. S \in [Worker -> WorkerStates]
        BY <1>0, <1>2, Basics DEF TypeOK, WorkerStates
      <3>2. wk' \in [Part -> [Try -> [Worker -> WorkerStates]]]
        BY <1>0, <1>2, <2>1, <3>1, Basics DEF TypeOK
      <3>3. fault' \in 0..MaxFault
        BY <1>0, <2>1, Basics
      <3> QED BY <1>0, <2>1, <3>2, <3>3 DEF TypeOK
    <2>3. Tries'
      <3>1. /\ \A q \in Part : try[q] \in Nat /\ try[q] <= fault + 1
            /\ fault \in Nat /\ Try \subseteq Nat
        BY <1>0, Basics DEF Tries
      <3>2. \A q \in Part, g \in Try, v \in Worker :
              g > try[q] => wk'[q][g][v] = wk[q][g][v]
        BY <1>0, <1>2, <2>1, <3>1, Basics DEF TypeOK
      <3> QED BY <1>0, <2>1, <3>1, <3>2 DEF Tries
    <2> QED BY <2>1, <2>2, <2>3 DEF TypeInv
  <1>8. ASSUME NEW p \in cf.parts, NEW g \in Try, NEW w \in Worker, NEW s \in {"copying", "committed"},
               UNCHANGED <<cf, st, saved, ddl, fk, pc, role, cmode, found, lock, try, sent, fault>>,
               wk' = [wk EXCEPT ![p][g][w] = s], wk[p][g][w] # "none",
               rows' \in [Part -> [Block -> Nat]]
        PROVE  TypeInv'
    <2>1. wk' \in [Part -> [Try -> [Worker -> WorkerStates]]]
      BY <1>0, <1>2, <1>8 DEF TypeOK, WorkerStates
    <2>2. TypeOK'
      BY <1>0, <1>8, <2>1 DEF TypeOK
    <2>3. \A q \in Part, h \in Try, v \in Worker :
            wk'[q][h][v] = IF q = p /\ h = g /\ v = w THEN s ELSE wk[q][h][v]
      BY <1>0, <1>2, <1>8 DEF TypeOK
    <2>4. \A q \in Part : try[q] \in Try
      BY <1>0, Basics
    <2>5. ~(g > try[p])
      BY <1>0, <1>2, <1>8 DEF Tries
    <2> QED BY <1>0, <1>8, <2>2, <2>3, <2>4, <2>5 DEF TypeInv, Tries
  <1>9. ASSUME NEW p \in cf.parts, NEW g \in Try, NEW w \in Worker,
               WorkerCopies(p, g, w) \/ WorkerCommits(p, g, w)
        PROVE  TypeInv'
    <2>1. CASE WorkerCopies(p, g, w)
      BY <1>0, <1>8, <2>1 DEF WorkerCopies, TypeOK
    <2>2. CASE WorkerCommits(p, g, w)
      <3>1. sent[p][g] \in 0..NBlock /\ NBlock \in Nat
        BY <1>0, <1>2, Basics DEF TypeOK
      <3>2. {b \in 1..sent[p][g] : OwnerOf(b) = w} \in SUBSET Block
        BY <3>1 DEF Block
      <3>3. rows \in [Part -> [Block -> Nat]]
        BY <1>0 DEF TypeOK
      <3>4. rows' \in [Part -> [Block -> Nat]]
        <4> DEFINE B == {b \in 1..sent[p][g] : OwnerOf(b) = w}
        <4>1. rows' = Added(rows, p, B)
          BY <2>2 DEF WorkerCommits
        <4>2. B \in SUBSET Block /\ p \in Part
          BY <1>2, <3>2
        <4> HIDE DEF B
        <4> QED BY <1>0, <3>3, <4>1, <4>2, RowsType
      <3> QED BY <1>8, <2>2, <3>4 DEF WorkerCommits
    <2> QED BY <1>9, <2>1, <2>2
  <1>10. ASSUME NEW p \in cf.parts, Abandon(p), fault' \in 0..MaxFault, fault <= fault',
                Active(p) => try[p] <= fault'
         PROVE  TypeInv'
    <2>1. /\ UNCHANGED <<cf, st, saved, ddl, fk, rows, role, cmode, found, sent>>
          /\ lock' = [lock EXCEPT ![p] = "none"] /\ pc' = [pc EXCEPT ![p] = "idle"]
          /\ \A q \in Part : q # p => try'[q] = try[q]
          /\ ~Active(p) => try' = try /\ wk' = wk
          /\ Active(p) =>
               /\ try' = [try EXCEPT ![p] = try[p] + 1]
               /\ wk' \in [Part -> [Try -> [Worker -> WorkerStates]]]
               /\ \A q \in Part, g \in Try, w \in Worker :
                    wk'[q][g][w] = IF /\ q = p /\ g = try[p] /\ wk[q][g][w] = "started"
                                      /\ ~LateWorkers
                                   THEN "failed" ELSE wk[q][g][w]
      BY <1>0, <1>2, <1>10, Abandoned
    <2>2. pc' \in [Part -> Places] /\ lock' \in [Part -> {"none", "row", "exclusive"}]
      BY <1>2, <1>20, <1>21, <1>23, <2>1, Updated
    <2>3. /\ \A q \in Part : try[q] \in Nat /\ try[q] \in Try /\ try[q] <= fault + 1
          /\ fault \in Nat /\ fault' \in Nat /\ Try \subseteq Nat /\ MaxFault \in Nat
      BY <1>0, <1>10, Basics DEF Tries
    <2>4. CASE ~Active(p)
      <3>1. try' = try /\ wk' = wk
        BY <2>1, <2>4
      <3>2. TypeOK'
        BY <1>0, <1>10, <2>1, <2>2, <3>1 DEF TypeOK
      <3>3. Tries'
        BY <1>0, <1>10, <2>3, <3>1 DEF Tries
      <3> QED BY <2>1, <3>2, <3>3 DEF TypeInv
    <2>5. CASE Active(p)
      <3>1. try[p] + 1 \in Try /\ try'[p] = try[p] + 1 /\ try' \in [Part -> Try]
        <4>1. try[p] + 1 \in Try
          BY <1>2, <1>10, <2>3, <2>5 DEF Try
        <4>2. try \in [Part -> Try] /\ try' = [try EXCEPT ![p] = try[p] + 1]
          BY <1>0, <2>1, <2>5 DEF TypeOK
        <4> QED BY <1>2, <4>1, <4>2, Updated
      <3>2. TypeOK'
        BY <1>0, <1>10, <2>1, <2>2, <2>5, <3>1 DEF TypeOK
      <3>3. ASSUME NEW q \in Part
            PROVE  /\ try'[q] <= fault' + 1
                   /\ (\E w \in Worker : wk'[q][try'[q]][w] = "failed") => try'[q] <= fault'
                   /\ \A g \in Try, w \in Worker : g > try'[q] => wk'[q][g][w] = "none"
        <4>1. CASE q # p
          <5>1. try'[q] = try[q] /\ \A g \in Try, w \in Worker : wk'[q][g][w] = wk[q][g][w]
            BY <2>1, <2>5, <4>1
          <5> QED BY <1>0, <1>10, <2>3, <5>1 DEF Tries
        <4>2. CASE q = p
          <5>1. ASSUME NEW g \in Try, NEW w \in Worker, g > try[p] PROVE wk'[p][g][w] = "none"
            <6>1. wk[p][g][w] = "none" /\ g # try[p]
              BY <1>0, <1>2, <2>3, <5>1 DEF Tries
            <6>2. \A r \in Part, h \in Try, v \in Worker : h # try[p] => wk'[r][h][v] = wk[r][h][v]
              BY <2>1, <2>5
            <6> QED BY <1>2, <6>1, <6>2
          <5>2. \A g \in Try, w \in Worker : g > try'[q] => wk'[q][g][w] = "none"
            BY <2>3, <3>1, <4>2, <5>1
          <5>3. ~ \E w \in Worker : wk'[q][try'[q]][w] = "failed"
            BY <2>3, <3>1, <4>2, <5>1
          <5>4. try'[q] <= fault' + 1
            BY <1>10, <2>3, <2>5, <3>1, <4>2
          <5> QED BY <5>2, <5>3, <5>4
        <4> QED BY <4>1, <4>2
      <3> QED BY <2>1, <3>2, <3>3 DEF TypeInv, Tries
    <2> QED BY <2>4, <2>5
  <1>11. ASSUME NEW p \in cf.parts, WorkerLost(p) \/ Fail(p) PROVE TypeInv'
    <2>1. try[p] \in Nat /\ fault \in Nat /\ try[p] <= fault + 1 /\ MaxFault \in Nat /\ fault <= MaxFault
      BY <1>0, <1>2, Basics DEF Tries, TypeOK
    <2>2. CASE WorkerLost(p)
      <3>1. Abandon(p) /\ fault' = fault /\ try[p] <= fault
        BY <1>0, <1>2, <2>2 DEF WorkerLost, Tries
      <3> QED BY <1>10, <2>1, <3>1
    <2>3. CASE Fail(p)
      <3>1. Abandon(p) /\ fault' = fault + 1 /\ fault < MaxFault
        BY <2>3 DEF Fail
      <3> QED BY <1>10, <2>1, <3>1
    <2> QED BY <1>11, <2>2, <2>3
  <1> QED BY <1>1, <1>3, <1>4, <1>6, <1>7, <1>9, <1>11, StepsAre

\* All variables keep their types, whatever fails.
THEOREM TypeCorrect == Spec => []TypeOK
  <1>1. TypeInv => TypeOK
    BY DEF TypeInv
  <1> QED BY <1>1, InitType, TypeStep, PTL DEF Spec

-----------------------------------------------------------------------------
(* The start, and what the parts of the invariant tell each other. *)

\* The variables that have a value for each queue.
LEMMA PerQueue ==
    ASSUME TypeOK
    PROVE  /\ pc \in [Part -> Places] /\ st \in [Part -> States] /\ saved \in [Part -> BOOLEAN]
           /\ role \in [Part -> Roles] /\ cmode \in [Part -> 0..2] /\ found \in [Part -> BOOLEAN]
           /\ lock \in [Part -> {"none", "row", "exclusive"}] /\ try \in [Part -> Try]
           /\ rows \in [Part -> [Block -> Nat]]
  BY Zenon DEF TypeOK

\* One value of a function changes.
LEMMA Changed ==
    ASSUME NEW S, NEW f \in [Part -> S], NEW p \in Part, NEW x
    PROVE  /\ [f EXCEPT ![p] = x][p] = x
           /\ \A q \in Part : q # p => [f EXCEPT ![p] = x][q] = f[q]
  OBVIOUS

\* The start satisfies the invariant.
LEMMA InitInv == Init => IInv
  <1> SUFFICES ASSUME Init PROVE IInv
    OBVIOUS
  <1>1. TypeInv /\ TypeOK
    BY InitType DEF TypeInv
  <1>2. cf.parts \subseteq Part
    BY <1>1, Basics
  <1>3. \A p \in cf.parts : /\ st[p] = "in-copy" /\ pc[p] = "idle" /\ ~saved[p] /\ lock[p] = "none"
    BY <1>2 DEF Init
  <1>4. \A p \in cf.parts, g \in Try, w \in Worker : wk[p][g][w] = "none"
    BY <1>2 DEF Init
  <1>5. ddl = TRUE /\ fault = 0
    BY DEF Init
  <1>6. PICK old \in {NoRows, AllRows} : /\ cf.skip => old = NoRows
                                         /\ \A p \in cf.parts : rows[p] = old
                                         /\ fk \in {FALSE, old = AllRows}
    BY <1>2 DEF Init
  <1>7. Control /\ RolesAre /\ Modes
    BY <1>3 DEF Control, RolesAre, Modes, Busy, Active
  <1>8. Objects /\ Locks
    BY <1>3, <1>5 DEF Objects, Locks, Busy
  <1>9. Workers
    BY <1>3, <1>4, <1>5 DEF Workers
  <1>10. Rows
    BY <1>3, <1>6 DEF Rows, Active, Ready
  <1>11. Fkeys
    BY <1>3, <1>6 DEF Fkeys, FkeysWhole, Busy
  <1> QED BY <1>1, <1>7, <1>8, <1>9, <1>10, <1>11 DEF IInv

\* A worker in its COPY is one of those that keep a LOCK TABLE waiting.
LEMMA IsCopying ==
    ASSUME NEW p \in cf.parts, NEW g \in Try, NEW w \in Worker, wk[p][g][w] = "copying"
    PROVE  Copying # {}
  <1>1. <<p, g, w>> \in Copying
    BY DEF Copying
  <1> QED BY <1>1

\* A table has one queue exactly when it is this one, and one lead.
LEMMA Single ==
    ASSUME TypeOK, NEW p \in cf.parts
    PROVE  /\ cf.parts = {p} <=> Solo
           /\ \A q \in cf.parts : Leads(p) /\ Leads(q) => q = p
  BY Basics DEF Solo, Leads

\* A role that is loaded tells what RolesAre says.
LEMMA RoleMeans ==
    ASSUME TypeOK, Objects, NEW p \in cf.parts
    PROVE  /\ Role(p) = "none" => Solo \/ \A q \in cf.parts : st[q] # "in-copy"
           /\ Role(p) = "lead" => Leads(p) /\ ~Solo
           /\ Role(p) = "wait-copy" => st[p] = "in-copy"
           /\ Role(p) = "wait-replay" => ~Solo /\ (st[p] = "in-copy" => Ready)
  <1> DEFINE holder == {q \in cf.parts : saved[q]}
  <1>1. cf.parts = {p} <=> Solo
    BY Single
  <1>2. holder # {} <=> Ready
    BY DEF Ready
  <1>3. CASE Solo \/ \A q \in cf.parts : st[q] # "in-copy"
    BY <1>1, <1>3 DEF Role
  <1>4. CASE ~(Solo \/ \A q \in cf.parts : st[q] # "in-copy")
    <2>1. CASE Ready
      <3>1. Role(p) = IF p \in holder THEN "lead" ELSE "wait-replay"
        BY <1>1, <1>2, <1>4, <2>1 DEF Role
      <3>2. p \in holder => Leads(p)
        BY DEF Objects
      <3> QED BY <1>4, <2>1, <3>1, <3>2
    <2>2. CASE ~Ready
      <3>1. Role(p) = IF \A q \in cf.parts : p <= q THEN "lead" ELSE "wait-copy"
        BY <1>1, <1>2, <1>4, <2>2 DEF Role
      <3>2. st[p] = "in-copy"
        BY <1>4, <2>2 DEF Objects
      <3> QED BY <1>4, <3>1, <3>2 DEF Leads
    <2> QED BY <2>1, <2>2
  <1> QED BY <1>3, <1>4

-----------------------------------------------------------------------------
(* The steps of a copy process. *)

\* A process loads its role, or moves on, and nothing else happens.
LEMMA QuietStep ==
    ASSUME IInv, NEW p \in cf.parts, [Next]_vars,
           Load(p) \/ BeginCopy(p) \/ MergeWait(p) \/ WaitCopy(p) \/ WaitAll(p)
    PROVE  IInv'
  <1>0. TypeOK /\ TypeInv' /\ p \in Part /\ cf.parts \subseteq Part
    BY TypeStep, Basics DEF IInv, TypeInv
  <1>1. UNCHANGED <<cf, st, saved, ddl, fk, rows, cmode, found, lock, try, sent, wk, fault>>
    BY DEF Load, BeginCopy, MergeWait, WaitCopy, WaitAll
  <1>2. /\ \A q \in cf.parts : q # p => pc'[q] = pc[q] /\ role'[q] = role[q]
        /\ role'[p] = role[p] \/ role'[p] = Role(p)
        /\ pc[p] = "idle" => role'[p] = Role(p)
        /\ pc[p] \in {"idle", "sync", "wait", "waitall"} /\ pc'[p] \in {"idle", "sync", "wait", "waitall"}
        /\ pc'[p] = "wait" => st[p] = "in-copy"
        /\ pc'[p] = "waitall" => pc[p] = "waitall"
        /\ st[p] \in {"wanna-sync", "ok"} => pc'[p] = "idle"
    <2>1. pc \in [Part -> Places] /\ role \in [Part -> Roles]
      BY <1>0, PerQueue
    <2>2. CASE Load(p)
      BY <1>0, <2>1, <2>2 DEF Load
    <2>3. CASE BeginCopy(p) \/ MergeWait(p)
      BY <1>0, <2>1, <2>3 DEF BeginCopy, MergeWait
    <2>4. CASE WaitCopy(p) \/ WaitAll(p)
      <3>1. st[p] # "wanna-sync" /\ st[p] # "ok" /\ (pc[p] = "wait" => st[p] = "in-copy")
        BY <2>4 DEF IInv, Control, WaitCopy, WaitAll
      <3> QED BY <1>0, <2>1, <2>4, <3>1 DEF WaitCopy, WaitAll
    <2> QED BY <2>2, <2>3, <2>4
  <1>3. /\ Solo' = Solo /\ Ready' = Ready /\ Copying' = Copying
        /\ \A q \in cf.parts : /\ Active(q)' = Active(q) /\ Leads(q)' = Leads(q)
                               /\ pc'[q] \in Busy <=> pc[q] \in Busy
                               /\ pc'[q] \in {"copy", "copying"} <=> pc[q] \in {"copy", "copying"}
                               /\ pc'[q] \in {"sending", "joining"} <=> pc[q] \in {"sending", "joining"}
    BY <1>1, <1>2 DEF Solo, Ready, Copying, Active, Leads, Busy
  <1>4. Control'
    BY <1>1, <1>2, <1>3 DEF IInv, Control, Busy
  <1>5. RolesAre'
    <2>1. /\ Role(p) = "none" => Solo \/ \A q \in cf.parts : st[q] # "in-copy"
          /\ Role(p) = "lead" => Leads(p) /\ ~Solo
          /\ Role(p) = "wait-copy" => st[p] = "in-copy"
          /\ Role(p) = "wait-replay" => ~Solo /\ (st[p] = "in-copy" => Ready)
      BY <1>0, RoleMeans DEF IInv
    <2> QED BY <1>1, <1>2, <1>3, <2>1 DEF IInv, RolesAre
  <1>6. Modes'
    BY <1>1, <1>2, <1>3 DEF IInv, Modes, Busy
  <1>7. Objects'
    BY <1>1, <1>2, <1>3 DEF IInv, Objects
  <1>8. Locks'
    BY <1>1, <1>2, <1>3 DEF IInv, Locks
  <1>9. Workers'
    BY <1>1, <1>2, <1>3 DEF IInv, Workers
  <1>10. Rows'
    BY <1>1, <1>2, <1>3 DEF IInv, Rows
  <1>11. Fkeys'
    BY <1>1, <1>2, <1>3 DEF IInv, Fkeys, FkeysWhole, Busy, AllRows
  <1> QED BY <1>0, <1>4, <1>5, <1>6, <1>7, <1>8, <1>9, <1>10, <1>11 DEF IInv

\* The stored objects come back, when all queues are copied, and the store is emptied.
LEMMA DdlStep ==
    ASSUME IInv, NEW p \in cf.parts, [Next]_vars, RestoreDdl(p) \/ LeadDone(p)
    PROVE  IInv'
  <1>0. TypeOK /\ TypeInv' /\ p \in Part /\ cf.parts \subseteq Part
    BY TypeStep, Basics DEF IInv, TypeInv
  <1>1. UNCHANGED <<cf, st, fk, rows, role, cmode, found, lock, try, sent, wk, fault>>
    BY DEF RestoreDdl, LeadDone
  <1>2. /\ \A q \in cf.parts : q # p => pc'[q] = pc[q] /\ saved'[q] = saved[q]
        /\ pc'[p] = "idle" /\ saved'[p] = FALSE /\ pc[p] \in {"sync", "waitall"}
        /\ saved[p] => ddl'
        /\ ddl => ddl'
    <2>1. pc \in [Part -> Places] /\ saved \in [Part -> BOOLEAN]
      BY <1>0, PerQueue
    <2>2. pc' = [pc EXCEPT ![p] = "idle"] /\ saved' = [saved EXCEPT ![p] = FALSE]
      BY DEF RestoreDdl, LeadDone
    <2>3. pc[p] \in {"sync", "waitall"} /\ (saved[p] => ddl') /\ (ddl => ddl')
      BY Zenon DEF RestoreDdl, LeadDone
    <2> QED BY <1>0, <2>1, <2>2, <2>3
  <1>3. ~Solo /\ \A q \in cf.parts : st[q] # "in-copy"
    <2>1. CASE RestoreDdl(p)
      <3>1. role[p] = "none"
        <4>1. /\ role[p] \in {"none", "lead", "wait-copy", "wait-replay"}
              /\ role[p] # "wait-replay" /\ role[p] # "lead" /\ pc[p] = "sync" /\ st[p] = "catching-up"
          BY <1>0, <2>1, PerQueue DEF RestoreDdl, Roles
        <4> QED BY <4>1 DEF IInv, RolesAre
      <3> QED BY <2>1, <3>1 DEF IInv, RolesAre, Objects, RestoreDdl
    <2>2. CASE LeadDone(p)
      BY <2>2 DEF IInv, Control, RolesAre, LeadDone
    <2> QED BY <2>1, <2>2
  <1>4. /\ Solo' = Solo /\ Copying' = Copying /\ (Ready => Ready' \/ ddl')
        /\ \A q \in cf.parts : /\ Active(q)' = Active(q) /\ Leads(q)' = Leads(q)
                               /\ pc'[q] \in Busy <=> pc[q] \in Busy
                               /\ pc'[q] \in {"copy", "copying"} <=> pc[q] \in {"copy", "copying"}
                               /\ pc'[q] \in {"sending", "joining"} <=> pc[q] \in {"sending", "joining"}
    BY <1>1, <1>2 DEF Solo, Ready, Copying, Active, Leads, Busy
  <1>5. Control'
    BY <1>1, <1>2, <1>3, <1>4 DEF IInv, Control, Busy
  <1>6. RolesAre'
    BY <1>1, <1>2, <1>3, <1>4 DEF IInv, RolesAre
  <1>7. Modes'
    BY <1>1, <1>2, <1>3, <1>4 DEF IInv, Modes, Busy, Control
  <1>8. Objects'
    BY <1>1, <1>2, <1>3, <1>4 DEF IInv, Objects
  <1>9. Locks'
    BY <1>1, <1>2, <1>4 DEF IInv, Locks
  <1>10. Workers'
    BY <1>1, <1>2, <1>4 DEF IInv, Workers
  <1>11. Rows'
    BY <1>1, <1>2, <1>3, <1>4 DEF IInv, Rows
  <1>12. Fkeys'
    BY <1>1, <1>2, <1>4 DEF IInv, Fkeys, FkeysWhole, Busy, AllRows
  <1> QED BY <1>0, <1>5, <1>6, <1>7, <1>8, <1>9, <1>10, <1>11, <1>12 DEF IInv

\* A copy that has caught up is handed over; it has no stored objects left.
LEMMA StateStep ==
    ASSUME IInv, NEW p \in cf.parts, [Next]_vars, WannaSync(p) \/ HandOver(p)
    PROVE  IInv'
  <1>0. TypeOK /\ TypeInv' /\ p \in Part /\ cf.parts \subseteq Part
    BY TypeStep, Basics DEF IInv, TypeInv
  <1>1. UNCHANGED <<cf, saved, ddl, fk, rows, role, cmode, found, lock, try, sent, wk, fault>>
    BY DEF WannaSync, HandOver
  <1>2. /\ \A q \in cf.parts : q # p => pc'[q] = pc[q] /\ st'[q] = st[q]
        /\ pc'[p] = "idle" /\ pc[p] \in {"sync", "idle"}
        /\ st[p] \in {"catching-up", "wanna-sync"} /\ st'[p] \in {"wanna-sync", "ok"} /\ ~saved[p]
    <2>1. pc \in [Part -> Places] /\ st \in [Part -> States]
      BY <1>0, PerQueue
    <2>2. CASE WannaSync(p)
      BY <1>0, <2>1, <2>2 DEF WannaSync
    <2>3. CASE HandOver(p)
      <3>1. pc[p] = "idle" /\ ~saved[p]
        BY <2>3 DEF IInv, Control, Objects, HandOver
      <3> QED BY <1>0, <2>1, <2>3, <3>1 DEF HandOver
    <2> QED BY <2>2, <2>3
  <1>3. /\ Solo' = Solo /\ Ready' = Ready /\ Copying' = Copying
        /\ \A q \in cf.parts : /\ Active(q)' = Active(q) /\ Leads(q)' = Leads(q)
                               /\ pc'[q] \in Busy <=> pc[q] \in Busy
                               /\ pc'[q] \in {"copy", "copying"} <=> pc[q] \in {"copy", "copying"}
                               /\ pc'[q] \in {"sending", "joining"} <=> pc[q] \in {"sending", "joining"}
                               /\ st'[q] = "in-copy" <=> st[q] = "in-copy"
    BY <1>1, <1>2 DEF Solo, Ready, Copying, Active, Leads, Busy
  <1>4. Control'
    BY <1>1, <1>2, <1>3 DEF IInv, Control, Busy
  <1>5. RolesAre'
    BY <1>1, <1>2, <1>3 DEF IInv, RolesAre
  <1>6. Modes'
    BY <1>1, <1>2, <1>3 DEF IInv, Modes, Busy
  <1>7. Objects'
    BY <1>1, <1>2, <1>3 DEF IInv, Objects
  <1>8. Locks'
    BY <1>1, <1>2, <1>3 DEF IInv, Locks
  <1>9. Workers'
    BY <1>1, <1>2, <1>3 DEF IInv, Workers
  <1>10. Rows'
    BY <1>1, <1>2, <1>3 DEF IInv, Rows
  <1>11. Fkeys'
    BY <1>1, <1>2, <1>3 DEF IInv, Fkeys, FkeysWhole, Busy, AllRows
  <1> QED BY <1>0, <1>4, <1>5, <1>6, <1>7, <1>8, <1>9, <1>10, <1>11 DEF IInv

\* A process that has a role, and need not wait, has the mode of its role.
LEMMA ModeStep ==
    ASSUME IInv, NEW p \in cf.parts, [Next]_vars, ChooseMode(p)
    PROVE  IInv'
  <1>0. TypeOK /\ TypeInv' /\ p \in Part /\ cf.parts \subseteq Part
    BY TypeStep, Basics DEF IInv, TypeInv
  <1>1. UNCHANGED <<cf, st, saved, ddl, fk, rows, role, found, lock, try, sent, wk, fault>>
    BY DEF ChooseMode
  <1>2. /\ \A q \in cf.parts : q # p => pc'[q] = pc[q] /\ cmode'[q] = cmode[q]
        /\ pc[p] = "wait" /\ cmode'[p] = Mode(role[p]) /\ role[p] # "wait-copy"
        /\ pc'[p] = IF cmode'[p] > 0 THEN "fkeys" ELSE "copy"
    <2>1. pc \in [Part -> Places] /\ cmode \in [Part -> 0..2]
      BY <1>0, PerQueue
    <2> QED BY <1>0, <2>1 DEF ChooseMode
  <1>3. /\ st[p] = "in-copy" /\ cmode'[p] \in 0..2
        /\ (cmode'[p] = 1 <=> Solo) /\ (cmode'[p] = 2 => Leads(p) /\ role[p] = "lead")
        /\ cmode'[p] = 0 => ~Solo /\ Ready
    <2>1. st[p] = "in-copy"
      BY <1>2 DEF IInv, Control
    <2>2. /\ role[p] \in {"none", "lead", "wait-replay"} /\ role[p] \in Roles
          /\ role[p] = "none" => Solo
          /\ role[p] = "lead" => Leads(p) /\ ~Solo
          /\ role[p] = "wait-replay" => ~Solo /\ Ready
      <3>1. role[p] \in Roles
        BY <1>0, PerQueue
      <3> QED BY <1>2, <2>1, <3>1 DEF IInv, RolesAre, Roles
    <2>3. /\ Mode(role[p]) \in 0..2 /\ (Mode(role[p]) = 1 <=> role[p] = "none")
          /\ Mode(role[p]) = 2 <=> role[p] = "lead"
      BY <2>2, RoleIs
    <2> QED BY <1>2, <2>1, <2>2, <2>3
  <1>4. \/ pc'[p] = "fkeys" /\ cmode'[p] # 0
        \/ pc'[p] = "copy" /\ cmode'[p] = 0 /\ ~Solo /\ Ready
    <2>1. CASE cmode'[p] = 0
      BY <1>2, <1>3, <2>1
    <2>2. CASE cmode'[p] # 0
      <3>1. cmode'[p] > 0
        BY <1>3, <2>2
      <3> QED BY <1>2, <2>2, <3>1
    <2> QED BY <2>1, <2>2
  <1>5. /\ Solo' = Solo /\ Ready' = Ready /\ Copying' = Copying
        /\ \A q \in cf.parts : /\ Active(q)' = Active(q) /\ Leads(q)' = Leads(q)
                               /\ pc'[q] \in {"sending", "joining"} <=> pc[q] \in {"sending", "joining"}
    BY <1>1, <1>2, <1>4 DEF Solo, Ready, Copying, Active, Leads
  <1>6. Control'
    BY <1>1, <1>2, <1>3, <1>4, <1>5 DEF IInv, Control, Busy
  <1>7. RolesAre'
    BY <1>1, <1>2, <1>3, <1>4, <1>5 DEF IInv, RolesAre
  <1>8. Modes'
    BY <1>1, <1>2, <1>3, <1>4, <1>5 DEF IInv, Modes, Busy
  <1>9. Objects'
    BY <1>1, <1>2, <1>3, <1>4, <1>5 DEF IInv, Objects, Busy
  <1>10. Locks'
    BY <1>1, <1>2, <1>4, <1>5 DEF IInv, Locks
  <1>11. Workers'
    BY <1>1, <1>2, <1>4, <1>5 DEF IInv, Workers
  <1>12. Rows'
    BY <1>1, <1>2, <1>5 DEF IInv, Rows
  <1>13. Fkeys'
    BY <1>1, <1>2, <1>4 DEF IInv, Fkeys, FkeysWhole, Busy, AllRows, Objects, Ready
  <1> QED BY <1>0, <1>6, <1>7, <1>8, <1>9, <1>10, <1>11, <1>12, <1>13 DEF IInv

\* The foreign keys are dropped before the table is.
LEMMA DropStep ==
    ASSUME IInv, NEW p \in cf.parts, [Next]_vars, DropFkeys(p)
    PROVE  IInv'
  <1>0. TypeOK /\ TypeInv' /\ p \in Part /\ cf.parts \subseteq Part
    BY TypeStep, Basics DEF IInv, TypeInv
  <1>1. /\ UNCHANGED <<cf, st, saved, ddl, rows, role, cmode, found, lock, try, sent, wk, fault>>
        /\ fk' = FALSE
    BY DEF DropFkeys
  <1>2. /\ \A q \in cf.parts : q # p => pc'[q] = pc[q]
        /\ pc[p] = "fkeys" /\ pc'[p] = "prepare"
    <2>1. pc \in [Part -> Places]
      BY <1>0, PerQueue
    <2> QED BY <1>0, <2>1 DEF DropFkeys
  <1>3. /\ Solo' = Solo /\ Ready' = Ready /\ Copying' = Copying
        /\ \A q \in cf.parts : /\ Active(q)' = Active(q) /\ Leads(q)' = Leads(q)
                               /\ pc'[q] \in Busy <=> pc[q] \in Busy
                               /\ pc'[q] \in {"copy", "copying"} <=> pc[q] \in {"copy", "copying"}
                               /\ pc'[q] \in {"sending", "joining"} <=> pc[q] \in {"sending", "joining"}
    BY <1>1, <1>2 DEF Solo, Ready, Copying, Active, Leads, Busy
  <1>4. Control'
    BY <1>1, <1>2, <1>3 DEF IInv, Control, Busy
  <1>5. RolesAre'
    BY <1>1, <1>2, <1>3 DEF IInv, RolesAre
  <1>6. Modes'
    BY <1>1, <1>2, <1>3 DEF IInv, Modes, Busy
  <1>7. Objects'
    BY <1>1, <1>2, <1>3 DEF IInv, Objects
  <1>8. Locks'
    BY <1>1, <1>2, <1>3 DEF IInv, Locks
  <1>9. Workers'
    BY <1>1, <1>2, <1>3 DEF IInv, Workers
  <1>10. Rows'
    BY <1>1, <1>2, <1>3 DEF IInv, Rows
  <1>11. Fkeys'
    BY <1>1 DEF Fkeys, FkeysWhole
  <1> QED BY <1>0, <1>4, <1>5, <1>6, <1>7, <1>8, <1>9, <1>10, <1>11 DEF IInv

\* The lead of a merge stores the objects and clears the table, while all others wait; a
\* process that is alone locks the table.
LEMMA PrepareStep ==
    ASSUME IInv, NEW p \in cf.parts, [Next]_vars, Prepare(p)
    PROVE  IInv'
  <1>0. TypeOK /\ TypeInv' /\ p \in Part /\ cf.parts \subseteq Part
    BY TypeStep, Basics DEF IInv, TypeInv
  <1>1. /\ UNCHANGED <<cf, st, fk, role, cmode, try, sent, wk, fault>>
        /\ pc[p] = "prepare" /\ Free(p) /\ st[p] = "in-copy" /\ ~fk /\ ~saved[p]
        /\ (cmode[p] = 1 <=> Solo) /\ (cmode[p] = 2 => Leads(p)) /\ cmode[p] \in {1, 2}
    <2>1. pc[p] = "prepare" /\ Free(p) /\ UNCHANGED <<cf, st, fk, role, cmode, try, sent, wk, fault>>
      BY DEF Prepare
    <2>2. st[p] = "in-copy" /\ ~fk /\ ~saved[p]
      BY <2>1 DEF IInv, Control, Fkeys, Objects, Busy
    <2>3. (cmode[p] = 1 <=> Solo) /\ (cmode[p] = 2 => Leads(p)) /\ cmode[p] # 0
      BY <2>1 DEF IInv, Modes
    <2>4. cmode[p] \in 0..2
      BY <1>0, PerQueue
    <2> QED BY <2>1, <2>2, <2>3, <2>4
  <1>2. /\ \A q \in cf.parts : q # p => pc'[q] = pc[q] /\ found'[q] = found[q]
        /\ pc'[p] = "copy" /\ found'[p] = ddl
    <2>1. pc \in [Part -> Places] /\ found \in [Part -> BOOLEAN]
      BY <1>0, PerQueue
    <2>2. pc' = [pc EXCEPT ![p] = "copy"] /\ found' = [found EXCEPT ![p] = ddl]
      BY DEF Prepare
    <2> QED BY <1>0, <2>1, <2>2, Changed
  <1>3. /\ Solo' = Solo /\ Copying' = Copying /\ Copying = {}
        /\ \A q \in cf.parts : /\ Active(q)' = Active(q) /\ Leads(q)' = Leads(q)
                               /\ pc'[q] \in {"sending", "joining"} <=> pc[q] \in {"sending", "joining"}
                               /\ ~Active(p)
    BY <1>1, <1>2 DEF Solo, Copying, Active, Leads, Free
  <1>4. Control'
    BY <1>1, <1>2, <1>3 DEF IInv, Control, Busy
  <1>5. Workers'
    BY <1>1, <1>2, <1>3 DEF IInv, Workers
  <1>6. Fkeys'
    BY <1>1, <1>2 DEF IInv, Fkeys, FkeysWhole
  <1>7. CASE Solo
    <2>1. /\ UNCHANGED <<saved, ddl, rows>> /\ lock'[p] = "exclusive"
          /\ \A q \in cf.parts : q # p => lock'[q] = lock[q]
      <3>1. lock \in [Part -> {"none", "row", "exclusive"}] /\ cmode[p] # 2
        BY <1>0, <1>1, <1>7, PerQueue
      <3>2. lock' = [lock EXCEPT ![p] = "exclusive"] /\ UNCHANGED <<saved, ddl, rows>>
        BY <3>1 DEF Prepare
      <3> QED BY <1>0, <3>1, <3>2, Changed
    <2>2. /\ Ready' = Ready /\ \A q \in cf.parts : q = p
      BY <1>1, <1>7, <2>1 DEF Ready, Solo
    <2>3. RolesAre'
      BY <1>1, <1>2, <1>3, <2>1, <2>2 DEF IInv, RolesAre
    <2>4. Modes'
      BY <1>1, <1>2, <1>3, <1>7, <2>1, <2>2 DEF IInv, Modes, Busy
    <2>5. Objects'
      BY <1>1, <1>2, <1>3, <1>7, <2>1, <2>2 DEF IInv, Objects, Busy
    <2>6. Locks'
      BY <1>1, <1>2, <1>3, <1>7, <2>1, <2>2 DEF IInv, Locks
    <2>7. Rows'
      BY <1>1, <1>2, <1>3, <2>1, <2>2 DEF IInv, Rows
    <2> QED BY <1>0, <1>4, <1>5, <1>6, <2>3, <2>4, <2>5, <2>6, <2>7 DEF IInv
  <1>8. CASE ~Solo
    <2>1. ~Ready /\ ddl /\ \A q \in cf.parts : st[q] = "in-copy"
      <3>1. Leads(p)
        BY <1>1, <1>8
      <3>2. ~Ready
        BY <1>0, <1>1, <3>1, Single DEF Ready, IInv, Objects
      <3> QED BY <1>1, <1>8, <3>2 DEF IInv, Objects
    <2>2. /\ saved'[p] = TRUE /\ ddl' = FALSE /\ rows' = Cleared /\ UNCHANGED lock
          /\ \A q \in cf.parts : q # p => saved'[q] = saved[q]
      <3>1. saved \in [Part -> BOOLEAN] /\ cmode[p] = 2
        BY <1>0, <1>1, <1>8, PerQueue
      <3>2. saved' = [saved EXCEPT ![p] = ddl] /\ ddl' = FALSE /\ rows' = Cleared /\ UNCHANGED lock
        BY <1>1, <3>1 DEF Prepare
      <3> QED BY <1>0, <2>1, <3>1, <3>2, Changed
    <2>3. Ready' /\ \A q \in cf.parts : pc[q] \notin Busy /\ ~Active(q)
      BY <1>1, <1>8, <2>1, <2>2 DEF Ready, IInv, Modes, Busy, Active
    <2>4. RolesAre'
      BY <1>1, <1>2, <1>3, <2>3 DEF IInv, RolesAre
    <2>5. Modes'
      BY <1>1, <1>2, <1>3, <2>3 DEF IInv, Modes, Busy
    <2>6. Objects'
      BY <1>1, <1>2, <1>3, <1>8, <2>1, <2>2, <2>3 DEF IInv, Objects, Busy, Ready
    <2>7. Locks'
      BY <1>1, <1>2, <1>3, <1>8, <2>2 DEF IInv, Locks
    <2>8. Rows'
      <3>1. \A q \in cf.parts : rows'[q] = IF cf.skip THEN rows[q] ELSE NoRows
        BY <1>0, <2>2, RowsType
      <3>2. \A q \in cf.parts : cf.skip => rows[q] = NoRows
        BY <2>1, <2>3 DEF IInv, Rows
      <3>3. ~Active(p)' /\ NoRows' = NoRows /\ AllRows' = AllRows
        BY <1>2 DEF Active, NoRows, AllRows
      <3> QED BY <1>1, <1>2, <1>3, <2>1, <2>3, <3>1, <3>2, <3>3 DEF Rows
    <2> QED BY <1>0, <1>4, <1>5, <1>6, <2>4, <2>5, <2>6, <2>7, <2>8 DEF IInv
  <1> QED BY <1>7, <1>8

\* The process copies in its own transaction.
LEMMA CopyInStep ==
    ASSUME IInv, NEW p \in cf.parts, [Next]_vars, CopyIn(p)
    PROVE  IInv'
  <1>0. TypeOK /\ TypeInv' /\ p \in Part /\ cf.parts \subseteq Part
    BY TypeStep, Basics DEF IInv, TypeInv
  <1>1. UNCHANGED <<cf, st, saved, ddl, fk, rows, role, cmode, found, try, sent, wk, fault>>
    BY DEF CopyIn
  <1>2. /\ \A q \in cf.parts : q # p => pc'[q] = pc[q] /\ lock'[q] = lock[q]
        /\ pc[p] = "copy" /\ pc'[p] = "copying" /\ ~cf.threaded
        /\ lock'[p] = IF lock[p] = "none" THEN "row" ELSE lock[p]
    <2>1. pc \in [Part -> Places] /\ lock \in [Part -> {"none", "row", "exclusive"}]
      BY <1>0, PerQueue
    <2> QED BY <1>0, <2>1 DEF CopyIn
  <1>3. /\ Solo' = Solo /\ Ready' = Ready /\ Copying' = Copying
        /\ \A q \in cf.parts : /\ Active(q)' = Active(q) /\ Leads(q)' = Leads(q)
                               /\ pc'[q] \in Busy <=> pc[q] \in Busy
                               /\ pc'[q] \in {"copy", "copying"} <=> pc[q] \in {"copy", "copying"}
                               /\ pc'[q] \in {"sending", "joining"} <=> pc[q] \in {"sending", "joining"}
                               /\ lock'[q] = "exclusive" <=> lock[q] = "exclusive"
    BY <1>1, <1>2 DEF Solo, Ready, Copying, Active, Leads, Busy
  <1>4. Control'
    BY <1>1, <1>2, <1>3 DEF IInv, Control, Busy
  <1>5. RolesAre'
    BY <1>1, <1>2, <1>3 DEF IInv, RolesAre
  <1>6. Modes'
    BY <1>1, <1>2, <1>3 DEF IInv, Modes, Busy
  <1>7. Objects'
    BY <1>1, <1>2, <1>3 DEF IInv, Objects
  <1>8. Locks'
    BY <1>1, <1>2, <1>3 DEF IInv, Locks
  <1>9. Workers'
    BY <1>1, <1>2, <1>3 DEF IInv, Workers
  <1>10. Rows'
    BY <1>1, <1>2, <1>3 DEF IInv, Rows
  <1>11. Fkeys'
    BY <1>1, <1>2, <1>3 DEF IInv, Fkeys, FkeysWhole, Busy, AllRows
  <1> QED BY <1>0, <1>4, <1>5, <1>6, <1>7, <1>8, <1>9, <1>10, <1>11 DEF IInv

\* The process commits what it did so far, which leaves its partition empty, and starts
\* its workers.
LEMMA SpawnStep ==
    ASSUME IInv, NEW p \in cf.parts, [Next]_vars, Spawn(p)
    PROVE  IInv'
  <1>0. TypeOK /\ TypeInv' /\ Tries /\ p \in Part /\ cf.parts \subseteq Part
    BY TypeStep, Basics DEF IInv, TypeInv
  <1>1. /\ UNCHANGED <<cf, st, saved, fk, role, cmode, found, try, sent, fault>>
        /\ pc[p] = "copy" /\ cf.threaded /\ st[p] = "in-copy" /\ ~fk /\ (Solo \/ Ready)
    <2>1. pc[p] = "copy" /\ cf.threaded /\ UNCHANGED <<cf, st, saved, fk, role, cmode, found, try, sent, fault>>
      BY DEF Spawn
    <2> QED BY <2>1 DEF IInv, Control, Fkeys, Modes, Busy
  <1>2. /\ \A q \in cf.parts : q # p => pc'[q] = pc[q] /\ lock'[q] = lock[q]
        /\ pc'[p] = "sending" /\ lock'[p] = "none"
    <2>1. pc \in [Part -> Places] /\ lock \in [Part -> {"none", "row", "exclusive"}]
      BY <1>0, PerQueue
    <2>2. pc' = [pc EXCEPT ![p] = "sending"] /\ lock' = [lock EXCEPT ![p] = "none"]
      BY DEF Spawn
    <2> QED BY <1>0, <2>1, <2>2, Changed
  <1>3. \A q \in cf.parts, g \in Try, w \in Worker :
          wk'[q][g][w] = IF q = p /\ g = try[p] THEN "started" ELSE wk[q][g][w]
    <2> DEFINE S == [w \in Worker |-> "started"]
    <2>1. /\ wk' = [wk EXCEPT ![p][try[p]] = S]
          /\ wk \in [Part -> [Try -> [Worker -> WorkerStates]]] /\ try[p] \in Try
      BY <1>0, Basics DEF Spawn, TypeOK
    <2>2. \A w \in Worker : S[w] = "started"
      OBVIOUS
    <2> HIDE DEF S
    <2> QED BY <1>0, <2>1, <2>2
  <1>4. /\ Solo' = Solo /\ Ready' = Ready /\ Copying' \subseteq Copying
        /\ \A q \in cf.parts : /\ Leads(q)' = Leads(q)
                               /\ pc'[q] \in Busy <=> pc[q] \in Busy
                               /\ q # p => Active(q)' = Active(q)
        /\ Active(p)' /\ ~Active(p)
    BY <1>1, <1>2, <1>3 DEF Solo, Ready, Copying, Active, Leads, Busy
  <1>5. rows[p] = NoRows \/ ~cf.skip
    BY <1>1, <1>4 DEF IInv, Rows
  <1>6. /\ \A q \in cf.parts : rows'[q] = IF q = p THEN NoRows ELSE rows[q]
        /\ Solo => Copying = {}
        /\ ~Solo => ddl' = ddl
    <2>1. CASE Solo
      <3>1. lock[p] = "exclusive" /\ Copying = {}
        BY <1>1, <2>1 DEF IInv, Locks
      <3>2. rows' = Cleared
        BY <3>1 DEF Spawn
      <3>3. \A q \in cf.parts : q = p
        BY <2>1 DEF Solo
      <3> QED BY <1>0, <1>5, <2>1, <3>1, <3>2, <3>3, RowsType
    <2>2. CASE ~Solo
      <3>1. lock[p] # "exclusive" /\ rows[p] = NoRows
        BY <1>1, <1>4, <2>2 DEF IInv, Locks, Rows
      <3>2. rows' = rows /\ ddl' = ddl
        BY <3>1 DEF Spawn
      <3> QED BY <2>2, <3>1, <3>2
    <2> QED BY <2>1, <2>2
  <1>7. \A g \in Try, w \in Worker : g < try[p] => wk[p][g][w] # "copying"
    <2>1. CASE Solo
      <3>1. ASSUME NEW g \in Try, NEW w \in Worker, wk[p][g][w] = "copying" PROVE FALSE
        BY <1>6, <2>1, <3>1, IsCopying
      <3> QED BY <3>1
    <2>2. CASE ~Solo
      <3>1. fault = 0
        BY <1>0, <1>1, <2>2, Basics DEF IInv, Workers
      <3>2. \A g \in Try : ~(g < try[p])
        <4>1. try[p] \in Nat /\ try[p] <= 1
          BY <1>0, <3>1, Basics DEF Tries
        <4> QED BY <1>0, <4>1, Basics DEF Try
      <3> QED BY <3>2
    <2> QED BY <2>1, <2>2
  <1>8. Control'
    BY <1>1, <1>2, <1>4 DEF IInv, Control, Busy
  <1>9. RolesAre'
    BY <1>1, <1>2, <1>4 DEF IInv, RolesAre
  <1>10. Modes'
    BY <1>1, <1>2, <1>4 DEF IInv, Modes, Busy
  <1>11. Objects'
    BY <1>1, <1>2, <1>4, <1>6 DEF IInv, Objects, Busy, Solo
  <1>12. Locks'
    BY <1>1, <1>2, <1>4 DEF IInv, Locks, Solo
  <1>13. Workers'
    <2>1. \A q \in cf.parts, g \in Try, w \in Worker :
            /\ wk'[q][g][w] \in {"started", "copying"} /\ g = try[q] => pc'[q] \in {"sending", "joining"}
            /\ wk'[q][g][w] = "started" => g = try[q]
            /\ wk'[q][g][w] = "copying" => ~fk
            /\ wk'[q][g][w] = "copying" /\ g < try[q] => ~Active(q)' /\ st[q] = "in-copy"
            /\ wk'[q][g][w] # "none" => cf.threaded
      <3> SUFFICES ASSUME NEW q \in cf.parts, NEW g \in Try, NEW w \in Worker
            PROVE  /\ wk'[q][g][w] \in {"started", "copying"} /\ g = try[q] => pc'[q] \in {"sending", "joining"}
                   /\ wk'[q][g][w] = "started" => g = try[q]
                   /\ wk'[q][g][w] = "copying" => ~fk
                   /\ wk'[q][g][w] = "copying" /\ g < try[q] => ~Active(q)' /\ st[q] = "in-copy"
                   /\ wk'[q][g][w] # "none" => cf.threaded
        OBVIOUS
      <3>1. CASE q = p
        BY <1>1, <1>2, <1>3, <1>7, <3>1 DEF IInv, Workers
      <3>2. CASE q # p
        BY <1>1, <1>2, <1>3, <1>4, <3>2 DEF IInv, Workers
      <3> QED BY <3>1, <3>2
    <2>2. \A q \in cf.parts : /\ pc'[q] \in {"joining", "copied"} => pc[q] = pc'[q] /\ q # p
      BY <1>2
    <2>3. \A q \in cf.parts : /\ pc'[q] \in {"joining", "copied"} => sent[q][try[q]] = NBlock
                              /\ pc'[q] = "copied" => \A w \in Worker : wk'[q][try[q]][w] = "committed"
      <3>1. \A q \in cf.parts : q # p => \A w \in Worker : wk'[q][try[q]][w] = wk[q][try[q]][w]
        BY <1>0, <1>3, Basics
      <3> QED BY <2>2, <3>1 DEF IInv, Workers
    <2> QED BY <1>1, <1>4, <2>1, <2>3 DEF IInv, Workers
  <1>14. Rows'
    <2>1. ASSUME NEW b \in Block
          PROVE  rows'[p][b] = IF wk'[p][try[p]][OwnerOf(b)] = "committed" THEN 1 ELSE 0
      BY <1>0, <1>3, <1>6, <2>1, Basics DEF NoRows
    <2>2. ASSUME NEW q \in cf.parts, q # p, NEW b \in Block
          PROVE  wk'[q][try[q]][OwnerOf(b)] = wk[q][try[q]][OwnerOf(b)]
      BY <1>0, <1>3, <2>2, Basics
    <2>3. NoRows' = NoRows /\ AllRows' = AllRows
      BY DEF NoRows, AllRows
    <2> QED BY <1>1, <1>2, <1>4, <1>6, <2>1, <2>2, <2>3 DEF IInv, Rows
  <1>15. Fkeys'
    BY <1>1 DEF Fkeys, FkeysWhole
  <1> QED BY <1>0, <1>8, <1>9, <1>10, <1>11, <1>12, <1>13, <1>14, <1>15 DEF IInv

\* The process sends the blocks, and waits for the workers' results.
LEMMA SendStep ==
    ASSUME IInv, NEW p \in cf.parts, [Next]_vars, SendBlock(p) \/ ClosePipes(p) \/ Joined(p)
    PROVE  IInv'
  <1>0. TypeOK /\ TypeInv' /\ p \in Part /\ cf.parts \subseteq Part
    BY TypeStep, Basics DEF IInv, TypeInv
  <1>1. UNCHANGED <<cf, st, saved, ddl, fk, rows, role, cmode, found, lock, try, wk, fault>>
    BY DEF SendBlock, ClosePipes, Joined
  <1>2. /\ \A q \in cf.parts : q # p => pc'[q] = pc[q] /\ sent'[q] = sent[q]
        /\ pc[p] \in {"sending", "joining"} /\ pc'[p] \in {"sending", "joining", "copied"}
        /\ pc'[p] \in {"joining", "copied"} => sent'[p][try[p]] = NBlock
        /\ pc'[p] = "copied" => \A w \in Worker : wk[p][try[p]][w] = "committed"
    <2>1. pc \in [Part -> Places] /\ sent \in [Part -> [Try -> 0..NBlock]]
      BY <1>0, PerQueue DEF TypeOK
    <2>2. CASE SendBlock(p)
      BY <1>0, <2>1, <2>2 DEF SendBlock
    <2>3. CASE ClosePipes(p)
      BY <1>0, <2>1, <2>3 DEF ClosePipes
    <2>4. CASE Joined(p)
      <3>1. sent[p][try[p]] = NBlock
        BY <2>4 DEF IInv, Workers, Joined
      <3> QED BY <1>0, <2>1, <2>4, <3>1 DEF Joined
    <2> QED BY <2>2, <2>3, <2>4
  <1>3. /\ Solo' = Solo /\ Ready' = Ready /\ Copying' = Copying
        /\ \A q \in cf.parts : /\ Active(q)' = Active(q) /\ Leads(q)' = Leads(q)
                               /\ pc'[q] \in Busy <=> pc[q] \in Busy
                               /\ pc'[q] \in {"copy", "copying"} <=> pc[q] \in {"copy", "copying"}
    BY <1>1, <1>2 DEF Solo, Ready, Copying, Active, Leads, Busy
  <1>4. Control'
    BY <1>1, <1>2, <1>3 DEF IInv, Control, Busy
  <1>5. RolesAre'
    BY <1>1, <1>2, <1>3 DEF IInv, RolesAre
  <1>6. Modes'
    BY <1>1, <1>2, <1>3 DEF IInv, Modes, Busy
  <1>7. Objects'
    BY <1>1, <1>2, <1>3 DEF IInv, Objects
  <1>8. Locks'
    BY <1>1, <1>2, <1>3 DEF IInv, Locks
  <1>9. Workers'
    <2>1. \A g \in Try, w \in Worker :
            wk[p][g][w] \in {"started", "copying"} /\ g = try[p] => pc'[p] \in {"sending", "joining"}
      BY <1>2
    <2> QED BY <1>1, <1>2, <1>3, <2>1 DEF IInv, Workers
  <1>10. Rows'
    BY <1>1, <1>2, <1>3 DEF IInv, Rows
  <1>11. Fkeys'
    BY <1>1, <1>2, <1>3 DEF IInv, Fkeys, FkeysWhole, Busy, AllRows
  <1> QED BY <1>0, <1>4, <1>5, <1>6, <1>7, <1>8, <1>9, <1>10, <1>11 DEF IInv

\* A partition is copied: it was empty, or its workers have committed all of it.
LEMMA CommitStep ==
    ASSUME IInv, NEW p \in cf.parts, [Next]_vars, Commit(p)
    PROVE  IInv'
  <1>0. TypeOK /\ TypeInv' /\ p \in Part /\ cf.parts \subseteq Part
    BY TypeStep, Basics DEF IInv, TypeInv
  <1>1. /\ UNCHANGED <<cf, saved, fk, role, cmode, found, try, sent, wk, fault>>
        /\ pc[p] \in {"copying", "copied"} /\ st[p] = "in-copy" /\ ~fk /\ (Solo \/ Ready)
        /\ (cmode[p] = 1 <=> Solo) /\ (cmode[p] = 2 => role[p] = "lead")
        /\ ddl' = IF cmode[p] = 1 THEN found[p] ELSE ddl
    <2>1. /\ pc[p] \in {"copying", "copied"} /\ UNCHANGED <<cf, saved, fk, role, cmode, found, try, sent, wk, fault>>
          /\ ddl' = IF cmode[p] = 1 THEN found[p] ELSE ddl
      BY DEF Commit
    <2> QED BY <2>1 DEF IInv, Control, Fkeys, Modes, Busy
  <1>2. /\ \A q \in cf.parts : q # p => pc'[q] = pc[q] /\ lock'[q] = lock[q] /\ st'[q] = st[q]
        /\ lock'[p] = "none" /\ st'[p] = "catching-up"
        /\ pc'[p] = IF cmode[p] = 2 THEN "waitall" ELSE "idle"
    <2>1. /\ pc \in [Part -> Places] /\ lock \in [Part -> {"none", "row", "exclusive"}]
          /\ st \in [Part -> States]
      BY <1>0, PerQueue
    <2>2. /\ pc' = [pc EXCEPT ![p] = IF cmode[p] = 2 THEN "waitall" ELSE "idle"]
          /\ lock' = [lock EXCEPT ![p] = "none"] /\ st' = [st EXCEPT ![p] = "catching-up"]
      BY DEF Commit
    <2> QED BY <1>0, <2>1, <2>2, Changed
  <1>3. /\ Solo' = Solo /\ Ready' = Ready /\ Copying' = Copying
        /\ \A q \in cf.parts : /\ Leads(q)' = Leads(q)
                               /\ pc'[q] \in Busy <=> pc[q] \in Busy /\ q # p
                               /\ q # p => Active(q)' = Active(q)
        /\ ~Active(p)' /\ pc[p] \in Busy
    BY <1>1, <1>2 DEF Solo, Ready, Copying, Active, Leads, Busy
  <1>4. /\ rows'[p] = AllRows
        /\ \A q \in cf.parts : q # p => rows'[q] = rows[q]
    <2>0. rows \in [Part -> [Block -> Nat]] /\ Cleared \in [Part -> [Block -> Nat]]
      BY <1>0, PerQueue, RowsType
    <2>1. CASE pc[p] = "copied"
      <3>1. rows' = rows
        BY <2>1 DEF Commit
      <3>2. \A b \in Block : rows[p][b] = 1
        BY <1>0, <2>1, Basics DEF IInv, Rows, Workers, Active
      <3>3. rows[p] = AllRows
        BY <1>0, <2>0, <3>2 DEF AllRows
      <3> QED BY <3>1, <3>3
    <2>2. CASE pc[p] = "copying"
      <3> DEFINE r == IF lock[p] = "exclusive" THEN Cleared ELSE rows
      <3>1. rows' = Added(r, p, Block) /\ r \in [Part -> [Block -> Nat]]
        BY <2>0, <2>2 DEF Commit
      <3>2. (lock[p] = "exclusive" <=> Solo) /\ ~Active(p)
        BY <2>2 DEF IInv, Locks, Active
      <3>3. r[p] = NoRows /\ \A q \in cf.parts : q # p => r[q] = rows[q]
        <4>1. CASE Solo
          BY <1>0, <1>1, <3>2, <4>1, RowsType DEF IInv, Rows, Solo
        <4>2. CASE ~Solo
          BY <1>1, <3>2, <4>2 DEF IInv, Rows
        <4> QED BY <4>1, <4>2
      <3>4. \A b \in Block : rows'[p][b] = 1
        <4> HIDE DEF r
        <4> QED BY <1>0, <3>1, <3>3, RowsType DEF NoRows
      <3>5. \A q \in cf.parts : q # p => rows'[q] = r[q]
        <4> HIDE DEF r
        <4> QED BY <1>0, <3>1, RowsType
      <3>6. rows'[p] \in [Block -> Nat]
        <4> HIDE DEF r
        <4> QED BY <1>0, <3>1, RowsType
      <3>7. rows'[p] = AllRows
        BY <3>4, <3>6 DEF AllRows
      <3> QED BY <3>3, <3>5, <3>7
    <2> QED BY <1>1, <2>1, <2>2
  <1>5. Control'
    BY <1>1, <1>2, <1>3 DEF IInv, Control, Busy
  <1>6. RolesAre'
    BY <1>1, <1>2, <1>3 DEF IInv, RolesAre
  <1>7. Modes'
    BY <1>1, <1>2, <1>3 DEF IInv, Modes, Busy
  <1>8. Objects'
    BY <1>1, <1>2, <1>3 DEF IInv, Objects, Solo
  <1>9. Locks'
    BY <1>1, <1>2, <1>3 DEF IInv, Locks, Busy
  <1>10. Workers'
    <2>1. \A g \in Try, w \in Worker :
            /\ wk[p][g][w] \in {"started", "copying"} => g # try[p]
            /\ wk[p][g][w] = "copying" => ~(g < try[p])
      <3>1. CASE pc[p] = "copied"
        BY <3>1 DEF IInv, Workers, Active
      <3>2. CASE pc[p] = "copying"
        BY <3>2 DEF IInv, Workers, Control
      <3> QED BY <1>1, <3>1, <3>2
    <2> QED BY <1>1, <1>2, <1>3, <2>1 DEF IInv, Workers
  <1>11. Rows'
    <2>1. NoRows' = NoRows /\ AllRows' = AllRows
      BY DEF NoRows, AllRows
    <2> QED BY <1>1, <1>2, <1>3, <1>4, <2>1 DEF IInv, Rows
  <1>12. Fkeys'
    BY <1>1 DEF Fkeys, FkeysWhole
  <1> QED BY <1>0, <1>5, <1>6, <1>7, <1>8, <1>9, <1>10, <1>11, <1>12 DEF IInv

-----------------------------------------------------------------------------
(* The steps of the workers, the failures, and the worker of the queue. *)

\* A worker begins its COPY, which no process that has the table for itself lets it do.
LEMMA WorkerCopiesStep ==
    ASSUME IInv, NEW p \in cf.parts, NEW g \in Try, NEW w \in Worker, [Next]_vars,
           WorkerCopies(p, g, w)
    PROVE  IInv'
  <1>0. TypeOK /\ TypeInv' /\ p \in Part /\ cf.parts \subseteq Part
    BY TypeStep, Basics DEF IInv, TypeInv
  <1>1. /\ UNCHANGED <<cf, st, saved, ddl, fk, rows, pc, role, cmode, found, lock, try, sent, fault>>
        /\ wk[p][g][w] = "started" /\ \A q \in cf.parts : lock[q] # "exclusive"
    BY DEF WorkerCopies
  <1>2. \A q \in cf.parts, h \in Try, v \in Worker :
          wk'[q][h][v] = IF q = p /\ h = g /\ v = w THEN "copying" ELSE wk[q][h][v]
    <2>1. wk' = [wk EXCEPT ![p][g][w] = "copying"] /\ wk \in [Part -> [Try -> [Worker -> WorkerStates]]]
      BY <1>0 DEF WorkerCopies, TypeOK
    <2> QED BY <1>0, <2>1
  <1>3. g = try[p] /\ pc[p] \in {"sending", "joining"} /\ ~fk /\ cf.threaded
    <2>1. g = try[p] /\ pc[p] \in {"sending", "joining"} /\ cf.threaded
      BY <1>1 DEF IInv, Workers
    <2> QED BY <2>1 DEF IInv, Fkeys, Busy
  <1>4. /\ Solo' = Solo /\ Ready' = Ready
        /\ \A q \in cf.parts : Active(q)' = Active(q) /\ Leads(q)' = Leads(q)
    BY <1>1 DEF Solo, Ready, Active, Leads
  <1>5. Control' /\ RolesAre' /\ Modes'
    BY <1>1, <1>4 DEF IInv, Control, RolesAre, Modes
  <1>6. Objects'
    BY <1>1, <1>4 DEF IInv, Objects
  <1>7. Locks'
    BY <1>1, <1>4 DEF IInv, Locks
  <1>8. Workers'
    <2>1. \A q \in cf.parts, h \in Try, v \in Worker :
            /\ wk'[q][h][v] \in {"started", "copying"} /\ h = try[q] => pc[q] \in {"sending", "joining"}
            /\ wk'[q][h][v] = "started" => h = try[q]
            /\ wk'[q][h][v] = "copying" => ~fk
            /\ wk'[q][h][v] = "copying" /\ h < try[q] => ~Active(q) /\ st[q] = "in-copy"
            /\ wk'[q][h][v] # "none" => cf.threaded
      <3>1. ~(g < try[p])
        BY <1>0, <1>3, Basics
      <3> QED BY <1>1, <1>2, <1>3, <3>1 DEF IInv, Workers
    <2>2. \A q \in cf.parts : pc[q] = "copied" => \A v \in Worker : wk'[q][try[q]][v] = "committed"
      BY <1>0, <1>2, <1>3, Basics DEF IInv, Workers
    <2> QED BY <1>1, <1>4, <2>1, <2>2 DEF IInv, Workers
  <1>9. Rows'
    <2>1. \A q \in cf.parts, v \in Worker :
            wk'[q][try[q]][v] = "committed" <=> wk[q][try[q]][v] = "committed"
      BY <1>0, <1>1, <1>2, Basics
    <2>2. \A q \in cf.parts, b \in Block :
            wk'[q][try[q]][OwnerOf(b)] = "committed" <=> wk[q][try[q]][OwnerOf(b)] = "committed"
      BY <1>0, <2>1, Basics
    <2> QED BY <1>1, <1>4, <2>2 DEF IInv, Rows, NoRows, AllRows
  <1>10. Fkeys'
    BY <1>1 DEF IInv, Fkeys, FkeysWhole, AllRows
  <1> QED BY <1>0, <1>5, <1>6, <1>7, <1>8, <1>9, <1>10 DEF IInv

\* A worker commits its blocks: those that the attempt's process has sent, or, after that
\* has failed, rows that the next attempt removes.
LEMMA WorkerCommitsStep ==
    ASSUME IInv, NEW p \in cf.parts, NEW g \in Try, NEW w \in Worker, [Next]_vars,
           WorkerCommits(p, g, w)
    PROVE  IInv'
  <1>0. TypeOK /\ TypeInv' /\ Tries /\ p \in Part /\ cf.parts \subseteq Part
    BY TypeStep, Basics DEF IInv, TypeInv
  <1> DEFINE B == {b \in 1..sent[p][g] : OwnerOf(b) = w}
  <1>1. /\ UNCHANGED <<cf, st, saved, ddl, fk, pc, role, cmode, found, lock, try, sent, fault>>
        /\ wk[p][g][w] = "copying" /\ Closed(p, g) /\ rows' = Added(rows, p, B)
    BY DEF WorkerCommits
  <1>2. \A q \in cf.parts, h \in Try, v \in Worker :
          wk'[q][h][v] = IF q = p /\ h = g /\ v = w THEN "committed" ELSE wk[q][h][v]
    <2>1. wk' = [wk EXCEPT ![p][g][w] = "committed"] /\ wk \in [Part -> [Try -> [Worker -> WorkerStates]]]
      BY <1>0 DEF WorkerCommits, TypeOK
    <2> QED BY <1>0, <2>1
  <1>3. /\ ~fk /\ cf.threaded /\ Copying # {} /\ st[p] = "in-copy"
        /\ g = try[p] => pc[p] = "joining" /\ sent[p][g] = NBlock
        /\ g # try[p] => Solo /\ ~cf.skip /\ ~Active(p)
    <2>1. ~fk /\ cf.threaded /\ Copying # {}
      BY <1>1, IsCopying DEF IInv, Workers
    <2>2. try[p] \in Nat /\ g \in Nat /\ g >= 1 /\ fault \in Nat
      BY <1>0, Basics DEF Try
    <2>3. CASE g = try[p]
      <3>1. pc[p] = "joining"
        BY <1>1, <2>2, <2>3 DEF IInv, Workers, Closed
      <3> QED BY <2>1, <2>3, <3>1 DEF IInv, Workers, Control, Busy
    <2>4. CASE g # try[p]
      <3>1. ~(g > try[p])
        BY <1>0, <1>1 DEF Tries
      <3>2. g < try[p] /\ try[p] <= fault + 1
        BY <1>0, <2>2, <2>4, <3>1 DEF Tries
      <3>3. fault > 0
        BY <2>2, <3>2
      <3> QED BY <1>1, <2>1, <2>4, <3>2, <3>3 DEF IInv, Workers
    <2> QED BY <2>1, <2>3, <2>4
  <1>4. /\ \A q \in cf.parts : q # p => rows'[q] = rows[q]
        /\ \A b \in Block : rows'[p][b] = IF b \in B THEN rows[p][b] + 1 ELSE rows[p][b]
        /\ g = try[p] => \A b \in Block : b \in B <=> OwnerOf(b) = w
    <2>1. sent[p][g] \in 0..NBlock /\ NBlock \in Nat
      BY <1>0, Basics DEF TypeOK
    <2>2. B \in SUBSET Block
      BY <2>1 DEF Block
    <2>3. rows \in [Part -> [Block -> Nat]]
      BY <1>0, PerQueue
    <2>4. g = try[p] => \A b \in Block : b \in B <=> OwnerOf(b) = w
      BY <1>3 DEF Block
    <2> HIDE DEF B
    <2> QED BY <1>0, <1>1, <2>2, <2>3, <2>4, RowsType
  <1> HIDE DEF B
  <1>5. /\ Solo' = Solo /\ Ready' = Ready
        /\ \A q \in cf.parts : Active(q)' = Active(q) /\ Leads(q)' = Leads(q)
    BY <1>1 DEF Solo, Ready, Active, Leads
  <1>6. Control' /\ RolesAre' /\ Modes'
    BY <1>1, <1>5 DEF IInv, Control, RolesAre, Modes
  <1>7. Objects'
    BY <1>1, <1>5 DEF IInv, Objects
  <1>8. Locks'
    BY <1>1, <1>3, <1>5 DEF IInv, Locks
  <1>9. Workers'
    <2>1. \A q \in cf.parts, h \in Try, v \in Worker :
            /\ wk'[q][h][v] \in {"started", "copying"} /\ h = try[q] => pc[q] \in {"sending", "joining"}
            /\ wk'[q][h][v] = "started" => h = try[q]
            /\ wk'[q][h][v] = "copying" => ~fk
            /\ wk'[q][h][v] = "copying" /\ h < try[q] => ~Active(q) /\ st[q] = "in-copy"
            /\ wk'[q][h][v] # "none" => cf.threaded
      BY <1>1, <1>2, <1>3 DEF IInv, Workers
    <2>2. \A q \in cf.parts : pc[q] = "copied" => \A v \in Worker : wk'[q][try[q]][v] = "committed"
      BY <1>0, <1>2, <1>3, Basics DEF IInv, Workers
    <2> QED BY <1>1, <1>5, <2>1, <2>2 DEF IInv, Workers
  <1>10. Rows'
    <2>0. NoRows' = NoRows /\ AllRows' = AllRows
      BY DEF NoRows, AllRows
    <2>1. ASSUME NEW q \in cf.parts, q # p, NEW b \in Block
          PROVE  wk'[q][try[q]][OwnerOf(b)] = wk[q][try[q]][OwnerOf(b)]
      BY <1>0, <1>2, <2>1, Basics
    <2>2. CASE g = try[p]
      <3>1. ASSUME NEW b \in Block
            PROVE  rows'[p][b] = IF wk'[p][try[p]][OwnerOf(b)] = "committed" THEN 1 ELSE 0
        <4>1. rows[p][b] = IF wk[p][try[p]][OwnerOf(b)] = "committed" THEN 1 ELSE 0
          BY <1>3, <2>2 DEF IInv, Rows, Active
        <4>2. OwnerOf(b) \in Worker /\ try[p] \in Try
          BY <1>0, Basics
        <4>3. CASE OwnerOf(b) = w
          BY <1>1, <1>2, <1>4, <2>2, <4>1, <4>2, <4>3
        <4>4. CASE OwnerOf(b) # w
          BY <1>2, <1>4, <2>2, <4>1, <4>2, <4>4
        <4> QED BY <4>3, <4>4
      <3>2. Active(p)
        BY <1>3, <2>2 DEF Active
      <3> QED BY <1>1, <1>3, <1>4, <1>5, <2>0, <2>1, <3>1, <3>2 DEF IInv, Rows
    <2>3. CASE g # try[p]
      <3>1. ~Active(p) /\ Solo /\ ~cf.skip
        BY <1>3, <2>3
      <3> QED BY <1>1, <1>3, <1>4, <1>5, <2>0, <2>1, <3>1 DEF IInv, Rows
    <2> QED BY <2>2, <2>3
  <1>11. Fkeys'
    BY <1>1, <1>3 DEF IInv, Fkeys, FkeysWhole
  <1> QED BY <1>0, <1>6, <1>7, <1>8, <1>9, <1>10, <1>11 DEF IInv

\* A worker fails, where a copy can be repeated: it begins with an empty table then.
LEMMA WorkerFailsStep ==
    ASSUME Calm, IInv, NEW p \in cf.parts, NEW w \in Worker, [Next]_vars, WorkerFails(p, w)
    PROVE  IInv'
  <1>0. TypeOK /\ TypeInv' /\ p \in Part /\ cf.parts \subseteq Part
    BY TypeStep, Basics DEF IInv, TypeInv
  <1>1. /\ UNCHANGED <<cf, st, saved, ddl, fk, rows, pc, role, cmode, found, lock, try, sent>>
        /\ wk[p][try[p]][w] \in {"started", "copying"} /\ fault' = fault + 1 /\ Repeatable(p)
    BY DEF WorkerFails, Calm
  <1>2. \A q \in cf.parts, h \in Try, v \in Worker :
          wk'[q][h][v] = IF q = p /\ h = try[p] /\ v = w THEN "failed" ELSE wk[q][h][v]
    <2>1. /\ wk' = [wk EXCEPT ![p][try[p]][w] = "failed"] /\ try[p] \in Try
          /\ wk \in [Part -> [Try -> [Worker -> WorkerStates]]]
      BY <1>0, Basics DEF WorkerFails, TypeOK
    <2> QED BY <1>0, <2>1
  <1>3. /\ cf.threaded /\ Solo /\ ~cf.skip /\ pc[p] \in {"sending", "joining"} /\ fault' > 0
    <2>1. cf.threaded /\ pc[p] \in {"sending", "joining"} /\ fault \in Nat
      BY <1>0, <1>1, Basics DEF IInv, Workers
    <2>2. cf.parts = {p} <=> Solo
      BY <1>0, Single
    <2>3. fault' > 0
      BY <1>1, <2>1
    <2> QED BY <1>1, <2>1, <2>2, <2>3 DEF Repeatable
  <1>4. /\ Solo' = Solo /\ Ready' = Ready /\ Copying' \subseteq Copying
        /\ \A q \in cf.parts : Active(q)' = Active(q) /\ Leads(q)' = Leads(q)
    BY <1>1, <1>2 DEF Solo, Ready, Active, Leads, Copying
  <1>5. Control' /\ RolesAre' /\ Modes'
    BY <1>1, <1>4 DEF IInv, Control, RolesAre, Modes
  <1>6. Objects'
    <2>1. ~(cf.threaded => fault' = 0)
      BY <1>3
    <2> QED BY <1>1, <1>3, <1>4, <2>1 DEF IInv, Objects
  <1>7. Locks'
    BY <1>1, <1>4 DEF IInv, Locks
  <1>8. Workers'
    <2>1. \A q \in cf.parts, h \in Try, v \in Worker :
            /\ wk'[q][h][v] \in {"started", "copying"} /\ h = try[q] => pc[q] \in {"sending", "joining"}
            /\ wk'[q][h][v] = "started" => h = try[q]
            /\ wk'[q][h][v] = "copying" => ~fk
            /\ wk'[q][h][v] = "copying" /\ h < try[q] => ~Active(q) /\ st[q] = "in-copy"
            /\ wk'[q][h][v] # "none" => cf.threaded
      BY <1>1, <1>2, <1>3 DEF IInv, Workers
    <2>2. \A q \in cf.parts : pc[q] = "copied" => \A v \in Worker : wk'[q][try[q]][v] = "committed"
      BY <1>0, <1>2, <1>3, Basics DEF IInv, Workers
    <2> QED BY <1>1, <1>3, <1>4, <2>1, <2>2 DEF IInv, Workers
  <1>9. Rows'
    <2>1. \A q \in cf.parts, v \in Worker :
            wk'[q][try[q]][v] = "committed" <=> wk[q][try[q]][v] = "committed"
      BY <1>0, <1>1, <1>2, Basics
    <2>2. \A q \in cf.parts, b \in Block :
            wk'[q][try[q]][OwnerOf(b)] = "committed" <=> wk[q][try[q]][OwnerOf(b)] = "committed"
      BY <1>0, <2>1, Basics
    <2> QED BY <1>1, <1>4, <2>2 DEF IInv, Rows, NoRows, AllRows
  <1>10. Fkeys'
    BY <1>1 DEF IInv, Fkeys, FkeysWhole, AllRows
  <1> QED BY <1>0, <1>5, <1>6, <1>7, <1>8, <1>9, <1>10 DEF IInv

\* An attempt ends without a result, where a copy can be repeated.
LEMMA AbandonStep ==
    ASSUME Calm, IInv, NEW p \in cf.parts, [Next]_vars, WorkerLost(p) \/ Fail(p)
    PROVE  IInv'
  <1>0. TypeOK /\ TypeInv' /\ Tries /\ p \in Part /\ cf.parts \subseteq Part /\ try[p] \in Nat
    BY TypeStep, Basics DEF IInv, TypeInv
  <1>1. /\ Abandon(p) /\ fault \in Nat /\ fault' \in Nat /\ fault' >= fault
        /\ Active(p) => cf.threaded /\ fault' > 0
        /\ cf.threaded /\ fault' > 0 => Solo /\ ~cf.skip
        /\ saved[p] => st[p] # "in-copy"
    <2>1. cf.parts = {p} <=> Solo
      BY <1>0, Single
    <2>2. fault \in Nat /\ (saved[p] => ~Solo) /\ (Active(p) => cf.threaded)
      BY <1>0, Basics DEF IInv, Objects, Control
    <2>3. CASE WorkerLost(p)
      <3>1. Abandon(p) /\ fault' = fault /\ Active(p) /\ try[p] <= fault
        BY <1>0, <2>3 DEF WorkerLost, Tries, Active
      <3>2. fault > 0
        BY <1>0, <2>2, <3>1, Basics DEF Try
      <3> QED BY <2>2, <3>1, <3>2 DEF IInv, Workers
    <2>4. CASE Fail(p)
      <3>1. Abandon(p) /\ fault' = fault + 1 /\ Repeatable(p)
        BY <2>4 DEF Fail, Calm
      <3> QED BY <2>1, <2>2, <3>1 DEF Repeatable
    <2> QED BY <2>3, <2>4
  <1>2. /\ UNCHANGED <<cf, st, saved, ddl, fk, rows, role, cmode, found, sent>>
        /\ \A q \in cf.parts : q # p => pc'[q] = pc[q] /\ lock'[q] = lock[q] /\ try'[q] = try[q]
        /\ lock'[p] = "none" /\ pc'[p] = "idle"
    <2>1. pc \in [Part -> Places] /\ lock \in [Part -> {"none", "row", "exclusive"}]
      BY <1>0, PerQueue
    <2>2. /\ UNCHANGED <<cf, st, saved, ddl, fk, rows, role, cmode, found, sent>>
          /\ pc' = [pc EXCEPT ![p] = "idle"] /\ lock' = [lock EXCEPT ![p] = "none"]
          /\ \A q \in Part : q # p => try'[q] = try[q]
      BY <1>0, <1>1, Abandoned
    <2> QED BY <1>0, <2>1, <2>2, Changed
  <1>3. \A q \in cf.parts, g \in Try, w \in Worker :
          /\ q # p => wk'[q][g][w] = wk[q][g][w]
          /\ wk'[q][g][w] = "copying" <=> wk[q][g][w] = "copying"
          /\ wk[q][g][w] = "none" <=> wk'[q][g][w] = "none"
          /\ wk'[p][g][w] # "started"
    <2>1. CASE Active(p)
      <3>1. \A q \in cf.parts, g \in Try, w \in Worker :
              wk'[q][g][w] = IF q = p /\ g = try[p] /\ wk[q][g][w] = "started"
                             THEN "failed" ELSE wk[q][g][w]
        BY <1>0, <1>1, <2>1, Abandoned DEF Calm
      <3>2. \A g \in Try, w \in Worker : wk[p][g][w] = "started" => g = try[p]
        BY DEF IInv, Workers
      <3> QED BY <3>1, <3>2
    <2>2. CASE ~Active(p)
      <3>1. wk' = wk
        BY <1>0, <1>1, <2>2, Abandoned
      <3>2. \A g \in Try, w \in Worker : wk[p][g][w] # "started"
        BY <2>2 DEF IInv, Workers, Active
      <3> QED BY <3>1, <3>2
    <2> QED BY <2>1, <2>2
  <1>4. \A g \in Try, w \in Worker : wk[p][g][w] = "copying" => g # try'[p] /\ st[p] = "in-copy"
    <2> SUFFICES ASSUME NEW g \in Try, NEW w \in Worker, wk[p][g][w] = "copying"
                 PROVE  g # try'[p] /\ st[p] = "in-copy"
      OBVIOUS
    <2>1. g \in Nat /\ ~(g > try[p]) /\ (g = try[p] => pc[p] \in {"sending", "joining"})
      BY <1>0, Basics DEF IInv, Workers, Tries
    <2>2. CASE Active(p)
      <3>1. try' = [try EXCEPT ![p] = try[p] + 1] /\ try \in [Part -> Try]
        BY <1>0, <1>1, <2>2, Abandoned, PerQueue
      <3>2. try'[p] = try[p] + 1
        BY <1>0, <3>1
      <3>3. st[p] = "in-copy"
        BY <2>2 DEF IInv, Control, Busy, Active
      <3> QED BY <1>0, <2>1, <3>2, <3>3
    <2>3. CASE ~Active(p)
      <3>1. try' = try /\ g # try[p] /\ g < try[p]
        BY <1>0, <1>1, <2>1, <2>3, Abandoned DEF Active
      <3> QED BY <3>1 DEF IInv, Workers
    <2> QED BY <2>2, <2>3
  <1>5. /\ Solo' = Solo /\ Ready' = Ready /\ Copying' \subseteq Copying
        /\ \A q \in cf.parts : /\ Leads(q)' = Leads(q)
                               /\ q # p => Active(q)' = Active(q)
        /\ ~Active(p)'
    BY <1>2, <1>3 DEF Solo, Ready, Active, Leads, Copying
  <1>6. Control'
    BY <1>2, <1>5 DEF IInv, Control, Busy
  <1>7. RolesAre'
    BY <1>2, <1>5 DEF IInv, RolesAre
  <1>8. Modes'
    BY <1>2, <1>5 DEF IInv, Modes, Busy
  <1>9. Objects'
    <2>1. (cf.threaded => fault' = 0) => (cf.threaded => fault = 0) /\ ~Active(p)
      BY <1>1
    <2> QED BY <1>1, <1>2, <1>5, <2>1 DEF IInv, Objects, Busy
  <1>10. Locks'
    BY <1>2, <1>5 DEF IInv, Locks
  <1>11. Workers'
    <2>1. \A q \in cf.parts, h \in Try, v \in Worker :
            /\ wk'[q][h][v] \in {"started", "copying"} /\ h = try'[q] => pc'[q] \in {"sending", "joining"}
            /\ wk'[q][h][v] = "started" => h = try'[q]
            /\ wk'[q][h][v] = "copying" => ~fk
            /\ wk'[q][h][v] = "copying" /\ h < try'[q] => ~Active(q)' /\ st[q] = "in-copy"
            /\ wk'[q][h][v] # "none" => cf.threaded
      BY <1>2, <1>3, <1>4, <1>5 DEF IInv, Workers
    <2>2. \A q \in cf.parts :
            /\ pc'[q] \in {"joining", "copied"} => sent[q][try'[q]] = NBlock
            /\ pc'[q] = "copied" => \A v \in Worker : wk'[q][try'[q]][v] = "committed"
      BY <1>0, <1>2, <1>3, Basics DEF IInv, Workers
    <2> QED BY <1>1, <1>2, <1>5, <2>1, <2>2 DEF IInv, Workers
  <1>12. Rows'
    <2>1. NoRows' = NoRows /\ AllRows' = AllRows
      BY DEF NoRows, AllRows
    <2>2. \A q \in cf.parts, b \in Block :
            q # p => wk'[q][try'[q]][OwnerOf(b)] = wk[q][try[q]][OwnerOf(b)]
      BY <1>0, <1>2, <1>3, Basics
    <2>3. Active(p) => Solo /\ ~cf.skip
      BY <1>1
    <2> QED BY <1>2, <1>5, <2>1, <2>2, <2>3 DEF IInv, Rows
  <1>13. Fkeys'
    BY <1>2 DEF IInv, Fkeys, FkeysWhole, AllRows, Busy
  <1> QED BY <1>0, <1>6, <1>7, <1>8, <1>9, <1>10, <1>11, <1>12, <1>13 DEF IInv

\* The foreign keys come back when the table is in sync in all queues.
LEMMA RestoreFkeysStep ==
    ASSUME IInv, [Next]_vars, RestoreFkeys
    PROVE  IInv'
  <1>0. TypeInv'
    BY TypeStep DEF IInv
  <1>1. /\ UNCHANGED <<cf, st, saved, ddl, rows, pc, role, cmode, found, lock, try, sent, wk, fault>>
        /\ Copying = {}
        /\ \A q \in cf.parts : /\ st[q] = "ok" /\ pc[q] = "idle" /\ ~saved[q] /\ rows[q] = AllRows
    <2>1. /\ UNCHANGED <<cf, st, saved, ddl, rows, pc, role, cmode, found, lock, try, sent, wk, fault>>
          /\ Copying = {} /\ \A q \in cf.parts : st[q] = "ok"
      BY DEF RestoreFkeys
    <2> QED BY <2>1 DEF IInv, Control, Objects, Rows
  <1>2. \A q \in cf.parts, h \in Try, v \in Worker : wk[q][h][v] # "copying"
    BY <1>1, IsCopying
  <1>3. /\ Solo' = Solo /\ Ready' = Ready /\ Copying' = Copying /\ AllRows' = AllRows /\ NoRows' = NoRows
        /\ \A q \in cf.parts : Active(q)' = Active(q) /\ Leads(q)' = Leads(q)
    BY <1>1 DEF Solo, Ready, Active, Leads, Copying, AllRows, NoRows
  <1>4. Control' /\ RolesAre' /\ Modes' /\ Locks' /\ Rows'
    BY <1>1, <1>3 DEF IInv, Control, RolesAre, Modes, Locks, Rows
  <1>5. Objects'
    BY <1>1, <1>3 DEF IInv, Objects
  <1>6. Workers'
    BY <1>1, <1>2, <1>3 DEF IInv, Workers
  <1>7. Fkeys'
    BY <1>1, <1>3 DEF Fkeys, FkeysWhole, Busy
  <1> QED BY <1>0, <1>4, <1>5, <1>6, <1>7 DEF IInv

\* Every step keeps the invariant.
LEMMA NextInv == Calm /\ IInv /\ [Next]_vars => IInv'
  <1> SUFFICES ASSUME Calm, IInv, [Next]_vars PROVE IInv'
    OBVIOUS
  <1>1. CASE UNCHANGED vars
    <2>1. UNCHANGED <<cf, st, saved, ddl, fk, rows, pc, role, cmode, found, lock, try, sent, wk, fault>>
      BY <1>1 DEF vars
    <2>2. TypeInv'
      BY TypeStep DEF IInv
    <2>3. /\ Solo' = Solo /\ Ready' = Ready /\ Copying' = Copying /\ AllRows' = AllRows /\ NoRows' = NoRows
          /\ \A q \in cf.parts : Active(q)' = Active(q) /\ Leads(q)' = Leads(q)
      BY <2>1 DEF Solo, Ready, Active, Leads, Copying, AllRows, NoRows
    <2>4. Control' /\ RolesAre' /\ Modes' /\ Objects' /\ Locks'
      BY <2>1, <2>3 DEF IInv, Control, RolesAre, Modes, Objects, Locks
    <2>5. Workers' /\ Rows' /\ Fkeys'
      BY <2>1, <2>3 DEF IInv, Workers, Rows, Fkeys, FkeysWhole
    <2> QED BY <2>2, <2>4, <2>5 DEF IInv
  <1>2. CASE RestoreFkeys
    BY <1>2, RestoreFkeysStep
  <1>3. ASSUME NEW p \in cf.parts,
               \/ Load(p) \/ BeginCopy(p) \/ MergeWait(p) \/ WaitCopy(p) \/ WaitAll(p)
               \/ RestoreDdl(p) \/ LeadDone(p) \/ WannaSync(p) \/ HandOver(p)
               \/ ChooseMode(p) \/ DropFkeys(p) \/ Prepare(p) \/ CopyIn(p) \/ Spawn(p)
               \/ SendBlock(p) \/ ClosePipes(p) \/ Joined(p) \/ Commit(p)
               \/ WorkerLost(p) \/ Fail(p) \/ \E w \in Worker : WorkerFails(p, w)
               \/ \E g \in Try, w \in Worker : WorkerCopies(p, g, w) \/ WorkerCommits(p, g, w)
        PROVE  IInv'
    BY <1>3, QuietStep, DdlStep, StateStep, ModeStep, DropStep, PrepareStep, CopyInStep, SpawnStep,
       SendStep, CommitStep, AbandonStep, WorkerFailsStep, WorkerCopiesStep, WorkerCommitsStep
  <1> QED BY <1>1, <1>2, <1>3, StepsAre

-----------------------------------------------------------------------------
(* The properties, for any constants. *)

\* The invariant holds as long as the code runs.
THEOREM Inductive == Calm /\ Spec => []IInv
  <1>1. CASE Calm
    <2>1. Init => IInv
      BY InitInv
    <2>2. IInv /\ [Next]_vars => IInv'
      BY <1>1, NextInv
    <2> QED BY <2>1, <2>2, PTL DEF Spec
  <1>2. CASE ~Calm
    BY <1>2
  <1> QED BY <1>1, <1>2

\* A partition that has left in-copy is in the table completely and once.
THEOREM PartitionWhole == Calm /\ Spec => []CopyWhole
  <1>1. IInv => CopyWhole
    BY DEF IInv, Rows, CopyWhole
  <1> QED BY <1>1, Inductive, PTL

\* When every copy has ended the table has the objects that were dropped for it.
THEOREM ObjectsReturn == Calm /\ Spec => []ObjectsKept
  <1>1. IInv => ObjectsKept
    <2> SUFFICES ASSUME IInv, cf.threaded => fault = 0,
                        \A p \in cf.parts : st[p] \in {"wanna-sync", "ok"}
                 PROVE  ddl
      BY DEF ObjectsKept, ObjectsBack
    <2>1. PICK p \in cf.parts : TRUE
      BY DEF IInv, TypeInv
    <2>2. ~Ready /\ ~Active(p)
      BY DEF Ready, Active, IInv, Objects, Control
    <2> QED BY <2>1, <2>2 DEF IInv, Objects
  <1> QED BY <1>1, Inductive, PTL

\* The table has foreign keys only while all of its rows are there.
THEOREM FkeysHold == Calm /\ Spec => []FkeysWhole
  <1>1. IInv => FkeysWhole
    BY DEF IInv, Fkeys
  <1> QED BY <1>1, Inductive, PTL
=============================================================================
