---------------------------- MODULE Rest_proofs -----------------------------
(***************************************************************************)
(* Proofs about Rest: types, and that the service is at most one batch     *)
(* ahead of what was committed, for any number of batches and failures.    *)
(***************************************************************************)
EXTENDS Rest, TLAPS

\* A process that handles a batch handles one that has its tick, and what it is
\* about to send are changes of its own tables.
Ahead ==
  \A x \in Proc : /\ pc[x] # "idle" => pos[x] < tick
                  /\ pc[x] = "closed" => x \in has[pos[x] + 1]

\* The copy comes before the first batch, and only the copy process makes one.
CopyFirst ==
  /\ pc["main"] \notin {"csv", "resynced"}
  /\ pc["copy"] \in {"csv", "resynced"} => state = "in-copy"
  /\ state = "in-copy" => pos["copy"] = 0 /\ pc["copy"] \in {"idle", "sync", "csv", "resynced"}

\* A batch that was sent is there, and so is a copy.
Sent ==
  ~wrong =>
    /\ \A x \in Proc : pc[x] \in {"sent", "done"} /\ Mine(x, pos[x] + 1) =>
         pos[x] + 1 \in data[x]
    /\ pc["copy"] = "resynced" => data["copy"] = {t \in 1..snap : "copy" \in has[t]}

\* Nothing is sent but changes of one's own tables.
Own == \A x \in Proc : data[x] \subseteq {t \in Ticks : x \in has[t]}

RestInv == TypeOK /\ Ahead /\ CopyFirst /\ Sent /\ Own /\ OneAhead

-----------------------------------------------------------------------------
\* The invariant holds at the start.
LEMMA InitRest == Init => RestInv
  <1> SUFFICES ASSUME Init PROVE RestInv
    OBVIOUS
  <1>1. TypeOK
    <2>1. 0 \in 0..MaxTick /\ 0 \in 0..0 /\ 0 \in 0..MaxFault
      BY RestAssumption
    <2>2. "idle" \in Places /\ "absent" \in Contents /\ {} \in SUBSET Ticks
      BY DEF Places, Contents
    <2> QED BY <2>1, <2>2 DEF Init, TypeOK
  <1>2. Ahead /\ CopyFirst /\ Sent /\ Own
    BY DEF Init, Ahead, CopyFirst, Sent, Own, Proc
  <1>3. OneAhead
    <2> SUFFICES ASSUME NEW x \in Proc, x = "copy" => state # "in-copy"
                 PROVE  Due(x) \subseteq data[x] /\ data[x] \subseteq Due(x) \cup {pos[x] + 1}
      BY DEF OneAhead
    <2>1. x = "main" /\ pos[x] = 0 /\ data[x] = {}
      BY DEF Init, Proc
    <2> QED BY <2>1, RestAssumption DEF Due, Ticks
  <1> QED BY <1>1, <1>2, <1>3 DEF RestInv

-----------------------------------------------------------------------------
\* A stuttering step changes nothing.
LEMMA Stutter ==
    ASSUME UNCHANGED vars
    PROVE  /\ has' = has /\ made' = made /\ tick' = tick /\ state' = state /\ snap' = snap
           /\ pos' = pos /\ pc' = pc /\ file' = file /\ data' = data /\ wrong' = wrong
           /\ fault' = fault
  BY DEF vars

\* The steps of a process.
LEMMA Steps ==
    ASSUME [Next]_vars
    PROVE  \/ UNCHANGED vars \/ Produce \/ Tick \/ Csv \/ CallResync \/ FinishCopy
           \/ \E x \in Proc : \/ GetBatch(x) \/ OpenFile(x) \/ CloseFile(x) \/ CallSync(x)
                              \/ RemoveEmpty(x) \/ FinishBatch(x) \/ FileLost(x)
                              \/ CallFails(x) \/ Fail(x)
  BY DEF Next, Process

\* What the types say of one process.
LEMMA OneProcess ==
    ASSUME TypeOK, Ahead, NEW x \in Proc
    PROVE  /\ pos[x] \in 0..tick /\ pos[x] \in Nat /\ tick \in Nat /\ made \in Nat /\ MaxTick \in Nat
           /\ tick <= made /\ made <= MaxTick
           /\ pc[x] # "idle" => pos[x] + 1 \in Ticks /\ pos[x] + 1 <= tick
  BY RestAssumption DEF TypeOK, Ahead, Ticks

\* Every step keeps the types.
LEMMA TypeStep == TypeOK /\ Ahead /\ [Next]_vars => TypeOK'
  <1> SUFFICES ASSUME TypeOK, Ahead, [Next]_vars PROVE TypeOK'
    OBVIOUS
  <1>a. MaxTick \in Nat /\ MaxFault \in Nat
    BY RestAssumption
  <1>1. CASE UNCHANGED vars
    BY <1>1, Stutter DEF TypeOK
  <1>2. CASE Produce
    BY <1>2, <1>a DEF Produce, TypeOK
  <1>3. CASE Tick
    BY <1>3, <1>a DEF Tick, TypeOK
  <1>4. CASE Csv
    BY <1>4, <1>a DEF Csv, TypeOK, Proc, Places
  <1>5. CASE CallResync
    <2>1. {t \in 1..snap : "copy" \in has[t]} \subseteq Ticks
      BY <1>a DEF TypeOK, Ticks
    <2> QED BY <1>5, <2>1 DEF CallResync, Resync, TypeOK, Proc, Places
  <1>6. CASE FinishCopy
    BY <1>6, <1>a DEF FinishCopy, TypeOK, Proc, Places
  <1>7. ASSUME NEW x \in Proc, \/ GetBatch(x) \/ OpenFile(x) \/ CloseFile(x) \/ CallSync(x)
                               \/ RemoveEmpty(x) \/ FinishBatch(x) \/ FileLost(x)
                               \/ CallFails(x) \/ Fail(x)
        PROVE  TypeOK'
    <2>a. pc[x] # "idle" => pos[x] + 1 \in Ticks /\ pos[x] + 1 \in 0..tick
      BY OneProcess
    <2>b. ASSUME Sync(x), pc[x] # "idle"
          PROVE  data' \in [Proc -> SUBSET Ticks] /\ wrong' \in BOOLEAN
      BY <2>a, <2>b DEF Sync, TypeOK
    <2>1. CASE GetBatch(x)
      BY <2>1 DEF GetBatch, TypeOK, Places
    <2>2. CASE OpenFile(x)
      BY <2>2 DEF OpenFile, TypeOK, Places, Contents
    <2>3. CASE CloseFile(x)
      <3>1. ASSUME NEW c \in Written(x, file[pos[x] + 1])
            PROVE  c \in Contents
        BY <3>1 DEF Written, Contents, Proc
      <3> QED BY <2>3, <3>1 DEF CloseFile, TypeOK, Places
    <2>4. CASE CallSync(x)
      BY <2>4, <2>b DEF CallSync, TypeOK, Places
    <2>5. CASE RemoveEmpty(x)
      BY <2>5 DEF RemoveEmpty, TypeOK, Places, Contents
    <2>6. CASE FinishBatch(x)
      BY <2>6, <2>a DEF FinishBatch, TypeOK, Places
    <2>7. CASE FileLost(x)
      BY <2>7 DEF FileLost, TypeOK, Places
    <2>8. CASE CallFails(x)
      <3>1. pc' \in [Proc -> Places] /\ fault' \in 0..MaxFault
        BY <2>8, <1>a DEF CallFails, TypeOK, Places
      <3>2. data' \in [Proc -> SUBSET Ticks] /\ wrong' \in BOOLEAN
        <4>1. CASE pc[x] = "closed" /\ Sync(x)
          BY <4>1, <2>b
        <4>2. CASE Resync /\ UNCHANGED wrong
          <5>1. {t \in 1..snap : "copy" \in has[t]} \subseteq Ticks
            BY <1>a DEF TypeOK, Ticks
          <5> QED BY <4>2, <5>1 DEF Resync, TypeOK
        <4> QED BY <2>8, <4>1, <4>2 DEF CallFails
      <3> QED BY <2>8, <3>1, <3>2 DEF CallFails, TypeOK
    <2>9. CASE Fail(x)
      BY <2>9, <1>a DEF Fail, TypeOK, Places
    <2> QED BY <1>7, <2>1, <2>2, <2>3, <2>4, <2>5, <2>6, <2>7, <2>8, <2>9
  <1> QED BY <1>1, <1>2, <1>3, <1>4, <1>5, <1>6, <1>7, Steps

\* Every step keeps a process that handles a batch behind its tick.
LEMMA AheadStep == TypeOK /\ Ahead /\ [Next]_vars => Ahead'
  <1> SUFFICES ASSUME TypeOK, Ahead, [Next]_vars, NEW y \in Proc
               PROVE  /\ pc'[y] # "idle" => pos'[y] < tick'
                      /\ pc'[y] = "closed" => y \in has'[pos'[y] + 1]
    BY DEF Ahead
  <1>a. /\ pc[y] # "idle" => pos[y] < tick
        /\ pc[y] = "closed" => y \in has[pos[y] + 1]
        /\ pos[y] \in Nat /\ tick \in Nat /\ made \in Nat
    BY OneProcess DEF Ahead
  <1>b. pc \in [Proc -> Places] /\ pos \in [Proc -> 0..tick] /\ "copy" \in Proc
    BY DEF TypeOK, Proc
  <1>1. CASE UNCHANGED vars
    BY <1>1, <1>a, Stutter
  <1>2. CASE Produce
    BY <1>2, <1>a DEF Produce
  <1>3. CASE Tick
    BY <1>3, <1>a DEF Tick
  <1>4. CASE Csv
    BY <1>4, <1>a, <1>b DEF Csv
  <1>5. CASE CallResync
    BY <1>5, <1>a, <1>b DEF CallResync
  <1>6. CASE FinishCopy
    BY <1>6, <1>a, <1>b DEF FinishCopy
  <1>7. ASSUME NEW x \in Proc, \/ GetBatch(x) \/ OpenFile(x) \/ CloseFile(x) \/ CallSync(x)
                               \/ RemoveEmpty(x) \/ FinishBatch(x) \/ FileLost(x)
                               \/ CallFails(x) \/ Fail(x)
        PROVE  /\ pc'[y] # "idle" => pos'[y] < tick'
               /\ pc'[y] = "closed" => y \in has'[pos'[y] + 1]
    <2>1. CASE GetBatch(x)
      BY <2>1, <1>a, <1>b DEF GetBatch
    <2>2. CASE OpenFile(x)
      BY <2>2, <1>a, <1>b DEF OpenFile
    <2>3. CASE CloseFile(x)
      BY <2>3, <1>a, <1>b DEF CloseFile, Mine
    <2>4. CASE CallSync(x)
      BY <2>4, <1>a, <1>b DEF CallSync
    <2>5. CASE RemoveEmpty(x)
      BY <2>5, <1>a, <1>b DEF RemoveEmpty
    <2>6. CASE FinishBatch(x)
      BY <2>6, <1>a, <1>b DEF FinishBatch
    <2>7. CASE FileLost(x)
      BY <2>7, <1>a, <1>b DEF FileLost
    <2>8. CASE CallFails(x)
      BY <2>8, <1>a, <1>b DEF CallFails
    <2>9. CASE Fail(x)
      BY <2>9, <1>a, <1>b DEF Fail
    <2> QED BY <1>7, <2>1, <2>2, <2>3, <2>4, <2>5, <2>6, <2>7, <2>8, <2>9
  <1> QED BY <1>1, <1>2, <1>3, <1>4, <1>5, <1>6, <1>7, Steps

\* Every step keeps a table's copy before its changes.
LEMMA CopyFirstStep == TypeOK /\ CopyFirst /\ [Next]_vars => CopyFirst'
  <1> SUFFICES ASSUME TypeOK, CopyFirst, [Next]_vars PROVE CopyFirst'
    OBVIOUS
  <1>b. pc \in [Proc -> Places] /\ pos \in [Proc -> 0..tick] /\ Proc = {"main", "copy"}
    BY DEF TypeOK, Proc
  <1> USE DEF CopyFirst
  <1>1. CASE UNCHANGED vars
    BY <1>1, Stutter
  <1>2. CASE Produce
    BY <1>2 DEF Produce
  <1>3. CASE Tick
    BY <1>3 DEF Tick
  <1>4. CASE Csv
    BY <1>4, <1>b DEF Csv
  <1>5. CASE CallResync
    BY <1>5, <1>b DEF CallResync
  <1>6. CASE FinishCopy
    BY <1>6, <1>b DEF FinishCopy
  <1>7. ASSUME NEW x \in Proc, \/ GetBatch(x) \/ OpenFile(x) \/ CloseFile(x) \/ CallSync(x)
                               \/ RemoveEmpty(x) \/ FinishBatch(x) \/ FileLost(x)
                               \/ CallFails(x) \/ Fail(x)
        PROVE  CopyFirst'
    <2>a. x = "main" \/ x = "copy"
      BY <1>b
    <2>1. CASE GetBatch(x)
      BY <2>1, <2>a, <1>b DEF GetBatch
    <2>2. CASE OpenFile(x)
      BY <2>2, <2>a, <1>b DEF OpenFile
    <2>3. CASE CloseFile(x)
      BY <2>3, <2>a, <1>b DEF CloseFile
    <2>4. CASE CallSync(x)
      BY <2>4, <2>a, <1>b DEF CallSync
    <2>5. CASE RemoveEmpty(x)
      BY <2>5, <2>a, <1>b DEF RemoveEmpty
    <2>6. CASE FinishBatch(x)
      BY <2>6, <2>a, <1>b DEF FinishBatch
    <2>7. CASE FileLost(x)
      BY <2>7, <2>a, <1>b DEF FileLost
    <2>8. CASE CallFails(x)
      BY <2>8, <2>a, <1>b DEF CallFails
    <2>9. CASE Fail(x)
      BY <2>9, <2>a, <1>b DEF Fail
    <2> QED BY <1>7, <2>1, <2>2, <2>3, <2>4, <2>5, <2>6, <2>7, <2>8, <2>9
  <1> QED BY <1>1, <1>2, <1>3, <1>4, <1>5, <1>6, <1>7, Steps

-----------------------------------------------------------------------------
\* A call sends a change of the process's own, or marks that it went wrong.
LEMMA Synced ==
    ASSUME TypeOK, Ahead, NEW x \in Proc, pc[x] = "closed", Sync(x)
    PROVE  /\ x \in has[pos[x] + 1] /\ pos[x] + 1 \in Ticks
           /\ \A y \in Proc : y # x => data'[y] = data[y]
           /\ data'[x] = data[x] \/ data'[x] = data[x] \cup {pos[x] + 1}
           /\ ~wrong' => ~wrong /\ data'[x] = data[x] \cup {pos[x] + 1}
  <1>1. x \in has[pos[x] + 1] /\ pos[x] + 1 \in Ticks
    BY OneProcess DEF Ahead
  <1>2. data \in [Proc -> SUBSET Ticks]
    BY DEF TypeOK
  <1> QED BY <1>1, <1>2 DEF Sync

\* Every step sends a process's own changes, or none.
LEMMA OwnStep == TypeOK /\ Ahead /\ CopyFirst /\ Own /\ [Next]_vars => Own'
  <1> SUFFICES ASSUME TypeOK, Ahead, CopyFirst, Own, [Next]_vars, NEW y \in Proc, NEW t \in data'[y]
               PROVE  t \in Ticks /\ y \in has'[t]
    BY DEF Own
  <1>a. t \in data[y] => t \in Ticks /\ y \in has[t]
    BY DEF Own
  <1>b. Resync => (t \notin data[y] => t \in Ticks /\ y \in has[t])
    BY OneProcess, RestAssumption DEF Resync, TypeOK, Ticks, Proc
  <1>c. ASSUME NEW x \in Proc, pc[x] = "closed", Sync(x)
        PROVE  t \notin data[y] => t \in Ticks /\ y \in has[t]
    BY <1>c, Synced
  <1>1. CASE UNCHANGED data /\ UNCHANGED has
    BY <1>1, <1>a
  <1>2. CASE CallResync
    BY <1>2, <1>a, <1>b DEF CallResync
  <1>3. ASSUME NEW x \in Proc, CallSync(x) \/ CallFails(x)
        PROVE  t \in Ticks /\ y \in has'[t]
    BY <1>3, <1>a, <1>b, <1>c DEF CallSync, CallFails
  <1>4. ASSUME NEW x \in Proc, \/ GetBatch(x) \/ OpenFile(x) \/ CloseFile(x) \/ RemoveEmpty(x)
                               \/ FinishBatch(x) \/ FileLost(x) \/ Fail(x)
        PROVE  UNCHANGED data /\ UNCHANGED has
    BY <1>4 DEF GetBatch, OpenFile, CloseFile, RemoveEmpty, FinishBatch, FileLost, Fail
  <1>5. Produce \/ Tick \/ Csv \/ FinishCopy => UNCHANGED data /\ UNCHANGED has
    BY DEF Produce, Tick, Csv, FinishCopy
  <1> QED BY <1>1, <1>2, <1>3, <1>4, <1>5, Steps, Stutter

\* Every step keeps what was sent at the service.
LEMMA SentStep == TypeOK /\ Ahead /\ CopyFirst /\ Sent /\ [Next]_vars => Sent'
  <1> SUFFICES ASSUME TypeOK, Ahead, CopyFirst, Sent, [Next]_vars, ~wrong'
               PROVE  /\ \A y \in Proc : pc'[y] \in {"sent", "done"} /\ Mine(y, pos[y] + 1)' =>
                           pos'[y] + 1 \in data'[y]
                      /\ pc'["copy"] = "resynced" =>
                           data'["copy"] = {t \in 1..snap' : "copy" \in has'[t]}
    BY DEF Sent
  <1> DEFINE There(y) == pc[y] \in {"sent", "done"} /\ Mine(y, pos[y] + 1) => pos[y] + 1 \in data[y]
             Copied == pc["copy"] = "resynced" => data["copy"] = {t \in 1..snap : "copy" \in has[t]}
  <1>a. ~wrong => (\A y \in Proc : There(y)) /\ Copied
    BY DEF Sent
  <1>b. pc \in [Proc -> Places] /\ pos \in [Proc -> 0..tick] /\ Proc = {"main", "copy"}
        /\ data \in [Proc -> SUBSET Ticks]
    BY DEF TypeOK, Proc
  <1> SUFFICES (\A y \in Proc : There(y)') /\ Copied'
    BY DEF Mine
  <1>1. CASE UNCHANGED vars
    BY <1>1, <1>a, Stutter DEF Mine
  <1>2. CASE Produce \/ Tick
    BY <1>2, <1>a DEF Produce, Tick, Mine
  <1>3. CASE Csv
    BY <1>3, <1>a, <1>b DEF Csv, Mine
  <1>4. CASE CallResync
    <2>1. ~wrong /\ \A y \in Proc : pc'[y] \in {"sent", "done"} => y = "main" /\ pc[y] = pc'[y]
      BY <1>4, <1>b DEF CallResync
    <2>2. data'["main"] = data["main"]
      BY <1>4, <1>b DEF CallResync, Resync
    <2>3. data'["copy"] = {t \in 1..snap : "copy" \in has[t]}
      BY <1>4, <1>b DEF CallResync, Resync
    <2> QED BY <1>4, <1>a, <2>1, <2>2, <2>3 DEF CallResync, Mine
  <1>5. CASE FinishCopy
    BY <1>5, <1>a, <1>b DEF FinishCopy, Mine
  <1>7. ASSUME NEW x \in Proc, \/ GetBatch(x) \/ OpenFile(x) \/ CloseFile(x) \/ CallSync(x)
                               \/ RemoveEmpty(x) \/ FinishBatch(x) \/ FileLost(x)
                               \/ CallFails(x) \/ Fail(x)
        PROVE  (\A y \in Proc : There(y)') /\ Copied'
    <2>1. CASE GetBatch(x)
      BY <2>1, <1>a, <1>b DEF GetBatch, Mine
    <2>2. CASE OpenFile(x)
      BY <2>2, <1>a, <1>b DEF OpenFile, Mine
    <2>3. CASE CloseFile(x)
      BY <2>3, <1>a, <1>b DEF CloseFile, Mine
    <2>4. CASE CallSync(x)
      <3>1. ~wrong /\ data'[x] = data[x] \cup {pos[x] + 1} /\ \A y \in Proc : y # x => data'[y] = data[y]
        BY <2>4, Synced DEF CallSync
      <3>2. pc'["copy"] # "resynced" \/ x = "main"
        BY <2>4, <1>b DEF CallSync
      <3> QED BY <2>4, <3>1, <3>2, <1>a, <1>b DEF CallSync, Mine
    <2>5. CASE RemoveEmpty(x)
      BY <2>5, <1>a, <1>b DEF RemoveEmpty, Mine
    <2>6. CASE FinishBatch(x)
      BY <2>6, <1>a, <1>b DEF FinishBatch, Mine
    <2>7. CASE FileLost(x)
      BY <2>7, <1>a, <1>b DEF FileLost, Mine
    <2>8. CASE CallFails(x)
      <3>1. ~wrong /\ \A y \in Proc : y # x => data'[y] = data[y]
        <4>1. CASE pc[x] = "closed" /\ Sync(x)
          BY <4>1, Synced
        <4>2. CASE x = "copy" /\ Resync /\ UNCHANGED wrong
          BY <4>2, <1>b DEF Resync
        <4> QED BY <2>8, <4>1, <4>2 DEF CallFails
      <3>2. pc'[x] = "idle" /\ \A y \in Proc : y # x => pc'[y] = pc[y]
        BY <2>8, <1>b DEF CallFails
      <3>3. has' = has /\ snap' = snap /\ pos' = pos
        BY <2>8 DEF CallFails
      <3> QED BY <3>1, <3>2, <3>3, <1>a, <1>b DEF Mine
    <2>9. CASE Fail(x)
      BY <2>9, <1>a, <1>b DEF Fail, Mine
    <2> QED BY <1>7, <2>1, <2>2, <2>3, <2>4, <2>5, <2>6, <2>7, <2>8, <2>9
  <1> QED BY <1>1, <1>2, <1>3, <1>4, <1>5, <1>7, Steps

-----------------------------------------------------------------------------
\* Every step keeps the service at most one batch ahead.
LEMMA OneStep == RestInv /\ [Next]_vars => OneAhead'
  <1> SUFFICES ASSUME RestInv, [Next]_vars, ~wrong', NEW y \in Proc,
                      y = "copy" => state' # "in-copy"
               PROVE  Due(y)' \subseteq data'[y] /\ data'[y] \subseteq Due(y)' \cup {pos'[y] + 1}
    BY DEF OneAhead
  <1> DEFINE Good == Due(y) \subseteq data[y] /\ data[y] \subseteq Due(y) \cup {pos[y] + 1}
  <1>a. ~wrong /\ (y = "copy" => state # "in-copy") => Good
    BY DEF RestInv, OneAhead
  <1>b. /\ pc \in [Proc -> Places] /\ pos \in [Proc -> 0..tick] /\ Proc = {"main", "copy"}
        /\ data \in [Proc -> SUBSET Ticks]
    BY DEF RestInv, TypeOK, Proc
  <1>i. TypeOK /\ Ahead /\ CopyFirst /\ Sent /\ Own
    BY DEF RestInv
  <1> SUFFICES Good'
    OBVIOUS
  <1>s. ASSUME UNCHANGED <<has, snap>>, pos'[y] = pos[y], data'[y] = data[y], ~wrong,
               y = "copy" => state # "in-copy"
        PROVE  Good'
    BY <1>s, <1>a DEF Due
  <1>1. CASE UNCHANGED vars
    BY <1>1, <1>s, Stutter
  <1>2. CASE Produce \/ Tick
    BY <1>2, <1>s DEF Produce, Tick
  <1>3. CASE Csv
    <2>1. y = "main"
      BY <1>3, <1>b DEF Csv
    <2> QED BY <1>3, <1>a, <2>1 DEF Csv, Due
  <1>4. CASE CallResync
    <2>1. y = "main" /\ data'[y] = data[y]
      BY <1>4, <1>b, <1>i DEF CallResync, CopyFirst, Resync
    <2> QED BY <1>4, <1>s, <2>1 DEF CallResync
  <1>5. CASE FinishCopy
    <2>1. CASE y = "main"
      BY <1>5, <1>s, <2>1 DEF FinishCopy
    <2>2. CASE y = "copy"
      <3>1. state = "in-copy" /\ pos[y] = 0 /\ data[y] = {t \in 1..snap : "copy" \in has[t]}
        BY <1>5, <1>i, <2>2 DEF FinishCopy, CopyFirst, Sent
      <3>2. Due(y)' = {t \in Ticks : "copy" \in has[t] /\ (t <= 0 \/ t <= snap)}
        BY <1>5, <2>2, <3>1 DEF FinishCopy, Due
      <3>3. snap \in 0..MaxTick /\ MaxTick \in Nat
        BY <1>i, RestAssumption DEF TypeOK
      <3>4. Due(y)' = data[y]
        BY <3>1, <3>2, <3>3 DEF Ticks
      <3> QED BY <1>5, <3>4 DEF FinishCopy
    <2> QED BY <1>b, <2>1, <2>2
  <1>7. ASSUME NEW x \in Proc, \/ GetBatch(x) \/ OpenFile(x) \/ CloseFile(x) \/ CallSync(x)
                               \/ RemoveEmpty(x) \/ FinishBatch(x) \/ FileLost(x)
                               \/ CallFails(x) \/ Fail(x)
        PROVE  Good'
    <2>s. ASSUME Sync(x), pc[x] = "closed", UNCHANGED <<has, snap, pos, state>>
          PROVE  Good'
      <3>1. ~wrong /\ \/ data'[y] = data[y]
                      \/ x = y /\ data'[y] = data[y] \cup {pos[y] + 1}
        BY <2>s, <1>i, Synced
      <3>2. Good
        BY <2>s, <3>1, <1>a
      <3>3. Due(y)' = Due(y)
        BY <2>s DEF Due
      <3> QED BY <2>s, <3>1, <3>2, <3>3
    <2>1. CASE GetBatch(x)
      BY <2>1, <1>s DEF GetBatch
    <2>2. CASE OpenFile(x)
      BY <2>2, <1>s DEF OpenFile
    <2>3. CASE CloseFile(x)
      BY <2>3, <1>s DEF CloseFile
    <2>4. CASE CallSync(x)
      BY <2>4, <2>s DEF CallSync
    <2>5. CASE RemoveEmpty(x)
      BY <2>5, <1>s DEF RemoveEmpty
    <2>6. CASE FinishBatch(x)
      <3>1. ~wrong /\ state' = state /\ data' = data /\ snap' = snap /\ has' = has
        BY <2>6 DEF FinishBatch
      <3>2. Good
        BY <3>1, <1>a
      <3>3. CASE x # y
        BY <2>6, <3>1, <3>3, <1>b, <1>s DEF FinishBatch
      <3>4. CASE x = y
        <4>1. pos'[y] = pos[y] + 1 /\ pos[y] \in Nat /\ pos[y] + 1 \in Ticks
          BY <2>6, <3>4, <1>b, <1>i, OneProcess DEF FinishBatch
        <4>2. y \in has[pos[y] + 1] => pos[y] + 1 \in data[y]
          <5>1. CASE Mine(y, pos[y] + 1)
            BY <2>6, <3>1, <3>4, <1>i, <5>1 DEF FinishBatch, Sent
          <5>2. CASE y = "copy" /\ y \in has[pos[y] + 1] /\ ~(pos[y] + 1 > snap)
            <6>1. pos[y] + 1 <= snap
              BY <5>2, <4>1, <1>i DEF TypeOK
            <6>2. pos[y] + 1 \in Due(y)
              BY <5>2, <6>1, <4>1 DEF Due
            <6> QED BY <6>2, <3>2
          <5> QED BY <5>1, <5>2 DEF Mine
        <4>3. pos[y] + 1 \in data[y] => y \in has[pos[y] + 1]
          BY <1>i DEF Own
        <4>4. \A t \in Ticks : t \in Due(y)' <=> t \in Due(y) \/ (y \in has[t] /\ t = pos[y] + 1)
          BY <3>1, <4>1 DEF Due, Ticks
        <4>5. Due(y)' \subseteq Ticks /\ Due(y) \subseteq Ticks /\ data[y] \subseteq Ticks
          BY <1>b DEF Due
        <4> QED BY <3>1, <3>2, <4>2, <4>3, <4>4, <4>5
      <3> QED BY <3>3, <3>4
    <2>7. CASE FileLost(x)
      BY <2>7, <1>s DEF FileLost
    <2>8. CASE CallFails(x)
      <3>1. CASE pc[x] = "closed" /\ Sync(x)
        BY <2>8, <3>1, <2>s DEF CallFails
      <3>2. CASE x = "copy" /\ pc[x] = "csv" /\ Resync /\ UNCHANGED wrong
        <4>1. state = "in-copy"
          BY <3>2, <1>i DEF CopyFirst
        <4>2. y = "main" /\ data'[y] = data[y]
          BY <2>8, <3>2, <4>1, <1>b DEF CallFails, Resync
        <4> QED BY <2>8, <3>2, <4>2, <1>s DEF CallFails
      <3> QED BY <2>8, <3>1, <3>2 DEF CallFails
    <2>9. CASE Fail(x)
      BY <2>9, <1>s DEF Fail
    <2> QED BY <1>7, <2>1, <2>2, <2>3, <2>4, <2>5, <2>6, <2>7, <2>8, <2>9
  <1> QED BY <1>1, <1>2, <1>3, <1>4, <1>5, <1>7, <1>i, Steps

-----------------------------------------------------------------------------
\* The invariant holds for ever.
LEMMA Always == Spec => []RestInv
  <1>1. RestInv /\ [Next]_vars => RestInv'
    BY TypeStep, AheadStep, CopyFirstStep, SentStep, OwnStep, OneStep DEF RestInv
  <1> QED BY InitRest, <1>1, PTL DEF Spec

\* Every variable keeps its type, and no process is past the last tick (the whole
\* of rest/playback.py:31-113 and rest/table_copy.py:60-222 as modelled).
THEOREM TypeCorrect == Spec => []TypeOK
  <1>1. RestInv => TypeOK
    BY DEF RestInv
  <1> QED BY Always, <1>1, PTL

\* The service never falls behind what was committed, and is ahead of it by the
\* current batch at most, whatever fails and however often (rest/playback.py:75-94,
\* rest/table_copy.py:174-192).
THEOREM NeverBehind == Spec => []OneAhead
  <1>1. RestInv => OneAhead
    BY DEF RestInv
  <1> QED BY Always, <1>1, PTL

=============================================================================
