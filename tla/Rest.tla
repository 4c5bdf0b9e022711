-------------------------------- MODULE Rest --------------------------------
(***************************************************************************)
(* The REST variant (londiste/rest): a batch becomes a file, and one call  *)
(* of a remote service applies it; a full copy becomes a CSV file and a    *)
(* call "resync".  The service is outside every transaction: a call that   *)
(* was made stays made when the worker fails, is rolled back and takes the *)
(* same batch again.                                                       *)
(*                                                                         *)
(* Two processes work, the worker and the copy process of one table.  They *)
(* run the same code from the same configuration, so the file of a batch   *)
(* has the same name for both.                                             *)
(***************************************************************************)
EXTENDS Integers

CONSTANTS
  MaxTick,    \* bound: batches
  MaxFault    \* bound: failures of a process, a call or a commit

ASSUME RestAssumption == MaxTick \in Nat \ {0} /\ MaxFault \in Nat

VARIABLES
  has,      \* has[t]: the processes whose tables have changes in batch t
  made,     \* the provider has committed the changes of 1..made
  tick,     \* the last tick: batches 1..tick can be had
  state,    \* merge_state of the table that is copied
  snap,     \* its snapshot: changes of 1..snap are hidden
  pos,      \* pos[x]: the last batch that process x has committed
  pc,       \* where each process is
  file,     \* file[t]: what batch_<t> in rest_work_dir contains
  data,     \* data[x]: the changes for x's tables that the service has
  wrong,    \* history: the service was sent something that is not a batch of the caller
  fault     \* failures so far

vars == <<has, made, tick, state, snap, pos, pc, file, data, wrong, fault>>

Proc == {"main", "copy"}
Ticks == 1..MaxTick
Contents == {"absent", "empty", "mixed"} \cup Proc
Places == {"idle", "sync", "open", "closed", "sent", "done", "csv", "resynced"}

\* what the process's tables change in batch t; a snapshot hides what the copy saw
Mine(x, t) == x \in has[t] /\ (x = "copy" => t > snap)

\* A process that writes its buffer to a file that another one wrote leaves a
\* file of its own or of both; a file that was removed stays removed.
Written(x, c) == IF c = "absent" THEN {"absent"}
                 ELSE IF c \in {"empty", x} THEN {x} ELSE {x, "mixed"}

-----------------------------------------------------------------------------
(* The provider *)

Produce ==
  /\ made < MaxTick /\ made = tick
  /\ made' = made + 1
  /\ UNCHANGED <<has, tick, state, snap, pos, pc, file, data, wrong, fault>>

Tick ==
  /\ tick < made
  /\ tick' = made
  /\ UNCHANGED <<has, made, state, snap, pos, pc, file, data, wrong, fault>>

-----------------------------------------------------------------------------
(* process_remote_batch *)

\* mutant: the next batch is taken to exist before its tick
GetBatch_noTick(x) ==
  /\ pc[x] = "idle" /\ pos[x] < MaxTick
  /\ pc' = [pc EXCEPT ![x] = "sync"]
  /\ UNCHANGED <<has, made, tick, state, snap, pos, file, data, wrong, fault>>

GetBatch(x) ==
  /\ pc[x] = "idle" /\ pos[x] < tick
  /\ pc' = [pc EXCEPT ![x] = "sync"]
  /\ UNCHANGED <<has, made, tick, state, snap, pos, file, data, wrong, fault>>

\* the tables are synced, the file is opened and with that emptied
OpenFile(x) ==
  /\ pc[x] = "sync" /\ (x = "copy" => state # "in-copy")
  /\ file' = [file EXCEPT ![pos[x] + 1] = "empty"]
  /\ pc' = [pc EXCEPT ![x] = "open"]
  /\ UNCHANGED <<has, made, tick, state, snap, pos, data, wrong, fault>>

\* the events are handled; send_data closes the file, unless there is no event
CloseFile(x) ==
  /\ pc[x] = "open"
  /\ IF Mine(x, pos[x] + 1)
     THEN /\ \E c \in Written(x, file[pos[x] + 1]) :
               file' = [file EXCEPT ![pos[x] + 1] = c]
          /\ pc' = [pc EXCEPT ![x] = "closed"]
     ELSE /\ pc' = [pc EXCEPT ![x] = "sent"]
          /\ UNCHANGED file
  /\ UNCHANGED <<has, made, tick, state, snap, pos, data, wrong, fault>>

\* what the service makes of a batch file of process x
Sync(x) ==
  LET t == pos[x] + 1
  IN /\ data' = [data EXCEPT ![x] = IF file[t] = x THEN @ \cup {t} ELSE @]
     /\ wrong' = (wrong \/ file[t] # x)

\* mutant: the file is removed when it was sent
CallSync_removes(x) ==
  /\ pc[x] = "closed" /\ file[pos[x] + 1] # "absent"
  /\ Sync(x)
  /\ file' = [file EXCEPT ![pos[x] + 1] = "absent"]
  /\ pc' = [pc EXCEPT ![x] = "sent"]
  /\ UNCHANGED <<has, made, tick, state, snap, pos, fault>>

\* call_api opens the file by its name
CallSync(x) ==
  /\ pc[x] = "closed" /\ file[pos[x] + 1] # "absent"
  /\ Sync(x)
  /\ pc' = [pc EXCEPT ![x] = "sent"]
  /\ UNCHANGED <<has, made, tick, state, snap, pos, file, fault>>

\* an empty file is removed
RemoveEmpty(x) ==
  /\ pc[x] = "sent" /\ file[pos[x] + 1] # "absent"
  /\ file' = [file EXCEPT ![pos[x] + 1] = IF @ = "empty" THEN "absent" ELSE @]
  /\ pc' = [pc EXCEPT ![x] = "done"]
  /\ UNCHANGED <<has, made, tick, state, snap, pos, data, wrong, fault>>

\* table state and position are committed together
FinishBatch(x) ==
  /\ pc[x] = "done"
  /\ pos' = [pos EXCEPT ![x] = @ + 1]
  /\ pc' = [pc EXCEPT ![x] = "idle"]
  /\ UNCHANGED <<has, made, tick, state, snap, file, data, wrong, fault>>

-----------------------------------------------------------------------------
(* do_copy *)

\* COPY to a file of its own: everything that was committed is in it
Csv ==
  /\ pc["copy"] = "sync" /\ state = "in-copy"
  /\ snap' = made
  /\ pc' = [pc EXCEPT !["copy"] = "csv"]
  /\ UNCHANGED <<has, made, tick, state, pos, file, data, wrong, fault>>

\* the service replaces the whole table
Resync == data' = [data EXCEPT !["copy"] = {t \in 1..snap : "copy" \in has[t]}]

CallResync ==
  /\ pc["copy"] = "csv"
  /\ Resync
  /\ pc' = [pc EXCEPT !["copy"] = "resynced"]
  /\ UNCHANGED <<has, made, tick, state, snap, pos, file, wrong, fault>>

\* state and snapshot are saved; the table is synced, the batch goes on
FinishCopy ==
  /\ pc["copy"] = "resynced"
  /\ state' = "catching-up"
  /\ pc' = [pc EXCEPT !["copy"] = "sync"]
  /\ UNCHANGED <<has, made, tick, snap, pos, file, data, wrong, fault>>

-----------------------------------------------------------------------------
(* Failures *)

\* mutant: a call that failed is not noticed
CallFails_ignored(x) ==
  /\ fault < MaxFault /\ fault' = fault + 1
  /\ pc[x] = "closed"
  /\ pc' = [pc EXCEPT ![x] = "sent"]
  /\ UNCHANGED <<has, made, tick, state, snap, pos, file, data, wrong>>

\* a call that fails may have been served all the same: the answer was lost
CallFails(x) ==
  /\ fault < MaxFault /\ fault' = fault + 1
  /\ \/ pc[x] = "closed" /\ file[pos[x] + 1] # "absent" /\ Sync(x)
     \/ x = "copy" /\ pc[x] = "csv" /\ Resync /\ UNCHANGED wrong
  /\ pc' = [pc EXCEPT ![x] = "idle"]
  /\ UNCHANGED <<has, made, tick, state, snap, pos, file>>

\* the process fails, or its transaction: the next attempt gets the same batch
Fail(x) ==
  /\ pc[x] # "idle" /\ fault < MaxFault
  /\ fault' = fault + 1
  /\ pc' = [pc EXCEPT ![x] = "idle"]
  /\ UNCHANGED <<has, made, tick, state, snap, pos, file, data, wrong>>

\* the file is gone when it is to be sent or looked at
FileLost(x) ==
  /\ pc[x] \in {"closed", "sent"} /\ file[pos[x] + 1] = "absent"
  /\ pc' = [pc EXCEPT ![x] = "idle"]
  /\ UNCHANGED <<has, made, tick, state, snap, pos, file, data, wrong, fault>>

-----------------------------------------------------------------------------
Init ==
  /\ has \in [Ticks -> SUBSET Proc]
  /\ made = 0 /\ tick = 0 /\ state = "in-copy" /\ snap = 0
  /\ pos = [x \in Proc |-> 0]
  /\ pc = [x \in Proc |-> "idle"]
  /\ file = [t \in Ticks |-> "absent"]
  /\ data = [x \in Proc |-> {}]
  /\ wrong = FALSE /\ fault = 0

Process(x) ==
  \/ GetBatch(x) \/ OpenFile(x) \/ CloseFile(x) \/ CallSync(x) \/ RemoveEmpty(x)
  \/ FinishBatch(x) \/ FileLost(x)

Next ==
  \/ Produce \/ Tick \/ Csv \/ CallResync \/ FinishCopy
  \/ \E x \in Proc : Process(x) \/ CallFails(x) \/ Fail(x)

Spec == Init /\ [][Next]_vars

-----------------------------------------------------------------------------
(* Properties *)

\* The variables have their types.
TypeOK ==
  /\ has \in [Ticks -> SUBSET Proc]
  /\ made \in 0..MaxTick /\ tick \in 0..made /\ snap \in 0..made
  /\ state \in {"in-copy", "catching-up"} /\ pos \in [Proc -> 0..tick] /\ pc \in [Proc -> Places]
  /\ file \in [Ticks -> Contents] /\ data \in [Proc -> SUBSET Ticks]
  /\ wrong \in BOOLEAN /\ fault \in 0..MaxFault

\* What the service must have: what process x committed, and what its copy saw.
Due(x) == {t \in Ticks : x \in has[t] /\ (t <= pos[x] \/ (x = "copy" /\ t <= snap))}

\* However calls, commits and processes fail: as long as nobody's file was taken
\* for another's, the service has everything that was committed, and more than that
\* only of the batch that is being handled.  A repeated call repeats the last batch,
\* never an older one, and no copy is older than the position
\* (rest/playback.py:75-94, rest/table_copy.py:174-192).
OneAhead ==
  ~wrong => \A x \in Proc : (x = "copy" => state # "in-copy") =>
              /\ Due(x) \subseteq data[x]
              /\ data[x] \subseteq Due(x) \cup {pos[x] + 1}

\* A batch is sent whole and by itself: the service never gets another process's
\* events, a mixture or an empty file in the name of a batch ("we need to send the
\* whole batch in one API call", rest/playback.py:421).
WholeBatch == ~wrong
=============================================================================
