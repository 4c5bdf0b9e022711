------------------------------ MODULE MCCopyTx ------------------------------
(* CopyTx for TLC: fairness of the processes that run. *)
EXTENDS CopyTx

\* Loops with a sleep, workers that the pool runs, and the queues' workers: all go on.
LiveSpec ==
  /\ Spec
  /\ WF_vars(RestoreFkeys)
  /\ \A p \in Part :
       /\ WF_vars(p \in cf.parts /\ Process(p))
       /\ WF_vars(p \in cf.parts /\ HandOver(p))
       /\ \A g \in Try, w \in Worker : WF_vars(p \in cf.parts /\ WorkerStep(p, g, w))

\* Whatever fails and whoever waits for whom (locks, roles, pipes): in the end all
\* partitions are in sync and the foreign keys are back (table_copy.py:76-86, 226;
\* playback.py:668, 1062).
AllCopied == <>[](fk /\ \A p \in cf.parts : st[p] = "ok")
=============================================================================
