------------------------------- MODULE MCRest -------------------------------
(* Rest for TLC: fairness of the processes that run. *)
EXTENDS Rest

LiveSpec ==
  /\ Spec
  /\ WF_vars(Produce) /\ WF_vars(Tick)
  /\ WF_vars(Csv \/ CallResync \/ FinishCopy)
  /\ \A x \in Proc : WF_vars(Process(x))

\* In the end both processes have committed every batch.
AllSent == <>(\A x \in Proc : pos[x] = MaxTick)
=============================================================================
