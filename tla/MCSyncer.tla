------------------------------ MODULE MCSyncer ------------------------------
(***************************************************************************)
(* Instances of Syncer for TLC.                                            *)
(***************************************************************************)
EXTENDS Syncer, TLC

\* the contents of rows are interchangeable
ValSymmetry == Permutations(Vals)

\* The syncer's loops and its clock go on by themselves, and pgq's ticker is a
\* daemon that ticks for as long as it runs.  Nothing is assumed of the writer,
\* whose transaction may stay open, nor of the worker, which may hang.
LiveSpec == Spec /\ WF_vars(Tool) /\ WF_vars(Elapse) /\ WF_vars(Tick)

\* The same with a ticker that may have stopped.
NoTickerSpec == Spec /\ WF_vars(Tool) /\ WF_vars(Elapse)
=============================================================================
