------------------------------- MODULE MCDeny -------------------------------
(* Deny for TLC: fairness of the processes, which are started when they are down. *)
EXTENDS Deny, TLC

LiveSpec == Spec /\ \A p \in Proc : WF_vars(Process(p))

\* In the end, whatever died, every table has the triggers of the configuration and
\* no others.
Settled == <>[](\A t \in local : trig[t] = Triggers(conf[t]))
=============================================================================
