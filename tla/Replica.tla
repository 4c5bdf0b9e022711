------------------------------- MODULE Replica -------------------------------
(***************************************************************************)
(* What a subscriber promises to its readers, whatever the processes behind *)
(* it do: a table it serves (its state is 'ok') always reflects exactly the *)
(* transactions of a prefix of the provider's log, and only moves forward. *)
(* A table it does not serve may hold anything.                            *)
(***************************************************************************)
EXTENDS Naturals, Sequences

CONSTANT Tables

VARIABLES
    log,      \* the provider's committed transactions, by the table they write
    serving,  \* the tables that are served
    data      \* the transactions each destination table reflects

replica == <<log, serving, data>>

Seen(t, n) == {i \in 1..Len(log) : i <= n /\ log[i] = t}

Prefixes(t) == {Seen(t, n) : n \in 0..Len(log)}

Init ==
    /\ log = <<>>
    /\ serving \in SUBSET Tables
    /\ data = [t \in Tables |-> {}]

\* The provider commits a transaction.
Write ==
    /\ \E t \in Tables : log' = Append(log, t)
    /\ UNCHANGED <<serving, data>>

\* The served tables move forward together, each to a later prefix; what the
\* others hold is nobody's concern: they are filled, emptied or brought forward.
Advance ==
    /\ data' \in [Tables -> SUBSET (1..Len(log))]
    /\ \A t \in serving : data[t] \subseteq data'[t] /\ data'[t] \in Prefixes(t)
    /\ UNCHANGED <<log, serving>>

\* A table whose content is an exact prefix becomes served.
Enter ==
    /\ \E t \in Tables : data[t] \in Prefixes(t) /\ serving' = serving \cup {t}
    /\ UNCHANGED <<log, data>>

\* A table is no longer served.
Leave ==
    /\ \E t \in Tables : serving' = serving \ {t}
    /\ UNCHANGED <<log, data>>

Next == Write \/ Advance \/ Enter \/ Leave

Spec == Init /\ [][Next]_replica

=============================================================================
