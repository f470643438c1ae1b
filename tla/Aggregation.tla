----------------------------- MODULE Aggregation -----------------------------
(***************************************************************************)
(* What LogAgg promises of the aggregated log (README.md:100), without the  *)
(* agents, the network and the server behind it: applications log events,   *)
(* each with a clock, and the log takes some of them up, at some time after  *)
(* they happened, each once at most, and never one after an event it        *)
(* happened before.  Whether an event is taken up at all is not promised.    *)
(***************************************************************************)
EXTENDS LogEntry, Sequences

VARIABLES
    happened,   \* the events, each with its node and its clock
    stored      \* the aggregated log, a sequence of events

vars == <<happened, stored>>

Init ==
    /\ happened = {}
    /\ stored = <<>>

\* A node's events follow one another.
Happen(e) ==
    /\ \A x \in happened : x.node = e.node => HappensBefore(x.vc, e.vc)
    /\ happened' = happened \cup {e}
    /\ UNCHANGED stored

\* Nothing stored is repeated or happened after e.
Store(e) ==
    /\ e \in happened
    /\ \A k \in DOMAIN stored : ~vc_leq(e.vc, stored[k].vc)
    /\ stored' = Append(stored, e)
    /\ UNCHANGED happened

Next ==
    \/ \E e \in happened' : Happen(e)
    \/ \E e \in happened : Store(e)

Spec == Init /\ [][Next]_vars

=============================================================================
