------------------------------ MODULE LogEntry ------------------------------
(***************************************************************************)
(* The part of a log_entry_t (src/include/log_entry.h) that decides what    *)
(* happens to it: its vector clock, its wall-clock timestamp and the node   *)
(* that wrote it.  Level, message and metadata ride along and are left out. *)
(*                                                                         *)
(* A node is the number in its node_id: strcmp on "node-01", "node-02", ... *)
(* orders the identifiers as the numbers do.                                *)
(***************************************************************************)
EXTENDS VectorClock

\* The entries whose clock has n components.
LogEntry(n) == [node : Nat, vc : Clock(n), timestamp : Nat]

\* log_entry_compare_by_time: timestamp, then node_id.  It compares two entries
\* that agree on both as equal.
ByTime(a, b) ==
    \/ a.timestamp < b.timestamp
    \/ a.timestamp = b.timestamp /\ a.node < b.node

\* A wrong comparator: without the timestamps, the node decides alone.
CausallyLess_by_node(a, b) ==
    \/ vc_compare(a.vc, b.vc) = "BEFORE"
    \/ vc_compare(a.vc, b.vc) \in {"EQUAL", "CONCURRENT"} /\ a.node < b.node

\* log_entry_compare and log_entry_compare_causal return a negative number:
\* a happened before b, or neither clock decides and ByTime does.
CausallyLess(a, b) ==
    \/ vc_compare(a.vc, b.vc) = "BEFORE"
    \/ vc_compare(a.vc, b.vc) \in {"EQUAL", "CONCURRENT"} /\ ByTime(a, b)

=============================================================================
