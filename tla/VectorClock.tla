---------------------------- MODULE VectorClock ----------------------------
(***************************************************************************)
(* The vector clocks of src/src/vector_clock.c.                             *)
(*                                                                         *)
(* A vector_clock_t is a function from 0 .. node_count - 1 to counters: the *)
(* C array has VC_MAX_NODES slots, and no function of the file reads a slot *)
(* at or beyond node_count, so the domain of the function carries           *)
(* node_count.  Counters are uint64_t in the code and naturals here: one    *)
(* increment per log line never reaches 2^64.                               *)
(***************************************************************************)
EXTENDS Integers, FiniteSetsExt

VC_MAX_NODES == 32

\* The clocks with node_count = n.
Clock(n) == [0 .. n - 1 -> Nat]

\* The component i of v, counting the components v does not have as zero.
At(v, i) == IF i \in DOMAIN v THEN v[i] ELSE 0

-----------------------------------------------------------------------------
\* A wrong vc_init: one component too many.
vc_init_off_by_one(count) ==
    [i \in 0 .. (IF count \in 1 .. VC_MAX_NODES THEN count ELSE 0) |-> 0]

\* vc_init: a count outside 1 .. VC_MAX_NODES leaves a clock with no component.
vc_init(count) ==
    [i \in 0 .. (IF count \in 1 .. VC_MAX_NODES THEN count ELSE 0) - 1 |-> 0]

\* vc_increment: an index the clock does not have is ignored.
vc_increment(vc, id) ==
    [i \in DOMAIN vc |-> IF i = id THEN vc[i] + 1 ELSE vc[i]]

\* A wrong vc_merge: the clock of src replaces the one of dst.
vc_merge_replaces(dst, src) == [i \in DOMAIN dst |-> At(src, i)]

\* vc_merge: dst keeps its own length, what src has beyond it is left out.
vc_merge(dst, src) ==
    [i \in DOMAIN dst |-> IF At(src, i) > dst[i] THEN At(src, i) ELSE dst[i]]

-----------------------------------------------------------------------------
\* A wrong a_le_b: the components only a has are not looked at.
vc_leq_common(a, b) == \A i \in DOMAIN a \cap DOMAIN b : a[i] <= b[i]

\* The flag a_le_b of vc_compare: no component of a, the common ones and those
\* only a has, exceeds the one b has there.
vc_leq(a, b) == \A i \in DOMAIN a : a[i] <= At(b, i)

\* vc_compare: the relation read off the two flags.
vc_compare(a, b) ==
    CASE vc_leq(a, b) /\ vc_leq(b, a)  -> "EQUAL"
      [] vc_leq(b, a) /\ ~vc_leq(a, b) -> "AFTER"
      [] vc_leq(a, b) /\ ~vc_leq(b, a) -> "BEFORE"
      [] OTHER                         -> "CONCURRENT"

\* a happened before b, as vc_compare tells it.
HappensBefore(a, b) == vc_compare(a, b) = "BEFORE"

-----------------------------------------------------------------------------
\* The sum server_flush_causal_buffer computes: how many steps vc is ahead of
\* com on the components com has.  The int it is kept in does not overflow on
\* the counters of real logs.
Increments(vc, com) ==
    MapThenSumSet(LAMBDA i : IF At(vc, i) > com[i] THEN At(vc, i) - com[i] ELSE 0,
                  DOMAIN com)

\* A wrong test: a component ahead by one is enough.
Consecutive_anywhere(vc, com) == \E i \in DOMAIN com : At(vc, i) = com[i] + 1

\* The same test, increments == 1, without the sum: of the components com has,
\* exactly one is ahead in vc, by one.
Consecutive(vc, com) ==
    \E i \in DOMAIN com :
        /\ At(vc, i) = com[i] + 1
        /\ \A j \in DOMAIN com \ {i} : At(vc, j) <= com[j]

=============================================================================
