---------------------------- MODULE ClockAlgebra ----------------------------
(***************************************************************************)
(* What the comparisons of vector_clock.c, log_entry.c and server.c promise *)
(* of any three entries, whatever the lengths of their clocks.              *)
(***************************************************************************)
EXTENDS LogEntry

CONSTANT Inputs     \* the entries compared

ASSUME InputAssumption == \A e \in Inputs : \E n \in 0 .. VC_MAX_NODES : e \in LogEntry(n)

VARIABLES a, b, c

AlgebraInit == a \in Inputs /\ b \in Inputs /\ c \in Inputs

\* The functions change none of their arguments.
AlgebraSpec == AlgebraInit /\ [][UNCHANGED <<a, b, c>>]_<<a, b, c>>

-----------------------------------------------------------------------------
\* The rule of README.md:50-52 over clocks of any lengths: a happened before b
\* iff no component of a exceeds b's and one is smaller, absent components
\* counting as zero.
CompareFollowsRule ==
    LET Indices == DOMAIN a.vc \cup DOMAIN b.vc
        Rule(x, y) == /\ \A i \in Indices : At(x, i) <= At(y, i)
                      /\ \E i \in Indices : At(x, i) < At(y, i)
        rel == vc_compare(a.vc, b.vc)
    IN  /\ (rel = "BEFORE") <=> Rule(a.vc, b.vc)
        /\ (rel = "AFTER") <=> Rule(b.vc, a.vc)
        /\ (rel = "EQUAL") <=> \A i \in Indices : At(a.vc, i) = At(b.vc, i)

\* The merge of two clocks is above both, and below every clock of the same
\* length above both, whenever dst has the components src uses.
MergeIsLub ==
    LET m == vc_merge(a.vc, b.vc)
    IN  /\ DOMAIN m = DOMAIN a.vc
        /\ vc_leq(a.vc, m)
        /\ vc_leq(b.vc, m) <=> \A i \in DOMAIN b.vc \ DOMAIN a.vc : b.vc[i] = 0
        /\ vc_leq(a.vc, c.vc) /\ vc_leq(b.vc, c.vc) => vc_leq(m, c.vc)

\* increments == 1 is the test that one component is ahead by one.
IncrementsTestIsConsecutive ==
    (Increments(a.vc, b.vc) = 1) <=> Consecutive(a.vc, b.vc)

\* The comparator that sorts buffers and stores is transitive where timestamps
\* never contradict happened-before (what qsort and the list insertion need).
TransitiveOnHonestTimestamps ==
    LET S == {a, b, c}
        Honest == \A x, y \in S : HappensBefore(x.vc, y.vc) => x.timestamp < y.timestamp
    IN  Honest /\ CausallyLess(a, b) /\ CausallyLess(b, c) => CausallyLess(a, c)

=============================================================================
