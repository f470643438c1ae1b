---------------------------- MODULE BasicLemmas ----------------------------
(***************************************************************************)
(* What the proofs of several components rest on: the search for a first    *)
(* element, lists with an element inserted or removed, and the clocks of    *)
(* vector_clock.c, of any lengths and values: the order vc_compare reads    *)
(* off a pair of clocks, and vc_merge as its least upper bound.             *)
(***************************************************************************)
EXTENDS VectorClock, Sequences, SequencesExt, SequenceTheorems, WellFoundedInduction, TLAPS

\* A search from the head of a list ends at the first position of those it
\* looks for.
LEMMA FirstExists ==
    ASSUME NEW T, T \subseteq Nat, T # {}
    PROVE  \E x \in T : \A y \in T : x <= y
<1>1. PICK x \in T : \A y \in T : ~(<<y, x>> \in OpToRel(<, Nat))
  BY NatLessThanWellFounded, WFMin
<1>2. \A y \in T : ~(y < x)
  BY <1>1 DEF OpToRel
<1> QED  BY <1>2

LEMMA InsertAtElements ==
    ASSUME NEW S, NEW s \in Seq(S), NEW x \in S, NEW k \in 1 .. Len(s) + 1
    PROVE  /\ InsertAt(s, k, x) \in Seq(S)
           /\ Len(InsertAt(s, k, x)) = Len(s) + 1
           /\ \A j \in 1 .. Len(s) + 1 :
                 InsertAt(s, k, x)[j] = IF j < k THEN s[j]
                                        ELSE IF j = k THEN x ELSE s[j - 1]
<1> DEFINE front == SubSeq(s, 1, k - 1)
           back == SubSeq(s, k, Len(s))
<1>0. Len(s) \in Nat /\ \A i \in 1 .. Len(s) : s[i] \in S
  BY LenProperties, ElementOfSeq
<1>1. /\ front \in Seq(S)
      /\ Len(front) = k - 1
      /\ \A i \in 1 .. k - 1 : front[i] = s[i]
  BY <1>0, SubSeqProperties
<1>2. /\ back \in Seq(S)
      /\ Len(back) = Len(s) - k + 1
      /\ \A i \in 1 .. Len(s) - k + 1 : back[i] = s[k + i - 1]
  BY <1>0, SubSeqProperties
<1>3. <<x>> \in Seq(S) /\ Len(<<x>>) = 1 /\ <<x>>[1] = x
  OBVIOUS
<1> HIDE DEF front, back
<1>4. /\ front \o <<x>> \in Seq(S)
      /\ Len(front \o <<x>>) = k
      /\ \A i \in 1 .. k : (front \o <<x>>)[i] = IF i < k THEN s[i] ELSE x
  <2>1. /\ front \o <<x>> \in Seq(S)
        /\ Len(front \o <<x>>) = Len(front) + Len(<<x>>)
        /\ \A i \in 1 .. Len(front) + Len(<<x>>) : (front \o <<x>>)[i] =
               IF i <= Len(front) THEN front[i] ELSE <<x>>[i - Len(front)]
    BY <1>1, <1>3, ConcatProperties
  <2>2. \A i \in 1 .. k : ~(i <= k - 1) => i - (k - 1) = 1
    OBVIOUS
  <2> QED  BY <2>1, <2>2, <1>1, <1>3
<1>5. /\ (front \o <<x>>) \o back \in Seq(S)
      /\ Len((front \o <<x>>) \o back) = Len(s) + 1
      /\ \A i \in 1 .. Len(s) + 1 : ((front \o <<x>>) \o back)[i] =
             IF i <= k THEN (front \o <<x>>)[i] ELSE back[i - k]
  BY <1>0, <1>2, <1>4, ConcatProperties
<1>6. InsertAt(s, k, x) = (front \o <<x>>) \o back
  BY DEF InsertAt, front, back
<1>7. \A i \in 1 .. Len(s) + 1 : ~(i <= k) => back[i - k] = s[i - 1]
  BY <1>0, <1>2
<1> QED  BY <1>0, <1>4, <1>5, <1>6, <1>7

LEMMA RemoveAtElements ==
    ASSUME NEW S, NEW s \in Seq(S), NEW k \in 1 .. Len(s)
    PROVE  /\ RemoveAt(s, k) \in Seq(S)
           /\ Len(RemoveAt(s, k)) = Len(s) - 1
           /\ \A j \in 1 .. Len(s) - 1 :
                 RemoveAt(s, k)[j] = IF j < k THEN s[j] ELSE s[j + 1]
<1> DEFINE front == SubSeq(s, 1, k - 1)
           back == SubSeq(s, k + 1, Len(s))
<1>0. Len(s) \in Nat /\ \A i \in 1 .. Len(s) : s[i] \in S
  BY LenProperties, ElementOfSeq
<1>1. /\ front \in Seq(S)
      /\ Len(front) = k - 1
      /\ \A i \in 1 .. k - 1 : front[i] = s[i]
  BY <1>0, SubSeqProperties
<1>2. /\ back \in Seq(S)
      /\ Len(back) = Len(s) - k
      /\ \A i \in 1 .. Len(s) - k : back[i] = s[k + i]
  BY <1>0, SubSeqProperties
<1> HIDE DEF front, back
<1>3. /\ front \o back \in Seq(S)
      /\ Len(front \o back) = Len(s) - 1
      /\ \A i \in 1 .. Len(s) - 1 : (front \o back)[i] =
             IF i <= k - 1 THEN front[i] ELSE back[i - (k - 1)]
  <2>1. /\ front \o back \in Seq(S)
        /\ Len(front \o back) = Len(front) + Len(back)
        /\ \A i \in 1 .. Len(front) + Len(back) : (front \o back)[i] =
               IF i <= Len(front) THEN front[i] ELSE back[i - Len(front)]
    BY <1>1, <1>2, ConcatProperties
  <2>2. Len(front) + Len(back) = Len(s) - 1
    BY <1>0, <1>1, <1>2
  <2> QED  BY <2>1, <2>2, <1>1
<1>4. \A i \in 1 .. Len(s) - 1 : ~(i <= k - 1) => back[i - (k - 1)] = s[i + 1]
  BY <1>0, <1>2
<1>5. RemoveAt(s, k) = front \o back
  BY DEF RemoveAt, front, back
<1> QED  BY <1>0, <1>1, <1>3, <1>4, <1>5

-----------------------------------------------------------------------------
\* The two relations that make server_flush_causal_buffer drop an entry are
\* the flag a_le_b.
LEMMA CompareLeq ==
    ASSUME NEW a, NEW b
    PROVE  vc_compare(a, b) \in {"EQUAL", "BEFORE"} <=> vc_leq(a, b)
BY DEF vc_compare

\* "BEFORE" is a_le_b without b_le_a.
LEMMA BeforeLeq ==
    ASSUME NEW a, NEW b
    PROVE  HappensBefore(a, b) <=> vc_leq(a, b) /\ ~vc_leq(b, a)
BY DEF vc_compare, HappensBefore

LEMMA AtNat ==
    ASSUME NEW n \in Nat, NEW v \in Clock(n), NEW i
    PROVE  At(v, i) \in Nat
BY DEF At, Clock

LEMMA LeqReflexive ==
    ASSUME NEW n \in Nat, NEW v \in Clock(n)
    PROVE  vc_leq(v, v)
BY DEF vc_leq, At, Clock

\* a_le_b is transitive even between clocks of different lengths: a component
\* the middle clock lacks is zero in the first.
LEMMA LeqTransitive ==
    ASSUME NEW l \in Nat, NEW m \in Nat, NEW n \in Nat,
           NEW u \in Clock(l), NEW v \in Clock(m), NEW w \in Clock(n),
           vc_leq(u, v), vc_leq(v, w)
    PROVE  vc_leq(u, w)
<1> SUFFICES ASSUME NEW i \in DOMAIN u
             PROVE  u[i] <= At(w, i)
  BY DEF vc_leq
<1>1. u[i] \in Nat /\ u[i] <= At(v, i)
  BY DEF vc_leq, Clock
<1>2. At(w, i) \in Nat
  BY AtNat
<1>3. CASE i \in DOMAIN v
  <2>1. v[i] \in Nat /\ v[i] <= At(w, i) /\ At(v, i) = v[i]
    BY <1>3 DEF vc_leq, At, Clock
  <2> QED  BY <1>1, <1>2, <2>1
<1>4. CASE i \notin DOMAIN v
  BY <1>1, <1>2, <1>4 DEF At
<1> QED  BY <1>3, <1>4

\* Happened-before is a strict partial order on the clocks of the system.
THEOREM HappensBeforeIsStrictOrder ==
    ASSUME NEW l \in Nat, NEW m \in Nat, NEW n \in Nat,
           NEW u \in Clock(l), NEW v \in Clock(m), NEW w \in Clock(n)
    PROVE  /\ ~HappensBefore(u, u)
           /\ HappensBefore(u, v) => ~HappensBefore(v, u)
           /\ HappensBefore(u, v) /\ HappensBefore(v, w) => HappensBefore(u, w)
<1>1. ~HappensBefore(u, u)
  BY BeforeLeq
<1>2. HappensBefore(u, v) => ~HappensBefore(v, u)
  BY BeforeLeq
<1>3. ASSUME HappensBefore(u, v), HappensBefore(v, w)
      PROVE  HappensBefore(u, w)
  <2>1. vc_leq(u, v) /\ vc_leq(v, w) /\ ~vc_leq(v, u)
    BY <1>3, BeforeLeq
  <2>2. vc_leq(u, w)
    BY <2>1, LeqTransitive
  <2>3. ASSUME vc_leq(w, u)  PROVE FALSE
    <3>1. vc_leq(v, u)
      BY <2>1, <2>3, LeqTransitive
    <3> QED  BY <2>1, <3>1
  <2> QED  BY <2>2, <2>3, BeforeLeq
<1> QED  BY <1>1, <1>2, <1>3

\* vc_merge keeps the length of dst, and a clock that fits dst ends up below
\* the result, as dst does.
LEMMA MergeUpperBound ==
    ASSUME NEW m \in Nat, NEW n \in Nat, m <= n,
           NEW dst \in Clock(n), NEW src \in Clock(m)
    PROVE  /\ vc_merge(dst, src) \in Clock(n)
           /\ vc_leq(dst, vc_merge(dst, src))
           /\ vc_leq(src, vc_merge(dst, src))
<1> DEFINE r == vc_merge(dst, src)
<1>1. \A i \in 0 .. n - 1 : dst[i] \in Nat /\ At(src, i) \in Nat
  BY AtNat DEF Clock
<1>2. /\ DOMAIN r = 0 .. n - 1
      /\ \A i \in 0 .. n - 1 : r[i] = IF At(src, i) > dst[i] THEN At(src, i) ELSE dst[i]
  BY DEF vc_merge, Clock
<1>3. r \in Clock(n)
  BY <1>1 DEF vc_merge, Clock
<1>4. vc_leq(dst, r)
  BY <1>1, <1>2 DEF vc_leq, At, Clock
<1>5. vc_leq(src, r)
  <2>1. \A i \in DOMAIN src : i \in 0 .. n - 1 /\ At(src, i) = src[i]
    BY DEF Clock, At
  <2>2. \A i \in 0 .. n - 1 : At(r, i) = r[i] /\ At(src, i) <= r[i]
    BY <1>1, <1>2 DEF At
  <2> QED  BY <2>1, <2>2 DEF vc_leq
<1> HIDE DEF r
<1> QED  BY <1>3, <1>4, <1>5 DEF r

\* vc_merge claims nothing beyond its arguments: it is below every clock above
\* both.  With MergeUpperBound: the least upper bound.
THEOREM MergeLeast ==
    ASSUME NEW l \in Nat, NEW m \in Nat, NEW n \in Nat,
           NEW dst \in Clock(n), NEW src \in Clock(m), NEW w \in Clock(l),
           vc_leq(dst, w), vc_leq(src, w)
    PROVE  vc_leq(vc_merge(dst, src), w)
<1>1. \A i \in DOMAIN dst : dst[i] <= At(w, i) /\ At(w, i) \in Nat
  BY AtNat DEF vc_leq
<1>2. \A i \in DOMAIN dst : At(src, i) <= At(w, i)
  BY <1>1 DEF vc_leq, At
<1> QED  BY <1>1, <1>2 DEF vc_merge, vc_leq

=============================================================================
