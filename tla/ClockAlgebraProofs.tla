------------------------- MODULE ClockAlgebraProofs -------------------------
(***************************************************************************)
(* The algebra of clocks and entries, for clocks of any lengths and values. *)
(***************************************************************************)
EXTENDS ClockAlgebra, BasicLemmas, FiniteSetTheorems

LEMMA AlgebraNext == AlgebraInit /\ [UNCHANGED <<a, b, c>>]_<<a, b, c>> => AlgebraInit'
BY DEF AlgebraInit

\* What is compared: clocks of some lengths, numbers and times.
LEMMA InputTypes ==
    ASSUME NEW e \in Inputs
    PROVE  /\ e.node \in Nat /\ e.timestamp \in Nat
           /\ \E n \in Nat : e.vc \in Clock(n)
<1>1. PICK n \in 0 .. VC_MAX_NODES : e \in LogEntry(n)
  BY InputAssumption
<1>2. n \in Nat
  BY <1>1 DEF VC_MAX_NODES
<1> QED  BY <1>1, <1>2 DEF LogEntry

\* The flag a_le_b compares all the indices of both clocks.
LEMMA LeqAtAll ==
    ASSUME NEW m \in Nat, NEW n \in Nat, NEW u \in Clock(m), NEW v \in Clock(n),
           NEW I, DOMAIN u \subseteq I
    PROVE  vc_leq(u, v) <=> \A i \in I : At(u, i) <= At(v, i)
<1>1. \A i : At(u, i) \in Nat /\ At(v, i) \in Nat
  BY AtNat
<1>2. \A i \in DOMAIN u : At(u, i) = u[i]
  BY DEF At
<1>3. \A i : i \notin DOMAIN u => At(u, i) = 0
  BY DEF At
<1>4. ASSUME vc_leq(u, v), NEW i \in I  PROVE At(u, i) <= At(v, i)
  <2>1. CASE i \in DOMAIN u
    BY <1>2, <1>4, <2>1 DEF vc_leq
  <2>2. CASE i \notin DOMAIN u
    BY <1>1, <1>3, <2>2
  <2> QED  BY <2>1, <2>2
<1>5. ASSUME \A i \in I : At(u, i) <= At(v, i)  PROVE vc_leq(u, v)
  BY <1>2, <1>5 DEF vc_leq
<1> QED  BY <1>4, <1>5

\* vc_compare is the rule the README states, between clocks of any lengths.
THEOREM ComparisonRule == AlgebraSpec => []CompareFollowsRule
<1>1. AlgebraInit => CompareFollowsRule
  <2> SUFFICES ASSUME AlgebraInit  PROVE CompareFollowsRule
    OBVIOUS
  <2> DEFINE I == DOMAIN a.vc \cup DOMAIN b.vc
             u == a.vc
             v == b.vc
  <2>1. PICK m \in Nat, n \in Nat : u \in Clock(m) /\ v \in Clock(n)
    BY InputTypes DEF AlgebraInit
  <2>2. DOMAIN u \subseteq I /\ DOMAIN v \subseteq I
    OBVIOUS
  <2> HIDE DEF I, u, v
  <2>3. vc_leq(u, v) <=> \A i \in I : At(u, i) <= At(v, i)
    BY <2>1, <2>2, LeqAtAll
  <2>4. vc_leq(v, u) <=> \A i \in I : At(v, i) <= At(u, i)
    BY <2>1, <2>2, LeqAtAll
  <2>5. \A i : At(u, i) \in Nat /\ At(v, i) \in Nat
    BY <2>1, AtNat
  <2>6. /\ vc_compare(u, v) = "BEFORE" <=> vc_leq(u, v) /\ ~vc_leq(v, u)
        /\ vc_compare(u, v) = "AFTER" <=> vc_leq(v, u) /\ ~vc_leq(u, v)
        /\ vc_compare(u, v) = "EQUAL" <=> vc_leq(u, v) /\ vc_leq(v, u)
    BY DEF vc_compare
  <2>7. /\ ~vc_leq(v, u) <=> \E i \in I : At(u, i) < At(v, i)
        /\ ~vc_leq(u, v) <=> \E i \in I : At(v, i) < At(u, i)
    BY <2>3, <2>4, <2>5
  <2>8. vc_leq(u, v) /\ vc_leq(v, u) <=> \A i \in I : At(u, i) = At(v, i)
    BY <2>3, <2>4, <2>5
  <2> QED  BY <2>3, <2>4, <2>6, <2>7, <2>8 DEF CompareFollowsRule, I, u, v
<1> QED  BY <1>1, AlgebraNext, PTL DEF AlgebraSpec

\* vc_merge is the least upper bound, as far as dst has the components.
THEOREM MergeRule == AlgebraSpec => []MergeIsLub
<1>1. AlgebraInit => MergeIsLub
  <2> SUFFICES ASSUME AlgebraInit  PROVE MergeIsLub
    OBVIOUS
  <2> DEFINE u == a.vc
             v == b.vc
             w == c.vc
             r == vc_merge(u, v)
  <2>1. PICK l \in Nat, m \in Nat, n \in Nat : u \in Clock(n) /\ v \in Clock(m) /\ w \in Clock(l)
    BY InputTypes DEF AlgebraInit
  <2> HIDE DEF u, v, w
  <2>2. \A i : At(u, i) \in Nat /\ At(v, i) \in Nat
    BY <2>1, AtNat
  <2>3. \A i \in DOMAIN u : u[i] = At(u, i) /\ u[i] \in Nat
    BY <2>1, <2>2 DEF At
  <2>4. /\ DOMAIN r = DOMAIN u
        /\ \A i \in DOMAIN u : r[i] = (IF At(v, i) > u[i] THEN At(v, i) ELSE u[i]) /\ At(r, i) = r[i]
    BY DEF vc_merge, At
  <2> HIDE DEF r
  <2>5. vc_leq(u, r)
    BY <2>2, <2>3, <2>4 DEF vc_leq
  <2>6. vc_leq(v, r) <=> \A i \in DOMAIN v \ DOMAIN u : v[i] = 0
    <3>1. \A i \in DOMAIN v : At(v, i) = v[i] /\ v[i] \in Nat
      BY <2>1, <2>2 DEF At
    <3>2. \A i \in DOMAIN v : i \in DOMAIN u => v[i] <= At(r, i)
      BY <2>2, <2>3, <2>4, <3>1
    <3>3. \A i \in DOMAIN v : i \notin DOMAIN u => At(r, i) = 0
      BY <2>4 DEF At
    <3>4. \A i \in DOMAIN v \ DOMAIN u : v[i] <= At(r, i) <=> v[i] = 0
      BY <3>1, <3>3
    <3> QED  BY <3>2, <3>4 DEF vc_leq
  <2>7. vc_leq(u, w) /\ vc_leq(v, w) => vc_leq(r, w)
    BY <2>1, MergeLeast DEF r
  <2> QED  BY <2>4, <2>5, <2>6, <2>7 DEF MergeIsLub, r, u, v, w
<1> QED  BY <1>1, AlgebraNext, PTL DEF AlgebraSpec

\* Where timestamps follow happened-before the clocks never overrule ByTime, an order.
THEOREM ComparatorIsTransitive == AlgebraSpec => []TransitiveOnHonestTimestamps
<1>1. AlgebraInit => TransitiveOnHonestTimestamps
  <2> SUFFICES ASSUME AlgebraInit,
                      \A x, y \in {a, b, c} : HappensBefore(x.vc, y.vc) => x.timestamp < y.timestamp,
                      CausallyLess(a, b), CausallyLess(b, c)
               PROVE  CausallyLess(a, c)
    BY DEF TransitiveOnHonestTimestamps
  <2>1. \A x \in {a, b, c} : x.node \in Nat /\ x.timestamp \in Nat
    BY InputTypes DEF AlgebraInit
  <2>2. ASSUME NEW x \in {a, b, c}, NEW y \in {a, b, c}
        PROVE  CausallyLess(x, y) <=> ByTime(x, y)
    <3>1. CASE vc_compare(x.vc, y.vc) = "BEFORE"
      <4>1. x.timestamp < y.timestamp
        BY <3>1 DEF HappensBefore
      <4> QED  BY <3>1, <4>1 DEF CausallyLess, ByTime
    <3>2. CASE vc_compare(x.vc, y.vc) = "AFTER"
      <4>1. HappensBefore(y.vc, x.vc)
        BY <3>2 DEF vc_compare, HappensBefore
      <4>2. y.timestamp < x.timestamp
        BY <4>1
      <4> QED  BY <2>1, <3>2, <4>2 DEF CausallyLess, ByTime
    <3>3. CASE vc_compare(x.vc, y.vc) \in {"EQUAL", "CONCURRENT"}
      BY <3>3 DEF CausallyLess
    <3> QED  BY <3>1, <3>2, <3>3 DEF vc_compare
  <2>3. ByTime(a, b) /\ ByTime(b, c)
    BY <2>2
  <2>4. ByTime(a, c)
    BY <2>1, <2>3 DEF ByTime
  <2> QED  BY <2>2, <2>4
<1> QED  BY <1>1, AlgebraNext, PTL DEF AlgebraSpec

\* The sum server_flush_causal_buffer computes is one iff one component is ahead, by
\* one.  A sum over some of the components is zero if none of them is ahead, and one
\* if one is, by one (Right), whichever component it adds first; that there is such
\* a sum at all follows from counting the steps one by one (Marks).
LEMMA SumOfSteps ==
    ASSUME NEW m \in Nat, NEW n \in Nat, NEW u \in Clock(m), NEW v \in Clock(n)
    PROVE  Increments(u, v) = 1 <=>
               \E i \in DOMAIN v : At(u, i) = v[i] + 1 /\ \A j \in DOMAIN v \ {i} : At(u, j) <= v[j]
<1> DEFINE D == DOMAIN v
           ahead(i) == IF At(u, i) > v[i] THEN At(u, i) - v[i] ELSE 0
           pick(s) == CHOOSE x \in s : TRUE
           None(s) == \A j \in s : ahead(j) = 0
           One(s) == \E i \in s : ahead(i) = 1 /\ None(s \ {i})
           Rule(f) == f = [s \in SUBSET D |-> IF s = {} THEN 0
                                              ELSE ahead(pick(s)) + f[s \ {pick(s)}]]
           Right(k, s) == k \in Nat /\ (k = 0 <=> None(s)) /\ (k = 1 <=> One(s))
<1>1. Increments(u, v) = (CHOOSE f : Rule(f))[D]
  BY DEF Increments, MapThenSumSet, MapThenFoldSet
<1>2. /\ D = 0 .. n - 1 /\ \A i \in D : v[i] \in Nat
      /\ \A i : At(u, i) \in Nat
  BY AtNat DEF Clock
<1>3. \A i \in D : /\ ahead(i) \in Nat
                   /\ ahead(i) = 0 <=> At(u, i) <= v[i]
                   /\ ahead(i) = 1 <=> At(u, i) = v[i] + 1
  BY <1>2
<1> HIDE DEF ahead
<1>4. IsFiniteSet(D)
  <2>1. 0 \in Int /\ n - 1 \in Int
    OBVIOUS
  <2> QED  BY <1>2, <2>1, FS_Interval, Zenon
<1> HIDE DEF D
<1>5. ASSUME NEW s \in SUBSET D, s # {}
      PROVE  pick(s) \in s /\ s \ {pick(s)} \in SUBSET D
  BY <1>5
<1> HIDE DEF pick
\* One more component.
<1>6. ASSUME NEW s \in SUBSET D, NEW x \in s, NEW k, Right(k, s \ {x})
      PROVE  Right(ahead(x) + k, s)
  <2> DEFINE q == s \ {x}
             y == ahead(x)
  <2>1. k \in Nat /\ y \in Nat /\ s = q \cup {x} /\ x \notin q
    BY <1>3, <1>6
  <2>2. (k = 0 <=> None(q)) /\ (k = 1 <=> One(q))
    BY <1>6
  <2>3. None(s) <=> y = 0 /\ None(q)
    BY <2>1
  <2>4. One(s) <=> (y = 1 /\ None(q)) \/ (y = 0 /\ One(q))
    <3>1. ASSUME y = 1, None(q)  PROVE One(s)
      BY <3>1
    <3>2. ASSUME y = 0, One(q)  PROVE One(s)
      <4>1. PICK i \in q : ahead(i) = 1 /\ None(q \ {i})
        BY <3>2
      <4>2. None(s \ {i})
        BY <3>2, <4>1
      <4> QED  BY <4>1, <4>2
    <3>3. ASSUME One(s)  PROVE (y = 1 /\ None(q)) \/ (y = 0 /\ One(q))
      <4>1. PICK i \in s : ahead(i) = 1 /\ None(s \ {i})
        BY <3>3
      <4>2. CASE i = x
        BY <4>1, <4>2
      <4>3. CASE i # x
        <5>1. i \in q /\ None(q \ {i})
          BY <4>1, <4>3
        <5>2. y = 0
          BY <4>1, <4>3
        <5> QED  BY <4>1, <5>1, <5>2
      <4> QED  BY <4>2, <4>3
    <3> QED  BY <3>1, <3>2, <3>3
  <2>5. (y + k = 0 <=> y = 0 /\ k = 0) /\ (y + k = 1 <=> (y = 1 /\ k = 0) \/ (y = 0 /\ k = 1))
    BY <2>1
  <2>6. y + k \in Nat
    BY <2>1
  <2> HIDE DEF None, One, q, y
  <2>7. Right(y + k, s)
    BY <2>2, <2>3, <2>4, <2>5, <2>6
  <2> QED  BY <2>7 DEF y
<1>7. Right(0, {})
  OBVIOUS
<1> HIDE DEF Right
\* The steps counted one by one: the rule has a solution.
<1> DEFINE Marks(s) == {p \in D \X Nat : p[1] \in s /\ p[2] \in 1 .. ahead(p[1])}
           F == [s \in SUBSET D |-> Cardinality(Marks(s))]
<1>8. ASSUME NEW x \in D
      PROVE  IsFiniteSet(Marks({x})) /\ Cardinality(Marks({x})) = ahead(x)
  <2> DEFINE y == ahead(x)
             g == [k \in 1 .. y |-> <<x, k>>]
  <2>1. y \in Nat
    BY <1>3
  <2>2. \A p : p \in Marks({x}) <=> p \in D \X Nat /\ p[1] = x /\ p[2] \in 1 .. y
    OBVIOUS
  <2>3. \A k \in 1 .. y : k \in Nat /\ <<x, k>> \in Marks({x})
    BY <2>1, <2>2
  <2>4. \A p \in Marks({x}) : p[2] \in 1 .. y /\ p = <<x, p[2]>>
    BY <2>2
  <2> HIDE DEF Marks, y
  <2>5. g \in [1 .. y -> Marks({x})]
    BY <2>3
  <2>6. \A p \in Marks({x}) : \E k \in 1 .. y : g[k] = p
    BY <2>4
  <2>7. \A k, l \in 1 .. y : g[k] = g[l] => k = l
    OBVIOUS
  <2>8. ExistsBijection(1 .. y, Marks({x}))
    BY <2>5, <2>6, <2>7 DEF ExistsBijection, Bijection, Injection, Surjection, IsInjective
  <2>9. IsFiniteSet(1 .. y) /\ Cardinality(1 .. y) = y
    <3>1. 1 \in Int /\ y \in Int
      BY <2>1
    <3>2. IsFiniteSet(1 .. y) /\ Cardinality(1 .. y) = IF 1 > y THEN 0 ELSE y - 1 + 1
      BY <3>1, FS_Interval, Zenon
    <3> QED  BY <2>1, <3>2
  <2> QED  BY <2>8, <2>9, FS_Bijection DEF y
<1>9. ASSUME NEW s \in SUBSET D
      PROVE  IsFiniteSet(Marks(s)) /\ Cardinality(Marks(s)) \in Nat
  <2> DEFINE S == {Marks({i}) : i \in D}
             h == [i \in D |-> Marks({i})]
  <2>1. UNION S = Marks(D) /\ Marks(s) \subseteq Marks(D)
    OBVIOUS
  <2> HIDE DEF Marks
  <2>2. h \in Surjection(D, S)
    BY DEF Surjection
  <2>3. \A T \in S : IsFiniteSet(T)
    BY <1>8
  <2> HIDE DEF S, h
  <2>4. IsFiniteSet(S)
    BY <1>4, <2>2, FS_Surjection
  <2>5. IsFiniteSet(UNION S)
    BY <2>3, <2>4, FS_UNION
  <2>6. IsFiniteSet(Marks(s))
    BY <2>1, <2>5, FS_Subset
  <2> QED  BY <2>6, FS_CardinalityType
<1>10. ASSUME NEW s \in SUBSET D, NEW x \in s
       PROVE  Cardinality(Marks(s)) = ahead(x) + Cardinality(Marks(s \ {x}))
  <2> DEFINE q == s \ {x}
  <2>1. s = q \cup {x} /\ x \notin q /\ q \in SUBSET D /\ x \in D
    OBVIOUS
  <2> HIDE DEF q
  <2>2. Marks(s) = Marks({x}) \cup Marks(q) /\ Marks({x}) \cap Marks(q) = {}
    BY <2>1
  <2>3. /\ IsFiniteSet(Marks({x})) /\ Cardinality(Marks({x})) = ahead(x) /\ ahead(x) \in Nat
        /\ IsFiniteSet(Marks(q)) /\ Cardinality(Marks(q)) \in Nat
    BY <1>3, <1>8, <1>9, <2>1
  <2> HIDE DEF Marks
  <2>4. Cardinality({}) = 0
    BY FS_EmptySet
  <2>5. Cardinality(Marks({x}) \cup Marks(q)) =
            Cardinality(Marks({x})) + Cardinality(Marks(q)) - Cardinality(Marks({x}) \cap Marks(q))
    BY <2>3, FS_Union
  <2>6. Cardinality(Marks(s)) = ahead(x) + Cardinality(Marks(q))
    <3>1. Cardinality(Marks(s)) = ahead(x) + Cardinality(Marks(q)) - 0
      <4>1. Marks(s) = Marks({x}) \cup Marks(q)
        BY <2>2
      <4>2. Marks({x}) \cap Marks(q) = {}
        BY <2>2
      <4> QED  BY <2>3, <2>4, <2>5, <4>1, <4>2, Zenon
    <3> QED  BY <2>3, <3>1
  <2> QED  BY <2>6 DEF q
<1>11. Cardinality(Marks({})) = 0
  <2>1. Marks({}) = {}
    OBVIOUS
  <2> QED  BY <2>1, FS_EmptySet
<1> HIDE DEF Marks
<1>12. Rule(F)
  <2>1. \A s \in SUBSET D : F[s] = Cardinality(Marks(s))
    OBVIOUS
  <2>2. ASSUME NEW s \in SUBSET D
        PROVE  Cardinality(Marks(s)) = IF s = {} THEN 0 ELSE ahead(pick(s)) + F[s \ {pick(s)}]
    BY <1>5, <1>10, <1>11, <2>1
  <2> QED  BY <2>2
\* Whatever solves the rule is right on every set of components.
<1>13. ASSUME NEW f, Rule(f)
       PROVE  Right(f[D], D)
  <2> DEFINE Bad == {k \in Nat : \E s \in SUBSET D : Cardinality(s) = k /\ ~Right(f[s], s)}
  <2>1. ASSUME Bad # {}  PROVE FALSE
    <3>1. PICK k \in Bad : \A j \in Bad : k <= j
      BY <2>1, FirstExists
    <3>2. PICK s \in SUBSET D : Cardinality(s) = k /\ ~Right(f[s], s)
      BY <3>1
    <3>3. f[s] = IF s = {} THEN 0 ELSE ahead(pick(s)) + f[s \ {pick(s)}]
      BY <1>13
    <3>4. s # {}
      BY <1>7, <3>2, <3>3
    <3> DEFINE q == s \ {pick(s)}
               j == Cardinality(q)
    <3>5. q \in SUBSET D /\ pick(s) \in s
      BY <1>5, <3>4
    <3>6. IsFiniteSet(s) /\ IsFiniteSet(q)
      BY <1>4, <3>5, FS_Subset
    <3>7. j = k - 1 /\ j \in Nat /\ k \in Nat
      BY <3>1, <3>2, <3>5, <3>6, FS_RemoveElement, FS_CardinalityType
    <3> HIDE DEF q
    <3>8. ~(k <= j)
      BY <3>7
    <3>9. j \notin Bad
      BY <3>1, <3>8
    <3>10. Right(f[q], q)
      BY <3>5, <3>7, <3>9
    <3>11. Right(ahead(pick(s)) + f[q], s)
      BY <1>6, <3>5, <3>10 DEF q
    <3> QED  BY <3>2, <3>3, <3>4, <3>11 DEF q
  <2>2. D \in SUBSET D /\ Cardinality(D) \in Nat
    BY <1>4, FS_CardinalityType
  <2> QED  BY <2>1, <2>2
<1> HIDE DEF Rule, F
<1>14. Rule(CHOOSE f : Rule(f))
  BY <1>12
<1>15. Right(Increments(u, v), D)
  BY <1>1, <1>13, <1>14
<1> QED  BY <1>3, <1>15 DEF Right, One, None, D

\* The test of server_flush_causal_buffer is the one that CausalServer makes.
THEOREM ConsecutiveTest == AlgebraSpec => []IncrementsTestIsConsecutive
<1>1. AlgebraInit => IncrementsTestIsConsecutive
  <2> SUFFICES ASSUME AlgebraInit  PROVE IncrementsTestIsConsecutive
    OBVIOUS
  <2> DEFINE u == a.vc
             v == b.vc
  <2>1. \E m, n \in Nat : u \in Clock(m) /\ v \in Clock(n)
    BY InputTypes DEF AlgebraInit
  <2> HIDE DEF u, v
  <2>2. (Increments(u, v) = 1) <=> Consecutive(u, v)
    BY <2>1, SumOfSteps DEF Consecutive
  <2> QED  BY <2>2 DEF IncrementsTestIsConsecutive, u, v
<1> QED  BY <1>1, AlgebraNext, PTL DEF AlgebraSpec

=============================================================================
