---------------------------- MODULE CodecProofs ----------------------------
(***************************************************************************)
(* Proofs about Codec, for every text, entry and size of buffer it admits: a *)
(* text has one character after the other, so what a reader makes of it      *)
(* follows from where each part stands in it (Has) and where a reader is      *)
(* after that part.  In this order:                                          *)
(*   - loops as functions of their rounds, and joining fields with commas;    *)
(*   - json_escape and Printed, and that a reader of a string gives back what *)
(*     json_escape was given, less what cannot be printed (EscapedRead);      *)
(*   - Decimal and the readers of numbers (NumRead);                          *)
(*   - a clock written and read again is the same (ClockRoundTrip);           *)
(*   - values that are skipped by counting their brackets (NestedSkipped);     *)
(*   - the fields of an entry one by one (FieldRead), and the whole entry, as  *)
(*     it is (EntryRead) and behind an unknown member (ExtendedRead);          *)
(*   - the way of an entry: PathInv is inductive, and EntrySurvives and        *)
(*     RefusedOnlyIfTooLarge follow.                                          *)
(***************************************************************************)
EXTENDS Codec, BasicLemmas, FiniteSetTheorems

-----------------------------------------------------------------------------
(***************************************************************************)
(* Texts, and where one stands in another.                                  *)
(***************************************************************************)

\* The characters the programs write themselves.  They are strings, but nothing
\* tells the provers so.
Written == {NUL, Quote, Backslash, "{", "}", ":", ",", "n", "t", "node-", "node_id",
            "vector_clock", "timestamp", "level", "message", "metadata",
            "DEBUG", "INFO", "WARN", "ERROR", "FATAL"} \cup ToSet(Digits)

Char == STRING \cup Written

Text == Seq(Char)

\* u stands in s at p.
Has(s, p, u) ==
    /\ p \in Nat \ {0}
    /\ p + Len(u) - 1 <= Len(s)
    /\ \A i \in 1 .. Len(u) : s[p + i - 1] = u[i]

LEMMA HasConcat ==
    ASSUME NEW s \in Text, NEW p, NEW u \in Text, NEW v \in Text
    PROVE  Has(s, p, u \o v) <=> Has(s, p, u) /\ Has(s, p + Len(u), v)
<1>1. /\ u \o v \in Text /\ Len(u \o v) = Len(u) + Len(v)
      /\ \A i \in 1 .. Len(u) + Len(v) :
            (u \o v)[i] = IF i <= Len(u) THEN u[i] ELSE v[i - Len(u)]
  BY ConcatProperties DEF Text
<1>2. Len(u) \in Nat /\ Len(v) \in Nat /\ Len(s) \in Nat
  BY LenProperties DEF Text
<1> DEFINE w == u \o v
<1> HIDE DEF w
<1>3. ASSUME Has(s, p, w)
      PROVE  Has(s, p, u) /\ Has(s, p + Len(u), v)
  <2>1. \A i \in 1 .. Len(u) : s[p + i - 1] = u[i]
    BY <1>1, <1>2, <1>3 DEF Has, w
  <2>2. ASSUME NEW i \in 1 .. Len(v)
        PROVE  s[p + Len(u) + i - 1] = v[i]
    <3>1. Len(u) + i \in 1 .. Len(u) + Len(v) /\ ~(Len(u) + i <= Len(u))
      BY <1>2
    <3>2. w[Len(u) + i] = v[(Len(u) + i) - Len(u)]
      BY <1>1, <3>1 DEF w
    <3>3. p \in Nat /\ (Len(u) + i) - Len(u) = i
          /\ p + Len(u) + i - 1 = p + (Len(u) + i) - 1
      BY <1>2, <1>3 DEF Has
    <3>4. Len(u) + i \in 1 .. Len(w)
      BY <1>1, <3>1 DEF w
    <3> QED  BY <3>2, <3>3, <3>4, <1>3 DEF Has
  <2> QED  BY <2>1, <2>2, <1>1, <1>2, <1>3 DEF Has, w
<1>4. ASSUME Has(s, p, u), Has(s, p + Len(u), v)
      PROVE  Has(s, p, w)
  <2>1. ASSUME NEW i \in 1 .. Len(u) + Len(v), ~(i <= Len(u))
        PROVE  s[p + i - 1] = w[i]
    <3>1. i - Len(u) \in 1 .. Len(v)
      BY <1>2, <2>1
    <3>2. s[p + Len(u) + (i - Len(u)) - 1] = v[i - Len(u)]
      BY <3>1, <1>4 DEF Has
    <3>3. p \in Nat /\ p + Len(u) + (i - Len(u)) - 1 = p + i - 1
      BY <1>2, <1>4 DEF Has
    <3> QED  BY <3>2, <3>3, <1>1, <2>1 DEF w
  <2>2. ASSUME NEW i \in 1 .. Len(u) + Len(v), i <= Len(u)
        PROVE  s[p + i - 1] = w[i]
    BY <1>1, <1>2, <1>4, <2>2 DEF Has, w
  <2> QED  BY <2>1, <2>2, <1>1, <1>2, <1>4 DEF Has, w
<1> QED  BY <1>3, <1>4 DEF w

LEMMA HasOne ==
    ASSUME NEW s \in Text, NEW p \in Nat \ {0}, NEW c
    PROVE  Has(s, p, <<c>>) <=> p <= Len(s) /\ s[p] = c
<1>1. Len(<<c>>) = 1 /\ <<c>>[1] = c /\ Len(s) \in Nat
  BY LenProperties DEF Text
<1>2. p + 1 - 1 = p
  OBVIOUS
<1> QED  BY <1>1, <1>2 DEF Has

\* White space is skipped where there is none.
LEMMA NoSpace ==
    ASSUME NEW s \in Text, NEW p \in 1 .. Len(s), s[p] \notin Space
    PROVE  skip_ws(s, p) = p
BY LenProperties DEF skip_ws, After, Text

LEMMA SpaceChars ==
  /\ Quote \notin Space /\ NUL \notin Space /\ Backslash \notin Space
  /\ "," \notin Space /\ ":" \notin Space /\ "{" \notin Space /\ "}" \notin Space
BY DEF Quote, NUL, Backslash, Space

\* Where After stops.
LEMMA AfterStops ==
    ASSUME NEW s \in Text, NEW S, NEW p \in Nat, NEW q \in p .. Len(s), s[q] \notin S,
           \A j \in p .. q - 1 : s[j] \in S
    PROVE  After(s, p, S) = q
<1>1. Len(s) \in Nat
  BY LenProperties DEF Text
<1> DEFINE P(x) == s[x] \notin S /\ \A j \in p .. x - 1 : s[j] \in S
<1>2. P(q)
  OBVIOUS
<1>3. ASSUME NEW x \in p .. Len(s), P(x)
      PROVE  x = q
  <2>1. ~(x < q)
    <3> SUFFICES ASSUME x < q PROVE FALSE
      OBVIOUS
    <3>1. x \in p .. q - 1
      BY <1>1
    <3> QED  BY <3>1, <1>3
  <2>2. ~(q < x)
    <3> SUFFICES ASSUME q < x PROVE FALSE
      OBVIOUS
    <3>1. q \in p .. x - 1
      BY <1>1
    <3> QED  BY <3>1, <1>3
  <2> QED  BY <2>1, <2>2, <1>1
<1> DEFINE found == CHOOSE x \in p .. Len(s) : P(x)
<1>4. found \in p .. Len(s) /\ P(found)
  BY <1>2
<1>5. found = q
  BY <1>3, <1>4
<1> QED  BY <1>5 DEF After

-----------------------------------------------------------------------------
(***************************************************************************)
(* Loops: functions of the rounds made.                                     *)
(***************************************************************************)

\* Induction over the rounds, for a set of rounds.
LEMMA Climb ==
    ASSUME NEW n \in Nat, NEW S, 0 \in S, \A k \in 1 .. n : k - 1 \in S => k \in S
    PROVE  \A k \in 0 .. n : k \in S
<1> DEFINE Bad == {k \in 0 .. n : k \notin S}
<1> SUFFICES ASSUME Bad # {} PROVE FALSE
  OBVIOUS
<1>1. PICK k \in Bad : \A x \in Bad : k <= x
  <2>1. Bad \subseteq Nat
    OBVIOUS
  <2> QED  BY <2>1, FirstExists
<1>2. k \in 1 .. n /\ k - 1 \in 0 .. n /\ ~(k <= k - 1)
  OBVIOUS
<1> QED  BY <1>1, <1>2

\* f is what n rounds make of init: round k takes a value of R to step[k] of it.
Loop(f, n, R, init, step) ==
    /\ f \in [0 .. n -> R]
    /\ f[0] = init
    /\ \A k \in 1 .. n : f[k] = step[k][f[k - 1]]

\* A loop whose round k takes a value of R to a value of R exists.
LEMMA LoopExists ==
    ASSUME NEW n \in Nat, NEW R, NEW init \in R, NEW step \in [1 .. n -> [R -> R]]
    PROVE  \E f : Loop(f, n, R, init, step)
<1> DEFINE Grown(f, m) == f[0] = init /\ \A k \in 1 .. m : f[k] = step[k][f[k - 1]]
           S == {m \in 0 .. n : \E f \in [0 .. m -> R] : Grown(f, m)}
<1>1. 0 \in S
  <2> DEFINE f == [k \in 0 .. 0 |-> init]
  <2>1. f \in [0 .. 0 -> R] /\ Grown(f, 0)
    OBVIOUS
  <2> HIDE DEF f, Grown
  <2>2. \E x \in [0 .. 0 -> R] : Grown(x, 0)
    BY <2>1
  <2>3. 0 \in 0 .. n
    OBVIOUS
  <2> QED  BY <2>2, <2>3
<1>2. ASSUME NEW m \in 1 .. n, m - 1 \in S
      PROVE  m \in S
  <2>1. PICK f \in [0 .. m - 1 -> R] : Grown(f, m - 1)
    BY <1>2
  <2> DEFINE h == [k \in 0 .. m |-> IF k = m THEN step[m][f[m - 1]] ELSE f[k]]
  <2>2. h \in [0 .. m -> R]
    OBVIOUS
  <2>3. \A k \in 0 .. m - 1 : h[k] = f[k]
    OBVIOUS
  <2>4. h[m] = step[m][h[m - 1]]
    OBVIOUS
  <2> HIDE DEF h
  <2>5. \A k \in 1 .. m : k # m => k \in 1 .. m - 1 /\ k - 1 \in 0 .. m - 1 /\ k \in 0 .. m - 1
    OBVIOUS
  <2>6. 0 \in 0 .. m - 1
    OBVIOUS
  <2>7. Grown(h, m)
    BY <2>1, <2>3, <2>4, <2>5, <2>6
  <2>8. m \in 0 .. n
    OBVIOUS
  <2> HIDE DEF Grown
  <2> QED  BY <2>2, <2>7, <2>8
<1> HIDE DEF S
<1>3. n \in S
  <2>1. \A k \in 0 .. n : k \in S
    BY <1>1, <1>2, Climb
  <2> QED  BY <2>1
<1> QED  BY <1>3 DEF S, Loop

\* Any function that does the rounds of such a loop stays in R.
LEMMA LoopType ==
    ASSUME NEW n \in Nat, NEW R, NEW f, f[0] \in R,
           \A k \in 1 .. n : f[k - 1] \in R => f[k] \in R
    PROVE  \A k \in 0 .. n : f[k] \in R
<1> DEFINE S == {k \in 0 .. n : f[k] \in R}
<1>1. 0 \in S /\ \A k \in 1 .. n : k - 1 \in S => k \in S
  OBVIOUS
<1> HIDE DEF S
<1>2. \A k \in 0 .. n : k \in S
  BY <1>1, Climb
<1> QED  BY <1>2 DEF S

\* Two loops begin with the same and do the same in each of their first rounds.
InStep(f, g, n) ==
    /\ f[0] = g[0]
    /\ \A k \in 1 .. n : f[k - 1] = g[k - 1] => f[k] = g[k]

Agree(f, g, n) == \A k \in 0 .. n : f[k] = g[k]

LEMMA LoopsAgree ==
    ASSUME NEW n \in Nat, NEW f, NEW g, InStep(f, g, n)
    PROVE  Agree(f, g, n)
<1> DEFINE S == {k \in 0 .. n : f[k] = g[k]}
<1>1. 0 \in S /\ \A k \in 1 .. n : k - 1 \in S => k \in S
  BY DEF InStep
<1> HIDE DEF S
<1>2. \A k \in 0 .. n : k \in S
  BY <1>1, Climb
<1> QED  BY <1>2 DEF S, Agree

-----------------------------------------------------------------------------
(***************************************************************************)
(* What is written, one field or one character more at a time.               *)
(***************************************************************************)

LEMMA TextTypes ==
    ASSUME NEW u \in Text, NEW v \in Text
    PROVE  /\ u \o v \in Text /\ Len(u \o v) = Len(u) + Len(v)
           /\ Len(u) \in Nat /\ Len(v) \in Nat
           /\ \A i \in 1 .. Len(u) + Len(v) :
                 (u \o v)[i] = IF i <= Len(u) THEN u[i] ELSE v[i - Len(u)]
BY ConcatProperties, LenProperties DEF Text

LEMMA Singleton ==
    ASSUME NEW S, NEW c \in S
    PROVE  <<c>> \in Seq(S) /\ Len(<<c>>) = 1 /\ <<c>>[1] = c
OBVIOUS

LEMMA LenText == \A u \in Text : Len(u) \in Nat
BY LenProperties DEF Text

LEMMA OneChar ==
    ASSUME NEW c \in Char
    PROVE  <<c>> \in Text /\ Len(<<c>>) = 1 /\ <<c>>[1] = c
BY Singleton DEF Text

LEMMA NoChar == <<>> \in Text /\ Len(<<>>) = 0
BY EmptySeq DEF Text

Comma == <<",">>

LEMMA CommaType == Comma \in Text /\ Len(Comma) = 1 /\ Comma[1] = ","
<1>1. "," \in Char
  BY DEF Char, Written
<1> QED  BY <1>1, OneChar DEF Comma

LEMMA CommasLoop ==
    ASSUME NEW fields \in Seq(Text)
    PROVE  \E g : /\ g[0] = <<>>
                  /\ \A k \in 0 .. Len(fields) : g[k] \in Text
                  /\ \A k \in 1 .. Len(fields) :
                        g[k] = IF k = 1 THEN fields[1] ELSE g[k - 1] \o Comma \o fields[k]
                  /\ Commas(fields) = g[Len(fields)]
<1> DEFINE n == Len(fields)
           Step(k, r) == IF k = 1 THEN fields[1] ELSE r \o Comma \o fields[k]
           Body(g, k) == IF k = 0 THEN <<>>
                         ELSE IF k = 1 THEN fields[1]
                         ELSE g[k - 1] \o Comma \o fields[k]
           g == CHOOSE g : g = [k \in 0 .. n |-> Body(g, k)]
           step == [k \in 1 .. n |-> [r \in Text |-> Step(k, r)]]
<1>1. n \in Nat /\ \A k \in 1 .. n : fields[k] \in Text
  BY LenProperties, ElementOfSeq
<1>2. <<>> \in Text /\ Comma \in Text
  BY NoChar, CommaType
<1>3. \A k \in 1 .. n, r \in Text : Step(k, r) \in Text
  BY <1>1, <1>2, TextTypes
<1> HIDE DEF Step
<1>4. step \in [1 .. n -> [Text -> Text]]
  BY <1>3
<1>5. PICK f \in [0 .. n -> Text] : f[0] = <<>> /\ \A k \in 1 .. n : f[k] = step[k][f[k - 1]]
  <2> DEFINE init == <<>>
  <2>1. n \in Nat /\ init \in Text
    BY <1>1, <1>2
  <2> HIDE DEF step, n, init
  <2>2. \E f : Loop(f, n, Text, init, step)
    BY <2>1, <1>4, LoopExists
  <2> QED  BY <2>2 DEF init, Loop
<1>6. \A k \in 1 .. n : f[k] = Step(k, f[k - 1])
  <2>1. \A k \in 1 .. n : k - 1 \in 0 .. n
    BY <1>1
  <2> QED  BY <2>1, <1>5
<1>7. f = [k \in 0 .. n |-> Body(f, k)]
  <2>1. \A k \in 0 .. n : f[k] = Body(f, k)
    <3>1. \A k \in 0 .. n : k # 0 => k \in 1 .. n
      BY <1>1
    <3> HIDE DEF n, step
    <3> QED  BY <3>1, <1>5, <1>6 DEF Step
  <2> HIDE DEF Body
  <2> QED  BY <2>1
<1>8. g = [k \in 0 .. n |-> Body(g, k)]
  <2> HIDE DEF Body
  <2> QED  BY <1>7
<1>9. Commas(fields) = g[n]
  BY DEF Commas, Comma
<1> HIDE DEF g
<1>10. \A k \in 0 .. n : g[k] = Body(g, k)
  <2> HIDE DEF Body
  <2> QED  BY <1>8
<1>11. g[0] = <<>> /\ \A k \in 1 .. n : g[k] = Step(k, g[k - 1])
  <2>1. 0 \in 0 .. n /\ \A k \in 1 .. n : k \in 0 .. n /\ k # 0
    BY <1>1
  <2> HIDE DEF n
  <2> QED  BY <2>1, <1>10 DEF Step
<1>12. \A k \in 0 .. n : g[k] \in Text
  <2> HIDE DEF n
  <2> QED  BY <1>1, <1>2, <1>3, <1>11, LoopType
<1> QED  BY <1>9, <1>11, <1>12 DEF Step

\* The characters of u are all in S.
AllIn(u, S) == \A i \in 1 .. Len(u) : u[i] \in S

LEMMA AllInConcat ==
    ASSUME NEW u \in Text, NEW v \in Text, NEW S
    PROVE  AllIn(u \o v, S) <=> AllIn(u, S) /\ AllIn(v, S)
<1> DEFINE w == u \o v
<1>1. /\ Len(w) = Len(u) + Len(v) /\ Len(u) \in Nat /\ Len(v) \in Nat
      /\ \A i \in 1 .. Len(u) + Len(v) : w[i] = IF i <= Len(u) THEN u[i] ELSE v[i - Len(u)]
  BY TextTypes
<1> HIDE DEF w
<1>2. ASSUME AllIn(w, S)
      PROVE  AllIn(u, S) /\ AllIn(v, S)
  <2>1. \A i \in 1 .. Len(u) : i \in 1 .. Len(w) /\ i <= Len(u)
    BY <1>1
  <2>2. \A i \in 1 .. Len(v) : /\ Len(u) + i \in 1 .. Len(w) /\ ~(Len(u) + i <= Len(u))
                               /\ (Len(u) + i) - Len(u) = i
    BY <1>1
  <2> QED  BY <1>1, <1>2, <2>1, <2>2 DEF AllIn
<1>3. ASSUME AllIn(u, S), AllIn(v, S)
      PROVE  AllIn(w, S)
  <2>1. \A i \in 1 .. Len(w) : IF i <= Len(u) THEN i \in 1 .. Len(u) ELSE i - Len(u) \in 1 .. Len(v)
    BY <1>1
  <2> QED  BY <1>1, <1>3, <2>1 DEF AllIn
<1> QED  BY <1>2, <1>3 DEF w

LEMMA AllInOne ==
    ASSUME NEW c \in Char, NEW S
    PROVE  AllIn(<<c>>, S) <=> c \in S
<1>1. Len(<<c>>) = 1 /\ <<c>>[1] = c
  OBVIOUS
<1> QED  BY <1>1 DEF AllIn

\* Fields separated by commas have the characters of the fields, and commas.
LEMMA CommasAllIn ==
    ASSUME NEW fields \in Seq(Text), NEW S, AllIn(Comma, S),
           \A k \in 1 .. Len(fields) : AllIn(fields[k], S)
    PROVE  Commas(fields) \in Text /\ AllIn(Commas(fields), S)
<1> DEFINE n == Len(fields)
           R == {u \in Text : AllIn(u, S)}
<1>1. n \in Nat /\ \A k \in 1 .. n : fields[k] \in Text
  BY LenProperties, ElementOfSeq
<1>2. PICK g : /\ g[0] = <<>>
               /\ \A k \in 0 .. n : g[k] \in Text
               /\ \A k \in 1 .. n : g[k] = IF k = 1 THEN fields[1]
                                           ELSE g[k - 1] \o Comma \o fields[k]
               /\ Commas(fields) = g[n]
  BY CommasLoop
<1> HIDE DEF n
<1>3. g[0] \in R
  <2>1. g[0] \in Text /\ Len(g[0]) = 0
    BY <1>2, NoChar
  <2>2. AllIn(g[0], S)
    BY <2>1 DEF AllIn
  <2> QED  BY <2>1, <2>2
<1>4. Comma \in Text
  BY CommaType
<1>5. ASSUME NEW k \in 1 .. n, g[k - 1] \in R
      PROVE  g[k] \in R
  <2>1. g[k - 1] \o Comma \in Text /\ AllIn(g[k - 1] \o Comma, S)
    BY <1>4, <1>5, TextTypes, AllInConcat
  <2>2. fields[k] \in Text /\ AllIn(fields[k], S)
    BY <1>1 DEF n
  <2>3. (g[k - 1] \o Comma) \o fields[k] \in R
    BY <2>1, <2>2, TextTypes, AllInConcat
  <2> QED  BY <1>2, <2>2, <2>3
<1> HIDE DEF R
<1>6. \A k \in 0 .. n : g[k] \in R
  BY <1>1, <1>3, <1>5, LoopType
<1>7. n \in 0 .. n
  <2>1. n \in Nat
    BY <1>1
  <2> QED  BY <2>1
<1>8. Commas(fields) \in R
  BY <1>2, <1>6, <1>7
<1> QED  BY <1>8 DEF R

\* The fields lie in s, the k-th from a[k] on.
Laid(s, a, fields) ==
    \A k \in 1 .. Len(fields) :
        /\ Has(s, a[k], fields[k])
        /\ a[k + 1] = a[k] + Len(fields[k]) + 1
        /\ k < Len(fields) => s[a[k + 1] - 1] = ","

LEMMA FieldsLaid ==
    ASSUME NEW s \in Text, NEW p, NEW fields \in Seq(Text), Len(fields) > 0,
           Has(s, p, Commas(fields))
    PROVE  \E a : /\ Laid(s, a, fields)
                  /\ a[1] = p
                  /\ a[Len(fields) + 1] = p + Len(Commas(fields)) + 1
<1> DEFINE n == Len(fields)
<1>1. n \in Nat \ {0} /\ \A k \in 1 .. n : fields[k] \in Text
  BY LenProperties, ElementOfSeq
<1>2. PICK g : /\ g[0] = <<>>
               /\ \A k \in 0 .. n : g[k] \in Text
               /\ \A k \in 1 .. n : g[k] = IF k = 1 THEN fields[1]
                                           ELSE g[k - 1] \o Comma \o fields[k]
               /\ Commas(fields) = g[n]
  BY CommasLoop
<1> HIDE DEF n
<1>3. Comma \in Text /\ Len(Comma) = 1
  BY CommaType
<1>a. g[1] = fields[1]
  <2>1. 1 \in 1 .. n
    BY <1>1
  <2> QED  BY <1>2, <2>1
<1>b. \A k \in 2 .. n : /\ k \in 1 .. n /\ k - 1 \in 0 .. n /\ k # 1
                        /\ g[k] = (g[k - 1] \o Comma) \o fields[k]
  <2>1. \A k \in 2 .. n : k \in 1 .. n /\ k - 1 \in 0 .. n /\ k # 1
    BY <1>1
  <2> QED  BY <1>2, <2>1
<1>c. p \in Nat /\ \A k \in 0 .. n : Len(g[k]) \in Nat
  BY <1>2, LenProperties DEF Has, Text
<1>4. ASSUME NEW k \in 2 .. n, Has(s, p, g[k])
      PROVE  /\ Has(s, p, g[k - 1])
             /\ Has(s, p + Len(g[k - 1]), Comma)
             /\ Has(s, p + Len(g[k - 1]) + 1, fields[k])
             /\ Len(g[k]) = Len(g[k - 1]) + 1 + Len(fields[k])
  <2>1. k \in 1 .. n /\ k - 1 \in 0 .. n
    BY <1>b
  <2>2. g[k] = (g[k - 1] \o Comma) \o fields[k]
    BY <1>b
  <2>3. g[k - 1] \in Text /\ fields[k] \in Text
    BY <1>1, <1>2, <2>1
  <2>4. /\ g[k - 1] \o Comma \in Text /\ Len(g[k - 1]) \in Nat
        /\ Len(g[k - 1] \o Comma) = Len(g[k - 1]) + 1
        /\ Len(fields[k]) \in Nat
    <3>1. Len(fields[k]) \in Nat
      BY <2>3, LenText
    <3>2. /\ g[k - 1] \o Comma \in Text /\ Len(g[k - 1]) \in Nat
          /\ Len(g[k - 1] \o Comma) = Len(g[k - 1]) + Len(Comma)
      BY <1>3, <2>3, TextTypes
    <3> QED  BY <3>1, <3>2, <1>3
  <2>5. Has(s, p, g[k - 1] \o Comma) /\ Has(s, p + (Len(g[k - 1]) + 1), fields[k])
    <3> DEFINE u == g[k - 1] \o Comma
    <3>1. u \in Text /\ Len(u) = Len(g[k - 1]) + 1 /\ g[k] = u \o fields[k]
      BY <2>2, <2>4
    <3> HIDE DEF u
    <3>2. Has(s, p, u) /\ Has(s, p + Len(u), fields[k])
      BY <1>4, <2>3, <3>1, HasConcat
    <3> QED  BY <3>1, <3>2 DEF u
  <2>6. Has(s, p, g[k - 1]) /\ Has(s, p + Len(g[k - 1]), Comma)
    BY <1>3, <2>3, <2>5, HasConcat
  <2>7. p + (Len(g[k - 1]) + 1) = p + Len(g[k - 1]) + 1
    <3>1. p \in Nat /\ Len(g[k - 1]) \in Nat
      BY <1>c, <2>4
    <3> QED  BY <3>1
  <2>8. Len(g[k]) = Len(g[k - 1]) + 1 + Len(fields[k])
    <3> DEFINE u == g[k - 1] \o Comma
    <3>1. u \in Text /\ Len(u) = Len(g[k - 1]) + 1 /\ g[k] = u \o fields[k]
      BY <2>2, <2>4
    <3> HIDE DEF u
    <3> QED  BY <2>3, <3>1, TextTypes
  <2> QED  BY <2>5, <2>6, <2>7, <2>8
<1>5. \A k \in 1 .. n : Has(s, p, g[k])
  <2> DEFINE S == {j \in 0 .. n - 1 : Has(s, p, g[n - j])}
  <2>1. 0 \in S
    <3>1. n - 0 = n /\ 0 \in 0 .. n - 1
      BY <1>1
    <3>2. Has(s, p, g[n])
      BY <1>2
    <3> QED  BY <3>1, <3>2
  <2>2. ASSUME NEW j \in 1 .. n - 1, j - 1 \in S
        PROVE  j \in S
    <3>1. n - (j - 1) \in 2 .. n /\ n - (j - 1) - 1 = n - j /\ j \in 0 .. n - 1
      BY <1>1
    <3> QED  BY <1>4, <2>2, <3>1
  <2>3. n - 1 \in Nat
    BY <1>1
  <2> HIDE DEF S
  <2>4. \A j \in 0 .. n - 1 : j \in S
    BY <2>1, <2>2, <2>3, Climb
  <2>5. \A k \in 1 .. n : n - k \in 0 .. n - 1 /\ n - (n - k) = k
    BY <1>1
  <2> QED  BY <2>4, <2>5 DEF S
<1> DEFINE a == [k \in 1 .. n + 1 |-> IF k = 1 THEN p ELSE p + Len(g[k - 1]) + 1]
<1>7. a[1] = p /\ \A k \in 1 .. n : a[k + 1] = p + Len(g[k]) + 1
  <2>1. \A k \in 1 .. n : k + 1 \in 1 .. n + 1 /\ k + 1 # 1 /\ (k + 1) - 1 = k
    BY <1>1
  <2> QED  BY <1>1, <2>1
<1>8. \A k \in 2 .. n : a[k] = p + Len(g[k - 1]) + 1
  BY <1>1
<1> HIDE DEF a
<1>9. ASSUME NEW k \in 1 .. n
      PROVE  /\ Has(s, a[k], fields[k])
             /\ a[k + 1] = a[k] + Len(fields[k]) + 1
             /\ k < n => s[a[k + 1] - 1] = ","
  <2>1. Has(s, a[k], fields[k]) /\ a[k + 1] = a[k] + Len(fields[k]) + 1
    <3>1. CASE k = 1
      <4>1. Has(s, a[1], fields[1])
        BY <3>1, <1>a, <1>5, <1>7
      <4>2. a[1 + 1] = a[1] + Len(fields[1]) + 1
        BY <3>1, <1>a, <1>7
      <4> QED  BY <3>1, <4>1, <4>2
    <3>2. CASE k # 1
      <4>1. k \in 2 .. n /\ k - 1 \in 0 .. n
        BY <3>2, <1>1
      <4>2. /\ Has(s, p + Len(g[k - 1]) + 1, fields[k])
            /\ Len(g[k]) = Len(g[k - 1]) + 1 + Len(fields[k])
        BY <4>1, <1>4, <1>5
      <4>3. Len(fields[k]) \in Nat
        BY <1>1, LenProperties DEF Text
      <4>4. a[k] = p + Len(g[k - 1]) + 1 /\ a[k + 1] = p + Len(g[k]) + 1
        BY <4>1, <1>7, <1>8
      <4>5. Len(g[k - 1]) \in Nat /\ p \in Nat
        BY <4>1, <1>c
      <4>6. a[k + 1] = a[k] + Len(fields[k]) + 1
        <5>1. Len(g[k]) = Len(g[k - 1]) + 1 + Len(fields[k])
          BY <4>2
        <5> DEFINE x == Len(g[k - 1])
                   y == Len(fields[k])
                   z == Len(g[k])
        <5>2. x \in Nat /\ y \in Nat /\ p \in Nat /\ z = x + 1 + y
          BY <4>3, <4>5, <5>1
        <5>3. a[k] = p + x + 1 /\ a[k + 1] = p + z + 1
          BY <4>4
        <5> HIDE DEF x, y, z
        <5>4. a[k + 1] = a[k] + y + 1
          BY <5>2, <5>3
        <5> QED  BY <5>4 DEF y
      <4> QED  BY <4>2, <4>4, <4>6
    <3> QED  BY <3>1, <3>2
  <2>2. ASSUME k < n
        PROVE  s[a[k + 1] - 1] = ","
    <3>1. k + 1 \in 2 .. n /\ (k + 1) - 1 = k /\ k + 1 \in 1 .. n
      BY <1>1, <2>2
    <3>2. Has(s, p + Len(g[k]), Comma)
      BY <3>1, <1>4, <1>5
    <3>3. p + Len(g[k]) \in Nat \ {0}
      BY <3>2 DEF Has
    <3>4. s[p + Len(g[k])] = ","
      BY <3>2, <3>3, HasOne DEF Comma
    <3>5. Len(g[k]) \in Nat /\ a[k + 1] - 1 = p + Len(g[k])
      BY <1>1, <1>c, <1>7
    <3> QED  BY <3>4, <3>5
  <2> QED  BY <2>1, <2>2
<1>10. a[n + 1] = p + Len(Commas(fields)) + 1
  <2>1. n \in 1 .. n
    BY <1>1
  <2> QED  BY <2>1, <1>2, <1>7
<1> QED  BY <1>7, <1>9, <1>10 DEF Laid, n

\* Induction over the characters of a text.
LEMMA TextInduction ==
    ASSUME NEW src \in Text, NEW S, <<>> \in S,
           \A t \in Text, c \in Char :
               t \in S /\ Len(t) < Len(src) /\ (\E k \in 1 .. Len(src) : c = src[k])
                   => Append(t, c) \in S
    PROVE  src \in S
<1> DEFINE front(k) == SubSeq(src, 1, k)
           P == {k \in 0 .. Len(src) : front(k) \in S}
<1>1. Len(src) \in Nat /\ \A k \in 1 .. Len(src) : src[k] \in Char
  BY LenText, ElementOfSeq DEF Text
<1>2. \A k \in 0 .. Len(src) : /\ front(k) \in Text /\ Len(front(k)) = k
                               /\ \A i \in 1 .. k : front(k)[i] = src[i]
  BY <1>1, SubSeqProperties DEF Text
<1>3. front(0) = <<>>
  <2>1. front(0) \in Text /\ Len(front(0)) = 0
    BY <1>1, <1>2
  <2> QED  BY <2>1, EmptySeq DEF Text
<1>4. ASSUME NEW k \in 1 .. Len(src)
      PROVE  front(k) = Append(front(k - 1), src[k])
  <2> DEFINE t == front(k - 1)
             u == front(k)
             w == Append(t, src[k])
  <2>1. k - 1 \in 0 .. Len(src) /\ k \in 0 .. Len(src)
    BY <1>1
  <2>2. t \in Text /\ Len(t) = k - 1 /\ \A i \in 1 .. k - 1 : t[i] = src[i]
    BY <1>2, <2>1
  <2>3. u \in Text /\ Len(u) = k /\ \A i \in 1 .. k : u[i] = src[i]
    BY <1>2, <2>1
  <2> HIDE DEF t, u
  <2>4. /\ w \in Text /\ Len(w) = Len(t) + 1
        /\ \A i \in 1 .. Len(t) : w[i] = t[i]
        /\ w[Len(t) + 1] = src[k]
    BY <1>1, <2>2, AppendProperties DEF Text
  <2> HIDE DEF w
  <2>5. Len(w) = k /\ w[k] = src[k] /\ \A i \in 1 .. k - 1 : w[i] = src[i]
    BY <2>2, <2>4
  <2>6. \A i \in 1 .. k : w[i] = u[i]
    BY <2>3, <2>5
  <2>7. w = u
    BY <2>3, <2>4, <2>5, <2>6, SeqEqual DEF Text
  <2> QED  BY <2>7 DEF t, u, w
<1> HIDE DEF front
<1>5. 0 \in P
  BY <1>1, <1>3
<1>6. ASSUME NEW k \in 1 .. Len(src), k - 1 \in P
      PROVE  k \in P
  <2>1. k - 1 \in 0 .. Len(src) /\ k \in 0 .. Len(src) /\ k - 1 < Len(src)
    BY <1>1
  <2>2. front(k - 1) \in Text /\ front(k - 1) \in S /\ Len(front(k - 1)) < Len(src)
    BY <1>2, <1>6, <2>1
  <2>3. Append(front(k - 1), src[k]) \in S
    BY <1>1, <2>2
  <2> QED  BY <1>4, <2>1, <2>3
<1> HIDE DEF P
<1>7. \A k \in 0 .. Len(src) : k \in P
  BY <1>1, <1>5, <1>6, Climb
<1>8. Len(src) \in 0 .. Len(src)
  BY <1>1
<1>9. front(Len(src)) \in S
  BY <1>7, <1>8 DEF P
<1>10. front(Len(src)) = src
  <2> DEFINE u == front(Len(src))
  <2>1. u \in Text /\ Len(u) = Len(src) /\ \A i \in 1 .. Len(src) : u[i] = src[i]
    BY <1>2, <1>8
  <2> HIDE DEF u
  <2>2. u = src
    BY <2>1, SeqEqual DEF Text
  <2> QED  BY <2>2 DEF u
<1> QED  BY <1>9, <1>10

-----------------------------------------------------------------------------
(***************************************************************************)
(* What json_escape writes for a text, and what Printed keeps of it.         *)
(***************************************************************************)

LEMMA TwoChars ==
    ASSUME NEW c \in Char, NEW d \in Char
    PROVE  <<c, d>> \in Text /\ Len(<<c, d>>) = 2 /\ <<c, d>>[1] = c /\ <<c, d>>[2] = d
BY DEF Text

\* The three things that are written for a character.
LEMMA EscapedCases ==
    ASSUME NEW c \in Char
    PROVE  /\ Escaped(c) \in Text
           /\ Len(Escaped(c)) \in 0 .. 2
           /\ c \in Unprintable \ DOMAIN Escape => Escaped(c) = <<>>
           /\ c \in DOMAIN Escape =>
                /\ Len(Escaped(c)) = 2
                /\ Escaped(c)[1] = Backslash
                /\ Escaped(c)[2] = Escape[c]
           /\ c \notin DOMAIN Escape /\ c \notin Unprintable =>
                Len(Escaped(c)) = 1 /\ Escaped(c)[1] = c
<1>1. CASE c \in DOMAIN Escape
  <2>1. Escape[c] \in Char /\ Backslash \in Char
    BY <1>1 DEF Escape, Char, Written, Quote, Backslash
  <2>2. Escaped(c) = <<Backslash, Escape[c]>>
    BY <1>1 DEF Escaped
  <2> DEFINE d == Escape[c]
             u == <<Backslash, d>>
  <2> HIDE DEF d
  <2>3. u \in Text /\ Len(u) = 2 /\ u[1] = Backslash /\ u[2] = d
    BY <2>1, TwoChars DEF d
  <2> HIDE DEF u
  <2>4. Escaped(c) = u
    BY <2>2 DEF u, d
  <2> QED  BY <1>1, <2>3, <2>4 DEF d
<1>2. CASE c \notin DOMAIN Escape /\ c \in Unprintable
  BY <1>2, NoChar DEF Escaped
<1>3. CASE c \notin DOMAIN Escape /\ c \notin Unprintable
  <2>1. Escaped(c) = <<c>>
    BY <1>3 DEF Escaped
  <2> QED  BY <1>3, <2>1, OneChar
<1> QED  BY <1>1, <1>2, <1>3

\* Room for the escapes of any message that fits an entry
Room == 2 * LOG_MESSAGE_MAX_LEN + 1

LEMMA EscapeLoop ==
    ASSUME NEW src \in Text, NEW room \in Nat
    PROVE  \E g : /\ g[0] = <<>>
                  /\ \A k \in 0 .. Len(src) : g[k] \in Text
                  /\ \A k \in 1 .. Len(src) :
                        g[k] = IF Len(g[k - 1]) >= room - 2 THEN g[k - 1]
                               ELSE g[k - 1] \o Escaped(src[k])
                  /\ json_escape(src, room) = g[Len(src)]
<1> DEFINE n == Len(src)
           Step(k, r) == IF Len(r) >= room - 2 THEN r ELSE r \o Escaped(src[k])
           Body(g, k) == IF k = 0 THEN <<>>
                         ELSE IF Len(g[k - 1]) >= room - 2 THEN g[k - 1]
                         ELSE g[k - 1] \o Escaped(src[k])
           g == CHOOSE g : g = [k \in 0 .. n |-> Body(g, k)]
           step == [k \in 1 .. n |-> [r \in Text |-> Step(k, r)]]
<1>1. n \in Nat /\ \A k \in 1 .. n : src[k] \in Char
  BY LenText, ElementOfSeq DEF Text
<1>2. <<>> \in Text
  BY NoChar
<1>3. \A k \in 1 .. n, r \in Text : Step(k, r) \in Text
  BY <1>1, EscapedCases, TextTypes
<1> HIDE DEF Step
<1>4. step \in [1 .. n -> [Text -> Text]]
  BY <1>3
<1>5. PICK f \in [0 .. n -> Text] : f[0] = <<>> /\ \A k \in 1 .. n : f[k] = step[k][f[k - 1]]
  <2> DEFINE init == <<>>
  <2>1. n \in Nat /\ init \in Text
    BY <1>1, <1>2
  <2> HIDE DEF step, n, init
  <2>2. \E f : Loop(f, n, Text, init, step)
    BY <2>1, <1>4, LoopExists
  <2> QED  BY <2>2 DEF init, Loop
<1>6. \A k \in 1 .. n : f[k] = Step(k, f[k - 1])
  <2>1. \A k \in 1 .. n : k - 1 \in 0 .. n
    BY <1>1
  <2> QED  BY <2>1, <1>5
<1>7. f = [k \in 0 .. n |-> Body(f, k)]
  <2>1. \A k \in 0 .. n : f[k] = Body(f, k)
    <3>1. \A k \in 0 .. n : k # 0 => k \in 1 .. n
      BY <1>1
    <3> HIDE DEF n, step
    <3> QED  BY <3>1, <1>5, <1>6 DEF Step
  <2> HIDE DEF Body
  <2> QED  BY <2>1
<1>8. g = [k \in 0 .. n |-> Body(g, k)]
  <2> HIDE DEF Body
  <2> QED  BY <1>7
<1>9. json_escape(src, room) = g[n]
  BY DEF json_escape
<1> HIDE DEF g
<1>10. \A k \in 0 .. n : g[k] = Body(g, k)
  <2> HIDE DEF Body
  <2> QED  BY <1>8
<1>11. g[0] = <<>> /\ \A k \in 1 .. n : g[k] = Step(k, g[k - 1])
  <2>1. 0 \in 0 .. n /\ \A k \in 1 .. n : k \in 0 .. n /\ k # 0
    BY <1>1
  <2> HIDE DEF n
  <2> QED  BY <2>1, <1>10 DEF Step
<1>12. \A k \in 0 .. n : g[k] \in Text
  <2> HIDE DEF n
  <2> QED  BY <1>1, <1>2, <1>3, <1>11, LoopType
<1> QED  BY <1>9, <1>11, <1>12 DEF Step

LEMMA PrintedLoop ==
    ASSUME NEW src \in Text
    PROVE  \E g : /\ g[0] = <<>>
                  /\ \A k \in 0 .. Len(src) : g[k] \in Text
                  /\ \A k \in 1 .. Len(src) :
                        g[k] = IF src[k] \in Unprintable \ DOMAIN Escape THEN g[k - 1]
                               ELSE Append(g[k - 1], src[k])
                  /\ Printed(src) = g[Len(src)]
<1> DEFINE n == Len(src)
           Step(k, r) == IF src[k] \in Unprintable \ DOMAIN Escape THEN r ELSE Append(r, src[k])
           Body(g, k) == IF k = 0 THEN <<>>
                         ELSE IF src[k] \in Unprintable \ DOMAIN Escape THEN g[k - 1]
                         ELSE Append(g[k - 1], src[k])
           g == CHOOSE g : g = [k \in 0 .. n |-> Body(g, k)]
           step == [k \in 1 .. n |-> [r \in Text |-> Step(k, r)]]
<1>1. n \in Nat /\ \A k \in 1 .. n : src[k] \in Char
  BY LenText, ElementOfSeq DEF Text
<1>2. <<>> \in Text
  BY NoChar
<1>3. \A k \in 1 .. n, r \in Text : Step(k, r) \in Text
  BY <1>1, AppendProperties DEF Text
<1> HIDE DEF Step
<1>4. step \in [1 .. n -> [Text -> Text]]
  BY <1>3
<1>5. PICK f \in [0 .. n -> Text] : f[0] = <<>> /\ \A k \in 1 .. n : f[k] = step[k][f[k - 1]]
  <2> DEFINE init == <<>>
  <2>1. n \in Nat /\ init \in Text
    BY <1>1, <1>2
  <2> HIDE DEF step, n, init
  <2>2. \E f : Loop(f, n, Text, init, step)
    BY <2>1, <1>4, LoopExists
  <2> QED  BY <2>2 DEF init, Loop
<1>6. \A k \in 1 .. n : f[k] = Step(k, f[k - 1])
  <2>1. \A k \in 1 .. n : k - 1 \in 0 .. n
    BY <1>1
  <2> QED  BY <2>1, <1>5
<1>7. f = [k \in 0 .. n |-> Body(f, k)]
  <2>1. \A k \in 0 .. n : f[k] = Body(f, k)
    <3>1. \A k \in 0 .. n : k # 0 => k \in 1 .. n
      BY <1>1
    <3> HIDE DEF n, step
    <3> QED  BY <3>1, <1>5, <1>6 DEF Step
  <2> HIDE DEF Body
  <2> QED  BY <2>1
<1>8. g = [k \in 0 .. n |-> Body(g, k)]
  <2> HIDE DEF Body
  <2> QED  BY <1>7
<1>9. Printed(src) = g[n]
  BY DEF Printed
<1> HIDE DEF g
<1>10. \A k \in 0 .. n : g[k] = Body(g, k)
  <2> HIDE DEF Body
  <2> QED  BY <1>8
<1>11. g[0] = <<>> /\ \A k \in 1 .. n : g[k] = Step(k, g[k - 1])
  <2>1. 0 \in 0 .. n /\ \A k \in 1 .. n : k \in 0 .. n /\ k # 0
    BY <1>1
  <2> HIDE DEF n
  <2> QED  BY <2>1, <1>10 DEF Step
<1>12. \A k \in 0 .. n : g[k] \in Text
  <2> HIDE DEF n
  <2> QED  BY <1>1, <1>2, <1>3, <1>11, LoopType
<1> QED  BY <1>9, <1>11, <1>12 DEF Step

LEMMA AppendText ==
    ASSUME NEW t \in Text, NEW c \in Char
    PROVE  /\ Append(t, c) \in Text /\ Len(Append(t, c)) = Len(t) + 1
           /\ Len(t) \in Nat
           /\ \A i \in 1 .. Len(t) : Append(t, c)[i] = t[i]
           /\ Append(t, c)[Len(t) + 1] = c
BY AppendProperties, LenProperties DEF Text

\* One more character of a text adds what is written for it.
LEMMA EscapeAppend ==
    ASSUME NEW t \in Text, NEW c \in Char, NEW room \in Nat
    PROVE  /\ json_escape(t, room) \in Text
           /\ json_escape(Append(t, c), room) =
                 IF Len(json_escape(t, room)) >= room - 2 THEN json_escape(t, room)
                 ELSE json_escape(t, room) \o Escaped(c)
<1> DEFINE n == Len(t)
           w == Append(t, c)
<1>1. /\ w \in Text /\ Len(w) = n + 1 /\ n \in Nat
      /\ \A i \in 1 .. n : w[i] = t[i]
      /\ w[n + 1] = c
  BY AppendText
<1> HIDE DEF w
<1>2. PICK f : /\ f[0] = <<>>
               /\ \A k \in 0 .. n : f[k] \in Text
               /\ \A k \in 1 .. n : f[k] = IF Len(f[k - 1]) >= room - 2 THEN f[k - 1]
                                           ELSE f[k - 1] \o Escaped(t[k])
               /\ json_escape(t, room) = f[n]
  BY EscapeLoop
<1>3. PICK g : /\ g[0] = <<>>
               /\ \A k \in 1 .. n + 1 : g[k] = IF Len(g[k - 1]) >= room - 2 THEN g[k - 1]
                                               ELSE g[k - 1] \o Escaped(w[k])
               /\ json_escape(w, room) = g[n + 1]
  <2>1. Len(w) = n + 1 /\ w \in Text
    BY <1>1
  <2> HIDE DEF n
  <2> QED  BY <2>1, EscapeLoop
<1> HIDE DEF n
<1>4. \A k \in 1 .. n : f[k - 1] = g[k - 1] => f[k] = g[k]
  <2>1. \A k \in 1 .. n : k \in 1 .. n + 1 /\ w[k] = t[k]
    BY <1>1
  <2> QED  BY <1>2, <1>3, <2>1
<1>5. \A k \in 0 .. n : f[k] = g[k]
  <2>1. n \in Nat /\ InStep(f, g, n)
    BY <1>1, <1>2, <1>3, <1>4 DEF InStep
  <2> QED  BY <2>1, LoopsAgree DEF Agree
<1>6. n \in 0 .. n /\ n + 1 \in 1 .. n + 1 /\ (n + 1) - 1 = n
  BY <1>1
<1>7. f[n] = g[n] /\ f[n] \in Text
  BY <1>2, <1>5, <1>6
<1>8. g[n + 1] = IF Len(g[n]) >= room - 2 THEN g[n] ELSE g[n] \o Escaped(c)
  BY <1>1, <1>3, <1>6
<1> QED  BY <1>2, <1>3, <1>7, <1>8 DEF w

LEMMA EscapeEmpty ==
    ASSUME NEW room \in Nat
    PROVE  json_escape(<<>>, room) = <<>>
<1>1. <<>> \in Text /\ Len(<<>>) = 0
  BY NoChar
<1> QED  BY <1>1, EscapeLoop

LEMMA PrintedAppend ==
    ASSUME NEW t \in Text, NEW c \in Char
    PROVE  /\ Printed(t) \in Text
           /\ Printed(Append(t, c)) = IF c \in Unprintable \ DOMAIN Escape THEN Printed(t)
                                      ELSE Append(Printed(t), c)
<1> DEFINE n == Len(t)
           w == Append(t, c)
<1>1. /\ w \in Text /\ Len(w) = n + 1 /\ n \in Nat
      /\ \A i \in 1 .. n : w[i] = t[i]
      /\ w[n + 1] = c
  BY AppendText
<1> HIDE DEF w
<1>2. PICK f : /\ f[0] = <<>>
               /\ \A k \in 0 .. n : f[k] \in Text
               /\ \A k \in 1 .. n : f[k] = IF t[k] \in Unprintable \ DOMAIN Escape
                                           THEN f[k - 1] ELSE Append(f[k - 1], t[k])
               /\ Printed(t) = f[n]
  BY PrintedLoop
<1>3. PICK g : /\ g[0] = <<>>
               /\ \A k \in 1 .. n + 1 : g[k] = IF w[k] \in Unprintable \ DOMAIN Escape
                                               THEN g[k - 1] ELSE Append(g[k - 1], w[k])
               /\ Printed(w) = g[n + 1]
  BY <1>1, PrintedLoop
<1> HIDE DEF n
<1>4. \A k \in 1 .. n : f[k - 1] = g[k - 1] => f[k] = g[k]
  <2>1. \A k \in 1 .. n : k \in 1 .. n + 1 /\ w[k] = t[k]
    BY <1>1
  <2> QED  BY <1>2, <1>3, <2>1
<1>5. \A k \in 0 .. n : f[k] = g[k]
  <2>1. n \in Nat /\ InStep(f, g, n)
    BY <1>1, <1>2, <1>3, <1>4 DEF InStep
  <2> QED  BY <2>1, LoopsAgree DEF Agree
<1>6. n \in 0 .. n /\ n + 1 \in 1 .. n + 1 /\ (n + 1) - 1 = n
  BY <1>1
<1>7. f[n] = g[n] /\ f[n] \in Text
  BY <1>2, <1>5, <1>6
<1>8. g[n + 1] = IF c \in Unprintable \ DOMAIN Escape THEN g[n] ELSE Append(g[n], c)
  BY <1>1, <1>3, <1>6
<1> QED  BY <1>2, <1>3, <1>7, <1>8 DEF w

LEMMA PrintedEmpty == Printed(<<>>) = <<>>
<1>1. <<>> \in Text /\ Len(<<>>) = 0
  BY NoChar
<1> QED  BY <1>1, PrintedLoop

\* All of a text that fits an entry is written, two characters at most for one.
LEMMA EscapedLength ==
    ASSUME LOG_MESSAGE_MAX_LEN \in Nat, NEW src \in Text
    PROVE  json_escape(src, Room) \in Text /\ Len(json_escape(src, Room)) <= 2 * Len(src)
<1> DEFINE S == {t \in Text : /\ json_escape(t, Room) \in Text
                              /\ Len(json_escape(t, Room)) <= 2 * Len(t)}
<1>1. Room \in Nat
  BY DEF Room
<1>2. <<>> \in S
  BY <1>1, EscapeEmpty, NoChar
<1>3. ASSUME NEW t \in Text, NEW c \in Char, t \in S
      PROVE  Append(t, c) \in S
  <2> DEFINE u == json_escape(t, Room)
             w == Append(t, c)
             x == json_escape(w, Room)
             e == Escaped(c)
  <2>1. /\ w \in Text /\ Len(w) = Len(t) + 1 /\ Len(t) \in Nat
    BY AppendText
  <2>2. u \in Text /\ (x = u \/ x = u \o e)
    BY <1>1, EscapeAppend
  <2>3. e \in Text /\ Len(e) \in 0 .. 2
    BY EscapedCases
  <2>4. Len(u) <= 2 * Len(t)
    BY <1>3
  <2> HIDE DEF u, w, x, e
  <2>5. Len(u) \in Nat /\ u \o e \in Text /\ Len(u \o e) = Len(u) + Len(e)
    BY <2>2, <2>3, TextTypes
  <2>6. x \in Text /\ Len(x) <= Len(u) + 2
    <3>a. \A i \in Nat, j \in 0 .. 2 : i <= i + 2 /\ i + j <= i + 2
      OBVIOUS
    <3>1. Len(u) \in Nat /\ Len(u) <= Len(u) + 2 /\ Len(u) + Len(e) <= Len(u) + 2
      BY <2>3, <2>5, <3>a
    <3>2. CASE x = u
      BY <2>2, <3>1, <3>2
    <3>3. CASE x = u \o e
      BY <2>5, <3>1, <3>3
    <3> QED  BY <2>2, <3>2, <3>3
  <2>7. Len(x) \in Nat
    BY <2>6, LenText
  <2>8. Len(x) <= 2 * Len(w)
    <3> DEFINE i == Len(x)
               j == Len(u)
               k == Len(t)
               l == Len(w)
    <3>1. i \in Nat /\ j \in Nat /\ k \in Nat /\ i <= j + 2 /\ j <= 2 * k /\ l = k + 1
      BY <2>1, <2>4, <2>5, <2>6, <2>7
    <3> HIDE DEF i, j, k, l
    <3>2. i <= 2 * l
      BY <3>1
    <3> QED  BY <3>2 DEF i, l
  <2>9. w \in Text /\ json_escape(w, Room) \in Text /\ Len(json_escape(w, Room)) <= 2 * Len(w)
    BY <2>1, <2>6, <2>8 DEF x
  <2> QED  BY <2>9 DEF w
<1> HIDE DEF S
<1>4. src \in S
  BY <1>2, <1>3, TextInduction
<1> QED  BY <1>4 DEF S

LEMMA EscapeGrows ==
    ASSUME LOG_MESSAGE_MAX_LEN \in Nat,
           NEW t \in Text, Len(t) < LOG_MESSAGE_MAX_LEN, NEW c \in Char
    PROVE  json_escape(Append(t, c), Room) = json_escape(t, Room) \o Escaped(c)
<1>1. Len(json_escape(t, Room)) <= 2 * Len(t) /\ Len(t) \in Nat /\ Room \in Nat
  BY EscapedLength, LenText DEF Room
<1>2. json_escape(t, Room) \in Text
  BY EscapedLength
<1>3. Len(json_escape(t, Room)) \in Nat
  BY <1>2, LenText
<1>4. ~(Len(json_escape(t, Room)) >= Room - 2)
  <2> DEFINE i == Len(json_escape(t, Room))
             k == Len(t)
             m == LOG_MESSAGE_MAX_LEN
  <2>1. i \in Nat /\ k \in Nat /\ m \in Nat /\ i <= 2 * k /\ k < m /\ Room = 2 * m + 1
    BY <1>1, <1>3 DEF Room
  <2> HIDE DEF i, k, m
  <2>2. ~(i >= Room - 2)
    BY <2>1
  <2> QED  BY <2>2 DEF i
<1> QED  BY <1>1, <1>4, EscapeAppend

\* What a text loses when it is printed costs nothing to write, and is lost once.
LEMMA PrintedFacts ==
    ASSUME LOG_MESSAGE_MAX_LEN \in Nat,
           NEW src \in Text, Len(src) <= LOG_MESSAGE_MAX_LEN
    PROVE  /\ Printed(src) \in Text
           /\ Len(Printed(src)) <= Len(src)
           /\ json_escape(Printed(src), Room) = json_escape(src, Room)
           /\ Printed(Printed(src)) = Printed(src)
<1> DEFINE Good(t, v) == /\ v \in Text
                         /\ Len(v) <= Len(t)
                         /\ json_escape(v, Room) = json_escape(t, Room)
                         /\ Printed(v) = v
           S == {t \in Text : Good(t, Printed(t))}
<1>1. Room \in Nat
  BY DEF Room
<1>2. <<>> \in S
  BY PrintedEmpty, NoChar
<1>3. ASSUME NEW t \in Text, NEW c \in Char, t \in S, Len(t) < Len(src)
      PROVE  Append(t, c) \in S
  <2> DEFINE v == Printed(t)
             w == Append(t, c)
  <2>1. w \in Text /\ Len(w) = Len(t) + 1 /\ Len(t) \in Nat
    BY AppendText
  <2>2. Good(t, v)
    BY <1>3
  <2>3. Len(v) \in Nat
    BY <2>2, LenText
  <2>4. Len(t) < LOG_MESSAGE_MAX_LEN /\ Len(v) < LOG_MESSAGE_MAX_LEN
    <3>1. Len(src) \in Nat
      BY LenText
    <3>2. \A i \in Nat, j \in Nat, k \in Nat : i <= j /\ j < k /\ k <= LOG_MESSAGE_MAX_LEN
              => j < LOG_MESSAGE_MAX_LEN /\ i < LOG_MESSAGE_MAX_LEN
      OBVIOUS
    <3> HIDE DEF v
    <3> QED  BY <1>3, <2>1, <2>2, <2>3, <3>1, <3>2
  <2>5. CASE c \in Unprintable \ DOMAIN Escape
    <3>1. Printed(w) = v
      BY <2>5, PrintedAppend
    <3>2. Escaped(c) = <<>>
      BY <2>5, EscapedCases
    <3>3. json_escape(w, Room) = json_escape(t, Room)
      <4>1. json_escape(t, Room) \in Text
        BY <1>1, EscapeAppend
      <4>2. json_escape(t, Room) \o <<>> = json_escape(t, Room)
        BY <4>1, ConcatEmptySeq DEF Text
      <4> QED  BY <2>4, <3>2, <4>2, EscapeGrows
    <3> HIDE DEF v
    <3>4. Len(v) <= Len(w)
      <4>1. \A i \in Nat, j \in Nat : i <= j => i <= j + 1
        OBVIOUS
      <4> QED  BY <2>1, <2>2, <2>3, <4>1
    <3>5. Good(w, v)
      BY <2>2, <3>3, <3>4
    <3> HIDE DEF Good, w
    <3>6. w \in S
      BY <2>1, <3>1, <3>5
    <3> QED  BY <3>6 DEF w
  <2>6. CASE c \notin Unprintable \ DOMAIN Escape
    <3> DEFINE x == Append(v, c)
    <3>1. Printed(w) = x
      BY <2>6, PrintedAppend
    <3>2. x \in Text /\ Len(x) = Len(v) + 1
      BY <2>2, AppendText
    <3>3. json_escape(x, Room) = json_escape(w, Room)
      <4>1. json_escape(w, Room) = json_escape(t, Room) \o Escaped(c)
        BY <2>4, EscapeGrows
      <4>2. json_escape(x, Room) = json_escape(v, Room) \o Escaped(c)
        BY <2>2, <2>4, EscapeGrows
      <4> QED  BY <2>2, <4>1, <4>2
    <3>4. Printed(x) = x
      BY <2>2, <2>6, PrintedAppend
    <3> HIDE DEF v, x, w
    <3>5. Len(x) <= Len(w)
      <4>1. \A i \in Nat, j \in Nat : i <= j => i + 1 <= j + 1
        OBVIOUS
      <4> QED  BY <2>1, <2>2, <2>3, <3>2, <4>1
    <3>6. Good(w, x)
      BY <3>2, <3>3, <3>4, <3>5
    <3> HIDE DEF Good
    <3>7. w \in S
      BY <2>1, <3>1, <3>6
    <3> QED  BY <3>7 DEF w
  <2> QED  BY <2>5, <2>6
<1> HIDE DEF S
<1>4. src \in S
  BY <1>2, <1>3, TextInduction
<1> QED  BY <1>4 DEF S

\* A text that has no NUL has none when it is printed.
LEMMA PrintedAllIn ==
    ASSUME NEW src \in Text, NEW A, AllIn(src, A)
    PROVE  AllIn(Printed(src), A)
<1> DEFINE S == {t \in Text : AllIn(Printed(t), A)}
<1>1. <<>> \in S
  BY PrintedEmpty, NoChar DEF AllIn
<1>2. ASSUME NEW t \in Text, NEW c \in Char, t \in S, \E k \in 1 .. Len(src) : c = src[k]
      PROVE  Append(t, c) \in S
  <2> DEFINE v == Printed(t)
             w == Append(t, c)
             x == Append(v, c)
  <2>1. w \in Text
    BY AppendText
  <2>2. v \in Text /\ (Printed(w) = v \/ Printed(w) = x)
    BY PrintedAppend
  <2>3. AllIn(v, A) /\ c \in A
    BY <1>2 DEF AllIn
  <2>4. AllIn(x, A)
    <3> HIDE DEF v
    <3>1. /\ Len(x) = Len(v) + 1 /\ Len(v) \in Nat
          /\ \A i \in 1 .. Len(v) : x[i] = v[i]
          /\ x[Len(v) + 1] = c
      BY <2>2, AppendText
    <3> HIDE DEF x
    <3>2. \A i \in 1 .. Len(x) : i \in 1 .. Len(v) \/ i = Len(v) + 1
      BY <3>1
    <3> QED  BY <2>3, <3>1, <3>2 DEF AllIn
  <2> HIDE DEF v, w, x
  <2>5. w \in S
    BY <2>1, <2>2, <2>3, <2>4
  <2> QED  BY <2>5 DEF w
<1> HIDE DEF S
<1>3. src \in S
  BY <1>1, <1>2, TextInduction
<1> QED  BY <1>3 DEF S

-----------------------------------------------------------------------------
(***************************************************************************)
(* Reading a string.                                                        *)
(***************************************************************************)

\* The characters between p and q of s are read as c.
Spells(s, p, c, q) ==
    /\ p \in Nat \ {0} /\ q \in Nat /\ q <= Len(s)
    /\ \/ s[p] = c /\ c \notin {Quote, NUL, Backslash} /\ q = p + 1
       \/ /\ s[p] = Backslash /\ s[p + 1] \in {Escape[e] : e \in DOMAIN Escape}
          /\ Meaning(s[p + 1]) = c
          /\ q = p + 2

\* Those between p and q are read as the text v.
Spelled(s, p, v, q) ==
    \E a \in [0 .. Len(v) -> Nat] :
        /\ a[0] = p
        /\ a[Len(v)] = q
        /\ \A k \in 1 .. Len(v) : Spells(s, a[k - 1], v[k], a[k])

LEMMA SpelledEmpty ==
    ASSUME NEW s, NEW p \in Nat
    PROVE  Spelled(s, p, <<>>, p)
<1> DEFINE a == [k \in 0 .. 0 |-> p]
<1>1. a \in [0 .. 0 -> Nat] /\ a[0] = p
  OBVIOUS
<1> HIDE DEF a
<1>2. Len(<<>>) = 0
  BY NoChar
<1> QED  BY <1>1, <1>2 DEF Spelled

LEMMA SpelledAppend ==
    ASSUME NEW s, NEW p, NEW q, NEW r, NEW v \in Text, NEW c \in Char,
           Spelled(s, p, v, q), Spells(s, q, c, r)
    PROVE  Spelled(s, p, Append(v, c), r)
<1> DEFINE n == Len(v)
           w == Append(v, c)
<1>1. /\ Len(w) = n + 1 /\ n \in Nat
      /\ \A i \in 1 .. n : w[i] = v[i]
      /\ w[n + 1] = c
  BY AppendText
<1> HIDE DEF w
<1>2. PICK a \in [0 .. n -> Nat] : /\ a[0] = p /\ a[n] = q
                                   /\ \A k \in 1 .. n : Spells(s, a[k - 1], v[k], a[k])
  BY DEF Spelled
<1> HIDE DEF n
<1>3. r \in Nat
  BY DEF Spells
<1> DEFINE b == [k \in 0 .. n + 1 |-> IF k = n + 1 THEN r ELSE a[k]]
<1>4. b \in [0 .. n + 1 -> Nat]
  BY <1>1, <1>3
<1>5. /\ b[n + 1] = r /\ \A k \in 0 .. n : b[k] = a[k]
  BY <1>1
<1> HIDE DEF b
<1>6. \A k \in 1 .. n + 1 : Spells(s, b[k - 1], w[k], b[k])
  <2> TAKE k \in 1 .. n + 1
  <2>1. CASE k = n + 1
    <3>1. k - 1 = n /\ n \in 0 .. n
      BY <2>1, <1>1
    <3> QED  BY <2>1, <3>1, <1>1, <1>2, <1>5
  <2>2. CASE k # n + 1
    <3>1. k \in 1 .. n /\ k - 1 \in 0 .. n /\ k \in 0 .. n
      BY <2>2, <1>1
    <3> QED  BY <3>1, <1>1, <1>2, <1>5
  <2> QED  BY <2>1, <2>2
<1>7. b[0] = p /\ 0 \in 0 .. n
  BY <1>1, <1>2, <1>5
<1> QED  BY <1>1, <1>4, <1>5, <1>6, <1>7 DEF Spelled, w

\* What is written for a character is read as the character.
LEMMA EscapedSpells ==
    ASSUME NEW s \in Text, NEW p, NEW c \in Char \ {NUL},
           c \notin Unprintable \ DOMAIN Escape,
           Has(s, p, Escaped(c)), p + Len(Escaped(c)) <= Len(s)
    PROVE  Spells(s, p, c, p + Len(Escaped(c)))
<1> DEFINE u == Escaped(c)
<1>1. p \in Nat \ {0} /\ \A i \in 1 .. Len(u) : s[p + i - 1] = u[i]
  BY DEF Has
<1>2. CASE c \in DOMAIN Escape
  <2>1. Len(u) = 2 /\ u[1] = Backslash /\ u[2] = Escape[c]
    BY <1>2, EscapedCases
  <2> HIDE DEF u
  <2>2. s[p] = Backslash /\ s[p + 1] = Escape[c]
    <3>1. p + 1 - 1 = p /\ p + 2 - 1 = p + 1 /\ 1 \in 1 .. 2 /\ 2 \in 1 .. 2
      BY <1>1
    <3> QED  BY <1>1, <2>1, <3>1
  <2>3. Meaning(Escape[c]) = c
    BY <1>2 DEF Meaning, Escape, Quote, Backslash
  <2>4. p + Len(u) = p + 2 /\ p + 2 \in Nat /\ p + 2 <= Len(s)
    BY <1>1, <2>1 DEF u
  <2> QED  BY <1>1, <1>2, <2>2, <2>3, <2>4 DEF Spells, u
<1>3. CASE c \notin DOMAIN Escape
  <2>1. Len(u) = 1 /\ u[1] = c
    BY <1>3, EscapedCases
  <2> HIDE DEF u
  <2>2. s[p] = c
    <3>1. p + 1 - 1 = p /\ 1 \in 1 .. 1
      BY <1>1
    <3> QED  BY <1>1, <2>1, <3>1
  <2>3. c \notin {Quote, NUL, Backslash}
    BY <1>3 DEF Escape
  <2>4. p + Len(u) = p + 1 /\ p + 1 \in Nat /\ p + 1 <= Len(s)
    BY <1>1, <2>1 DEF u
  <2> QED  BY <1>1, <2>2, <2>3, <2>4 DEF Spells, u
<1> QED  BY <1>2, <1>3

\* What json_escape writes for a text is read as the text printed.
LEMMA EscapeSpelled ==
    ASSUME LOG_MESSAGE_MAX_LEN \in Nat,
           NEW src \in Text, Len(src) <= LOG_MESSAGE_MAX_LEN, AllIn(src, Char \ {NUL}),
           NEW s \in Text, NEW p, Has(s, p, json_escape(src, Room)),
           p + Len(json_escape(src, Room)) <= Len(s)
    PROVE  Spelled(s, p, Printed(src), p + Len(json_escape(src, Room)))
<1> DEFINE E(t) == json_escape(t, Room)
           Good(t) == Has(s, p, E(t)) /\ p + Len(E(t)) <= Len(s)
                          => Spelled(s, p, Printed(t), p + Len(E(t)))
           S == {t \in Text : Good(t)}
<1>1. Room \in Nat /\ p \in Nat \ {0}
  BY DEF Room, Has
<1>2. <<>> \in S
  <2>1. E(<<>>) = <<>> /\ Len(<<>>) = 0 /\ p + 0 = p
    BY <1>1, NoChar, EscapeEmpty
  <2>2. Spelled(s, p, <<>>, p)
    BY <1>1, SpelledEmpty
  <2> QED  BY <2>1, <2>2, NoChar, PrintedEmpty
<1>3. ASSUME NEW t \in Text, NEW c \in Char, t \in S, Len(t) < Len(src),
             \E k \in 1 .. Len(src) : c = src[k]
      PROVE  Append(t, c) \in S
  <2> DEFINE w == Append(t, c)
             u == E(t)
             e == Escaped(c)
  <2>1. w \in Text /\ u \in Text /\ e \in Text
    BY <1>1, AppendText, EscapeAppend, EscapedCases
  <2>2. c \in Char \ {NUL}
    BY <1>3 DEF AllIn
  <2>3. E(w) = u \o e
    <3>1. Len(t) < LOG_MESSAGE_MAX_LEN
      <4>1. Len(t) \in Nat /\ Len(src) \in Nat
        BY LenText
      <4> QED  BY <4>1, <1>3
    <3> QED  BY <3>1, EscapeGrows
  <2>4. Len(e) \in Nat /\ Len(u) \in Nat /\ Len(u \o e) = Len(u) + Len(e)
    <3> HIDE DEF u, e
    <3> QED  BY <2>1, TextTypes
  <2>5. ASSUME Has(s, p, E(w)), p + Len(E(w)) <= Len(s)
        PROVE  Spelled(s, p, Printed(w), p + Len(E(w)))
    <3> DEFINE q == p + Len(u)
    <3>1. Has(s, p, u) /\ Has(s, q, e)
      <4> HIDE DEF u, e, E
      <4> QED  BY <2>1, <2>3, <2>5, HasConcat
    <3>2. p + Len(E(w)) = q + Len(e) /\ q <= Len(s)
      <4> DEFINE i == Len(u)
                 j == Len(e)
                 x == Len(E(w))
                 l == Len(s)
      <4>1. i \in Nat /\ j \in Nat /\ x = i + j /\ l \in Nat /\ p \in Nat /\ p + x <= l
        BY <1>1, <2>3, <2>4, <2>5, LenText
      <4> HIDE DEF i, j, x, l
      <4>2. p + x = (p + i) + j /\ p + i <= l
        BY <4>1
      <4> QED  BY <4>2 DEF i, j, x, l
    <3>3. Spelled(s, p, Printed(t), q)
      BY <1>3, <3>1, <3>2
    <3> DEFINE v == Printed(t)
    <3>4. v \in Text
      BY PrintedAppend
    <3>5. CASE c \in Unprintable \ DOMAIN Escape
      <4>1. Printed(w) = v
        BY <3>5, PrintedAppend
      <4>2. Len(e) = 0
        BY <3>5, EscapedCases, NoChar
      <4>3. q + 0 = q
        BY <1>1, <2>4
      <4> HIDE DEF q, e
      <4> QED  BY <3>2, <3>3, <4>1, <4>2, <4>3
    <3>6. CASE c \notin Unprintable \ DOMAIN Escape
      <4>1. Printed(w) = Append(v, c)
        BY <3>6, PrintedAppend
      <4>2. q + Len(e) <= Len(s)
        BY <3>2, <2>5
      <4> HIDE DEF q, v
      <4>3. Spells(s, q, c, q + Len(e))
        BY <2>2, <3>1, <3>6, <4>2, EscapedSpells
      <4> HIDE DEF e
      <4>4. Spelled(s, p, Append(v, c), q + Len(e))
        BY <3>3, <3>4, <4>3, SpelledAppend DEF v
      <4> QED  BY <3>2, <4>1, <4>4
    <3> QED  BY <3>5, <3>6
  <2> HIDE DEF w, E
  <2>6. w \in S
    BY <2>1, <2>5
  <2> QED  BY <2>6 DEF w
<1> HIDE DEF S
<1>4. src \in S
  BY <1>2, <1>3, TextInduction
<1> QED  BY <1>4 DEF S

\* Characters nothing has to be written for are read as they are.
PlainChar == Char \ {Quote, NUL, Backslash}

LEMMA RawSpelled ==
    ASSUME NEW s \in Text, NEW p, NEW u \in Text, AllIn(u, PlainChar), Has(s, p, u),
           p + Len(u) <= Len(s)
    PROVE  Spelled(s, p, u, p + Len(u))
<1> DEFINE n == Len(u)
           a == [k \in 0 .. n |-> p + k]
<1>1. n \in Nat /\ p \in Nat \ {0} /\ Len(s) \in Nat
  BY LenText DEF Has
<1>2. a \in [0 .. n -> Nat] /\ a[0] = p /\ a[n] = p + n
  BY <1>1
<1>3. ASSUME NEW k \in 1 .. n
      PROVE  Spells(s, a[k - 1], u[k], a[k])
  <2>1. a[k - 1] = p + k - 1 /\ a[k] = p + k
    BY <1>1
  <2>2. s[p + k - 1] = u[k] /\ u[k] \in PlainChar
    BY DEF Has, AllIn
  <2> HIDE DEF a
  <2>3. p + k - 1 \in Nat \ {0} /\ p + k \in Nat /\ p + k <= Len(s) /\ p + k = (p + k - 1) + 1
    BY <1>1
  <2> QED  BY <2>1, <2>2, <2>3 DEF Spells, PlainChar
<1> QED  BY <1>2, <1>3 DEF Spelled

LEMMA CharacterRead ==
    ASSUME NEW s \in Text, NEW p, NEW c, NEW q, Spells(s, p, c, q), NEW v, NEW strict \in BOOLEAN
    PROVE  Character(s, Done(v, p), strict) = Done(Append(v, c), q)
<1> DEFINE r == Done(v, p)
<1>1. r.ok /\ r.v = v /\ r.p = p
  BY DEF Done
<1> SUFFICES Character(s, r, strict) = Done(Append(v, c), q)
  OBVIOUS
<1> HIDE DEF r
<1>2. Len(s) \in Nat /\ p \in Nat \ {0}
  BY LenText DEF Spells
<1>3. CASE s[p] = c /\ c \notin {Quote, NUL, Backslash} /\ q = p + 1
  BY <1>1, <1>3 DEF Character
<1>4. CASE /\ s[p] = Backslash /\ s[p + 1] \in {Escape[e] : e \in DOMAIN Escape}
           /\ Meaning(s[p + 1]) = c
           /\ q = p + 2
  <2>1. p + 1 # Len(s)
    BY <1>2, <1>4 DEF Spells
  <2>2. Backslash \notin {Quote, NUL}
    BY DEF Backslash, Quote, NUL
  <2> QED  BY <1>1, <1>4, <2>1, <2>2 DEF Character
<1> QED  BY <1>3, <1>4 DEF Spells

\* A string that is closed is read whole if there is room for it.
LEMMA CharactersRead ==
    ASSUME NEW s \in Text, NEW p, NEW v \in Text, NEW q, Spelled(s, p, v, q), s[q] = Quote,
           NEW room \in Nat, Len(v) <= room, NEW strict \in BOOLEAN
    PROVE  Characters(s, p, room, strict) = Done(v, q)
<1> DEFINE n == Len(v)
           front(k) == SubSeq(v, 1, k)
<1>1. n \in Nat
  BY LenText
<1>2. PICK a \in [0 .. n -> Nat] : /\ a[0] = p /\ a[n] = q
                                   /\ \A k \in 1 .. n : Spells(s, a[k - 1], v[k], a[k])
  BY DEF Spelled
<1>3. front(0) = <<>> /\ front(n) = v
  <2>1. SubSeq(v, 1, 0) = <<>>
    <3> DEFINE u == SubSeq(v, 1, 0)
    <3>1. u \in Text /\ Len(u) = 0
      BY <1>1, SubSeqProperties DEF Text
    <3> QED  BY <3>1, EmptySeq DEF Text
  <2>2. SubSeq(v, 1, n) = v
    <3> DEFINE u == SubSeq(v, 1, n)
    <3>1. u \in Text /\ Len(u) = n /\ \A i \in 1 .. n : u[i] = v[i]
      BY <1>1, SubSeqProperties DEF Text
    <3> HIDE DEF u
    <3>2. u = v
      BY <3>1, SeqEqual DEF Text
    <3> QED  BY <3>2 DEF u
  <2> QED  BY <2>1, <2>2
<1>4. ASSUME NEW k \in 1 .. n
      PROVE  front(k) = Append(front(k - 1), v[k])
  <2> DEFINE t == front(k - 1)
             u == front(k)
             w == Append(t, v[k])
  <2>1. t \in Text /\ Len(t) = k - 1 /\ \A i \in 1 .. k - 1 : t[i] = v[i]
    BY <1>1, SubSeqProperties DEF Text
  <2>2. u \in Text /\ Len(u) = k /\ \A i \in 1 .. k : u[i] = v[i]
    BY <1>1, SubSeqProperties DEF Text
  <2>3. v[k] \in Char
    BY ElementOfSeq DEF Text
  <2> HIDE DEF t, u
  <2>4. /\ w \in Text /\ Len(w) = Len(t) + 1
        /\ \A i \in 1 .. Len(t) : w[i] = t[i]
        /\ w[Len(t) + 1] = v[k]
    BY <2>1, <2>3, AppendText
  <2> HIDE DEF w
  <2>5. Len(w) = k /\ w[k] = v[k] /\ \A i \in 1 .. k - 1 : w[i] = v[i]
    BY <2>1, <2>4
  <2>6. \A i \in 1 .. k : w[i] = u[i]
    BY <2>2, <2>5
  <2>7. w = u
    BY <2>2, <2>4, <2>5, <2>6, SeqEqual DEF Text
  <2> QED  BY <2>7 DEF t, u, w
<1> HIDE DEF front
<1> DEFINE w == [k \in 0 .. room |-> IF k <= n THEN Done(front(k), a[k]) ELSE Done(v, q)]
           Body(f, k) == IF k = 0 THEN Done(<<>>, p) ELSE Character(s, f[k - 1], strict)
           read == CHOOSE f : f = [k \in 0 .. room |-> Body(f, k)]
<1>5. w[0] = Done(<<>>, p) /\ w[room] = Done(v, q)
  <2>1. 0 <= n /\ 0 \in 0 .. room /\ room \in 0 .. room
    BY <1>1
  <2>2. w[0] = Done(<<>>, p)
    BY <1>2, <1>3, <2>1
  <2>3. w[room] = Done(v, q)
    <3>1. room <= n => room = n
      BY <1>1
    <3> QED  BY <1>2, <1>3, <2>1, <3>1
  <2> QED  BY <2>2, <2>3
<1>6. ASSUME NEW k \in 1 .. room
      PROVE  w[k] = Character(s, w[k - 1], strict)
  <2>1. k \in 0 .. room /\ k - 1 \in 0 .. room
    OBVIOUS
  <2>2. CASE k <= n
    <3>1. k \in 1 .. n /\ k - 1 <= n
      BY <1>1, <2>2
    <3>2. w[k - 1] = Done(front(k - 1), a[k - 1]) /\ w[k] = Done(front(k), a[k])
      BY <2>1, <2>2, <3>1
    <3>3. Character(s, Done(front(k - 1), a[k - 1]), strict) = Done(Append(front(k - 1), v[k]), a[k])
      BY <1>2, <3>1, CharacterRead
    <3> QED  BY <1>4, <3>1, <3>2, <3>3
  <2>3. CASE ~(k <= n)
    <3>1. w[k] = Done(v, q)
      BY <2>1, <2>3
    <3>2. w[k - 1] = Done(v, q)
      <4>1. k - 1 <= n => k - 1 = n
        BY <1>1, <2>3
      <4> QED  BY <1>2, <1>3, <2>1, <4>1
    <3>3. Character(s, Done(v, q), strict) = Done(v, q)
      BY DEF Character, Done
    <3> QED  BY <3>1, <3>2, <3>3
  <2> QED  BY <2>2, <2>3
<1>7. w = [k \in 0 .. room |-> Body(w, k)]
  <2>1. \A k \in 0 .. room : w[k] = Body(w, k)
    <3>1. \A k \in 0 .. room : k # 0 => k \in 1 .. room
      OBVIOUS
    <3> HIDE DEF w
    <3> QED  BY <1>5, <1>6, <3>1
  <2>2. w = [k \in 0 .. room |-> w[k]]
    OBVIOUS
  <2> HIDE DEF Body, w
  <2> QED  BY <2>1, <2>2
<1> HIDE DEF w
<1>8. read = [k \in 0 .. room |-> Body(read, k)]
  <2> HIDE DEF Body
  <2> QED  BY <1>7
<1>9. Characters(s, p, room, strict) = read[room]
  BY DEF Characters
<1> HIDE DEF read
<1>10. read[0] = Done(<<>>, p) /\ \A k \in 1 .. room : read[k] = Character(s, read[k - 1], strict)
  <2>1. \A k \in 0 .. room : read[k] = Body(read, k)
    <3> HIDE DEF Body
    <3> QED  BY <1>8
  <2>2. 0 \in 0 .. room /\ \A k \in 1 .. room : k \in 0 .. room /\ k # 0
    OBVIOUS
  <2> QED  BY <2>1, <2>2
<1>11. \A k \in 0 .. room : read[k] = w[k]
  <2>1. read[0] = w[0]
    BY <1>5, <1>10
  <2>2. \A k \in 1 .. room : read[k - 1] = w[k - 1] => read[k] = w[k]
    BY <1>6, <1>10
  <2>3. InStep(read, w, room)
    BY <2>1, <2>2 DEF InStep
  <2> QED  BY <2>3, LoopsAgree DEF Agree
<1>12. room \in 0 .. room
  OBVIOUS
<1> QED  BY <1>5, <1>9, <1>11, <1>12

\* At p a string begins that is read as v, and its closing quote is at q.
StringAt(s, p, v, q) ==
    /\ p \in 1 .. Len(s) /\ s[p] = Quote
    /\ v \in Text /\ AllIn(v, Char \ {NUL})
    /\ q \in Nat /\ Spelled(s, p + 1, v, q) /\ s[q] = Quote

LEMMA StringRead ==
    ASSUME NEW s \in Text, NEW p, NEW v, NEW q, StringAt(s, p, v, q),
           NEW size \in Nat \ {0}, Len(v) < size, NEW strict \in BOOLEAN
    PROVE  ParseString(s, p, size, strict) = Done(v, q + 1)
<1>0. /\ p \in 1 .. Len(s) /\ s[p] = Quote
      /\ v \in Text /\ AllIn(v, Char \ {NUL})
      /\ q \in Nat /\ Spelled(s, p + 1, v, q) /\ s[q] = Quote
  BY DEF StringAt
<1>1. skip_ws(s, p) = p
  BY <1>0, NoSpace, SpaceChars
<1>2. Characters(s, p + 1, size - 1, strict) = Done(v, q)
  <2>1. size - 1 \in Nat /\ Len(v) <= size - 1
    <3>1. Len(v) \in Nat
      BY <1>0, LenText
    <3> QED  BY <3>1
  <2> QED  BY <2>1, <1>0, CharactersRead
<1>3. UntilNul(v) = v
  <2>1. DOMAIN v = 1 .. Len(v)
    BY <1>0, LenProperties DEF Text
  <2>2. {i \in DOMAIN v : v[i] = NUL} = {}
    BY <1>0, <2>1 DEF AllIn
  <2> QED  BY <2>2 DEF UntilNul
<1> DEFINE r == Done(v, q)
<1>4. r.ok /\ r.v = v /\ r.p = q
  BY DEF Done
<1> HIDE DEF r
<1>5. Characters(s, p + 1, size - 1, strict) = r
  BY <1>2 DEF r
<1> QED  BY <1>0, <1>1, <1>3, <1>4, <1>5 DEF ParseString, Then, StringEnd

LEMMA QuoteType == <<Quote>> \in Text /\ Len(<<Quote>>) = 1 /\ <<Quote>>[1] = Quote
<1>1. Quote \in Char
  BY DEF Char, Written
<1> QED  BY <1>1, OneChar

LEMMA QuotedType ==
    ASSUME NEW u \in Text
    PROVE  Quoted(u) \in Text /\ Len(Quoted(u)) = Len(u) + 2 /\ Len(u) \in Nat
<1> DEFINE w == <<Quote>> \o u
<1>1. w \in Text /\ Len(w) = 1 + Len(u) /\ Len(u) \in Nat
  BY QuoteType, TextTypes
<1> HIDE DEF w
<1>2. w \o <<Quote>> \in Text /\ Len(w \o <<Quote>>) = Len(w) + 1
  BY <1>1, QuoteType, TextTypes
<1>3. Quoted(u) = w \o <<Quote>>
  BY DEF Quoted, w
<1>4. \A i \in Nat : (1 + i) + 1 = i + 2
  OBVIOUS
<1> QED  BY <1>1, <1>2, <1>3, <1>4

LEMMA QuotedHas ==
    ASSUME NEW s \in Text, NEW p, NEW u \in Text, Has(s, p, Quoted(u))
    PROVE  /\ p \in 1 .. Len(s) /\ s[p] = Quote
           /\ Has(s, p + 1, u)
           /\ p + 1 + Len(u) <= Len(s) /\ s[p + 1 + Len(u)] = Quote
<1> DEFINE w == <<Quote>> \o u
<1>1. w \in Text /\ Len(w) = 1 + Len(u) /\ Len(u) \in Nat
  BY QuoteType, TextTypes
<1>2. p \in Nat \ {0}
  BY DEF Has
<1>3. Has(s, p, <<Quote>>) /\ Has(s, p + 1, u) /\ Has(s, p + Len(w), <<Quote>>)
  <2>1. Has(s, p, w \o <<Quote>>)
    BY DEF Quoted
  <2> HIDE DEF w
  <2>2. Has(s, p, w) /\ Has(s, p + Len(w), <<Quote>>)
    BY <1>1, <2>1, QuoteType, HasConcat
  <2> QED  BY <2>2, QuoteType, HasConcat DEF w
<1>4. p <= Len(s) /\ s[p] = Quote
  BY <1>2, <1>3, HasOne
<1>5. p + Len(w) = p + 1 + Len(u) /\ p + 1 + Len(u) \in Nat \ {0}
  BY <1>1, <1>2
<1> HIDE DEF w
<1>6. p + 1 + Len(u) <= Len(s) /\ s[p + 1 + Len(u)] = Quote
  BY <1>3, <1>5, HasOne
<1> QED  BY <1>2, <1>3, <1>4, <1>6, LenText

\* A quoted string of plain characters
LEMMA RawRead ==
    ASSUME NEW s \in Text, NEW p, NEW u \in Text, AllIn(u, PlainChar), Has(s, p, Quoted(u)),
           NEW size \in Nat \ {0}, Len(u) < size, NEW strict \in BOOLEAN
    PROVE  ParseString(s, p, size, strict) = Done(u, p + Len(Quoted(u)))
<1>1. /\ p \in 1 .. Len(s) /\ s[p] = Quote
      /\ Has(s, p + 1, u)
      /\ p + 1 + Len(u) <= Len(s) /\ s[p + 1 + Len(u)] = Quote
  BY QuotedHas
<1> DEFINE q == p + 1 + Len(u)
<1>2. Len(u) \in Nat /\ Len(Quoted(u)) = Len(u) + 2 /\ Len(s) \in Nat
  BY QuotedType, LenText
<1>3. q \in Nat /\ q + 1 = p + Len(Quoted(u))
  BY <1>1, <1>2
<1>4. Spelled(s, p + 1, u, q)
  BY <1>1, RawSpelled
<1>5. AllIn(u, Char \ {NUL})
  BY DEF AllIn, PlainChar
<1> HIDE DEF q
<1>6. s[q] = Quote
  BY <1>1 DEF q
<1>7. StringAt(s, p, u, q)
  BY <1>1, <1>3, <1>4, <1>5, <1>6 DEF StringAt
<1>8. ParseString(s, p, size, strict) = Done(u, q + 1)
  BY <1>7, StringRead
<1> QED  BY <1>3, <1>8

\* A quoted string as json_escape writes it
LEMMA EscapedRead ==
    ASSUME LOG_MESSAGE_MAX_LEN \in Nat,
           NEW src \in Text, Len(src) <= LOG_MESSAGE_MAX_LEN, AllIn(src, Char \ {NUL}),
           NEW s \in Text, NEW p, Has(s, p, Quoted(json_escape(src, Room))),
           NEW size \in Nat \ {0}, Len(Printed(src)) < size, NEW strict \in BOOLEAN
    PROVE  ParseString(s, p, size, strict)
               = Done(Printed(src), p + Len(Quoted(json_escape(src, Room))))
<1> DEFINE u == json_escape(src, Room)
           v == Printed(src)
           q == p + 1 + Len(u)
<1>0. u \in Text /\ v \in Text
  BY EscapedLength, PrintedFacts
<1>1. /\ p \in 1 .. Len(s) /\ s[p] = Quote
      /\ Has(s, p + 1, u)
      /\ p + 1 + Len(u) <= Len(s) /\ s[p + 1 + Len(u)] = Quote
  <2> HIDE DEF u
  <2>1. Has(s, p, Quoted(u))
    BY DEF u
  <2> QED  BY <1>0, <2>1, QuotedHas
<1>2. Len(u) \in Nat /\ Len(Quoted(u)) = Len(u) + 2 /\ Len(s) \in Nat
  <2> HIDE DEF u
  <2> QED  BY <1>0, QuotedType, LenText
<1>4. Spelled(s, p + 1, v, q)
  BY <1>1, EscapeSpelled
<1>5. AllIn(v, Char \ {NUL})
  BY PrintedAllIn
<1> HIDE DEF u, v
<1>3. q \in Nat /\ q + 1 = p + Len(Quoted(u))
  BY <1>1, <1>2
<1>6. s[q] = Quote
  BY <1>1 DEF q
<1> HIDE DEF q
<1>7. Len(v) < size
  BY DEF v
<1>8. StringAt(s, p, v, q)
  BY <1>0, <1>1, <1>3, <1>4, <1>5, <1>6 DEF StringAt
<1>9. ParseString(s, p, size, strict) = Done(v, q + 1)
  BY <1>7, <1>8, StringRead
<1> QED  BY <1>3, <1>9 DEF u, v

-----------------------------------------------------------------------------
(***************************************************************************)
(* Numbers.                                                                 *)
(***************************************************************************)

LEMMA TenTimes ==
    ASSUME NEW m \in Nat
    PROVE  /\ m % 10 \in 0 .. 9
           /\ m \div 10 \in Nat
           /\ m = (m \div 10) * 10 + (m % 10)
           /\ ~(m < 10) => m \div 10 \in 0 .. m - 1
OBVIOUS

Digit == ToSet(Digits)

LEMMA DigitFacts ==
    /\ \A d \in 0 .. 9 : /\ Digits[d + 1] \in Digit
                         /\ DigitValue[Digits[d + 1]] = d
    /\ Digit \subseteq PlainChar
    /\ Digit \cap Space = {}
    /\ NUL \notin Digit /\ Quote \notin Digit /\ "," \notin Digit /\ "}" \notin Digit
    /\ "{" \notin Digit
<1>1. DOMAIN Digits = 1 .. 10
  BY DEF Digits
<1>2. Digit = {"0", "1", "2", "3", "4", "5", "6", "7", "8", "9"}
  <2>1. \A i \in 1 .. 10 : i = 1 \/ i = 2 \/ i = 3 \/ i = 4 \/ i = 5 \/ i = 6 \/ i = 7 \/ i = 8
                           \/ i = 9 \/ i = 10
    OBVIOUS
  <2>2. /\ Digits[1] = "0" /\ Digits[2] = "1" /\ Digits[3] = "2" /\ Digits[4] = "3"
        /\ Digits[5] = "4" /\ Digits[6] = "5" /\ Digits[7] = "6" /\ Digits[8] = "7"
        /\ Digits[9] = "8" /\ Digits[10] = "9"
    BY DEF Digits
  <2>3. Digit = {Digits[i] : i \in 1 .. 10}
    BY <1>1 DEF Digit, ToSet
  <2> QED  BY <2>1, <2>2, <2>3
<1>3. ASSUME NEW d \in 0 .. 9
      PROVE  Digits[d + 1] \in Digit /\ DigitValue[Digits[d + 1]] = d
  <2>1. Digits[d + 1] \in Digit
    <3>1. d + 1 \in DOMAIN Digits
      BY <1>1
    <3> QED  BY <3>1 DEF Digit, ToSet
  <2>2. \A i \in 0 .. 9 : Digits[i + 1] = Digits[d + 1] => i = d
    <3>1. \A i \in 0 .. 9 : i = 0 \/ i = 1 \/ i = 2 \/ i = 3 \/ i = 4 \/ i = 5 \/ i = 6 \/ i = 7
                            \/ i = 8 \/ i = 9
      OBVIOUS
    <3>2. /\ Digits[0 + 1] = "0" /\ Digits[1 + 1] = "1" /\ Digits[2 + 1] = "2"
          /\ Digits[3 + 1] = "3" /\ Digits[4 + 1] = "4" /\ Digits[5 + 1] = "5"
          /\ Digits[6 + 1] = "6" /\ Digits[7 + 1] = "7" /\ Digits[8 + 1] = "8"
          /\ Digits[9 + 1] = "9"
      BY DEF Digits
    <3> QED  BY <3>1, <3>2
  <2>3. DigitValue[Digits[d + 1]] = CHOOSE i \in 0 .. 9 : Digits[i + 1] = Digits[d + 1]
    BY <2>1 DEF DigitValue, Digit
  <2> QED  BY <2>1, <2>2, <2>3
<1>4. Digit \subseteq PlainChar
  BY <1>2 DEF PlainChar, Char, Written, Quote, NUL, Backslash, Digit
<1> QED  BY <1>2, <1>3, <1>4 DEF Space, NUL, Quote

\* The digits of m, given those of m \div 10
DigitsOf(m, front) ==
    IF m < 10 THEN <<Digits[m + 1]>> ELSE Append(front, Digits[(m % 10) + 1])

LEMMA DigitsOfType ==
    ASSUME NEW m \in Nat, NEW front, m < 10 \/ front \in Text
    PROVE  DigitsOf(m, front) \in Text
<1>1. \A d \in 0 .. 9 : Digits[d + 1] \in Char
  BY DigitFacts DEF PlainChar
<1>2. CASE m < 10
  <2>1. m \in 0 .. 9
    BY <1>2
  <2>2. <<Digits[m + 1]>> \in Text
    BY <1>1, <2>1, OneChar
  <2> QED  BY <1>2, <2>2 DEF DigitsOf
<1>3. CASE ~(m < 10)
  <2> DEFINE d == m % 10
  <2>1. d \in 0 .. 9
    BY TenTimes
  <2> HIDE DEF d
  <2>2. Digits[d + 1] \in Char /\ front \in Text
    BY <1>1, <1>3, <2>1
  <2>3. Append(front, Digits[d + 1]) \in Text
    BY <2>2, AppendText
  <2> QED  BY <1>3, <2>3 DEF DigitsOf, d
<1> QED  BY <1>2, <1>3

LEMMA DecimalLoop ==
    ASSUME NEW n \in Nat
    PROVE  \E f : /\ \A m \in 0 .. n : f[m] \in Text /\ f[m] = DigitsOf(m, f[m \div 10])
                  /\ Decimal(n) = f[n]
<1> DEFINE Body(f, m) == IF m < 10 THEN <<Digits[m + 1]>>
                         ELSE Append(f[m \div 10], Digits[(m % 10) + 1])
           Grown(f, m) == \A k \in 0 .. m : f[k] = DigitsOf(k, f[k \div 10])
           S == {m \in 0 .. n : \E f \in [0 .. m -> Text] : Grown(f, m)}
           g == CHOOSE g : g = [m \in 0 .. n |-> Body(g, m)]
<1>1. 0 \in S
  <2>1. DigitsOf(0, 0) \in Text
    BY DigitsOfType
  <2> DEFINE f == [k \in 0 .. 0 |-> DigitsOf(0, 0)]
  <2>2. f \in [0 .. 0 -> Text] /\ f[0] = DigitsOf(0, 0)
    BY <2>1
  <2> HIDE DEF f
  <2>3. DigitsOf(0, f[0 \div 10]) = DigitsOf(0, 0)
    BY DEF DigitsOf
  <2>4. \A k \in 0 .. 0 : k = 0
    OBVIOUS
  <2>5. Grown(f, 0)
    BY <2>2, <2>3, <2>4
  <2> HIDE DEF Grown
  <2> QED  BY <2>2, <2>5
<1>2. ASSUME NEW m \in 1 .. n, m - 1 \in S
      PROVE  m \in S
  <2>1. PICK f \in [0 .. m - 1 -> Text] : Grown(f, m - 1)
    BY <1>2
  <2> DEFINE last == DigitsOf(m, f[m \div 10])
             h == [k \in 0 .. m |-> IF k = m THEN last ELSE f[k]]
  <2>2. last \in Text
    <3>1. m < 10 \/ f[m \div 10] \in Text
      <4>1. m \in Nat
        OBVIOUS
      <4>2. ~(m < 10) => m \div 10 \in 0 .. m - 1
        BY <4>1, TenTimes
      <4> QED  BY <4>2
    <3> QED  BY <3>1, DigitsOfType
  <2> HIDE DEF last
  <2>3. h \in [0 .. m -> Text] /\ h[m] = last /\ \A k \in 0 .. m - 1 : h[k] = f[k]
    BY <2>2
  <2> HIDE DEF h
  <2>4. ASSUME NEW k \in 0 .. m, NEW a, NEW b, ~(k < 10) => a = b
        PROVE  DigitsOf(k, a) = DigitsOf(k, b)
    BY <2>4 DEF DigitsOf
  <2>5. ASSUME NEW k \in 0 .. m, ~(k < 10)
        PROVE  k \div 10 \in 0 .. m - 1 /\ h[k \div 10] = f[k \div 10]
    <3>1. k \in Nat
      OBVIOUS
    <3>2. k \div 10 \in 0 .. k - 1
      BY <2>5, <3>1, TenTimes
    <3>3. \A i \in 0 .. k - 1 : i \in 0 .. m - 1
      OBVIOUS
    <3> QED  BY <2>3, <3>2, <3>3
  <2>6. \A k \in 0 .. m : DigitsOf(k, h[k \div 10]) = DigitsOf(k, f[k \div 10])
    BY <2>4, <2>5
  <2>7. \A k \in 0 .. m : k # m => k \in 0 .. m - 1
    OBVIOUS
  <2>8. Grown(h, m)
    BY <2>1, <2>3, <2>6, <2>7 DEF last
  <2>9. m \in 0 .. n
    OBVIOUS
  <2> HIDE DEF Grown
  <2> QED  BY <2>3, <2>8, <2>9
<1> HIDE DEF S
<1>3. n \in S
  <2>1. \A k \in 0 .. n : k \in S
    BY <1>1, <1>2, Climb
  <2> QED  BY <2>1
<1>4. PICK f \in [0 .. n -> Text] : Grown(f, n)
  BY <1>3 DEF S
<1>5. \A m \in 0 .. n : DigitsOf(m, f[m \div 10]) = Body(f, m)
  BY DEF DigitsOf
<1>6. f = [m \in 0 .. n |-> Body(f, m)]
  <2> HIDE DEF Body
  <2> QED  BY <1>4, <1>5
<1>7. g = [m \in 0 .. n |-> Body(g, m)]
  <2> HIDE DEF Body
  <2> QED  BY <1>6
<1>8. Decimal(n) = g[n]
  BY DEF Decimal
<1> HIDE DEF g
<1>9. \A m \in 0 .. n : g[m] = DigitsOf(m, g[m \div 10])
  <2>1. \A m \in 0 .. n : g[m] = Body(g, m)
    <3> HIDE DEF Body
    <3> QED  BY <1>7
  <2> QED  BY <2>1 DEF DigitsOf
<1>10. \A m \in 0 .. n : g[m] \in Text
  <2> DEFINE T == {m \in 0 .. n : \A k \in 0 .. m : g[k] \in Text}
  <2>1. ASSUME NEW m \in 0 .. n, m < 10 \/ g[m \div 10] \in Text
        PROVE  g[m] \in Text
    <3> DEFINE front == g[m \div 10]
    <3>1. m \in Nat /\ g[m] = DigitsOf(m, front) /\ (m < 10 \/ front \in Text)
      BY <1>9, <2>1
    <3> HIDE DEF front
    <3> QED  BY <3>1, DigitsOfType
  <2>2. 0 \in T
    <3>1. 0 \in 0 .. n /\ 0 < 10 /\ \A k \in 0 .. 0 : k = 0
      OBVIOUS
    <3> QED  BY <2>1, <3>1
  <2>3. ASSUME NEW m \in 1 .. n, m - 1 \in T
        PROVE  m \in T
    <3>1. \A k \in 0 .. m - 1 : g[k] \in Text
      BY <2>3
    <3>2. m \in 0 .. n /\ m \in Nat
      OBVIOUS
    <3>3. ~(m < 10) => m \div 10 \in 0 .. m - 1
      BY <3>2, TenTimes
    <3>4. g[m] \in Text
      BY <2>1, <3>1, <3>2, <3>3
    <3>5. \A k \in 0 .. m : k = m \/ k \in 0 .. m - 1
      OBVIOUS
    <3> QED  BY <3>1, <3>2, <3>4, <3>5
  <2> HIDE DEF T
  <2>4. \A m \in 0 .. n : m \in T
    BY <2>2, <2>3, Climb
  <2>5. \A m \in 0 .. n : m \in 0 .. m
    OBVIOUS
  <2> QED  BY <2>4, <2>5 DEF T
<1> QED  BY <1>8, <1>9, <1>10

\* Induction from all numbers below
LEMMA ClimbFromAll ==
    ASSUME NEW n \in Nat, NEW S, \A m \in 0 .. n : (\A k \in 0 .. m - 1 : k \in S) => m \in S
    PROVE  \A m \in 0 .. n : m \in S
<1> DEFINE Bad == {m \in 0 .. n : m \notin S}
<1> SUFFICES ASSUME Bad # {} PROVE FALSE
  OBVIOUS
<1>1. PICK m \in Bad : \A x \in Bad : m <= x
  <2>1. Bad \subseteq Nat
    OBVIOUS
  <2> QED  BY <2>1, FirstExists
<1>2. \A k \in 0 .. m - 1 : k \in 0 .. n /\ ~(m <= k)
  OBVIOUS
<1>3. m \in 0 .. n
  OBVIOUS
<1> QED  BY <1>1, <1>2, <1>3

\* The digits of a number are those of its tenth, if it is not one digit, and the last.
LEMMA DigitsOfCases ==
    ASSUME NEW m \in Nat, NEW front, m < 10 \/ front \in Text
    PROVE  \/ /\ m < 10
              /\ DigitsOf(m, front) = <<Digits[m + 1]>>
              /\ Digits[m + 1] \in Digit /\ DigitValue[Digits[m + 1]] = m
           \/ \E c \in Digit : /\ ~(m < 10) /\ front \in Text
                               /\ DigitsOf(m, front) = Append(front, c)
                               /\ m = (m \div 10) * 10 + DigitValue[c]
<1>1. CASE m < 10
  <2>1. m \in 0 .. 9
    BY <1>1
  <2> QED  BY <1>1, <2>1, DigitFacts DEF DigitsOf
<1>2. CASE ~(m < 10)
  <2> DEFINE d == m % 10
             c == Digits[d + 1]
  <2>1. d \in 0 .. 9 /\ m = (m \div 10) * 10 + d
    BY TenTimes
  <2>2. DigitsOf(m, front) = Append(front, c)
    BY <1>2 DEF DigitsOf
  <2> HIDE DEF d
  <2>3. c \in Digit /\ DigitValue[c] = d
    BY <2>1, DigitFacts
  <2> HIDE DEF c
  <2>4. m = (m \div 10) * 10 + DigitValue[c]
    BY <2>1, <2>3
  <2> QED  BY <1>2, <2>2, <2>3, <2>4
<1> QED  BY <1>1, <1>2

LEMMA DecimalType ==
    ASSUME NEW n \in Nat
    PROVE  Decimal(n) \in Text /\ Len(Decimal(n)) \in Nat \ {0} /\ AllIn(Decimal(n), Digit)
<1>1. PICK f : /\ \A m \in 0 .. n : f[m] \in Text /\ f[m] = DigitsOf(m, f[m \div 10])
               /\ Decimal(n) = f[n]
  BY DecimalLoop
<1> DEFINE Good(u) == u \in Text /\ Len(u) \in Nat \ {0} /\ AllIn(u, Digit)
           S == {m \in 0 .. n : Good(f[m])}
<1>2. ASSUME NEW m \in 0 .. n, \A k \in 0 .. m - 1 : k \in S
      PROVE  m \in S
  <2> DEFINE front == f[m \div 10]
  <2>1. m \in Nat /\ (~(m < 10) => m \div 10 \in 0 .. m - 1)
    BY TenTimes
  <2>2. m < 10 \/ Good(front)
    BY <1>2, <2>1
  <2> HIDE DEF front
  <2>3. f[m] = DigitsOf(m, front)
    BY <1>1 DEF front
  <2>4. CASE m < 10
    <3>1. DigitsOf(m, front) = <<Digits[m + 1]>> /\ Digits[m + 1] \in Digit
      BY <2>1, <2>4, DigitsOfCases
    <3> DEFINE c == Digits[m + 1]
    <3> HIDE DEF c
    <3>2. f[m] = <<c>> /\ c \in Digit /\ c \in Char
      BY <2>3, <3>1, DigitFacts DEF c, PlainChar
    <3>3. Good(<<c>>)
      BY <3>2, OneChar, AllInOne
    <3> HIDE DEF Good
    <3> QED  BY <3>2, <3>3
  <2>5. CASE ~(m < 10)
    <3>1. PICK c \in Digit : front \in Text /\ DigitsOf(m, front) = Append(front, c)
      BY <2>1, <2>2, <2>5, DigitsOfCases
    <3> DEFINE w == Append(front, c)
    <3>2. c \in Char
      BY DigitFacts DEF PlainChar
    <3>3. /\ w \in Text /\ Len(w) = Len(front) + 1 /\ Len(front) \in Nat
          /\ \A i \in 1 .. Len(front) : w[i] = front[i]
          /\ w[Len(front) + 1] = c
      BY <3>1, <3>2, AppendText
    <3>4. f[m] = w
      BY <2>3, <3>1
    <3> HIDE DEF w
    <3>5. \A i \in 1 .. Len(w) : i \in 1 .. Len(front) \/ i = Len(front) + 1
      BY <3>3
    <3>6. AllIn(w, Digit)
      BY <2>2, <2>5, <3>3, <3>5 DEF AllIn
    <3>7. Good(w)
      BY <3>3, <3>6
    <3> HIDE DEF Good
    <3> QED  BY <3>4, <3>7
  <2> QED  BY <2>4, <2>5
<1> HIDE DEF S
<1>3. \A m \in 0 .. n : m \in S
  BY <1>2, ClimbFromAll
<1>4. n \in 0 .. n
  OBVIOUS
<1> QED  BY <1>1, <1>3, <1>4 DEF S

LEMMA NumberLoop ==
    ASSUME NEW s \in Text, NEW p \in Nat, NEW n \in Nat, NumberEnd(s, p) = p + n,
           \A k \in 1 .. n : s[p + k - 1] \in Digit
    PROVE  \E g : /\ g[0] = 0
                  /\ \A k \in 1 .. n : g[k] = g[k - 1] * 10 + DigitValue[s[p + k - 1]]
                  /\ Number(s, p) = g[n]
<1> DEFINE Step(k, r) == r * 10 + DigitValue[s[p + k - 1]]
           Body(g, k) == IF k = 0 THEN 0 ELSE g[k - 1] * 10 + DigitValue[s[p + k - 1]]
           g == CHOOSE g : g = [k \in 0 .. n |-> Body(g, k)]
           step == [k \in 1 .. n |-> [r \in Nat |-> Step(k, r)]]
<1>1. \A c \in Digit : DigitValue[c] \in Nat
  <2>1. \A c \in Digit : \E d \in 0 .. 9 : c = Digits[d + 1]
    <3>1. DOMAIN Digits = 1 .. 10
      BY DEF Digits
    <3>2. \A i \in 1 .. 10 : i - 1 \in 0 .. 9 /\ (i - 1) + 1 = i
      OBVIOUS
    <3> QED  BY <3>1, <3>2 DEF Digit, ToSet
  <2>2. \A d \in 0 .. 9 : DigitValue[Digits[d + 1]] = d
    BY DigitFacts
  <2>3. \A d \in 0 .. 9 : d \in Nat
    OBVIOUS
  <2> QED  BY <2>1, <2>2, <2>3
<1>2. \A k \in 1 .. n, r \in Nat : Step(k, r) \in Nat
  <2>1. \A k \in 1 .. n : DigitValue[s[p + k - 1]] \in Nat
    BY <1>1
  <2>2. \A r \in Nat, d \in Nat : r * 10 + d \in Nat
    OBVIOUS
  <2> QED  BY <2>1, <2>2
<1> HIDE DEF Step
<1>3. step \in [1 .. n -> [Nat -> Nat]]
  BY <1>2
<1>4. PICK f \in [0 .. n -> Nat] : f[0] = 0 /\ \A k \in 1 .. n : f[k] = step[k][f[k - 1]]
  <2> DEFINE init == 0
             m == n
  <2>1. m \in Nat /\ init \in Nat
    OBVIOUS
  <2>2. step \in [1 .. m -> [Nat -> Nat]]
    BY <1>3
  <2> HIDE DEF step, init, m
  <2>3. \E f : Loop(f, m, Nat, init, step)
    BY <2>1, <2>2, LoopExists
  <2> QED  BY <2>3 DEF init, Loop, m
<1>5. \A k \in 1 .. n : f[k] = Step(k, f[k - 1])
  <2>1. \A k \in 1 .. n : k - 1 \in 0 .. n
    OBVIOUS
  <2> QED  BY <2>1, <1>4
<1>6. f = [k \in 0 .. n |-> Body(f, k)]
  <2>1. \A k \in 0 .. n : f[k] = Body(f, k)
    <3>1. \A k \in 0 .. n : k # 0 => k \in 1 .. n
      OBVIOUS
    <3> HIDE DEF step
    <3> QED  BY <3>1, <1>4, <1>5 DEF Step
  <2> HIDE DEF Body
  <2> QED  BY <2>1
<1>7. g = [k \in 0 .. n |-> Body(g, k)]
  <2> HIDE DEF Body
  <2> QED  BY <1>6
<1>8. Number(s, p) = g[n]
  <2>1. NumberEnd(s, p) - p = n
    OBVIOUS
  <2> QED  BY <2>1 DEF Number
<1> HIDE DEF g
<1>9. \A k \in 0 .. n : g[k] = Body(g, k)
  <2> HIDE DEF Body
  <2> QED  BY <1>7
<1>10. g[0] = 0 /\ \A k \in 1 .. n : g[k] = Step(k, g[k - 1])
  <2>1. 0 \in 0 .. n /\ \A k \in 1 .. n : k \in 0 .. n /\ k # 0
    OBVIOUS
  <2> QED  BY <2>1, <1>9 DEF Step
<1> QED  BY <1>8, <1>10 DEF Step

\* A number that is written is read as it was.
LEMMA DecimalRead ==
    ASSUME NEW s \in Text, NEW p, NEW n \in Nat, Has(s, p, Decimal(n)),
           p + Len(Decimal(n)) <= Len(s), s[p + Len(Decimal(n))] \notin Digit
    PROVE  NumberEnd(s, p) = p + Len(Decimal(n)) /\ Number(s, p) = n
<1> DEFINE l == Len(Decimal(n))
<1>1. l \in Nat \ {0} /\ p \in Nat \ {0} /\ Len(s) \in Nat
  BY DecimalType, LenText DEF Has
<1>2. \A k \in 1 .. l : s[p + k - 1] \in Digit
  BY DecimalType DEF Has, AllIn
<1>3. s[p + l] \notin Digit /\ p + l <= Len(s)
  OBVIOUS
<1>4. PICK f : /\ \A m \in 0 .. n : f[m] \in Text /\ f[m] = DigitsOf(m, f[m \div 10])
               /\ Decimal(n) = f[n]
  BY DecimalLoop
<1>5. Has(s, p, f[n]) /\ l = Len(f[n])
  BY <1>4
<1> HIDE DEF l
<1>6. NumberEnd(s, p) = p + l
  <2>1. \A j \in p .. (p + l) - 1 : s[j] \in Digit
    <3>1. \A j \in p .. (p + l) - 1 : j - p + 1 \in 1 .. l /\ p + (j - p + 1) - 1 = j
      BY <1>1
    <3> QED  BY <1>2, <3>1
  <2> DEFINE q == p + l
             S == Digit
  <2>2. q \in p .. Len(s) /\ s[q] \notin S /\ \A j \in p .. q - 1 : s[j] \in S
    BY <1>1, <1>3, <2>1
  <2>3. p \in Nat
    BY <1>1
  <2> HIDE DEF q, S
  <2>4. After(s, p, S) = q
    BY <2>2, <2>3, AfterStops
  <2> QED  BY <2>4 DEF NumberEnd, Digit, q, S
<1>7. PICK g : /\ g[0] = 0
               /\ \A k \in 1 .. l : g[k] = g[k - 1] * 10 + DigitValue[s[p + k - 1]]
               /\ Number(s, p) = g[l]
  <2>1. p \in Nat /\ l \in Nat
    BY <1>1
  <2> QED  BY <2>1, <1>2, <1>6, NumberLoop
<1> DEFINE Good(u, m) == Has(s, p, u) /\ Len(u) <= l => g[Len(u)] = m
           S == {m \in 0 .. n : Good(f[m], m)}
<1>8. ASSUME NEW m \in 0 .. n, \A k \in 0 .. m - 1 : k \in S
      PROVE  m \in S
  <2> DEFINE front == f[m \div 10]
             t == m \div 10
  <2>1. m \in Nat /\ t \in Nat /\ (~(m < 10) => t \in 0 .. m - 1)
    BY TenTimes
  <2>2. m < 10 \/ (Good(front, t) /\ front \in Text)
    <3>1. ~(m < 10) => t \in 0 .. n
      BY <2>1
    <3> HIDE DEF Good
    <3> QED  BY <1>4, <1>8, <2>1, <3>1
  <2>a. m < 10 \/ front \in Text
    BY <2>2
  <2>b. f[m] = DigitsOf(m, front)
    BY <1>4
  <2> HIDE DEF front
  <2>3. CASE m < 10
    <3>1. DigitsOf(m, front) = <<Digits[m + 1]>> /\ Digits[m + 1] \in Digit
          /\ DigitValue[Digits[m + 1]] = m
      BY <2>1, <2>3, DigitsOfCases
    <3> DEFINE c == Digits[m + 1]
    <3> HIDE DEF c
    <3>2. f[m] = <<c>> /\ c \in Digit /\ c \in Char /\ DigitValue[c] = m
      BY <2>b, <3>1, DigitFacts DEF c, PlainChar
    <3>3. Len(<<c>>) = 1
      BY <3>2, OneChar
    <3>4. ASSUME Has(s, p, <<c>>)
          PROVE  g[1] = m
      <4>1. s[p] = c
        BY <1>1, <3>4, HasOne
      <4>2. 1 \in 1 .. l /\ 1 - 1 = 0 /\ p + 1 - 1 = p
        BY <1>1
      <4>3. g[1] = g[0] * 10 + DigitValue[s[p]]
        BY <1>7, <4>2
      <4> QED  BY <1>7, <2>1, <3>2, <4>1, <4>3
    <3>5. Good(<<c>>, m)
      BY <3>3, <3>4
    <3> HIDE DEF Good
    <3> QED  BY <3>2, <3>5
  <2>4. CASE ~(m < 10)
    <3>1. PICK c \in Digit : /\ front \in Text /\ DigitsOf(m, front) = Append(front, c)
                             /\ m = t * 10 + DigitValue[c]
      BY <2>1, <2>a, <2>4, DigitsOfCases
    <3> DEFINE w == Append(front, c)
    <3>2. c \in Char
      BY DigitFacts DEF PlainChar
    <3>3. /\ w \in Text /\ Len(w) = Len(front) + 1 /\ Len(front) \in Nat
          /\ \A i \in 1 .. Len(front) : w[i] = front[i]
          /\ w[Len(front) + 1] = c
      BY <3>1, <3>2, AppendText
    <3>4. f[m] = w
      BY <2>b, <3>1
    <3> HIDE DEF w
    <3>5. ASSUME Has(s, p, w), Len(w) <= l
          PROVE  g[Len(w)] = m
      <4> DEFINE j == Len(front)
      <4>1. j \in Nat /\ Len(w) = j + 1 /\ j + 1 \in 1 .. l /\ (j + 1) - 1 = j
        BY <1>1, <3>3, <3>5
      <4>2. Has(s, p, front) /\ j <= l
        <5>1. \A i \in 1 .. j : i \in 1 .. Len(w) /\ w[i] = front[i]
          BY <3>3, <4>1
        <5>2. p + j - 1 <= Len(s) /\ j <= l
          <6> DEFINE x == Len(w)
                     y == Len(s)
          <6>1. p + x - 1 <= y /\ x = j + 1 /\ y \in Nat /\ j \in Nat /\ x <= l
            BY <1>1, <3>5, <4>1 DEF Has
          <6> HIDE DEF x, y, j
          <6> QED  BY <1>1, <6>1 DEF y
        <5> QED  BY <3>5, <5>1, <5>2 DEF Has
      <4>3. g[j] = t
        BY <2>2, <2>4, <4>2
      <4>4. s[p + (j + 1) - 1] = c
        <5>1. j + 1 \in 1 .. Len(w)
          BY <4>1
        <5> QED  BY <3>3, <3>5, <5>1 DEF Has
      <4> HIDE DEF j
      <4>5. g[j + 1] = g[j] * 10 + DigitValue[s[p + (j + 1) - 1]]
        BY <1>7, <4>1
      <4> QED  BY <3>1, <4>1, <4>3, <4>4, <4>5
    <3>6. Good(w, m)
      BY <3>5
    <3> HIDE DEF Good
    <3> QED  BY <3>4, <3>6
  <2> QED  BY <2>3, <2>4
<1> HIDE DEF S
<1>9. \A m \in 0 .. n : m \in S
  BY <1>8, ClimbFromAll
<1>10. g[l] = n
  <2>1. n \in 0 .. n /\ l <= l
    BY <1>1
  <2>2. Good(f[n], n)
    BY <2>1, <1>9 DEF S
  <2> QED  BY <2>1, <2>2, <1>5
<1> QED  BY <1>6, <1>7, <1>10 DEF l

LEMMA NumRead ==
    ASSUME NEW s \in Text, NEW p, NEW n \in Nat, Has(s, p, Decimal(n)),
           p + Len(Decimal(n)) <= Len(s), s[p + Len(Decimal(n))] \notin Digit
    PROVE  /\ parse_num(s, p) = Done(n, p + Len(Decimal(n)))
           /\ parse_json_number(s, p) = Done(n, p + Len(Decimal(n)))
<1> DEFINE u == Decimal(n)
<1>1. u \in Text /\ Len(u) \in Nat \ {0} /\ AllIn(u, Digit)
  BY DecimalType
<1>2. NumberEnd(s, p) = p + Len(u) /\ Number(s, p) = n
  BY DecimalRead
<1> HIDE DEF u
<1>3. p \in 1 .. Len(s) /\ s[p] \in Digit
  <2>1. p \in Nat \ {0} /\ Len(s) \in Nat /\ p + Len(u) <= Len(s) /\ Has(s, p, u)
    BY LenText DEF Has, u
  <2>2. 1 \in 1 .. Len(u) /\ p + 1 - 1 = p /\ p <= Len(s)
    BY <1>1, <2>1
  <2>3. s[p] = u[1] /\ u[1] \in Digit
    BY <1>1, <2>1, <2>2 DEF Has, AllIn
  <2> QED  BY <2>1, <2>2, <2>3
<1>4. skip_ws(s, p) = p
  BY <1>3, NoSpace, DigitFacts
<1>5. s[p] \in ToSet(Digits)
  BY <1>3 DEF Digit
<1> QED  BY <1>2, <1>4, <1>5 DEF parse_num, parse_json_number, u

LEMMA NulType == NUL \in Char /\ <<NUL>> \in Text /\ Len(<<NUL>>) = 1 /\ <<NUL>>[1] = NUL
<1>1. NUL \in Char
  BY DEF Char, Written
<1> QED  BY <1>1, OneChar

\* A text stands in itself, with something behind it too.
LEMMA HasSelf ==
    ASSUME NEW u \in Text, NEW v \in Text
    PROVE  u \o v \in Text /\ Has(u \o v, 1, u) /\ Has(u \o v, 1 + Len(u), v)
<1> DEFINE w == u \o v
<1>1. w \in Text /\ Len(w) \in Nat
  BY TextTypes, LenText
<1> HIDE DEF w
<1>2. Has(w, 1, w)
  <2>1. 1 + Len(w) - 1 <= Len(w) /\ \A i \in 1 .. Len(w) : 1 + i - 1 = i
    BY <1>1
  <2> QED  BY <2>1 DEF Has
<1>3. Has(w, 1, u) /\ Has(w, 1 + Len(u), v)
  BY <1>1, <1>2, HasConcat DEF w
<1> QED  BY <1>1, <1>3 DEF w

LEMMA AtoiDecimal ==
    ASSUME NEW n \in Nat
    PROVE  atoi(Decimal(n)) = n
<1> DEFINE u == Decimal(n)
           s == u \o <<NUL>>
<1>1. u \in Text /\ Len(u) \in Nat
  BY DecimalType, LenText
<1>2. s \in Text /\ Has(s, 1, u) /\ Has(s, 1 + Len(u), <<NUL>>)
  <2> HIDE DEF u
  <2> QED  BY <1>1, NulType, HasSelf
<1> HIDE DEF s
<1>3. 1 + Len(u) <= Len(s) /\ s[1 + Len(u)] = NUL
  BY <1>1, <1>2, HasOne
<1>4. Number(s, 1) = n
  BY <1>2, <1>3, DecimalRead, DigitFacts
<1> QED  BY <1>4 DEF atoi, s

-----------------------------------------------------------------------------
(***************************************************************************)
(* Members of an object.                                                    *)
(***************************************************************************)

Colon == <<":">>

LEMMA ColonType == Colon \in Text /\ Len(Colon) = 1 /\ Colon[1] = ":"
<1>1. ":" \in Char
  BY DEF Char, Written
<1> QED  BY <1>1, OneChar DEF Colon

LEMMA MemberType ==
    ASSUME NEW key \in Text, NEW value \in Text
    PROVE  /\ Member(key, value) \in Text
           /\ Len(Member(key, value)) = Len(key) + 3 + Len(value)
           /\ Len(key) \in Nat /\ Len(value) \in Nat
<1> DEFINE q == Quoted(key)
           w == q \o Colon
<1>1. q \in Text /\ Len(q) = Len(key) + 2 /\ Len(key) \in Nat /\ Len(value) \in Nat
  BY QuotedType, LenText
<1> HIDE DEF q
<1>2. w \in Text /\ Len(w) = Len(q) + 1
  <2>1. q \in Text /\ Colon \in Text
    BY <1>1, ColonType
  <2>2. q \o Colon \in Text /\ Len(q \o Colon) = Len(q) + Len(Colon)
    BY <2>1, TextTypes
  <2> QED  BY <2>2, ColonType
<1> HIDE DEF w
<1>3. w \o value \in Text /\ Len(w \o value) = Len(w) + Len(value)
  BY <1>2, TextTypes
<1>4. Member(key, value) = w \o value
  BY DEF Member, Colon, w, q
<1> QED  BY <1>1, <1>2, <1>3, <1>4

LEMMA MemberHas ==
    ASSUME NEW s \in Text, NEW p, NEW key \in Text, NEW value \in Text,
           Has(s, p, Member(key, value))
    PROVE  /\ Has(s, p, Quoted(key))
           /\ p + Len(key) + 2 \in 1 .. Len(s) /\ s[p + Len(key) + 2] = ":"
           /\ Has(s, p + Len(key) + 3, value)
<1> DEFINE q == Quoted(key)
           w == q \o Colon
<1>1. q \in Text /\ Len(q) = Len(key) + 2 /\ Len(key) \in Nat /\ Len(s) \in Nat
      /\ p \in Nat \ {0}
  BY QuotedType, LenText DEF Has
<1>a. Has(s, p, w \o value)
  BY DEF Member, Colon
<1> HIDE DEF q
<1>2. w \in Text /\ Len(w) = Len(q) + 1
  <2>1. q \in Text /\ Colon \in Text
    BY <1>1, ColonType
  <2>2. q \o Colon \in Text /\ Len(q \o Colon) = Len(q) + Len(Colon)
    BY <2>1, TextTypes
  <2> QED  BY <2>2, ColonType
<1>3. Has(s, p, w) /\ Has(s, p + Len(w), value)
  <2> HIDE DEF w
  <2> QED  BY <1>a, <1>2, HasConcat
<1>4. Has(s, p, q) /\ Has(s, p + Len(q), Colon)
  BY <1>1, <1>3, ColonType, HasConcat
<1>5. p + Len(w) = p + Len(key) + 3 /\ p + Len(q) = p + Len(key) + 2
      /\ p + Len(key) + 2 \in Nat \ {0}
  BY <1>1, <1>2
<1> HIDE DEF w
<1>6. p + Len(key) + 2 <= Len(s) /\ s[p + Len(key) + 2] = ":"
  BY <1>4, <1>5, HasOne DEF Colon
<1>7. p + Len(key) + 2 \in 1 .. Len(s)
  BY <1>1, <1>5, <1>6
<1> QED  BY <1>3, <1>4, <1>5, <1>6, <1>7 DEF q

\* A key is read up to its value.
LEMMA KeyRead ==
    ASSUME NEW s \in Text, NEW p, NEW key \in Text, NEW value \in Text,
           Has(s, p, Member(key, value)), AllIn(key, PlainChar),
           KEY_SIZE \in Nat \ {0}, Len(key) < KEY_SIZE,
           Len(value) # 0, value[1] \notin Space,
           NEW strict \in BOOLEAN
    PROVE  ParseKey(s, p, strict) = Done(key, p + Len(key) + 3)
<1>1. /\ Has(s, p, Quoted(key))
      /\ p + Len(key) + 2 \in 1 .. Len(s) /\ s[p + Len(key) + 2] = ":"
      /\ Has(s, p + Len(key) + 3, value)
  BY MemberHas
<1>2. Len(key) \in Nat /\ Len(value) \in Nat /\ Len(Quoted(key)) = Len(key) + 2
      /\ p \in Nat \ {0} /\ Len(s) \in Nat
  BY <1>1, QuotedType, LenText DEF Has
<1>3. ParseString(s, p, KEY_SIZE, strict) = Done(key, p + Len(key) + 2)
  <2>1. Has(s, p, Quoted(key))
    BY <1>1
  <2>2. ParseString(s, p, KEY_SIZE, strict) = Done(key, p + Len(Quoted(key)))
    BY <2>1, RawRead
  <2>3. p + Len(Quoted(key)) = p + Len(key) + 2
    BY <1>2
  <2> QED  BY <2>2, <2>3
<1> DEFINE q == p + Len(key) + 2
           t == p + Len(key) + 3
<1>4. q \in 1 .. Len(s) /\ s[q] = ":" /\ q + 1 = t /\ t \in Nat
  BY <1>1, <1>2
<1>5. t \in 1 .. Len(s) /\ s[t] \notin Space
  <2>1. t + 1 - 1 = t /\ 1 \in 1 .. Len(value) /\ t \in Nat \ {0}
    BY <1>2
  <2>2. s[t] = value[1]
    <3>1. Has(s, t, value)
      BY <1>1
    <3> HIDE DEF t
    <3> QED  BY <2>1, <3>1 DEF Has
  <2>3. t <= Len(s)
    <3>1. t + Len(value) - 1 <= Len(s)
      BY <1>1 DEF Has
    <3> QED  BY <1>2, <3>1
  <2> QED  BY <1>2, <2>1, <2>2, <2>3
<1> HIDE DEF q, t
<1>6. skip_ws(s, q) = q /\ skip_ws(s, q + 1) = t
  <2>1. q \in 1 .. Len(s) /\ s[q] \notin Space
    BY <1>4, SpaceChars
  <2>2. skip_ws(s, q) = q
    BY <2>1, NoSpace
  <2>3. skip_ws(s, t) = t
    BY <1>5, NoSpace
  <2> QED  BY <1>4, <2>2, <2>3
<1> DEFINE r == Done(key, q)
<1>7. r.ok /\ r.v = key /\ r.p = q
  BY DEF Done
<1>8. ParseString(s, p, KEY_SIZE, strict) = r
  BY <1>3 DEF q
<1> HIDE DEF r
<1>9. ParseKey(s, p, strict) = Done(key, t)
  BY <1>4, <1>6, <1>7, <1>8 DEF ParseKey, Then
<1> QED  BY <1>9 DEF t

LEMMA CommaRead ==
    ASSUME NEW s \in Text, NEW p \in 1 .. Len(s)
    PROVE  /\ s[p] = "," /\ p + 1 <= Len(s) /\ s[p + 1] \notin Space => SkipComma(s, p) = p + 1
           /\ s[p] # "," /\ s[p] \notin Space => SkipComma(s, p) = p
<1>1. ASSUME s[p] = ",", p + 1 <= Len(s), s[p + 1] \notin Space
      PROVE  SkipComma(s, p) = p + 1
  <2>1. skip_ws(s, p) = p
    BY <1>1, NoSpace, SpaceChars
  <2>2. skip_ws(s, p + 1) = p + 1
    <3> DEFINE q == p + 1
    <3>1. q \in 1 .. Len(s) /\ s[q] \notin Space
      <4>1. Len(s) \in Nat /\ p \in Nat /\ 1 <= p
        BY LenText
      <4>2. p + 1 \in 1 .. Len(s)
        <5> DEFINE l == Len(s)
        <5>1. l \in Nat /\ p \in Nat /\ 1 <= p /\ p + 1 <= l
          BY <1>1, <4>1
        <5> HIDE DEF l
        <5>2. p + 1 \in 1 .. l
          BY <5>1
        <5> QED  BY <5>2 DEF l
      <4> QED  BY <1>1, <4>2
    <3> HIDE DEF q
    <3>2. skip_ws(s, q) = q
      BY <3>1, NoSpace
    <3> QED  BY <3>2 DEF q
  <2> QED  BY <1>1, <2>1, <2>2 DEF SkipComma
<1>2. ASSUME s[p] # ",", s[p] \notin Space
      PROVE  SkipComma(s, p) = p
  BY <1>2, NoSpace DEF SkipComma
<1> QED  BY <1>1, <1>2

Separators == {",", "}"}

\* The fields of an object lie in s; b[k] is where a reader stands after k of them.
Listed(s, b, fields) ==
    \A k \in 1 .. Len(fields) :
        /\ Has(s, b[k - 1], fields[k])
        /\ b[k - 1] + Len(fields[k]) \in 1 .. Len(s)
        /\ s[b[k - 1] + Len(fields[k])] \in Separators
        /\ SkipComma(s, b[k - 1] + Len(fields[k])) = b[k]
        /\ b[k - 1] \in Nat /\ b[k] \in Nat /\ b[k - 1] + Len(fields[k]) <= b[k]

\* Fields as they are written: each begins with a quote.
AreFields(fields) ==
    \A k \in 1 .. Len(fields) : Len(fields[k]) # 0 /\ fields[k][1] = Quote

\* They stand in s at p, and a brace behind them.
FieldsAt(s, p, fields) ==
    /\ p \in Nat \ {0}
    /\ Has(s, p, Commas(fields))
    /\ p + Len(Commas(fields)) \in 1 .. Len(s)
    /\ s[p + Len(Commas(fields))] = "}"

LEMMA FieldsListed ==
    ASSUME NEW s \in Text, NEW p, NEW fields \in Seq(Text), AreFields(fields),
           FieldsAt(s, p, fields)
    PROVE  \E b : /\ Listed(s, b, fields)
                  /\ b[0] = p
                  /\ b[Len(fields)] = p + Len(Commas(fields))
<1> DEFINE n == Len(fields)
           l == Len(Commas(fields))
<1>1. n \in Nat /\ \A k \in 1 .. n : fields[k] \in Text
  BY LenProperties, ElementOfSeq
<1>4. /\ p \in Nat /\ Has(s, p, Commas(fields))
      /\ p + l \in 1 .. Len(s) /\ s[p + l] = "}"
  BY DEF FieldsAt
<1>5. p \in Nat
  BY DEF FieldsAt
<1> HIDE DEF n, l
<1>2. CASE n = 0
  <2>1. l = 0
    <3>1. PICK g : g[0] = <<>> /\ Commas(fields) = g[n]
      BY CommasLoop DEF n
    <3>2. Commas(fields) = <<>>
      BY <1>2, <3>1
    <3> QED  BY <3>2, NoChar DEF l
  <2> DEFINE b == [k \in 0 .. 0 |-> p]
  <2>2. b[0] = p /\ p + 0 = p
    BY <1>5
  <2> HIDE DEF b
  <2>3. b[n] = p + l
    BY <1>2, <2>1, <2>2
  <2>4. Listed(s, b, fields)
    <3>1. \A k \in 1 .. n : FALSE
      BY <1>2
    <3> QED  BY <3>1 DEF Listed, n
  <2> QED  BY <2>2, <2>3, <2>4 DEF l, n
<1>3. CASE n # 0
  <2>1. n > 0
    BY <1>1, <1>3
  <2>2. PICK a : Laid(s, a, fields) /\ a[1] = p /\ a[n + 1] = p + l + 1
    <3>1. Len(fields) > 0 /\ Has(s, p, Commas(fields))
      BY <2>1, <1>4 DEF n
    <3>2. \E a : Laid(s, a, fields) /\ a[1] = p /\ a[Len(fields) + 1] = p + Len(Commas(fields)) + 1
      BY <3>1, FieldsLaid
    <3> QED  BY <3>2 DEF n, l
  <2>3. \A k \in 1 .. n : /\ Has(s, a[k], fields[k])
                          /\ a[k + 1] = a[k] + Len(fields[k]) + 1
                          /\ k < n => s[a[k + 1] - 1] = ","
    BY <2>2 DEF Laid, n
  <2> DEFINE b == [k \in 0 .. n |-> IF k = n THEN a[k + 1] - 1 ELSE a[k + 1]]
  <2>4. /\ b[n] = a[n + 1] - 1
        /\ \A k \in 1 .. n : /\ b[k - 1] = a[k]
                             /\ k < n => b[k] = a[k + 1]
    <3>1. n \in 0 .. n /\ \A k \in 1 .. n : /\ k - 1 \in 0 .. n /\ k - 1 # n /\ (k - 1) + 1 = k
                                            /\ k \in 0 .. n /\ (k < n => k # n)
      BY <1>1
    <3> QED  BY <3>1
  <2> HIDE DEF b
  <2>5. \A k \in 1 .. n : a[k] \in 1 .. Len(s) /\ s[a[k]] = Quote /\ Len(fields[k]) \in Nat \ {0}
    <3> TAKE k \in 1 .. n
    <3> DEFINE u == fields[k]
               x == a[k]
               m == Len(s)
               i == Len(u)
    <3>1. Has(s, x, u) /\ u[1] = Quote /\ i # 0 /\ i \in Nat /\ m \in Nat
      BY <1>1, <2>3, LenText DEF AreFields, n
    <3>2. x \in Nat \ {0} /\ x + i - 1 <= m /\ \A j \in 1 .. i : s[x + j - 1] = u[j]
      BY <3>1 DEF Has
    <3> HIDE DEF u, x, m, i
    <3>3. 1 \in 1 .. i /\ x + 1 - 1 = x /\ x \in 1 .. m /\ i \in Nat \ {0}
      BY <3>1, <3>2
    <3>4. x \in 1 .. m /\ s[x] = Quote /\ i \in Nat \ {0}
      BY <3>1, <3>2, <3>3
    <3> QED  BY <3>4 DEF x, m, i, u
  <2>6. b[0] = p
    <3>1. 1 \in 1 .. n /\ 1 - 1 = 0
      BY <1>1, <2>1
    <3> QED  BY <2>2, <2>4, <3>1
  <2>7. b[n] = p + l
    <3>1. p \in Nat
      BY <1>4
    <3>2. l \in Nat
      <4>1. Commas(fields) \in Text
        <5>1. AllIn(Comma, Char) /\ \A k \in 1 .. n : AllIn(fields[k], Char)
          BY <1>1, CommaType, ElementOfSeq DEF AllIn, Text
        <5> QED  BY <5>1, CommasAllIn DEF n
      <4> QED  BY <4>1, LenText DEF l
    <3> QED  BY <2>2, <2>4, <3>1, <3>2
  <2>8. ASSUME NEW k \in 1 .. n
        PROVE  /\ Has(s, b[k - 1], fields[k])
               /\ b[k - 1] + Len(fields[k]) \in 1 .. Len(s)
               /\ s[b[k - 1] + Len(fields[k])] \in Separators
               /\ SkipComma(s, b[k - 1] + Len(fields[k])) = b[k]
               /\ b[k - 1] \in Nat /\ b[k] \in Nat /\ b[k - 1] + Len(fields[k]) <= b[k]
    <3> DEFINE t == a[k] + Len(fields[k])
    <3>1. b[k - 1] = a[k] /\ Has(s, a[k], fields[k])
      BY <2>3, <2>4
    <3>2. t \in Nat \ {0} /\ a[k + 1] = t + 1 /\ a[k] \in Nat /\ t <= t /\ t <= t + 1 /\ t + 1 \in Nat
      <4>1. a[k] \in Nat \ {0} /\ Len(fields[k]) \in Nat
        BY <2>5
      <4>2. a[k + 1] = a[k] + Len(fields[k]) + 1
        BY <2>3
      <4>3. \A x \in Nat \ {0}, i \in Nat : /\ x + i \in Nat \ {0} /\ x + i <= x + i
                                             /\ x + i <= x + i + 1 /\ x + i + 1 \in Nat
        OBVIOUS
      <4> QED  BY <4>1, <4>2, <4>3
    <3> HIDE DEF t
    <3>3. CASE k < n
      <4>1. k + 1 \in 1 .. n
        BY <1>1, <3>3
      <4>2. a[k + 1] \in 1 .. Len(s) /\ s[a[k + 1]] = Quote
        BY <2>5, <4>1
      <4>3. t \in 1 .. Len(s) /\ t + 1 <= Len(s)
        BY <3>2, <4>2, LenText
      <4>4. s[t] = ","
        <5>1. (t + 1) - 1 = t
          BY <3>2
        <5>2. s[a[k + 1] - 1] = ","
          BY <2>3, <3>3
        <5> QED  BY <3>2, <5>1, <5>2
      <4>5. SkipComma(s, t) = t + 1
        BY <3>2, <4>2, <4>3, <4>4, CommaRead, SpaceChars
      <4> QED  BY <2>4, <3>1, <3>2, <3>3, <4>3, <4>4, <4>5 DEF t, Separators
    <3>4. CASE ~(k < n)
      <4>1. k = n
        BY <1>1, <3>4
      <4>2. t = b[n]
        BY <2>4, <3>2, <4>1
      <4>3. t \in 1 .. Len(s) /\ s[t] = "}"
        BY <1>4, <2>7, <4>2
      <4>4. SkipComma(s, t) = t
        <5>1. s[t] # "," /\ s[t] \notin Space
          BY <4>3, SpaceChars
        <5> QED  BY <4>3, <5>1, CommaRead
      <4>5. b[k - 1] \in Nat /\ b[k] \in Nat /\ t <= b[k]
        BY <3>1, <3>2, <4>1, <4>2
      <4>6. s[t] \in Separators /\ SkipComma(s, t) = b[k] /\ t \in 1 .. Len(s)
        BY <4>1, <4>2, <4>3, <4>4 DEF Separators
      <4>7. b[k - 1] + Len(fields[k]) = t
        BY <3>1 DEF t
      <4> QED  BY <3>1, <4>5, <4>6, <4>7
    <3> QED  BY <3>3, <3>4
  <2>9. Listed(s, b, fields)
    BY <2>8 DEF Listed, n
  <2> QED  BY <2>6, <2>7, <2>9 DEF l, n
<1> QED  BY <1>2, <1>3

-----------------------------------------------------------------------------
(***************************************************************************)
(* Clocks.                                                                  *)
(***************************************************************************)

ClockKey(i) == <<"node-">> \o Decimal(i)

ClockField(vc, k) == Member(ClockKey(k - 1), Decimal(vc[k - 1]))

ClockFields(vc, n) == [k \in 1 .. n |-> ClockField(vc, k)]

\* The numbers below 100 have two digits at most.
LEMMA ShortDecimal ==
    ASSUME NEW n \in 0 .. 99
    PROVE  Len(Decimal(n)) <= 2
<1>1. PICK f : /\ \A m \in 0 .. n : f[m] \in Text /\ f[m] = DigitsOf(m, f[m \div 10])
               /\ Decimal(n) = f[n]
  BY DecimalLoop
<1>2. \A d \in 0 .. 9 : Digits[d + 1] \in Char
  BY DigitFacts DEF PlainChar
<1>3. ASSUME NEW m \in 0 .. n, m < 10
      PROVE  Len(f[m]) = 1
  <2>1. m \in 0 .. 9
    BY <1>3
  <2>2. Len(<<Digits[m + 1]>>) = 1
    BY <1>2, <2>1, OneChar
  <2> QED  BY <1>1, <1>3, <2>2 DEF DigitsOf
<1>4. n \in 0 .. n /\ n \in Nat
  OBVIOUS
<1>5. CASE n < 10
  <2>1. Len(f[n]) = 1
    BY <1>3, <1>4, <1>5
  <2>2. Decimal(n) = f[n]
    BY <1>1
  <2>3. Len(Decimal(n)) = 1
    BY <2>1, <2>2
  <2>4. 1 <= 2
    OBVIOUS
  <2> QED  BY <2>3, <2>4
<1>6. CASE ~(n < 10)
  <2> DEFINE front == f[n \div 10]
  <2>1. n \div 10 \in 0 .. n /\ n \div 10 < 10
    BY <1>6
  <2>2. front \in Text /\ Len(front) = 1
    BY <1>1, <1>3, <2>1
  <2>3. f[n] = DigitsOf(n, front)
    BY <1>1, <1>4
  <2> HIDE DEF front
  <2>4. PICK c \in Digit : DigitsOf(n, front) = Append(front, c)
    BY <1>4, <1>6, <2>2, DigitsOfCases
  <2>5. c \in Char
    BY DigitFacts DEF PlainChar
  <2>6. Len(Append(front, c)) = 2
    <3>1. Len(Append(front, c)) = Len(front) + 1
      BY <2>2, <2>5, AppendText
    <3> QED  BY <2>2, <3>1
  <2> QED  BY <1>1, <2>3, <2>4, <2>6
<1> QED  BY <1>5, <1>6

NodeWord == <<"node-">>

LEMMA NodeWordType ==
    /\ NodeWord \in Text /\ Len(NodeWord) = 1 /\ NodeWord[1] = "node-"
    /\ AllIn(NodeWord, PlainChar)
<1>1. "node-" \in Char /\ "node-" \in PlainChar
  BY DEF Char, Written, PlainChar, Quote, NUL, Backslash
<1> QED  BY <1>1, OneChar, AllInOne DEF NodeWord

LEMMA ClockKeyType ==
    ASSUME NEW i \in Nat
    PROVE  /\ ClockKey(i) \in Text
           /\ Len(ClockKey(i)) = 1 + Len(Decimal(i))
           /\ AllIn(ClockKey(i), PlainChar)
           /\ ClockKey(i) # <<>>
           /\ ClockKey(i)[1] = "node-"
           /\ Tail(ClockKey(i)) = Decimal(i)
<1> DEFINE u == Decimal(i)
           w == ClockKey(i)
<1>1. u \in Text /\ Len(u) \in Nat \ {0} /\ AllIn(u, Digit)
  BY DecimalType
<1>2. AllIn(u, PlainChar)
  BY <1>1, DigitFacts DEF AllIn
<1> HIDE DEF u
<1>3. w = NodeWord \o u
  BY DEF ClockKey, NodeWord, u
<1>4. /\ w \in Text /\ Len(w) = 1 + Len(u)
      /\ \A j \in 1 .. 1 + Len(u) : w[j] = IF j <= 1 THEN NodeWord[j] ELSE u[j - 1]
  <2> DEFINE v == NodeWord
  <2>1. u \in Text /\ v \in Text /\ Len(v) = 1
    BY <1>1, NodeWordType
  <2>2. w = v \o u
    BY <1>3
  <2> HIDE DEF v, w
  <2>3. /\ w \in Text /\ Len(w) = Len(v) + Len(u)
        /\ \A j \in 1 .. Len(v) + Len(u) : w[j] = IF j <= Len(v) THEN v[j] ELSE u[j - Len(v)]
    BY <2>1, <2>2, TextTypes
  <2> QED  BY <2>1, <2>3 DEF v
<1>5. AllIn(w, PlainChar)
  BY <1>1, <1>2, <1>3, NodeWordType, AllInConcat
<1> HIDE DEF w
<1>6. w[1] = "node-" /\ Len(w) # 0
  <2>1. 1 \in 1 .. 1 + Len(u) /\ 1 <= 1 /\ 1 + Len(u) # 0
    BY <1>1
  <2>2. w[1] = NodeWord[1]
    BY <1>4, <2>1
  <2>3. Len(w) # 0
    BY <1>4, <2>1
  <2> QED  BY <2>2, <2>3, NodeWordType
<1>7. w # <<>>
  BY <1>6, NoChar
<1>8. Tail(w) = u
  <2> DEFINE t == Tail(w)
  <2>1. t \in Text /\ Len(t) = Len(w) - 1 /\ \A j \in 1 .. Len(t) : t[j] = w[j + 1]
    BY <1>4, <1>7, HeadTailProperties DEF Text
  <2> HIDE DEF t
  <2>2. Len(t) = Len(u)
    BY <1>1, <1>4, <2>1
  <2>3. \A j \in 1 .. Len(t) : t[j] = u[j]
    <3>1. \A j \in 1 .. Len(u) : j + 1 \in 1 .. 1 + Len(u) /\ ~(j + 1 <= 1) /\ (j + 1) - 1 = j
      BY <1>1
    <3> QED  BY <1>4, <2>1, <2>2, <3>1
  <2>4. t = u
    BY <1>1, <2>1, <2>2, <2>3, SeqEqual DEF Text
  <2> QED  BY <2>4 DEF t
<1> QED  BY <1>4, <1>5, <1>6, <1>7, <1>8 DEF u, w

LEMMA HasItself ==
    ASSUME NEW u \in Text
    PROVE  Has(u, 1, u)
<1>1. Len(u) \in Nat
  BY LenText
<1>2. 1 + Len(u) - 1 <= Len(u) /\ \A i \in 1 .. Len(u) : 1 + i - 1 = i
  BY <1>1
<1> QED  BY <1>2 DEF Has

\* A member begins with the quote of its key.
LEMMA MemberFirst ==
    ASSUME NEW key \in Text, NEW value \in Text
    PROVE  Len(Member(key, value)) # 0 /\ Member(key, value)[1] = Quote
<1> DEFINE w == Member(key, value)
<1>1. w \in Text
  BY MemberType
<1>2. Has(w, 1, w)
  BY <1>1, HasItself
<1>3. Has(w, 1, Quoted(key))
  BY <1>1, <1>2, MemberHas
<1> HIDE DEF w
<1>4. 1 \in 1 .. Len(w) /\ w[1] = Quote
  BY <1>1, <1>3, QuotedHas
<1>5. Len(w) # 0
  BY <1>1, <1>4, LenText
<1> QED  BY <1>4, <1>5 DEF w

\* A member stands in s at p, in front of a comma or a brace; behind it a reader is at r.
MemberAt(s, p, key, value, r) ==
    /\ Has(s, p, Member(key, value))
    /\ p + Len(Member(key, value)) \in 1 .. Len(s)
    /\ s[p + Len(Member(key, value))] \in Separators
    /\ SkipComma(s, p + Len(Member(key, value))) = r

\* Where its value stands
LEMMA MemberParts ==
    ASSUME NEW s \in Text, NEW p, NEW key \in Text, NEW value \in Text, NEW r,
           MemberAt(s, p, key, value, r)
    PROVE  \E t \in Nat, q \in 1 .. Len(s) :
              /\ t = p + Len(key) + 3
              /\ q = t + Len(value)
              /\ Has(s, t, value)
              /\ s[q] \in Separators
              /\ SkipComma(s, q) = r
              /\ s[p] = Quote
<1> DEFINE w == Member(key, value)
           t == p + Len(key) + 3
           q == p + Len(w)
<1>1. Len(w) = Len(key) + 3 + Len(value) /\ Len(key) \in Nat /\ Len(value) \in Nat
  BY MemberType
<1>2. /\ Has(s, p, w) /\ q \in 1 .. Len(s) /\ s[q] \in Separators /\ SkipComma(s, q) = r
  BY DEF MemberAt
<1>3. Has(s, p, Quoted(key)) /\ Has(s, t, value)
  BY <1>2, MemberHas
<1>4. p \in Nat
  BY <1>2 DEF Has
<1>5. s[p] = Quote
  BY <1>3, QuotedHas
<1> HIDE DEF w
<1>6. t \in Nat /\ q = t + Len(value)
  BY <1>1, <1>4
<1> HIDE DEF q
<1>7. t = p + Len(key) + 3
  OBVIOUS
<1> HIDE DEF t
<1> QED  BY <1>2, <1>3, <1>5, <1>6, <1>7

LEMMA SeparatorFacts ==
    \A c \in Separators : c \notin Digit /\ c \notin Space
BY DigitFacts, SpaceChars DEF Separators

LEMMA ClockMemberRead ==
    ASSUME NEW s \in Text, NEW p, NEW key \in Text, NEW m \in Nat, NEW r, NEW v,
           MemberAt(s, p, key, Decimal(m), r),
           AllIn(key, PlainChar), KEY_SIZE \in Nat \ {0}, Len(key) < KEY_SIZE
    PROVE  ClockMember(s, Done(v, p)) = Done(Append(v, <<key, m>>), r)
<1> DEFINE u == Decimal(m)
<1>1. u \in Text /\ Len(u) \in Nat \ {0} /\ AllIn(u, Digit)
  BY DecimalType
<1>2. PICK t \in Nat, q \in 1 .. Len(s) :
              /\ t = p + Len(key) + 3
              /\ q = t + Len(u)
              /\ Has(s, t, u)
              /\ s[q] \in Separators
              /\ SkipComma(s, q) = r
              /\ s[p] = Quote
  BY <1>1, MemberParts
<1>3. parse_json_number(s, t) = Done(m, q)
  <2>1. s[t + Len(u)] \notin Digit /\ t + Len(u) <= Len(s)
    BY <1>2, SeparatorFacts, LenText
  <2>2. parse_json_number(s, t) = Done(m, t + Len(u))
    BY <1>2, <2>1, NumRead
  <2> QED  BY <1>2, <2>2
<1>4. ParseKey(s, p, TRUE) = Done(key, t)
  <2>1. Has(s, p, Member(key, u))
    BY DEF MemberAt
  <2>2. Len(u) # 0 /\ u[1] \notin Space
    <3>1. 1 \in 1 .. Len(u)
      BY <1>1
    <3>2. u[1] \in Digit
      BY <1>1, <3>1 DEF AllIn
    <3> QED  BY <1>1, <3>2, DigitFacts
  <2> HIDE DEF u
  <2>3. ParseKey(s, p, TRUE) = Done(key, p + Len(key) + 3)
    BY <1>1, <2>1, <2>2, KeyRead
  <2> QED  BY <1>2, <2>3
<1> DEFINE r0 == Done(v, p)
           r1 == Done(key, t)
           r2 == Done(m, q)
<1>5. /\ r0.ok /\ r0.v = v /\ r0.p = p
      /\ r1.ok /\ r1.v = key /\ r1.p = t
      /\ r2.ok /\ r2.v = m /\ r2.p = q
  BY DEF Done
<1>6. ParseKey(s, p, TRUE) = r1 /\ parse_json_number(s, t) = r2
  BY <1>3, <1>4
<1>7. SkipComma(s, q) = r
  BY <1>2
<1>8. s[p] # "}" /\ s[p] # NUL
  BY <1>2 DEF Quote, NUL
<1> SUFFICES ClockMember(s, r0) = Done(Append(v, <<key, m>>), r)
  OBVIOUS
<1> HIDE DEF r0, r1, r2
<1> QED  BY <1>5, <1>6, <1>7, <1>8 DEF ClockMember, Then

\* What a reader of a clock has after k members
ClockRead(vc, k) == [j \in 1 .. k |-> <<ClockKey(j - 1), vc[j - 1]>>]

LEMMA ClockReadAppend ==
    ASSUME NEW n \in Nat, NEW vc \in Clock(n), NEW k \in 1 .. n
    PROVE  Append(ClockRead(vc, k - 1), <<ClockKey(k - 1), vc[k - 1]>>) = ClockRead(vc, k)
<1> DEFINE R == Text \X Nat
           item(j) == <<ClockKey(j - 1), vc[j - 1]>>
           t == ClockRead(vc, k - 1)
           u == ClockRead(vc, k)
           x == item(k)
           w == Append(t, x)
<1>1. \A j \in 1 .. k : item(j) \in R
  <2> TAKE j \in 1 .. k
  <2>1. j - 1 \in Nat /\ j - 1 \in 0 .. n - 1
    OBVIOUS
  <2>2. ClockKey(j - 1) \in Text
    BY <2>1, ClockKeyType
  <2>3. vc[j - 1] \in Nat
    BY <2>1 DEF Clock
  <2> QED  BY <2>2, <2>3
<1> HIDE DEF item
<1>2. t \in [1 .. k - 1 -> R] /\ \A j \in 1 .. k - 1 : t[j] = item(j)
  <2>1. t = [j \in 1 .. k - 1 |-> item(j)]
    BY DEF ClockRead, item
  <2>2. \A j \in 1 .. k - 1 : j \in 1 .. k
    OBVIOUS
  <2> HIDE DEF t, R
  <2> QED  BY <1>1, <2>1, <2>2
<1>3. u \in [1 .. k -> R] /\ \A j \in 1 .. k : u[j] = item(j)
  <2>1. u = [j \in 1 .. k |-> item(j)]
    BY DEF ClockRead, item
  <2> HIDE DEF u, R
  <2> QED  BY <1>1, <2>1
<1>4. x \in R
  <2>1. k \in 1 .. k
    OBVIOUS
  <2> QED  BY <1>1, <2>1
<1> HIDE DEF t, u, R, x
<1>5. t \in Seq(R) /\ Len(t) = k - 1 /\ u \in Seq(R) /\ Len(u) = k
  BY <1>2, <1>3
<1>6. /\ w \in Seq(R) /\ Len(w) = Len(t) + 1
      /\ \A j \in 1 .. Len(t) : w[j] = t[j]
      /\ w[Len(t) + 1] = x
  BY <1>4, <1>5, AppendProperties
<1> HIDE DEF w
<1>7. Len(w) = k /\ \A j \in 1 .. k - 1 : w[j] = t[j]
  BY <1>5, <1>6
<1>8. w[k] = x
  <2>1. Len(t) + 1 = k
    BY <1>5
  <2> QED  BY <1>6, <2>1
<1>9. \A j \in 1 .. k : w[j] = u[j]
  <2>1. \A j \in 1 .. k : j = k \/ j \in 1 .. k - 1
    OBVIOUS
  <2> QED  BY <1>2, <1>3, <1>7, <1>8, <2>1 DEF x
<1>10. w = u
  BY <1>5, <1>6, <1>7, <1>9, SeqEqual
<1> QED  BY <1>10 DEF w, u, t, x, item

LEMMA ClockFieldsType ==
    ASSUME NEW n \in Nat, NEW vc \in Clock(n)
    PROVE  /\ ClockFields(vc, n) \in Seq(Text)
           /\ Len(ClockFields(vc, n)) = n
           /\ \A k \in 1 .. n : /\ ClockFields(vc, n)[k] = ClockField(vc, k)
                                /\ ClockKey(k - 1) \in Text
                                /\ vc[k - 1] \in Nat
           /\ AreFields(ClockFields(vc, n))
<1> DEFINE fields == ClockFields(vc, n)
<1>1. ASSUME NEW k \in 1 .. n
      PROVE  /\ ClockKey(k - 1) \in Text
             /\ vc[k - 1] \in Nat
             /\ ClockField(vc, k) \in Text
             /\ Len(ClockField(vc, k)) # 0
             /\ ClockField(vc, k)[1] = Quote
  <2>1. k - 1 \in Nat /\ k - 1 \in 0 .. n - 1
    OBVIOUS
  <2>2. ClockKey(k - 1) \in Text /\ vc[k - 1] \in Nat
    BY <2>1, ClockKeyType DEF Clock
  <2>3. Decimal(vc[k - 1]) \in Text
    BY <2>2, DecimalType
  <2> QED  BY <2>2, <2>3, MemberType, MemberFirst DEF ClockField
<1>2. fields \in [1 .. n -> Text] /\ \A k \in 1 .. n : fields[k] = ClockField(vc, k)
  BY <1>1 DEF ClockFields
<1> HIDE DEF fields
<1>3. fields \in Seq(Text) /\ Len(fields) = n
  BY <1>2
<1>4. AreFields(fields)
  BY <1>1, <1>2, <1>3 DEF AreFields
<1> QED  BY <1>1, <1>2, <1>3, <1>4 DEF fields

\* The members of a clock are read as they were written.
LEMMA ClockMembersRead ==
    ASSUME NEW s \in Text, NEW p, NEW n \in Nat, n <= VC_MAX_NODES, NEW vc \in Clock(n),
           KEY_SIZE \in Nat, KEY_SIZE >= 4,
           FieldsAt(s, p, ClockFields(vc, n))
    PROVE  ClockMembers(s, p)
               = Done(ClockRead(vc, n), p + Len(Commas(ClockFields(vc, n))) + 1)
<1> DEFINE fields == ClockFields(vc, n)
           last == p + Len(Commas(fields))
           room == VC_MAX_NODES
<1>1. /\ fields \in Seq(Text) /\ Len(fields) = n /\ AreFields(fields)
      /\ \A k \in 1 .. n : /\ fields[k] = ClockField(vc, k)
                           /\ ClockKey(k - 1) \in Text
                           /\ vc[k - 1] \in Nat
  BY ClockFieldsType
<1>2. FieldsAt(s, p, fields)
  OBVIOUS
<1>3. s[last] = "}"
  BY <1>2 DEF FieldsAt
<1> HIDE DEF fields
<1>4. PICK b : Listed(s, b, fields) /\ b[0] = p /\ b[n] = last
  BY <1>1, <1>2, FieldsListed
<1>5. ASSUME NEW k \in 1 .. n, NEW v
      PROVE  ClockMember(s, Done(v, b[k - 1]))
                 = Done(Append(v, <<ClockKey(k - 1), vc[k - 1]>>), b[k])
  <2> DEFINE key == ClockKey(k - 1)
             m == vc[k - 1]
  <2>1. key \in Text /\ m \in Nat /\ fields[k] = Member(key, Decimal(m))
    BY <1>1 DEF ClockField
  <2>2. AllIn(key, PlainChar) /\ KEY_SIZE \in Nat \ {0} /\ Len(key) < KEY_SIZE
    <3>1. k - 1 \in 0 .. 99 /\ k - 1 \in Nat
      BY DEF VC_MAX_NODES
    <3>2. Len(key) = 1 + Len(Decimal(k - 1)) /\ AllIn(key, PlainChar)
      BY <3>1, ClockKeyType
    <3>3. Len(Decimal(k - 1)) <= 2 /\ Len(Decimal(k - 1)) \in Nat
      BY <3>1, ShortDecimal, DecimalType
    <3> HIDE DEF key
    <3>4. \A i \in Nat : i <= 2 => 1 + i < KEY_SIZE
      OBVIOUS
    <3> QED  BY <3>2, <3>3, <3>4
  <2>3. MemberAt(s, b[k - 1], key, Decimal(m), b[k])
    BY <1>1, <1>4, <2>1 DEF Listed, MemberAt
  <2> HIDE DEF key, m
  <2>4. ClockMember(s, Done(v, b[k - 1])) = Done(Append(v, <<key, m>>), b[k])
    BY <2>1, <2>2, <2>3, ClockMemberRead
  <2> QED  BY <2>4 DEF key, m
<1>6. room \in Nat /\ n <= room
  BY DEF VC_MAX_NODES
<1>7. ClockRead(vc, 0) = <<>>
  BY DEF ClockRead
<1> HIDE DEF last, room
<1> DEFINE w == [k \in 0 .. room |-> IF k <= n THEN Done(ClockRead(vc, k), b[k])
                                     ELSE Done(ClockRead(vc, n), last)]
           Body(f, k) == IF k = 0 THEN Done(<<>>, p) ELSE ClockMember(s, f[k - 1])
           read == CHOOSE f : f = [k \in 0 .. room |-> Body(f, k)]
<1>8. w[0] = Done(<<>>, p) /\ w[room] = Done(ClockRead(vc, n), last)
  <2>1. 0 <= n /\ 0 \in 0 .. room /\ room \in 0 .. room
    BY <1>6
  <2>2. w[0] = Done(<<>>, p)
    BY <1>4, <1>7, <2>1
  <2>3. w[room] = Done(ClockRead(vc, n), last)
    <3>1. room <= n => room = n
      BY <1>6
    <3> QED  BY <1>4, <2>1, <3>1
  <2> QED  BY <2>2, <2>3
<1>9. ASSUME NEW k \in 1 .. room
      PROVE  w[k] = ClockMember(s, w[k - 1])
  <2>1. k \in 0 .. room /\ k - 1 \in 0 .. room
    BY <1>6
  <2>2. CASE k <= n
    <3>1. k \in 1 .. n /\ k - 1 <= n
      BY <1>6, <2>2
    <3>2. w[k - 1] = Done(ClockRead(vc, k - 1), b[k - 1]) /\ w[k] = Done(ClockRead(vc, k), b[k])
      BY <2>1, <2>2, <3>1
    <3> HIDE DEF w
    <3> QED  BY <1>5, <3>1, <3>2, ClockReadAppend
  <2>3. CASE ~(k <= n)
    <3>1. w[k] = Done(ClockRead(vc, n), last)
      BY <2>1, <2>3
    <3>2. w[k - 1] = Done(ClockRead(vc, n), last)
      <4>1. k - 1 <= n => k - 1 = n
        BY <1>6, <2>3
      <4> QED  BY <1>4, <2>1, <4>1
    <3>3. ClockMember(s, Done(ClockRead(vc, n), last)) = Done(ClockRead(vc, n), last)
      BY <1>3 DEF ClockMember, Done
    <3> HIDE DEF w
    <3> QED  BY <3>1, <3>2, <3>3
  <2> QED  BY <2>2, <2>3
<1>10. w = [k \in 0 .. room |-> Body(w, k)]
  <2>1. \A k \in 0 .. room : w[k] = Body(w, k)
    <3>1. \A k \in 0 .. room : k # 0 => k \in 1 .. room
      BY <1>6
    <3> HIDE DEF w
    <3> QED  BY <1>8, <1>9, <3>1
  <2>2. w = [k \in 0 .. room |-> w[k]]
    OBVIOUS
  <2> HIDE DEF Body, w
  <2> QED  BY <2>1, <2>2
<1> HIDE DEF w
<1>11. read = [k \in 0 .. room |-> Body(read, k)]
  <2> HIDE DEF Body
  <2> QED  BY <1>10
<1>12. ClockMembers(s, p) = Then(read[room],
           LAMBDA v, q : IF s[q] = "}" THEN Done(v, q + 1) ELSE Failed)
  BY DEF ClockMembers, room
<1> HIDE DEF read
<1>13. read[room] = w[room]
  <2>1. \A k \in 0 .. room : read[k] = Body(read, k)
    <3> HIDE DEF Body
    <3> QED  BY <1>11
  <2>2. 0 \in 0 .. room /\ room \in 0 .. room /\ \A k \in 1 .. room : k \in 0 .. room /\ k # 0
    BY <1>6
  <2>3. read[0] = Done(<<>>, p) /\ \A k \in 1 .. room : read[k] = ClockMember(s, read[k - 1])
    BY <2>1, <2>2
  <2>4. InStep(read, w, room)
    BY <1>8, <1>9, <2>3 DEF InStep
  <2>5. Agree(read, w, room)
    BY <1>6, <2>4, LoopsAgree
  <2> QED  BY <2>2, <2>5 DEF Agree
<1> DEFINE r == Done(ClockRead(vc, n), last)
<1>14. r.ok /\ r.v = ClockRead(vc, n) /\ r.p = last /\ read[room] = r
  BY <1>8, <1>13 DEF Done
<1> HIDE DEF r
<1>15. ClockMembers(s, p) = Done(ClockRead(vc, n), last + 1)
  BY <1>3, <1>12, <1>14 DEF Then
<1> QED  BY <1>15 DEF last, fields

\* An object, given its members
Braced(u) == <<"{">> \o u \o <<"}">>

LEMMA BracesType ==
    /\ <<"{">> \in Text /\ Len(<<"{">>) = 1 /\ <<"{">>[1] = "{"
    /\ <<"}">> \in Text /\ Len(<<"}">>) = 1 /\ <<"}">>[1] = "}"
<1>1. "{" \in Char /\ "}" \in Char
  BY DEF Char, Written
<1> QED  BY <1>1, OneChar

LEMMA BracedType ==
    ASSUME NEW u \in Text
    PROVE  Braced(u) \in Text /\ Len(Braced(u)) = Len(u) + 2 /\ Len(u) \in Nat
<1> DEFINE open == <<"{">>
           close == <<"}">>
           w == open \o u
<1>1. open \in Text /\ Len(open) = 1 /\ close \in Text /\ Len(close) = 1
  BY BracesType
<1>2. Braced(u) = w \o close
  BY DEF Braced
<1> HIDE DEF open, close
<1>3. w \in Text /\ Len(w) = 1 + Len(u) /\ Len(u) \in Nat
  <2>1. w \in Text /\ Len(w) = Len(open) + Len(u) /\ Len(u) \in Nat
    BY <1>1, TextTypes
  <2> QED  BY <1>1, <2>1
<1> HIDE DEF w
<1>4. w \o close \in Text /\ Len(w \o close) = Len(w) + Len(close)
  BY <1>1, <1>3, TextTypes
<1>5. \A i \in Nat : (1 + i) + 1 = i + 2
  OBVIOUS
<1> QED  BY <1>1, <1>2, <1>3, <1>4, <1>5

LEMMA BracedHas ==
    ASSUME NEW s \in Text, NEW p, NEW u \in Text, Has(s, p, Braced(u))
    PROVE  /\ p \in 1 .. Len(s) /\ s[p] = "{"
           /\ Has(s, p + 1, u)
           /\ p + 1 + Len(u) \in 1 .. Len(s) /\ s[p + 1 + Len(u)] = "}"
<1> DEFINE open == <<"{">>
           close == <<"}">>
           w == open \o u
<1>0. open \in Text /\ Len(open) = 1 /\ close \in Text
  BY BracesType
<1>1. w \in Text /\ Len(w) = 1 + Len(u) /\ Len(u) \in Nat
  <2> HIDE DEF open
  <2>1. w \in Text /\ Len(w) = Len(open) + Len(u) /\ Len(u) \in Nat
    BY <1>0, TextTypes
  <2> QED  BY <1>0, <2>1
<1>2. p \in Nat \ {0} /\ Len(s) \in Nat
  BY LenText DEF Has
<1>3. Has(s, p, w \o close)
  BY DEF Braced
<1> HIDE DEF open, close
<1>4. Has(s, p, open) /\ Has(s, p + 1, u) /\ Has(s, p + Len(w), close)
  <2> HIDE DEF w
  <2>1. Has(s, p, w) /\ Has(s, p + Len(w), close)
    BY <1>0, <1>1, <1>3, HasConcat
  <2>2. Has(s, p, open \o u)
    BY <2>1 DEF w
  <2>3. Has(s, p, open) /\ Has(s, p + Len(open), u)
    BY <1>0, <2>2, HasConcat
  <2> QED  BY <1>0, <2>1, <2>3
<1>5. p <= Len(s) /\ s[p] = "{"
  BY <1>2, <1>4, HasOne DEF open
<1>6. p + Len(w) = p + 1 + Len(u) /\ p + 1 + Len(u) \in Nat \ {0}
  BY <1>1, <1>2
<1> HIDE DEF w
<1>7. p + 1 + Len(u) <= Len(s) /\ s[p + 1 + Len(u)] = "}"
  BY <1>4, <1>6, HasOne DEF close
<1>8. p \in 1 .. Len(s) /\ p + 1 + Len(u) \in 1 .. Len(s)
  <2>1. \A x \in Nat \ {0}, l \in Nat : x <= l => x \in 1 .. l
    OBVIOUS
  <2>2. p \in 1 .. Len(s)
    BY <1>2, <1>5, <2>1
  <2>3. p + 1 + Len(u) \in 1 .. Len(s)
    BY <1>2, <1>6, <1>7, <2>1
  <2> QED  BY <2>2, <2>3
<1> QED  BY <1>4, <1>5, <1>7, <1>8

LEMMA CStringHas ==
    ASSUME NEW u \in Text, NEW behind \in Text
    PROVE  /\ CString(u, behind) \in Text
           /\ Has(CString(u, behind), 1, u)
           /\ Len(u) + 1 \in 1 .. Len(CString(u, behind))
           /\ CString(u, behind)[Len(u) + 1] = NUL
<1> DEFINE nul == <<NUL>>
           v == u \o nul
           w == v \o behind
           x == w \o nul
<1>1. nul \in Text
  BY NulType
<1>2. CString(u, behind) = x
  BY DEF CString
<1> HIDE DEF nul
<1>3. v \in Text /\ Has(v, 1, u) /\ Has(v, 1 + Len(u), nul) /\ Len(u) \in Nat
  BY <1>1, HasSelf, LenText
<1>4. x \in Text /\ Has(x, 1, v)
  <2> HIDE DEF v
  <2>1. w \in Text
    BY <1>3, TextTypes
  <2> HIDE DEF w
  <2>2. x \in Text /\ Has(x, 1, w)
    BY <1>1, <2>1, HasSelf
  <2> HIDE DEF x
  <2>3. Has(x, 1, v \o behind)
    BY <2>2 DEF w
  <2> QED  BY <1>3, <2>2, <2>3, HasConcat
<1> HIDE DEF x
<1>5. Has(x, 1, u) /\ Has(x, 1 + Len(u), nul)
  BY <1>1, <1>4, HasConcat DEF v
<1>6. 1 + Len(u) \in Nat \ {0} /\ 1 + Len(u) = Len(u) + 1 /\ Len(x) \in Nat
  BY <1>3, <1>4, LenText
<1>7. 1 + Len(u) <= Len(x) /\ x[1 + Len(u)] = NUL
  BY <1>4, <1>5, <1>6, HasOne DEF nul
<1>8. Len(u) + 1 \in 1 .. Len(x)
  BY <1>3, <1>6, <1>7
<1> QED  BY <1>2, <1>4, <1>5, <1>6, <1>7, <1>8

\* A list of fields begins with no space.
LEMMA FieldsFirst ==
    ASSUME NEW s \in Text, NEW p, NEW fields \in Seq(Text), AreFields(fields),
           FieldsAt(s, p, fields)
    PROVE  p \in 1 .. Len(s) /\ s[p] \notin Space /\ skip_ws(s, p) = p
<1> DEFINE n == Len(fields)
           last == p + Len(Commas(fields))
<1>1. n \in Nat /\ \A k \in 1 .. n : fields[k] \in Text
  BY LenProperties, ElementOfSeq
<1>2. PICK b : Listed(s, b, fields) /\ b[0] = p /\ b[n] = last
  BY FieldsListed
<1>3. last \in 1 .. Len(s) /\ s[last] = "}"
  BY DEF FieldsAt
<1> HIDE DEF n, last
<1>4. p \in 1 .. Len(s) /\ s[p] \notin Space
  <2>1. CASE n = 0
    BY <1>2, <1>3, <2>1, SpaceChars
  <2>2. CASE n # 0
    <3> DEFINE u == fields[1]
    <3>1. 1 \in 1 .. n /\ 1 - 1 = 0
      BY <1>1, <2>2
    <3>2. u \in Text /\ Has(s, p, u) /\ Len(u) # 0 /\ u[1] = Quote
      <4>1. Has(s, b[1 - 1], fields[1])
        BY <1>2, <3>1 DEF Listed, n
      <4> QED  BY <1>1, <1>2, <3>1, <4>1 DEF AreFields, n
    <3> HIDE DEF u
    <3>3. Len(u) \in Nat \ {0} /\ Len(s) \in Nat /\ p \in Nat \ {0} /\ p + Len(u) - 1 <= Len(s)
      BY <3>2, LenText DEF Has
    <3>4. 1 \in 1 .. Len(u) /\ p + 1 - 1 = p
      BY <3>3
    <3>5. s[p] = u[1]
      BY <3>2, <3>4 DEF Has
    <3>6. p \in 1 .. Len(s)
      <4> DEFINE i == Len(u)
                 l == Len(s)
      <4>1. i \in Nat \ {0} /\ l \in Nat /\ p \in Nat \ {0} /\ p + i - 1 <= l
        BY <3>3
      <4> HIDE DEF i, l
      <4>2. p \in 1 .. l
        BY <4>1
      <4> QED  BY <4>2 DEF l
    <3> QED  BY <3>2, <3>5, <3>6, SpaceChars
  <2> QED  BY <2>1, <2>2
<1> QED  BY <1>4, NoSpace

\* The members of a clock make the clock, whatever the reader had.
LEMMA ComponentsRead ==
    ASSUME NEW n \in Nat, NEW vc \in Clock(n), NEW old
    PROVE  Components(old, ClockRead(vc, n)) = vc
<1> DEFINE members == ClockRead(vc, n)
           Sets(i) == {k \in DOMAIN members : /\ members[k][1] # <<>>
                                              /\ members[k][1][1] = "node-"
                                              /\ atoi(Tail(members[k][1])) = i}
<1>1. /\ DOMAIN members = 1 .. n
      /\ \A k \in 1 .. n : members[k] = <<ClockKey(k - 1), vc[k - 1]>>
  BY DEF ClockRead
<1>2. Len(members) = n
  BY DEF ClockRead
<1>3. \A k \in 1 .. n : /\ members[k][1] # <<>>
                        /\ members[k][1][1] = "node-"
                        /\ atoi(Tail(members[k][1])) = k - 1
                        /\ members[k][2] = vc[k - 1]
  <2> TAKE k \in 1 .. n
  <2>1. k - 1 \in Nat
    OBVIOUS
  <2> DEFINE key == ClockKey(k - 1)
             m == vc[k - 1]
  <2>2. key # <<>> /\ key[1] = "node-" /\ atoi(Tail(key)) = k - 1
    BY <2>1, ClockKeyType, AtoiDecimal
  <2> HIDE DEF key, m
  <2>3. members[k] = <<key, m>>
    BY <1>1 DEF key, m
  <2>4. members[k][1] = key /\ members[k][2] = m
    BY <2>3
  <2> QED  BY <2>2, <2>4 DEF m
<1> HIDE DEF members
<1>4. ASSUME NEW i \in 0 .. n - 1
      PROVE  Sets(i) # {} /\ members[Max(Sets(i))][2] = vc[i]
  <2>1. i + 1 \in 1 .. n /\ (i + 1) - 1 = i /\ \A k \in 1 .. n : k - 1 = i => k = i + 1
    OBVIOUS
  <2>2. Sets(i) = {i + 1}
    BY <1>1, <1>3, <2>1
  <2> HIDE DEF Sets
  <2>3. Max({i + 1}) = i + 1
    <3>1. \A y \in {i + 1} : y <= i + 1
      OBVIOUS
    <3> QED  BY <3>1 DEF Max
  <2>4. members[i + 1][2] = vc[i]
    BY <1>3, <2>1
  <2> QED  BY <2>2, <2>3, <2>4
<1>5. Components(old, members) = [i \in 0 .. n - 1 |-> vc[i]]
  <2>1. Components(old, members)
            = [i \in 0 .. Len(members) - 1 |->
                  IF Sets(i) = {} THEN At(old, i) ELSE members[Max(Sets(i))][2]]
    BY DEF Components
  <2> HIDE DEF Sets
  <2>2. Components(old, members)
            = [i \in 0 .. n - 1 |->
                  IF Sets(i) = {} THEN At(old, i) ELSE members[Max(Sets(i))][2]]
    BY <1>2, <2>1
  <2> QED  BY <1>4, <2>2
<1>6. vc = [i \in 0 .. n - 1 |-> vc[i]]
  BY DEF Clock
<1> QED  BY <1>5, <1>6 DEF members

LEMMA ClockText ==
    ASSUME NEW n \in Nat, NEW vc \in Clock(n)
    PROVE  vc_to_json(vc) = Braced(Commas(ClockFields(vc, n)))
<1>1. Cardinality(DOMAIN vc) = n
  <2>1. DOMAIN vc = 0 .. n - 1
    BY DEF Clock
  <2>2. 0 \in Int /\ n - 1 \in Int
    OBVIOUS
  <2>3. Cardinality(0 .. n - 1) = IF 0 > n - 1 THEN 0 ELSE (n - 1) - 0 + 1
    BY <2>2, FS_Interval
  <2>4. n = 0 \/ (~(0 > n - 1) /\ (n - 1) - 0 + 1 = n)
    OBVIOUS
  <2>5. n = 0 => 0 > n - 1
    OBVIOUS
  <2> QED  BY <2>1, <2>3, <2>4, <2>5
<1>2. ClockFields(vc, n) = [i \in 1 .. Cardinality(DOMAIN vc) |->
                               Member(<<"node-">> \o Decimal(i - 1), Decimal(vc[i - 1]))]
  BY <1>1 DEF ClockFields, ClockField, ClockKey
<1> QED  BY <1>2 DEF vc_to_json, Braced

\* A clock that is written is read as it was (vector_clock.c), whatever its values.
THEOREM ClockRoundTrip ==
    ASSUME KEY_SIZE \in Nat, KEY_SIZE >= 4,
           NEW n \in Nat, n <= VC_MAX_NODES, NEW vc \in Clock(n), NEW old
    PROVE  vc_from_json(old, vc_to_json(vc)) = vc
<1> DEFINE fields == ClockFields(vc, n)
           u == Commas(fields)
           t == Braced(u)
           s == CString(t, <<>>)
<1>1. fields \in Seq(Text) /\ Len(fields) = n /\ AreFields(fields)
  BY ClockFieldsType
<1>2. u \in Text
  <2>1. AllIn(Comma, Char) /\ \A k \in 1 .. Len(fields) : AllIn(fields[k], Char)
    BY <1>1, CommaType, ElementOfSeq DEF AllIn, Text
  <2> HIDE DEF fields
  <2> QED  BY <1>1, <2>1, CommasAllIn
<1>3. vc_to_json(vc) = t
  BY ClockText
<1> HIDE DEF u
<1>4. t \in Text
  BY <1>2, BracedType
<1>5. s \in Text /\ Has(s, 1, t)
  <2> HIDE DEF t
  <2> QED  BY <1>4, NoChar, CStringHas
<1>6. vc_from_json(old, t) =
          LET p == skip_ws(s, 1)
              r == IF s[p] = "{" THEN ClockMembers(s, skip_ws(s, p + 1)) ELSE Failed
          IN  IF r.ok THEN Components(old, r.v) ELSE old
  BY DEF vc_from_json
<1> HIDE DEF s
<1>7. /\ 1 \in 1 .. Len(s) /\ s[1] = "{"
      /\ Has(s, 1 + 1, u)
      /\ 1 + 1 + Len(u) \in 1 .. Len(s) /\ s[1 + 1 + Len(u)] = "}"
  BY <1>2, <1>5, BracedHas
<1>8. FieldsAt(s, 2, fields)
  <2>1. 1 + 1 = 2 /\ 2 \in Nat \ {0}
    OBVIOUS
  <2> QED  BY <1>7, <2>1 DEF FieldsAt, u
<1>9. skip_ws(s, 1) = 1
  BY <1>5, <1>7, NoSpace, SpaceChars
<1>10. skip_ws(s, 2) = 2
  <2> HIDE DEF fields
  <2> QED  BY <1>1, <1>5, <1>8, FieldsFirst
<1>11. ClockMembers(s, 2) = Done(ClockRead(vc, n), 2 + Len(u) + 1)
  BY <1>5, <1>8, ClockMembersRead DEF u
<1> DEFINE r == Done(ClockRead(vc, n), 2 + Len(u) + 1)
<1>12. r.ok /\ r.v = ClockRead(vc, n) /\ ClockMembers(s, 2) = r
  BY <1>11 DEF Done
<1> HIDE DEF r, t
<1>13. 1 + 1 = 2
  OBVIOUS
<1>14. vc_from_json(old, t) = Components(old, ClockRead(vc, n))
  BY <1>6, <1>7, <1>9, <1>10, <1>12, <1>13
<1> QED  BY <1>3, <1>14, ComponentsRead

-----------------------------------------------------------------------------
(***************************************************************************)
(* Values nobody reads: what brackets enclose, and words.                    *)
(***************************************************************************)

\* u begins with a bracket, and its last character closes it.
Closed(u, open, close) ==
    /\ u \in Text /\ Len(u) # 0 /\ AllIn(u, Char \ {NUL})
    /\ Depth(u, open, close) <= 0
    /\ \A k \in 1 .. Len(u) - 1 : Depth(SubSeq(u, 1, k), open, close) > 0

LEMMA PieceOf ==
    ASSUME NEW s \in Text, NEW p, NEW u \in Text, Has(s, p, u), NEW k \in 0 .. Len(u)
    PROVE  SubSeq(s, p, p + k - 1) = SubSeq(u, 1, k)
<1>1. /\ p \in Nat \ {0} /\ Len(s) \in Nat /\ Len(u) \in Nat
      /\ p + Len(u) - 1 <= Len(s)
      /\ \A i \in 1 .. Len(u) : s[p + i - 1] = u[i]
  BY LenText DEF Has
<1> DEFINE q == p + k - 1
           v == SubSeq(s, p, q)
           w == SubSeq(u, 1, k)
<1>2. k \in Nat /\ q \in Int /\ q >= p - 1 /\ q <= Len(s) /\ k <= Len(u)
  <2> DEFINE i == Len(u)
             l == Len(s)
  <2>1. i \in Nat /\ l \in Nat /\ p \in Nat \ {0} /\ p + i - 1 <= l /\ k \in 0 .. i
    BY <1>1
  <2> HIDE DEF i, l
  <2>2. k \in Nat /\ q \in Int /\ q >= p - 1 /\ q <= l /\ k <= i
    BY <2>1
  <2> QED  BY <2>2 DEF i, l
<1>3. v \in Text /\ Len(v) = k /\ \A i \in 1 .. k : v[i] = s[p + i - 1]
  <2> DEFINE l == Len(s)
  <2>1. \A i \in 1 .. l : s[i] \in Char
    BY ElementOfSeq DEF Text
  <2>2. l \in Nat /\ s \in Seq(Char) /\ p \in 1 .. l + 1 /\ q \in (p - 1) .. l
    BY <1>1, <1>2 DEF Text
  <2> HIDE DEF q
  <2>3. /\ v \in Seq(Char)
        /\ Len(v) = IF p <= q THEN q - p + 1 ELSE 0
        /\ \A i \in 1 .. q - p + 1 : v[i] = s[p + i - 1]
    BY <2>2, SubSeqProperties
  <2>4. q - p + 1 = k /\ (~(p <= q) => k = 0)
    BY <1>1, <1>2 DEF q
  <2> QED  BY <2>3, <2>4 DEF Text
<1>4. w \in Text /\ Len(w) = k /\ \A i \in 1 .. k : w[i] = u[i]
  BY <1>1, <1>2, SubSeqProperties DEF Text
<1>5. \A i \in 1 .. k : i \in 1 .. Len(u)
  BY <1>1, <1>2
<1> HIDE DEF v, w
<1>6. \A i \in 1 .. k : v[i] = w[i]
  BY <1>1, <1>3, <1>4, <1>5
<1>7. v = w
  BY <1>3, <1>4, <1>6, SeqEqual DEF Text
<1> QED  BY <1>7 DEF v, w, q

LEMMA WholePiece ==
    ASSUME NEW u \in Text
    PROVE  SubSeq(u, 1, Len(u)) = u
<1> DEFINE w == SubSeq(u, 1, Len(u))
<1>1. Len(u) \in Nat
  BY LenText
<1>2. w \in Text /\ Len(w) = Len(u) /\ \A i \in 1 .. Len(u) : w[i] = u[i]
  BY <1>1, SubSeqProperties DEF Text
<1> HIDE DEF w
<1>3. w = u
  BY <1>2, SeqEqual DEF Text
<1> QED  BY <1>3 DEF w

LEMMA HasWhole ==
    ASSUME NEW s \in Text, NEW p, NEW u \in Text, Has(s, p, u)
    PROVE  SubSeq(s, p, p + Len(u) - 1) = u
<1>1. Len(u) \in 0 .. Len(u)
  BY LenText
<1>2. SubSeq(s, p, p + Len(u) - 1) = SubSeq(u, 1, Len(u))
  BY <1>1, PieceOf
<1> QED  BY <1>2, WholePiece

\* What brackets enclose is skipped, and nothing more.
LEMMA NestedSkipped ==
    ASSUME NEW s \in Text, NEW p, NEW u, NEW open, NEW close, Closed(u, open, close),
           Has(s, p, u), p + Len(u) \in 1 .. Len(s)
    PROVE  SkipNested(s, p, open, close) = p + Len(u)
<1> DEFINE Ends(q) == s[q + 1] = NUL \/ Depth(SubSeq(s, p, q), open, close) <= 0
           P(q) == Ends(q) /\ \A j \in p .. q - 1 : ~Ends(j)
           n == Len(u)
           l == Len(s)
           found == CHOOSE q \in p .. l - 1 : P(q)
           last == p + n - 1
<1>1. /\ u \in Text /\ n \in Nat \ {0} /\ AllIn(u, Char \ {NUL})
      /\ Depth(u, open, close) <= 0
      /\ \A k \in 1 .. n - 1 : Depth(SubSeq(u, 1, k), open, close) > 0
  BY LenText DEF Closed
<1>2. p \in Nat \ {0} /\ l \in Nat /\ \A i \in 1 .. n : s[p + i - 1] = u[i]
  BY LenText DEF Has
<1>3. SkipNested(s, p, open, close) = 1 + found
  BY DEF SkipNested
<1>4. p + n \in 1 .. l
  OBVIOUS
<1> HIDE DEF n, l
<1>5. last \in p .. l - 1 /\ last + 1 = p + n
  BY <1>1, <1>2, <1>4
<1>6. Ends(last)
  <2>1. SubSeq(s, p, last) = u
    BY <1>1, HasWhole DEF n
  <2> QED  BY <1>1, <2>1
<1>7. ASSUME NEW j \in p .. last - 1
      PROVE  ~Ends(j)
  <2> DEFINE k == j - p + 1
  <2>1. k \in 1 .. n - 1 /\ k \in 0 .. n /\ j = p + k - 1 /\ k + 1 \in 1 .. n
        /\ j + 1 = p + (k + 1) - 1
    BY <1>1, <1>2
  <2> HIDE DEF k
  <2>2. SubSeq(s, p, j) = SubSeq(u, 1, k)
    BY <1>1, <2>1, PieceOf DEF n
  <2>3. s[j + 1] = u[k + 1]
    BY <1>2, <2>1
  <2>4. u[k + 1] # NUL
    BY <1>1, <2>1 DEF AllIn, n
  <2>5. Depth(SubSeq(u, 1, k), open, close) > 0
    BY <1>1, <2>1
  <2> DEFINE d == Depth(SubSeq(u, 1, k), open, close)
  <2>6. d \in Int
    <3>1. IsFiniteSet(DOMAIN SubSeq(u, 1, k))
      <4>1. SubSeq(u, 1, k) \in Seq(Char)
        <5>1. k \in 1 .. Len(u)
          BY <1>1, <2>1 DEF n
        <5>2. \A i \in 1 .. k : u[i] \in Char
          <6>1. \A i \in 1 .. k : i \in 1 .. Len(u)
            BY <1>1, <2>1 DEF n
          <6> QED  BY <1>1, <6>1, ElementOfSeq DEF Text
        <5> QED  BY <1>1, <5>1, <5>2, SubSeqProperties DEF Text
      <4>2. Len(SubSeq(u, 1, k)) \in Nat /\ DOMAIN SubSeq(u, 1, k) = 1 .. Len(SubSeq(u, 1, k))
        BY <4>1, LenProperties
      <4>3. \A i \in Nat : IsFiniteSet(1 .. i)
        <5> TAKE i \in Nat
        <5>1. 1 \in Int /\ i \in Int
          OBVIOUS
        <5> QED  BY <5>1, FS_Interval
      <4> QED  BY <4>2, <4>3
    <3> DEFINE D == DOMAIN SubSeq(u, 1, k)
               v == SubSeq(u, 1, k)
    <3>2. \A c : {i \in D : v[i] = c} \subseteq D
      OBVIOUS
    <3>3. \A c : Cardinality({i \in D : v[i] = c}) \in Nat
      BY <3>1, <3>2, FS_Subset, FS_CardinalityType
    <3>4. \A x \in Nat, y \in Nat : x - y \in Int
      OBVIOUS
    <3> QED  BY <3>3, <3>4 DEF Depth
  <2>7. ~(d <= 0)
    <3>1. d > 0
      BY <2>5
    <3> HIDE DEF d
    <3> QED  BY <2>6, <3>1
  <2> QED  BY <2>2, <2>3, <2>4, <2>7
<1> HIDE DEF Ends, last
<1>8. P(last)
  BY <1>6, <1>7
<1>9. ASSUME NEW x \in p .. l - 1, P(x)
      PROVE  x = last
  <2>1. ~(x < last)
    <3> SUFFICES ASSUME x < last PROVE FALSE
      OBVIOUS
    <3>1. x \in p .. last - 1
      BY <1>2, <1>5
    <3> QED  BY <3>1, <1>7, <1>9
  <2>2. ~(last < x)
    <3> SUFFICES ASSUME last < x PROVE FALSE
      OBVIOUS
    <3>1. last \in p .. x - 1
      BY <1>2, <1>5
    <3> QED  BY <3>1, <1>6, <1>9
  <2> QED  BY <2>1, <2>2, <1>2, <1>5
<1>10. found = last
  <2> HIDE DEF P
  <2>1. found \in p .. l - 1 /\ P(found)
    BY <1>5, <1>8
  <2> QED  BY <1>9, <2>1
<1> HIDE DEF found
<1> QED  BY <1>1, <1>2, <1>3, <1>5, <1>10 DEF n, last

\* The characters of an object that has no object in it
InnerChar == Char \ {"{", "}", NUL}

LEMMA InnerFacts ==
    /\ Quote \in InnerChar /\ Backslash \in InnerChar
    /\ AllIn(Comma, InnerChar) /\ AllIn(Colon, InnerChar) /\ AllIn(NodeWord, InnerChar)
    /\ Digit \subseteq InnerChar
    /\ \A c \in InnerChar : AllIn(Escaped(c), InnerChar)
<1> DEFINE comma == ","
           colon == ":"
           node == "node-"
<1>1. /\ Quote \in InnerChar /\ Backslash \in InnerChar
      /\ comma \in InnerChar /\ colon \in InnerChar /\ node \in InnerChar
  BY DEF InnerChar, Char, Written, Quote, Backslash, NUL
<1>2. Comma[1] = comma /\ Colon[1] = colon /\ NodeWord[1] = node
  BY CommaType, ColonType, NodeWordType
<1> HIDE DEF comma, colon, node
<1>3. AllIn(Comma, InnerChar) /\ AllIn(Colon, InnerChar) /\ AllIn(NodeWord, InnerChar)
  <2>1. \A i \in 1 .. 1 : i = 1
    OBVIOUS
  <2> QED  BY <1>1, <1>2, <2>1, CommaType, ColonType, NodeWordType DEF AllIn
<1>4. Digit \subseteq InnerChar
  BY DigitFacts DEF InnerChar, PlainChar
<1>5. ASSUME NEW c \in InnerChar
      PROVE  AllIn(Escaped(c), InnerChar)
  <2>1. c \in Char
    BY DEF InnerChar
  <2>2. c \in DOMAIN Escape => Escape[c] \in InnerChar
    BY DEF InnerChar, Char, Written, Escape, Quote, Backslash, NUL
  <2>3. CASE c \in DOMAIN Escape
    <3>1. Len(Escaped(c)) = 2 /\ Escaped(c)[1] = Backslash /\ Escaped(c)[2] = Escape[c]
      BY <2>1, <2>3, EscapedCases
    <3>2. \A i \in 1 .. 2 : i = 1 \/ i = 2
      OBVIOUS
    <3> QED  BY <1>1, <2>2, <2>3, <3>1, <3>2 DEF AllIn
  <2>4. CASE c \notin DOMAIN Escape /\ c \in Unprintable
    <3>1. Len(Escaped(c)) = 0
      BY <2>1, <2>4, EscapedCases, NoChar
    <3> QED  BY <3>1 DEF AllIn
  <2>5. CASE c \notin DOMAIN Escape /\ c \notin Unprintable
    <3>1. Len(Escaped(c)) = 1 /\ Escaped(c)[1] = c
      BY <2>1, <2>5, EscapedCases
    <3>2. \A i \in 1 .. 1 : i = 1
      OBVIOUS
    <3> QED  BY <3>1, <3>2 DEF AllIn
  <2> QED  BY <2>3, <2>4, <2>5
<1> QED  BY <1>1, <1>3, <1>4, <1>5

LEMMA QuotedAllIn ==
    ASSUME NEW u \in Text, NEW S, Quote \in S, AllIn(u, S)
    PROVE  AllIn(Quoted(u), S)
<1> DEFINE q == <<Quote>>
           w == q \o u
<1>1. q \in Text /\ AllIn(q, S)
  <2>1. Quote \in Char
    BY DEF Char, Written
  <2> QED  BY <2>1, QuoteType, AllInOne
<1>2. Quoted(u) = w \o q
  BY DEF Quoted
<1> HIDE DEF q
<1>3. w \in Text /\ AllIn(w, S)
  BY <1>1, TextTypes, AllInConcat
<1> HIDE DEF w
<1> QED  BY <1>1, <1>2, <1>3, AllInConcat

LEMMA MemberAllIn ==
    ASSUME NEW key \in Text, NEW value \in Text, NEW S, Quote \in S, AllIn(Colon, S),
           AllIn(key, S), AllIn(value, S)
    PROVE  AllIn(Member(key, value), S)
<1> DEFINE q == Quoted(key)
           w == q \o Colon
<1>1. q \in Text /\ AllIn(q, S)
  BY QuotedType, QuotedAllIn
<1>2. Member(key, value) = w \o value
  BY DEF Member, Colon
<1> HIDE DEF q
<1>3. w \in Text /\ AllIn(w, S)
  BY <1>1, ColonType, TextTypes, AllInConcat
<1> HIDE DEF w
<1> QED  BY <1>2, <1>3, AllInConcat

\* A text without braces has none when it is escaped.
LEMMA EscapedInner ==
    ASSUME NEW src \in Text, AllIn(src, InnerChar), NEW room \in Nat
    PROVE  json_escape(src, room) \in Text /\ AllIn(json_escape(src, room), InnerChar)
<1> DEFINE S == {t \in Text : /\ json_escape(t, room) \in Text
                              /\ AllIn(json_escape(t, room), InnerChar)}
<1>1. <<>> \in S
  BY EscapeEmpty, NoChar DEF AllIn
<1>2. ASSUME NEW t \in Text, NEW c \in Char, t \in S, \E k \in 1 .. Len(src) : c = src[k]
      PROVE  Append(t, c) \in S
  <2> DEFINE u == json_escape(t, room)
             e == Escaped(c)
             w == Append(t, c)
  <2>1. w \in Text
    BY AppendText
  <2>2. u \in Text /\ (json_escape(w, room) = u \/ json_escape(w, room) = u \o e)
    BY EscapeAppend
  <2>3. AllIn(u, InnerChar) /\ c \in InnerChar
    BY <1>2 DEF AllIn
  <2>4. e \in Text /\ AllIn(e, InnerChar)
    BY <2>3, EscapedCases, InnerFacts
  <2> HIDE DEF u, e, w
  <2>5. u \o e \in Text /\ AllIn(u \o e, InnerChar)
    BY <2>2, <2>3, <2>4, TextTypes, AllInConcat
  <2>6. w \in S
    BY <2>1, <2>2, <2>3, <2>5
  <2> QED  BY <2>6 DEF w
<1> HIDE DEF S
<1>3. src \in S
  BY <1>1, <1>2, TextInduction
<1> QED  BY <1>3 DEF S

\* Braces around a text that has none enclose it.
LEMMA BracedClosed ==
    ASSUME NEW w \in Text, AllIn(w, InnerChar)
    PROVE  Closed(Braced(w), "{", "}")
<1> DEFINE u == Braced(w)
           n == Len(w)
           open == "{"
           close == "}"
<1>1. u \in Text /\ Len(u) = n + 2 /\ n \in Nat
  BY BracedType
<1>2. /\ u[1] = open /\ u[n + 2] = close
      /\ \A i \in 1 .. n : u[i + 1] = w[i]
  <2>1. Has(u, 1, u)
    BY <1>1, HasItself
  <2> HIDE DEF n
  <2>2. /\ u[1] = open /\ Has(u, 1 + 1, w) /\ u[1 + 1 + Len(w)] = close
    <3> DEFINE p == 1
               s == u
    <3>1. s \in Text /\ Has(s, p, Braced(w))
      BY <1>1, <2>1
    <3> HIDE DEF s, p
    <3>2. /\ s[p] = "{" /\ Has(s, p + 1, w) /\ s[p + 1 + Len(w)] = "}"
      BY <3>1, BracedHas
    <3> QED  BY <3>2 DEF s, p
  <2> HIDE DEF u
  <2>3. 1 + 1 + n = n + 2 /\ \A i \in 1 .. n : 1 + 1 + i - 1 = i + 1
    BY <1>1
  <2> QED  BY <2>2, <2>3 DEF Has, n
<1>3. \A i \in 1 .. n : w[i] \in Char /\ w[i] # open /\ w[i] # close /\ w[i] # NUL
  BY DEF AllIn, InnerChar
<1>4. open # close /\ open # NUL /\ close # NUL /\ open \in Char /\ close \in Char
  BY DEF NUL, Char, Written
<1> HIDE DEF u, n, open, close
<1>5. \A i \in 2 .. n + 1 : i - 1 \in 1 .. n /\ u[i] = w[i - 1]
  <2>1. \A i \in 2 .. n + 1 : i - 1 \in 1 .. n /\ (i - 1) + 1 = i
    BY <1>1
  <2> QED  BY <1>2, <2>1
<1>6. /\ \A i \in 1 .. n + 2 : u[i] = open <=> i = 1
      /\ \A i \in 1 .. n + 2 : u[i] = close <=> i = n + 2
      /\ \A i \in 1 .. n + 2 : u[i] \in Char \ {NUL}
  <2>1. \A i \in 1 .. n + 2 : i = 1 \/ i = n + 2 \/ i \in 2 .. n + 1
    BY <1>1
  <2>2. \A i \in 2 .. n + 1 : i # 1 /\ i # n + 2
    BY <1>1
  <2>3. n + 2 # 1
    BY <1>1
  <2> QED  BY <1>2, <1>3, <1>4, <1>5, <2>1, <2>2, <2>3
<1>7. Cardinality({1}) = 1 /\ Cardinality({n + 2}) = 1 /\ Cardinality({}) = 0
  BY FS_Singleton, FS_EmptySet
<1>8. Depth(u, open, close) <= 0
  <2>1. DOMAIN u = 1 .. n + 2
    BY <1>1, LenProperties DEF Text
  <2>2. {i \in DOMAIN u : u[i] = open} = {1} /\ {i \in DOMAIN u : u[i] = close} = {n + 2}
    <3>1. 1 \in 1 .. n + 2 /\ n + 2 \in 1 .. n + 2
      BY <1>1
    <3> QED  BY <1>6, <2>1, <3>1
  <2>3. Depth(u, open, close) = 1 - 1
    BY <1>7, <2>2 DEF Depth
  <2> QED  BY <2>3
<1>9. ASSUME NEW k \in 1 .. n + 1
      PROVE  Depth(SubSeq(u, 1, k), open, close) > 0
  <2> DEFINE v == SubSeq(u, 1, k)
  <2>1. v \in Text /\ Len(v) = k /\ \A i \in 1 .. k : v[i] = u[i]
    <3>1. k \in 1 .. Len(u)
      BY <1>1
    <3>2. \A i \in 1 .. k : u[i] \in Char
      <4>1. \A i \in 1 .. k : i \in 1 .. n + 2
        BY <1>1
      <4> QED  BY <1>6, <4>1
    <3> QED  BY <1>1, <3>1, <3>2, SubSeqProperties DEF Text
  <2>2. DOMAIN v = 1 .. k
    BY <2>1, LenProperties DEF Text
  <2> HIDE DEF v
  <2>3. \A i \in 1 .. k : i \in 1 .. n + 2 /\ i # n + 2
    BY <1>1
  <2>4. 1 \in 1 .. k
    OBVIOUS
  <2>5. {i \in DOMAIN v : v[i] = open} = {1} /\ {i \in DOMAIN v : v[i] = close} = {}
    BY <1>6, <2>1, <2>2, <2>3, <2>4
  <2>6. Depth(v, open, close) = 1 - 0
    BY <1>7, <2>5 DEF Depth
  <2>7. 1 - 0 > 0
    OBVIOUS
  <2> QED  BY <2>6, <2>7 DEF v
<1>10. Len(u) # 0 /\ Len(u) - 1 = n + 1
  BY <1>1
<1>11. AllIn(u, Char \ {NUL})
  BY <1>1, <1>6 DEF AllIn
<1>12. Closed(u, open, close)
  BY <1>1, <1>8, <1>9, <1>10, <1>11 DEF Closed
<1> QED  BY <1>12 DEF u, open, close

\* An object without objects in it is skipped.
LEMMA ObjectSkipped ==
    ASSUME NEW s \in Text, NEW p, NEW w \in Text, AllIn(w, InnerChar), Has(s, p, Braced(w)),
           p + Len(Braced(w)) \in 1 .. Len(s)
    PROVE  SkipObject(s, p) = p + Len(Braced(w))
<1>1. Closed(Braced(w), "{", "}")
  BY BracedClosed
<1>2. SkipNested(s, p, "{", "}") = p + Len(Braced(w))
  <2> DEFINE u == Braced(w)
             open == "{"
             close == "}"
  <2>1. Closed(u, open, close) /\ Has(s, p, u) /\ p + Len(u) \in 1 .. Len(s)
    BY <1>1
  <2> HIDE DEF u, open, close
  <2>2. SkipNested(s, p, open, close) = p + Len(u)
    BY <2>1, NestedSkipped
  <2> QED  BY <2>2 DEF u, open, close
<1>3. s[p] = "{"
  BY BracedHas
<1> QED  BY <1>2, <1>3 DEF SkipObject

-----------------------------------------------------------------------------
(***************************************************************************)
(* The members of an entry.                                                 *)
(***************************************************************************)

NodeIdKey == <<"node_id">>
ClockWord == <<"vector_clock">>
TimestampKey == <<"timestamp">>
LevelKey == <<"level">>
MessageKey == <<"message">>
MetadataKey == <<"metadata">>

LEMMA Sizes ==
    /\ LOG_MESSAGE_MAX_LEN \in Nat \ {0} /\ NODE_ID_MAX_LEN \in Nat \ {0}
    /\ NODE_ID_MAX_LEN <= LOG_MESSAGE_MAX_LEN
    /\ KEY_SIZE \in Nat \ {0} /\ KEY_SIZE >= 4 /\ 1 < KEY_SIZE
    /\ LOGAGG_MAX_ENTRY_SIZE \in Nat \ {0}
<1>1. LOG_MESSAGE_MAX_LEN \in Nat \ {0} /\ NODE_ID_MAX_LEN \in Nat \ {0}
      /\ KEY_SIZE \in Nat \ {0} /\ LOGAGG_MAX_ENTRY_SIZE \in Nat \ {0}
  BY CodecBounds
<1>2. NODE_ID_MAX_LEN <= LOG_MESSAGE_MAX_LEN /\ KEY_SIZE >= 4
  BY BufferSizes
<1> QED  BY <1>1, <1>2

\* A key that any reader can read
IsKey(key) == key \in Text /\ Len(key) = 1 /\ AllIn(key, PlainChar)

LEMMA EntryKeys ==
    /\ IsKey(NodeIdKey) /\ IsKey(ClockWord) /\ IsKey(TimestampKey)
    /\ IsKey(LevelKey) /\ IsKey(MessageKey) /\ IsKey(MetadataKey)
<1>1. ASSUME NEW c \in PlainChar
      PROVE  IsKey(<<c>>)
  <2>1. c \in Char
    BY DEF PlainChar
  <2> QED  BY <2>1, OneChar, AllInOne DEF IsKey
<1>2. /\ "node_id" \in PlainChar /\ "vector_clock" \in PlainChar /\ "timestamp" \in PlainChar
      /\ "level" \in PlainChar /\ "message" \in PlainChar /\ "metadata" \in PlainChar
  BY DEF PlainChar, Char, Written, Quote, NUL, Backslash
<1> QED  BY <1>1, <1>2 DEF NodeIdKey, ClockWord, TimestampKey, LevelKey, MessageKey, MetadataKey

\* The entry e becomes x when value is read under key, wherever it stands in s.
Understood(s, key, value, e, x) ==
    \A t : /\ Has(s, t, value)
           /\ t + Len(value) \in 1 .. Len(s)
           /\ s[t + Len(value)] \in Separators
           => ParseValue(key, s, t, e) = Done(x, t + Len(value))

\* A value begins, and not with a space.
Begins(value) == value \in Text /\ Len(value) # 0 /\ value[1] \notin Space

\* A member that is understood is read.
LEMMA MemberRead ==
    ASSUME NEW s \in Text, NEW p, NEW key, NEW value, NEW r, NEW e, NEW x,
           IsKey(key), Begins(value), MemberAt(s, p, key, value, r),
           Understood(s, key, value, e, x)
    PROVE  ParseMember(s, Done(e, p)) = Done(x, r)
<1>0. /\ key \in Text /\ AllIn(key, PlainChar)
      /\ KEY_SIZE \in Nat \ {0} /\ Len(key) < KEY_SIZE
  <2>1. key \in Text /\ Len(key) = 1 /\ AllIn(key, PlainChar)
    BY DEF IsKey
  <2>2. KEY_SIZE \in Nat \ {0} /\ 1 < KEY_SIZE
    BY Sizes
  <2> QED  BY <2>1, <2>2
<1>1. value \in Text /\ Len(value) # 0 /\ value[1] \notin Space
  BY DEF Begins
<1>2. PICK t \in Nat, q \in 1 .. Len(s) :
              /\ t = p + Len(key) + 3
              /\ q = t + Len(value)
              /\ Has(s, t, value)
              /\ s[q] \in Separators
              /\ SkipComma(s, q) = r
              /\ s[p] = Quote
  BY <1>0, <1>1, MemberParts
<1>3. ParseKey(s, p, FALSE) = Done(key, t)
  <2>1. Has(s, p, Member(key, value))
    BY DEF MemberAt
  <2>2. ParseKey(s, p, FALSE) = Done(key, p + Len(key) + 3)
    BY <1>0, <1>1, <2>1, KeyRead
  <2> QED  BY <1>2, <2>2
<1>4. ParseValue(key, s, t, e) = Done(x, q)
  <2>1. t + Len(value) = q
    BY <1>2
  <2>2. ParseValue(key, s, t, e) = Done(x, t + Len(value))
    BY <1>2, <2>1 DEF Understood
  <2> QED  BY <2>1, <2>2
<1> DEFINE r0 == Done(e, p)
           r1 == Done(key, t)
           r2 == Done(x, q)
<1>5. /\ r0.ok /\ r0.v = e /\ r0.p = p
      /\ r1.ok /\ r1.v = key /\ r1.p = t
      /\ r2.ok /\ r2.v = x /\ r2.p = q
  BY DEF Done
<1>6. ParseKey(s, p, FALSE) = r1 /\ ParseValue(key, s, t, e) = r2
  BY <1>3, <1>4
<1>7. SkipComma(s, q) = r
  BY <1>2
<1>8. s[p] \notin {NUL, "}"}
  BY <1>2 DEF Quote, NUL
<1> SUFFICES ParseMember(s, r0) = Done(x, r)
  OBVIOUS
<1> HIDE DEF r0, r1, r2
<1> QED  BY <1>5, <1>6, <1>7, <1>8 DEF ParseMember, Then

\* An entry with another value of a field
WithNodeId(e, v) == [e EXCEPT !.node_id = v]
WithClock(e, v) == [e EXCEPT !.vc = v]
WithTimestamp(e, v) == [e EXCEPT !.timestamp = v]
WithLevel(e, v) == [e EXCEPT !.level = v]
WithMessage(e, v) == [e EXCEPT !.message = v]

\* What each known key does with its value
LEMMA NodeIdValue ==
    ASSUME NEW s, NEW p, NEW e, NEW v, NEW q,
           parse_str(s, p, NODE_ID_MAX_LEN + 1) = Done(v, q)
    PROVE  ParseValue(NodeIdKey, s, p, e) = Done(WithNodeId(e, v), q)
<1> DEFINE r == Done(v, q)
<1>1. r.ok /\ r.v = v /\ r.p = q
  BY DEF Done
<1>2. parse_str(s, p, NODE_ID_MAX_LEN + 1) = r
  OBVIOUS
<1> HIDE DEF r
<1> QED  BY <1>1, <1>2 DEF ParseValue, NodeIdKey, Then, WithNodeId

LEMMA TimestampValue ==
    ASSUME NEW s, NEW p, NEW e, NEW v, NEW q,
           parse_num(s, p) = Done(v, q)
    PROVE  ParseValue(TimestampKey, s, p, e) = Done(WithTimestamp(e, v), q)
<1> DEFINE r == Done(v, q)
<1>1. r.ok /\ r.v = v /\ r.p = q
  BY DEF Done
<1>2. parse_num(s, p) = r
  OBVIOUS
<1> HIDE DEF r
<1> QED  BY <1>1, <1>2 DEF ParseValue, TimestampKey, Then, WithTimestamp

LEMMA LevelValue ==
    ASSUME NEW s, NEW p, NEW e, NEW v, NEW q,
           parse_str(s, p, 2 * LOG_MESSAGE_MAX_LEN) = Done(v, q)
    PROVE  ParseValue(LevelKey, s, p, e) = Done(WithLevel(e, log_level_from_str(v)), q)
<1> DEFINE r == Done(v, q)
<1>1. r.ok /\ r.v = v /\ r.p = q
  BY DEF Done
<1>2. parse_str(s, p, 2 * LOG_MESSAGE_MAX_LEN) = r
  OBVIOUS
<1> HIDE DEF r
<1> QED  BY <1>1, <1>2 DEF ParseValue, LevelKey, Then, WithLevel

LEMMA MessageValue ==
    ASSUME NEW s, NEW p, NEW e, NEW v, NEW q,
           parse_str(s, p, LOG_MESSAGE_MAX_LEN + 1) = Done(v, q)
    PROVE  ParseValue(MessageKey, s, p, e) = Done(WithMessage(e, v), q)
<1> DEFINE r == Done(v, q)
<1>1. r.ok /\ r.v = v /\ r.p = q
  BY DEF Done
<1>2. parse_str(s, p, LOG_MESSAGE_MAX_LEN + 1) = r
  OBVIOUS
<1> HIDE DEF r
<1> QED  BY <1>1, <1>2 DEF ParseValue, MessageKey, Then, WithMessage

LEMMA ClockValue ==
    ASSUME NEW s, NEW p, NEW e, NEW q, SkipObject(s, p) = q
    PROVE  ParseValue(ClockWord, s, p, e)
               = Done(WithClock(e, vc_from_json(e.vc, SubSeq(s, p, q - 1))), q)
BY DEF ParseValue, ClockWord, WithClock

LEMMA MetadataValue ==
    ASSUME NEW s, NEW p, NEW e, NEW q, SkipObject(s, p) = q
    PROVE  ParseValue(MetadataKey, s, p, e) = Done(e, q)
BY DEF ParseValue, MetadataKey

LEMMA QuotedBegins ==
    ASSUME NEW u \in Text
    PROVE  Begins(Quoted(u))
<1> DEFINE w == Quoted(u)
<1>1. w \in Text
  BY QuotedType
<1>2. Has(w, 1, Quoted(u))
  BY <1>1, HasItself
<1> HIDE DEF w
<1>3. 1 \in 1 .. Len(w) /\ w[1] = Quote
  BY <1>1, <1>2, QuotedHas
<1>4. Len(w) # 0
  BY <1>1, <1>3, LenText
<1>5. Begins(w)
  BY <1>1, <1>3, <1>4, SpaceChars DEF Begins
<1> QED  BY <1>5 DEF w

LEMMA BracedBegins ==
    ASSUME NEW u \in Text
    PROVE  Begins(Braced(u))
<1> DEFINE w == Braced(u)
<1>1. w \in Text
  BY BracedType
<1>2. Has(w, 1, Braced(u))
  BY <1>1, HasItself
<1> HIDE DEF w
<1>3. 1 \in 1 .. Len(w) /\ w[1] = "{"
  BY <1>1, <1>2, BracedHas
<1>4. Len(w) # 0
  <2>1. 1 \in 1 .. Len(w) /\ Len(w) \in Nat
    BY <1>1, <1>3, LenText
  <2> QED  BY <2>1
<1>5. Begins(w)
  BY <1>1, <1>3, <1>4, SpaceChars DEF Begins
<1> QED  BY <1>5 DEF w

LEMMA DecimalBegins ==
    ASSUME NEW n \in Nat
    PROVE  Begins(Decimal(n))
<1> DEFINE w == Decimal(n)
<1>1. w \in Text /\ Len(w) \in Nat \ {0} /\ AllIn(w, Digit)
  BY DecimalType
<1> HIDE DEF w
<1>2. 1 \in 1 .. Len(w) /\ Len(w) # 0
  BY <1>1
<1>3. w[1] \in Digit
  BY <1>1, <1>2 DEF AllIn
<1>4. w[1] \notin Space
  BY <1>3, DigitFacts
<1>5. Begins(w)
  BY <1>1, <1>2, <1>4 DEF Begins
<1> QED  BY <1>5 DEF w

\* A text as a value
Esc(src) == Quoted(json_escape(src, Room))

\* A text that fits an entry and has no NUL
Fits(src, max) == src \in Text /\ Len(src) <= max /\ AllIn(src, Char \ {NUL})

LEMMA EscRead ==
    ASSUME LOG_MESSAGE_MAX_LEN \in Nat, NEW src, Fits(src, LOG_MESSAGE_MAX_LEN),
           NEW size \in Nat \ {0}, Len(Printed(src)) < size,
           NEW s \in Text, NEW t, Has(s, t, Esc(src))
    PROVE  parse_str(s, t, size) = Done(Printed(src), t + Len(Esc(src)))
<1>1. /\ src \in Text /\ Len(src) <= LOG_MESSAGE_MAX_LEN /\ AllIn(src, Char \ {NUL})
      /\ Has(s, t, Quoted(json_escape(src, Room)))
  BY DEF Fits, Esc
<1>2. ParseString(s, t, size, FALSE)
          = Done(Printed(src), t + Len(Quoted(json_escape(src, Room))))
  BY <1>1, EscapedRead
<1> QED  BY <1>2 DEF parse_str, Esc

LEMMA NodeIdRead ==
    ASSUME LOG_MESSAGE_MAX_LEN \in Nat, NODE_ID_MAX_LEN \in Nat,
           NODE_ID_MAX_LEN <= LOG_MESSAGE_MAX_LEN,
           NEW src, Fits(src, NODE_ID_MAX_LEN), Printed(src) = src,
           NEW s \in Text, NEW e
    PROVE  Understood(s, NodeIdKey, Esc(src), e, WithNodeId(e, src))
<1> SUFFICES ASSUME NEW t, Has(s, t, Esc(src))
             PROVE  ParseValue(NodeIdKey, s, t, e)
                        = Done(WithNodeId(e, src), t + Len(Esc(src)))
  BY DEF Understood
<1>1. Len(src) \in Nat /\ Len(src) <= NODE_ID_MAX_LEN
  BY LenText DEF Fits
<1>2. Len(src) <= LOG_MESSAGE_MAX_LEN /\ Len(src) < NODE_ID_MAX_LEN + 1
      /\ NODE_ID_MAX_LEN + 1 \in Nat \ {0}
  BY <1>1
<1>3. Fits(src, LOG_MESSAGE_MAX_LEN)
  BY <1>2 DEF Fits
<1> DEFINE size == NODE_ID_MAX_LEN + 1
<1>4. size \in Nat \ {0} /\ Len(Printed(src)) < size
  BY <1>2
<1> HIDE DEF size
<1>5. parse_str(s, t, size) = Done(Printed(src), t + Len(Esc(src)))
  BY <1>3, <1>4, EscRead
<1>6. parse_str(s, t, NODE_ID_MAX_LEN + 1) = Done(src, t + Len(Esc(src)))
  BY <1>5 DEF size
<1> DEFINE q == t + Len(Esc(src))
<1>7. parse_str(s, t, NODE_ID_MAX_LEN + 1) = Done(src, q)
  BY <1>6
<1> HIDE DEF q
<1>8. ParseValue(NodeIdKey, s, t, e) = Done(WithNodeId(e, src), q)
  BY <1>7, NodeIdValue
<1> QED  BY <1>8 DEF q

LEMMA MessageRead ==
    ASSUME LOG_MESSAGE_MAX_LEN \in Nat,
           NEW src, Fits(src, LOG_MESSAGE_MAX_LEN),
           NEW s \in Text, NEW e
    PROVE  Understood(s, MessageKey, Esc(src), e, WithMessage(e, Printed(src)))
<1> SUFFICES ASSUME NEW t, Has(s, t, Esc(src))
             PROVE  ParseValue(MessageKey, s, t, e)
                        = Done(WithMessage(e, Printed(src)), t + Len(Esc(src)))
  BY DEF Understood
<1> DEFINE size == LOG_MESSAGE_MAX_LEN + 1
           v == Printed(src)
<1>1. src \in Text /\ Len(src) <= LOG_MESSAGE_MAX_LEN
  BY DEF Fits
<1>2. v \in Text /\ Len(v) <= Len(src)
  BY <1>1, PrintedFacts
<1> HIDE DEF v
<1>3. size \in Nat \ {0} /\ Len(v) < size
  <2>1. Len(v) \in Nat /\ Len(src) \in Nat
    BY <1>1, <1>2, LenText
  <2>2. \A i \in Nat, j \in Nat : i <= j /\ j <= LOG_MESSAGE_MAX_LEN => i < LOG_MESSAGE_MAX_LEN + 1
    OBVIOUS
  <2>3. LOG_MESSAGE_MAX_LEN + 1 \in Nat \ {0}
    OBVIOUS
  <2> QED  BY <1>1, <1>2, <2>1, <2>2, <2>3
<1> HIDE DEF size
<1>4. parse_str(s, t, size) = Done(v, t + Len(Esc(src)))
  BY <1>3, EscRead DEF v
<1>5. parse_str(s, t, LOG_MESSAGE_MAX_LEN + 1) = Done(v, t + Len(Esc(src)))
  BY <1>4 DEF size
<1> DEFINE q == t + Len(Esc(src))
<1>6. parse_str(s, t, LOG_MESSAGE_MAX_LEN + 1) = Done(v, q)
  BY <1>5
<1> HIDE DEF q
<1>7. ParseValue(MessageKey, s, t, e) = Done(WithMessage(e, v), q)
  BY <1>6, MessageValue
<1> QED  BY <1>7 DEF v, q

LEMMA TimestampRead ==
    ASSUME NEW n \in Nat, NEW s \in Text, NEW e
    PROVE  Understood(s, TimestampKey, Decimal(n), e, WithTimestamp(e, n))
<1> DEFINE u == Decimal(n)
<1> SUFFICES ASSUME NEW t, Has(s, t, u), t + Len(u) \in 1 .. Len(s), s[t + Len(u)] \in Separators
             PROVE  ParseValue(TimestampKey, s, t, e)
                        = Done(WithTimestamp(e, n), t + Len(u))
  BY DEF Understood
<1>1. t + Len(u) <= Len(s) /\ s[t + Len(u)] \notin Digit
  BY SeparatorFacts, LenText
<1>2. parse_num(s, t) = Done(n, t + Len(u))
  BY <1>1, NumRead
<1> DEFINE q == t + Len(u)
<1>3. parse_num(s, t) = Done(n, q)
  BY <1>2
<1> HIDE DEF q
<1>4. ParseValue(TimestampKey, s, t, e) = Done(WithTimestamp(e, n), q)
  BY <1>3, TimestampValue
<1> QED  BY <1>4 DEF q

Levels == {"DEBUG", "INFO", "WARN", "ERROR", "FATAL"}

LEMMA LevelWords ==
    ASSUME NEW c \in Levels
    PROVE  /\ <<c>> \in Text /\ Len(<<c>>) = 1 /\ AllIn(<<c>>, PlainChar)
           /\ log_level_from_str(<<c>>) = c
<1>1. c \in PlainChar /\ c \in Char
  BY DEF Levels, PlainChar, Char, Written, Quote, NUL, Backslash
<1>2. log_level_from_str(<<c>>) = c
  <2>1. CASE c = "DEBUG"
    BY <2>1 DEF log_level_from_str
  <2>2. CASE c = "INFO"
    BY <2>2 DEF log_level_from_str
  <2>3. CASE c = "WARN"
    BY <2>3 DEF log_level_from_str
  <2>4. CASE c = "ERROR"
    BY <2>4 DEF log_level_from_str
  <2>5. CASE c = "FATAL"
    BY <2>5 DEF log_level_from_str
  <2> QED  BY <2>1, <2>2, <2>3, <2>4, <2>5 DEF Levels
<1> QED  BY <1>1, <1>2, OneChar, AllInOne

LEMMA LevelRead ==
    ASSUME LOG_MESSAGE_MAX_LEN \in Nat \ {0}, NEW c \in Levels, NEW s \in Text, NEW e
    PROVE  Understood(s, LevelKey, Quoted(<<c>>), e, WithLevel(e, c))
<1> DEFINE u == <<c>>
           size == 2 * LOG_MESSAGE_MAX_LEN
<1>1. u \in Text /\ Len(u) = 1 /\ AllIn(u, PlainChar) /\ log_level_from_str(u) = c
  BY LevelWords
<1>2. size \in Nat \ {0} /\ 1 < size
  OBVIOUS
<1> HIDE DEF u
<1> SUFFICES ASSUME NEW t, Has(s, t, Quoted(u))
             PROVE  ParseValue(LevelKey, s, t, e)
                        = Done(WithLevel(e, c), t + Len(Quoted(u)))
  BY DEF Understood, u
<1> HIDE DEF size
<1>3. Len(u) < size
  BY <1>1, <1>2
<1>4. ParseString(s, t, size, FALSE) = Done(u, t + Len(Quoted(u)))
  BY <1>1, <1>2, <1>3, RawRead
<1>5. parse_str(s, t, 2 * LOG_MESSAGE_MAX_LEN) = Done(u, t + Len(Quoted(u)))
  BY <1>4 DEF parse_str, size
<1> DEFINE q == t + Len(Quoted(u))
<1>6. parse_str(s, t, 2 * LOG_MESSAGE_MAX_LEN) = Done(u, q)
  BY <1>5
<1> HIDE DEF q
<1>7. ParseValue(LevelKey, s, t, e) = Done(WithLevel(e, log_level_from_str(u)), q)
  BY <1>6, LevelValue
<1>8. ParseValue(LevelKey, s, t, e) = Done(WithLevel(e, c), q)
  BY <1>1, <1>7
<1> QED  BY <1>8 DEF q

LEMMA MetadataRead ==
    ASSUME NEW w \in Text, AllIn(w, InnerChar), NEW s \in Text, NEW e
    PROVE  Understood(s, MetadataKey, Braced(w), e, e)
<1> SUFFICES ASSUME NEW t, Has(s, t, Braced(w)), t + Len(Braced(w)) \in 1 .. Len(s)
             PROVE  ParseValue(MetadataKey, s, t, e) = Done(e, t + Len(Braced(w)))
  BY DEF Understood
<1>1. SkipObject(s, t) = t + Len(Braced(w))
  BY ObjectSkipped
<1> DEFINE q == t + Len(Braced(w))
<1>2. SkipObject(s, t) = q
  BY <1>1
<1> HIDE DEF q
<1>3. ParseValue(MetadataKey, s, t, e) = Done(e, q)
  BY <1>2, MetadataValue
<1> QED  BY <1>3 DEF q

\* The text of a clock has no object in it.
LEMMA ClockInner ==
    ASSUME NEW n \in Nat, NEW vc \in Clock(n)
    PROVE  LET w == Commas(ClockFields(vc, n))
           IN  w \in Text /\ AllIn(w, InnerChar) /\ vc_to_json(vc) = Braced(w)
<1> DEFINE fields == ClockFields(vc, n)
<1>1. /\ fields \in Seq(Text) /\ Len(fields) = n
      /\ \A k \in 1 .. n : /\ fields[k] = ClockField(vc, k)
                           /\ ClockKey(k - 1) \in Text
                           /\ vc[k - 1] \in Nat
  BY ClockFieldsType
<1>2. ASSUME NEW k \in 1 .. n
      PROVE  AllIn(ClockField(vc, k), InnerChar)
  <2> DEFINE key == ClockKey(k - 1)
             value == Decimal(vc[k - 1])
  <2>1. key \in Text /\ value \in Text /\ AllIn(value, Digit)
    BY <1>1, DecimalType
  <2>2. AllIn(value, InnerChar)
    BY <2>1, InnerFacts DEF AllIn
  <2>3. AllIn(key, InnerChar)
    <3> DEFINE d == Decimal(k - 1)
    <3>1. d \in Text /\ AllIn(d, Digit)
      <4>1. k - 1 \in Nat
        OBVIOUS
      <4> QED  BY <4>1, DecimalType
    <3>2. AllIn(d, InnerChar)
      BY <3>1, InnerFacts DEF AllIn
    <3>3. key = NodeWord \o d
      BY DEF ClockKey, NodeWord
    <3> HIDE DEF d, key
    <3> QED  BY <3>1, <3>2, <3>3, NodeWordType, InnerFacts, AllInConcat
  <2>4. ClockField(vc, k) = Member(key, value)
    BY DEF ClockField
  <2> HIDE DEF key, value
  <2> QED  BY <2>1, <2>2, <2>3, <2>4, InnerFacts, MemberAllIn
<1>3. \A k \in 1 .. Len(fields) : AllIn(fields[k], InnerChar)
  BY <1>1, <1>2
<1> HIDE DEF fields
<1>4. Commas(fields) \in Text /\ AllIn(Commas(fields), InnerChar)
  BY <1>1, <1>3, InnerFacts, CommasAllIn
<1> QED  BY <1>4, ClockText DEF fields

LEMMA ClockValueRead ==
    ASSUME KEY_SIZE \in Nat, KEY_SIZE >= 4,
           NEW n \in Nat, n <= VC_MAX_NODES, NEW vc \in Clock(n), NEW s \in Text, NEW e
    PROVE  Understood(s, ClockWord, vc_to_json(vc), e, WithClock(e, vc))
<1> DEFINE u == vc_to_json(vc)
           w == Commas(ClockFields(vc, n))
<1>1. w \in Text /\ AllIn(w, InnerChar) /\ u = Braced(w)
  BY ClockInner
<1>2. \A old : vc_from_json(old, u) = vc
  BY ClockRoundTrip
<1> HIDE DEF u, w
<1> SUFFICES ASSUME NEW t, Has(s, t, u), t + Len(u) \in 1 .. Len(s)
             PROVE  ParseValue(ClockWord, s, t, e) = Done(WithClock(e, vc), t + Len(u))
  BY DEF Understood, u
<1>3. SkipObject(s, t) = t + Len(u)
  BY <1>1, ObjectSkipped
<1> DEFINE q == t + Len(u)
<1>4. SubSeq(s, t, q - 1) = u
  <2>1. u \in Text
    BY <1>1, BracedType
  <2>2. SubSeq(s, t, t + Len(u) - 1) = u
    BY <2>1, HasWhole
  <2>3. t + Len(u) - 1 = q - 1
    <3>1. t \in Nat /\ Len(u) \in Nat
      BY <2>1, LenText DEF Has
    <3> QED  BY <3>1
  <2> DEFINE x == q - 1
  <2>4. SubSeq(s, t, x) = u
    BY <2>2, <2>3
  <2> QED  BY <2>4
<1>5. SkipObject(s, t) = q
  BY <1>3
<1> HIDE DEF q
<1>6. ParseValue(ClockWord, s, t, e)
          = Done(WithClock(e, vc_from_json(e.vc, SubSeq(s, t, q - 1))), q)
  BY <1>5, ClockValue
<1>7. ParseValue(ClockWord, s, t, e) = Done(WithClock(e, vc), q)
  BY <1>2, <1>4, <1>6
<1> QED  BY <1>7 DEF q

-----------------------------------------------------------------------------
(***************************************************************************)
(* The text of an entry.                                                    *)
(***************************************************************************)

LEMMA SeqWider ==
    ASSUME NEW S, NEW T, S \subseteq T, NEW u \in Seq(S)
    PROVE  u \in Seq(T) /\ \A i \in 1 .. Len(u) : u[i] \in S
<1>1. Len(u) \in Nat /\ u \in [1 .. Len(u) -> S]
  BY LenProperties
<1>2. u \in [1 .. Len(u) -> T]
  BY <1>1
<1> QED  BY <1>1, <1>2

LEMMA StringText ==
    ASSUME NEW u \in String
    PROVE  u \in Text /\ AllIn(u, Char \ {NUL})
<1> DEFINE S == STRING \ {NUL}
<1>1. S \subseteq Char /\ S \subseteq Char \ {NUL}
  BY DEF Char
<1>2. u \in Seq(S)
  BY DEF String
<1> HIDE DEF S
<1>3. u \in Seq(Char) /\ \A i \in 1 .. Len(u) : u[i] \in S
  BY <1>1, <1>2, SeqWider
<1> QED  BY <1>1, <1>3 DEF AllIn, Text

LEMMA BracelessText ==
    ASSUME NEW u \in Braceless
    PROVE  u \in Text /\ AllIn(u, InnerChar)
<1> DEFINE S == STRING \ {NUL, "{", "}"}
<1>1. S \subseteq Char /\ S \subseteq InnerChar
  BY DEF Char, InnerChar
<1>2. u \in Seq(S)
  BY DEF Braceless
<1> HIDE DEF S
<1>3. u \in Seq(Char) /\ \A i \in 1 .. Len(u) : u[i] \in S
  BY <1>1, <1>2, SeqWider
<1> QED  BY <1>1, <1>3 DEF AllIn, Text

\* A metadata pair as it is written
PairText(pair) == Esc(pair.key) \o <<":">> \o Esc(pair.value)

\* What is in the braces of the metadata
Inside(metadata) == Commas([i \in DOMAIN metadata |-> PairText(metadata[i])])

LEMMA PairInner ==
    ASSUME NEW key \in Braceless, NEW value \in Braceless, LOG_MESSAGE_MAX_LEN \in Nat
    PROVE  /\ Esc(key) \o <<":">> \o Esc(value) \in Text
           /\ AllIn(Esc(key) \o <<":">> \o Esc(value), InnerChar)
<1>0. Room \in Nat
  BY DEF Room
<1>1. ASSUME NEW u \in Braceless
      PROVE  Esc(u) \in Text /\ AllIn(Esc(u), InnerChar)
  <2>1. u \in Text /\ AllIn(u, InnerChar)
    BY BracelessText
  <2>2. json_escape(u, Room) \in Text /\ AllIn(json_escape(u, Room), InnerChar)
    BY <1>0, <2>1, EscapedInner
  <2> QED  BY <2>2, QuotedType, QuotedAllIn, InnerFacts DEF Esc
<1> DEFINE a == Esc(key)
           b == Esc(value)
           w == a \o Colon
<1>2. a \in Text /\ AllIn(a, InnerChar) /\ b \in Text /\ AllIn(b, InnerChar)
  BY <1>1
<1>3. Esc(key) \o <<":">> \o Esc(value) = w \o b
  BY DEF Colon
<1> HIDE DEF a, b
<1>4. w \in Text /\ AllIn(w, InnerChar)
  BY <1>2, ColonType, InnerFacts, TextTypes, AllInConcat
<1> HIDE DEF w
<1>5. w \o b \in Text /\ AllIn(w \o b, InnerChar)
  BY <1>2, <1>4, TextTypes, AllInConcat
<1> QED  BY <1>3, <1>5

LEMMA MetadataInner ==
    ASSUME NEW metadata \in Seq([key : Braceless, value : Braceless]), LOG_MESSAGE_MAX_LEN \in Nat
    PROVE  Inside(metadata) \in Text /\ AllIn(Inside(metadata), InnerChar)
<1> DEFINE n == Len(metadata)
           fields == [i \in DOMAIN metadata |-> PairText(metadata[i])]
<1>1. n \in Nat /\ DOMAIN metadata = 1 .. n
      /\ \A i \in 1 .. n : metadata[i] \in [key : Braceless, value : Braceless]
  BY LenProperties, ElementOfSeq
<1>2. ASSUME NEW i \in 1 .. n
      PROVE  PairText(metadata[i]) \in Text /\ AllIn(PairText(metadata[i]), InnerChar)
  <2> DEFINE pair == metadata[i]
  <2>1. pair.key \in Braceless /\ pair.value \in Braceless
    BY <1>1
  <2> HIDE DEF pair
  <2>2. PairText(pair) \in Text /\ AllIn(PairText(pair), InnerChar)
    BY <2>1, PairInner DEF PairText
  <2> QED  BY <2>2 DEF pair
<1>3. fields \in [1 .. n -> Text] /\ \A i \in 1 .. n : AllIn(fields[i], InnerChar)
  BY <1>1, <1>2
<1>4. Inside(metadata) = Commas(fields)
  BY DEF Inside
<1> HIDE DEF fields, n
<1>5. fields \in Seq(Text) /\ Len(fields) = n
  BY <1>1, <1>3
<1> QED  BY <1>3, <1>4, <1>5, InnerFacts, CommasAllIn

FieldKey(k) ==
    CASE k = 1 -> NodeIdKey [] k = 2 -> ClockWord [] k = 3 -> TimestampKey
      [] k = 4 -> LevelKey [] k = 5 -> MessageKey [] OTHER -> MetadataKey

FieldValue(e, k) ==
    CASE k = 1 -> Esc(e.node_id) [] k = 2 -> vc_to_json(e.vc) [] k = 3 -> Decimal(e.timestamp)
      [] k = 4 -> Quoted(<<e.level>>) [] k = 5 -> Esc(e.message)
      [] OTHER -> Braced(Inside(e.metadata))

FieldCount(e) == IF e.metadata = <<>> THEN 5 ELSE 6

EntryFields(e) == [k \in 1 .. FieldCount(e) |-> Member(FieldKey(k), FieldValue(e, k))]

\* The parts of a well-made entry as the lemmas on values want them
LEMMA EntryParts ==
    ASSUME NEW e, WellMade(e), LOG_MESSAGE_MAX_LEN \in Nat
    PROVE  /\ Fits(e.node_id, NODE_ID_MAX_LEN) /\ Printed(e.node_id) = e.node_id
           /\ \E n \in 0 .. VC_MAX_NODES : e.vc \in Clock(n)
           /\ e.timestamp \in Nat
           /\ e.level \in Levels
           /\ Fits(e.message, LOG_MESSAGE_MAX_LEN)
           /\ Inside(e.metadata) \in Text /\ AllIn(Inside(e.metadata), InnerChar)
<1>1. PICK n \in 0 .. VC_MAX_NODES : e \in Entry(n)
  BY DEF WellMade
<1>2. /\ e.node_id \in String /\ e.vc \in Clock(n) /\ e.timestamp \in Nat /\ e.level \in Levels
      /\ e.message \in String /\ e.metadata \in Seq([key : Braceless, value : Braceless])
  BY <1>1 DEF Entry, Levels
<1>3. Fits(e.node_id, NODE_ID_MAX_LEN)
  BY <1>2, StringText DEF WellMade, Fits
<1>4. Fits(e.message, LOG_MESSAGE_MAX_LEN)
  BY <1>2, StringText DEF WellMade, Fits
<1>5. Inside(e.metadata) \in Text /\ AllIn(Inside(e.metadata), InnerChar)
  BY <1>2, MetadataInner
<1>6. Printed(e.node_id) = e.node_id
  BY DEF WellMade
<1> QED  BY <1>2, <1>3, <1>4, <1>5, <1>6

LEMMA FieldTypes ==
    ASSUME NEW e, WellMade(e), LOG_MESSAGE_MAX_LEN \in Nat, NEW k \in 1 .. 6
    PROVE  IsKey(FieldKey(k)) /\ Begins(FieldValue(e, k))
<1>1. /\ Fits(e.node_id, NODE_ID_MAX_LEN)
      /\ \E n \in 0 .. VC_MAX_NODES : e.vc \in Clock(n)
      /\ e.timestamp \in Nat /\ e.level \in Levels
      /\ Fits(e.message, LOG_MESSAGE_MAX_LEN)
      /\ Inside(e.metadata) \in Text
  BY EntryParts
<1>2. ASSUME NEW src, NEW max, Fits(src, max)
      PROVE  Begins(Esc(src))
  <2>1. src \in Text /\ LOG_MESSAGE_MAX_LEN \in Nat
    BY <1>2 DEF Fits
  <2>2. json_escape(src, Room) \in Text
    BY <2>1, EscapedLength
  <2> QED  BY <2>2, QuotedBegins DEF Esc
<1>3. IsKey(FieldKey(k))
  BY EntryKeys DEF FieldKey
<1>4. Begins(Esc(e.node_id)) /\ Begins(Esc(e.message))
  BY <1>1, <1>2
<1>5. Begins(vc_to_json(e.vc))
  <2>1. PICK n \in 0 .. VC_MAX_NODES : e.vc \in Clock(n)
    BY <1>1
  <2> DEFINE vc == e.vc
             w == Commas(ClockFields(vc, n))
  <2>2. vc \in Clock(n) /\ n \in Nat
    BY <2>1
  <2> HIDE DEF vc
  <2>3. w \in Text /\ vc_to_json(vc) = Braced(w)
    BY <2>2, ClockInner
  <2> HIDE DEF w
  <2> QED  BY <2>3, BracedBegins DEF vc
<1>6. Begins(Decimal(e.timestamp))
  BY <1>1, DecimalBegins
<1>7. Begins(Quoted(<<e.level>>))
  <2> DEFINE c == e.level
             u == <<c>>
  <2>1. c \in Levels
    BY <1>1
  <2> HIDE DEF c
  <2>2. u \in Text
    BY <2>1, LevelWords
  <2> HIDE DEF u
  <2>3. Begins(Quoted(u))
    BY <2>2, QuotedBegins
  <2> QED  BY <2>3 DEF u, c
<1>8. Begins(Braced(Inside(e.metadata)))
  BY <1>1, BracedBegins
<1> DEFINE a == Esc(e.node_id)
           b == vc_to_json(e.vc)
           c == Decimal(e.timestamp)
           d == Quoted(<<e.level>>)
           f == Esc(e.message)
           g == Braced(Inside(e.metadata))
<1>9. FieldValue(e, k) = CASE k = 1 -> a [] k = 2 -> b [] k = 3 -> c [] k = 4 -> d
                           [] k = 5 -> f [] OTHER -> g
  BY DEF FieldValue
<1>10. Begins(a) /\ Begins(b) /\ Begins(c) /\ Begins(d) /\ Begins(f) /\ Begins(g)
  BY <1>4, <1>5, <1>6, <1>7, <1>8
<1> HIDE DEF a, b, c, d, f, g
<1> QED  BY <1>3, <1>9, <1>10

LEMMA EntryFieldsType ==
    ASSUME NEW e, WellMade(e), LOG_MESSAGE_MAX_LEN \in Nat
    PROVE  /\ FieldCount(e) \in 5 .. 6
           /\ EntryFields(e) \in Seq(Text)
           /\ Len(EntryFields(e)) = FieldCount(e)
           /\ AreFields(EntryFields(e))
           /\ \A k \in 1 .. FieldCount(e) :
                 EntryFields(e)[k] = Member(FieldKey(k), FieldValue(e, k))
<1> DEFINE n == FieldCount(e)
           fields == EntryFields(e)
           field(k) == Member(FieldKey(k), FieldValue(e, k))
<1>1. n \in 5 .. 6
  BY DEF FieldCount
<1>2. ASSUME NEW k \in 1 .. n
      PROVE  field(k) \in Text /\ Len(field(k)) # 0 /\ field(k)[1] = Quote
  <2>1. k \in 1 .. 6
    BY <1>1
  <2>2. FieldKey(k) \in Text /\ FieldValue(e, k) \in Text
    BY <2>1, FieldTypes DEF IsKey, Begins
  <2> QED  BY <2>2, MemberType, MemberFirst
<1>3. fields = [k \in 1 .. n |-> field(k)]
  BY DEF EntryFields
<1> HIDE DEF n, fields, field
<1>4. fields \in [1 .. n -> Text] /\ \A k \in 1 .. n : fields[k] = field(k)
  BY <1>2, <1>3
<1>5. fields \in Seq(Text) /\ Len(fields) = n
  BY <1>1, <1>4
<1>6. AreFields(fields)
  BY <1>2, <1>4, <1>5 DEF AreFields
<1> QED  BY <1>1, <1>4, <1>5, <1>6 DEF n, fields, field

LEMMA FiveTexts ==
    ASSUME NEW S, NEW a \in S, NEW b \in S, NEW c \in S, NEW d \in S, NEW f \in S
    PROVE  /\ <<a, b, c, d, f>> \in Seq(S) /\ Len(<<a, b, c, d, f>>) = 5
           /\ <<a, b, c, d, f>>[1] = a /\ <<a, b, c, d, f>>[2] = b /\ <<a, b, c, d, f>>[3] = c
           /\ <<a, b, c, d, f>>[4] = d /\ <<a, b, c, d, f>>[5] = f
OBVIOUS

\* The fields of an entry, one by one
LEMMA MembersText ==
    ASSUME NEW e, WellMade(e), LOG_MESSAGE_MAX_LEN \in Nat
    PROVE  Members(e) = EntryFields(e)
<1> DEFINE fields == EntryFields(e)
           n == FieldCount(e)
           field(k) == Member(FieldKey(k), FieldValue(e, k))
           a == Member(<<"node_id">>, Esc(e.node_id))
           b == Member(<<"vector_clock">>, vc_to_json(e.vc))
           c == Member(<<"timestamp">>, Decimal(e.timestamp))
           d == Member(<<"level">>, Quoted(<<e.level>>))
           f == Member(<<"message">>, Esc(e.message))
           g == Member(<<"metadata">>, Braced(Inside(e.metadata)))
           five == <<a, b, c, d, f>>
           rest == IF e.metadata = <<>> THEN <<>> ELSE <<g>>
<1>1. Members(e) = five \o rest
  BY DEF Members, Esc, Room, Braced, Inside, PairText
<1>2. /\ n \in 5 .. 6 /\ fields \in Seq(Text) /\ Len(fields) = n
      /\ \A k \in 1 .. n : fields[k] = field(k)
  BY EntryFieldsType
<1>3. /\ a = field(1) /\ b = field(2) /\ c = field(3) /\ d = field(4) /\ f = field(5)
      /\ g = field(6)
  BY DEF FieldKey, FieldValue, NodeIdKey, ClockWord, TimestampKey, LevelKey, MessageKey, MetadataKey
<1>4. n = IF e.metadata = <<>> THEN 5 ELSE 6
  BY DEF FieldCount
<1>5. ASSUME NEW k \in 1 .. 6
      PROVE  field(k) \in Text
  <2>1. FieldKey(k) \in Text /\ FieldValue(e, k) \in Text
    BY FieldTypes DEF IsKey, Begins
  <2> QED  BY <2>1, MemberType
<1> HIDE DEF a, b, c, d, f, g, field, fields, n
<1>6. a \in Text /\ b \in Text /\ c \in Text /\ d \in Text /\ f \in Text /\ g \in Text
  BY <1>3, <1>5
<1>7. /\ five \in Seq(Text) /\ Len(five) = 5
      /\ five[1] = a /\ five[2] = b /\ five[3] = c /\ five[4] = d /\ five[5] = f
  BY <1>6, FiveTexts
<1> HIDE DEF five
<1>8. CASE e.metadata = <<>>
  <2>1. rest = <<>> /\ n = 5
    BY <1>4, <1>8
  <2>2. five \o rest = five
    BY <1>7, <2>1, ConcatEmptySeq
  <2>3. \A k \in 1 .. 5 : five[k] = fields[k]
    <3>1. \A k \in 1 .. 5 : k = 1 \/ k = 2 \/ k = 3 \/ k = 4 \/ k = 5
      OBVIOUS
    <3> QED  BY <1>2, <1>3, <1>7, <2>1, <3>1
  <2>4. five = fields
    BY <1>2, <1>7, <2>1, <2>3, SeqEqual
  <2> QED  BY <1>1, <2>2, <2>4 DEF fields
<1>9. CASE e.metadata # <<>>
  <2> DEFINE w == five \o rest
  <2>1. rest = <<g>> /\ n = 6
    BY <1>4, <1>9
  <2>2. rest \in Seq(Text) /\ Len(rest) = 1 /\ rest[1] = g
    BY <1>6, <2>1, Singleton
  <2> HIDE DEF rest
  <2>3. /\ w \in Seq(Text) /\ Len(w) = 6
        /\ \A k \in 1 .. 6 : w[k] = IF k <= 5 THEN five[k] ELSE rest[k - 5]
    <3>1. /\ w \in Seq(Text) /\ Len(w) = Len(five) + Len(rest)
          /\ \A k \in 1 .. Len(five) + Len(rest) :
                w[k] = IF k <= Len(five) THEN five[k] ELSE rest[k - Len(five)]
      BY <1>7, <2>2, ConcatProperties
    <3> HIDE DEF w
    <3> QED  BY <1>7, <2>2, <3>1
  <2> HIDE DEF w
  <2>4. \A k \in 1 .. 6 : w[k] = fields[k]
    <3>1. \A k \in 1 .. 6 : \/ k \in {1, 2, 3, 4, 5} /\ k <= 5
                            \/ k = 6 /\ ~(k <= 5) /\ k - 5 = 1
      OBVIOUS
    <3> QED  BY <1>2, <1>3, <1>7, <2>1, <2>2, <2>3, <3>1
  <2>5. w = fields
    BY <1>2, <2>1, <2>3, <2>4, SeqEqual
  <2> QED  BY <1>1, <2>5 DEF fields, w
<1> QED  BY <1>8, <1>9

-----------------------------------------------------------------------------
(***************************************************************************)
(* Reading an entry.                                                        *)
(***************************************************************************)

Colons(s) == Cardinality({i \in DOMAIN s : s[i] = ":"})

LEMMA ColonsType ==
    ASSUME NEW s \in Text
    PROVE  /\ IsFiniteSet({i \in DOMAIN s : s[i] = ":"})
           /\ DOMAIN s = 1 .. Len(s)
           /\ Colons(s) \in Nat
<1>1. DOMAIN s = 1 .. Len(s) /\ Len(s) \in Nat
  BY LenProperties DEF Text
<1>2. IsFiniteSet(DOMAIN s)
  <2>1. \A i \in Nat : IsFiniteSet(1 .. i)
    <3> TAKE i \in Nat
    <3>1. 1 \in Int /\ i \in Int
      OBVIOUS
    <3> QED  BY <3>1, FS_Interval
  <2> QED  BY <1>1, <2>1
<1> DEFINE colon == ":"
           C == {i \in DOMAIN s : s[i] = colon}
<1>3. C \in SUBSET DOMAIN s
  OBVIOUS
<1> HIDE DEF C
<1>4. IsFiniteSet(C) /\ Cardinality(C) \in Nat
  BY <1>2, <1>3, FS_Subset, FS_CardinalityType
<1> QED  BY <1>1, <1>4 DEF C, Colons

\* Fields that are members
AreMembers(fields) ==
    \A k \in 1 .. Len(fields) :
        \E key \in Text, value \in Text : fields[k] = Member(key, value)

\* There are no more members than colons.
LEMMA ColonsListed ==
    ASSUME NEW s \in Text, NEW b, NEW fields \in Seq(Text), Listed(s, b, fields),
           AreMembers(fields)
    PROVE  Len(fields) <= Colons(s)
<1> DEFINE n == Len(fields)
           colon == ":"
           all == {i \in DOMAIN s : s[i] = colon}
           C(k) == {i \in all : i < b[k]}
           S == {k \in 0 .. n : k <= Cardinality(C(k))}
<1>1. n \in Nat /\ \A k \in 1 .. n : fields[k] \in Text
  BY LenProperties, ElementOfSeq
<1>2. IsFiniteSet(all) /\ DOMAIN s = 1 .. Len(s) /\ Colons(s) = Cardinality(all)
      /\ Colons(s) \in Nat /\ Len(s) \in Nat
  BY ColonsType, LenText DEF Colons
<1>3. ASSUME NEW k
      PROVE  /\ IsFiniteSet(C(k)) /\ Cardinality(C(k)) \in Nat
             /\ Cardinality(C(k)) <= Cardinality(all)
  <2>1. C(k) \in SUBSET all
    OBVIOUS
  <2> HIDE DEF C, all
  <2> QED  BY <1>2, <2>1, FS_Subset, FS_CardinalityType
<1>4. 0 \in S
  <2> HIDE DEF C, all
  <2>1. 0 \in 0 .. n /\ Cardinality(C(0)) \in Nat
    BY <1>1, <1>3
  <2>2. 0 <= Cardinality(C(0))
    BY <2>1
  <2> QED  BY <2>1, <2>2
<1>5. ASSUME NEW k \in 1 .. n, k - 1 \in S
      PROVE  k \in S
  <2> DEFINE q == b[k - 1]
             r == b[k]
             u == fields[k]
  <2>1. /\ Has(s, q, u) /\ q \in Nat /\ r \in Nat /\ q + Len(u) <= r
    BY DEF Listed
  <2>2. PICK key \in Text, value \in Text : u = Member(key, value)
    BY DEF AreMembers
  <2> DEFINE c == q + Len(key) + 2
  <2>3. c \in 1 .. Len(s) /\ s[c] = colon
    BY <2>1, <2>2, MemberHas
  <2>4. Len(u) = Len(key) + 3 + Len(value) /\ Len(key) \in Nat /\ Len(value) \in Nat
    BY <2>2, MemberType
  <2> HIDE DEF u
  <2>5. c \in Nat /\ q <= c /\ c < r
    <3> DEFINE i == Len(key)
               j == Len(value)
               l == Len(u)
    <3>1. i \in Nat /\ j \in Nat /\ l = i + 3 + j /\ q + l <= r /\ q \in Nat /\ r \in Nat
      BY <2>1, <2>4
    <3> HIDE DEF i, j, l, q, r
    <3>2. q + i + 2 \in Nat /\ q <= q + i + 2 /\ q + i + 2 < r
      BY <3>1
    <3> QED  BY <3>2 DEF i
  <2> HIDE DEF c
  <2>6. c \in all
    BY <1>2, <2>3
  <2> HIDE DEF all, colon
  <2>7. c \notin C(k - 1)
    BY <2>1, <2>5
  <2>8. C(k - 1) \cup {c} \in SUBSET C(k)
    <3>1. c \in C(k)
      BY <2>5, <2>6
    <3>2. \A i \in all : i \in Nat
      BY <1>2 DEF all
    <3>3. \A i \in Nat : i < q => i < r
      BY <2>1, <2>5
    <3>4. C(k - 1) \subseteq C(k)
      BY <3>2, <3>3
    <3> HIDE DEF C
    <3> QED  BY <3>1, <3>4
  <2> HIDE DEF C
  <2>9. Cardinality(C(k - 1) \cup {c}) = Cardinality(C(k - 1)) + 1
    BY <1>3, <2>7, FS_AddElement
  <2>10. Cardinality(C(k - 1) \cup {c}) <= Cardinality(C(k))
    BY <1>3, <2>8, FS_Subset
  <2>11. k - 1 <= Cardinality(C(k - 1))
    BY <1>5
  <2>12. k <= Cardinality(C(k))
    <3> DEFINE i == Cardinality(C(k - 1))
               j == Cardinality(C(k))
    <3>1. i \in Nat /\ j \in Nat /\ i + 1 <= j /\ k - 1 <= i /\ k \in Nat
      BY <1>1, <1>3, <2>9, <2>10, <2>11
    <3> HIDE DEF i, j
    <3>2. k <= j
      BY <3>1
    <3> QED  BY <3>2 DEF j
  <2>13. k \in 0 .. n
    BY <1>1
  <2> QED  BY <2>12, <2>13
<1> HIDE DEF S
<1>6. \A k \in 0 .. n : k \in S
  BY <1>1, <1>4, <1>5, Climb
<1>7. n \in 0 .. n
  BY <1>1
<1>8. n <= Cardinality(C(n))
  BY <1>6, <1>7 DEF S
<1> HIDE DEF C, all
<1>9. \A i \in Nat, j \in Nat : n <= i /\ i <= j => n <= j
  BY <1>1
<1>10. n <= Colons(s)
  BY <1>2, <1>3, <1>8, <1>9
<1> QED  BY <1>10

\* n rounds of the reader of an entry, from p and e on, and then no more
Rounds(s, p, e, r, n) ==
    /\ r[0] = Done(e, p)
    /\ \A k \in 1 .. n : r[k] = ParseMember(s, r[k - 1])
    /\ ParseMember(s, r[n]) = r[n]

LEMMA RoundsRead ==
    ASSUME NEW s \in Text, NEW p, NEW e, NEW r, NEW n \in Nat, Rounds(s, p, e, r, n),
           n <= Colons(s) + 1
    PROVE  ParseMembers(s, p, e) = r[n]
<1> DEFINE room == Colons(s) + 1
           w == [k \in 0 .. room |-> IF k <= n THEN r[k] ELSE r[n]]
           Body(f, k) == IF k = 0 THEN Done(e, p) ELSE ParseMember(s, f[k - 1])
           read == CHOOSE f : f = [k \in 0 .. room |-> Body(f, k)]
<1>1. room \in Nat /\ n <= room
  <2>1. Colons(s) \in Nat
    BY ColonsType
  <2> QED  BY <2>1
<1>2. /\ r[0] = Done(e, p)
      /\ \A k \in 1 .. n : r[k] = ParseMember(s, r[k - 1])
      /\ ParseMember(s, r[n]) = r[n]
  BY DEF Rounds
<1>3. ParseMembers(s, p, e) = read[room]
  BY DEF ParseMembers, Colons
<1> HIDE DEF room
<1>4. w[0] = Done(e, p) /\ w[room] = r[n]
  <2>1. 0 <= n /\ 0 \in 0 .. room /\ room \in 0 .. room
    BY <1>1
  <2>2. room <= n => room = n
    BY <1>1
  <2> QED  BY <1>2, <2>1, <2>2
<1>5. ASSUME NEW k \in 1 .. room
      PROVE  w[k] = ParseMember(s, w[k - 1])
  <2>1. k \in 0 .. room /\ k - 1 \in 0 .. room
    BY <1>1
  <2>2. CASE k <= n
    <3>1. k \in 1 .. n /\ k - 1 <= n
      BY <1>1, <2>2
    <3>2. w[k - 1] = r[k - 1] /\ w[k] = r[k]
      BY <2>1, <2>2, <3>1
    <3> HIDE DEF w
    <3> QED  BY <1>2, <3>1, <3>2
  <2>3. CASE ~(k <= n)
    <3>1. w[k] = r[n]
      BY <2>1, <2>3
    <3>2. w[k - 1] = r[n]
      <4>1. k - 1 <= n => k - 1 = n
        BY <1>1, <2>3
      <4> QED  BY <2>1, <4>1
    <3> HIDE DEF w
    <3> QED  BY <1>2, <3>1, <3>2
  <2> QED  BY <2>2, <2>3
<1>6. w = [k \in 0 .. room |-> Body(w, k)]
  <2>1. \A k \in 0 .. room : w[k] = Body(w, k)
    <3>1. \A k \in 0 .. room : k # 0 => k \in 1 .. room
      BY <1>1
    <3> HIDE DEF w
    <3> QED  BY <1>4, <1>5, <3>1
  <2>2. w = [k \in 0 .. room |-> w[k]]
    OBVIOUS
  <2> HIDE DEF Body, w
  <2> QED  BY <2>1, <2>2
<1> HIDE DEF w
<1>7. read = [k \in 0 .. room |-> Body(read, k)]
  <2> HIDE DEF Body
  <2> QED  BY <1>6
<1> HIDE DEF read
<1>8. read[room] = w[room]
  <2>1. \A k \in 0 .. room : read[k] = Body(read, k)
    <3> HIDE DEF Body
    <3> QED  BY <1>7
  <2>2. 0 \in 0 .. room /\ room \in 0 .. room /\ \A k \in 1 .. room : k \in 0 .. room /\ k # 0
    BY <1>1
  <2>3. read[0] = Done(e, p) /\ \A k \in 1 .. room : read[k] = ParseMember(s, read[k - 1])
    BY <2>1, <2>2
  <2>4. InStep(read, w, room)
    BY <1>4, <1>5, <2>3 DEF InStep
  <2>5. Agree(read, w, room)
    BY <1>1, <2>4, LoopsAgree
  <2> QED  BY <2>2, <2>5 DEF Agree
<1> QED  BY <1>3, <1>4, <1>8

\* The entry a reader has after k fields of e
Part(e, k) ==
    [node_id |-> IF k >= 1 THEN e.node_id ELSE <<>>,
     vc |-> IF k >= 2 THEN e.vc ELSE [i \in {} |-> 0],
     timestamp |-> IF k >= 3 THEN e.timestamp ELSE 0,
     level |-> IF k >= 4 THEN e.level ELSE "DEBUG",
     message |-> IF k >= 5 THEN Printed(e.message) ELSE <<>>,
     metadata |-> <<>>]

LEMMA PartSteps ==
    ASSUME NEW e
    PROVE  /\ Part(e, 0) = NoEntry
           /\ WithNodeId(Part(e, 0), e.node_id) = Part(e, 1)
           /\ WithClock(Part(e, 1), e.vc) = Part(e, 2)
           /\ WithTimestamp(Part(e, 2), e.timestamp) = Part(e, 3)
           /\ WithLevel(Part(e, 3), e.level) = Part(e, 4)
           /\ WithMessage(Part(e, 4), Printed(e.message)) = Part(e, 5)
           /\ Part(e, 5) = Part(e, 6)
<1>1. Part(e, 0) = NoEntry
  BY DEF Part, NoEntry
<1>2. WithNodeId(Part(e, 0), e.node_id) = Part(e, 1)
  BY DEF Part, WithNodeId
<1>3. WithClock(Part(e, 1), e.vc) = Part(e, 2)
  BY DEF Part, WithClock
<1>4. WithTimestamp(Part(e, 2), e.timestamp) = Part(e, 3)
  BY DEF Part, WithTimestamp
<1>5. WithLevel(Part(e, 3), e.level) = Part(e, 4)
  BY DEF Part, WithLevel
<1>6. WithMessage(Part(e, 4), Printed(e.message)) = Part(e, 5)
  BY DEF Part, WithMessage
<1>7. Part(e, 5) = Part(e, 6)
  BY DEF Part
<1> QED  BY <1>1, <1>2, <1>3, <1>4, <1>5, <1>6, <1>7

LEMMA PartPlain ==
    ASSUME NEW e, WellMade(e)
    PROVE  Part(e, 5) = Plain(e)
<1>1. PICK n \in 0 .. VC_MAX_NODES : e \in Entry(n)
  BY DEF WellMade
<1>2. e = [node_id |-> e.node_id, vc |-> e.vc, timestamp |-> e.timestamp, level |-> e.level,
           message |-> e.message, metadata |-> e.metadata]
  BY <1>1 DEF Entry
<1>3. Plain(e) = [node_id |-> e.node_id, vc |-> e.vc, timestamp |-> e.timestamp,
                  level |-> e.level, message |-> Printed(e.message), metadata |-> <<>>]
  <2>1. ASSUME NEW a, NEW b, NEW c, NEW d, NEW f, NEW g
        PROVE  Plain([node_id |-> a, vc |-> b, timestamp |-> c, level |-> d, message |-> f,
                      metadata |-> g])
                   = [node_id |-> a, vc |-> b, timestamp |-> c, level |-> d,
                      message |-> Printed(f), metadata |-> <<>>]
    <3> DEFINE none == <<>>
               x == [node_id |-> a, vc |-> b, timestamp |-> c, level |-> d, message |-> f,
                     metadata |-> g]
               y == [node_id |-> a, vc |-> b, timestamp |-> c, level |-> d, message |-> f,
                     metadata |-> none]
               z == [node_id |-> a, vc |-> b, timestamp |-> c, level |-> d,
                     message |-> Printed(f), metadata |-> none]
    <3>1. ASSUME NEW r
          PROVE  Plain(r) = [[r EXCEPT !.metadata = <<>>] EXCEPT !.message = Printed(@)]
      BY DEF Plain
    <3>2. Plain(x) = [[x EXCEPT !.metadata = none] EXCEPT !.message = Printed(@)]
      <4> HIDE DEF x
      <4> QED  BY <3>1
    <3> HIDE DEF none
    <3>3. [x EXCEPT !.metadata = none] = y
      OBVIOUS
    <3>4. [y EXCEPT !.message = Printed(@)] = z
      OBVIOUS
    <3>5. Plain(x) = z
      <4> HIDE DEF x, y, z
      <4> QED  BY <3>2, <3>3, <3>4
    <3> QED  BY <3>5 DEF none
  <2> DEFINE a == e.node_id
             b == e.vc
             c == e.timestamp
             d == e.level
             f == e.message
             g == e.metadata
  <2>2. e = [node_id |-> a, vc |-> b, timestamp |-> c, level |-> d, message |-> f,
             metadata |-> g]
    BY <1>2
  <2> HIDE DEF a, b, c, d, f, g
  <2>3. Plain(e) = [node_id |-> a, vc |-> b, timestamp |-> c, level |-> d,
                    message |-> Printed(f), metadata |-> <<>>]
    BY <2>1, <2>2
  <2> QED  BY <2>3 DEF a, b, c, d, f, g
<1>4. Part(e, 5) = [node_id |-> e.node_id, vc |-> e.vc, timestamp |-> e.timestamp,
                    level |-> e.level, message |-> Printed(e.message), metadata |-> <<>>]
  BY DEF Part
<1> QED  BY <1>3, <1>4

\* Each field of an entry gives its part of it.
LEMMA FieldRead ==
    ASSUME NEW e, WellMade(e), NEW k \in 1 .. 6, NEW s \in Text
    PROVE  Understood(s, FieldKey(k), FieldValue(e, k), Part(e, k - 1), Part(e, k))
<1>1. /\ LOG_MESSAGE_MAX_LEN \in Nat \ {0} /\ NODE_ID_MAX_LEN \in Nat
      /\ NODE_ID_MAX_LEN <= LOG_MESSAGE_MAX_LEN /\ KEY_SIZE \in Nat /\ KEY_SIZE >= 4
      /\ LOG_MESSAGE_MAX_LEN \in Nat
  BY Sizes
<1>2. /\ Fits(e.node_id, NODE_ID_MAX_LEN) /\ Printed(e.node_id) = e.node_id
      /\ \E n \in 0 .. VC_MAX_NODES : e.vc \in Clock(n)
      /\ e.timestamp \in Nat /\ e.level \in Levels
      /\ Fits(e.message, LOG_MESSAGE_MAX_LEN)
      /\ Inside(e.metadata) \in Text /\ AllIn(Inside(e.metadata), InnerChar)
  BY <1>1, EntryParts
<1>3. CASE k = 1
  <2> DEFINE src == e.node_id
             x == Part(e, 0)
  <2>1. Fits(src, NODE_ID_MAX_LEN) /\ Printed(src) = src
    BY <1>2
  <2>2. WithNodeId(x, src) = Part(e, 1) /\ k - 1 = 0
    BY <1>3, PartSteps
  <2>3. FieldKey(k) = NodeIdKey /\ FieldValue(e, k) = Esc(src)
    BY <1>3 DEF FieldKey, FieldValue
  <2> HIDE DEF src, x
  <2>4. Understood(s, NodeIdKey, Esc(src), x, WithNodeId(x, src))
    BY <1>1, <2>1, NodeIdRead
  <2> QED  BY <1>3, <2>2, <2>3, <2>4 DEF x
<1>4. CASE k = 2
  <2> DEFINE vc == e.vc
             x == Part(e, 1)
  <2>1. PICK n \in 0 .. VC_MAX_NODES : vc \in Clock(n)
    BY <1>2
  <2>2. WithClock(x, vc) = Part(e, 2) /\ k - 1 = 1
    BY <1>4, PartSteps
  <2>3. FieldKey(k) = ClockWord /\ FieldValue(e, k) = vc_to_json(vc)
    BY <1>4 DEF FieldKey, FieldValue
  <2> HIDE DEF vc, x
  <2>4. n \in Nat /\ n <= VC_MAX_NODES
    BY DEF VC_MAX_NODES
  <2>5. Understood(s, ClockWord, vc_to_json(vc), x, WithClock(x, vc))
    BY <1>1, <2>1, <2>4, ClockValueRead
  <2> QED  BY <1>4, <2>2, <2>3, <2>5 DEF x
<1>5. CASE k = 3
  <2> DEFINE m == e.timestamp
             x == Part(e, 2)
  <2>1. m \in Nat
    BY <1>2
  <2>2. WithTimestamp(x, m) = Part(e, 3) /\ k - 1 = 2
    BY <1>5, PartSteps
  <2>3. FieldKey(k) = TimestampKey /\ FieldValue(e, k) = Decimal(m)
    BY <1>5 DEF FieldKey, FieldValue
  <2> HIDE DEF m, x
  <2>4. Understood(s, TimestampKey, Decimal(m), x, WithTimestamp(x, m))
    BY <2>1, TimestampRead
  <2> QED  BY <1>5, <2>2, <2>3, <2>4 DEF x
<1>6. CASE k = 4
  <2> DEFINE c == e.level
             x == Part(e, 3)
  <2>1. c \in Levels
    BY <1>2
  <2>2. WithLevel(x, c) = Part(e, 4) /\ k - 1 = 3
    BY <1>6, PartSteps
  <2>3. FieldKey(k) = LevelKey /\ FieldValue(e, k) = Quoted(<<c>>)
    BY <1>6 DEF FieldKey, FieldValue
  <2> HIDE DEF c, x
  <2>4. Understood(s, LevelKey, Quoted(<<c>>), x, WithLevel(x, c))
    BY <1>1, <2>1, LevelRead
  <2> QED  BY <1>6, <2>2, <2>3, <2>4 DEF x
<1>7. CASE k = 5
  <2> DEFINE src == e.message
             x == Part(e, 4)
  <2>1. Fits(src, LOG_MESSAGE_MAX_LEN)
    BY <1>2
  <2>2. WithMessage(x, Printed(src)) = Part(e, 5) /\ k - 1 = 4
    BY <1>7, PartSteps
  <2>3. FieldKey(k) = MessageKey /\ FieldValue(e, k) = Esc(src)
    BY <1>7 DEF FieldKey, FieldValue
  <2> HIDE DEF src, x
  <2>4. Understood(s, MessageKey, Esc(src), x, WithMessage(x, Printed(src)))
    BY <1>1, <2>1, MessageRead
  <2> QED  BY <1>7, <2>2, <2>3, <2>4 DEF x
<1>8. CASE k = 6
  <2> DEFINE w == Inside(e.metadata)
             x == Part(e, 5)
  <2>1. w \in Text /\ AllIn(w, InnerChar)
    BY <1>2
  <2>2. x = Part(e, 6) /\ k - 1 = 5
    BY <1>8, PartSteps
  <2>3. FieldKey(k) = MetadataKey /\ FieldValue(e, k) = Braced(w)
    BY <1>8 DEF FieldKey, FieldValue
  <2> HIDE DEF w, x
  <2>4. Understood(s, MetadataKey, Braced(w), x, x)
    BY <2>1, MetadataRead
  <2> QED  BY <1>8, <2>2, <2>3, <2>4 DEF x
<1>9. k = 1 \/ k = 2 \/ k = 3 \/ k = 4 \/ k = 5 \/ k = 6
  OBVIOUS
<1> QED  BY <1>3, <1>4, <1>5, <1>6, <1>7, <1>8, <1>9

\* At a brace a reader of an entry stops.
LEMMA BraceStops ==
    ASSUME NEW s, NEW e, NEW p, s[p] = "}"
    PROVE  ParseMember(s, Done(e, p)) = Done(e, p)
<1> DEFINE r == Done(e, p)
<1>1. r.p = p
  BY DEF Done
<1> HIDE DEF r
<1>2. s[r.p] \in {NUL, "}"}
  BY <1>1
<1>3. ParseMember(s, r) = r
  BY <1>2 DEF ParseMember
<1> QED  BY <1>3 DEF r

\* The rounds in which a reader takes the fields of e
LEMMA EntryRounds ==
    ASSUME NEW e, WellMade(e), NEW s \in Text, NEW p, FieldsAt(s, p, EntryFields(e))
    PROVE  \E r, q : /\ Rounds(s, p, NoEntry, r, FieldCount(e))
                     /\ r[FieldCount(e)] = Done(Plain(e), q)
                     /\ FieldCount(e) <= Colons(s)
<1> DEFINE n == FieldCount(e)
           fields == EntryFields(e)
           last == p + Len(Commas(fields))
<1>1. LOG_MESSAGE_MAX_LEN \in Nat /\ KEY_SIZE \in Nat \ {0} /\ 1 < KEY_SIZE
  BY Sizes
<1>2. /\ n \in 5 .. 6 /\ fields \in Seq(Text) /\ Len(fields) = n /\ AreFields(fields)
      /\ \A k \in 1 .. n : fields[k] = Member(FieldKey(k), FieldValue(e, k))
  BY <1>1, EntryFieldsType
<1>3. FieldsAt(s, p, fields)
  OBVIOUS
<1>4. s[last] = "}"
  BY <1>3 DEF FieldsAt
<1> HIDE DEF n, fields
<1>5. PICK b : Listed(s, b, fields) /\ b[0] = p /\ b[n] = last
  BY <1>2, <1>3, FieldsListed
<1>6. ASSUME NEW k \in 1 .. n
      PROVE  /\ IsKey(FieldKey(k)) /\ Begins(FieldValue(e, k)) /\ k \in 1 .. 6
  <2>1. k \in 1 .. 6
    BY <1>2
  <2> QED  BY <1>1, <2>1, FieldTypes
<1>7. ASSUME NEW k \in 1 .. n
      PROVE  ParseMember(s, Done(Part(e, k - 1), b[k - 1])) = Done(Part(e, k), b[k])
  <2> DEFINE key == FieldKey(k)
             value == FieldValue(e, k)
             x == Part(e, k - 1)
             y == Part(e, k)
             t == b[k - 1]
             u == b[k]
  <2>1. IsKey(key) /\ Begins(value)
    BY <1>6
  <2>2. Understood(s, key, value, x, y)
    <3>1. k \in 1 .. 6
      BY <1>6
    <3> QED  BY <3>1, FieldRead
  <2>3. fields[k] = Member(key, value)
    BY <1>2
  <2> HIDE DEF key, value, x, y
  <2>4. MemberAt(s, t, key, value, u)
    BY <1>2, <1>5, <2>3 DEF Listed, MemberAt
  <2> HIDE DEF t, u
  <2>6. ParseMember(s, Done(x, t)) = Done(y, u)
    <3>1. IsKey(key)
      BY <2>1
    <3>2. Begins(value)
      BY <2>1
    <3> QED  BY <3>1, <3>2, <2>2, <2>4, MemberRead
  <2> QED  BY <2>6 DEF x, y, t, u
<1>8. n <= Colons(s)
  <2>1. AreMembers(fields)
    <3>1. \A k \in 1 .. n : FieldKey(k) \in Text /\ FieldValue(e, k) \in Text
      BY <1>6 DEF IsKey, Begins
    <3> QED  BY <1>2, <3>1 DEF AreMembers
  <2> QED  BY <1>2, <1>5, <2>1, ColonsListed
<1> DEFINE r == [k \in 0 .. n |-> Done(Part(e, k), b[k])]
<1>9. \A k \in 0 .. n : r[k] = Done(Part(e, k), b[k])
  OBVIOUS
<1> HIDE DEF r
<1>10. 0 \in 0 .. n /\ n \in 0 .. n /\ \A k \in 1 .. n : k \in 0 .. n /\ k - 1 \in 0 .. n
  BY <1>2
<1>11. r[0] = Done(NoEntry, p)
  BY <1>5, <1>9, <1>10, PartSteps
<1>12. r[n] = Done(Plain(e), last)
  <2>1. Part(e, n) = Plain(e)
    <3>1. n = 5 \/ n = 6
      BY <1>2
    <3> QED  BY <3>1, PartSteps, PartPlain
  <2> QED  BY <1>5, <1>9, <1>10, <2>1
<1>13. \A k \in 1 .. n : r[k] = ParseMember(s, r[k - 1])
  BY <1>7, <1>9, <1>10
<1> HIDE DEF last
<1>14. ParseMember(s, r[n]) = r[n]
  BY <1>4, <1>12, BraceStops
<1>15. Rounds(s, p, NoEntry, r, n)
  BY <1>11, <1>13, <1>14 DEF Rounds
<1> QED  BY <1>8, <1>12, <1>15 DEF n

\* s begins with a brace, and what follows it begins with no space.
IsObject(s) == 1 \in 1 .. Len(s) /\ s[1] = "{" /\ skip_ws(s, 2) = 2

LEMMA ObjectRead ==
    ASSUME NEW s \in Text, IsObject(s)
    PROVE  log_entry_from_json(s) = ParseMembers(s, 2, NoEntry)
<1> DEFINE brace == "{"
           p == 1
<1>1. p \in 1 .. Len(s) /\ s[p] = brace /\ skip_ws(s, 2) = 2 /\ brace \notin Space
  BY SpaceChars DEF IsObject
<1>2. log_entry_from_json(s) =
          LET q == skip_ws(s, 1)
          IN  IF s[q] = brace THEN ParseMembers(s, skip_ws(s, q + 1), NoEntry) ELSE Failed
  BY DEF log_entry_from_json
<1>3. p + 1 = 2
  OBVIOUS
<1> HIDE DEF brace
<1>4. skip_ws(s, p) = p
  <2> HIDE DEF p
  <2> QED  BY <1>1, NoSpace
<1> QED  BY <1>1, <1>2, <1>3, <1>4

\* The text of an entry gives the entry, less what Plain leaves out.
LEMMA EntryRead ==
    ASSUME NEW e, WellMade(e), NEW s \in Text, IsObject(s),
           FieldsAt(s, 2, EntryFields(e))
    PROVE  \E q : log_entry_from_json(s) = Done(Plain(e), q)
<1> DEFINE n == FieldCount(e)
<1>1. LOG_MESSAGE_MAX_LEN \in Nat
  BY Sizes
<1>2. n \in 5 .. 6 /\ EntryFields(e) \in Seq(Text) /\ AreFields(EntryFields(e))
  BY <1>1, EntryFieldsType
<1>5. log_entry_from_json(s) = ParseMembers(s, 2, NoEntry)
  BY ObjectRead
<1>6. PICK r, q : /\ Rounds(s, 2, NoEntry, r, n)
                  /\ r[n] = Done(Plain(e), q)
                  /\ n <= Colons(s)
  BY EntryRounds
<1> HIDE DEF n
<1>7. n \in Nat /\ n <= Colons(s) + 1
  <2>1. Colons(s) \in Nat
    BY ColonsType
  <2> QED  BY <1>2, <1>6, <2>1
<1>8. ParseMembers(s, 2, NoEntry) = r[n]
  BY <1>6, <1>7, RoundsRead
<1> QED  BY <1>5, <1>6, <1>8

-----------------------------------------------------------------------------
(***************************************************************************)
(* A member another version of the agent adds is skipped.                   *)
(***************************************************************************)

\* The characters of a number or a word
WordChar == Char \ {NUL, ",", "}"}

LEMMA WordSkipped ==
    ASSUME NEW s \in Text, NEW p, NEW u \in Text, AllIn(u, WordChar), Has(s, p, u),
           p + Len(u) \in 1 .. Len(s), s[p + Len(u)] \in Separators
    PROVE  SkipWord(s, p) = p + Len(u)
<1> DEFINE W == {NUL, ",", "}"}
           last == p + Len(u)
           l == Len(s)
           n == Len(u)
           P(x) == s[x] \in W /\ \A j \in p .. x - 1 : s[j] \notin W
           found == CHOOSE x \in p .. l : P(x)
<1>1. SkipWord(s, p) = found
  BY DEF SkipWord
<1>2. s[last] \in W
  BY DEF Separators
<1>3. \A i \in 1 .. n : u[i] \notin W
  BY DEF AllIn, WordChar
<1>4. p \in Nat \ {0} /\ l \in Nat /\ n \in Nat /\ \A i \in 1 .. n : s[p + i - 1] = u[i]
  BY LenText DEF Has
<1>5. last \in 1 .. l
  OBVIOUS
<1> HIDE DEF W, n, l
<1>6. last = p + n
  BY DEF n
<1> HIDE DEF last
<1>7. last \in p .. l
  BY <1>4, <1>5, <1>6
<1>8. ASSUME NEW j \in p .. last - 1
      PROVE  s[j] \notin W
  <2>1. j - p + 1 \in 1 .. n /\ j = p + (j - p + 1) - 1
    BY <1>4, <1>6
  <2> DEFINE i == j - p + 1
  <2>2. i \in 1 .. n /\ j = p + i - 1
    BY <2>1
  <2> HIDE DEF i
  <2> QED  BY <1>3, <1>4, <2>2
<1>9. ASSUME NEW x \in p .. l, P(x)
      PROVE  x = last
  <2>1. ~(x < last)
    <3> SUFFICES ASSUME x < last PROVE FALSE
      OBVIOUS
    <3>1. x \in p .. last - 1
      BY <1>4, <1>7
    <3> QED  BY <3>1, <1>8, <1>9
  <2>2. ~(last < x)
    <3> SUFFICES ASSUME last < x PROVE FALSE
      OBVIOUS
    <3>1. last \in p .. x - 1
      BY <1>4, <1>7
    <3> QED  BY <3>1, <1>2, <1>9
  <2> QED  BY <2>1, <2>2, <1>4, <1>7
<1>10. P(last)
  BY <1>2, <1>8
<1> HIDE DEF P
<1>11. found \in p .. l /\ P(found)
  BY <1>7, <1>10
<1> HIDE DEF found
<1> QED  BY <1>1, <1>9, <1>11 DEF last

\* The values of an unknown member
Skipped(u) ==
    /\ u \in Text /\ Len(u) # 0 /\ AllIn(u, Char \ {NUL})
    /\ Flat(u) \/ Enclosed(u, "{", "}") \/ Enclosed(u, "[", "]")

LEMMA EnclosedClosed ==
    ASSUME NEW u \in Text, Len(u) # 0, AllIn(u, Char \ {NUL}), NEW open, NEW close,
           Enclosed(u, open, close)
    PROVE  Closed(u, open, close) /\ u[1] = open
BY DEF Enclosed, Closed

LEMMA UnknownSkipped ==
    ASSUME NEW s \in Text, NEW p, NEW u, Skipped(u), Has(s, p, u),
           p + Len(u) \in 1 .. Len(s), s[p + Len(u)] \in Separators
    PROVE  SkipUnknown(s, p) = p + Len(u)
<1>1. u \in Text /\ Len(u) # 0 /\ AllIn(u, Char \ {NUL})
  BY DEF Skipped
<1>2. s[p] = u[1]
  <2>1. 1 \in 1 .. Len(u) /\ p \in Nat
    BY <1>1, LenText DEF Has
  <2>2. p + 1 - 1 = p
    BY <2>1
  <2> QED  BY <2>1, <2>2 DEF Has
<1> DEFINE last == p + Len(u)
<1>3. CASE Flat(u)
  <2>1. s[p] \notin {Quote, "{", "["}
    BY <1>2, <1>3 DEF Flat
  <2>2. AllIn(u, WordChar)
    <3>1. DOMAIN u = 1 .. Len(u)
      BY <1>1, LenProperties DEF Text
    <3> QED  BY <1>1, <1>3, <3>1 DEF Flat, AllIn, WordChar
  <2>3. SkipWord(s, p) = last
    BY <1>1, <2>2, WordSkipped
  <2> HIDE DEF last
  <2> QED  BY <2>1, <2>3 DEF SkipUnknown, last
<1>4. CASE Enclosed(u, "{", "}")
  <2> DEFINE open == "{"
             close == "}"
  <2>1. Enclosed(u, open, close)
    BY <1>4
  <2>2. open # Quote /\ SkipObject(s, p) = IF s[p] = open THEN SkipNested(s, p, open, close) ELSE p
    BY DEF SkipObject, Quote
  <2>3. s[p] = open /\ s[p] # Quote => SkipUnknown(s, p) = SkipObject(s, p)
    BY DEF SkipUnknown
  <2> HIDE DEF open, close
  <2>4. Closed(u, open, close) /\ u[1] = open
    BY <1>1, <2>1, EnclosedClosed
  <2>5. SkipNested(s, p, open, close) = last
    BY <2>4, NestedSkipped
  <2> HIDE DEF last
  <2> QED  BY <1>2, <2>2, <2>3, <2>4, <2>5 DEF last
<1>5. CASE Enclosed(u, "[", "]")
  <2> DEFINE open == "["
             close == "]"
  <2>1. Enclosed(u, open, close)
    BY <1>5
  <2>2. open # Quote /\ open # "{"
    BY DEF Quote
  <2>3. s[p] = open => SkipUnknown(s, p) = SkipNested(s, p, open, close)
    BY <2>2 DEF SkipUnknown
  <2> HIDE DEF open, close
  <2>4. Closed(u, open, close) /\ u[1] = open
    BY <1>1, <2>1, EnclosedClosed
  <2>5. SkipNested(s, p, open, close) = last
    BY <2>4, NestedSkipped
  <2> HIDE DEF last
  <2> QED  BY <1>2, <2>3, <2>4, <2>5 DEF last
<1> QED  BY <1>3, <1>4, <1>5 DEF Skipped

LEMMA UnknownValue ==
    ASSUME NEW k, k \notin {"node_id", "vector_clock", "timestamp", "level", "message", "metadata"},
           NEW s, NEW p, NEW e
    PROVE  ParseValue(<<k>>, s, p, e) = Done(e, SkipUnknown(s, p))
BY DEF ParseValue

\* An unknown member has a key any reader can read and a value it skips.
LEMMA UnknownRead ==
    ASSUME NEW x, UnknownMember(x), NEW s \in Text, NEW e
    PROVE  \E key, value : /\ x = Member(key, value)
                           /\ IsKey(key) /\ Begins(value) /\ Skipped(value)
                           /\ Understood(s, key, value, e, e)
<1> DEFINE k == x[2]
           key == <<k>>
           value == SubSeq(x, 5, Len(x))
           known == {"node_id", "vector_clock", "timestamp", "level", "message", "metadata"}
<1>1. /\ k \in STRING /\ k \notin {Quote, NUL, Backslash} /\ k \notin known
      /\ value \in String /\ value # <<>>
      /\ x = Member(key, value)
      /\ Flat(value) \/ Enclosed(value, "{", "}") \/ Enclosed(value, "[", "]")
  BY DEF UnknownMember
<1> HIDE DEF value
<1>2. value \in Text /\ AllIn(value, Char \ {NUL})
  BY <1>1, StringText
<1>3. Len(value) # 0
  BY <1>1, <1>2, EmptySeq DEF Text
<1>4. Skipped(value)
  BY <1>1, <1>2, <1>3 DEF Skipped
<1>5. value[1] \notin Space
  <2>1. "{" \notin Space /\ "[" \notin Space
    BY DEF Space
  <2> QED  BY <1>1, <2>1 DEF Flat, Enclosed
<1>6. Begins(value)
  BY <1>2, <1>3, <1>5 DEF Begins
<1> HIDE DEF k
<1>7. IsKey(key)
  <2>1. k \in Char /\ k \in PlainChar
    BY <1>1 DEF Char, PlainChar
  <2> QED  BY <2>1, OneChar, AllInOne DEF IsKey
<1>8. \A p : ParseValue(key, s, p, e) = Done(e, SkipUnknown(s, p))
  BY <1>1, UnknownValue
<1> HIDE DEF key
<1>9. Understood(s, key, value, e, e)
  <2> SUFFICES ASSUME NEW t, Has(s, t, value), t + Len(value) \in 1 .. Len(s),
                      s[t + Len(value)] \in Separators
               PROVE  ParseValue(key, s, t, e) = Done(e, t + Len(value))
    BY DEF Understood
  <2>1. SkipUnknown(s, t) = t + Len(value)
    BY <1>4, UnknownSkipped
  <2> QED  BY <1>8, <2>1
<1> QED  BY <1>1, <1>4, <1>6, <1>7, <1>9

\* One round more in front of others
LEMMA RoundBefore ==
    ASSUME NEW s, NEW p, NEW p0, NEW e, NEW e0, NEW r, NEW n \in Nat, Rounds(s, p, e, r, n),
           ParseMember(s, Done(e0, p0)) = Done(e, p)
    PROVE  \E f : Rounds(s, p0, e0, f, n + 1) /\ f[n + 1] = r[n]
<1> DEFINE f == [k \in 0 .. n + 1 |-> IF k = 0 THEN Done(e0, p0) ELSE r[k - 1]]
           init == Done(e0, p0)
           m == n + 1
<1>1. m \in Nat /\ m # 0 /\ m - 1 = n /\ 0 \in 0 .. m /\ m \in 0 .. m
  OBVIOUS
<1>2. \A k \in 0 .. m : f[k] = IF k = 0 THEN init ELSE r[k - 1]
  OBVIOUS
<1> HIDE DEF f
<1>3. r[0] = Done(e, p) /\ (\A k \in 1 .. n : r[k] = ParseMember(s, r[k - 1]))
      /\ ParseMember(s, r[n]) = r[n]
  BY DEF Rounds
<1> HIDE DEF init
<1>4. f[0] = init
  BY <1>1, <1>2
<1>5. f[m] = r[n]
  BY <1>1, <1>2
<1>6. ASSUME NEW k \in 1 .. m
      PROVE  f[k] = ParseMember(s, f[k - 1])
  <2>1. k \in 0 .. m /\ k # 0 /\ k - 1 \in 0 .. m
    BY <1>1
  <2>2. f[k] = r[k - 1]
    BY <1>2, <2>1
  <2>3. CASE k = 1
    <3>1. k - 1 = 0
      BY <2>3
    <3>2. f[k - 1] = init /\ f[k] = r[0]
      BY <1>4, <2>2, <3>1
    <3> QED  BY <1>3, <3>2 DEF init
  <2>4. CASE k # 1
    <3> DEFINE j == k - 1
    <3>1. j \in 1 .. n /\ j \in 0 .. m /\ j # 0
      BY <2>4
    <3>2. f[k] = r[j] /\ f[k - 1] = f[j]
      BY <2>2
    <3> HIDE DEF j
    <3>3. f[j] = r[j - 1]
      BY <1>2, <3>1
    <3> QED  BY <1>3, <3>1, <3>2, <3>3
  <2> QED  BY <2>3, <2>4
<1>7. Rounds(s, p0, e0, f, m)
  BY <1>3, <1>4, <1>5, <1>6 DEF Rounds, init
<1> HIDE DEF m
<1>8. \E g : Rounds(s, p0, e0, g, m) /\ g[m] = r[n]
  BY <1>5, <1>7
<1> QED  BY <1>8 DEF m

\* An entry with an unknown member before its fields is read as without it.
LEMMA ExtendedRead ==
    ASSUME NEW e, WellMade(e), NEW s \in Text, IsObject(s), NEW key, NEW value, NEW p,
           IsKey(key), Begins(value), MemberAt(s, 2, key, value, p),
           Understood(s, key, value, NoEntry, NoEntry),
           FieldsAt(s, p, EntryFields(e))
    PROVE  \E q : log_entry_from_json(s) = Done(Plain(e), q)
<1> DEFINE n == FieldCount(e)
<1>1. LOG_MESSAGE_MAX_LEN \in Nat
  BY Sizes
<1>2. n \in 5 .. 6
  BY <1>1, EntryFieldsType
<1>3. log_entry_from_json(s) = ParseMembers(s, 2, NoEntry)
  BY ObjectRead
<1>4. PICK r, q : /\ Rounds(s, p, NoEntry, r, n)
                  /\ r[n] = Done(Plain(e), q)
                  /\ n <= Colons(s)
  BY EntryRounds
<1> HIDE DEF n
<1>5. n \in Nat
  BY <1>2
<1>6. ParseMember(s, Done(NoEntry, 2)) = Done(NoEntry, p)
  BY MemberRead
<1>7. PICK f : Rounds(s, 2, NoEntry, f, n + 1) /\ f[n + 1] = r[n]
  BY <1>4, <1>5, <1>6, RoundBefore
<1> DEFINE m == n + 1
<1>8. m \in Nat /\ m <= Colons(s) + 1
  <2>1. Colons(s) \in Nat
    BY ColonsType
  <2> QED  BY <1>4, <1>5, <2>1
<1>9. Rounds(s, 2, NoEntry, f, m) /\ f[m] = r[n]
  BY <1>7
<1> HIDE DEF m
<1>10. ParseMembers(s, 2, NoEntry) = f[m]
  BY <1>8, <1>9, RoundsRead
<1> QED  BY <1>3, <1>4, <1>9, <1>10

-----------------------------------------------------------------------------
(***************************************************************************)
(* The text of an entry, as it is and with a member more, is read.           *)
(***************************************************************************)

Json(e) == Braced(Commas(EntryFields(e)))

\* src with the member x in front of the others
Extended(x, src) == <<"{">> \o x \o <<",">> \o Tail(src)

LEMMA FieldsText ==
    ASSUME NEW e, WellMade(e)
    PROVE  Commas(EntryFields(e)) \in Text
<1>1. LOG_MESSAGE_MAX_LEN \in Nat
  BY Sizes
<1> DEFINE fields == EntryFields(e)
<1>2. fields \in Seq(Text)
  BY <1>1, EntryFieldsType
<1> HIDE DEF fields
<1>3. AllIn(Comma, Char) /\ \A k \in 1 .. Len(fields) : AllIn(fields[k], Char)
  BY <1>2, CommaType, ElementOfSeq DEF AllIn, Text
<1>4. Commas(fields) \in Text
  BY <1>2, <1>3, CommasAllIn
<1> QED  BY <1>4 DEF fields

LEMMA JsonType ==
    ASSUME NEW e, WellMade(e)
    PROVE  Json(e) \in Text /\ Json(e) # <<>>
<1> DEFINE u == Commas(EntryFields(e))
<1>1. u \in Text
  BY FieldsText
<1> HIDE DEF u
<1>2. Braced(u) \in Text /\ Len(Braced(u)) = Len(u) + 2 /\ Len(u) \in Nat
  BY <1>1, BracedType
<1> DEFINE w == Braced(u)
<1>3. w \in Text /\ Len(w) # 0
  BY <1>2
<1> HIDE DEF w
<1>4. w # <<>>
  BY <1>3, NoChar
<1> QED  BY <1>3, <1>4 DEF Json, u, w

\* What log_entry_to_json writes
LEMMA ToJson ==
    ASSUME NEW e, WellMade(e)
    PROVE  log_entry_to_json(e)
               = IF Len(Json(e)) < LOGAGG_MAX_ENTRY_SIZE THEN Json(e) ELSE <<>>
<1>1. LOG_MESSAGE_MAX_LEN \in Nat
  BY Sizes
<1>2. Members(e) = EntryFields(e)
  BY <1>1, MembersText
<1> QED  BY <1>2 DEF log_entry_to_json, Json, Braced

\* Where the text of an entry begins, a reader finds its fields.
LEMMA JsonAt ==
    ASSUME NEW e, WellMade(e), NEW s \in Text, Has(s, 1, Json(e))
    PROVE  IsObject(s) /\ FieldsAt(s, 2, EntryFields(e))
<1> DEFINE fields == EntryFields(e)
           u == Commas(fields)
<1>1. LOG_MESSAGE_MAX_LEN \in Nat
  BY Sizes
<1>2. fields \in Seq(Text) /\ AreFields(fields)
  BY <1>1, EntryFieldsType
<1>3. u \in Text
  BY FieldsText
<1>4. Has(s, 1, Braced(u))
  BY DEF Json
<1> HIDE DEF fields, u
<1>5. /\ 1 \in 1 .. Len(s) /\ s[1] = "{"
      /\ Has(s, 1 + 1, u)
      /\ 1 + 1 + Len(u) \in 1 .. Len(s) /\ s[1 + 1 + Len(u)] = "}"
  BY <1>3, <1>4, BracedHas
<1>6. FieldsAt(s, 2, fields)
  <2>1. 1 + 1 = 2 /\ 2 \in Nat \ {0}
    OBVIOUS
  <2> QED  BY <1>5, <2>1 DEF FieldsAt, u
<1>7. skip_ws(s, 2) = 2
  BY <1>2, <1>6, FieldsFirst
<1> QED  BY <1>5, <1>6, <1>7 DEF IsObject, fields

\* The tail of a text in braces
LEMMA BracedTail ==
    ASSUME NEW u \in Text
    PROVE  Tail(Braced(u)) = u \o <<"}">>
<1> DEFINE open == <<"{">>
           close == <<"}">>
<1>1. open \in Text /\ Len(open) = 1 /\ close \in Text /\ Len(close) = 1
  BY BracesType
<1>2. Braced(u) = open \o u \o close
  BY DEF Braced
<1> HIDE DEF open, close
<1> DEFINE v == u \o close
<1>3. v \in Text /\ open \o u \o close = open \o v
  <2>1. u \o close \in Text
    BY <1>1, TextTypes
  <2>2. (open \o u) \o close = open \o (u \o close)
    BY <1>1, ConcatAssociative DEF Text
  <2> QED  BY <2>1, <2>2
<1> HIDE DEF v
<1> DEFINE w == open \o v
<1>4. w \in Text /\ Len(w) = Len(open) + Len(v) /\ Len(v) \in Nat
      /\ \A i \in 1 .. Len(open) + Len(v) :
           w[i] = IF i <= Len(open) THEN open[i] ELSE v[i - Len(open)]
  BY <1>1, <1>3, TextTypes
<1> HIDE DEF w
<1>5. w # <<>>
  <2>1. Len(w) # 0
    BY <1>1, <1>4
  <2> QED  BY <2>1, NoChar
<1>6. Tail(w) \in Text /\ Len(Tail(w)) = Len(w) - 1
      /\ \A i \in 1 .. Len(Tail(w)) : Tail(w)[i] = w[i + 1]
  BY <1>4, <1>5, HeadTailProperties DEF Text
<1> DEFINE t == Tail(w)
<1>7. t \in Text /\ Len(t) = Len(v)
  BY <1>1, <1>4, <1>6
<1>8. \A i \in 1 .. Len(t) : t[i] = v[i]
  <2> TAKE i \in 1 .. Len(t)
  <2>1. t[i] = w[i + 1]
    BY <1>6
  <2> HIDE DEF t
  <2>2. i + 1 \in 1 .. Len(open) + Len(v) /\ ~(i + 1 <= Len(open)) /\ i + 1 - Len(open) = i
    BY <1>1, <1>4, <1>7
  <2> QED  BY <1>4, <2>1, <2>2
<1> HIDE DEF t
<1>9. t = v
  BY <1>3, <1>7, <1>8, SeqEqual DEF Text
<1> QED  BY <1>2, <1>3, <1>9 DEF t, v, w, close

LEMMA LenConcat ==
    ASSUME NEW u \in Text, NEW v \in Text
    PROVE  u \o v \in Text /\ Len(u \o v) = Len(u) + Len(v)
BY TextTypes

\* Where its extended text begins, a reader finds the new member and then its fields.
LEMMA ExtendedAt ==
    ASSUME NEW e, WellMade(e), NEW key, NEW value, IsKey(key), Begins(value),
           NEW s \in Text, Has(s, 1, Extended(Member(key, value), Json(e)))
    PROVE  \E p : /\ IsObject(s)
                  /\ MemberAt(s, 2, key, value, p)
                  /\ FieldsAt(s, p, EntryFields(e))
<1> DEFINE fields == EntryFields(e)
           u == Commas(fields)
           x == Member(key, value)
           open == <<"{">>
           close == <<"}">>
           n == Len(x)
           l == Len(u)
<1>1. LOG_MESSAGE_MAX_LEN \in Nat
  BY Sizes
<1>2. fields \in Seq(Text) /\ AreFields(fields) /\ u \in Text
  BY <1>1, EntryFieldsType, FieldsText
<1>3. x \in Text /\ n \in Nat /\ n # 0 /\ x[1] = Quote
  <2>1. key \in Text /\ value \in Text
    BY DEF IsKey, Begins
  <2>2. x \in Text /\ Len(x) # 0 /\ x[1] = Quote
    BY <2>1, MemberType, MemberFirst
  <2> HIDE DEF x
  <2> QED  BY <2>2, LenText
<1>4. open \in Text /\ Len(open) = 1 /\ close \in Text /\ Len(close) = 1
  BY BracesType
<1>0. close[1] = "}"
  BY BracesType
<1>23. Comma \in Text /\ Len(Comma) = 1
  BY CommaType
<1>5. Tail(Json(e)) = u \o close
  BY <1>2, BracedTail DEF Json
<1>6. Has(s, 1, open \o x \o Comma \o (u \o close))
  BY <1>5 DEF Extended, Comma
<1> HIDE DEF fields, u, x, open, close
<1>7. open \o x \in Text /\ (open \o x) \o Comma \in Text /\ u \o close \in Text
  <2>1. open \o x \in Text /\ u \o close \in Text
    BY <1>2, <1>3, <1>4, TextTypes
  <2> DEFINE v == open \o x
  <2>2. v \in Text
    BY <2>1
  <2> HIDE DEF v
  <2>3. v \o Comma \in Text
    BY <2>2, CommaType, TextTypes
  <2> QED  BY <2>1, <2>3 DEF v
<1>8. /\ Len(open \o x) = 1 + n /\ Len((open \o x) \o Comma) = 2 + n
  <2>1. Len(open \o x) = 1 + n
    <3>1. Len(open \o x) = Len(open) + n
      BY <1>3, <1>4, LenConcat
    <3> QED  BY <1>4, <3>1
  <2> DEFINE v == open \o x
  <2>2. v \in Text /\ Len(v) = 1 + n
    BY <1>7, <2>1
  <2> HIDE DEF v
  <2> HIDE DEF n
  <2> DEFINE m == 1 + n
  <2>3. m \in Nat /\ Len(v) = m /\ 1 \in Nat
    BY <1>3, <2>2
  <2>5. m + 1 = 2 + n
    BY <1>3
  <2> HIDE DEF m
  <2>6. Len(v \o Comma) = m + 1
    <3>1. Len(v \o Comma) = Len(v) + Len(Comma)
      BY <2>2, <1>23, LenConcat
    <3> QED  BY <2>3, <1>23, <3>1
  <2>4. Len(v \o Comma) = 2 + n
    BY <2>5, <2>6
  <2> QED  BY <2>1, <2>4 DEF v
<1> DEFINE front == (open \o x) \o Comma
           back == u \o close
           p == 3 + n
<1>9. Has(s, 1, front) /\ Has(s, 1 + Len(front), back)
  <2>1. Has(s, 1, front \o back)
    BY <1>6
  <2>2. front \in Text /\ back \in Text
    BY <1>7
  <2> HIDE DEF front, back
  <2> QED  BY <2>1, <2>2, HasConcat
<1>10. Has(s, 1, open \o x) /\ Has(s, 1 + Len(open \o x), Comma)
  <2> DEFINE v == open \o x
  <2>1. Has(s, 1, v \o Comma) /\ v \in Text
    BY <1>7, <1>9
  <2> HIDE DEF v
  <2>2. Has(s, 1, v) /\ Has(s, 1 + Len(v), Comma)
    BY <2>1, CommaType, HasConcat
  <2> QED  BY <2>2 DEF v
<1>11. Has(s, 1, open) /\ Has(s, 2, x)
  <2>1. Has(s, 1, open) /\ Has(s, 1 + Len(open), x)
    BY <1>3, <1>4, <1>10, HasConcat
  <2>2. 1 + Len(open) = 2
    BY <1>4
  <2> QED  BY <2>1, <2>2
<1> HIDE DEF n
<1>12. Has(s, 2 + n, Comma) /\ Has(s, p, back)
  <2>1. 1 + (1 + n) = 2 + n /\ 1 + (2 + n) = p
    BY <1>3
  <2> HIDE DEF p, back
  <2> QED  BY <1>8, <1>9, <1>10, <2>1
<1>13. p \in Nat \ {0} /\ 2 + n \in Nat \ {0} /\ 2 + n + 1 = p
  BY <1>3
<1> HIDE DEF p
<1>14. Has(s, p, u) /\ Has(s, p + Len(u), close)
  BY <1>2, <1>4, <1>12, HasConcat
<1>15. l \in Nat
  BY <1>2, LenText
<1>16. p + l \in 1 .. Len(s) /\ s[p + l] = close[1]
  <2> HIDE DEF l
  <2>1. Has(s, p + l, close)
    BY <1>14 DEF l
  <2>2. p + l + 1 - 1 <= Len(s) /\ 1 \in 1 .. 1 /\ \A i \in 1 .. 1 : s[p + l + i - 1] = close[i]
    BY <1>4, <2>1 DEF Has
  <2>3. p + l + 1 - 1 = p + l /\ p + l >= 1 /\ p + l \in Nat
    BY <1>13, <1>15
  <2>4. s[p + l + 1 - 1] = close[1]
    BY <2>2
  <2>5. Len(s) \in Nat
    BY LenText
  <2> QED  BY <2>2, <2>3, <2>4, <2>5
<1>17. FieldsAt(s, p, fields)
  <2>1. s[p + l] = "}"
    BY <1>0, <1>16
  <2> QED  BY <1>13, <1>14, <1>16, <2>1 DEF FieldsAt, u, l
<1>18. p \in 1 .. Len(s) /\ s[p] \notin Space
  BY <1>2, <1>17, FieldsFirst
<1>19. 2 + n \in 1 .. Len(s) /\ s[2 + n] = ","
  <2> DEFINE q == 2 + n
  <2>1. q \in Nat \ {0} /\ Has(s, q, Comma)
    BY <1>12, <1>13
  <2> HIDE DEF q
  <2>2. q <= Len(s) /\ s[q] = ","
    BY <2>1, HasOne DEF Comma
  <2>3. q \in 1 .. Len(s)
    <3>1. q <= Len(s) /\ q \in Nat \ {0}
      BY <2>1, <2>2
    <3> QED  BY <3>1, LenText
  <2> QED  BY <2>2, <2>3 DEF q
<1>20. SkipComma(s, 2 + n) = p
  <2> DEFINE q == 2 + n
  <2>1. q \in 1 .. Len(s) /\ s[q] = "," /\ q + 1 = p
    BY <1>13, <1>19
  <2> HIDE DEF q
  <2>4. q + 1 = p
    BY <2>1
  <2>5. q + 1 \in 1 .. Len(s) /\ s[q + 1] \notin Space
    BY <1>18, <2>4
  <2>2. q + 1 <= Len(s) /\ s[q + 1] \notin Space
    BY <2>5, LenText
  <2>3. SkipComma(s, q) = q + 1
    BY <2>1, <2>2, CommaRead
  <2> QED  BY <2>1, <2>3 DEF q
<1>21. MemberAt(s, 2, key, value, p)
  <2>1. s[2 + n] \in Separators
    BY <1>19 DEF Separators
  <2> QED  BY <1>11, <1>19, <1>20, <2>1 DEF MemberAt, x, n
<1>22. IsObject(s)
  <2>1. 1 <= Len(s) /\ s[1] = "{" /\ 1 \in 1 .. Len(s)
    <3>1. Has(s, 1, open) /\ 1 \in Nat \ {0}
      BY <1>11
    <3>2. 1 <= Len(s) /\ s[1] = "{"
      BY <3>1, HasOne DEF open
    <3>3. 1 <= Len(s)
      BY <3>2
    <3>4. 1 \in 1 .. Len(s)
      BY <3>3, LenText
    <3> QED  BY <3>2, <3>4
  <2>2. 2 \in 1 .. Len(s) /\ s[2] = Quote
    <3>1. 2 + n - 1 <= Len(s) /\ \A i \in 1 .. n : s[2 + i - 1] = x[i]
      BY <1>11 DEF Has, n
    <3>2. 1 \in 1 .. n /\ 2 + 1 - 1 = 2
      BY <1>3
    <3>3. s[2] = x[1]
      BY <3>1, <3>2
    <3>4. 2 <= Len(s)
      BY <1>13, <1>18, <1>3, LenText
    <3> QED  BY <1>3, <3>3, <3>4, LenText
  <2>3. skip_ws(s, 2) = 2
    BY <2>2, NoSpace, SpaceChars
  <2> QED  BY <2>1, <2>3 DEF IsObject
<1> QED  BY <1>17, <1>21, <1>22 DEF fields

\* t is the text of e, as it is or with a member of another version more.
Whole(e, t) == t = Json(e)
More(e, t) == \E x \in Extensions : t = Extended(x, Json(e))

LEMMA UnknownText ==
    ASSUME NEW x, UnknownMember(x), NEW t \in Text, t # <<>>
    PROVE  Extended(x, t) \in Text
<1>1. x \in Text
  <2>1. PICK key, value : x = Member(key, value) /\ IsKey(key) /\ Begins(value)
    BY NoChar, UnknownRead
  <2>2. key \in Text /\ value \in Text
    BY <2>1 DEF IsKey, Begins
  <2> QED  BY <2>1, <2>2, MemberType
<1> DEFINE open == <<"{">>
           back == Tail(t)
<1>2. open \in Text
  BY BracesType
<1>3. back \in Text
  BY HeadTailProperties DEF Text
<1>4. Extended(x, t) = open \o x \o Comma \o back
  BY DEF Extended, Comma
<1> HIDE DEF open, back
<1> DEFINE v == open \o x
<1>5. v \in Text
  BY <1>1, <1>2, TextTypes
<1> HIDE DEF v
<1> DEFINE w == v \o Comma
<1>6. w \in Text
  BY <1>5, CommaType, TextTypes
<1> HIDE DEF w
<1>7. w \o back \in Text
  BY <1>3, <1>6, TextTypes
<1> QED  BY <1>4, <1>7 DEF v, w

LEMMA PieceWhole ==
    ASSUME NEW t \in Text, Len(t) < LOGAGG_MAX_ENTRY_SIZE
    PROVE  Piece(t) = t
<1> DEFINE n == Len(t)
           max == LOGAGG_MAX_ENTRY_SIZE - 1
           m == Min({max, n})
<1>1. n \in Nat /\ LOGAGG_MAX_ENTRY_SIZE \in Nat /\ n < LOGAGG_MAX_ENTRY_SIZE
  BY Sizes, LenText
<1> HIDE DEF n
<1>2. max \in Int /\ n <= max
  BY <1>1
<1> HIDE DEF max
<1>3. m = n
  <2>1. \A y \in {max, n} : n <= y
    BY <1>1, <1>2
  <2>2. \A x \in {max, n} : (\A y \in {max, n} : x <= y) => x = n
    BY <1>1, <1>2
  <2>3. m = CHOOSE x \in {max, n} : \A y \in {max, n} : x <= y
    BY DEF Min
  <2> QED  BY <2>1, <2>2, <2>3
<1>4. Piece(t) = SubSeq(t, 1, m)
  BY DEF Piece, Truncate, max, n
<1> HIDE DEF m
<1>5. SubSeq(t, 1, Len(t)) = t
  BY WholePiece
<1> QED  BY <1>3, <1>4, <1>5 DEF n

\* A whole text that fits the buffer of its reader gives its entry, whatever lies
\* behind it in the buffer.
LEMMA WholeRead ==
    ASSUME NEW e, WellMade(e), NEW t, Whole(e, t), Len(t) < LOGAGG_MAX_ENTRY_SIZE,
           NEW behind \in Text
    PROVE  \E q : log_entry_from_json(CString(Piece(t), behind)) = Done(Plain(e), q)
<1> DEFINE s == CString(t, behind)
<1>1. t \in Text /\ t = Json(e)
  BY JsonType DEF Whole
<1>2. Piece(t) = t
  BY <1>1, PieceWhole
<1>3. s \in Text /\ Has(s, 1, t)
  BY <1>1, CStringHas
<1> HIDE DEF s
<1>4. Has(s, 1, Json(e))
  BY <1>1, <1>3
<1>5. IsObject(s) /\ FieldsAt(s, 2, EntryFields(e))
  BY <1>3, <1>4, JsonAt
<1>6. \E q : log_entry_from_json(s) = Done(Plain(e), q)
  BY <1>3, <1>5, EntryRead
<1> QED  BY <1>2, <1>6 DEF s

LEMMA MoreRead ==
    ASSUME NEW e, WellMade(e), NEW t, More(e, t), Len(t) < LOGAGG_MAX_ENTRY_SIZE,
           NEW behind \in Text
    PROVE  \E q : log_entry_from_json(CString(Piece(t), behind)) = Done(Plain(e), q)
<1> DEFINE s == CString(t, behind)
<1>1. PICK x : UnknownMember(x) /\ t = Extended(x, Json(e))
  BY ExtensionsUnknown DEF More
<1>2. t \in Text
  <2>1. Json(e) \in Text /\ Json(e) # <<>>
    BY JsonType
  <2> QED  BY <1>1, <2>1, UnknownText
<1>3. Piece(t) = t
  BY <1>2, PieceWhole
<1>4. s \in Text /\ Has(s, 1, t)
  BY <1>2, CStringHas
<1> HIDE DEF s
<1>5. PICK key, value : /\ x = Member(key, value)
                        /\ IsKey(key) /\ Begins(value)
                        /\ Understood(s, key, value, NoEntry, NoEntry)
  BY <1>1, <1>4, UnknownRead
<1>6. Has(s, 1, Extended(Member(key, value), Json(e)))
  BY <1>1, <1>4, <1>5
<1>7. PICK p : /\ IsObject(s)
               /\ MemberAt(s, 2, key, value, p)
               /\ FieldsAt(s, p, EntryFields(e))
  BY <1>4, <1>5, <1>6, ExtendedAt
<1>8. \E q : log_entry_from_json(s) = Done(Plain(e), q)
  BY <1>4, <1>5, <1>7, ExtendedRead
<1> QED  BY <1>3, <1>8 DEF s

-----------------------------------------------------------------------------
(***************************************************************************)
(* What is left of an entry is an entry, and its text is no longer.          *)
(***************************************************************************)

LEMMA SeqNarrower ==
    ASSUME NEW S, NEW T, NEW u \in Seq(T), \A i \in 1 .. Len(u) : u[i] \in S
    PROVE  u \in Seq(S)
<1>1. u = [i \in 1 .. Len(u) |-> u[i]] /\ Len(u) \in Nat
  BY LenProperties
<1> QED  BY <1>1, IsASeq

LEMMA PlainFields ==
    ASSUME NEW e, WellMade(e)
    PROVE  /\ Plain(e).node_id = e.node_id /\ Plain(e).vc = e.vc
           /\ Plain(e).timestamp = e.timestamp /\ Plain(e).level = e.level
           /\ Plain(e).message = Printed(e.message)
           /\ Plain(e).metadata = <<>>
<1>1. Plain(e) = Part(e, 5)
  BY PartPlain
<1>2. 5 >= 1 /\ 5 >= 2 /\ 5 >= 3 /\ 5 >= 4 /\ 5 >= 5
  OBVIOUS
<1> QED  BY <1>1, <1>2 DEF Part

LEMMA PlainWellMade ==
    ASSUME NEW e, WellMade(e)
    PROVE  WellMade(Plain(e))
<1> DEFINE x == Plain(e)
<1>1. LOG_MESSAGE_MAX_LEN \in Nat /\ NODE_ID_MAX_LEN \in Nat
  BY Sizes
<1>2. PICK n \in 0 .. VC_MAX_NODES : e \in Entry(n)
  BY DEF WellMade
<1>3. /\ Len(e.node_id) <= NODE_ID_MAX_LEN /\ Printed(e.node_id) = e.node_id
      /\ Len(e.message) <= LOG_MESSAGE_MAX_LEN
  BY DEF WellMade
<1>4. e.message \in String
  BY <1>2 DEF Entry
<1>5. e.message \in Text /\ AllIn(e.message, STRING \ {NUL})
  <2>1. e.message \in Text
    BY <1>4, StringText
  <2>2. e.message \in Seq(STRING \ {NUL})
    BY <1>4 DEF String
  <2>3. \A i \in 1 .. Len(e.message) : e.message[i] \in STRING \ {NUL}
    BY <2>2, SeqWider
  <2> QED  BY <2>1, <2>3 DEF AllIn
<1> DEFINE m == e.message
<1>6. m \in Text /\ AllIn(m, STRING \ {NUL}) /\ Len(m) <= LOG_MESSAGE_MAX_LEN
  BY <1>3, <1>5
<1> HIDE DEF m
<1>7. /\ Printed(m) \in Text /\ Len(Printed(m)) <= Len(m)
      /\ AllIn(Printed(m), STRING \ {NUL})
  BY <1>1, <1>6, PrintedFacts, PrintedAllIn
<1>8. Printed(m) \in String
  <2>1. \A i \in 1 .. Len(Printed(m)) : Printed(m)[i] \in STRING \ {NUL}
    BY <1>7 DEF AllIn
  <2> QED  BY <1>7, <2>1, SeqNarrower DEF Text, String
<1>9. Len(Printed(m)) <= LOG_MESSAGE_MAX_LEN
  <2>1. Len(m) \in Nat /\ Len(Printed(m)) \in Nat
    BY <1>6, <1>7, LenText
  <2> QED  BY <1>1, <1>6, <1>7, <2>1
<1>10. x = [node_id |-> e.node_id, vc |-> e.vc, timestamp |-> e.timestamp,
            level |-> e.level, message |-> Printed(m), metadata |-> <<>>]
  <2>1. x = Part(e, 5)
    BY PartPlain
  <2>2. 5 >= 1 /\ 5 >= 2 /\ 5 >= 3 /\ 5 >= 4 /\ 5 >= 5
    OBVIOUS
  <2> QED  BY <2>1, <2>2 DEF Part, m
<1>11. /\ x.node_id = e.node_id /\ x.message = Printed(m)
  BY <1>10
<1> HIDE DEF x
<1>12. x \in Entry(n)
  <2>1. <<>> \in Seq([key : Braceless, value : Braceless])
    BY EmptySeq
  <2> DEFINE P == Printed(m)
  <2>2. /\ e.node_id \in String /\ e.vc \in Clock(n) /\ e.timestamp \in Nat
        /\ e.level \in {"DEBUG", "INFO", "WARN", "ERROR", "FATAL"}
    BY <1>2 DEF Entry
  <2>3. P \in String
    BY <1>8
  <2> HIDE DEF P
  <2> QED  BY <1>10, <2>1, <2>2, <2>3 DEF Entry, P
<1> QED  BY <1>3, <1>9, <1>11, <1>12 DEF WellMade, x

LEMMA PlainPlain ==
    ASSUME NEW e, WellMade(e)
    PROVE  Plain(Plain(e)) = Plain(e)
<1> DEFINE x == Plain(e)
           m == e.message
<1>1. LOG_MESSAGE_MAX_LEN \in Nat
  BY Sizes
<1>2. Fits(m, LOG_MESSAGE_MAX_LEN)
  BY <1>1, EntryParts
<1> HIDE DEF m
<1>3. Printed(Printed(m)) = Printed(m)
  BY <1>1, <1>2, PrintedFacts DEF Fits
<1>4. x = [node_id |-> e.node_id, vc |-> e.vc, timestamp |-> e.timestamp,
            level |-> e.level, message |-> Printed(m), metadata |-> <<>>]
  <2>1. x = Part(e, 5)
    BY PartPlain
  <2>2. 5 >= 1 /\ 5 >= 2 /\ 5 >= 3 /\ 5 >= 4 /\ 5 >= 5
    OBVIOUS
  <2> QED  BY <2>1, <2>2 DEF Part, m
<1>5. WellMade(x)
  BY PlainWellMade
<1> HIDE DEF x
<1>6. Plain(x) = [node_id |-> x.node_id, vc |-> x.vc, timestamp |-> x.timestamp,
            level |-> x.level, message |-> Printed(x.message), metadata |-> <<>>]
  <2>1. Plain(x) = Part(x, 5)
    BY <1>5, PartPlain
  <2>2. 5 >= 1 /\ 5 >= 2 /\ 5 >= 3 /\ 5 >= 4 /\ 5 >= 5
    OBVIOUS
  <2> QED  BY <2>1, <2>2 DEF Part
<1>7. Plain(x) = x
  BY <1>3, <1>4, <1>6
<1> QED  BY <1>7 DEF x

LEMMA PlainValues ==
    ASSUME NEW e, WellMade(e), NEW k \in 1 .. 5
    PROVE  FieldValue(Plain(e), k) = FieldValue(e, k)
<1> DEFINE x == Plain(e)
           m == e.message
<1>1. LOG_MESSAGE_MAX_LEN \in Nat
  BY Sizes
<1>2. Fits(m, LOG_MESSAGE_MAX_LEN)
  BY <1>1, EntryParts
<1>3. /\ x.node_id = e.node_id /\ x.vc = e.vc
      /\ x.timestamp = e.timestamp /\ x.level = e.level
      /\ x.message = Printed(m)
  BY PlainFields
<1> HIDE DEF m
<1>4. json_escape(Printed(m), Room) = json_escape(m, Room)
  BY <1>1, <1>2, PrintedFacts DEF Fits
<1>5. Esc(Printed(m)) = Esc(m)
  BY <1>4 DEF Esc
<1> HIDE DEF x
<1>6. k = 1 \/ k = 2 \/ k = 3 \/ k = 4 \/ k = 5
  OBVIOUS
<1>7. FieldValue(x, k) = FieldValue(e, k)
  <2>1. CASE k = 1
    BY <1>3, <2>1 DEF FieldValue
  <2>2. CASE k = 2
    BY <1>3, <2>2 DEF FieldValue
  <2>3. CASE k = 3
    BY <1>3, <2>3 DEF FieldValue
  <2>4. CASE k = 4
    BY <1>3, <2>4 DEF FieldValue
  <2>5. CASE k = 5
    BY <1>3, <1>5, <2>5 DEF FieldValue, m
  <2> QED  BY <1>6, <2>1, <2>2, <2>3, <2>4, <2>5
<1> QED  BY <1>7 DEF x

\* The text of what is left is that of the first five fields.
LEMMA PlainShorter ==
    ASSUME NEW e, WellMade(e)
    PROVE  Len(Json(Plain(e))) <= Len(Json(e))
<1> DEFINE x == Plain(e)
           fields == EntryFields(e)
           others == EntryFields(x)
<1>1. LOG_MESSAGE_MAX_LEN \in Nat
  BY Sizes
<1>2. WellMade(x) /\ x.metadata = <<>>
  BY PlainWellMade, PlainFields
<1>3. \A k \in 1 .. 5 : FieldValue(x, k) = FieldValue(e, k)
  BY PlainValues
<1> HIDE DEF x
<1>4. FieldCount(x) = 5
  BY <1>2 DEF FieldCount
<1> DEFINE n == FieldCount(e)
<1>5. /\ n \in 5 .. 6 /\ fields \in Seq(Text) /\ Len(fields) = n
      /\ \A k \in 1 .. n : fields[k] = Member(FieldKey(k), FieldValue(e, k))
  BY <1>1, EntryFieldsType
<1>6. /\ others \in Seq(Text) /\ Len(others) = 5
      /\ \A k \in 1 .. 5 : others[k] = Member(FieldKey(k), FieldValue(x, k))
  BY <1>1, <1>2, <1>4, EntryFieldsType
<1>7. Commas(fields) \in Text /\ Commas(others) \in Text
  BY <1>2, FieldsText
<1> HIDE DEF n, fields, others
<1>8. \A k \in 1 .. 5 : k \in 1 .. n /\ others[k] = fields[k]
  BY <1>3, <1>5, <1>6
<1>9. PICK g : /\ g[0] = <<>>
               /\ \A k \in 0 .. n : g[k] \in Text
               /\ \A k \in 1 .. n :
                     g[k] = IF k = 1 THEN fields[1] ELSE g[k - 1] \o Comma \o fields[k]
               /\ Commas(fields) = g[n]
  BY <1>5, CommasLoop
<1>10. PICK h : /\ h[0] = <<>>
                /\ \A k \in 0 .. 5 : h[k] \in Text
                /\ \A k \in 1 .. 5 :
                      h[k] = IF k = 1 THEN others[1] ELSE h[k - 1] \o Comma \o others[k]
                /\ Commas(others) = h[5]
  BY <1>6, CommasLoop
<1> DEFINE five == 5
<1>11. InStep(h, g, five)
  <2>1. h[0] = g[0]
    BY <1>9, <1>10
  <2>2. ASSUME NEW k \in 1 .. 5, h[k - 1] = g[k - 1]
        PROVE  h[k] = g[k]
    <3>1. k \in 1 .. n /\ others[k] = fields[k] /\ others[1] = fields[1]
      BY <1>8
    <3>2. g[k] = IF k = 1 THEN fields[1] ELSE g[k - 1] \o Comma \o fields[k]
      BY <1>9, <3>1
    <3>3. h[k] = IF k = 1 THEN others[1] ELSE h[k - 1] \o Comma \o others[k]
      BY <1>10
    <3> QED  BY <2>2, <3>1, <3>2, <3>3
  <2> QED  BY <2>1, <2>2 DEF InStep
<1>12. h[5] = g[5]
  <2>1. five \in Nat /\ five \in 0 .. five
    OBVIOUS
  <2> HIDE DEF five
  <2>2. h[five] = g[five]
    BY <1>11, <2>1, LoopsAgree DEF Agree
  <2> QED  BY <2>2 DEF five
<1> DEFINE u == Commas(fields)
           v == Commas(others)
<1>13. Len(v) <= Len(u)
  <2>1. CASE n = 5
    <3>1. v = u
      BY <1>9, <1>10, <1>12, <2>1
    <3>2. Len(u) \in Nat
      BY <1>7, LenText
    <3> QED  BY <3>1, <3>2
  <2>2. CASE n = 6
    <3> DEFINE f == fields[6]
               w == v \o Comma
    <3>1. n \in 1 .. n /\ n # 1 /\ n - 1 = 5 /\ n = 6
      BY <2>2
    <3>2. g[n] = g[n - 1] \o Comma \o fields[n]
      BY <1>9, <3>1
    <3>3. u = w \o f
      BY <1>9, <1>10, <1>12, <3>1, <3>2
    <3>4. f \in Text
      BY <1>5, <3>1, ElementOfSeq
    <3>5. v \in Text
      BY <1>7
    <3> HIDE DEF u, v, f
    <3>6. w \in Text /\ Len(w) = Len(v) + Len(Comma)
      BY <3>5, CommaType, LenConcat
    <3> HIDE DEF w
    <3>7. Len(u) = Len(w) + Len(f)
      BY <3>3, <3>4, <3>6, LenConcat
    <3>8. Len(v) \in Nat /\ Len(Comma) \in Nat /\ Len(f) \in Nat /\ Len(w) \in Nat
      BY <3>4, <3>5, <3>6, CommaType, LenText
    <3> QED  BY <3>6, <3>7, <3>8
  <2> QED  BY <1>5, <2>1, <2>2
<1>14. u \in Text /\ v \in Text
  BY <1>7
<1>15. Json(e) = Braced(u) /\ Json(x) = Braced(v)
  BY DEF Json, fields, others
<1> HIDE DEF u, v
<1>16. Len(Json(e)) = Len(u) + 2 /\ Len(Json(x)) = Len(v) + 2 /\ Len(u) \in Nat /\ Len(v) \in Nat
  BY <1>14, <1>15, BracedType
<1>17. Len(Json(x)) <= Len(Json(e))
  BY <1>13, <1>16
<1> QED  BY <1>17 DEF x

-----------------------------------------------------------------------------
(***************************************************************************)
(* The way of an entry.                                                     *)
(***************************************************************************)

\* An entry that can be serialised
Sendable(e) == Len(Json(e)) < LOGAGG_MAX_ENTRY_SIZE

\* Where the entry is on its way, and what stands there
PathInv ==
    /\ WellMade(made)
    /\ mark # "cut" =>
        /\ stage = "made" => mark = "whole"
        /\ stage = "sent" => /\ Sendable(made) /\ Len(text) < LOGAGG_MAX_ENTRY_SIZE
                             /\ IF mark = "whole" THEN Whole(made, text) ELSE More(made, text)
        /\ stage \in {"received", "written", "loaded"} =>
                /\ Sendable(made) /\ got = Plain(made)
        /\ stage = "written" => text = Json(Plain(made))
        /\ stage = "refused" => ~Sendable(made)

LEMMA MadeWell == \A e \in Made : WellMade(e)
BY EntriesWellMade

LEMMA PlainSendable ==
    ASSUME NEW e, WellMade(e), Sendable(e)
    PROVE  WellMade(Plain(e)) /\ Sendable(Plain(e))
<1>1. WellMade(Plain(e))
  BY PlainWellMade
<1>2. Json(e) \in Text /\ Json(Plain(e)) \in Text
  BY <1>1, JsonType
<1>3. Len(Json(e)) \in Nat /\ Len(Json(Plain(e))) \in Nat /\ LOGAGG_MAX_ENTRY_SIZE \in Nat
  BY <1>2, LenText, Sizes
<1>4. Len(Json(Plain(e))) <= Len(Json(e))
  BY PlainShorter
<1>5. Len(Json(e)) < LOGAGG_MAX_ENTRY_SIZE
  BY DEF Sendable
<1>6. Len(Json(Plain(e))) < LOGAGG_MAX_ENTRY_SIZE
  BY <1>3, <1>4, <1>5
<1> QED  BY <1>1, <1>6 DEF Sendable

\* log_entry_to_json gives nothing for an entry that is too large, and only for it.
LEMMA SendableText ==
    ASSUME NEW e, WellMade(e)
    PROVE  /\ Sendable(e) => log_entry_to_json(e) = Json(e) /\ Json(e) # <<>>
           /\ ~Sendable(e) => log_entry_to_json(e) = <<>>
BY ToJson, JsonType DEF Sendable

\* A reader that succeeds goes on with the entry it read.
LEMMA ParseGives ==
    ASSUME NEW string, NEW next, NEW x, Parse(string, next),
           \E q : log_entry_from_json(string) = Done(x, q)
    PROVE  stage' = next /\ got' = x /\ UNCHANGED <<made, text, mark>>
<1>1. PICK q : log_entry_from_json(string) = Done(x, q)
  OBVIOUS
<1> DEFINE r == Done(x, q)
<1>2. r.ok /\ r.v = x
  BY DEF Done
<1> HIDE DEF r
<1>3. log_entry_from_json(string) = r
  BY <1>1 DEF r
<1>4. /\ stage' = IF r.ok THEN next ELSE "refused"
      /\ got' = IF r.ok THEN r.v ELSE got
      /\ UNCHANGED <<made, text, mark>>
  BY <1>3 DEF Parse
<1> QED  BY <1>2, <1>4

LEMMA PathStart == PathInit => PathInv
BY MadeWell DEF PathInit, PathInv

LEMMA BehindText ==
    ASSUME NEW behind \in {<<>>} \cup Neighbours
    PROVE  behind \in Text
<1>1. CASE behind \in Neighbours
  <2>1. behind \in Seq(STRING) /\ STRING \subseteq Char
    BY <1>1, NeighbourTexts DEF Char
  <2> QED  BY <2>1, SeqWider DEF Text
<1>2. CASE behind = <<>>
  BY <1>2, NoChar
<1> QED  BY <1>1, <1>2

LEMMA PathStep == PathInv /\ [PathNext]_pathVars => PathInv'
<1> SUFFICES ASSUME PathInv, [PathNext]_pathVars
             PROVE  PathInv'
  OBVIOUS
<1>1. WellMade(made)
  BY DEF PathInv
<1>2. CASE Send
  <2>1. stage = "made" /\ UNCHANGED <<made, got, mark>>
    BY <1>2 DEF Send
  <2>2. CASE mark = "cut"
    BY <1>1, <2>1, <2>2 DEF PathInv
  <2>3. CASE mark # "cut"
    <3>1. mark = "whole"
      BY <2>1, <2>3 DEF PathInv
    <3>2. CASE Sendable(made)
      <4>1. text' = Json(made) /\ stage' = "sent"
        BY <1>1, <1>2, <3>2, SendableText DEF Send
      <4> QED  BY <1>1, <2>1, <3>1, <3>2, <4>1 DEF PathInv, Sendable, Whole
    <3>3. CASE ~Sendable(made)
      <4>1. stage' = "refused"
        BY <1>1, <1>2, <3>3, SendableText DEF Send
      <4> QED  BY <1>1, <2>1, <3>1, <3>3, <4>1 DEF PathInv, Sendable
    <3> QED  BY <3>2, <3>3
  <2> QED  BY <2>2, <2>3
<1>3. CASE Extend
  <2>1. /\ stage = "sent" /\ mark = "whole"
        /\ Len(text') < LOGAGG_MAX_ENTRY_SIZE
        /\ mark' = "extended"
        /\ UNCHANGED <<stage, made, got>>
    BY <1>3 DEF Extend
  <2>2. text = Json(made) /\ Sendable(made)
    BY <2>1 DEF PathInv, Whole
  <2>3. More(made, text')
    <3>1. PICK x \in Extensions : text' = <<"{">> \o x \o <<",">> \o Tail(text)
      BY <1>3 DEF Extend
    <3>2. text' = Extended(x, Json(made))
      BY <2>2, <3>1 DEF Extended
    <3> QED  BY <3>2 DEF More
  <2>4. More(made', text')
    BY <2>1, <2>3
  <2> QED  BY <1>1, <2>1, <2>2, <2>4 DEF PathInv, Sendable
<1>4. CASE ReceiveText
  <2>1. stage = "sent" /\ Parse(CString(Piece(text), <<>>), "received")
    BY <1>4 DEF ReceiveText
  <2>2. UNCHANGED <<made, text, mark>> /\ stage' \in {"received", "refused"}
    BY <2>1 DEF Parse
  <2>3. CASE mark = "cut"
    BY <1>1, <2>2, <2>3 DEF PathInv
  <2>4. CASE mark # "cut"
    <3>1. Sendable(made) /\ Len(text) < LOGAGG_MAX_ENTRY_SIZE
      BY <2>1, <2>4 DEF PathInv
    <3>2. Whole(made, text) \/ More(made, text)
      BY <2>1, <2>4 DEF PathInv
    <3>3. \E q : log_entry_from_json(CString(Piece(text), <<>>)) = Done(Plain(made), q)
      BY <1>1, <3>1, <3>2, NoChar, WholeRead, MoreRead
    <3>4. stage' = "received" /\ got' = Plain(made)
      BY <2>1, <3>3, ParseGives
    <3> QED  BY <1>1, <2>2, <3>1, <3>4 DEF PathInv, Sendable
  <2> QED  BY <2>3, <2>4
<1>5. CASE WriteLine
  <2>1. /\ stage = "received" /\ UNCHANGED <<made, got, mark>>
        /\ text' = log_entry_to_json(got)
        /\ stage' = IF text' = <<>> THEN "refused" ELSE "written"
    BY <1>5 DEF WriteLine
  <2>2. CASE mark = "cut"
    BY <1>1, <2>1, <2>2 DEF PathInv
  <2>3. CASE mark # "cut"
    <3>1. Sendable(made) /\ got = Plain(made)
      BY <2>1, <2>3 DEF PathInv
    <3>2. WellMade(Plain(made)) /\ Sendable(Plain(made))
      BY <1>1, <3>1, PlainSendable
    <3>3. text' = Json(Plain(made)) /\ text' # <<>>
      BY <2>1, <3>1, <3>2, SendableText
    <3>4. stage' = "written"
      BY <2>1, <3>3
    <3> QED  BY <1>1, <2>1, <3>1, <3>3, <3>4 DEF PathInv, Sendable
  <2> QED  BY <2>2, <2>3
<1>6. CASE CutShort
  <2>1. mark' = "cut" /\ UNCHANGED made
    BY <1>6 DEF CutShort
  <2> QED  BY <1>1, <2>1 DEF PathInv
<1>7. CASE LoadLine
  <2>1. PICK behind \in {<<>>} \cup Neighbours :
              Parse(CString(Piece(text), behind), "loaded")
    BY <1>7 DEF LoadLine
  <2>2. stage = "written"
    BY <1>7 DEF LoadLine
  <2>3. UNCHANGED <<made, text, mark>> /\ stage' \in {"loaded", "refused"}
    BY <2>1 DEF Parse
  <2>4. CASE mark = "cut"
    BY <1>1, <2>3, <2>4 DEF PathInv
  <2>5. CASE mark # "cut"
    <3> DEFINE e == Plain(made)
    <3>1. Sendable(made) /\ got = e /\ text = Json(e)
      BY <2>2, <2>5 DEF PathInv
    <3>2. WellMade(e) /\ Sendable(e) /\ Plain(e) = e
      BY <1>1, <3>1, PlainSendable, PlainPlain
    <3>3. behind \in Text
      BY BehindText
    <3> HIDE DEF e
    <3>4. Whole(e, text) /\ Len(text) < LOGAGG_MAX_ENTRY_SIZE
      BY <3>1, <3>2 DEF Whole, Sendable
    <3>5. \E q : log_entry_from_json(CString(Piece(text), behind)) = Done(Plain(e), q)
      BY <3>2, <3>3, <3>4, WholeRead
    <3>6. stage' = "loaded" /\ got' = e
      BY <2>1, <3>2, <3>5, ParseGives
    <3> QED  BY <1>1, <2>3, <3>1, <3>6 DEF PathInv, Sendable, e
  <2> QED  BY <2>4, <2>5
<1>8. CASE UNCHANGED pathVars
  BY <1>8 DEF PathInv, pathVars, Sendable
<1> QED  BY <1>2, <1>3, <1>4, <1>5, <1>6, <1>7, <1>8 DEF PathNext

\* On its whole way an entry whose text nobody cut is where PathInv says it is.
THEOREM PathInvariant == PathSpec => []PathInv
BY PathStart, PathStep, PTL DEF PathSpec

\* Whatever an entry's message, clock and level, for a node_id that can be printed and
\* metadata without braces (WellMade), with or without a member more whose value is
\* not a string (UnknownMember), the server and after it the store have the entry that
\* was sent: escaping, reading and writing again fit each other, whatever the sizes of
\* the buffers.
THEOREM EntriesSurvive == PathSpec => []EntrySurvives
<1>1. PathInv => EntrySurvives
  BY DEF PathInv, EntrySurvives
<1> QED  BY <1>1, PathInvariant, PTL

\* Nothing is refused on the way but an entry too large to be serialised at all:
\* what one writer could write the next one can, and every reader reads it.
THEOREM OnlyTooLargeRefused == PathSpec => []RefusedOnlyIfTooLarge
<1>1. PathInv => RefusedOnlyIfTooLarge
  BY SendableText DEF PathInv, RefusedOnlyIfTooLarge
<1> QED  BY <1>1, PathInvariant, PTL

=============================================================================
