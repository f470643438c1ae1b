---------------------------- MODULE AgentProofs ----------------------------
(***************************************************************************)
(* Proofs about Agent, for every set of agents, every length of their       *)
(* clocks, every number of lines and any faults.                            *)
(***************************************************************************)
EXTENDS Agent, BasicLemmas

-----------------------------------------------------------------------------
(***************************************************************************)
(* Type correctness.                                                       *)
(***************************************************************************)

LEMMA IndexType == \A a \in Agents : a \in Nat /\ Index(a) \in Nat
BY AgentAssumption DEF Index

LEMMA CountType == NodeCount \in Nat /\ NodeCount \in 1 .. VC_MAX_NODES
BY AgentAssumption DEF VC_MAX_NODES

LEMMA InitClockType ==
    ASSUME NEW n \in 1 .. VC_MAX_NODES
    PROVE  vc_init(n) \in Clock(n) /\ \A i \in 0 .. n - 1 : vc_init(n)[i] = 0
BY DEF vc_init, Clock, VC_MAX_NODES

LEMMA IncrementType ==
    ASSUME NEW n \in Nat, NEW v \in Clock(n), NEW k
    PROVE  /\ vc_increment(v, k) \in Clock(n)
           /\ \A i \in 0 .. n - 1 : vc_increment(v, k)[i] = IF i = k THEN v[i] + 1 ELSE v[i]
BY DEF vc_increment, Clock

LEMMA HeardType ==
    ASSUME TypeOK, NEW a \in Agents, NEW v \in Prefix
    PROVE  /\ Heard(a, v) \in Clock(NodeCount)
           /\ \A i \in 0 .. NodeCount - 1 :
                 Heard(a, v)[i] = IF i # Index(a) /\ At(v, i) > clock[a][i]
                                  THEN At(v, i) ELSE clock[a][i]
<1>1. clock[a] \in Clock(NodeCount) /\ v \in Clock(3)
  BY DEF TypeOK, Prefix
<1>2. DOMAIN clock[a] = 0 .. NodeCount - 1 /\ DOMAIN v = 0 .. 2
  BY <1>1 DEF Clock
<1>3. ASSUME NEW i \in 0 .. NodeCount - 1
      PROVE  /\ clock[a][i] \in Nat
             /\ At(v, i) \in Nat
             /\ At(v, i) > clock[a][i] => v[i] = At(v, i)
  <2>1. At(v, i) \in Nat
    BY <1>1, AtNat
  <2>2. clock[a][i] \in Nat
    BY <1>1 DEF Clock
  <2>3. At(v, i) > clock[a][i] => v[i] = At(v, i)
    BY <2>2 DEF At
  <2> QED  BY <2>1, <2>2, <2>3
<1> QED  BY <1>2, <1>3 DEF Heard, Clock

\* A number that is cut is a smaller one.
LEMMA ShortenedBelow ==
    ASSUME NEW n \in Nat, NEW m \in Shortened(n)
    PROVE  m \in Nat /\ m <= n
BY DEF Shortened

\* What sscanf finds is not beyond the clock of the line, and is that clock where
\* all of the prefix is there.
LEMMA ShowsBelow ==
    ASSUME NEW part \in Parts \cup {"blank"}, NEW vc \in Prefix, NEW v \in Shows(part, vc)
    PROVE  /\ v \in Prefix
           /\ \A i \in 0 .. 2 : v[i] <= vc[i]
           /\ part \in {"whole", "full"} => v = vc
<1>1. vc \in [0 .. 2 -> Nat]
  BY DEF Prefix, Clock
<1>2. vc_init(3) \in [0 .. 2 -> Nat] /\ \A i \in 0 .. 2 : vc_init(3)[i] = 0
  <2>1. 3 \in 1 .. VC_MAX_NODES /\ 3 - 1 = 2
    BY DEF VC_MAX_NODES
  <2> QED  BY <2>1, InitClockType DEF Clock
<1>3. vc[2] \in Nat
  BY <1>1
<1>4. \/ v = vc
      \/ part \notin {"whole", "full"} /\ v = vc_init(3)
      \/ part \notin {"whole", "full"} /\ \E n \in Shortened(vc[2]) : v = [vc EXCEPT ![2] = n]
  BY DEF Shows, Parts
<1>5. CASE v = vc
  BY <1>1, <1>5 DEF Prefix, Clock
<1>6. CASE part \notin {"whole", "full"} /\ v = vc_init(3)
  BY <1>1, <1>2, <1>6 DEF Prefix, Clock
<1>7. CASE part \notin {"whole", "full"} /\ \E n \in Shortened(vc[2]) : v = [vc EXCEPT ![2] = n]
  <2>1. PICK n \in Shortened(vc[2]) : v = [vc EXCEPT ![2] = n]
    BY <1>7
  <2>2. n \in Nat /\ n <= vc[2]
    BY <1>3, ShortenedBelow
  <2>3. v \in [0 .. 2 -> Nat] /\ \A i \in 0 .. 2 : v[i] = IF i = 2 THEN n ELSE vc[i]
    BY <1>1, <2>1, <2>2
  <2> QED  BY <1>1, <1>7, <2>2, <2>3 DEF Prefix, Clock
<1> QED  BY <1>4, <1>5, <1>6, <1>7

\* The larger of a component and what gen_log claims.
LEMMA MaxOfTwo ==
    ASSUME NEW x \in Nat, NEW y \in Nat
    PROVE  Max({x, y}) \in Nat /\ Max({x, y}) >= x
<1>1. \E z \in {x, y} : \A u \in {x, y} : z >= u
  <2>1. CASE x >= y  BY <2>1
  <2>2. CASE y >= x  BY <2>2
  <2> QED  BY <2>1, <2>2
<1> QED  BY <1>1 DEF Max

\* A written line's clock is not below what the application knew, and its own
\* component is ahead of it.
Advances(a, old, new) ==
    /\ new \in Prefix
    /\ \A i \in 0 .. 2 : old[i] <= new[i]
    /\ Index(a) \in 0 .. 2 => old[Index(a)] < new[Index(a)]

LEMMA AppLogAdvances ==
    ASSUME TypeOK, NEW a \in Agents, NEW b \in Agents
    PROVE  Advances(a, known[a], vc_increment(vc_merge(known[a], known[b]), Index(a)))
<1> DEFINE m == vc_merge(known[a], known[b])
<1>1. known[a] \in Clock(3) /\ known[b] \in Clock(3)
  BY DEF TypeOK, Prefix
<1>2. m \in Clock(3) /\ \A i \in 0 .. 2 : m[i] \in Nat /\ known[a][i] <= m[i]
  BY <1>1 DEF vc_merge, Clock, At
<1>3. /\ vc_increment(m, Index(a)) \in Clock(3)
      /\ \A i \in 0 .. 3 - 1 : vc_increment(m, Index(a))[i] =
            IF i = Index(a) THEN m[i] + 1 ELSE m[i]
  BY <1>2, IncrementType
<1>4. \A i \in 0 .. 2 : known[a][i] \in Nat
  BY <1>1 DEF Clock
<1> QED  BY <1>2, <1>3, <1>4 DEF Advances, Prefix

LEMMA GenerateAdvances ==
    ASSUME TypeOK, NEW a \in Agents, a \in DOMAIN Claimed
    PROVE  Advances(a, known[a],
                    vc_increment([known[a] EXCEPT ![0] = Max({@, Claimed[a]})], Index(a)))
<1> DEFINE m == [known[a] EXCEPT ![0] = Max({@, Claimed[a]})]
<1>1. known[a] \in Clock(3) /\ Claimed[a] \in Nat
  BY DEF TypeOK, Prefix, Claimed
<1>2. Max({known[a][0], Claimed[a]}) \in Nat /\ Max({known[a][0], Claimed[a]}) >= known[a][0]
  BY <1>1, MaxOfTwo DEF Clock
<1>3. m \in Clock(3) /\ \A i \in 0 .. 2 : m[i] \in Nat /\ known[a][i] <= m[i]
  BY <1>1, <1>2 DEF Clock
<1>4. /\ vc_increment(m, Index(a)) \in Clock(3)
      /\ \A i \in 0 .. 3 - 1 : vc_increment(m, Index(a))[i] =
            IF i = Index(a) THEN m[i] + 1 ELSE m[i]
  <2> HIDE DEF m
  <2> QED  BY <1>3, IncrementType
<1>5. \A i \in 0 .. 2 : known[a][i] \in Nat
  BY <1>1 DEF Clock
<1> QED  BY <1>3, <1>4, <1>5 DEF Advances, Prefix

LEMMA InitTypes == Init => TypeOK
<1> SUFFICES ASSUME Init PROVE TypeOK
  OBVIOUS
<1>1. vc_init(3) \in Prefix /\ vc_init(NodeCount) \in Clock(NodeCount)
  BY InitClockType, CountType DEF Prefix, VC_MAX_NODES
<1>2. BagToSet(net) = {}
  BY DEF Init, EmptyBag, SetToBag, BagToSet
<1> QED  BY <1>1, <1>2 DEF Init, TypeOK

\* What one more reading adds to all that was read.
LEMMA ReadGrows ==
    ASSUME TypeOK, NEW a \in Agents, NEW r \in Reading,
           reads' = [reads EXCEPT ![a] = Append(@, r)]
    PROVE  Read' = Read \cup {r}
<1>1. reads \in [Agents -> Seq(Reading)]
  BY DEF TypeOK
<1>2. \A c \in Agents : c # a => reads'[c] = reads[c]
  BY <1>1
<1>3. reads'[a] = Append(reads[a], r) /\ reads[a] \in Seq(Reading)
  BY <1>1
<1>4. ToSet(reads'[a]) = ToSet(reads[a]) \cup {r}
  <2>1. /\ DOMAIN reads[a] = 1 .. Len(reads[a]) /\ Len(reads[a]) \in Nat
        /\ DOMAIN reads'[a] = 1 .. Len(reads[a]) + 1
        /\ \A i \in 1 .. Len(reads[a]) : reads'[a][i] = reads[a][i]
        /\ reads'[a][Len(reads[a]) + 1] = r
    BY <1>3
  <2>2. \A i \in DOMAIN reads'[a] : i \in DOMAIN reads[a] \/ i = Len(reads[a]) + 1
    BY <2>1
  <2>3. \A i \in DOMAIN reads[a] : i \in DOMAIN reads'[a]
    BY <2>1
  <2>4. Len(reads[a]) + 1 \in DOMAIN reads'[a]
    BY <2>1
  <2> QED  BY <2>1, <2>2, <2>3, <2>4, Zenon DEF ToSet
<1> QED  BY <1>2, <1>4, Zenon DEF Read

LEMMA PieceClock ==
    ASSUME NEW s \in Seq(Piece), NEW p \in DOMAIN s
    PROVE  /\ s[p] \in Piece
           /\ s[p].line \in Line
           /\ s[p].line.vc \in Prefix
           /\ DOMAIN s[p].line.vc = 0 .. 2
           /\ \A i \in 0 .. 2 : s[p].line.vc[i] \in Nat
<1>1. s[p] \in Piece
  OBVIOUS
<1>2. s[p].line \in Line
  BY <1>1 DEF Piece
<1>3. s[p].line.vc \in Prefix
  BY <1>2 DEF Line
<1> QED  BY <1>1, <1>2, <1>3 DEF Prefix, Clock

\* A clock found in part of a line that has clock vc.
Found(v, part, vc) ==
    /\ v \in Prefix
    /\ \A i \in 0 .. 2 : v[i] <= vc[i]
    /\ part \in {"whole", "full"} => v = vc

LEMMA PieceFound ==
    ASSUME NEW x \in Piece
    PROVE  Found(x.shown, x.part, x.line.vc) /\ x.part \in Parts \cup {"blank"}
<1>1. x.line.vc \in Prefix /\ x.part \in Parts \cup {"blank"} /\ x.shown \in Shows(x.part, x.line.vc)
  BY DEF Piece, Line
<1> QED  BY <1>1, ShowsBelow DEF Found

\* What fgets reads has a clock that the line has.
LEMMA ShownFound ==
    ASSUME NEW s \in Seq(Piece), NEW p \in DOMAIN s
    PROVE  Found(Shown(s, p), s[p].part, s[p].line.vc)
<1>1. Found(s[p].shown, s[p].part, s[p].line.vc)
  BY PieceClock, PieceFound
<1>2. Found(s[p].line.vc, s[p].part, s[p].line.vc)
  BY PieceClock DEF Found
<1> QED  BY <1>1, <1>2 DEF Shown

\* The parts of a step that reads piece p.
LEMMA ReadLineParts ==
    ASSUME TypeOK, NEW a \in Agents, NEW now \in 1 .. MaxTime, NEW copies \in Copies,
           ReadLine(a, now, copies)
    PROVE  \E p \in DOMAIN log[a] : \E r \in Reading :
              /\ p = position[a] + 1
              /\ position'[a] \in p .. Len(log[a])
              /\ position'[a] > p => position'[a] = p + 1 /\ log[a][p].part = "head"
              /\ log[a][p].part # "blank"
              /\ r.line = log[a][p].line /\ r.part = log[a][p].part
              /\ Found(r.shown, r.part, r.line.vc)
              /\ r.entry.node = a /\ r.entry.vc = clock'[a]
              /\ reads' = [reads EXCEPT ![a] = Append(@, r)]
              /\ BagToSet(net') = BagToSet(net) \cup {r.entry}
              /\ \A i \in 0 .. NodeCount - 1 : i # Index(a) =>
                    clock'[a][i] = IF At(r.shown, i) > clock[a][i]
                                   THEN At(r.shown, i) ELSE clock[a][i]
<1> DEFINE p == position[a] + 1
           l == log[a][p].line
           w == Shown(log[a], p)
           vc == Heard(a, w)
           e == [node |-> a, vc |-> Stamp(a, vc), timestamp |-> now]
           r == [line |-> l, part |-> log[a][p].part, shown |-> w, entry |-> e]
<1>1. log[a] \in Seq(Piece) /\ position[a] \in Nat /\ p \in DOMAIN log[a] /\ p \in 1 .. Len(log[a])
  BY DEF ReadLine, TypeOK
<1>2. log[a][p] \in Piece /\ l \in Line /\ log[a][p].part # "blank"
  BY <1>1, PieceClock DEF ReadLine
<1>w. Found(w, log[a][p].part, l.vc)
  BY <1>1, ShownFound
<1>v. w \in Prefix
  BY <1>w DEF Found
<1> HIDE DEF w
<1>3. vc \in Clock(NodeCount)
  BY <1>v, HeardType
<1>4. \A i \in 0 .. NodeCount - 1 : i # Index(a) =>
         vc[i] = IF At(w, i) > clock[a][i] THEN At(w, i) ELSE clock[a][i]
  BY <1>v, HeardType
<1>5. position'[a] = LineEnd(log[a], p) /\ clock'[a] = vc_increment(vc, Index(a))
  BY DEF ReadLine, TypeOK, w
<1>6. reads' = [reads EXCEPT ![a] = Append(@, r)]
  BY DEF ReadLine, w
<1>7. /\ vc_increment(vc, Index(a)) \in Clock(NodeCount)
      /\ \A i \in 0 .. NodeCount - 1 : i # Index(a) => vc_increment(vc, Index(a))[i] = vc[i]
  <2> HIDE DEF vc
  <2> QED  BY <1>3, IncrementType, CountType
<1>8. /\ position'[a] \in p .. Len(log[a])
      /\ position'[a] > p => position'[a] = p + 1 /\ log[a][p].part = "head"
  BY <1>1, <1>5 DEF LineEnd
<1>9. e \in LogEntry(NodeCount)
  <2> HIDE DEF vc
  <2>1. a \in Nat /\ now \in Nat
    BY IndexType, AgentAssumption
  <2> QED  BY <2>1, <1>7 DEF LogEntry, Stamp
<1>10. /\ r.line = l /\ r.part = log[a][p].part /\ r.shown = w
       /\ r.entry.node = a /\ r.entry.vc = clock'[a]
  BY <1>5 DEF Stamp
<1>11. r \in Reading
  <2>1. log[a][p].part \in Parts
    BY <1>2, PieceFound
  <2> HIDE DEF l, e, p
  <2> QED  BY <2>1, <1>2, <1>v, <1>9 DEF Reading
<1> HIDE DEF p, l, vc, e, r
<1>12. BagToSet(net') = BagToSet(net) \cup {r.entry}
  <2>1. net' = net (+) [d \in {e} |-> copies] /\ r.entry = e
    BY DEF ReadLine, e, r, vc, l, p, w
  <2> QED  BY <2>1 DEF BagToSet, (+)
<1>13. \A i \in 0 .. NodeCount - 1 : i # Index(a) =>
         clock'[a][i] = IF At(r.shown, i) > clock[a][i] THEN At(r.shown, i) ELSE clock[a][i]
  BY <1>4, <1>5, <1>7, <1>10
<1>14. r.line = log[a][p].line /\ p = position[a] + 1
  BY <1>10 DEF l, p
<1>15. Found(r.shown, r.part, r.line.vc)
  BY <1>w, <1>10
<1> QED  BY <1>1, <1>2, <1>6, <1>8, <1>10, <1>11, <1>12, <1>13, <1>14, <1>15

LEMMA ReadLineTypes ==
    ASSUME TypeOK, NEW a \in Agents, NEW now \in 1 .. MaxTime, NEW copies \in Copies,
           ReadLine(a, now, copies)
    PROVE  TypeOK'
<1>1. PICK p \in DOMAIN log[a] : \E r \in Reading :
         /\ position'[a] \in p .. Len(log[a])
         /\ r.entry.vc = clock'[a]
         /\ reads' = [reads EXCEPT ![a] = Append(@, r)]
         /\ BagToSet(net') = BagToSet(net) \cup {r.entry}
  BY ReadLineParts
<1>2. PICK r \in Reading :
         /\ r.entry.vc = clock'[a]
         /\ reads' = [reads EXCEPT ![a] = Append(@, r)]
         /\ BagToSet(net') = BagToSet(net) \cup {r.entry}
  BY <1>1
<1>3. reads' \in [Agents -> Seq(Reading)]
  BY <1>2 DEF TypeOK
<1>4. BagToSet(net') \subseteq {x.entry : x \in Read'}
  <2>1. Read' = Read \cup {r}
    BY <1>2, ReadGrows
  <2> QED  BY <1>2, <2>1 DEF TypeOK
<1>5. clock' \in [Agents -> Clock(NodeCount)]
  <2>1. clock'[a] \in Clock(NodeCount)
    BY <1>2 DEF Reading, LogEntry
  <2>2. \E v : clock' = [clock EXCEPT ![a] = v]
    BY DEF ReadLine
  <2> QED  BY <2>1, <2>2 DEF TypeOK
<1>6. position' \in [Agents -> Nat]
  <2>1. position'[a] \in Nat
    BY <1>1 DEF TypeOK
  <2>2. \E v : position' = [position EXCEPT ![a] = v]
    BY DEF ReadLine
  <2> QED  BY <2>1, <2>2 DEF TypeOK
<1> QED
  BY <1>3, <1>4, <1>5, <1>6 DEF TypeOK, ReadLine, appVars

\* The other steps leave what was read and sent alone.
LEMMA WriteLogTypes ==
    ASSUME TypeOK, NEW a \in Agents, NEW vc \in Prefix, NEW part \in {"whole", "head", "full"},
           WriteLog(a, vc, part)
    PROVE  TypeOK'
<1>1. PICK v \in Shows(part, vc) :
         log' = [log EXCEPT ![a] =
                    Append(@, [line |-> [node |-> a, vc |-> vc], part |-> part, shown |-> v])]
  BY DEF WriteLog
<1> DEFINE x == [line |-> [node |-> a, vc |-> vc], part |-> part, shown |-> v]
<1>2. part \in Parts \cup {"blank"}
  BY DEF Parts
<1>3. x \in Piece
  BY <1>2, ShowsBelow DEF Piece, Line
<1>4. log' = [log EXCEPT ![a] = Append(@, x)] /\ known' = [known EXCEPT ![a] = vc]
  BY <1>1 DEF WriteLog
<1> HIDE DEF x
<1>5. log' \in [Agents -> Seq(Piece)] /\ known' \in [Agents -> Prefix]
  BY <1>3, <1>4 DEF TypeOK
<1> QED  BY <1>5 DEF TypeOK, WriteLog, agentVars, Read

\* What follows the first part of a line is a piece too.
LEMMA RestIsPiece ==
    ASSUME NEW x \in Piece, NEW rest \in {"tail", "blank"}
    PROVE  [line |-> x.line, part |-> rest, shown |-> vc_init(3)] \in Piece
<1>1. x.line \in Line /\ vc_init(3) \in Prefix
  BY InitClockType DEF Piece, Prefix, VC_MAX_NODES
<1>2. rest \in Parts \cup {"blank"} /\ vc_init(3) \in Shows(rest, x.line.vc)
  BY DEF Parts, Shows
<1> QED  BY <1>1, <1>2 DEF Piece

LEMMA StepTypes == TypeOK /\ [Next]_vars => TypeOK'
<1> SUFFICES ASSUME TypeOK, [Next]_vars PROVE TypeOK'
  OBVIOUS
<1>u. CASE UNCHANGED vars
  BY <1>u DEF vars, TypeOK, Read
<1>n. ASSUME NEW a \in Agents, AppStep(a) \/ AgentStep(a) \/ Down(a) \/ Up(a)
      PROVE  TypeOK'
  <2>1. ASSUME NEW b \in Agents, NEW part \in {"whole", "head", "full"}, AppLog(a, b, part)
        PROVE  TypeOK'
    BY <2>1, AppLogAdvances, WriteLogTypes DEF AppLog, Advances
  <2>2. CASE Generate(a)
    BY <2>2, GenerateAdvances, WriteLogTypes DEF Generate, Advances
  <2>3. ASSUME NEW rest \in {"tail", "blank"}, AppFinish(a, rest)
        PROVE  TypeOK'
    <3>1. log[a] \in Seq(Piece) /\ log[a] # <<>>
      BY <2>3 DEF AppFinish, Open, LastPart, TypeOK
    <3>2. log[a][Len(log[a])] \in Piece
      BY <3>1
    <3>3. [line |-> log[a][Len(log[a])].line, part |-> rest, shown |-> vc_init(3)] \in Piece
      BY <3>2, RestIsPiece
    <3>4. log' \in [Agents -> Seq(Piece)]
      BY <2>3, <3>3 DEF AppFinish, TypeOK
    <3> QED  BY <2>3, <3>4 DEF AppFinish, agentVars, TypeOK, Read
  <2>4. CASE AppBlank(a)
    <3>1. vc_init(3) \in Prefix
      BY InitClockType DEF Prefix, VC_MAX_NODES
    <3>2. vc_init(3) \in Shows("blank", known[a])
      BY DEF Shows
    <3>3. [line |-> [node |-> a, vc |-> known[a]], part |-> "blank", shown |-> vc_init(3)]
            \in Piece
      BY <3>1, <3>2 DEF Piece, Line, TypeOK
    <3>4. log' \in [Agents -> Seq(Piece)]
      BY <2>4, <3>3 DEF AppBlank, TypeOK
    <3> QED  BY <2>4, <3>4 DEF AppBlank, agentVars, TypeOK, Read
  <2>5. CASE Rotate(a)
    BY <2>5 DEF Rotate, agentVars, TypeOK, Read
  <2>6. CASE Poll(a)
    <3>1. offset' \in [Agents -> Nat]
      BY <2>6 DEF Poll, TypeOK
    <3>2. offset'[a] \in Nat
      BY <3>1
    <3>3. position' \in [Agents -> Nat] /\ at' \in [Agents -> {"poll", "read", "eof", "down"}]
      BY <2>6, <3>2 DEF Poll, TypeOK
    <3> QED  BY <2>6, <3>1, <3>3 DEF Poll, appVars, TypeOK, Read
  <2>7. ASSUME NEW now \in 1 .. MaxTime, NEW copies \in Copies, ReadLine(a, now, copies)
        PROVE  TypeOK'
    BY <2>7, ReadLineTypes
  <2>8. CASE SkipLine(a)
    BY <2>8 DEF SkipLine, appVars, TypeOK, Read
  <2>9. CASE ReadEnd(a)
    BY <2>9 DEF ReadEnd, appVars, TypeOK, Read
  <2>10. CASE SaveOffset(a)
    BY <2>10 DEF SaveOffset, appVars, TypeOK, Read
  <2>11. CASE Down(a)
    BY <2>11 DEF Down, appVars, TypeOK, Read
  <2>12. CASE Up(a)
    <3>1. vc_init(NodeCount) \in Clock(NodeCount)
      BY InitClockType, CountType
    <3>2. Len(log[a]) \in Nat
      BY DEF TypeOK
    <3> QED  BY <2>12, <3>1, <3>2 DEF Up, appVars, TypeOK, Read
  <2> QED
    BY <1>n, <2>1, <2>2, <2>3, <2>4, <2>5, <2>6, <2>7, <2>8, <2>9, <2>10, <2>11, <2>12
       DEF AppStep, AgentStep
<1> QED  BY <1>u, <1>n DEF Next

\* Every variable of the agents holds what its counterpart can hold.
THEOREM AgentTypes == Spec => []TypeOK
<1>1. Init => TypeOK
  BY InitTypes
<1>2. TypeOK /\ [Next]_vars => TypeOK'
  BY StepTypes
<1> QED  BY <1>1, <1>2, PTL DEF Spec

-----------------------------------------------------------------------------
(***************************************************************************)
(* What an agent knows of the other nodes.  The lines of a file have growing *)
(* clocks, and the agent's clock is below, in the components of the others,  *)
(* every line that is still to be read and the last one: so the maximum of    *)
(* clock and prefix is the prefix.  After a truncation behind the agent's     *)
(* position all lines are newer than what it read, so this holds when it     *)
(* begins again at 0.                                                       *)
(***************************************************************************)

\* The lines of file s, the last of them with clock k.
Grows(s, k) ==
    /\ \A p, q \in DOMAIN s : p <= q =>
          \A i \in 0 .. 2 : s[p].line.vc[i] <= s[q].line.vc[i]
    /\ s # <<>> => s[Len(s)].line.vc = k

\* Agent a with clock c has heard nothing of the others beyond v.
Behind(a, c, v) == \A i \in 0 .. NodeCount - 1 : i # Index(a) => c[i] <= At(v, i)

\* The pieces an agent at position n has not read for sure, or read last.
Ahead(s, n) == {p \in DOMAIN s : p >= n \/ Len(s) < n}

Follows(a, k, s, n, c) ==
    /\ Grows(s, k)
    /\ Behind(a, c, k)
    /\ \A p \in Ahead(s, n) : Behind(a, c, s[p].line.vc)

\* Between polls the stream is where the offset says.
AtRest == \A a \in Agents : at[a] = "poll" => offset[a] = position[a]

FollowsInv ==
    /\ TypeOK
    /\ ForeignFollowsApp
    /\ AtRest
    /\ \A a \in Agents : Follows(a, known[a], log[a], position[a], clock[a])

\* Behind an older clock, behind a newer one.
LEMMA BehindNewer ==
    ASSUME NEW a, NEW c \in Clock(NodeCount), NEW v \in Prefix, NEW w \in Prefix,
           Behind(a, c, v), \A i \in 0 .. 2 : v[i] <= w[i]
    PROVE  Behind(a, c, w)
<1> SUFFICES ASSUME NEW i \in 0 .. NodeCount - 1, i # Index(a) PROVE c[i] <= At(w, i)
  BY DEF Behind
<1>1. c[i] <= At(v, i) /\ c[i] \in Nat
  BY DEF Behind, Clock
<1>2. DOMAIN v = 0 .. 2 /\ DOMAIN w = 0 .. 2 /\ \A j \in 0 .. 2 : v[j] \in Nat /\ w[j] \in Nat
  BY DEF Prefix, Clock
<1>3. CASE i \in 0 .. 2  BY <1>1, <1>2, <1>3 DEF At
<1>4. CASE i \notin 0 .. 2  BY <1>1, <1>2, <1>4 DEF At
<1> QED  BY <1>3, <1>4

\* The application writes: a line with what it knows now, or the rest of the last.
LEMMA WriteFollows ==
    ASSUME NEW a, NEW k \in Prefix, NEW s \in Seq(Piece), NEW n \in Nat,
           NEW c \in Clock(NodeCount), Follows(a, k, s, n, c),
           NEW x \in Piece, \A i \in 0 .. 2 : k[i] <= x.line.vc[i]
    PROVE  Follows(a, x.line.vc, Append(s, x), n, c)
<1> DEFINE t == Append(s, x)
           w == x.line.vc
<1>1. /\ t \in Seq(Piece) /\ Len(t) = Len(s) + 1 /\ Len(s) \in Nat
      /\ t[Len(s) + 1] = x
      /\ \A p \in DOMAIN s : t[p] = s[p]
      /\ DOMAIN s = 1 .. Len(s) /\ DOMAIN t = 1 .. Len(s) + 1
  OBVIOUS
<1>2. w \in Prefix
  BY DEF Piece, Line
<1>3. \A i \in 0 .. 2 : k[i] \in Nat /\ w[i] \in Nat
  BY <1>2 DEF Prefix, Clock
<1>4. ASSUME NEW p \in DOMAIN s, NEW i \in 0 .. 2
      PROVE  s[p].line.vc[i] \in Nat /\ s[p].line.vc[i] <= w[i]
  <2>1. s # <<>> /\ Len(s) \in DOMAIN s /\ p <= Len(s)
    BY <1>1
  <2>2. s[p].line.vc[i] \in Nat
    BY PieceClock
  <2>3. s[p].line.vc[i] <= s[Len(s)].line.vc[i] /\ s[Len(s)].line.vc = k
    BY <2>1 DEF Follows, Grows
  <2>4. s[p].line.vc[i] <= k[i] /\ k[i] <= w[i] /\ k[i] \in Nat /\ w[i] \in Nat
    BY <2>3, <1>3
  <2> DEFINE u == s[p].line.vc[i]
  <2> HIDE DEF u, w
  <2>5. u \in Nat /\ u <= k[i]
    BY <2>2, <2>4 DEF u
  <2>6. u <= w[i]
    BY <2>4, <2>5
  <2> QED  BY <2>5, <2>6 DEF u
<1> HIDE DEF t, w
<1>5. Grows(t, w)
  <2>1. ASSUME NEW p \in DOMAIN t, NEW q \in DOMAIN t, p <= q, NEW i \in 0 .. 2
        PROVE  t[p].line.vc[i] <= t[q].line.vc[i]
    <3>1. CASE q \in DOMAIN s
      <4>1. p \in DOMAIN s
        BY <1>1, <2>1, <3>1
      <4> QED  BY <4>1, <3>1, <1>1, <2>1 DEF Follows, Grows
    <3>2. CASE q \notin DOMAIN s
      <4>1. q = Len(s) + 1 /\ t[q].line.vc = w
        BY <1>1, <3>2 DEF w
      <4>2. CASE p \in DOMAIN s  BY <4>1, <4>2, <1>1, <1>4
      <4>3. CASE p \notin DOMAIN s
        <5>1. p = q
          BY <1>1, <4>1, <4>3
        <5> QED  BY <4>1, <5>1, <1>3
      <4> QED  BY <4>2, <4>3
    <3> QED  BY <3>1, <3>2
  <2>2. t[Len(t)].line.vc = w
    BY <1>1 DEF w
  <2> QED  BY <2>1, <2>2 DEF Grows
<1>6. Behind(a, c, w)
  BY <1>2, BehindNewer DEF Follows, w
<1>7. ASSUME NEW p \in Ahead(t, n) PROVE Behind(a, c, t[p].line.vc)
  <2>1. CASE p \in DOMAIN s
    <3>1. p \in Ahead(s, n)
      BY <1>1, <1>7, <2>1 DEF Ahead
    <3> QED  BY <3>1, <2>1, <1>1 DEF Follows
  <2>2. CASE p \notin DOMAIN s
    <3>1. t[p].line.vc = w
      BY <1>1, <1>7, <2>2 DEF Ahead, w
    <3> QED  BY <3>1, <1>6
  <2> QED  BY <2>1, <2>2
<1> QED  BY <1>5, <1>6, <1>7 DEF Follows, t, w

\* Component by component, a clock that is found is not beyond the line's.
LEMMA FoundAt ==
    ASSUME NEW v, NEW part, NEW vc \in Prefix, Found(v, part, vc), NEW i
    PROVE  At(v, i) \in Nat /\ At(vc, i) \in Nat /\ At(v, i) <= At(vc, i)
<1>1. v \in [0 .. 2 -> Nat] /\ vc \in [0 .. 2 -> Nat] /\ \A j \in 0 .. 2 : v[j] <= vc[j]
  BY DEF Found, Prefix, Clock
<1>2. CASE i \in 0 .. 2  BY <1>1, <1>2 DEF At
<1>3. CASE i \notin 0 .. 2  BY <1>1, <1>3 DEF At
<1> QED  BY <1>2, <1>3

\* The agent takes what it finds in piece p and goes on behind it.
LEMMA ReadFollows ==
    ASSUME NEW a, NEW k \in Prefix, NEW s \in Seq(Piece), NEW n \in Nat,
           NEW c \in Clock(NodeCount), Follows(a, k, s, n, c),
           NEW p \in DOMAIN s, p > n, NEW m \in p .. Len(s),
           NEW d \in Clock(NodeCount),
           \A i \in 0 .. NodeCount - 1 : i # Index(a) =>
              d[i] = c[i] \/ d[i] <= At(s[p].line.vc, i)
    PROVE  Follows(a, k, s, m, d)
<1>1. Len(s) \in Nat /\ DOMAIN s = 1 .. Len(s) /\ s # <<>>
  OBVIOUS
<1>2. p \in Ahead(s, n)
  BY <1>1 DEF Ahead
<1>3. Behind(a, c, s[p].line.vc) /\ s[p].line.vc \in Prefix
  BY <1>2, PieceClock DEF Follows
<1>4. Behind(a, d, s[p].line.vc)
  <2> SUFFICES ASSUME NEW i \in 0 .. NodeCount - 1, i # Index(a)
               PROVE  d[i] <= At(s[p].line.vc, i)
    BY DEF Behind
  <2>1. At(s[p].line.vc, i) \in Nat /\ c[i] \in Nat /\ d[i] \in Nat
    BY <1>3, AtNat DEF Prefix, Clock
  <2> QED  BY <2>1, <1>3 DEF Behind
<1>5. ASSUME NEW q \in DOMAIN s, p <= q PROVE Behind(a, d, s[q].line.vc)
  <2>1. \A i \in 0 .. 2 : s[p].line.vc[i] <= s[q].line.vc[i]
    BY <1>5 DEF Follows, Grows
  <2>2. s[q].line.vc \in Prefix
    BY PieceClock
  <2> QED  BY <2>1, <2>2, <1>3, <1>4, BehindNewer
<1>6. Behind(a, d, k)
  <2>1. Len(s) \in DOMAIN s /\ p <= Len(s) /\ s[Len(s)].line.vc = k
    BY <1>1 DEF Follows, Grows
  <2> QED  BY <2>1, <1>5
<1>7. \A q \in Ahead(s, m) : q \in DOMAIN s /\ p <= q
  BY <1>1 DEF Ahead
<1> QED  BY <1>5, <1>6, <1>7 DEF Follows

LEMMA InitFollows == Init => FollowsInv
<1> SUFFICES ASSUME Init PROVE FollowsInv
  OBVIOUS
<1>1. TypeOK
  BY InitTypes
<1>2. Read = {}
  BY DEF Init, Read, ToSet
<1>3. ForeignFollowsApp
  BY <1>2 DEF ForeignFollowsApp
<1>4. ASSUME NEW a \in Agents PROVE Follows(a, known[a], log[a], position[a], clock[a])
  <2>1. log[a] = <<>>
    BY DEF Init
  <2>2. \A i \in 0 .. NodeCount - 1 : clock[a][i] = 0
    BY InitClockType, CountType DEF Init
  <2>3. known[a] \in Clock(3)
    BY <1>1 DEF TypeOK, Prefix
  <2>4. \A i : At(known[a], i) \in Nat
    BY <2>3, AtNat
  <2> QED  BY <2>1, <2>2, <2>4 DEF Follows, Grows, Behind, Ahead
<1> QED  BY <1>1, <1>3, <1>4 DEF FollowsInv, AtRest, Init

LEMMA StepFollows ==
    ASSUME FollowsInv, TypeOK', NEW a \in Agents,
           AppStep(a) \/ AgentStep(a) \/ Down(a) \/ Up(a)
    PROVE  /\ AtRest'
           /\ \A c \in Agents : Follows(c, known[c], log[c], position[c], clock[c])'
<1> DEFINE Holds(c) == Follows(c, known[c], log[c], position[c], clock[c])
<1>t. /\ known[a] \in Prefix /\ log[a] \in Seq(Piece) /\ position[a] \in Nat
      /\ clock[a] \in Clock(NodeCount) /\ Holds(a)
  BY DEF FollowsInv, TypeOK
<1>o. ASSUME NEW c \in Agents, known'[c] = known[c], log'[c] = log[c],
             position'[c] = position[c], clock'[c] = clock[c]
      PROVE  Holds(c)'
  <2>1. Holds(c)
    BY DEF FollowsInv
  <2> QED  BY <1>o, <2>1
<1>w. ASSUME NEW x \in Piece, log' = [log EXCEPT ![a] = Append(@, x)],
             known' = [known EXCEPT ![a] = x.line.vc],
             \A i \in 0 .. 2 : known[a][i] <= x.line.vc[i], UNCHANGED agentVars
      PROVE  AtRest' /\ \A c \in Agents : Holds(c)'
  <2>1. /\ log'[a] = Append(log[a], x) /\ known'[a] = x.line.vc
        /\ position'[a] = position[a] /\ clock'[a] = clock[a]
    BY <1>w DEF agentVars, FollowsInv, TypeOK
  <2>2. Holds(a)'
    <3>1. Follows(a, x.line.vc, Append(log[a], x), position[a], clock[a])
      BY <1>t, <1>w, WriteFollows
    <3> QED  BY <2>1, <3>1
  <2>3. ASSUME NEW c \in Agents, c # a PROVE Holds(c)'
    BY <1>o, <1>w, <2>3 DEF agentVars, FollowsInv, TypeOK
  <2> QED  BY <1>w, <2>2, <2>3 DEF agentVars, AtRest, FollowsInv
<1> HIDE DEF Holds
<1> SUFFICES AtRest' /\ \A c \in Agents : Holds(c)'
  BY DEF Holds
<1>1. ASSUME NEW vc \in Prefix, NEW part \in {"whole", "head", "full"}, WriteLog(a, vc, part),
             Advances(a, known[a], vc)
      PROVE  AtRest' /\ \A c \in Agents : Holds(c)'
  <2>0. PICK v \in Shows(part, vc) :
          log' = [log EXCEPT ![a] =
                     Append(@, [line |-> [node |-> a, vc |-> vc], part |-> part, shown |-> v])]
    BY <1>1 DEF WriteLog
  <2> DEFINE x == [line |-> [node |-> a, vc |-> vc], part |-> part, shown |-> v]
  <2>1. x \in Piece /\ x.line.vc = vc
    <3>1. part \in Parts \cup {"blank"}
      BY DEF Parts
    <3> QED  BY <3>1, ShowsBelow DEF Piece, Line
  <2>2. /\ log' = [log EXCEPT ![a] = Append(@, x)]
        /\ known' = [known EXCEPT ![a] = x.line.vc]
        /\ UNCHANGED agentVars
    BY <1>1, <2>0 DEF WriteLog
  <2>3. \A i \in 0 .. 2 : known[a][i] <= x.line.vc[i]
    BY <1>1 DEF Advances
  <2> HIDE DEF x
  <2> QED  BY <1>w, <2>1, <2>2, <2>3
<1>2. ASSUME NEW b \in Agents, NEW part \in {"whole", "head", "full"}, AppLog(a, b, part)
      PROVE  AtRest' /\ \A c \in Agents : Holds(c)'
  BY <1>1, <1>2, AppLogAdvances DEF AppLog, Advances, FollowsInv
<1>3. CASE Generate(a)
  <2> DEFINE vc == vc_increment([known[a] EXCEPT ![0] = Max({@, Claimed[a]})], Index(a))
  <2>1. WriteLog(a, vc, "whole") /\ Advances(a, known[a], vc)
    BY <1>3, GenerateAdvances DEF Generate, FollowsInv
  <2>2. vc \in Prefix
    BY <2>1 DEF Advances
  <2> HIDE DEF vc
  <2> QED  BY <1>1, <2>1, <2>2
<1>4. ASSUME NEW rest \in {"tail", "blank"}, AppFinish(a, rest)
      PROVE  AtRest' /\ \A c \in Agents : Holds(c)'
  <2> DEFINE last == log[a][Len(log[a])]
             x == [line |-> last.line, part |-> rest, shown |-> vc_init(3)]
  <2>1. log[a] # <<>> /\ Len(log[a]) \in DOMAIN log[a]
    BY <1>4, <1>t DEF AppFinish, Open, LastPart
  <2>2. last \in Piece /\ last.line.vc = known[a]
    BY <1>t, <2>1 DEF Holds, Follows, Grows
  <2>3. x \in Piece /\ x.line.vc = known[a]
    <3>1. x \in Piece
      BY <2>2, RestIsPiece
    <3>2. x.line = last.line
      BY <2>2 DEF Piece
    <3> QED  BY <2>2, <3>1, <3>2
  <2>4. log' = [log EXCEPT ![a] = Append(@, x)] /\ UNCHANGED agentVars /\ known' = known
    BY <1>4 DEF AppFinish
  <2> HIDE DEF x, last
  <2>5. \A i \in 0 .. 2 : known[a][i] <= x.line.vc[i]
    BY <1>t, <2>3 DEF Prefix, Clock
  <2>6. known' = [known EXCEPT ![a] = x.line.vc]
    BY <2>3, <2>4 DEF FollowsInv, TypeOK
  <2> QED  BY <1>w, <2>3, <2>4, <2>5, <2>6
<1>5. CASE AppBlank(a)
  <2> DEFINE x == [line |-> [node |-> a, vc |-> known[a]], part |-> "blank",
                   shown |-> vc_init(3)]
  <2>1. x \in Piece /\ x.line.vc = known[a]
    <3>1. vc_init(3) \in Prefix /\ vc_init(3) \in Shows("blank", known[a])
      BY InitClockType DEF Prefix, VC_MAX_NODES, Shows
    <3> QED  BY <1>t, <3>1 DEF Piece, Line
  <2>2. log' = [log EXCEPT ![a] = Append(@, x)] /\ UNCHANGED agentVars /\ known' = known
    BY <1>5 DEF AppBlank
  <2> HIDE DEF x
  <2>3. \A i \in 0 .. 2 : known[a][i] <= x.line.vc[i]
    BY <1>t, <2>1 DEF Prefix, Clock
  <2>4. known' = [known EXCEPT ![a] = x.line.vc]
    BY <2>1, <2>2 DEF FollowsInv, TypeOK
  <2> QED  BY <1>w, <2>1, <2>2, <2>3, <2>4
<1>6. CASE Rotate(a)
  <2>1. /\ log'[a] = <<>> /\ known' = known /\ position' = position /\ clock' = clock
        /\ at' = at /\ offset' = offset
        /\ \A c \in Agents : c # a => log'[c] = log[c]
    BY <1>6 DEF Rotate, agentVars, FollowsInv, TypeOK
  <2>2. Holds(a)'
    BY <1>t, <2>1 DEF Holds, Follows, Grows, Ahead
  <2>3. ASSUME NEW c \in Agents, c # a PROVE Holds(c)'
    BY <1>o, <2>1, <2>3
  <2> QED  BY <2>1, <2>2, <2>3 DEF AtRest, FollowsInv
<1>7. CASE Poll(a)
  <2>1. /\ UNCHANGED <<known, log, clock>> /\ at'[a] = "read"
        /\ position'[a] = IF Len(log[a]) < position[a] THEN 0 ELSE position[a]
        /\ \A c \in Agents : c # a =>
              position'[c] = position[c] /\ offset'[c] = offset[c] /\ at'[c] = at[c]
    <3>1. offset[a] = position[a]
      BY <1>7 DEF Poll, FollowsInv, AtRest
    <3>2. offset' = [offset EXCEPT ![a] = IF Len(log[a]) < @ THEN 0 ELSE @]
      BY <1>7 DEF Poll
    <3> QED  BY <1>7, <3>1, <3>2 DEF Poll, appVars, FollowsInv, TypeOK
  <2>2. Holds(a)'
    <3>1. \A p \in Ahead(log[a], position'[a]) : p \in Ahead(log[a], position[a])
      BY <1>t, <2>1 DEF Ahead
    <3> QED  BY <1>t, <2>1, <3>1 DEF Holds, Follows
  <2>3. ASSUME NEW c \in Agents, c # a PROVE Holds(c)'
    BY <1>o, <2>1, <2>3
  <2> QED  BY <2>1, <2>2, <2>3 DEF AtRest, FollowsInv
<1>8. ASSUME NEW now \in 1 .. MaxTime, NEW copies \in Copies, ReadLine(a, now, copies)
      PROVE  AtRest' /\ \A c \in Agents : Holds(c)'
  <2>1. /\ UNCHANGED <<known, log, at, offset>> /\ at[a] = "read"
        /\ \A c \in Agents : c # a => position'[c] = position[c] /\ clock'[c] = clock[c]
    BY <1>8 DEF ReadLine, appVars, FollowsInv, TypeOK
  <2>2. Holds(a)'
    <3>1. PICK p \in DOMAIN log[a] : \E r \in Reading :
              /\ p = position[a] + 1
              /\ position'[a] \in p .. Len(log[a])
              /\ r.line = log[a][p].line
              /\ Found(r.shown, r.part, r.line.vc)
              /\ \A i \in 0 .. NodeCount - 1 : i # Index(a) =>
                    clock'[a][i] = IF At(r.shown, i) > clock[a][i]
                                   THEN At(r.shown, i) ELSE clock[a][i]
      BY <1>8, ReadLineParts DEF FollowsInv
    <3>2. \A i \in 0 .. NodeCount - 1 : i # Index(a) =>
             clock'[a][i] = clock[a][i] \/ clock'[a][i] <= At(log[a][p].line.vc, i)
      <4>1. log[a][p].line.vc \in Prefix
        BY <1>t, PieceClock
      <4> QED  BY <3>1, <4>1, FoundAt
    <3>3. clock'[a] \in Clock(NodeCount) /\ p > position[a]
      BY <3>1, <1>t DEF TypeOK
    <3>4. Follows(a, known[a], log[a], position'[a], clock'[a])
      <4> DEFINE k == known[a]
                 s == log[a]
                 n == position[a]
                 c == clock[a]
                 m == position'[a]
                 d == clock'[a]
      <4>1. /\ k \in Prefix /\ s \in Seq(Piece) /\ n \in Nat /\ c \in Clock(NodeCount)
            /\ Follows(a, k, s, n, c)
            /\ p \in DOMAIN s /\ p > n /\ m \in p .. Len(s) /\ d \in Clock(NodeCount)
            /\ \A i \in 0 .. NodeCount - 1 : i # Index(a) =>
                  d[i] = c[i] \/ d[i] <= At(s[p].line.vc, i)
        BY <1>t, <3>1, <3>2, <3>3 DEF Holds
      <4> HIDE DEF k, s, n, c, m, d
      <4>2. Follows(a, k, s, m, d)
        BY <4>1, ReadFollows
      <4> QED  BY <4>2 DEF k, s, n, c, m, d
    <3> QED  BY <2>1, <3>4 DEF Holds
  <2>3. ASSUME NEW c \in Agents, c # a PROVE Holds(c)'
    BY <1>o, <2>1, <2>3
  <2>4. AtRest'
    BY <2>1 DEF AtRest, FollowsInv
  <2> QED  BY <2>2, <2>3, <2>4
<1>9. CASE SkipLine(a)
  <2>1. /\ UNCHANGED <<known, log, at, offset, clock>> /\ at[a] = "read"
        /\ position'[a] = position[a] + 1 /\ position[a] < Len(log[a])
        /\ \A c \in Agents : c # a => position'[c] = position[c]
    BY <1>9 DEF SkipLine, appVars, FollowsInv, TypeOK
  <2>2. Holds(a)'
    <3>1. /\ position[a] + 1 \in DOMAIN log[a] /\ position[a] + 1 > position[a]
          /\ position[a] + 1 \in position[a] + 1 .. Len(log[a])
      BY <1>t, <2>1
    <3>2. Follows(a, known[a], log[a], position[a] + 1, clock[a])
      BY <1>t, <3>1, ReadFollows DEF Holds
    <3> QED  BY <2>1, <3>2 DEF Holds
  <2>3. ASSUME NEW c \in Agents, c # a PROVE Holds(c)'
    BY <1>o, <2>1, <2>3
  <2> QED  BY <2>1, <2>2, <2>3 DEF AtRest, FollowsInv
<1>10. CASE ReadEnd(a) \/ Down(a) \/ SaveOffset(a)
  <2>1. UNCHANGED <<known, log, position, clock>>
    BY <1>10 DEF ReadEnd, Down, SaveOffset, appVars
  <2>2. AtRest'
    BY <1>10 DEF ReadEnd, Down, SaveOffset, AtRest, FollowsInv, TypeOK
  <2> QED  BY <1>o, <2>1, <2>2
<1>11. CASE Up(a)
  <2>1. /\ UNCHANGED <<known, log>>
        /\ \A i \in 0 .. NodeCount - 1 : clock'[a][i] = 0
        /\ offset'[a] = position'[a]
        /\ \A c \in Agents : c # a =>
              /\ position'[c] = position[c] /\ clock'[c] = clock[c]
              /\ offset'[c] = offset[c] /\ at'[c] = at[c]
    BY <1>11, InitClockType, CountType DEF Up, appVars, FollowsInv, TypeOK
  <2>2. Holds(a)'
    <3>1. ASSUME NEW v \in Prefix PROVE Behind(a, clock'[a], v)
      BY <2>1, AtNat DEF Behind, Prefix
    <3>2. \A p \in DOMAIN log[a] : log[a][p].line.vc \in Prefix
      BY <1>t, PieceClock
    <3> QED  BY <1>t, <2>1, <3>1, <3>2 DEF Holds, Follows, Ahead
  <2>3. ASSUME NEW c \in Agents, c # a PROVE Holds(c)'
    BY <1>o, <2>1, <2>3
  <2> QED  BY <2>1, <2>2, <2>3 DEF AtRest, FollowsInv
<1> QED
  BY <1>2, <1>3, <1>4, <1>5, <1>6, <1>7, <1>8, <1>9, <1>10, <1>11
     DEF AppStep, AgentStep, Holds

\* Only ReadLine adds a reading.
LEMMA OthersReadNothing ==
    ASSUME NEW a \in Agents, AppStep(a) \/ AgentStep(a) \/ Down(a) \/ Up(a)
    PROVE  \/ reads' = reads
           \/ \E now \in 1 .. MaxTime, copies \in Copies : ReadLine(a, now, copies)
BY DEF AppStep, AgentStep, AppLog, Generate, WriteLog, AppFinish, AppBlank, Rotate, Poll,
       SkipLine, ReadEnd, SaveOffset, Down, Up, agentVars

LEMMA StepForeign ==
    ASSUME FollowsInv, NEW a \in Agents, AppStep(a) \/ AgentStep(a) \/ Down(a) \/ Up(a)
    PROVE  ForeignFollowsApp'
<1>1. CASE reads' = reads
  BY <1>1 DEF FollowsInv, ForeignFollowsApp, Read
<1>2. ASSUME NEW now \in 1 .. MaxTime, NEW copies \in Copies, ReadLine(a, now, copies)
      PROVE  ForeignFollowsApp'
  <2>1. PICK p \in DOMAIN log[a] : \E r \in Reading :
            /\ p = position[a] + 1
            /\ r.line = log[a][p].line /\ r.entry.node = a /\ r.entry.vc = clock'[a]
            /\ Found(r.shown, r.part, r.line.vc)
            /\ reads' = [reads EXCEPT ![a] = Append(@, r)]
            /\ \A i \in 0 .. NodeCount - 1 : i # Index(a) =>
                  clock'[a][i] = IF At(r.shown, i) > clock[a][i]
                                 THEN At(r.shown, i) ELSE clock[a][i]
    BY <1>2, ReadLineParts DEF FollowsInv
  <2>2. PICK r \in Reading :
            /\ r.line = log[a][p].line /\ r.entry.node = a /\ r.entry.vc = clock'[a]
            /\ Found(r.shown, r.part, r.line.vc)
            /\ reads' = [reads EXCEPT ![a] = Append(@, r)]
            /\ \A i \in 0 .. NodeCount - 1 : i # Index(a) =>
                  clock'[a][i] = IF At(r.shown, i) > clock[a][i]
                                 THEN At(r.shown, i) ELSE clock[a][i]
    BY <2>1
  <2>3. Behind(a, clock[a], r.line.vc)
    <3>1. p \in Ahead(log[a], position[a])
      BY <2>1 DEF Ahead, FollowsInv, TypeOK
    <3> QED  BY <2>2, <3>1 DEF FollowsInv, Follows
  <2>4. ASSUME NEW i \in DOMAIN r.entry.vc, i # Index(a)
        PROVE  /\ r.entry.vc[i] <= At(r.line.vc, i)
               /\ r.shown = r.line.vc => r.entry.vc[i] = At(r.line.vc, i)
    <3>1. i \in 0 .. NodeCount - 1
      BY <2>4 DEF Reading, LogEntry, Clock
    <3>2. /\ clock[a][i] <= At(r.line.vc, i)
          /\ r.entry.vc[i] = IF At(r.shown, i) > clock[a][i]
                             THEN At(r.shown, i) ELSE clock[a][i]
      BY <2>2, <2>3, <2>4, <3>1 DEF Behind
    <3>3. clock[a][i] \in Nat
      BY <3>1 DEF FollowsInv, TypeOK, Clock
    <3>4. r.line.vc \in Prefix
      BY DEF Reading, Line
    <3>5. /\ At(r.shown, i) \in Nat /\ At(r.line.vc, i) \in Nat
          /\ At(r.shown, i) <= At(r.line.vc, i)
      BY <2>2, <3>4, FoundAt
    <3>6. r.shown = r.line.vc => At(r.shown, i) = At(r.line.vc, i)
      OBVIOUS
    <3> QED  BY <3>2, <3>3, <3>5, <3>6
  <2>5. Read' = Read \cup {r}
    BY <2>2, ReadGrows DEF FollowsInv
  <2> QED  BY <2>2, <2>4, <2>5 DEF FollowsInv, ForeignFollowsApp
<1> QED  BY <1>1, <1>2, OthersReadNothing

LEMMA FollowsInductive == FollowsInv /\ [Next]_vars => FollowsInv'
<1> SUFFICES ASSUME FollowsInv, [Next]_vars PROVE FollowsInv'
  OBVIOUS
<1>1. TypeOK'
  BY StepTypes DEF FollowsInv
<1>2. CASE UNCHANGED vars
  BY <1>1, <1>2 DEF vars, FollowsInv, ForeignFollowsApp, AtRest, Read
<1>3. CASE Next
  BY <1>1, <1>3, StepFollows, StepForeign DEF Next, FollowsInv
<1> QED  BY <1>2, <1>3

\* Whatever is rotated, split, skipped or forgotten, wherever a line is cut, what an
\* entry's clock says of the other nodes is not beyond what the application knew when
\* it wrote the line, and is that where the agent read the whole prefix
\* (process_new_lines, agent.c:276-290).
THEOREM ForeignFollows == Spec => []ForeignFollowsApp
<1>1. Init => FollowsInv
  BY InitFollows
<1>2. FollowsInv /\ [Next]_vars => FollowsInv'
  BY FollowsInductive
<1>3. FollowsInv => ForeignFollowsApp
  BY DEF FollowsInv
<1> QED  BY <1>1, <1>2, <1>3, PTL DEF Spec

-----------------------------------------------------------------------------
(***************************************************************************)
(* No text twice.  A piece comes after another when the application's count  *)
(* in its clock is larger, or when it is the second part of the same line.    *)
(***************************************************************************)

Own(a, x) == x.line.vc[Index(a)]

Before(a, x, y) ==
    \/ Own(a, x) < Own(a, y)
    \/ Own(a, x) = Own(a, y) /\ x.part \in {"head", "full"} /\ y.part \in {"tail", "blank"}

NotAfter(a, x, y) ==
    \/ Own(a, x) < Own(a, y)
    \/ Own(a, x) = Own(a, y) /\ x.part \in {"head", "full", y.part}

\* What agent a has read (r) is before what it will read from position n of file s.
Fresh(a, k, s, n, r) ==
    /\ \A p, q \in DOMAIN s : p < q => Before(a, s[p], s[q])
    /\ \A m \in DOMAIN r :
          /\ Own(a, r[m]) <= k[Index(a)]
          /\ \A p \in DOMAIN s :
                /\ (p > n \/ Len(s) < n) /\ s[p].part # "blank" => Before(a, r[m], s[p])
                /\ p = Len(s) /\ s[p].part # "blank" => NotAfter(a, r[m], s[p])

OnceInv ==
    /\ FollowsInv
    /\ ReadOnce
    /\ \A a \in Agents : Fresh(a, known[a], log[a], position[a], reads[a])

\* The applications' own count is one of the three components of a prefix.  The
\* lines of a fourth application would all look the same.
FitsPrefix == Agents \subseteq 1 .. 3

LEMMA OwnType ==
    ASSUME NEW a, Index(a) \in 0 .. 2
    PROVE  /\ \A x \in Piece \cup Reading : Own(a, x) \in Nat
           /\ \A k \in Prefix : k[Index(a)] \in Nat
BY DEF Own, Piece, Reading, Line, Prefix, Clock

LEMMA OwnGrows ==
    ASSUME NEW a, Index(a) \in 0 .. 2, NEW k \in Prefix, NEW s \in Seq(Piece), Grows(s, k),
           NEW p \in DOMAIN s
    PROVE  Own(a, s[p]) <= k[Index(a)] /\ Own(a, s[Len(s)]) = k[Index(a)]
<1>1. s # <<>> /\ Len(s) \in DOMAIN s /\ p <= Len(s)
  OBVIOUS
<1>2. s[Len(s)].line.vc = k
  BY <1>1 DEF Grows
<1>3. s[p].line.vc[Index(a)] <= s[Len(s)].line.vc[Index(a)]
  BY <1>1 DEF Grows
<1> QED  BY <1>2, <1>3 DEF Own

\* The application writes: a new line, the rest of the last, or an empty first one.
LEMMA WriteFresh ==
    ASSUME NEW a, Index(a) \in 0 .. 2,
           NEW k \in Prefix, NEW s \in Seq(Piece), NEW n \in Nat, NEW r \in Seq(Reading),
           Grows(s, k), Fresh(a, k, s, n, r), NEW x \in Piece,
           \/ k[Index(a)] < Own(a, x)
           \/ /\ s # <<>> /\ s[Len(s)].part \in {"head", "full"}
              /\ x.line = s[Len(s)].line /\ x.part \in {"tail", "blank"}
           \/ s = <<>> /\ x.part = "blank" /\ x.line.vc = k
    PROVE  Fresh(a, x.line.vc, Append(s, x), n, r)
<1> DEFINE t == Append(s, x)
           last == Len(s) + 1
<1>1. /\ t \in Seq(Piece) /\ Len(t) = last /\ Len(s) \in Nat /\ t[last] = x
      /\ DOMAIN s = 1 .. Len(s) /\ DOMAIN t = 1 .. last
      /\ \A p \in DOMAIN s : t[p] = s[p] /\ s[p] \in Piece
      /\ \A p \in DOMAIN t : p \in DOMAIN s \/ p = last
  OBVIOUS
<1>2. /\ Own(a, x) \in Nat /\ k[Index(a)] \in Nat
      /\ \A p \in DOMAIN s : Own(a, s[p]) \in Nat
      /\ \A m \in DOMAIN r : Own(a, r[m]) \in Nat /\ Own(a, r[m]) <= k[Index(a)]
  <2>1. \A m \in DOMAIN r : r[m] \in Reading
    OBVIOUS
  <2> QED  BY <1>1, <2>1, OwnType DEF Fresh
<1>3. \A p \in DOMAIN s : Own(a, s[p]) <= k[Index(a)] /\ Own(a, s[Len(s)]) = k[Index(a)]
  BY OwnGrows
<1>4. k[Index(a)] <= Own(a, x)
  <2>1. s # <<>> => Len(s) \in DOMAIN s
    BY <1>1
  <2>2. CASE k[Index(a)] < Own(a, x)  BY <1>2, <2>2
  <2>3. CASE s # <<>> /\ x.line = s[Len(s)].line
    <3>1. Own(a, x) = k[Index(a)]
      BY <1>3, <2>1, <2>3 DEF Own
    <3> QED  BY <1>2, <3>1
  <2>4. CASE x.line.vc = k  BY <1>2, <2>4 DEF Own
  <2> QED  BY <2>2, <2>3, <2>4
<1>5. ASSUME NEW p \in DOMAIN s PROVE Before(a, s[p], x)
  <2>1. Len(s) \in DOMAIN s /\ s # <<>> /\ p <= Len(s)
    BY <1>1
  <2>2. CASE k[Index(a)] < Own(a, x)  BY <1>2, <1>3, <2>2 DEF Before
  <2>3. CASE /\ s[Len(s)].part \in {"head", "full"}
             /\ x.line = s[Len(s)].line /\ x.part \in {"tail", "blank"}
    <3>1. Own(a, x) = Own(a, s[Len(s)])
      BY <2>3 DEF Own
    <3>2. CASE p = Len(s)  BY <2>3, <3>1, <3>2 DEF Before
    <3>3. CASE p < Len(s)
      <4>1. Before(a, s[p], s[Len(s)])
        BY <2>1, <3>3 DEF Fresh
      <4> QED  BY <2>3, <3>1, <4>1 DEF Before
    <3> QED  BY <1>1, <2>1, <3>2, <3>3
  <2> QED  BY <2>1, <2>2, <2>3
<1>6. ASSUME NEW m \in DOMAIN r, x.part # "blank"
      PROVE  Before(a, r[m], x) /\ NotAfter(a, r[m], x)
  <2>1. CASE k[Index(a)] < Own(a, x)  BY <1>2, <2>1 DEF Before, NotAfter
  <2>2. CASE /\ s # <<>> /\ s[Len(s)].part \in {"head", "full"}
             /\ x.line = s[Len(s)].line /\ x.part \in {"tail", "blank"}
    <3>1. Len(s) \in DOMAIN s
      BY <1>1, <2>2
    <3>2. NotAfter(a, r[m], s[Len(s)])
      BY <2>2, <3>1 DEF Fresh
    <3>3. Own(a, x) = Own(a, s[Len(s)])
      BY <2>2 DEF Own
    <3> QED  BY <2>2, <3>2, <3>3 DEF Before, NotAfter
  <2> QED  BY <1>6, <2>1, <2>2
<1> HIDE DEF t, last
<1>7. ASSUME NEW p \in DOMAIN t, NEW q \in DOMAIN t, p < q PROVE Before(a, t[p], t[q])
  <2>1. p \in DOMAIN s
    BY <1>1, <1>7 DEF last
  <2>2. CASE q \in DOMAIN s  BY <1>1, <1>7, <2>1, <2>2 DEF Fresh
  <2>3. CASE q = last  BY <1>1, <1>5, <2>1, <2>3
  <2> QED  BY <1>1, <2>2, <2>3
<1>8. ASSUME NEW m \in DOMAIN r
      PROVE  /\ Own(a, r[m]) <= x.line.vc[Index(a)]
             /\ \A p \in DOMAIN t :
                   /\ (p > n \/ Len(t) < n) /\ t[p].part # "blank" => Before(a, r[m], t[p])
                   /\ p = Len(t) /\ t[p].part # "blank" => NotAfter(a, r[m], t[p])
  <2>1. Own(a, r[m]) <= Own(a, x)
    BY <1>2, <1>4
  <2>2. ASSUME NEW p \in DOMAIN t, p > n \/ Len(t) < n, t[p].part # "blank"
        PROVE  Before(a, r[m], t[p])
    <3>1. CASE p \in DOMAIN s
      <4>1. p > n \/ Len(s) < n
        BY <1>1, <2>2 DEF last
      <4> QED  BY <1>1, <2>2, <3>1, <4>1 DEF Fresh
    <3>2. CASE p = last  BY <1>1, <1>6, <2>2, <3>2
    <3> QED  BY <1>1, <3>1, <3>2
  <2>3. ASSUME NEW p \in DOMAIN t, p = Len(t), t[p].part # "blank"
        PROVE  NotAfter(a, r[m], t[p])
    BY <1>1, <1>6, <2>3
  <2> QED  BY <2>1, <2>2, <2>3 DEF Own
<1> QED  BY <1>7, <1>8 DEF Fresh, t

\* The agent reads piece p, and goes on behind it: what it made entries of is before it.
LEMMA ReadFresh ==
    ASSUME NEW a, Index(a) \in 0 .. 2,
           NEW k \in Prefix, NEW s \in Seq(Piece), NEW n \in Nat, NEW r \in Seq(Reading),
           Grows(s, k), Fresh(a, k, s, n, r),
           NEW p \in DOMAIN s, p > n, NEW m \in p .. Len(s), s[p].part # "blank",
           NEW y \in Reading, y.line = s[p].line, y.part = s[p].part
    PROVE  /\ Fresh(a, k, s, m, Append(r, y))
           /\ \A i \in DOMAIN r : Before(a, r[i], y)
<1> DEFINE t == Append(r, y)
<1>1. /\ Len(s) \in Nat /\ DOMAIN s = 1 .. Len(s) /\ \A q \in DOMAIN s : s[q] \in Piece
      /\ \A i \in DOMAIN t : \/ i \in DOMAIN r /\ t[i] = r[i]
                             \/ t[i] = y
  OBVIOUS
<1>2. Own(a, y) = Own(a, s[p]) /\ Own(a, y) \in Nat
  BY OwnType DEF Own
<1>3. \A z : Before(a, y, z) <=> Before(a, s[p], z)
  BY <1>2 DEF Before
<1>4. \A z : Before(a, z, y) <=> Before(a, z, s[p])
  BY <1>2 DEF Before
<1> HIDE DEF t
<1>5. ASSUME NEW i \in DOMAIN t
      PROVE  /\ Own(a, t[i]) <= k[Index(a)]
             /\ \A q \in DOMAIN s :
                   /\ (q > m \/ Len(s) < m) /\ s[q].part # "blank" => Before(a, t[i], s[q])
                   /\ q = Len(s) /\ s[q].part # "blank" => NotAfter(a, t[i], s[q])
  <2>1. CASE i \in DOMAIN r /\ t[i] = r[i]
    <3>1. \A q \in DOMAIN s : q > m \/ Len(s) < m => q > n
      BY <1>1
    <3> QED  BY <2>1, <3>1 DEF Fresh
  <2>2. CASE t[i] = y
    <3>1. Own(a, y) <= k[Index(a)]
      BY <1>2, OwnGrows
    <3>2. \A q \in DOMAIN s : q > m \/ Len(s) < m => p < q
      BY <1>1
    <3>3. \A q \in DOMAIN s : p < q => Before(a, y, s[q])
      BY <1>3 DEF Fresh
    <3>4. ASSUME NEW q \in DOMAIN s, q = Len(s) PROVE NotAfter(a, y, s[q])
      <4>1. CASE p = q  BY <1>2, <4>1 DEF NotAfter
      <4>2. CASE p < q  BY <3>3, <4>2 DEF Before, NotAfter
      <4> QED  BY <1>1, <3>4, <4>1, <4>2
    <3> QED  BY <2>2, <3>1, <3>2, <3>3, <3>4
  <2> QED  BY <1>1, <2>1, <2>2
<1>6. \A i \in DOMAIN r : Before(a, r[i], y)
  BY <1>4 DEF Fresh
<1> QED  BY <1>5, <1>6 DEF Fresh, t

LEMMA StepOnce ==
    ASSUME FitsPrefix, OnceInv, NEW a \in Agents, AppStep(a) \/ AgentStep(a) \/ Down(a) \/ Up(a)
    PROVE  ReadOnce' /\ \A c \in Agents : Fresh(c, known[c], log[c], position[c], reads[c])'
<1> DEFINE Holds(c) == Fresh(c, known[c], log[c], position[c], reads[c])
<1>t. /\ known[a] \in Prefix /\ log[a] \in Seq(Piece) /\ position[a] \in Nat
      /\ reads[a] \in Seq(Reading) /\ Holds(a) /\ Grows(log[a], known[a])
      /\ Index(a) \in 0 .. 2
  <2>1. Index(a) \in 0 .. 2
    BY DEF FitsPrefix, Index
  <2>2. Holds(a) /\ Grows(log[a], known[a])
    BY DEF OnceInv, FollowsInv, Follows
  <2>3. /\ known[a] \in Prefix /\ log[a] \in Seq(Piece) /\ position[a] \in Nat
        /\ reads[a] \in Seq(Reading)
    BY DEF OnceInv, FollowsInv, TypeOK
  <2> QED  BY <2>1, <2>2, <2>3
<1>o. ASSUME NEW c \in Agents, known'[c] = known[c], log'[c] = log[c],
             position'[c] = position[c], reads'[c] = reads[c]
      PROVE  Holds(c)'
  <2>1. Holds(c)
    BY DEF OnceInv
  <2> QED  BY <1>o, <2>1
<1>r. ASSUME reads' = reads PROVE ReadOnce'
  BY <1>r DEF OnceInv, ReadOnce
<1>w. ASSUME NEW x \in Piece, log' = [log EXCEPT ![a] = Append(@, x)],
             known' = [known EXCEPT ![a] = x.line.vc], UNCHANGED agentVars,
             \/ known[a][Index(a)] < Own(a, x)
             \/ /\ log[a] # <<>> /\ log[a][Len(log[a])].part \in {"head", "full"}
                /\ x.line = log[a][Len(log[a])].line /\ x.part \in {"tail", "blank"}
             \/ log[a] = <<>> /\ x.part = "blank" /\ x.line.vc = known[a]
      PROVE  ReadOnce' /\ \A c \in Agents : Holds(c)'
  <2>1. /\ log'[a] = Append(log[a], x) /\ known'[a] = x.line.vc
        /\ position' = position /\ reads' = reads
        /\ \A c \in Agents : c # a => log'[c] = log[c] /\ known'[c] = known[c]
    BY <1>w DEF agentVars, OnceInv, FollowsInv, TypeOK
  <2>2. Holds(a)'
    <3>1. Fresh(a, x.line.vc, Append(log[a], x), position[a], reads[a])
      BY <1>t, <1>w, WriteFresh
    <3> QED  BY <2>1, <3>1
  <2>3. ASSUME NEW c \in Agents, c # a PROVE Holds(c)'
    BY <1>o, <2>1, <2>3
  <2> QED  BY <1>r, <2>1, <2>2, <2>3
<1> HIDE DEF Holds
<1> SUFFICES ReadOnce' /\ \A c \in Agents : Holds(c)'
  BY DEF Holds
<1>1. ASSUME NEW vc \in Prefix, NEW part \in {"whole", "head", "full"}, WriteLog(a, vc, part),
             Advances(a, known[a], vc)
      PROVE  ReadOnce' /\ \A c \in Agents : Holds(c)'
  <2>0. PICK v \in Shows(part, vc) :
          log' = [log EXCEPT ![a] =
                     Append(@, [line |-> [node |-> a, vc |-> vc], part |-> part, shown |-> v])]
    BY <1>1 DEF WriteLog
  <2> DEFINE x == [line |-> [node |-> a, vc |-> vc], part |-> part, shown |-> v]
  <2>1. x \in Piece /\ x.line.vc = vc
    <3>1. part \in Parts \cup {"blank"}
      BY DEF Parts
    <3> QED  BY <3>1, ShowsBelow DEF Piece, Line
  <2>2. /\ log' = [log EXCEPT ![a] = Append(@, x)]
        /\ known' = [known EXCEPT ![a] = x.line.vc]
        /\ UNCHANGED agentVars
    BY <1>1, <2>0 DEF WriteLog
  <2> HIDE DEF x
  <2>3. known[a][Index(a)] < Own(a, x)
    BY <1>1, <1>t, <2>1 DEF Advances, Own
  <2> QED  BY <1>w, <2>1, <2>2, <2>3
<1>2. ASSUME NEW b \in Agents, NEW part \in {"whole", "head", "full"}, AppLog(a, b, part)
      PROVE  ReadOnce' /\ \A c \in Agents : Holds(c)'
  BY <1>1, <1>2, AppLogAdvances DEF AppLog, Advances, OnceInv, FollowsInv
<1>3. CASE Generate(a)
  <2> DEFINE vc == vc_increment([known[a] EXCEPT ![0] = Max({@, Claimed[a]})], Index(a))
  <2>1. WriteLog(a, vc, "whole") /\ Advances(a, known[a], vc)
    BY <1>3, GenerateAdvances DEF Generate, OnceInv, FollowsInv
  <2>2. vc \in Prefix
    BY <2>1 DEF Advances
  <2> HIDE DEF vc
  <2> QED  BY <1>1, <2>1, <2>2
<1>4. ASSUME NEW rest \in {"tail", "blank"}, AppFinish(a, rest)
      PROVE  ReadOnce' /\ \A c \in Agents : Holds(c)'
  <2> DEFINE last == log[a][Len(log[a])]
             x == [line |-> last.line, part |-> rest, shown |-> vc_init(3)]
  <2>1. log[a] # <<>> /\ Len(log[a]) \in DOMAIN log[a] /\ last.part \in {"head", "full"}
    BY <1>4, <1>t DEF AppFinish, Open, LastPart
  <2>2. last \in Piece /\ last.line.vc = known[a]
    BY <1>t, <2>1 DEF Grows
  <2>3. x \in Piece /\ x.line.vc = known[a] /\ x.line = last.line /\ x.part = rest
    <3>1. x \in Piece
      BY <2>2, RestIsPiece
    <3>2. x.line = last.line /\ x.part = rest
      BY <2>2 DEF Piece
    <3> QED  BY <2>2, <3>1, <3>2
  <2>4. log' = [log EXCEPT ![a] = Append(@, x)] /\ UNCHANGED agentVars /\ known' = known
    BY <1>4 DEF AppFinish
  <2>5. known' = [known EXCEPT ![a] = x.line.vc]
    BY <2>3, <2>4 DEF OnceInv, FollowsInv, TypeOK
  <2> HIDE DEF x
  <2> QED  BY <1>w, <2>1, <2>3, <2>4, <2>5
<1>5. CASE AppBlank(a)
  <2> DEFINE x == [line |-> [node |-> a, vc |-> known[a]], part |-> "blank",
                   shown |-> vc_init(3)]
  <2>1. x \in Piece /\ x.line.vc = known[a] /\ x.part = "blank"
    <3>1. vc_init(3) \in Prefix /\ vc_init(3) \in Shows("blank", known[a])
      BY InitClockType DEF Prefix, VC_MAX_NODES, Shows
    <3> QED  BY <1>t, <3>1 DEF Piece, Line
  <2>2. /\ log' = [log EXCEPT ![a] = Append(@, x)] /\ UNCHANGED agentVars /\ known' = known
        /\ log[a] = <<>>
    BY <1>5 DEF AppBlank
  <2> HIDE DEF x
  <2>3. known' = [known EXCEPT ![a] = x.line.vc]
    BY <2>1, <2>2 DEF OnceInv, FollowsInv, TypeOK
  <2> QED  BY <1>w, <2>1, <2>2, <2>3
<1>6. CASE Rotate(a)
  <2>1. /\ log'[a] = <<>> /\ known' = known /\ position' = position /\ reads' = reads
        /\ \A c \in Agents : c # a => log'[c] = log[c]
    BY <1>6 DEF Rotate, agentVars, OnceInv, FollowsInv, TypeOK
  <2>2. Holds(a)'
    BY <1>t, <2>1 DEF Holds, Fresh
  <2>3. ASSUME NEW c \in Agents, c # a PROVE Holds(c)'
    BY <1>o, <2>1, <2>3
  <2> QED  BY <1>r, <2>1, <2>2, <2>3
<1>7. CASE Poll(a)
  <2>1. /\ UNCHANGED <<known, log, reads>>
        /\ position'[a] = IF Len(log[a]) < position[a] THEN 0 ELSE position[a]
        /\ \A c \in Agents : c # a => position'[c] = position[c]
    <3>1. offset[a] = position[a]
      BY <1>7 DEF Poll, OnceInv, FollowsInv, AtRest
    <3>2. offset' = [offset EXCEPT ![a] = IF Len(log[a]) < @ THEN 0 ELSE @]
      BY <1>7 DEF Poll
    <3> QED  BY <1>7, <3>1, <3>2 DEF Poll, appVars, OnceInv, FollowsInv, TypeOK
  <2>2. Holds(a)'
    <3>1. \A p \in DOMAIN log[a] :
             p > position'[a] \/ Len(log[a]) < position'[a] =>
                p > position[a] \/ Len(log[a]) < position[a]
      BY <1>t, <2>1
    <3> QED  BY <1>t, <2>1, <3>1 DEF Holds, Fresh
  <2>3. ASSUME NEW c \in Agents, c # a PROVE Holds(c)'
    BY <1>o, <2>1, <2>3
  <2> QED  BY <1>r, <2>1, <2>2, <2>3
<1>8. ASSUME NEW now \in 1 .. MaxTime, NEW copies \in Copies, ReadLine(a, now, copies)
      PROVE  ReadOnce' /\ \A c \in Agents : Holds(c)'
  <2>1. /\ UNCHANGED <<known, log>>
        /\ \A c \in Agents : c # a => position'[c] = position[c]
    BY <1>8 DEF ReadLine, appVars, OnceInv, FollowsInv, TypeOK
  <2>2. PICK p \in DOMAIN log[a] : \E y \in Reading :
            /\ p = position[a] + 1
            /\ position'[a] \in p .. Len(log[a])
            /\ log[a][p].part # "blank"
            /\ y.line = log[a][p].line /\ y.part = log[a][p].part
            /\ reads' = [reads EXCEPT ![a] = Append(@, y)]
    BY <1>8, ReadLineParts DEF OnceInv, FollowsInv
  <2>3. PICK y \in Reading :
            /\ y.line = log[a][p].line /\ y.part = log[a][p].part
            /\ reads' = [reads EXCEPT ![a] = Append(@, y)]
    BY <2>2
  <2>4. /\ reads'[a] = Append(reads[a], y)
        /\ \A c \in Agents : c # a => reads'[c] = reads[c]
    BY <2>3 DEF OnceInv, FollowsInv, TypeOK
  <2>5. /\ Fresh(a, known[a], log[a], position'[a], Append(reads[a], y))
        /\ \A i \in DOMAIN reads[a] : Before(a, reads[a][i], y)
    <3> DEFINE m == position'[a]
    <3>1. m \in p .. Len(log[a]) /\ p > position[a]
      BY <1>t, <2>2
    <3> HIDE DEF m
    <3>2. /\ Fresh(a, known[a], log[a], m, Append(reads[a], y))
          /\ \A i \in DOMAIN reads[a] : Before(a, reads[a][i], y)
      BY <1>t, <2>2, <2>3, <3>1, ReadFresh DEF Holds
    <3> QED  BY <3>2 DEF m
  <2>6. Holds(a)'
    BY <2>1, <2>4, <2>5 DEF Holds
  <2>7. ASSUME NEW c \in Agents, c # a PROVE Holds(c)'
    BY <1>o, <2>1, <2>4, <2>7
  <2>8. ReadOnce'
    <3> SUFFICES ASSUME NEW c \in Agents, NEW i \in DOMAIN reads'[c],
                        NEW j \in DOMAIN reads'[c], i < j
                 PROVE  <<reads'[c][i].line, reads'[c][i].part>>
                           # <<reads'[c][j].line, reads'[c][j].part>>
      BY DEF ReadOnce
    <3>1. CASE c # a
      BY <2>4, <3>1 DEF OnceInv, ReadOnce
    <3>2. CASE c = a
      <4>1. /\ Len(reads[a]) \in Nat /\ DOMAIN reads[a] = 1 .. Len(reads[a])
            /\ DOMAIN reads'[a] = 1 .. Len(reads[a]) + 1
            /\ reads'[a][Len(reads[a]) + 1] = y
            /\ \A u \in DOMAIN reads[a] : reads'[a][u] = reads[a][u]
        BY <1>t, <2>4
      <4>2. i \in DOMAIN reads[a] /\ (j \in DOMAIN reads[a] \/ j = Len(reads[a]) + 1)
        BY <3>2, <4>1
      <4>3. CASE j \in DOMAIN reads[a]
        BY <3>2, <4>1, <4>2, <4>3 DEF OnceInv, ReadOnce
      <4>4. CASE j = Len(reads[a]) + 1
        <5>1. reads'[a][i] = reads[a][i] /\ reads'[a][j] = y /\ Before(a, reads[a][i], y)
          BY <2>5, <4>1, <4>2, <4>4
        <5>2. reads[a][i] \in Reading
          BY <1>t, <4>2
        <5>3. Own(a, y) \in Nat /\ Own(a, reads[a][i]) \in Nat
          BY <1>t, <5>2, OwnType
        <5>4. ~(reads[a][i].line = y.line /\ reads[a][i].part = y.part)
          BY <5>1, <5>3 DEF Before, Own
        <5> QED  BY <3>2, <5>1, <5>4
      <4> QED  BY <4>2, <4>3, <4>4
    <3> QED  BY <3>1, <3>2
  <2> QED  BY <2>6, <2>7, <2>8
<1>9. CASE SkipLine(a)
  <2>1. /\ UNCHANGED <<known, log, reads>>
        /\ position'[a] = position[a] + 1 /\ position[a] < Len(log[a])
        /\ \A c \in Agents : c # a => position'[c] = position[c]
    BY <1>9 DEF SkipLine, appVars, OnceInv, FollowsInv, TypeOK
  <2>2. Holds(a)'
    <3>1. \A p \in DOMAIN log[a] :
             p > position'[a] \/ Len(log[a]) < position'[a] => p > position[a]
      BY <1>t, <2>1
    <3> QED  BY <1>t, <2>1, <3>1 DEF Holds, Fresh
  <2>3. ASSUME NEW c \in Agents, c # a PROVE Holds(c)'
    BY <1>o, <2>1, <2>3
  <2> QED  BY <1>r, <2>1, <2>2, <2>3
<1>10. CASE ReadEnd(a) \/ Down(a) \/ SaveOffset(a)
  <2>1. UNCHANGED <<known, log, position, reads>>
    BY <1>10 DEF ReadEnd, Down, SaveOffset, appVars
  <2> QED  BY <1>o, <1>r, <2>1
<1>11. CASE Up(a)
  <2>1. /\ UNCHANGED <<known, log, reads>> /\ position'[a] = Len(log[a])
        /\ \A c \in Agents : c # a => position'[c] = position[c]
    BY <1>11 DEF Up, appVars, OnceInv, FollowsInv, TypeOK
  <2>2. Holds(a)'
    <3>1. \A p \in DOMAIN log[a] : ~(p > position'[a] \/ Len(log[a]) < position'[a])
      BY <1>t, <2>1
    <3> QED  BY <1>t, <2>1, <3>1 DEF Holds, Fresh
  <2>3. ASSUME NEW c \in Agents, c # a PROVE Holds(c)'
    BY <1>o, <2>1, <2>3
  <2> QED  BY <1>r, <2>1, <2>2, <2>3
<1> QED
  BY <1>2, <1>3, <1>4, <1>5, <1>6, <1>7, <1>8, <1>9, <1>10, <1>11 DEF AppStep, AgentStep

LEMMA InitOnce == Init => OnceInv
<1> SUFFICES ASSUME Init PROVE OnceInv
  OBVIOUS
<1>1. FollowsInv
  BY InitFollows
<1>2. \A a \in Agents : log[a] = <<>> /\ reads[a] = <<>>
  BY DEF Init
<1> QED  BY <1>1, <1>2 DEF OnceInv, ReadOnce, Fresh

\* No text becomes an entry twice, whatever truncations, restarts and polls
\* interleave to, for the applications a prefix has a component for.
THEOREM ReadsOnce ==
    ASSUME FitsPrefix
    PROVE  Spec => []ReadOnce
<1>1. Init => OnceInv
  BY InitOnce
<1>2. OnceInv /\ [Next]_vars => OnceInv'
  <2> SUFFICES ASSUME OnceInv, [Next]_vars PROVE OnceInv'
    OBVIOUS
  <2>1. FollowsInv'
    BY FollowsInductive DEF OnceInv
  <2>2. CASE UNCHANGED vars
    BY <2>1, <2>2 DEF vars, OnceInv, ReadOnce
  <2>3. CASE Next
    BY <2>1, <2>3, FitsPrefix, StepOnce DEF Next, OnceInv
  <2> QED  BY <2>2, <2>3
<1>3. OnceInv => ReadOnce
  BY DEF OnceInv
<1> QED  BY <1>1, <1>2, <1>3, PTL DEF Spec


-----------------------------------------------------------------------------
(***************************************************************************)
(* Without restarts, an agent's own component numbers its entries.           *)
(***************************************************************************)

\* Every agent has a component of its own: none is started with a number beyond
\* its -c.
FitsClock == Agents \subseteq 1 .. NodeCount

OwnCount(e) == e.vc[Index(e.node)]

\* The entries r made with clock c now, in the order of their numbers.
Numbered(a, c, r) ==
    \A i \in DOMAIN r :
        /\ r[i].entry.node = a
        /\ 1 <= OwnCount(r[i].entry) /\ OwnCount(r[i].entry) <= c[Index(a)]
        /\ \A j \in DOMAIN r : i < j => OwnCount(r[i].entry) < OwnCount(r[j].entry)

\* No agent is down.
AllUp == \A a \in Agents : at[a] # "down"

NumberedInv == AllUp /\ \A a \in Agents : Numbered(a, clock[a], reads[a])

LEMMA OwnIndex ==
    ASSUME FitsClock, NEW a \in Agents
    PROVE  Index(a) \in 0 .. NodeCount - 1 /\ Index(a) \in Nat /\ a \in 1 .. NodeCount
BY CountType DEF FitsClock, Index

\* A line counts one, whatever it is.
LEMMA ReadCounts ==
    ASSUME FitsClock, TypeOK, NEW a \in Agents, NEW now, NEW copies, ReadLine(a, now, copies)
    PROVE  clock'[a][Index(a)] = clock[a][Index(a)] + 1
<1> DEFINE p == position[a] + 1
           vc == Heard(a, Shown(log[a], p))
<1>1. log[a] \in Seq(Piece) /\ p \in DOMAIN log[a]
  BY DEF ReadLine, TypeOK
<1>2. Shown(log[a], p) \in Prefix
  BY <1>1, ShownFound DEF Found
<1>3. vc \in Clock(NodeCount) /\ vc[Index(a)] = clock[a][Index(a)]
  BY <1>2, HeardType, OwnIndex DEF TypeOK
<1>4. clock'[a] = vc_increment(vc, Index(a))
  BY DEF ReadLine, TypeOK
<1> HIDE DEF vc
<1>5. vc_increment(vc, Index(a))[Index(a)] = vc[Index(a)] + 1
  BY <1>3, IncrementType, OwnIndex, CountType
<1> QED  BY <1>3, <1>4, <1>5

LEMMA AppendNumbered ==
    ASSUME FitsClock, NEW a \in Agents, NEW r \in Seq(Reading), NEW y \in Reading,
           NEW c \in Clock(NodeCount), NEW d \in Clock(NodeCount), Numbered(a, c, r),
           y.entry.node = a, y.entry.vc = d, d[Index(a)] = c[Index(a)] + 1
    PROVE  Numbered(a, d, Append(r, y))
<1> DEFINE t == Append(r, y)
<1>1. /\ \A i \in DOMAIN t : i \in DOMAIN r \/ i = Len(r) + 1
      /\ \A i \in DOMAIN r : t[i] = r[i] /\ i < Len(r) + 1 /\ r[i] \in Reading
      /\ t[Len(r) + 1] = y
      /\ \A i, j \in DOMAIN t : i < j => i \in DOMAIN r
  OBVIOUS
<1>2. c[Index(a)] \in Nat /\ OwnCount(y.entry) = c[Index(a)] + 1 /\ d[Index(a)] = c[Index(a)] + 1
  BY OwnIndex DEF OwnCount, Clock
<1>3. \A i \in DOMAIN r : OwnCount(r[i].entry) \in Nat
  <2> SUFFICES ASSUME NEW i \in DOMAIN r PROVE OwnCount(r[i].entry) \in Nat
    OBVIOUS
  <2>1. r[i].entry \in LogEntry(NodeCount) /\ r[i].entry.node = a
    BY <1>1 DEF Reading, Numbered
  <2> QED  BY <2>1, OwnIndex DEF OwnCount, LogEntry, Clock
<1> HIDE DEF t
<1>4. ASSUME NEW i \in DOMAIN t
      PROVE  /\ t[i].entry.node = a
             /\ 1 <= OwnCount(t[i].entry) /\ OwnCount(t[i].entry) <= d[Index(a)]
  <2>1. CASE i \in DOMAIN r
    <3>1. /\ r[i].entry.node = a /\ 1 <= OwnCount(r[i].entry)
          /\ OwnCount(r[i].entry) <= c[Index(a)]
      BY <2>1 DEF Numbered
    <3> QED  BY <1>1, <1>2, <1>3, <2>1, <3>1
  <2>2. CASE i = Len(r) + 1  BY <1>1, <1>2, <2>2
  <2> QED  BY <1>1, <2>1, <2>2
<1>5. ASSUME NEW i \in DOMAIN t, NEW j \in DOMAIN t, i < j
      PROVE  OwnCount(t[i].entry) < OwnCount(t[j].entry)
  <2>1. i \in DOMAIN r
    BY <1>1, <1>5
  <2>2. CASE j \in DOMAIN r  BY <1>1, <1>5, <2>1, <2>2 DEF Numbered
  <2>3. CASE j = Len(r) + 1
    <3>1. OwnCount(r[i].entry) <= c[Index(a)]
      BY <2>1 DEF Numbered
    <3> QED  BY <1>1, <1>2, <1>3, <2>1, <2>3, <3>1
  <2> QED  BY <1>1, <2>2, <2>3
<1> QED  BY <1>4, <1>5 DEF Numbered, t

\* Only ReadLine and a start change clocks or readings, and only Down stops an agent.
LEMMA StepCounts ==
    ASSUME NEW a \in Agents, AppStep(a) \/ AgentStep(a) \/ Down(a) \/ Up(a),
           "restart" \notin Faults, TypeOK, AllUp
    PROVE  /\ AllUp'
           /\ \/ UNCHANGED <<clock, reads>>
              \/ \E now \in 1 .. MaxTime, copies \in Copies : ReadLine(a, now, copies)
<1>1. ~Down(a) /\ ~Up(a)
  BY DEF Down, Up, AllUp, Befalls
<1>2. CASE AppStep(a)
  BY <1>2 DEF AppStep, AppLog, Generate, WriteLog, AppFinish, AppBlank, Rotate, agentVars, AllUp
<1>3. CASE Poll(a)      BY <1>3 DEF Poll, TypeOK, AllUp
<1>4. CASE SkipLine(a)  BY <1>4 DEF SkipLine, AllUp
<1>5. CASE ReadEnd(a)   BY <1>5 DEF ReadEnd, TypeOK, AllUp
<1>6. CASE SaveOffset(a)  BY <1>6 DEF SaveOffset, TypeOK, AllUp
<1>7. ASSUME NEW now \in 1 .. MaxTime, NEW copies \in Copies, ReadLine(a, now, copies)
      PROVE  AllUp'
  BY <1>7 DEF ReadLine, AllUp
<1> QED  BY <1>1, <1>2, <1>3, <1>4, <1>5, <1>6, <1>7 DEF AgentStep

LEMMA StepNumbered ==
    ASSUME FitsClock, "restart" \notin Faults, TypeOK, NumberedInv,
           NEW a \in Agents, AppStep(a) \/ AgentStep(a) \/ Down(a) \/ Up(a)
    PROVE  NumberedInv'
<1>1. AllUp'
  BY StepCounts DEF NumberedInv
<1>2. CASE UNCHANGED <<clock, reads>>
  BY <1>1, <1>2 DEF NumberedInv
<1>3. ASSUME NEW now \in 1 .. MaxTime, NEW copies \in Copies, ReadLine(a, now, copies)
      PROVE  NumberedInv'
  <2>1. PICK p \in DOMAIN log[a] : \E r \in Reading :
           /\ r.entry.node = a /\ r.entry.vc = clock'[a]
           /\ reads' = [reads EXCEPT ![a] = Append(@, r)]
    BY <1>3, ReadLineParts
  <2>2. PICK r \in Reading : /\ r.entry.node = a /\ r.entry.vc = clock'[a]
                             /\ reads' = [reads EXCEPT ![a] = Append(@, r)]
    BY <2>1
  <2>3. /\ reads'[a] = Append(reads[a], r) /\ reads[a] \in Seq(Reading)
        /\ \A c \in Agents : c # a => reads'[c] = reads[c] /\ clock'[c] = clock[c]
    BY <1>3, <2>2 DEF ReadLine, TypeOK
  <2>4. clock'[a][Index(a)] = clock[a][Index(a)] + 1
    BY <1>3, ReadCounts
  <2>5. clock[a] \in Clock(NodeCount) /\ clock'[a] \in Clock(NodeCount)
    BY <2>2 DEF TypeOK, Reading, LogEntry
  <2>6. Numbered(a, clock'[a], Append(reads[a], r))
    BY <2>2, <2>3, <2>4, <2>5, AppendNumbered DEF NumberedInv
  <2>7. \A c \in Agents : Numbered(c, clock'[c], reads'[c])
    BY <2>3, <2>6 DEF NumberedInv
  <2> QED  BY <1>1, <2>7 DEF NumberedInv, Numbered, OwnCount
<1> QED  BY <1>2, <1>3, StepCounts DEF NumberedInv

LEMMA InitNumbered == Init => NumberedInv
<1> SUFFICES ASSUME Init PROVE NumberedInv
  OBVIOUS
<1>1. \A a \in Agents : reads[a] = <<>> /\ at[a] = "poll"
  BY DEF Init
<1> QED  BY <1>1 DEF NumberedInv, AllUp, Numbered

\* Node and own component tell the entries apart.
LEMMA NumbersIdentify ==
    ASSUME FitsClock, TypeOK, NumberedInv, NEW r \in Read, NEW q \in Read
    PROVE  /\ r.entry \in LogEntry(NodeCount) /\ r.entry.node \in Agents
           /\ OwnCount(r.entry) \in Nat /\ 1 <= OwnCount(r.entry)
           /\ r.entry.node = q.entry.node /\ OwnCount(r.entry) = OwnCount(q.entry)
                 => r.entry = q.entry
<1>1. PICK a \in Agents : \E i \in DOMAIN reads[a] : r = reads[a][i]
  BY DEF Read, ToSet
<1>2. PICK i \in DOMAIN reads[a] : r = reads[a][i]
  BY <1>1
<1>3. PICK b \in Agents : \E j \in DOMAIN reads[b] : q = reads[b][j]
  BY DEF Read, ToSet
<1>4. PICK j \in DOMAIN reads[b] : q = reads[b][j]
  BY <1>3
<1>5. /\ reads[a] \in Seq(Reading) /\ reads[b] \in Seq(Reading)
      /\ DOMAIN reads[a] \subseteq Nat /\ DOMAIN reads[b] \subseteq Nat
      /\ r \in Reading /\ q \in Reading
  BY <1>2, <1>4 DEF TypeOK
<1>6. /\ r.entry.node = a /\ q.entry.node = b /\ 1 <= OwnCount(r.entry)
      /\ a = b => /\ i < j => OwnCount(r.entry) < OwnCount(q.entry)
                  /\ j < i => OwnCount(q.entry) < OwnCount(r.entry)
  BY <1>2, <1>4 DEF NumberedInv, Numbered
<1>7. /\ r.entry \in LogEntry(NodeCount) /\ q.entry \in LogEntry(NodeCount)
      /\ OwnCount(r.entry) \in Nat /\ OwnCount(q.entry) \in Nat
  <2>1. r.entry \in LogEntry(NodeCount) /\ q.entry \in LogEntry(NodeCount)
    BY <1>5 DEF Reading
  <2> QED  BY <1>6, <2>1, OwnIndex DEF OwnCount, LogEntry, Clock
<1>8. ASSUME a = b, OwnCount(r.entry) = OwnCount(q.entry) PROVE r.entry = q.entry
  <2>1. i = j
    BY <1>5, <1>6, <1>7, <1>8
  <2> QED  BY <1>2, <1>4, <1>8, <2>1
<1> QED  BY <1>6, <1>7, <1>8

-----------------------------------------------------------------------------
(***************************************************************************)
(* With whole lines alone, and no truncation or restart, the count an agent  *)
(* keeps is the application's, so that its clock is the one the application   *)
(* put in the line.                                                         *)
(***************************************************************************)

\* The clocks agents give lines are the applications'.
ClocksExact == \A r \in Read : r.entry.vc = r.line.vc

\* How many pieces of file s do not count.
Blanks(s) == IF s # <<>> /\ s[1].part = "blank" THEN 1 ELSE 0

\* Application a has numbered the lines of s and is at k; agent a has read n pieces
\* and is at c.
Counted(a, k, s, n, c) ==
    /\ \A p \in DOMAIN s : /\ s[p].part \in {"whole", "blank"}
                           /\ s[p].part = "blank" => p = 1
                           /\ Own(a, s[p]) = p - Blanks(s)
    /\ k[Index(a)] = Len(s) - Blanks(s)
    /\ n <= Len(s)
    /\ c[Index(a)] = IF n = 0 THEN 0 ELSE n - Blanks(s)

\* Nobody has heard of more events of a than a had.
NoneAhead == program = "free" => \A a, b \in Agents : known[b][Index(a)] <= known[a][Index(a)]

ExactInv ==
    /\ FollowsInv
    /\ ClocksExact
    /\ AllUp
    /\ NoneAhead
    /\ \A a \in Agents : Counted(a, known[a], log[a], position[a], clock[a])

\* Prefixes and clocks have the same components, one for each application, and
\* nothing worse befalls them than an empty line.
Undisturbed == FitsPrefix /\ NodeCount = 3 /\ Faults \subseteq {"blank"}

LEMMA UndisturbedFits ==
    ASSUME Undisturbed, NEW a \in Agents
    PROVE  FitsClock /\ Index(a) \in 0 .. 2 /\ "restart" \notin Faults
BY DEF Undisturbed, FitsPrefix, FitsClock, Index

\* The application writes a line, its next one, or an empty line.
LEMMA WriteCounted ==
    ASSUME NEW a, Index(a) \in 0 .. 2,
           NEW k \in Prefix, NEW s \in Seq(Piece), NEW n \in Nat, NEW c,
           Counted(a, k, s, n, c), NEW x \in Piece,
           \/ x.part = "whole" /\ Own(a, x) = k[Index(a)] + 1
           \/ x.part = "blank" /\ Own(a, x) = k[Index(a)] /\ s = <<>>
    PROVE  Counted(a, x.line.vc, Append(s, x), n, c)
<1> DEFINE t == Append(s, x)
           b == Blanks(s)
<1>1. /\ Len(t) = Len(s) + 1 /\ Len(s) \in Nat /\ t[Len(s) + 1] = x /\ t # <<>>
      /\ \A p \in DOMAIN s : t[p] = s[p]
      /\ \A p \in DOMAIN t : p \in DOMAIN s \/ p = Len(s) + 1
  OBVIOUS
<1>2. b \in {0, 1} /\ k[Index(a)] = Len(s) - b /\ n <= Len(s)
  BY DEF Blanks, Counted
<1>3. CASE s = <<>>
  <2>1. Len(s) = 0 /\ DOMAIN s = {} /\ b = 0
    BY <1>3 DEF Blanks
  <2>2. t[1] = x /\ Len(t) = 1 /\ n = 0 /\ k[Index(a)] = 0 /\ c[Index(a)] = 0
    BY <1>1, <1>2, <2>1 DEF Counted
  <2>3. Blanks(t) = IF x.part = "blank" THEN 1 ELSE 0
    BY <1>1, <2>2 DEF Blanks
  <2>4. Own(a, x) = 1 - Blanks(t)
    BY <2>2, <2>3
  <2>5. \A p \in DOMAIN t : p = 1
    BY <1>1, <2>1
  <2> HIDE DEF t, b
  <2>6. Counted(a, x.line.vc, t, n, c)
    <3>1. \A p \in DOMAIN t : /\ t[p].part \in {"whole", "blank"}
                              /\ t[p].part = "blank" => p = 1
                              /\ Own(a, t[p]) = p - Blanks(t)
      BY <2>2, <2>4, <2>5
    <3>2. x.line.vc[Index(a)] = Len(t) - Blanks(t)
      BY <2>2, <2>4 DEF Own
    <3> QED  BY <2>2, <3>1, <3>2 DEF Counted
  <2> QED  BY <2>6 DEF t
<1>4. CASE s # <<>>
  <2>1. 1 \in DOMAIN s /\ t[1] = s[1] /\ Blanks(t) = b
    BY <1>1, <1>4 DEF Blanks
  <2>2. x.part = "whole" /\ Own(a, x) = Len(s) + 1 - b
    BY <1>2, <1>4
  <2> HIDE DEF t, b
  <2>3. ASSUME NEW p \in DOMAIN t
        PROVE  /\ t[p].part \in {"whole", "blank"}
               /\ t[p].part = "blank" => p = 1
               /\ Own(a, t[p]) = p - Blanks(t)
    <3>1. CASE p \in DOMAIN s  BY <1>1, <2>1, <3>1 DEF Counted, b
    <3>2. CASE p = Len(s) + 1  BY <1>1, <1>2, <2>1, <2>2, <3>2
    <3> QED  BY <1>1, <3>1, <3>2
  <2>4. x.line.vc[Index(a)] = Len(t) - Blanks(t)
    BY <1>1, <1>2, <2>1, <2>2 DEF Own
  <2>5. c[Index(a)] = IF n = 0 THEN 0 ELSE n - Blanks(t)
    BY <2>1 DEF Counted, b
  <2>6. Counted(a, x.line.vc, t, n, c)
    BY <1>1, <1>2, <2>3, <2>4, <2>5 DEF Counted
  <2> QED  BY <2>6 DEF t
<1> QED  BY <1>3, <1>4

\* The number an application gives its next line.
LEMMA AppLogCounts ==
    ASSUME Undisturbed, TypeOK, NoneAhead, program = "free", NEW a \in Agents, NEW b \in Agents
    PROVE  LET v == vc_increment(vc_merge(known[a], known[b]), Index(a))
           IN  /\ v \in Prefix /\ v[Index(a)] = known[a][Index(a)] + 1
               /\ \A i \in 0 .. 2 : i # Index(a) =>
                     v[i] = known[a][i] \/ v[i] = known[b][i]
<1> DEFINE m == vc_merge(known[a], known[b])
<1>1. known[a] \in Clock(3) /\ known[b] \in Clock(3) /\ Index(a) \in 0 .. 2
  BY UndisturbedFits DEF TypeOK, Prefix
<1>2. /\ m \in Clock(3)
      /\ \A i \in 0 .. 2 : m[i] = IF known[b][i] > known[a][i] THEN known[b][i] ELSE known[a][i]
  BY <1>1 DEF vc_merge, Clock, At
<1>3. known[b][Index(a)] <= known[a][Index(a)] /\ known[b][Index(a)] \in Nat
      /\ known[a][Index(a)] \in Nat
  BY <1>1 DEF NoneAhead, Clock
<1>4. m[Index(a)] = known[a][Index(a)]
  BY <1>1, <1>2, <1>3
<1> HIDE DEF m
<1>5. /\ vc_increment(m, Index(a)) \in Clock(3)
      /\ \A i \in 0 .. 3 - 1 : vc_increment(m, Index(a))[i] = IF i = Index(a) THEN m[i] + 1 ELSE m[i]
  BY <1>2, IncrementType
<1>6. \A i \in 0 .. 2 : m[i] = known[a][i] \/ m[i] = known[b][i]
  BY <1>2
<1> QED  BY <1>1, <1>4, <1>5, <1>6 DEF m, Prefix

LEMMA GenerateCounts ==
    ASSUME Undisturbed, TypeOK, NEW a \in Agents, a \in DOMAIN Claimed
    PROVE  LET v == vc_increment([known[a] EXCEPT ![0] = Max({@, Claimed[a]})], Index(a))
           IN  v \in Prefix /\ v[Index(a)] = known[a][Index(a)] + 1
<1> DEFINE m == [known[a] EXCEPT ![0] = Max({@, Claimed[a]})]
<1>1. known[a] \in Clock(3) /\ Index(a) \in 0 .. 2 /\ Claimed[a] \in Nat
  BY UndisturbedFits DEF TypeOK, Prefix, Claimed
<1>2. known[a][0] \in Nat
  BY <1>1 DEF Clock
<1>3. Max({known[a][0], Claimed[a]}) \in Nat /\ Max({known[a][0], Claimed[a]}) >= known[a][0]
  BY <1>1, <1>2, MaxOfTwo
<1>4. m \in Clock(3)
  BY <1>1, <1>3 DEF Clock
<1>5. m[Index(a)] = known[a][Index(a)]
  <2>1. CASE Index(a) = 0
    <3>1. a = 1
      BY <2>1, IndexType DEF Index
    <3>2. Claimed[a] = 0
      BY <3>1 DEF Claimed
    <3>3. \A u : u \in {known[a][0], 0} => known[a][0] >= u
      BY <1>2
    <3>4. \A z \in {known[a][0], 0} : (\A u \in {known[a][0], 0} : z >= u) => z = known[a][0]
      BY <1>2
    <3>5. Max({known[a][0], 0}) = known[a][0]
      BY <3>3, <3>4 DEF Max
    <3> QED  BY <1>1, <2>1, <3>2, <3>5 DEF Clock
  <2>2. CASE Index(a) # 0  BY <1>1, <2>2 DEF Clock
  <2> QED  BY <2>1, <2>2
<1> HIDE DEF m
<1>6. /\ vc_increment(m, Index(a)) \in Clock(3)
      /\ \A i \in 0 .. 3 - 1 : vc_increment(m, Index(a))[i] = IF i = Index(a) THEN m[i] + 1 ELSE m[i]
  BY <1>4, IncrementType
<1> QED  BY <1>1, <1>5, <1>6 DEF m, Prefix

\* What the agent reads next carries the number the agent counts next.
LEMMA NextNumber ==
    ASSUME NEW a, Index(a) \in 0 .. 2,
           NEW k \in Prefix, NEW s \in Seq(Piece), NEW n \in Nat, NEW c \in Clock(3),
           Counted(a, k, s, n, c), n < Len(s), NEW q, q = n + 1,
           NEW d, d[Index(a)] = c[Index(a)] + 1
    PROVE  /\ s[q].part = "blank" => Counted(a, k, s, q, c)
           /\ s[q].part # "blank" => /\ s[q].part = "whole"
                                     /\ Own(a, s[q]) = d[Index(a)]
                                     /\ Counted(a, k, s, q, d)
<1> DEFINE b == Blanks(s)
<1>1. q \in DOMAIN s /\ 1 \in DOMAIN s /\ s # <<>> /\ q <= Len(s) /\ q # 0 /\ q \in Nat
  OBVIOUS
<1>2. b = IF s[1].part = "blank" THEN 1 ELSE 0
  BY <1>1 DEF Blanks
<1>3. /\ \A p \in DOMAIN s :
            /\ s[p].part \in {"whole", "blank"}
            /\ s[p].part = "blank" => p = 1
            /\ Own(a, s[p]) = p - b
      /\ k[Index(a)] = Len(s) - b
      /\ c[Index(a)] = IF n = 0 THEN 0 ELSE n - b
  BY DEF Counted
<1>4. s[q].part \in {"whole", "blank"} /\ (s[q].part = "blank" => q = 1) /\ Own(a, s[q]) = q - b
  BY <1>1, <1>3, Zenon
<1>5. ASSUME NEW f, f[Index(a)] = q - b PROVE Counted(a, k, s, q, f)
  <2>1. f[Index(a)] = IF q = 0 THEN 0 ELSE q - b
    BY <1>1, <1>5
  <2> QED  BY <1>1, <1>3, <2>1, Zenon DEF Counted
<1> HIDE DEF b
<1>6. ASSUME s[q].part = "blank" PROVE c[Index(a)] = q - b
  <2>1. q = 1 /\ n = 0
    BY <1>4, <1>6
  <2>2. b = 1 /\ c[Index(a)] = 0
    BY <1>2, <1>3, <1>6, <2>1
  <2> QED  BY <2>1, <2>2
<1>7. ASSUME s[q].part # "blank" PROVE d[Index(a)] = q - b
  <2>1. CASE n = 0
    <3>1. b = 0 /\ c[Index(a)] = 0
      BY <1>2, <1>3, <1>7, <2>1
    <3> QED  BY <2>1, <3>1
  <2>2. CASE n # 0
    <3>1. c[Index(a)] = n - b /\ b \in Nat
      BY <1>2, <1>3, <2>2
    <3> QED  BY <3>1
  <2> QED  BY <2>1, <2>2
<1> QED  BY <1>4, <1>5, <1>6, <1>7

\* A line read is one the application numbered as the agent does.
LEMMA ReadExact ==
    ASSUME Undisturbed, ExactInv, FollowsInv', NEW a \in Agents,
           NEW now \in 1 .. MaxTime, NEW copies \in Copies, ReadLine(a, now, copies)
    PROVE  /\ ClocksExact'
           /\ Counted(a, known[a], log[a], position'[a], clock'[a])
<1>1. PICK p \in DOMAIN log[a] : \E r \in Reading :
          /\ p = position[a] + 1
          /\ position'[a] \in p .. Len(log[a])
          /\ position'[a] > p => log[a][p].part = "head"
          /\ log[a][p].part # "blank"
          /\ r.line = log[a][p].line /\ r.part = log[a][p].part
          /\ Found(r.shown, r.part, r.line.vc)
          /\ r.entry.node = a /\ r.entry.vc = clock'[a]
          /\ reads' = [reads EXCEPT ![a] = Append(@, r)]
  BY ReadLineParts DEF ExactInv, FollowsInv
<1>2. PICK r \in Reading :
          /\ r.line = log[a][p].line /\ r.part = log[a][p].part
          /\ Found(r.shown, r.part, r.line.vc)
          /\ r.entry.node = a /\ r.entry.vc = clock'[a]
          /\ reads' = [reads EXCEPT ![a] = Append(@, r)]
  BY <1>1
<1>3. /\ known[a] \in Prefix /\ log[a] \in Seq(Piece) /\ position[a] \in Nat
      /\ clock[a] \in Clock(3) /\ clock'[a] \in Clock(3) /\ Index(a) \in 0 .. 2
      /\ Counted(a, known[a], log[a], position[a], clock[a])
  BY <1>2, UndisturbedFits DEF ExactInv, FollowsInv, TypeOK, Undisturbed, Reading, LogEntry
<1>4. clock'[a][Index(a)] = clock[a][Index(a)] + 1
  BY ReadCounts, UndisturbedFits DEF ExactInv, FollowsInv
<1>5. position[a] < Len(log[a])
  BY <1>1, <1>3
<1>6. /\ log[a][p].part = "whole" /\ Own(a, log[a][p]) = clock'[a][Index(a)]
      /\ Counted(a, known[a], log[a], p, clock'[a])
  BY <1>1, <1>3, <1>4, <1>5, NextNumber
<1>7. position'[a] = p
  BY <1>1, <1>6
<1>8. Read' = Read \cup {r}
  BY <1>2, ReadGrows DEF ExactInv, FollowsInv
<1>9. r.entry.vc = r.line.vc
  <2>1. r.entry.vc \in Clock(3) /\ r.line.vc \in Clock(3)
    BY <1>2, <1>3 DEF Reading, Line, Prefix
  <2>2. r.entry.vc[Index(a)] = r.line.vc[Index(a)]
    BY <1>2, <1>6 DEF Own
  <2>3. ASSUME NEW i \in 0 .. 2, i # Index(a) PROVE r.entry.vc[i] = r.line.vc[i]
    <3>1. i \in DOMAIN r.entry.vc \ {Index(r.entry.node)} /\ i \in DOMAIN r.line.vc
      BY <1>2, <2>1, <2>3 DEF Clock
    <3>2. r \in Read' /\ r.shown = r.line.vc
      BY <1>2, <1>6, <1>8 DEF Found
    <3>3. \A q \in Read' : q.shown = q.line.vc =>
             \A j \in DOMAIN q.entry.vc \ {Index(q.entry.node)} : q.entry.vc[j] = At(q.line.vc, j)
      BY DEF FollowsInv, ForeignFollowsApp
    <3> QED  BY <3>1, <3>2, <3>3 DEF At
  <2>4. \A i \in 0 .. 2 : r.entry.vc[i] = r.line.vc[i]
    BY <2>2, <2>3
  <2> QED  BY <2>1, <2>4 DEF Clock
<1> QED  BY <1>6, <1>7, <1>8, <1>9 DEF ExactInv, ClocksExact

LEMMA StepExact ==
    ASSUME Undisturbed, ExactInv, FollowsInv', NEW a \in Agents,
           AppStep(a) \/ AgentStep(a) \/ Down(a) \/ Up(a)
    PROVE  ExactInv'
<1> DEFINE Holds(c) == Counted(c, known[c], log[c], position[c], clock[c])
<1>t. /\ TypeOK /\ known[a] \in Prefix /\ log[a] \in Seq(Piece) /\ position[a] \in Nat
      /\ clock[a] \in Clock(3) /\ Holds(a) /\ Index(a) \in 0 .. 2 /\ "restart" \notin Faults
  BY UndisturbedFits DEF ExactInv, FollowsInv, TypeOK, Undisturbed
<1>o. ASSUME NEW c \in Agents, known'[c] = known[c], log'[c] = log[c],
             position'[c] = position[c], clock'[c] = clock[c]
      PROVE  Holds(c)'
  <2>1. Holds(c)
    BY DEF ExactInv
  <2> QED  BY <1>o, <2>1
<1>u. AllUp'
  BY <1>t, StepCounts DEF ExactInv
<1>r. reads' = reads => ClocksExact'
  BY DEF ExactInv, ClocksExact, Read
<1>k. UNCHANGED <<program, known>> => NoneAhead'
  BY DEF ExactInv, NoneAhead
<1>w. ASSUME NEW x \in Piece, log' = [log EXCEPT ![a] = Append(@, x)],
             known' = [known EXCEPT ![a] = x.line.vc], UNCHANGED agentVars,
             \/ x.part = "whole" /\ Own(a, x) = known[a][Index(a)] + 1
             \/ x.part = "blank" /\ Own(a, x) = known[a][Index(a)] /\ log[a] = <<>>
      PROVE  ClocksExact' /\ \A c \in Agents : Holds(c)'
  <2>1. /\ log'[a] = Append(log[a], x) /\ known'[a] = x.line.vc
        /\ position' = position /\ clock' = clock /\ reads' = reads
        /\ \A c \in Agents : c # a => log'[c] = log[c] /\ known'[c] = known[c]
    BY <1>t, <1>w DEF agentVars, TypeOK
  <2>2. Holds(a)'
    <3>1. Counted(a, x.line.vc, Append(log[a], x), position[a], clock[a])
      BY <1>t, <1>w, WriteCounted
    <3> QED  BY <2>1, <3>1
  <2>3. ASSUME NEW c \in Agents, c # a PROVE Holds(c)'
    BY <1>o, <2>1, <2>3
  <2> QED  BY <1>r, <2>1, <2>2, <2>3
<1> HIDE DEF Holds
<1> SUFFICES ClocksExact' /\ NoneAhead' /\ \A c \in Agents : Holds(c)'
  BY <1>u DEF Holds, ExactInv
<1>1. ASSUME NEW vc \in Prefix, WriteLog(a, vc, "whole"), vc[Index(a)] = known[a][Index(a)] + 1
      PROVE  ClocksExact' /\ \A c \in Agents : Holds(c)'
  <2>0. PICK shown \in Shows("whole", vc) :
          log' = [log EXCEPT ![a] =
                     Append(@, [line |-> [node |-> a, vc |-> vc], part |-> "whole",
                                shown |-> shown])]
    BY <1>1 DEF WriteLog
  <2> DEFINE x == [line |-> [node |-> a, vc |-> vc], part |-> "whole", shown |-> shown]
  <2>1. x \in Piece /\ x.line.vc = vc /\ x.part = "whole"
    <3>1. "whole" \in Parts \cup {"blank"}
      BY DEF Parts
    <3> QED  BY <3>1, ShowsBelow DEF Piece, Line
  <2>2. /\ log' = [log EXCEPT ![a] = Append(@, x)]
        /\ known' = [known EXCEPT ![a] = x.line.vc] /\ UNCHANGED agentVars
    BY <1>1, <2>0 DEF WriteLog
  <2> HIDE DEF x
  <2>3. Own(a, x) = known[a][Index(a)] + 1
    BY <1>1, <2>1 DEF Own
  <2> QED  BY <1>w, <2>1, <2>2, <2>3
<1>2. ASSUME NEW b \in Agents, NEW part \in {"whole", "head", "full"}, AppLog(a, b, part)
      PROVE  ClocksExact' /\ NoneAhead' /\ \A c \in Agents : Holds(c)'
  <2> DEFINE v == vc_increment(vc_merge(known[a], known[b]), Index(a))
  <2>1. program = "free" /\ WriteLog(a, v, part)
    BY <1>2 DEF AppLog
  <2>2. part = "whole"
    BY <2>1 DEF WriteLog, Befalls, Undisturbed
  <2>3. /\ v \in Prefix /\ v[Index(a)] = known[a][Index(a)] + 1
        /\ \A i \in 0 .. 2 : i # Index(a) => v[i] = known[a][i] \/ v[i] = known[b][i]
    BY <1>t, <2>1, AppLogCounts DEF ExactInv
  <2> HIDE DEF v
  <2>4. program' = program /\ known' = [known EXCEPT ![a] = v]
    BY <2>1 DEF WriteLog
  <2>5. \A c, d \in Agents : /\ known[d][Index(c)] <= known[c][Index(c)]
                             /\ known[d][Index(c)] \in Nat /\ Index(c) \in 0 .. 2
                             /\ c # a => Index(c) # Index(a)
    <3> SUFFICES ASSUME NEW c \in Agents, NEW d \in Agents
                 PROVE  /\ known[d][Index(c)] <= known[c][Index(c)]
                        /\ known[d][Index(c)] \in Nat /\ Index(c) \in 0 .. 2
                        /\ c # a => Index(c) # Index(a)
      OBVIOUS
    <3>1. Index(c) \in 0 .. 2 /\ known[d] \in Clock(3)
      BY <1>t, UndisturbedFits DEF TypeOK, Prefix
    <3>2. c # a => Index(c) # Index(a)
      BY IndexType DEF Index
    <3> QED  BY <2>1, <3>1, <3>2 DEF ExactInv, NoneAhead, Clock
  <2>6. NoneAhead'
    <3> SUFFICES ASSUME NEW c \in Agents, NEW d \in Agents
                 PROVE  known'[d][Index(c)] <= known'[c][Index(c)]
      BY DEF NoneAhead
    <3>1. known'[a] = v /\ \A u \in Agents : u # a => known'[u] = known[u]
      BY <1>t, <2>4 DEF TypeOK
    <3>2. CASE c = a /\ d = a  BY <2>3, <2>5, <3>1, <3>2
    <3>3. CASE c = a /\ d # a  BY <2>3, <2>5, <3>1, <3>3
    <3>4. CASE c # a /\ d = a
      <4>1. v[Index(c)] = known[a][Index(c)] \/ v[Index(c)] = known[b][Index(c)]
        BY <2>3, <2>5, <3>4
      <4> QED  BY <2>5, <3>1, <3>4, <4>1
    <3>5. CASE c # a /\ d # a  BY <2>5, <3>1, <3>5
    <3> QED  BY <3>2, <3>3, <3>4, <3>5
  <2> QED  BY <1>1, <2>1, <2>2, <2>3, <2>6
<1>3. CASE Generate(a)
  <2> DEFINE v == vc_increment([known[a] EXCEPT ![0] = Max({@, Claimed[a]})], Index(a))
  <2>1. program = "gen_log" /\ WriteLog(a, v, "whole")
    BY <1>3 DEF Generate
  <2>2. v \in Prefix /\ v[Index(a)] = known[a][Index(a)] + 1
    BY <1>3, <1>t, GenerateCounts DEF Generate
  <2> HIDE DEF v
  <2>3. NoneAhead'
    BY <2>1 DEF WriteLog, NoneAhead
  <2> QED  BY <1>1, <2>1, <2>2, <2>3
<1>4. (\A rest \in {"tail", "blank"} : ~AppFinish(a, rest)) /\ ~Rotate(a) /\ ~Down(a) /\ ~Up(a)
  <2>1. ~Open(a)
    <3> SUFFICES ASSUME Open(a) PROVE FALSE
      OBVIOUS
    <3>1. log[a] # <<>> /\ log[a][Len(log[a])].part \in {"head", "full"}
      BY DEF Open, LastPart
    <3>2. Len(log[a]) \in DOMAIN log[a]
      BY <1>t, <3>1
    <3> QED  BY <1>t, <3>1, <3>2 DEF Holds, Counted
  <2> QED  BY <2>1, <1>t DEF AppFinish, Rotate, Down, Up, Befalls, Undisturbed, ExactInv, AllUp
<1>5. CASE AppBlank(a)
  <2> DEFINE x == [line |-> [node |-> a, vc |-> known[a]], part |-> "blank",
                   shown |-> vc_init(3)]
  <2>1. x \in Piece /\ x.line.vc = known[a] /\ x.part = "blank"
    <3>1. vc_init(3) \in Prefix /\ vc_init(3) \in Shows("blank", known[a])
      BY InitClockType DEF Prefix, VC_MAX_NODES, Shows
    <3> QED  BY <1>t, <3>1 DEF Piece, Line
  <2>2. /\ log' = [log EXCEPT ![a] = Append(@, x)] /\ UNCHANGED <<program, known, agentVars>>
        /\ log[a] = <<>>
    BY <1>5 DEF AppBlank
  <2> HIDE DEF x
  <2>3. known' = [known EXCEPT ![a] = x.line.vc] /\ Own(a, x) = known[a][Index(a)]
    BY <1>t, <2>1, <2>2 DEF TypeOK, Own
  <2> QED  BY <1>w, <1>k, <2>1, <2>2, <2>3
<1>6. CASE Poll(a)
  <2>1. UNCHANGED <<program, known, log, clock, reads>>
    BY <1>6 DEF Poll, appVars
  <2>2. position' = position
    <3>1. offset[a] = position[a] /\ position[a] <= Len(log[a]) /\ Len(log[a]) \in Nat
      BY <1>6, <1>t DEF Poll, ExactInv, FollowsInv, AtRest, Holds, Counted
    <3>2. offset'[a] = offset[a]
      BY <1>6, <1>t, <3>1 DEF Poll, TypeOK
    <3>3. position' = [position EXCEPT ![a] = position[a]]
      BY <1>6, <3>1, <3>2 DEF Poll
    <3> QED  BY <1>t, <3>3 DEF TypeOK
  <2> QED  BY <1>o, <1>k, <1>r, <2>1, <2>2
<1>7. ASSUME NEW now \in 1 .. MaxTime, NEW copies \in Copies, ReadLine(a, now, copies)
      PROVE  ClocksExact' /\ NoneAhead' /\ \A c \in Agents : Holds(c)'
  <2>1. /\ UNCHANGED <<program, known, log>>
        /\ \A c \in Agents : c # a => position'[c] = position[c] /\ clock'[c] = clock[c]
    BY <1>7, <1>t DEF ReadLine, appVars, TypeOK
  <2>2. ClocksExact' /\ Counted(a, known[a], log[a], position'[a], clock'[a])
    BY <1>7, ReadExact
  <2>3. Holds(a)'
    BY <2>1, <2>2 DEF Holds
  <2>4. ASSUME NEW c \in Agents, c # a PROVE Holds(c)'
    BY <1>o, <2>1, <2>4
  <2> QED  BY <1>k, <2>1, <2>2, <2>3, <2>4
<1>8. CASE SkipLine(a)
  <2>1. /\ UNCHANGED <<program, known, log, clock, reads>> /\ position'[a] = position[a] + 1
        /\ position[a] < Len(log[a]) /\ log[a][position[a] + 1].part = "blank"
        /\ \A c \in Agents : c # a => position'[c] = position[c]
    BY <1>8, <1>t DEF SkipLine, appVars, TypeOK
  <2>2. Counted(a, known[a], log[a], position[a] + 1, clock[a])
    <3> DEFINE d == [i \in {Index(a)} |-> clock[a][Index(a)] + 1]
    <3>1. d[Index(a)] = clock[a][Index(a)] + 1
      OBVIOUS
    <3> HIDE DEF d
    <3> QED  BY <1>t, <2>1, <3>1, NextNumber DEF Holds
  <2>3. Holds(a)'
    BY <2>1, <2>2 DEF Holds
  <2>4. ASSUME NEW c \in Agents, c # a PROVE Holds(c)'
    BY <1>o, <2>1, <2>4
  <2> QED  BY <1>k, <1>r, <2>1, <2>3, <2>4
<1>9. CASE ReadEnd(a) \/ SaveOffset(a)
  <2>1. UNCHANGED <<program, known, log, position, clock, reads>>
    BY <1>9 DEF ReadEnd, SaveOffset, appVars
  <2> QED  BY <1>o, <1>k, <1>r, <2>1
<1> QED
  BY <1>2, <1>3, <1>4, <1>5, <1>6, <1>7, <1>8, <1>9 DEF AppStep, AgentStep

LEMMA InitExact == ASSUME Undisturbed PROVE Init => ExactInv
<1> SUFFICES ASSUME Init PROVE ExactInv
  OBVIOUS
<1>1. FollowsInv
  BY InitFollows
<1>2. /\ \A a \in Agents : log[a] = <<>> /\ reads[a] = <<>> /\ position[a] = 0 /\ at[a] = "poll"
      /\ Read = {}
  BY DEF Init, Read, ToSet
<1>3. \A a, b \in Agents : known[b][Index(a)] = 0 /\ clock[b][Index(a)] = 0
  <2> SUFFICES ASSUME NEW a \in Agents, NEW b \in Agents
               PROVE  known[b][Index(a)] = 0 /\ clock[b][Index(a)] = 0
    OBVIOUS
  <2>1. Index(a) \in 0 .. 2 /\ known[b] = vc_init(3) /\ clock[b] = vc_init(3)
    BY UndisturbedFits DEF Init, Undisturbed
  <2> QED  BY <2>1, InitClockType DEF VC_MAX_NODES
<1>4. ASSUME NEW a \in Agents PROVE Counted(a, known[a], log[a], position[a], clock[a])
  <2>1. log[a] = <<>> /\ position[a] = 0 /\ known[a][Index(a)] = 0 /\ clock[a][Index(a)] = 0
    BY <1>2, <1>3
  <2>2. DOMAIN <<>> = {} /\ Len(<<>>) = 0 /\ Blanks(<<>>) = 0
    BY DEF Blanks
  <2> QED  BY <2>1, <2>2 DEF Counted
<1> QED  BY <1>1, <1>2, <1>3, <1>4 DEF ExactInv, ClocksExact, AllUp, NoneAhead

LEMMA ExactInductive == ASSUME Undisturbed PROVE ExactInv /\ [Next]_vars => ExactInv'
<1> SUFFICES ASSUME ExactInv, [Next]_vars PROVE ExactInv'
  OBVIOUS
<1>1. FollowsInv'
  BY FollowsInductive DEF ExactInv
<1>2. CASE UNCHANGED vars
  BY <1>1, <1>2 DEF vars, ExactInv, ClocksExact, AllUp, NoneAhead, Read
<1>3. CASE Next
  BY <1>1, <1>3, StepExact DEF Next
<1> QED  BY <1>2, <1>3

-----------------------------------------------------------------------------
(***************************************************************************)
(* What the composition with the server needs to know of an agent's steps,  *)
(* and of the one step of the network that is not theirs: a datagram is       *)
(* delivered.                                                               *)
(***************************************************************************)

\* A delivery disturbs nothing the agents know.
LEMMA DeliveryKeeps ==
    ASSUME UNCHANGED <<program, known, log, at, offset, position, clock, reads>>,
           BagToSet(net') \subseteq BagToSet(net)
    PROVE  /\ Read' = Read
           /\ TypeOK => TypeOK'
           /\ NumberedInv => NumberedInv'
           /\ ExactInv => ExactInv'
<1>1. Read' = Read
  BY DEF Read
<1>2. TypeOK => TypeOK'
  BY <1>1 DEF TypeOK
<1>3. NumberedInv => NumberedInv'
  BY DEF NumberedInv, AllUp
<1>4. FollowsInv => FollowsInv'
  BY <1>1, <1>2 DEF FollowsInv, ForeignFollowsApp, AtRest
<1>5. ExactInv => ExactInv'
  BY <1>1, <1>4 DEF ExactInv, ClocksExact, AllUp, NoneAhead
<1> QED  BY <1>1, <1>2, <1>3, <1>5

LEMMA ReadType == ASSUME TypeOK PROVE \A r \in Read : r \in Reading
<1> SUFFICES ASSUME NEW r \in Read PROVE r \in Reading
  OBVIOUS
<1>1. PICK a \in Agents : r \in ToSet(reads[a])
  BY DEF Read
<1>2. PICK i \in DOMAIN reads[a] : r = reads[a][i]
  BY <1>1 DEF ToSet
<1> QED  BY <1>2 DEF TypeOK

\* What was read stays read.
LEMMA ReadKept ==
    ASSUME TypeOK, [Next]_vars
    PROVE  Read \subseteq Read'
<1>1. ASSUME reads' = reads PROVE Read' = Read
  BY <1>1 DEF Read
<1>2. CASE UNCHANGED vars
  BY <1>1, <1>2 DEF vars
<1>3. CASE Next
  <2>1. PICK a \in Agents : AppStep(a) \/ AgentStep(a) \/ Down(a) \/ Up(a)
    BY <1>3 DEF Next
  <2>2. ASSUME NEW now \in 1 .. MaxTime, NEW copies \in Copies, ReadLine(a, now, copies)
        PROVE  Read \subseteq Read'
    <3>1. PICK p \in DOMAIN log[a] : \E r \in Reading : reads' = [reads EXCEPT ![a] = Append(@, r)]
      BY <2>2, ReadLineParts
    <3>2. PICK r \in Reading : reads' = [reads EXCEPT ![a] = Append(@, r)]
      BY <3>1
    <3> QED  BY <3>2, ReadGrows
  <2> QED  BY <1>1, <2>1, <2>2, OthersReadNothing
<1> QED  BY <1>2, <1>3

LEMMA NumberedInductive ==
    ASSUME FitsClock, "restart" \notin Faults, TypeOK, NumberedInv, [Next]_vars
    PROVE  NumberedInv'
<1>1. CASE UNCHANGED vars
  BY <1>1 DEF vars, NumberedInv, AllUp
<1>2. CASE Next
  BY <1>2, StepNumbered DEF Next
<1> QED  BY <1>1, <1>2

-----------------------------------------------------------------------------
(***************************************************************************)
(* The events in the files, and what the agents read of them.               *)
(***************************************************************************)

LEMMA EventOf ==
    \A e : e \in Events <=>
        \E a \in Agents : \E p \in DOMAIN log[a] :
            log[a][p].part # "blank" /\ e = [node |-> a, vc |-> log[a][p].line.vc]
BY DEF Events

\* Where files are not rotated they only grow.
LEMMA FilesGrow ==
    ASSUME Undisturbed, ExactInv, NEW a \in Agents, AppStep(a) \/ AgentStep(a) \/ Down(a) \/ Up(a)
    PROVE  \/ log' = log
           \/ \E x : log' = [log EXCEPT ![a] = Append(@, x)]
<1>1. ASSUME NEW vc, NEW part, WriteLog(a, vc, part)
      PROVE  \E x : log' = [log EXCEPT ![a] = Append(@, x)]
  <2>1. PICK shown \in Shows(part, vc) :
          log' = [log EXCEPT ![a] =
                     Append(@, [line |-> [node |-> a, vc |-> vc], part |-> part,
                                shown |-> shown])]
    BY <1>1 DEF WriteLog
  <2> QED  BY <2>1
<1>2. CASE AppStep(a)
  <2>1. ~Rotate(a)
    BY DEF Rotate, Befalls, Undisturbed
  <2>2. ASSUME NEW rest \in {"tail", "blank"}, AppFinish(a, rest)
        PROVE  \E x : log' = [log EXCEPT ![a] = Append(@, x)]
    <3> DEFINE x == [line |-> log[a][Len(log[a])].line, part |-> rest, shown |-> vc_init(3)]
    <3>1. log' = [log EXCEPT ![a] = Append(@, x)]
      BY <2>2 DEF AppFinish
    <3> QED  BY <3>1
  <2>3. CASE AppBlank(a)
    BY <2>3 DEF AppBlank
  <2> QED  BY <1>1, <1>2, <2>1, <2>2, <2>3 DEF AppStep, AppLog, Generate
<1>3. CASE AgentStep(a) \/ Down(a) \/ Up(a)
  BY <1>3 DEF AgentStep, Poll, ReadLine, SkipLine, ReadEnd, SaveOffset, Down, Up, appVars
<1> QED  BY <1>2, <1>3

\* A later line's clock is above those of the lines before it.
LEMMA LinesFollow ==
    ASSUME NEW a, Index(a) \in 0 .. 2,
           NEW k \in Prefix, NEW s \in Seq(Piece), NEW n \in Nat, NEW c,
           Counted(a, k, s, n, c), Grows(s, k),
           NEW p \in DOMAIN s, NEW q \in DOMAIN s, p < q, s[p].part # "blank"
    PROVE  HappensBefore(s[p].line.vc, s[q].line.vc)
<1> DEFINE u == s[p].line.vc
           v == s[q].line.vc
<1>1. /\ u \in Prefix /\ v \in Prefix
      /\ DOMAIN u = 0 .. 2 /\ DOMAIN v = 0 .. 2
      /\ \A i \in 0 .. 2 : u[i] \in Nat /\ v[i] \in Nat
  BY PieceClock
<1>2. Blanks(s) \in {0, 1} /\ p \in Nat /\ q \in Nat
  BY DEF Blanks
<1>3. u[Index(a)] = p - Blanks(s) /\ v[Index(a)] = q - Blanks(s)
  BY DEF Counted, Own
<1>4. \A i \in 0 .. 2 : u[i] <= v[i]
  BY <1>2 DEF Grows
<1> HIDE DEF u, v
<1>5. vc_leq(u, v)
  BY <1>1, <1>4 DEF vc_leq, At
<1>6. ~vc_leq(v, u)
  <2>1. ~(v[Index(a)] <= u[Index(a)])
    BY <1>2, <1>3
  <2> QED  BY <1>1, <2>1 DEF vc_leq, At
<1> QED  BY <1>5, <1>6 DEF HappensBefore, vc_compare, u, v

\* A step of an application adds an event after all those of its node, and the
\* other steps leave the events alone.
LEMMA EventsStep ==
    ASSUME Undisturbed, ExactInv, [Next]_vars
    PROVE  \/ Events' = Events
           \/ \E e : /\ Events' = Events \cup {e}
                     /\ \A x \in Events : x.node = e.node => HappensBefore(x.vc, e.vc)
<1>0. ASSUME log' = log PROVE Events' = Events
  BY <1>0 DEF Events
<1>1. CASE UNCHANGED vars
  BY <1>0, <1>1 DEF vars
<1>2. CASE Next
  <2>1. PICK a \in Agents : AppStep(a) \/ AgentStep(a) \/ Down(a) \/ Up(a)
    BY <1>2 DEF Next
  <2>2. ASSUME NEW x, log' = [log EXCEPT ![a] = Append(@, x)]
        PROVE  \/ Events' = Events
               \/ \E e : /\ Events' = Events \cup {e}
                         /\ \A y \in Events : y.node = e.node => HappensBefore(y.vc, e.vc)
    <3> DEFINE s == log[a]
               t == Append(s, x)
               e == [node |-> a, vc |-> x.line.vc]
    <3>1. log \in [Agents -> Seq(Piece)] /\ s \in Seq(Piece)
      BY DEF ExactInv, FollowsInv, TypeOK
    <3>2. /\ Len(s) \in Nat /\ DOMAIN s = 1 .. Len(s) /\ DOMAIN t = 1 .. Len(s) + 1
          /\ t[Len(s) + 1] = x /\ \A p \in DOMAIN s : t[p] = s[p]
      BY <3>1
    <3>3. log'[a] = t /\ \A c \in Agents : c # a => log'[c] = log[c]
      BY <2>2, <3>1
    <3>4. ExactInv'
      BY <1>2, ExactInductive
    <3>5. /\ Index(a) \in 0 .. 2 /\ known'[a] \in Prefix /\ t \in Seq(Piece) /\ position'[a] \in Nat
          /\ Counted(a, known'[a], t, position'[a], clock'[a]) /\ Grows(t, known'[a])
      BY <3>3, <3>4, UndisturbedFits DEF ExactInv, FollowsInv, Follows, TypeOK
    <3>6. \A y : (\E p \in DOMAIN t : t[p].part # "blank" /\ y = [node |-> a, vc |-> t[p].line.vc])
                 <=> \/ \E p \in DOMAIN s : /\ s[p].part # "blank"
                                            /\ y = [node |-> a, vc |-> s[p].line.vc]
                     \/ x.part # "blank" /\ y = e
      <4>1. \A p \in DOMAIN t : p \in DOMAIN s \/ p = Len(s) + 1
        BY <3>2
      <4>2. Len(s) + 1 \in DOMAIN t /\ \A p \in DOMAIN s : p \in DOMAIN t
        BY <3>2
      <4> HIDE DEF s, t
      <4> QED  BY <3>2, <4>1, <4>2 DEF e
    <3>7. \A y : y \in Events' <=>
              \E c \in Agents : \E p \in DOMAIN log'[c] :
                  log'[c][p].part # "blank" /\ y = [node |-> c, vc |-> log'[c][p].line.vc]
      BY EventOf DEF Events
    <3>8. \A y : y \in Events' <=> y \in Events \/ (x.part # "blank" /\ y = e)
      <4> HIDE DEF s, t, e
      <4>1. \A y : (\E p \in DOMAIN log'[a] :
                        log'[a][p].part # "blank" /\ y = [node |-> a, vc |-> log'[a][p].line.vc])
                   <=> \/ \E p \in DOMAIN log[a] : /\ log[a][p].part # "blank"
                                                   /\ y = [node |-> a, vc |-> log[a][p].line.vc]
                       \/ x.part # "blank" /\ y = e
        BY <3>3, <3>6 DEF s
      <4> QED  BY <3>3, <3>7, <4>1, EventOf
    <3>9. ASSUME NEW y \in Events, y.node = e.node PROVE HappensBefore(y.vc, e.vc)
      <4>1. PICK c \in Agents : \E p \in DOMAIN log[c] :
                log[c][p].part # "blank" /\ y = [node |-> c, vc |-> log[c][p].line.vc]
        BY EventOf
      <4>2. c = a
        BY <3>9, <4>1
      <4>3. PICK p \in DOMAIN s : s[p].part # "blank" /\ y = [node |-> a, vc |-> s[p].line.vc]
        BY <4>1, <4>2
      <4>4. /\ p \in DOMAIN t /\ Len(s) + 1 \in DOMAIN t /\ p < Len(s) + 1
            /\ t[p] = s[p] /\ t[Len(s) + 1] = x
        BY <3>2
      <4> HIDE DEF s, t
      <4>5. HappensBefore(t[p].line.vc, t[Len(s) + 1].line.vc)
        BY <3>5, <4>3, <4>4, LinesFollow
      <4> QED  BY <4>3, <4>4, <4>5
    <3> HIDE DEF e
    <3>10. Events' = Events \/ Events' = Events \cup {e}
      BY <3>8
    <3> QED  BY <3>9, <3>10
  <2> QED  BY <1>0, <2>1, <2>2, FilesGrow
<1> QED  BY <1>1, <1>2

\* What was read is in the files.
ReadHappened == \A r \in Read : [node |-> r.entry.node, vc |-> r.entry.vc] \in Events

LEMMA ReadHappenedInit == Init => ReadHappened
BY DEF Init, Read, ToSet, ReadHappened

LEMMA ReadHappenedNext ==
    ASSUME Undisturbed, ExactInv, ReadHappened, [Next]_vars
    PROVE  ReadHappened'
<1>1. Events \subseteq Events'
  BY EventsStep
<1>2. ASSUME reads' = reads PROVE ReadHappened'
  <2>1. Read' = Read
    BY <1>2 DEF Read
  <2> QED  BY <1>1, <2>1 DEF ReadHappened
<1>3. CASE UNCHANGED vars
  BY <1>2, <1>3 DEF vars
<1>4. CASE Next
  <2>1. PICK a \in Agents : AppStep(a) \/ AgentStep(a) \/ Down(a) \/ Up(a)
    BY <1>4 DEF Next
  <2>2. ASSUME NEW now \in 1 .. MaxTime, NEW copies \in Copies, ReadLine(a, now, copies)
        PROVE  ReadHappened'
    <3>1. PICK p \in DOMAIN log[a] : \E r \in Reading :
              /\ log[a][p].part # "blank"
              /\ r.line = log[a][p].line /\ r.part = log[a][p].part
              /\ r.entry.node = a /\ r.entry.vc = clock'[a]
              /\ reads' = [reads EXCEPT ![a] = Append(@, r)]
      BY <2>2, ReadLineParts DEF ExactInv, FollowsInv
    <3>2. PICK r \in Reading :
              /\ r.line = log[a][p].line /\ r.entry.node = a
              /\ reads' = [reads EXCEPT ![a] = Append(@, r)]
      BY <3>1
    <3>3. Read' = Read \cup {r}
      BY <3>2, ReadGrows DEF ExactInv, FollowsInv
    <3>4. ClocksExact'
      BY ExactInductive DEF ExactInv
    <3>5. r.entry.vc = log[a][p].line.vc
      BY <3>2, <3>3, <3>4 DEF ClocksExact
    <3>6. [node |-> r.entry.node, vc |-> r.entry.vc] \in Events
      BY <3>1, <3>2, <3>5, EventOf
    <3> QED  BY <1>1, <3>3, <3>6 DEF ReadHappened
  <2> QED  BY <1>2, <2>1, <2>2, OthersReadNothing
<1> QED  BY <1>3, <1>4

=============================================================================
