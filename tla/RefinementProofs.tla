-------------------------- MODULE RefinementProofs --------------------------
(***************************************************************************)
(* CausalServer implements CausalLog, for every set of packets, every       *)
(* number of nodes, every timeout and every bound.                          *)
(***************************************************************************)
EXTENDS CausalServerProofs

\* The instance's comparison of clocks is the server's.
LEMMA SameComparison ==
    /\ \A u, i : Abstract!At(u, i) = At(u, i)
    /\ \A u, v : Abstract!vc_leq(u, v) <=> vc_leq(u, v)
    /\ \A u, v : Abstract!HappensBefore(u, v) <=> HappensBefore(u, v)
<1>1. \A u, i : Abstract!At(u, i) = At(u, i)
  BY DEF Abstract!At, At
<1>2. \A u, v : Abstract!vc_leq(u, v) <=> vc_leq(u, v)
  BY <1>1 DEF Abstract!vc_leq, vc_leq
<1>3. \A u, v : Abstract!vc_compare(u, v) = vc_compare(u, v)
  BY <1>2 DEF Abstract!vc_compare, vc_compare
<1>4. \A u, v : Abstract!HappensBefore(u, v) <=> HappensBefore(u, v)
  BY <1>3 DEF Abstract!HappensBefore, HappensBefore
<1> QED  BY <1>1, <1>2, <1>4

-----------------------------------------------------------------------------
(***************************************************************************)
(* What the steps on the list do to the set of entries in memory.           *)
(***************************************************************************)

LEMMA AgeingKeepsBuffered ==
    ASSUME DOMAIN buffer' = DOMAIN buffer,
           \A k \in DOMAIN buffer : buffer'[k].entry = buffer[k].entry
    PROVE  Buffered' = Buffered
BY DEF Buffered, Entries

\* Taking one element out of the list, wherever the others go.
LEMMA RemovalForgets ==
    ASSUME NEW k \in DOMAIN buffer,
           \A i \in DOMAIN buffer : i # k => \E j \in DOMAIN buffer' : buffer'[j] = buffer[i],
           \A j \in DOMAIN buffer' : \E i \in DOMAIN buffer : buffer'[j] = buffer[i]
    PROVE  Buffered' \in {Buffered, Buffered \ {buffer[k].entry}}
<1>1. Buffered' \subseteq Buffered
  BY DEF Buffered, Entries
<1>2. Buffered \ {buffer[k].entry} \subseteq Buffered'
  BY DEF Buffered, Entries
<1>3. CASE buffer[k].entry \in Buffered'
  BY <1>1, <1>2, <1>3
<1>4. CASE buffer[k].entry \notin Buffered'
  BY <1>1, <1>2, <1>4
<1> QED  BY <1>3, <1>4

LEMMA RemoveAtForgets ==
    ASSUME TypeOK, NEW k \in DOMAIN buffer, buffer' = RemoveAt(buffer, k)
    PROVE  Buffered' \in {Buffered, Buffered \ {buffer[k].entry}}
<1>0. /\ buffer \in Seq(BufferNode)
      /\ Len(buffer) \in Nat
      /\ DOMAIN buffer = 1 .. Len(buffer)
  BY BufferElements
<1>1. /\ buffer' \in Seq(BufferNode)
      /\ Len(buffer') = Len(buffer) - 1
      /\ \A j \in 1 .. Len(buffer) - 1 :
            buffer'[j] = IF j < k THEN buffer[j] ELSE buffer[j + 1]
  BY <1>0, RemoveAtElements
<1>2. DOMAIN buffer' = 1 .. Len(buffer) - 1
  BY <1>1, LenProperties
<1>3. ASSUME NEW i \in DOMAIN buffer, i # k
      PROVE  \E j \in DOMAIN buffer' : buffer'[j] = buffer[i]
  <2>1. CASE i < k
    BY <1>0, <1>1, <1>2, <2>1
  <2>2. CASE k < i
    <3>1. i - 1 \in DOMAIN buffer' /\ buffer'[i - 1] = buffer[i]
      BY <1>0, <1>1, <1>2, <2>2
    <3> QED  BY <3>1
  <2> QED  BY <1>0, <1>3, <2>1, <2>2
<1>4. ASSUME NEW j \in DOMAIN buffer'
      PROVE  \E i \in DOMAIN buffer : buffer'[j] = buffer[i]
  <2>1. j \in DOMAIN buffer /\ j + 1 \in DOMAIN buffer
    BY <1>0, <1>2
  <2>2. buffer'[j] = buffer[j] \/ buffer'[j] = buffer[j + 1]
    BY <1>1, <1>2
  <2> QED  BY <2>1, <2>2
<1> QED  BY <1>3, <1>4, RemovalForgets

LEMMA TailForgets ==
    ASSUME TypeOK, buffer # <<>>, buffer' = Tail(buffer)
    PROVE  /\ 1 \in DOMAIN buffer
           /\ Head(buffer) = buffer[1]
           /\ Buffered' \in {Buffered, Buffered \ {buffer[1].entry}}
<1>0. /\ buffer \in Seq(BufferNode)
      /\ Len(buffer) \in Nat
      /\ DOMAIN buffer = 1 .. Len(buffer)
  BY BufferElements
<1>1. 1 \in DOMAIN buffer /\ Head(buffer) = buffer[1]
  BY <1>0, EmptySeq
<1>2. /\ buffer' \in Seq(BufferNode)
      /\ Len(buffer') = Len(buffer) - 1
      /\ \A j \in 1 .. Len(buffer') : buffer'[j] = buffer[j + 1]
  BY <1>0, HeadTailProperties
<1>3. DOMAIN buffer' = 1 .. Len(buffer) - 1
  BY <1>2, LenProperties
<1>4. ASSUME NEW i \in DOMAIN buffer, i # 1
      PROVE  \E j \in DOMAIN buffer' : buffer'[j] = buffer[i]
  <2>1. i - 1 \in DOMAIN buffer' /\ buffer'[i - 1] = buffer[i]
    BY <1>0, <1>2, <1>3, <1>4
  <2> QED  BY <2>1
<1>5. ASSUME NEW j \in DOMAIN buffer'
      PROVE  \E i \in DOMAIN buffer : buffer'[j] = buffer[i]
  <2>1. j + 1 \in DOMAIN buffer /\ buffer'[j] = buffer[j + 1]
    BY <1>0, <1>2, <1>3
  <2> QED  BY <2>1
<1> QED  BY <1>1, <1>4, <1>5, RemovalForgets

LEMMA ReceiveAccepts ==
    ASSUME TypeOK, NEW e \in Packets, Receive(e)
    PROVE  Buffered' = Buffered \cup {e}
<1> DEFINE k == InsertPosition(buffer, e)
           x == [entry |-> e, age |-> 0]
           n == Len(buffer)
<1>0. /\ buffer \in Seq(BufferNode)
      /\ n \in Nat
      /\ DOMAIN buffer = 1 .. n
  BY BufferElements
<1>1. k \in 1 .. n + 1
  BY <1>0, InsertPositionExists
<1>2. x \in BufferNode /\ x.entry = e
  BY ConstantTypes DEF BufferNode, Overdue, Ahead
<1> HIDE DEF k, x
<1>3. /\ buffer' \in Seq(BufferNode)
      /\ Len(buffer') = n + 1
      /\ \A j \in 1 .. n + 1 :
            buffer'[j] = IF j < k THEN buffer[j] ELSE IF j = k THEN x ELSE buffer[j - 1]
  <2>1. buffer' = InsertAt(buffer, k, x)
    BY DEF Receive, k, x
  <2>2. /\ InsertAt(buffer, k, x) \in Seq(BufferNode)
        /\ Len(InsertAt(buffer, k, x)) = n + 1
        /\ \A j \in 1 .. n + 1 :
              InsertAt(buffer, k, x)[j] = IF j < k THEN buffer[j]
                                          ELSE IF j = k THEN x ELSE buffer[j - 1]
    <3>1. buffer \in Seq(BufferNode) /\ k \in 1 .. Len(buffer) + 1 /\ x \in BufferNode
      BY <1>0, <1>1, <1>2
    <3> QED  BY <3>1, InsertAtElements
  <2> QED  BY <2>1, <2>2
<1>4. DOMAIN buffer' = 1 .. n + 1
  BY <1>3, LenProperties
<1>5. ASSUME NEW j \in DOMAIN buffer'
      PROVE  buffer'[j].entry \in Buffered \cup {e}
  <2>1. CASE j = k
    BY <1>2, <1>3, <1>4, <2>1
  <2>2. CASE j < k
    <3>1. j \in DOMAIN buffer /\ buffer'[j] = buffer[j]
      BY <1>0, <1>1, <1>3, <1>4, <2>2
    <3> QED  BY <3>1 DEF Buffered, Entries
  <2>3. CASE k < j
    <3>1. j - 1 \in DOMAIN buffer /\ buffer'[j] = buffer[j - 1]
      BY <1>0, <1>1, <1>3, <1>4, <2>3
    <3> QED  BY <3>1 DEF Buffered, Entries
  <2> QED  BY <1>1, <1>4, <2>1, <2>2, <2>3
<1>6. ASSUME NEW i \in DOMAIN buffer
      PROVE  \E j \in DOMAIN buffer' : buffer'[j] = buffer[i]
  <2>1. CASE i < k
    BY <1>0, <1>3, <1>4, <2>1
  <2>2. CASE ~(i < k)
    <3>1. i + 1 \in DOMAIN buffer' /\ buffer'[i + 1] = buffer[i]
      BY <1>0, <1>1, <1>3, <1>4, <2>2
    <3> QED  BY <3>1
  <2> QED  BY <2>1, <2>2
<1>7. k \in DOMAIN buffer' /\ buffer'[k].entry = e
  BY <1>1, <1>2, <1>3, <1>4
<1>8. Buffered \cup {e} \subseteq Buffered'
  BY <1>6, <1>7 DEF Buffered, Entries
<1>9. Buffered' \subseteq Buffered \cup {e}
  BY <1>5 DEF Buffered, Entries
<1> QED  BY <1>8, <1>9

-----------------------------------------------------------------------------
(***************************************************************************)
(* Nothing in memory happened before what is written.                       *)
(***************************************************************************)

\* The head of a sorted list.
LEMMA HeadIsMinimal ==
    ASSUME TypeOK, BufferCausal, 1 \in DOMAIN buffer
    PROVE  Abstract!Minimal(buffer[1].entry)
<1> SUFFICES ASSUME NEW j \in DOMAIN buffer,
                    HappensBefore(buffer[j].entry.vc, buffer[1].entry.vc)
             PROVE  FALSE
  BY SameComparison DEF Abstract!Minimal, Buffered, Entries
<1>1. j # 1
  BY BeforeLeq
<1>2. 1 < j
  BY <1>1, BufferElements
<1> QED  BY <1>2 DEF BufferCausal

\* A cause of a consecutive entry that is not stale is consecutive itself.
LEMMA CauseOfConsecutive ==
    ASSUME NEW n \in Nat, NEW com \in Clock(n),
           NEW m \in Nat, m <= n, NEW x \in Clock(m),
           NEW p \in Nat, NEW v \in Clock(p),
           vc_leq(x, v), ~vc_leq(x, com), Consecutive(v, com)
    PROVE  Consecutive(x, com)
<1>1. PICK i \in DOMAIN com : /\ At(v, i) = com[i] + 1
                              /\ \A j \in DOMAIN com \ {i} : At(v, j) <= com[j]
  BY DEF Consecutive
<1>2. /\ DOMAIN x = 0 .. m - 1 /\ DOMAIN com = 0 .. n - 1
      /\ \A j \in DOMAIN x : x[j] \in Nat
      /\ \A j \in DOMAIN com : com[j] \in Nat
      /\ \A j : At(v, j) \in Nat
  BY AtNat DEF Clock
<1>3. \A j \in DOMAIN x : j \in DOMAIN com /\ At(com, j) = com[j] /\ x[j] <= At(v, j)
  BY <1>2 DEF At, vc_leq
<1>4. PICK j \in DOMAIN x : ~(x[j] <= com[j])
  BY <1>3 DEF vc_leq
<1>5. j = i
  BY <1>1, <1>2, <1>3, <1>4
<1>6. i \in DOMAIN x /\ x[i] = com[i] + 1 /\ At(x, i) = x[i]
  BY <1>1, <1>2, <1>3, <1>4, <1>5 DEF At
<1>7. ASSUME NEW q \in DOMAIN com \ {i}
      PROVE  At(x, q) <= com[q]
  <2>1. CASE q \in DOMAIN x
    BY <1>1, <1>2, <1>3, <2>1 DEF At
  <2>2. CASE q \notin DOMAIN x
    BY <1>2, <2>2 DEF At
  <2> QED  BY <2>1, <2>2
<1> QED  BY <1>6, <1>7 DEF Consecutive

\* The first treatable element, when it is committed: a cause of it that is in
\* memory precedes it in the list, is not stale, and so would be treatable.
LEMMA CommittedIsMinimal ==
    ASSUME FitsServer, HonestTimestamps, TypeOK, Sorted,
           NEW k \in DOMAIN buffer, FlushCommit(k)
    PROVE  Abstract!Minimal(buffer[k].entry)
<1> SUFFICES ASSUME NEW j \in DOMAIN buffer,
                    HappensBefore(buffer[j].entry.vc, buffer[k].entry.vc)
             PROVE  FALSE
  BY SameComparison DEF Abstract!Minimal, Buffered, Entries
<1> DEFINE x == buffer[j].entry
           e == buffer[k].entry
<1>1. /\ DOMAIN buffer = 1 .. Len(buffer)
      /\ Len(buffer) \in Nat
      /\ x \in Packets /\ e \in Packets
  BY BufferElements
<1>2. committed \in Clock(NodeCount) /\ NodeCount \in Nat
  BY ConstantTypes DEF TypeOK
<1>3. PICK m \in Nat : m <= NodeCount /\ x.vc \in Clock(m)
  BY <1>1, <1>2 DEF FitsServer
<1>4. PICK p \in Nat : e.vc \in Clock(p)
  BY <1>1, <1>2 DEF FitsServer
<1>5. vc_leq(x.vc, e.vc) /\ j # k
  BY BeforeLeq
<1>6. j < k
  <2>1. BufferCausal
    BY SortedIsCausal
  <2> QED  BY <1>1, <1>5, <2>1 DEF BufferCausal
<1>7. ~Treatable(x)
  BY <1>1, <1>6 DEF FlushCommit, FirstTreatable
<1>8. ~vc_leq(x.vc, committed)
  BY <1>7, CompareLeq DEF Treatable, Stale
<1>9. Consecutive(e.vc, committed)
  BY DEF FlushCommit, FirstTreatable, Treatable
<1>10. Consecutive(x.vc, committed)
  BY <1>2, <1>3, <1>4, <1>5, <1>8, <1>9, CauseOfConsecutive
<1> QED  BY <1>7, <1>10 DEF Treatable

-----------------------------------------------------------------------------
(***************************************************************************)
(* Each kind of step.                                                      *)
(***************************************************************************)

RefInv == LogInv /\ Reached

\* Writing an entry that is not stale and that nothing in memory happened before.
LEMMA CommitIsWrite ==
    ASSUME FitsServer, ~DiskMayFail, RefInv, InLoop, InLoop', base' = base,
           NEW k \in DOMAIN buffer, Commit(buffer[k].entry), ~Stale(buffer[k].entry),
           Abstract!Minimal(buffer[k].entry),
           Buffered' \in {Buffered, Buffered \ {buffer[k].entry}}
    PROVE  Abstract!Next
<1> DEFINE e == buffer[k].entry
<1>1. e \in Packets /\ e \in Buffered
  BY BufferElements DEF RefInv, LogInv, OrderInv, Buffered, Entries
<1>2. /\ file \in Seq(Packets) /\ Len(file) \in Nat /\ base \in Nat
      /\ committed \in Clock(NodeCount) /\ NodeCount \in Nat
  BY LenProperties, ConstantTypes DEF RefInv, LogInv, OrderInv, TypeOK
<1>3. PICK m \in Nat : e.vc \in Clock(m)
  BY <1>1, <1>2 DEF FitsServer
<1>4. ASSUME NEW i \in Mine  PROVE ~vc_leq(e.vc, file[i].vc)
  <2>1. file[i] \in Packets
    BY <1>2, ElementOfSeq DEF Mine
  <2>2. PICK n \in Nat : file[i].vc \in Clock(n)
    BY <1>2, <2>1 DEF FitsServer
  <2>3. vc_leq(file[i].vc, committed)
    BY DEF RefInv, LogInv, OrderInv, Dominates
  <2>4. ~vc_leq(e.vc, committed)
    BY CompareLeq DEF Stale
  <2> QED  BY <1>2, <1>3, <2>2, <2>3, <2>4, LeqTransitive
<1>5. Abstract!Mine = Mine
  BY DEF Abstract!Mine, Mine
<1>6. file' = Append(file, e)
  BY DEF Commit, Write
<1>7. Phase = "open" /\ Phase' = "open"
  BY DEF Phase
<1>8. Abstract!Write(e)
  BY <1>4, <1>5, <1>6, <1>7, SameComparison DEF Abstract!Write, Abstract!Forget
<1> QED  BY <1>1, <1>8 DEF Abstract!Next

LEMMA DropIsDiscard ==
    ASSUME ~DiskMayFail, RefInv, NEW k \in DOMAIN buffer, FlushDrop(k)
    PROVE  Abstract!Next
<1> DEFINE e == buffer[k].entry
<1>0. TypeOK /\ InLoop
  BY DEF RefInv, LogInv, OrderInv, FlushDrop, InLoop
<1>1. e \in Packets /\ e \in Buffered
  BY <1>0, BufferElements DEF Buffered, Entries
<1>2. vc_leq(e.vc, committed)
  BY CompareLeq DEF FlushDrop, Stale
<1>3. /\ committed \in Clock(NodeCount)
      /\ \E n \in 0 .. VC_MAX_NODES : e.vc \in Clock(n)
  BY <1>0, <1>1, PacketType DEF TypeOK
<1>4. ASSUME NEW i \in DOMAIN e.vc, e.vc[i] > 0
      PROVE  \E q \in Mine : At(file[q].vc, i) >= e.vc[i]
  <2>1. e.vc[i] \in Nat /\ e.vc[i] <= At(committed, i)
    BY <1>2, <1>3 DEF vc_leq, Clock
  <2>2. i \in DOMAIN committed /\ e.vc[i] <= committed[i] /\ committed[i] # 0
    <3>1. i \in DOMAIN committed
      BY <1>4, <2>1 DEF At
    <3> QED  BY <1>4, <2>1, <3>1 DEF At
  <2>3. PICK q \in Mine : At(file[q].vc, i) = committed[i]
    BY <1>0, <2>2 DEF RefInv, Reached
  <2>4. committed[i] \in Nat
    BY <1>3, <2>2 DEF Clock
  <2> QED  BY <2>1, <2>2, <2>3, <2>4
<1>5. Abstract!AccountedFor(e)
  BY <1>4, SameComparison DEF Abstract!AccountedFor, Abstract!Mine, Mine
<1>6. Phase = "open" /\ UNCHANGED <<Phase, file, base>>
  BY DEF FlushDrop, Phase, InLoop
<1>7. Buffered' \in {Buffered, Buffered \ {e}}
  BY <1>0, RemoveAtForgets DEF FlushDrop
<1>8. Abstract!Discard(e)
  BY <1>5, <1>6, <1>7 DEF Abstract!Discard, Abstract!Forget
<1> QED  BY <1>1, <1>8 DEF Abstract!Next

LEMMA CleanupWriteIsWriteLast ==
    ASSUME HonestTimestamps, ~DiskMayFail, RefInv, CleanupWrite
    PROVE  Abstract!Next
<1>1. TypeOK /\ BufferCausal /\ pc = "cleanup"
  BY SortedIsCausal DEF RefInv, LogInv, OrderInv, CleanupWrite
<1>2. /\ 1 \in DOMAIN buffer
      /\ Head(buffer) = buffer[1]
      /\ Buffered' \in {Buffered, Buffered \ {buffer[1].entry}}
  BY <1>1, TailForgets DEF CleanupWrite
<1>3. Abstract!Minimal(buffer[1].entry)
  BY <1>1, <1>2, HeadIsMinimal
<1>4. \A i \in Mine : ~HappensBefore(buffer[1].entry.vc, file[i].vc)
  BY <1>1, <1>2 DEF RefInv, LogInv, CleanupInv
<1>5. Phase = "closing" /\ UNCHANGED <<Phase, base>> /\ file' = Append(file, buffer[1].entry)
  BY <1>2 DEF CleanupWrite, Write, Phase, InLoop
<1>6. Abstract!WriteLast(buffer[1].entry)
  BY <1>2, <1>3, <1>4, <1>5, SameComparison
     DEF Abstract!WriteLast, Abstract!Forget, Abstract!Mine, Mine
<1>7. buffer[1].entry \in Buffered
  BY <1>2 DEF Buffered, Entries
<1> QED  BY <1>6, <1>7 DEF Abstract!Next

LEMMA StepRefines ==
    ASSUME FitsServer, HonestTimestamps, ~DiskMayFail, RefInv, [Next]_vars
    PROVE  [Abstract!Next]_Abstract!vars
<1>0. TypeOK /\ BufferCausal /\ DownIsEmpty /\ FlushReachesFixpoint
  BY SortedIsCausal DEF RefInv, LogInv, OrderInv
<1>1. ASSUME UNCHANGED <<Phase, file, base>>, Buffered' = Buffered
      PROVE  [Abstract!Next]_Abstract!vars
  BY <1>1 DEF Abstract!vars
<1>2. ASSUME NEW e \in Packets, Receive(e)  PROVE Abstract!Next
  <2>1. Buffered' = Buffered \cup {e}
    BY <1>0, <1>2, ReceiveAccepts
  <2>2. Phase = "open" /\ UNCHANGED <<Phase, file, base>>
    BY <1>2 DEF Receive, Phase, InLoop
  <2>3. Abstract!Accept(e)
    BY <2>1, <2>2 DEF Abstract!Accept
  <2> QED  BY <2>3 DEF Abstract!Next
<1>3. CASE \/ ReceiveMalformed \/ ReceiveInterrupted \/ Stop \/ Run \/ FlushDone
           \/ UNCHANGED vars
  <2>1. UNCHANGED <<buffer, file, base>> /\ (InLoop <=> InLoop') /\ (pc = "cleanup" <=> pc' = "cleanup")
    BY <1>3 DEF ReceiveMalformed, ReceiveInterrupted, Stop, Run, FlushDone, vars, InLoop
  <2>2. UNCHANGED Phase /\ Buffered' = Buffered
    BY <2>1 DEF Phase, Buffered, Entries
  <2> QED  BY <1>1, <2>1, <2>2
<1>4. CASE ReceiveTimeout \/ Tick \/ \E d \in 1 .. Overdue : ClockStepsBack(d)
  <2>1. /\ UNCHANGED <<file, base>> /\ InLoop /\ InLoop'
        /\ \E d \in 1 .. Overdue : buffer' = Older(buffer) \/ buffer' = SetBack(buffer, d)
    BY <1>4, ConstantTypes DEF ReceiveTimeout, Tick, ClockStepsBack, InLoop, Overdue
  <2>2. Buffered' = Buffered
    BY <1>0, <2>1, AgesOnly, AgeingKeepsBuffered DEF TypeOK
  <2> QED  BY <1>1, <2>1, <2>2 DEF Phase
<1>5. ASSUME NEW k \in DOMAIN buffer, FlushDrop(k)  PROVE Abstract!Next
  BY <1>5, DropIsDiscard
<1>6. ASSUME NEW k \in DOMAIN buffer, FlushCommit(k)  PROVE Abstract!Next
  <2>1. Abstract!Minimal(buffer[k].entry)
    BY <1>0, <1>6, CommittedIsMinimal DEF RefInv, LogInv
  <2>2. Buffered' \in {Buffered, Buffered \ {buffer[k].entry}}
    BY <1>0, <1>6, RemoveAtForgets DEF FlushCommit
  <2> QED  BY <1>6, <2>1, <2>2, CommitIsWrite DEF FlushCommit, InLoop
<1>7. CASE TimeoutForce
  <2>1. /\ 1 \in DOMAIN buffer
        /\ Head(buffer) = buffer[1]
        /\ Buffered' \in {Buffered, Buffered \ {buffer[1].entry}}
    BY <1>0, <1>7, TailForgets DEF TimeoutForce, HeadOverdue
  <2>2. Abstract!Minimal(buffer[1].entry)
    BY <1>0, <2>1, HeadIsMinimal
  <2>3. ~Stale(buffer[1].entry)
    BY <1>0, <1>7, <2>1 DEF TimeoutForce, FlushReachesFixpoint, Treatable
  <2> QED  BY <1>7, <2>1, <2>2, <2>3, CommitIsWrite DEF TimeoutForce, InLoop
<1>8. CASE TimeoutDone
  <2>1. UNCHANGED <<buffer, file, base>> /\ pc = "timeout" /\ pc' \in {"recv", "cleanup"}
    BY <1>8 DEF TimeoutDone
  <2>2. Buffered' = Buffered
    BY <2>1 DEF Buffered, Entries
  <2>3. CASE pc' = "recv"
    BY <1>1, <2>1, <2>2, <2>3 DEF Phase, InLoop
  <2>4. CASE pc' = "cleanup"
    <3>1. Abstract!Close
      BY <2>1, <2>2, <2>4 DEF Abstract!Close, Phase, InLoop
    <3> QED  BY <3>1 DEF Abstract!Next
  <2> QED  BY <2>1, <2>3, <2>4
<1>9. CASE CleanupWrite
  BY <1>9, CleanupWriteIsWriteLast
<1>10. CASE CleanupDone
  <2>1. Buffered = {} /\ Buffered' = {}
    BY <1>10 DEF CleanupDone, Buffered, Entries
  <2>2. Abstract!End
    BY <1>10, <2>1 DEF CleanupDone, Abstract!End, Phase, InLoop
  <2> QED  BY <2>2 DEF Abstract!Next
<1>11. CASE Crash
  <2>1. Buffered' = {}
    BY <1>11 DEF Crash, Buffered, Entries
  <2>2. Phase # "closed" /\ Phase' = "closed"
    BY <1>0, <1>11 DEF Crash, Phase, InLoop, TypeOK
  <2>3. Abstract!Crash
    BY <1>11, <2>1, <2>2 DEF Crash, Abstract!Crash
  <2> QED  BY <2>3 DEF Abstract!Next
<1>12. CASE Start
  <2>1. Buffered' = Buffered
    BY <1>12 DEF Start, Buffered, Entries
  <2>2. Abstract!Restart
    BY <1>12, <2>1 DEF Start, Abstract!Restart, Phase, InLoop
  <2> QED  BY <2>2 DEF Abstract!Next
<1> QED
  BY <1>2, <1>3, <1>4, <1>5, <1>6, <1>7, <1>8, <1>9, <1>10, <1>11, <1>12 DEF Next, ServerStep

\* Where timestamps strictly follow happened-before (which times of reading in
\* milliseconds need not: ServerCleanup.cfg), no clock is longer than the server's and
\* no write fails, the server is an implementation of CausalLog: an accepted entry
\* leaves memory only by being written after everything in memory that happened before
\* it, by being discarded once the log accounts for its clock, or in a crash.
THEOREM ServerImplementsCausalLog ==
    ASSUME FitsServer, HonestTimestamps, ~DiskMayFail
    PROVE  Spec => ImplementsCausalLog
<1>1. Init => RefInv
  BY LogInit DEF RefInv, Init, Reached, vc_init
<1>2. RefInv /\ [Next]_vars => RefInv'
  BY LogNext, ReachedNext DEF RefInv, LogInv, OrderInv
<1>3. Init => Abstract!Init
  BY DEF Init, Abstract!Init, Phase, InLoop, Buffered, Entries
<1>4. RefInv /\ [Next]_vars => [Abstract!Next]_Abstract!vars
  BY StepRefines
<1> QED  BY <1>1, <1>2, <1>3, <1>4, PTL DEF Spec, ImplementsCausalLog, Abstract!Spec

=============================================================================
