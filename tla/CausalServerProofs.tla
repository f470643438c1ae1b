------------------------- MODULE CausalServerProofs -------------------------
(***************************************************************************)
(* Proofs about CausalServer, for every set of packets, every number of     *)
(* nodes, every timeout and every bound.                                    *)
(***************************************************************************)
EXTENDS CausalServer, BasicLemmas

-----------------------------------------------------------------------------
(***************************************************************************)
(* Type correctness.                                                       *)
(***************************************************************************)

LEMMA ConstantTypes == NodeCount \in 1 .. VC_MAX_NODES /\ NodeCount \in Nat /\ Timeout \in Nat
BY ConstantsAssumption DEF VC_MAX_NODES

\* The list insertion finds a position: the first element the new entry sorts
\* before, or the end.
LEMMA InsertPositionExists ==
    ASSUME NEW b \in Seq(BufferNode), NEW e
    PROVE  /\ InsertPosition(b, e) \in 1 .. Len(b) + 1
           /\ InsertPosition(b, e) \in DOMAIN b => CausallyLess(e, b[InsertPosition(b, e)].entry)
           /\ \A j \in 1 .. InsertPosition(b, e) - 1 : ~CausallyLess(e, b[j].entry)
<1> DEFINE Before == {k \in 1 .. Len(b) : CausallyLess(e, b[k].entry)}
           Fits(k) == /\ k \in DOMAIN b => CausallyLess(e, b[k].entry)
                      /\ \A j \in 1 .. k - 1 : ~CausallyLess(e, b[j].entry)
<1>1. Len(b) \in Nat /\ DOMAIN b = 1 .. Len(b)
  BY LenProperties
<1>2. \E k \in 1 .. Len(b) + 1 : Fits(k)
  <2>1. CASE Before = {}
    <3>1. Len(b) + 1 \in 1 .. Len(b) + 1 /\ Fits(Len(b) + 1)
      BY <1>1, <2>1
    <3> QED  BY <3>1
  <2>2. CASE Before # {}
    <3>0. Before \subseteq Nat
      BY <1>1
    <3>1. PICK k \in Before : \A j \in Before : k <= j
      BY <2>2, <3>0, FirstExists
    <3>2. \A j \in 1 .. k - 1 : j \in 1 .. Len(b) /\ ~(k <= j)
      BY <1>1
    <3>3. k \in 1 .. Len(b) + 1 /\ Fits(k)
      BY <1>1, <3>1, <3>2
    <3> QED  BY <3>3
  <2> QED  BY <2>1, <2>2
<1>3. InsertPosition(b, e) = CHOOSE k \in 1 .. Len(b) + 1 : Fits(k)
  BY DEF InsertPosition
<1> HIDE DEF Fits
<1>4. InsertPosition(b, e) \in 1 .. Len(b) + 1 /\ Fits(InsertPosition(b, e))
  BY <1>2, <1>3
<1> QED  BY <1>4 DEF Fits

\* Time changes the ages in the list and nothing else.
LEMMA AgesOnly ==
    ASSUME NEW b \in Seq(BufferNode), NEW d \in 1 .. Overdue,
           NEW c, c = Older(b) \/ c = SetBack(b, d)
    PROVE  /\ c \in Seq(BufferNode)
           /\ DOMAIN c = DOMAIN b
           /\ \A k \in DOMAIN b : c[k].entry = b[k].entry
<1>1. Len(b) \in Nat /\ DOMAIN b = 1 .. Len(b) /\ \A k \in 1 .. Len(b) : b[k] \in BufferNode
  BY LenProperties, ElementOfSeq
<1>2. /\ DOMAIN c = 1 .. Len(b)
      /\ \A k \in 1 .. Len(b) : c[k] \in BufferNode /\ c[k].entry = b[k].entry
  <2>1. DOMAIN c = 1 .. Len(b)
    BY <1>1 DEF Older, SetBack
  <2>2. ASSUME NEW k \in 1 .. Len(b)
        PROVE  c[k] \in BufferNode /\ c[k].entry = b[k].entry
    <3>1. b[k] \in [entry : Packets, age : -(Timeout + 1) .. Timeout + 1]
      BY <1>1 DEF BufferNode, Overdue, Ahead
    <3>2. PICK a \in -(Timeout + 1) .. Timeout + 1 : c[k] = [b[k] EXCEPT !.age = a]
      <4>1. b[k].age \in -(Timeout + 1) .. Timeout + 1 /\ Timeout \in Nat
        BY <3>1, ConstantTypes
      <4>2. CASE c = Older(b)
        <5> DEFINE a == IF b[k].age < Overdue THEN b[k].age + 1 ELSE Overdue
        <5>1. c[k] = [b[k] EXCEPT !.age = a]
          BY <1>1, <4>2 DEF Older
        <5>2. a \in -(Timeout + 1) .. Timeout + 1
          BY <4>1 DEF Overdue, Ahead
        <5> QED  BY <5>1, <5>2
      <4>3. CASE c = SetBack(b, d)
        <5> DEFINE a == IF b[k].age - d < -Ahead THEN -Ahead ELSE b[k].age - d
        <5>1. c[k] = [b[k] EXCEPT !.age = a]
          BY <1>1, <4>3 DEF SetBack
        <5>2. a \in -(Timeout + 1) .. Timeout + 1
          BY <4>1 DEF Overdue, Ahead
        <5> QED  BY <5>1, <5>2
      <4> QED  BY <4>2, <4>3
    <3> QED  BY <3>1, <3>2 DEF BufferNode, Overdue, Ahead
  <2> QED  BY <2>1, <2>2
<1>3. c \in [1 .. Len(b) -> BufferNode]
  BY <1>1, <1>2 DEF Older, SetBack
<1>4. c \in Seq(BufferNode)
  BY <1>1, <1>3, SeqDef
<1> QED  BY <1>1, <1>2, <1>4

LEMMA PacketType ==
    ASSUME NEW e \in Packets
    PROVE  \E n \in 0 .. VC_MAX_NODES : e.vc \in Clock(n)
BY ConstantsAssumption DEF LogEntry

\* Merging any packet's clock keeps the committed clock's type.
LEMMA MergeType ==
    ASSUME NEW e \in Packets, NEW c \in Clock(NodeCount)
    PROVE  vc_merge(c, e.vc) \in Clock(NodeCount)
<1>1. \A i \in DOMAIN c : At(e.vc, i) \in Nat /\ c[i] \in Nat
  <2>1. PICK n \in 0 .. VC_MAX_NODES : e.vc \in Clock(n)
    BY PacketType
  <2>2. \A i : At(e.vc, i) \in Nat
    BY <2>1, AtNat DEF VC_MAX_NODES
  <2> QED  BY <2>2 DEF Clock
<1> QED  BY <1>1 DEF vc_merge, Clock

LEMMA InitClockType == vc_init(NodeCount) \in Clock(NodeCount)
BY ConstantTypes DEF vc_init, Clock

LEMMA WriteType ==
    ASSUME TypeOK, NEW e \in Packets, Write(e)
    PROVE  /\ file' \in Seq(Packets)
           /\ base \in 0 .. Len(file')
           /\ Len(file) <= Len(file')
<1>1. file \in Seq(Packets) /\ Len(file) \in Nat /\ base \in 0 .. Len(file)
  BY LenProperties DEF TypeOK
<1>2. CASE file' = file
  BY <1>1, <1>2
<1>3. CASE file' = Append(file, e)
  <2>1. file' \in Seq(Packets) /\ Len(file') = Len(file) + 1
    BY <1>1, <1>3, AppendProperties
  <2> QED  BY <1>1, <2>1
<1> QED  BY <1>2, <1>3 DEF Write

LEMMA StatsType ==
    ASSUME TypeOK
    PROVE  /\ [stats EXCEPT !.received = @ + 1] \in [received : Nat, stored : Nat, errors : Nat]
           /\ [stats EXCEPT !.stored = @ + 1] \in [received : Nat, stored : Nat, errors : Nat]
           /\ [stats EXCEPT !.received = @ + 1, !.errors = @ + 1]
                   \in [received : Nat, stored : Nat, errors : Nat]
<1> DEFINE Stats == [received : Nat, stored : Nat, errors : Nat]
<1>1. /\ stats \in Stats
      /\ stats.received + 1 \in Nat
      /\ stats.stored + 1 \in Nat
      /\ stats.errors + 1 \in Nat
  BY DEF TypeOK
<1>2. \A r \in Nat : [stats EXCEPT !.received = r] \in Stats
  BY <1>1
<1>3. \A r \in Nat : [stats EXCEPT !.stored = r] \in Stats
  BY <1>1
<1>4. \A r, q \in Nat : [stats EXCEPT !.received = r, !.errors = q] \in Stats
  BY <1>1
<1> HIDE DEF Stats
<1>5. /\ [stats EXCEPT !.received = @ + 1] \in Stats
      /\ [stats EXCEPT !.stored = @ + 1] \in Stats
      /\ [stats EXCEPT !.received = @ + 1, !.errors = @ + 1] \in Stats
  BY <1>1, <1>2, <1>3, <1>4
<1> QED  BY <1>5 DEF Stats

LEMMA CommitType ==
    ASSUME TypeOK, NEW e \in Packets, Commit(e)
    PROVE  /\ committed' \in Clock(NodeCount)
           /\ file' \in Seq(Packets)
           /\ base \in 0 .. Len(file')
           /\ stats' \in [received : Nat, stored : Nat, errors : Nat]
<1>1. committed' \in Clock(NodeCount)
  BY MergeType DEF Commit, TypeOK
<1>2. file' \in Seq(Packets) /\ base \in 0 .. Len(file')
  BY WriteType DEF Commit
<1>3. stats' \in [received : Nat, stored : Nat, errors : Nat]
  BY StatsType DEF Commit
<1> QED  BY <1>1, <1>2, <1>3

LEMMA BufferElements ==
    ASSUME TypeOK
    PROVE  /\ buffer \in Seq(BufferNode)
           /\ Len(buffer) \in Nat
           /\ DOMAIN buffer = 1 .. Len(buffer)
           /\ \A k \in DOMAIN buffer : buffer[k] \in BufferNode /\ buffer[k].entry \in Packets
<1>1. buffer \in Seq(BufferNode)
  BY DEF TypeOK
<1>2. Len(buffer) \in Nat /\ DOMAIN buffer = 1 .. Len(buffer)
  BY <1>1, LenProperties
<1>3. \A k \in DOMAIN buffer : buffer[k] \in BufferNode
  BY <1>1, <1>2, ElementOfSeq
<1> QED  BY <1>1, <1>2, <1>3 DEF BufferNode

LEMMA TypeInit == Init => TypeOK
<1> SUFFICES ASSUME Init  PROVE TypeOK
  OBVIOUS
<1>1. buffer \in Seq(BufferNode) /\ file \in Seq(Packets) /\ Len(file) = 0
  BY EmptySeq DEF Init
<1>2. committed \in Clock(NodeCount)
  BY InitClockType DEF Init
<1>3. /\ running \in BOOLEAN
      /\ stats \in [received : Nat, stored : Nat, errors : Nat]
      /\ starts \in Nat
  BY DEF Init
<1> QED  BY <1>1, <1>2, <1>3 DEF Init, TypeOK

LEMMA TypeNext == TypeOK /\ [Next]_vars => TypeOK'
<1> SUFFICES ASSUME TypeOK, [Next]_vars  PROVE TypeOK'
  OBVIOUS
<1>0. /\ buffer \in Seq(BufferNode)
      /\ Len(buffer) \in Nat
      /\ DOMAIN buffer = 1 .. Len(buffer)
      /\ \A k \in DOMAIN buffer : buffer[k] \in BufferNode /\ buffer[k].entry \in Packets
  BY BufferElements
<1>1. ASSUME NEW e \in Packets, Receive(e)  PROVE TypeOK'
  <2>1. [entry |-> e, age |-> 0] \in BufferNode
    BY ConstantTypes DEF BufferNode, Overdue, Ahead
  <2>2. buffer' \in Seq(BufferNode)
    BY <1>0, <1>1, <2>1, InsertPositionExists, InsertAtElements DEF Receive
  <2> QED  BY <1>1, <2>2, StatsType DEF Receive, TypeOK
<1>2. CASE ReceiveMalformed
  BY <1>2, StatsType DEF ReceiveMalformed, TypeOK
<1>3. CASE ReceiveInterrupted
  BY <1>3 DEF ReceiveInterrupted, TypeOK
<1>4. CASE ReceiveTimeout \/ Tick
  <2>1. buffer' = Older(buffer)
    BY <1>4 DEF ReceiveTimeout, Tick
  <2>2. buffer' \in Seq(BufferNode)
    BY <1>0, <2>1, AgesOnly, ConstantTypes DEF Overdue
  <2> QED  BY <1>4, <2>2 DEF ReceiveTimeout, Tick, TypeOK
<1>5. ASSUME NEW d \in 1 .. Overdue, ClockStepsBack(d)  PROVE TypeOK'
  <2>1. buffer' \in Seq(BufferNode)
    BY <1>0, <1>5, AgesOnly DEF ClockStepsBack
  <2> QED  BY <1>5, <2>1 DEF ClockStepsBack, TypeOK
<1>6. ASSUME NEW k \in DOMAIN buffer, FlushDrop(k)  PROVE TypeOK'
  <2>1. buffer' \in Seq(BufferNode)
    BY <1>0, <1>6, RemoveAtElements DEF FlushDrop
  <2> QED  BY <1>6, <2>1 DEF FlushDrop, TypeOK
<1>7. ASSUME NEW k \in DOMAIN buffer, FlushCommit(k)  PROVE TypeOK'
  <2>1. buffer' \in Seq(BufferNode)
    BY <1>0, <1>7, RemoveAtElements DEF FlushCommit
  <2>2. Commit(buffer[k].entry)
    BY <1>7 DEF FlushCommit
  <2>3. /\ committed' \in Clock(NodeCount)
        /\ file' \in Seq(Packets)
        /\ base \in 0 .. Len(file')
        /\ stats' \in [received : Nat, stored : Nat, errors : Nat]
    BY <1>0, <2>2, CommitType
  <2> QED  BY <1>7, <2>1, <2>3 DEF FlushCommit, TypeOK
<1>8. CASE FlushDone
  BY <1>8 DEF FlushDone, TypeOK
<1>9. CASE TimeoutForce
  <2>1. buffer # <<>> /\ Head(buffer) = buffer[1] /\ 1 \in DOMAIN buffer
    BY <1>0, <1>9, EmptySeq DEF TimeoutForce, HeadOverdue
  <2>2. buffer' \in Seq(BufferNode)
    BY <1>0, <1>9, <2>1, HeadTailProperties DEF TimeoutForce
  <2>3. Commit(buffer[1].entry)
    BY <1>9, <2>1 DEF TimeoutForce
  <2>4. /\ committed' \in Clock(NodeCount)
        /\ file' \in Seq(Packets)
        /\ base \in 0 .. Len(file')
        /\ stats' \in [received : Nat, stored : Nat, errors : Nat]
    BY <1>0, <2>1, <2>3, CommitType
  <2> QED  BY <1>9, <2>2, <2>4 DEF TimeoutForce, TypeOK
<1>10. CASE TimeoutDone
  BY <1>10 DEF TimeoutDone, TypeOK
<1>11. CASE Stop
  BY <1>11 DEF Stop, TypeOK
<1>12. CASE CleanupWrite
  <2>1. buffer # <<>> /\ Head(buffer) = buffer[1] /\ 1 \in DOMAIN buffer
    BY <1>0, <1>12, EmptySeq DEF CleanupWrite
  <2>2. buffer' \in Seq(BufferNode)
    BY <1>0, <1>12, <2>1, HeadTailProperties DEF CleanupWrite
  <2>3. Write(buffer[1].entry)
    BY <1>12, <2>1 DEF CleanupWrite
  <2>4. file' \in Seq(Packets) /\ base \in 0 .. Len(file')
    BY <1>0, <2>1, <2>3, WriteType
  <2> QED  BY <1>12, <2>2, <2>4 DEF CleanupWrite, TypeOK
<1>13. CASE CleanupDone
  BY <1>13 DEF CleanupDone, TypeOK
<1>14. CASE Crash
  BY <1>14 DEF Crash, TypeOK
<1>15. CASE Start
  <2>1. Len(file) \in 0 .. Len(file)
    BY LenProperties DEF TypeOK
  <2>2. running' \in BOOLEAN
    BY <1>15 DEF Start
  <2>3. stats' \in [received : Nat, stored : Nat, errors : Nat]
    BY <1>15 DEF Start
  <2>4. committed' \in Clock(NodeCount)
    BY <1>15, InitClockType DEF Start
  <2>5. starts' \in Nat
    BY <1>15 DEF Start, TypeOK
  <2>6. UNCHANGED <<buffer, file>> /\ pc' = "start" /\ base' = Len(file)
    BY <1>15 DEF Start
  <2> QED  BY <2>1, <2>2, <2>3, <2>4, <2>5, <2>6 DEF TypeOK
<1>16. CASE Run
  BY <1>16 DEF Run, TypeOK
<1>17. CASE UNCHANGED vars
  BY <1>17 DEF vars, TypeOK
<1> QED
  BY <1>1, <1>2, <1>3, <1>4, <1>5, <1>6, <1>7, <1>8, <1>9, <1>10, <1>11, <1>12, <1>13,
     <1>14, <1>15, <1>16, <1>17 DEF Next, ServerStep

\* Every variable holds what its C counterpart can hold, in every behaviour.
THEOREM TypeCorrect == Spec => []TypeOK
<1> QED  BY TypeInit, TypeNext, PTL DEF Spec

-----------------------------------------------------------------------------
(***************************************************************************)
(* The flush loop reaches its fixpoint.                                    *)
(***************************************************************************)

\* A process that ended, or has not entered server_run, holds nothing in memory.
DownIsEmpty == pc \in {"down", "start"} => buffer = <<>>

LEMMA DownNext == DownIsEmpty /\ [Next]_vars => DownIsEmpty'
<1> SUFFICES ASSUME DownIsEmpty, [Next]_vars, pc' \in {"down", "start"}
             PROVE  buffer' = <<>>
  BY DEF DownIsEmpty
<1> USE DEF DownIsEmpty
<1>1. CASE ServerStep
  BY <1>1 DEF ServerStep, Run, ReceiveTimeout, FlushDrop, FlushCommit, FlushDone,
              TimeoutForce, TimeoutDone, CleanupWrite, CleanupDone
<1>2. CASE Crash
  BY <1>2 DEF Crash
<1>3. CASE UNCHANGED vars
  BY <1>3 DEF vars
<1>4. CASE \/ \E e \in Packets : Receive(e)
           \/ ReceiveMalformed \/ ReceiveInterrupted \/ Tick \/ Stop \/ Start
           \/ \E d \in 1 .. Overdue : ClockStepsBack(d)
  BY <1>4 DEF Receive, ReceiveMalformed, ReceiveInterrupted, Tick, Stop, Start, ClockStepsBack
<1> QED  BY <1>1, <1>2, <1>3, <1>4 DEF Next

LEMMA FixpointNext ==
    TypeOK /\ DownIsEmpty /\ FlushReachesFixpoint /\ [Next]_vars => FlushReachesFixpoint'
<1> SUFFICES ASSUME TypeOK, DownIsEmpty, FlushReachesFixpoint, [Next]_vars
             PROVE  FlushReachesFixpoint'
  OBVIOUS
<1>0. buffer \in Seq(BufferNode)
  BY DEF TypeOK
<1>1. ASSUME pc' \in {"recv", "timeout", "cleanup"}, committed' = committed,
             pc \in {"recv", "timeout", "cleanup"} \/ FlushDone,
             DOMAIN buffer' = DOMAIN buffer,
             \A k \in DOMAIN buffer : buffer'[k].entry = buffer[k].entry
      PROVE  FlushReachesFixpoint'
  <2>1. \A k \in DOMAIN buffer : ~Treatable(buffer[k].entry)
    BY <1>1 DEF FlushReachesFixpoint, FlushDone
  <2>2. (\A k \in DOMAIN buffer : ~Treatable(buffer[k].entry))'
    BY <1>1, <2>1 DEF Treatable, Stale
  <2> QED  BY <2>2 DEF FlushReachesFixpoint
<1>2. ASSUME pc' \notin {"recv", "timeout", "cleanup"}  PROVE FlushReachesFixpoint'
  BY <1>2 DEF FlushReachesFixpoint
<1>3. CASE \E e \in Packets : Receive(e)
  BY <1>3, <1>2 DEF Receive
<1>4. CASE ReceiveMalformed \/ ReceiveInterrupted
  BY <1>4, <1>1 DEF ReceiveMalformed, ReceiveInterrupted
<1>5. CASE ReceiveTimeout \/ Tick
  <2>1. buffer' = Older(buffer) /\ committed' = committed
    BY <1>5 DEF ReceiveTimeout, Tick
  <2>2. /\ DOMAIN buffer' = DOMAIN buffer
        /\ \A k \in DOMAIN buffer : buffer'[k].entry = buffer[k].entry
    BY <1>0, <2>1, AgesOnly, ConstantTypes DEF Overdue
  <2> QED  BY <1>1, <1>2, <1>5, <2>1, <2>2 DEF ReceiveTimeout, Tick
<1>6. ASSUME NEW d \in 1 .. Overdue, ClockStepsBack(d)  PROVE FlushReachesFixpoint'
  <2>1. /\ DOMAIN buffer' = DOMAIN buffer
        /\ \A k \in DOMAIN buffer : buffer'[k].entry = buffer[k].entry
    BY <1>0, <1>6, AgesOnly DEF ClockStepsBack
  <2> QED  BY <1>1, <1>2, <1>6, <2>1 DEF ClockStepsBack
<1>7. CASE \E k \in DOMAIN buffer : FlushDrop(k) \/ FlushCommit(k)
  BY <1>7, <1>2 DEF FlushDrop, FlushCommit
<1>8. CASE FlushDone
  BY <1>8, <1>1 DEF FlushDone
<1>9. CASE TimeoutForce
  BY <1>9, <1>2 DEF TimeoutForce
<1>10. CASE TimeoutDone
  BY <1>10, <1>1 DEF TimeoutDone
<1>11. CASE Stop
  BY <1>11, <1>1, <1>2 DEF Stop
<1>12. CASE CleanupWrite
  <2>1. /\ buffer # <<>>
        /\ buffer' = Tail(buffer)
        /\ committed' = committed
        /\ pc = "cleanup"
    BY <1>12 DEF CleanupWrite
  <2>2. \A k \in DOMAIN buffer' : k + 1 \in DOMAIN buffer /\ buffer'[k] = buffer[k + 1]
    <3>1. /\ Len(buffer') = Len(buffer) - 1
          /\ \A k \in 1 .. Len(buffer') : buffer'[k] = buffer[k + 1]
          /\ DOMAIN buffer' = 1 .. Len(buffer')
          /\ DOMAIN buffer = 1 .. Len(buffer)
          /\ Len(buffer) \in Nat
      BY <1>0, <2>1, HeadTailProperties, LenProperties
    <3> QED  BY <3>1
  <2>3. \A k \in DOMAIN buffer' : ~Treatable(buffer'[k].entry)
    BY <2>1, <2>2 DEF FlushReachesFixpoint
  <2>4. (\A k \in DOMAIN buffer : ~Treatable(buffer[k].entry))'
    BY <2>1, <2>3 DEF Treatable, Stale
  <2> QED  BY <2>4 DEF FlushReachesFixpoint
<1>13. CASE CleanupDone \/ Crash
  BY <1>13, <1>2 DEF CleanupDone, Crash
<1>14. CASE Start
  <2>1. buffer' = <<>>
    BY <1>14 DEF Start, DownIsEmpty
  <2>2. DOMAIN buffer' = {}
    BY <2>1
  <2> QED  BY <2>2 DEF FlushReachesFixpoint
<1>15. CASE Run
  <2>1. DOMAIN buffer' = {}
    BY <1>15 DEF Run, DownIsEmpty
  <2> QED  BY <2>1 DEF FlushReachesFixpoint
<1>16. CASE UNCHANGED vars
  BY <1>16, <1>1, <1>2 DEF vars
<1> QED
  BY <1>3, <1>4, <1>5, <1>6, <1>7, <1>8, <1>9, <1>10, <1>11, <1>12, <1>13, <1>14, <1>15,
     <1>16 DEF Next, ServerStep

\* The flush loop leaves nothing behind that it could have committed or
\* dropped, in every behaviour.
THEOREM FlushFixpoint == Spec => []FlushReachesFixpoint
<1> DEFINE Inv == TypeOK /\ DownIsEmpty /\ FlushReachesFixpoint
<1>1. Init => Inv
  <2>1. Init => DownIsEmpty /\ FlushReachesFixpoint
    BY DEF Init, DownIsEmpty, FlushReachesFixpoint
  <2> QED  BY <2>1, TypeInit
<1>2. Inv /\ [Next]_vars => Inv'
  BY TypeNext, DownNext, FixpointNext
<1>3. Inv => FlushReachesFixpoint
  OBVIOUS
<1> QED  BY <1>1, <1>2, <1>3, PTL DEF Spec

-----------------------------------------------------------------------------
(***************************************************************************)
(* The file is causally ordered.                                           *)
(***************************************************************************)

\* The clocks that arrive have no components beyond those the server tracks.
\* main_server.c fixes the server's count at 3; an agent started with a larger
\* one breaks this, and the theorems that need it with it.
FitsServer == \A e \in Packets : \E m \in 0 .. NodeCount : e.vc \in Clock(m)

\* committed_vc is above everything this start of the process wrote.  With
\* FlushReachesFixpoint this makes CausalFile inductive: what the timeout
\* forces out of the list is not stale, so it is not below anything written.
Dominates == InLoop => \A k \in Mine : vc_leq(file[k].vc, committed)

OrderInv == TypeOK /\ DownIsEmpty /\ FlushReachesFixpoint /\ Dominates /\ CausalFile

\* Writing an entry that is not stale and merging its clock.
LEMMA CommitKeepsOrder ==
    ASSUME FitsServer, OrderInv, InLoop, InLoop', base' = base,
           NEW e \in Packets, Commit(e), ~Stale(e)
    PROVE  Dominates' /\ CausalFile'
<1>1. /\ file \in Seq(Packets)
      /\ Len(file) \in Nat
      /\ base \in Nat
      /\ committed \in Clock(NodeCount)
      /\ NodeCount \in Nat
  BY LenProperties, ConstantTypes DEF OrderInv, TypeOK
<1>2. PICK m \in Nat : m <= NodeCount /\ e.vc \in Clock(m)
  BY <1>1 DEF FitsServer
<1>3. /\ committed' \in Clock(NodeCount)
      /\ vc_leq(committed, committed')
      /\ vc_leq(e.vc, committed')
  BY <1>1, <1>2, MergeUpperBound DEF Commit
<1>4. ASSUME NEW k \in Mine
      PROVE  /\ file[k] \in Packets
             /\ vc_leq(file[k].vc, committed)
             /\ vc_leq(file[k].vc, committed')
             /\ ~vc_leq(e.vc, file[k].vc)
  <2>1. file[k] \in Packets
    BY <1>1, ElementOfSeq DEF Mine
  <2>2. PICK n \in Nat : file[k].vc \in Clock(n)
    BY <2>1, <1>1 DEF FitsServer
  <2>3. vc_leq(file[k].vc, committed)
    BY DEF OrderInv, Dominates
  <2>4. vc_leq(file[k].vc, committed')
    BY <1>1, <1>3, <2>2, <2>3, LeqTransitive
  <2>5. ~vc_leq(e.vc, committed)
    BY CompareLeq DEF Stale
  <2>6. ~vc_leq(e.vc, file[k].vc)
    BY <1>1, <1>2, <2>2, <2>3, <2>5, LeqTransitive
  <2> QED  BY <2>1, <2>3, <2>4, <2>6
<1>5. CASE file' = file
  <2>1. Mine' = Mine
    BY <1>5 DEF Mine
  <2>2. Dominates'
    BY <1>4, <1>5, <2>1 DEF Dominates
  <2>3. CausalFile'
    BY <1>5, <2>1 DEF CausalFile, OrderInv
  <2> QED  BY <2>2, <2>3
<1>6. CASE file' = Append(file, e)
  <2> DEFINE n == Len(file) + 1
  <2>1. /\ Len(file') = n
        /\ file'[n] = e
        /\ \A k \in 1 .. Len(file) : file'[k] = file[k]
    BY <1>1, <1>6, AppendProperties
  <2>2. /\ Mine' = base + 1 .. n
        /\ \A k \in base + 1 .. n : k # n => k \in Mine
        /\ \A k \in Mine : file'[k] = file[k]
    BY <1>1, <2>1 DEF Mine
  <2>3. ASSUME NEW k \in base + 1 .. n
        PROVE  vc_leq(file'[k].vc, committed')
    BY <1>3, <1>4, <2>1, <2>2
  <2>4. ASSUME NEW i \in base + 1 .. n, NEW j \in base + 1 .. n, i < j
        PROVE  ~vc_leq(file'[j].vc, file'[i].vc)
    <3>1. i \in Mine
      BY <1>1, <2>2, <2>4
    <3>2. CASE j = n
      BY <1>4, <2>1, <2>2, <3>1, <3>2
    <3>3. CASE j # n
      <4>1. j \in Mine
        BY <2>2, <3>3
      <4>2. ~vc_leq(file[j].vc, file[i].vc)
        BY <2>4, <3>1, <4>1 DEF OrderInv, CausalFile
      <4> QED  BY <2>2, <3>1, <4>1, <4>2
    <3> QED  BY <3>2, <3>3
  <2>5. Dominates'
    BY <2>2, <2>3 DEF Dominates
  <2>6. CausalFile'
    BY <2>2, <2>4 DEF CausalFile
  <2> QED  BY <2>5, <2>6
<1> QED  BY <1>5, <1>6 DEF Commit, Write

LEMMA OrderInit == Init => OrderInv
<1> SUFFICES ASSUME Init  PROVE OrderInv
  OBVIOUS
<1>1. DOMAIN buffer = {} /\ Mine = {}
  BY DEF Init, Mine
<1> QED
  BY <1>1, TypeInit DEF OrderInv, Init, DownIsEmpty, FlushReachesFixpoint, Dominates, CausalFile

LEMMA OrderNext == ASSUME FitsServer  PROVE OrderInv /\ [Next]_vars => OrderInv'
<1> SUFFICES ASSUME OrderInv, [Next]_vars  PROVE Dominates' /\ CausalFile'
  BY TypeNext, DownNext, FixpointNext DEF OrderInv
<1>0. /\ buffer \in Seq(BufferNode)
      /\ DOMAIN buffer = 1 .. Len(buffer)
      /\ \A k \in DOMAIN buffer : buffer[k].entry \in Packets
  BY BufferElements DEF OrderInv
<1>1. ASSUME file' = file, base' = base, committed' = committed, InLoop' => InLoop
      PROVE  Dominates' /\ CausalFile'
  BY <1>1 DEF OrderInv, Dominates, CausalFile, Mine
<1>2. ASSUME ~InLoop'  PROVE Dominates' /\ CausalFile'
  BY <1>2 DEF Dominates, CausalFile
<1>3. CASE \E e \in Packets : Receive(e)
  BY <1>1, <1>3 DEF Receive, InLoop
<1>4. CASE ReceiveMalformed \/ ReceiveInterrupted \/ ReceiveTimeout \/ Tick \/ Stop
  BY <1>1, <1>4 DEF ReceiveMalformed, ReceiveInterrupted, ReceiveTimeout, Tick, Stop, InLoop
<1>5. CASE \E d \in 1 .. Overdue : ClockStepsBack(d)
  BY <1>1, <1>5 DEF ClockStepsBack, InLoop
<1>6. ASSUME NEW k \in DOMAIN buffer, FlushDrop(k)  PROVE Dominates' /\ CausalFile'
  BY <1>1, <1>6 DEF FlushDrop, InLoop
<1>7. ASSUME NEW k \in DOMAIN buffer, FlushCommit(k)  PROVE Dominates' /\ CausalFile'
  BY <1>0, <1>7, CommitKeepsOrder DEF FlushCommit, InLoop
<1>8. CASE Run \/ FlushDone \/ TimeoutDone
  BY <1>1, <1>8 DEF Run, FlushDone, TimeoutDone, InLoop
<1>9. CASE TimeoutForce
  <2>1. 1 \in DOMAIN buffer /\ Head(buffer) = buffer[1]
    BY <1>0, <1>9, EmptySeq DEF TimeoutForce, HeadOverdue
  <2>2. ~Stale(buffer[1].entry)
    BY <1>9, <2>1 DEF TimeoutForce, OrderInv, FlushReachesFixpoint, Treatable
  <2> QED  BY <1>0, <1>9, <2>1, <2>2, CommitKeepsOrder DEF TimeoutForce, InLoop
<1>10. CASE CleanupWrite \/ CleanupDone \/ Crash
  BY <1>2, <1>10 DEF CleanupWrite, CleanupDone, Crash, InLoop
<1>11. CASE Start
  <2>1. Mine' = {}
    <3>1. Len(file) \in Nat /\ file' = file /\ base' = Len(file)
      BY <1>11, LenProperties DEF Start, OrderInv, TypeOK
    <3> QED  BY <3>1 DEF Mine
  <2> QED  BY <2>1 DEF Dominates, CausalFile
<1>12. CASE UNCHANGED vars
  BY <1>1, <1>12 DEF vars, InLoop
<1> QED
  BY <1>3, <1>4, <1>5, <1>6, <1>7, <1>8, <1>9, <1>10, <1>11, <1>12 DEF Next, ServerStep

\* Whatever is lost, repeated, reordered, forced out by the timeout, or lost to
\* a crash or a failing disk, and however the wall clock moves: what the loop
\* of one start of the server writes is a linear extension of happened-before
\* without repetitions.
THEOREM CausalOrder == ASSUME FitsServer  PROVE Spec => []CausalFile
<1>1. OrderInv => CausalFile
  BY DEF OrderInv
<1> QED  BY <1>1, OrderInit, OrderNext, PTL DEF Spec

-----------------------------------------------------------------------------
(***************************************************************************)
(* The committed clock is the least one above what was written.            *)
(***************************************************************************)

\* Every component of committed_vc was reached by an entry that was written.
Reached ==
    InLoop => \A i \in DOMAIN committed :
                 committed[i] = 0 \/ \E k \in Mine : At(file[k].vc, i) = committed[i]

LEMMA CommitKeepsReached ==
    ASSUME ~DiskMayFail, TypeOK, Reached, InLoop, base' = base,
           NEW e \in Packets, Commit(e)
    PROVE  Reached'
<1>1. /\ file \in Seq(Packets)
      /\ Len(file) \in Nat
      /\ base \in 0 .. Len(file)
  BY LenProperties DEF TypeOK
<1>2. /\ Len(file') = Len(file) + 1
      /\ file'[Len(file) + 1] = e
      /\ \A k \in 1 .. Len(file) : file'[k] = file[k]
  BY <1>1, AppendProperties DEF Commit, Write
<1>3. /\ Len(file) + 1 \in Mine'
      /\ \A k \in Mine : k \in Mine' /\ file'[k] = file[k]
  BY <1>1, <1>2 DEF Mine
<1>4. ASSUME NEW i \in DOMAIN committed'
      PROVE  committed'[i] = 0 \/ \E k \in Mine' : At(file'[k].vc, i) = committed'[i]
  <2>1. /\ i \in DOMAIN committed
        /\ committed'[i] = IF At(e.vc, i) > committed[i] THEN At(e.vc, i) ELSE committed[i]
    BY DEF Commit, vc_merge
  <2>2. CASE committed'[i] = At(e.vc, i)
    BY <1>2, <1>3, <2>2
  <2>3. CASE committed'[i] = committed[i]
    BY <1>3, <2>1, <2>3 DEF Reached
  <2> QED  BY <2>1, <2>2, <2>3
<1> QED  BY <1>4 DEF Reached

LEMMA ReachedNext ==
    ASSUME ~DiskMayFail  PROVE TypeOK /\ Reached /\ [Next]_vars => Reached'
<1> SUFFICES ASSUME TypeOK, Reached, [Next]_vars  PROVE Reached'
  OBVIOUS
<1>1. ASSUME file' = file, base' = base, committed' = committed, InLoop' => InLoop
      PROVE  Reached'
  BY <1>1 DEF Reached, Mine
<1>2. ASSUME ~InLoop'  PROVE Reached'
  BY <1>2 DEF Reached
<1>3. CASE \E e \in Packets : Receive(e)
  BY <1>1, <1>3 DEF Receive, InLoop
<1>4. CASE ReceiveMalformed \/ ReceiveInterrupted \/ ReceiveTimeout \/ Tick \/ Stop
  BY <1>1, <1>4 DEF ReceiveMalformed, ReceiveInterrupted, ReceiveTimeout, Tick, Stop, InLoop
<1>5. CASE \E d \in 1 .. Overdue : ClockStepsBack(d)
  BY <1>1, <1>5 DEF ClockStepsBack, InLoop
<1>6. ASSUME NEW k \in DOMAIN buffer, FlushDrop(k)  PROVE Reached'
  BY <1>1, <1>6 DEF FlushDrop, InLoop
<1>7. ASSUME NEW k \in DOMAIN buffer, FlushCommit(k)  PROVE Reached'
  BY <1>7, BufferElements, CommitKeepsReached DEF FlushCommit, InLoop
<1>8. CASE Run \/ FlushDone \/ TimeoutDone
  BY <1>1, <1>8 DEF Run, FlushDone, TimeoutDone, InLoop
<1>9. CASE TimeoutForce
  <2>1. Head(buffer).entry \in Packets
    BY <1>9, BufferElements, HeadTailProperties DEF TimeoutForce, HeadOverdue, BufferNode
  <2> QED  BY <1>9, <2>1, CommitKeepsReached DEF TimeoutForce, InLoop
<1>10. CASE CleanupWrite \/ CleanupDone \/ Crash
  BY <1>2, <1>10 DEF CleanupWrite, CleanupDone, Crash, InLoop
<1>11. CASE Start
  <2>1. \A i \in DOMAIN committed' : committed'[i] = 0
    BY <1>11 DEF Start, vc_init
  <2> QED  BY <2>1 DEF Reached
<1>12. CASE UNCHANGED vars
  BY <1>1, <1>12 DEF vars, InLoop
<1> QED
  BY <1>3, <1>4, <1>5, <1>6, <1>7, <1>8, <1>9, <1>10, <1>11, <1>12 DEF Next, ServerStep

\* As long as writes succeed, committed_vc is exactly what the log holds: above
\* every written entry, and in each component some written entry's value.
THEOREM CommittedIsExact ==
    ASSUME FitsServer, ~DiskMayFail
    PROVE  Spec => []CommittedIsLub
<1> DEFINE Inv == OrderInv /\ Reached
<1>1. Init => Inv
  BY OrderInit DEF Init, Reached, vc_init
<1>2. Inv /\ [Next]_vars => Inv'
  BY OrderNext, ReachedNext DEF OrderInv
<1>3. Inv => CommittedIsLub
  BY DEF OrderInv, Dominates, Reached, CommittedIsLub
<1> QED  BY <1>1, <1>2, <1>3, PTL DEF Spec

-----------------------------------------------------------------------------
(***************************************************************************)
(* The list is causally ordered when timestamps respect happened-before,    *)
(* and then so is what server_cleanup writes.                               *)
(***************************************************************************)

\* No entry carries a timestamp at or after that of an entry it happened
\* before.  Agents that read timestamps from log lines do not guarantee it.
HonestTimestamps ==
    \A x, y \in Packets : HappensBefore(x.vc, y.vc) => x.timestamp < y.timestamp

\* The clock decides first, then timestamp and node: with honest timestamps
\* the clock never overrules them, and the comparator is the order ByTime.
LEMMA HonestOrder ==
    ASSUME HonestTimestamps, NEW x \in Packets, NEW y \in Packets
    PROVE  CausallyLess(x, y) <=> ByTime(x, y)
<1>1. /\ x.timestamp \in Nat /\ y.timestamp \in Nat
      /\ x.node \in Nat /\ y.node \in Nat
  BY ConstantsAssumption DEF LogEntry
<1>2. CASE vc_compare(x.vc, y.vc) = "BEFORE"
  <2>1. x.timestamp < y.timestamp
    BY <1>2 DEF HonestTimestamps, HappensBefore
  <2> QED  BY <1>2, <2>1 DEF CausallyLess, ByTime
<1>3. CASE vc_compare(x.vc, y.vc) = "AFTER"
  <2>1. HappensBefore(y.vc, x.vc)
    BY <1>3 DEF vc_compare, HappensBefore
  <2>2. y.timestamp < x.timestamp
    BY <2>1 DEF HonestTimestamps
  <2> QED  BY <1>1, <1>3, <2>2 DEF CausallyLess, ByTime
<1>4. CASE vc_compare(x.vc, y.vc) \in {"EQUAL", "CONCURRENT"}
  BY <1>4 DEF CausallyLess
<1> QED  BY <1>2, <1>3, <1>4 DEF vc_compare

\* ByTime is a strict weak order.
LEMMA ByTimeOrder ==
    ASSUME NEW x \in Packets, NEW y \in Packets, NEW z \in Packets
    PROVE  /\ ByTime(x, y) => ~ByTime(y, x)
           /\ ByTime(x, y) /\ ~ByTime(z, y) => ~ByTime(z, x)
<1>1. \A p \in Packets : p.timestamp \in Nat /\ p.node \in Nat
  BY ConstantsAssumption DEF LogEntry
<1> QED  BY <1>1 DEF ByTime

\* The list is sorted by the comparator.
Sorted ==
    \A i, j \in DOMAIN buffer : i < j => ~ByTime(buffer[j].entry, buffer[i].entry)

LEMMA SortedIsCausal ==
    ASSUME HonestTimestamps, TypeOK, Sorted
    PROVE  BufferCausal
<1>1. ASSUME NEW i \in DOMAIN buffer, NEW j \in DOMAIN buffer, i < j,
             HappensBefore(buffer[j].entry.vc, buffer[i].entry.vc)
      PROVE  FALSE
  <2>1. CausallyLess(buffer[j].entry, buffer[i].entry)
    BY <1>1 DEF CausallyLess, HappensBefore
  <2> QED  BY <1>1, <2>1, BufferElements, HonestOrder DEF Sorted
<1> QED  BY <1>1 DEF BufferCausal

LEMMA InsertKeepsSorted ==
    ASSUME HonestTimestamps, TypeOK, Sorted, NEW e \in Packets, Receive(e)
    PROVE  Sorted'
<1> DEFINE k == InsertPosition(buffer, e)
           x == [entry |-> e, age |-> 0]
           n == Len(buffer)
           Old(i) == IF i < k THEN i ELSE i - 1
<1>1. /\ buffer \in Seq(BufferNode)
      /\ n \in Nat
      /\ DOMAIN buffer = 1 .. n
      /\ \A i \in 1 .. n : buffer[i].entry \in Packets
  BY BufferElements
<1>2. /\ k \in 1 .. n + 1
      /\ k \in DOMAIN buffer => CausallyLess(e, buffer[k].entry)
      /\ \A j \in 1 .. k - 1 : ~CausallyLess(e, buffer[j].entry)
  BY <1>1, InsertPositionExists
<1>3. x \in BufferNode /\ x.entry = e
  BY ConstantTypes DEF BufferNode, Overdue, Ahead
<1> HIDE DEF k, x
<1>4. buffer' = InsertAt(buffer, k, x)
  BY DEF Receive, k, x
<1>5. /\ Len(buffer') = n + 1
      /\ buffer' \in Seq(BufferNode)
      /\ \A j \in 1 .. n + 1 :
            buffer'[j] = IF j < k THEN buffer[j] ELSE IF j = k THEN x ELSE buffer[j - 1]
  <2>1. /\ InsertAt(buffer, k, x) \in Seq(BufferNode)
        /\ Len(InsertAt(buffer, k, x)) = n + 1
        /\ \A j \in 1 .. n + 1 :
              InsertAt(buffer, k, x)[j] = IF j < k THEN buffer[j]
                                          ELSE IF j = k THEN x ELSE buffer[j - 1]
    <3>1. buffer \in Seq(BufferNode) /\ k \in 1 .. Len(buffer) + 1 /\ x \in BufferNode
      BY <1>1, <1>2, <1>3
    <3> QED  BY <3>1, InsertAtElements
  <2> QED  BY <1>4, <2>1
<1>6. DOMAIN buffer' = 1 .. n + 1
  BY <1>5, LenProperties
<1>7. \A j \in 1 .. n : j < k => ~ByTime(e, buffer[j].entry)
  BY <1>1, <1>2, HonestOrder
<1>8. \A j \in 1 .. n : k <= j => ~ByTime(buffer[j].entry, e)
  <2> SUFFICES ASSUME NEW j \in 1 .. n, k <= j  PROVE ~ByTime(buffer[j].entry, e)
    OBVIOUS
  <2>1. k \in 1 .. n /\ buffer[k].entry \in Packets /\ buffer[j].entry \in Packets
    BY <1>1, <1>2
  <2>2. ByTime(e, buffer[k].entry)
    BY <1>1, <1>2, <2>1, HonestOrder
  <2>3. CASE j = k
    BY <2>1, <2>2, <2>3, ByTimeOrder
  <2>4. CASE k < j
    <3>1. ~ByTime(buffer[j].entry, buffer[k].entry)
      BY <1>1, <2>1, <2>4 DEF Sorted
    <3> QED  BY <2>1, <2>2, <3>1, ByTimeOrder
  <2> QED  BY <1>2, <2>3, <2>4
<1>9. ASSUME NEW i \in 1 .. n + 1, NEW j \in 1 .. n + 1, i < j
      PROVE  ~ByTime(buffer'[j].entry, buffer'[i].entry)
  <2>1. CASE i = k
    <3>1. j - 1 \in 1 .. n /\ k <= j - 1 /\ buffer'[j] = buffer[j - 1] /\ buffer'[i] = x
      BY <1>1, <1>2, <1>5, <1>9, <2>1
    <3> QED  BY <1>3, <1>8, <3>1
  <2>2. CASE j = k
    <3>1. i \in 1 .. n /\ i < k /\ buffer'[i] = buffer[i] /\ buffer'[j] = x
      BY <1>1, <1>2, <1>5, <1>9, <2>2
    <3> QED  BY <1>3, <1>7, <3>1
  <2>3. CASE i # k /\ j # k
    <3>1. /\ Old(i) \in 1 .. n /\ Old(j) \in 1 .. n /\ Old(i) < Old(j)
          /\ buffer'[i] = buffer[Old(i)] /\ buffer'[j] = buffer[Old(j)]
      BY <1>1, <1>2, <1>5, <1>9, <2>3
    <3> QED  BY <1>1, <3>1 DEF Sorted
  <2> QED  BY <2>1, <2>2, <2>3
<1> QED  BY <1>6, <1>9 DEF Sorted

LEMMA SortedNext ==
    ASSUME HonestTimestamps  PROVE TypeOK /\ Sorted /\ [Next]_vars => Sorted'
<1> SUFFICES ASSUME TypeOK, Sorted, [Next]_vars  PROVE Sorted'
  OBVIOUS
<1>0. /\ buffer \in Seq(BufferNode)
      /\ Len(buffer) \in Nat
      /\ DOMAIN buffer = 1 .. Len(buffer)
  BY BufferElements
<1>1. ASSUME DOMAIN buffer' = DOMAIN buffer,
             \A k \in DOMAIN buffer : buffer'[k].entry = buffer[k].entry
      PROVE  Sorted'
  BY <1>1 DEF Sorted
<1>2. ASSUME NEW k \in DOMAIN buffer, buffer' = RemoveAt(buffer, k)  PROVE Sorted'
  <2> DEFINE Old(i) == IF i < k THEN i ELSE i + 1
  <2>1. /\ buffer' \in Seq(BufferNode)
        /\ Len(buffer') = Len(buffer) - 1
        /\ \A i \in 1 .. Len(buffer) - 1 : buffer'[i] = buffer[Old(i)]
    BY <1>0, <1>2, RemoveAtElements
  <2>2. DOMAIN buffer' = 1 .. Len(buffer) - 1
    BY <2>1, LenProperties
  <2>3. ASSUME NEW i \in DOMAIN buffer', NEW j \in DOMAIN buffer', i < j
        PROVE  /\ Old(i) \in DOMAIN buffer /\ Old(j) \in DOMAIN buffer /\ Old(i) < Old(j)
               /\ buffer'[i] = buffer[Old(i)] /\ buffer'[j] = buffer[Old(j)]
    BY <1>0, <2>1, <2>2, <2>3
  <2> HIDE DEF Old
  <2> QED  BY <2>3 DEF Sorted
<1>3. ASSUME buffer # <<>>, buffer' = Tail(buffer)  PROVE Sorted'
  <2>1. /\ buffer' \in Seq(BufferNode)
        /\ Len(buffer') = Len(buffer) - 1
        /\ \A i \in 1 .. Len(buffer') : buffer'[i] = buffer[i + 1]
    BY <1>0, <1>3, HeadTailProperties
  <2>2. DOMAIN buffer' = 1 .. Len(buffer) - 1
    BY <2>1, LenProperties
  <2>3. ASSUME NEW i \in DOMAIN buffer', NEW j \in DOMAIN buffer', i < j
        PROVE  /\ i + 1 \in DOMAIN buffer /\ j + 1 \in DOMAIN buffer /\ i + 1 < j + 1
               /\ buffer'[i] = buffer[i + 1] /\ buffer'[j] = buffer[j + 1]
    BY <1>0, <2>1, <2>2, <2>3
  <2> QED  BY <2>3 DEF Sorted
<1>4. CASE \E e \in Packets : Receive(e)
  BY <1>4, InsertKeepsSorted
<1>5. CASE ReceiveMalformed \/ ReceiveInterrupted \/ FlushDone \/ TimeoutDone \/ Stop
           \/ CleanupDone \/ Start \/ Run
  BY <1>1, <1>5 DEF ReceiveMalformed, ReceiveInterrupted, FlushDone, TimeoutDone, Stop,
                    CleanupDone, Start, Run
<1>6. CASE ReceiveTimeout \/ Tick
  <2>1. buffer' = Older(buffer)
    BY <1>6 DEF ReceiveTimeout, Tick
  <2> QED  BY <1>0, <1>1, <2>1, AgesOnly, ConstantTypes DEF Overdue
<1>7. CASE \E d \in 1 .. Overdue : ClockStepsBack(d)
  BY <1>0, <1>1, <1>7, AgesOnly DEF ClockStepsBack
<1>8. CASE \E k \in DOMAIN buffer : FlushDrop(k) \/ FlushCommit(k)
  BY <1>2, <1>8 DEF FlushDrop, FlushCommit
<1>9. CASE TimeoutForce \/ CleanupWrite
  BY <1>3, <1>9 DEF TimeoutForce, HeadOverdue, CleanupWrite
<1>10. CASE Crash
  BY <1>10 DEF Crash, Sorted
<1>11. CASE UNCHANGED vars
  BY <1>1, <1>11 DEF vars
<1> QED
  BY <1>4, <1>5, <1>6, <1>7, <1>8, <1>9, <1>10, <1>11 DEF Next, ServerStep

\* With honest timestamps the list of server_insert_to_buffer never holds an
\* effect before its cause.
THEOREM BufferOrder == ASSUME HonestTimestamps  PROVE Spec => []BufferCausal
<1> DEFINE Inv == TypeOK /\ Sorted
<1>1. Init => Inv
  BY TypeInit DEF Init, Sorted
<1>2. Inv /\ [Next]_vars => Inv'
  BY TypeNext, SortedNext
<1>3. Inv => BufferCausal
  BY SortedIsCausal
<1> QED  BY <1>1, <1>2, <1>3, PTL DEF Spec

-----------------------------------------------------------------------------
\* While server_cleanup runs, nothing left in the list happened before
\* anything written.
CleanupInv ==
    pc = "cleanup" => \A k \in Mine, j \in DOMAIN buffer :
                          ~HappensBefore(buffer[j].entry.vc, file[k].vc)

LogInv == OrderInv /\ Sorted /\ LogCausal /\ CleanupInv

LEMMA LoopIsCausal == CausalFile /\ InLoop => LogCausal
BY BeforeLeq DEF CausalFile, LogCausal

\* The loop ends with every written entry below committed_vc and no element of
\* the list below it.
LEMMA CleanupBegins ==
    ASSUME FitsServer, OrderInv, InLoop, pc = "timeout",
           NEW k \in Mine, NEW j \in DOMAIN buffer
    PROVE  ~HappensBefore(buffer[j].entry.vc, file[k].vc)
<1>1. /\ file \in Seq(Packets)
      /\ Len(file) \in Nat
      /\ base \in Nat
      /\ committed \in Clock(NodeCount)
      /\ NodeCount \in Nat
  BY LenProperties, ConstantTypes DEF OrderInv, TypeOK
<1>2. file[k] \in Packets /\ buffer[j].entry \in Packets
  BY <1>1, ElementOfSeq, BufferElements DEF Mine, OrderInv
<1>3. PICK m \in Nat : file[k].vc \in Clock(m)
  BY <1>1, <1>2 DEF FitsServer
<1>4. PICK n \in Nat : buffer[j].entry.vc \in Clock(n)
  BY <1>1, <1>2 DEF FitsServer
<1>5. vc_leq(file[k].vc, committed)
  BY DEF OrderInv, Dominates
<1>6. ~vc_leq(buffer[j].entry.vc, committed)
  BY CompareLeq DEF OrderInv, FlushReachesFixpoint, Treatable, Stale
<1>7. ~vc_leq(buffer[j].entry.vc, file[k].vc)
  BY <1>1, <1>3, <1>4, <1>5, <1>6, LeqTransitive
<1> QED  BY <1>7, BeforeLeq

LEMMA CleanupWriteCausal ==
    ASSUME HonestTimestamps, LogInv, CleanupWrite
    PROVE  LogCausal' /\ CleanupInv'
<1>0. /\ TypeOK
      /\ buffer \in Seq(BufferNode)
      /\ Len(buffer) \in Nat
      /\ DOMAIN buffer = 1 .. Len(buffer)
      /\ buffer # <<>>
      /\ BufferCausal
  BY BufferElements, SortedIsCausal DEF LogInv, OrderInv, CleanupWrite
<1>1. /\ 1 \in DOMAIN buffer
      /\ Head(buffer) = buffer[1]
      /\ buffer[1].entry \in Packets
  BY <1>0, EmptySeq, BufferElements
<1>2. \A j \in DOMAIN buffer' : j + 1 \in DOMAIN buffer /\ j + 1 > 1 /\ buffer'[j] = buffer[j + 1]
  <2>1. /\ buffer' \in Seq(BufferNode)
        /\ Len(buffer') = Len(buffer) - 1
        /\ \A i \in 1 .. Len(buffer') : buffer'[i] = buffer[i + 1]
    BY <1>0, HeadTailProperties DEF CleanupWrite
  <2>2. DOMAIN buffer' = 1 .. Len(buffer) - 1
    BY <2>1, LenProperties
  <2> QED  BY <1>0, <2>1, <2>2
<1>3. /\ file \in Seq(Packets) /\ Len(file) \in Nat /\ base \in 0 .. Len(file)
      /\ base' = base /\ pc = "cleanup" /\ pc' = "cleanup"
  BY <1>0, LenProperties DEF TypeOK, CleanupWrite
<1>4. CASE file' = file
  <2>1. Mine' = Mine
    BY <1>3, <1>4 DEF Mine
  <2> QED  BY <1>2, <1>3, <1>4, <2>1 DEF LogInv, LogCausal, CleanupInv
<1>5. CASE file' = Append(file, buffer[1].entry)
  <2> DEFINE n == Len(file) + 1
  <2>1. /\ Len(file') = n
        /\ file'[n] = buffer[1].entry
        /\ \A k \in 1 .. Len(file) : file'[k] = file[k]
    BY <1>1, <1>3, <1>5, AppendProperties
  <2>2. /\ Mine' = base + 1 .. n
        /\ \A k \in base + 1 .. n : k # n => k \in Mine
        /\ \A k \in Mine : k # n /\ file'[k] = file[k]
    BY <1>3, <2>1 DEF Mine
  <2>3. ASSUME NEW i \in base + 1 .. n, NEW j \in base + 1 .. n, i < j
        PROVE  ~HappensBefore(file'[j].vc, file'[i].vc)
    <3>1. i \in Mine
      BY <1>3, <2>2, <2>3
    <3>2. CASE j = n
      BY <1>1, <1>3, <2>1, <2>2, <3>1, <3>2 DEF LogInv, CleanupInv
    <3>3. CASE j # n
      BY <2>2, <2>3, <3>1, <3>3 DEF LogInv, LogCausal
    <3> QED  BY <3>2, <3>3
  <2>4. ASSUME NEW k \in base + 1 .. n, NEW j \in DOMAIN buffer'
        PROVE  ~HappensBefore(buffer'[j].entry.vc, file'[k].vc)
    <3>1. CASE k = n
      BY <1>0, <1>1, <1>2, <2>1, <3>1 DEF BufferCausal
    <3>2. CASE k # n
      BY <1>2, <1>3, <2>2, <3>2 DEF LogInv, CleanupInv
    <3> QED  BY <3>1, <3>2
  <2> QED  BY <2>2, <2>3, <2>4 DEF LogCausal, CleanupInv
<1> QED  BY <1>1, <1>4, <1>5 DEF CleanupWrite, Write

LEMMA LogNext ==
    ASSUME FitsServer, HonestTimestamps  PROVE LogInv /\ [Next]_vars => LogInv'
<1> SUFFICES ASSUME LogInv, [Next]_vars  PROVE LogCausal' /\ CleanupInv'
  BY OrderNext, SortedNext DEF LogInv, OrderInv
<1>1. OrderInv'
  BY OrderNext DEF LogInv
<1>2. CASE InLoop'
  <2>1. LogCausal'
    BY <1>1, <1>2, LoopIsCausal, PTL DEF OrderInv
  <2> QED  BY <1>2, <2>1 DEF CleanupInv, InLoop
<1>3. CASE CleanupWrite
  BY <1>3, CleanupWriteCausal
<1>4. ASSUME ~InLoop', ~CleanupWrite
      PROVE  /\ file' = file /\ base' = base
             /\ buffer' = buffer \/ pc' = "down"
             /\ pc' = "cleanup" => pc = "cleanup" \/ pc = "timeout"
  <2>1. CASE ServerStep
    BY <1>4, <2>1 DEF InLoop, ServerStep, Run, ReceiveTimeout, FlushDrop, FlushCommit, FlushDone,
                      TimeoutForce, TimeoutDone, CleanupDone
  <2>2. CASE Crash \/ UNCHANGED vars
    BY <1>4, <2>2 DEF Crash, vars, InLoop, LogInv, OrderInv, TypeOK
  <2>3. CASE \/ \E e \in Packets : Receive(e)
             \/ ReceiveMalformed \/ ReceiveInterrupted \/ Tick \/ Stop \/ Start
             \/ \E d \in 1 .. Overdue : ClockStepsBack(d)
    BY <1>4, <2>3 DEF InLoop, Receive, ReceiveMalformed, ReceiveInterrupted, Tick, Stop, Start,
                      ClockStepsBack
  <2> QED  BY <2>1, <2>2, <2>3 DEF Next
<1>5. CASE ~InLoop' /\ ~CleanupWrite
  <2>1. LogCausal'
    BY <1>4, <1>5 DEF LogInv, LogCausal, Mine
  <2>2. ASSUME pc' = "cleanup"
        PROVE  \A k \in Mine, j \in DOMAIN buffer :
                   ~HappensBefore(buffer[j].entry.vc, file[k].vc)
    <3>1. CASE pc = "cleanup"
      BY <3>1 DEF LogInv, CleanupInv
    <3>2. CASE pc = "timeout"
      BY <3>2, CleanupBegins DEF LogInv, InLoop
    <3> QED  BY <1>4, <1>5, <2>2, <3>1, <3>2
  <2>3. CleanupInv'
    BY <1>4, <1>5, <2>2 DEF CleanupInv, Mine
  <2> QED  BY <2>1, <2>3
<1> QED  BY <1>2, <1>3, <1>5

LEMMA LogInit == Init => LogInv
<1> SUFFICES ASSUME Init  PROVE LogInv
  OBVIOUS
<1>1. OrderInv /\ InLoop /\ pc = "start" /\ DOMAIN buffer = {}
  BY OrderInit DEF Init, InLoop
<1>2. LogCausal
  BY <1>1, LoopIsCausal DEF OrderInv
<1> QED  BY <1>1, <1>2 DEF LogInv, Sorted, CleanupInv

\* With honest timestamps, what one start of the server leaves in the log is
\* causally ordered, the entries server_cleanup writes included.
THEOREM LogOrder ==
    ASSUME FitsServer, HonestTimestamps
    PROVE  Spec => []LogCausal
<1>1. LogInv => LogCausal
  BY DEF LogInv
<1> QED  BY <1>1, LogInit, LogNext, PTL DEF Spec

-----------------------------------------------------------------------------
(***************************************************************************)
(* A stop comes closer with every step of the server's thread.              *)
(***************************************************************************)

LEMMA RemainingShrinks ==
    ASSUME TypeOK, [Next]_vars, ~running, pc \notin {"start", "down"}
    PROVE  /\ ~running'
           /\ Remaining' <= Remaining
           /\ ServerStep => Remaining' < Remaining
<1> DEFINE Shrinks == ~running' /\ Remaining' < Remaining
           Stays == ~running' /\ Remaining' <= Remaining
<1>0. Len(buffer) \in Nat /\ DOMAIN buffer = 1 .. Len(buffer) /\ buffer \in Seq(BufferNode)
  BY BufferElements
<1>22. Len(buffer') \in Nat
  BY TypeNext DEF TypeOK
<1>23. Remaining \in Nat
  BY <1>0 DEF Remaining
<1>1. ASSUME NEW e \in Packets, Receive(e) PROVE Shrinks
  <2>1. [entry |-> e, age |-> 0] \in BufferNode
    BY ConstantTypes DEF BufferNode, Overdue, Ahead
  <2>2. Len(buffer') = Len(buffer) + 1
    BY <1>0, <1>1, <2>1, InsertPositionExists, InsertAtElements DEF Receive
  <2> QED  BY <1>0, <1>1, <2>2 DEF Receive, Remaining
<1>2. ASSUME ReceiveMalformed \/ ReceiveInterrupted PROVE Stays
  BY <1>0, <1>2 DEF ReceiveMalformed, ReceiveInterrupted, Remaining
<1>3. ASSUME NEW d \in 1 .. Overdue, buffer' = Older(buffer) \/ buffer' = SetBack(buffer, d)
      PROVE  Len(buffer') = Len(buffer)
  BY <1>0, <1>3, AgesOnly, LenProperties
<1>4. 1 \in 1 .. Overdue
  BY ConstantTypes DEF Overdue
<1>5. ASSUME ReceiveTimeout PROVE Shrinks
  BY <1>0, <1>3, <1>4, <1>5 DEF ReceiveTimeout, Remaining
<1>6. ASSUME Tick PROVE Stays
  <2>1. Len(buffer') = Len(buffer)
    BY <1>3, <1>4, <1>6 DEF Tick
  <2>2. Remaining' = Remaining
    BY <1>6, <2>1 DEF Tick, Remaining
  <2> QED  BY <1>6, <1>23, <2>2 DEF Tick
<1>7. ASSUME NEW d \in 1 .. Overdue, ClockStepsBack(d) PROVE Stays
  <2>1. Len(buffer') = Len(buffer)
    BY <1>3, <1>7 DEF ClockStepsBack
  <2>2. Remaining' = Remaining
    BY <1>7, <2>1 DEF ClockStepsBack, Remaining
  <2> QED  BY <1>7, <1>23, <2>2 DEF ClockStepsBack
<1>8. ASSUME NEW k \in DOMAIN buffer, FlushDrop(k) \/ FlushCommit(k) PROVE Shrinks
  <2>1. Len(buffer') = Len(buffer) - 1
    BY <1>0, <1>8, RemoveAtElements DEF FlushDrop, FlushCommit
  <2> QED  BY <1>0, <1>8, <2>1 DEF FlushDrop, FlushCommit, Remaining
<1>9. ASSUME FlushDone PROVE Shrinks
  BY <1>0, <1>9 DEF FlushDone, Remaining
<1>10. ASSUME TimeoutDone PROVE Shrinks
  BY <1>0, <1>10 DEF TimeoutDone, Remaining
<1>11. ASSUME buffer # <<>>, buffer' = Tail(buffer)
       PROVE  Len(buffer') = Len(buffer) - 1
  BY <1>0, <1>11, HeadTailProperties
<1>12. ASSUME TimeoutForce PROVE Shrinks
  <2>1. Len(buffer') = Len(buffer) - 1
    BY <1>11, <1>12 DEF TimeoutForce, HeadOverdue
  <2> QED  BY <1>0, <1>12, <2>1 DEF TimeoutForce, Remaining
<1>13. ASSUME CleanupWrite PROVE Shrinks
  <2>1. Len(buffer') = Len(buffer) - 1
    BY <1>11, <1>13 DEF CleanupWrite
  <2> QED  BY <1>0, <1>13, <2>1 DEF CleanupWrite, Remaining
<1>14. ASSUME CleanupDone PROVE Shrinks
  BY <1>0, <1>14 DEF CleanupDone, Remaining
<1>15. ASSUME Stop PROVE Stays
  <2>1. Remaining' = Remaining
    BY <1>15 DEF Stop, Remaining
  <2> QED  BY <1>15, <1>23, <2>1 DEF Stop
<1>16. ASSUME Crash PROVE Stays
  <2>1. Remaining' = 0
    BY <1>16, EmptySeq DEF Crash, Remaining
  <2> QED  BY <1>16, <1>23, <2>1 DEF Crash
<1>17. ~Run /\ ~Start
  BY DEF Run, Start
<1>18. ASSUME UNCHANGED vars PROVE Stays
  <2>1. Remaining' = Remaining
    BY <1>18 DEF vars, Remaining
  <2> QED  BY <1>18, <1>23, <2>1 DEF vars
<1>19. ServerStep => Shrinks
  BY <1>5, <1>8, <1>9, <1>10, <1>12, <1>13, <1>14, <1>17 DEF ServerStep
<1>20. Shrinks \/ Stays
  BY <1>1, <1>2, <1>6, <1>7, <1>15, <1>16, <1>17, <1>18, <1>19 DEF Next
<1>21. Shrinks => Stays
  BY <1>0, <1>22 DEF Remaining
<1> QED  BY <1>19, <1>20, <1>21

\* Once the process was told to stop, its thread comes closer to the end with
\* every step, whatever still arrives, however time passes and whatever is in the
\* list: each of its steps lowers a number that nothing raises.
THEOREM StopMakesProgress == Spec => StopComesCloser
<1>1. ASSUME TypeOK, [Next]_vars
      PROVE  [~running /\ pc \notin {"start", "down"} =>
                 /\ ~running'
                 /\ Remaining' <= Remaining
                 /\ ServerStep => Remaining' < Remaining]_vars
  BY <1>1, RemainingShrinks
<1> QED  BY <1>1, TypeInit, TypeNext, PTL DEF Spec, StopComesCloser

=============================================================================
