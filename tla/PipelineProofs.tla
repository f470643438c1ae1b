--------------------------- MODULE PipelineProofs ---------------------------
(***************************************************************************)
(* Proofs about Pipeline: what holds of the log because of what the agents   *)
(* put into the clocks and of how the server orders by them.                 *)
(***************************************************************************)
EXTENDS Pipeline, RefinementProofs, FiniteSetTheorems

\* The lemmas about Agent, for this module's constants and variables.
AgentTheory == INSTANCE AgentProofs

-----------------------------------------------------------------------------
(***************************************************************************)
(* Fleet and AgentTheory name the same formulas; the provers have to be told. *)
(***************************************************************************)

LEMMA SameInit == Fleet!Init <=> AgentTheory!Init
BY Zenon
   DEF AgentTheory!Init, Fleet!Init, AgentTheory!vc_init, Fleet!vc_init,
       AgentTheory!VC_MAX_NODES, Fleet!VC_MAX_NODES, AgentTheory!EmptyBag, Fleet!EmptyBag,
       AgentTheory!SetToBag, Fleet!SetToBag

LEMMA SameNext == [Fleet!Next]_fleetVars <=> [AgentTheory!Next]_AgentTheory!vars
BY Zenon
   DEF fleetVars, AgentTheory!vars, AgentTheory!Next, Fleet!Next, AgentTheory!AppStep, Fleet!AppStep,
       AgentTheory!AgentStep, Fleet!AgentStep, AgentTheory!Copies, Fleet!Copies,
       AgentTheory!Down, Fleet!Down, AgentTheory!Up, Fleet!Up, AgentTheory!AppLog,
       Fleet!AppLog, AgentTheory!Generate, Fleet!Generate, AgentTheory!AppFinish,
       Fleet!AppFinish, AgentTheory!AppBlank, Fleet!AppBlank, AgentTheory!Rotate,
       Fleet!Rotate, AgentTheory!Poll, Fleet!Poll, AgentTheory!ReadLine,
       Fleet!ReadLine, AgentTheory!SkipLine, Fleet!SkipLine, AgentTheory!ReadEnd,
       Fleet!ReadEnd, AgentTheory!SaveOffset, Fleet!SaveOffset, AgentTheory!WriteLog,
       Fleet!WriteLog, AgentTheory!LastPart, Fleet!LastPart, AgentTheory!Heard,
       Fleet!Heard, AgentTheory!Stamp, Fleet!Stamp, AgentTheory!LineEnd, Fleet!LineEnd,
       AgentTheory!Claimed, Fleet!Claimed, AgentTheory!At, Fleet!At,
       AgentTheory!vc_increment, Fleet!vc_increment, AgentTheory!vc_merge,
       Fleet!vc_merge, AgentTheory!vc_init, Fleet!vc_init, AgentTheory!VC_MAX_NODES,
       Fleet!VC_MAX_NODES, AgentTheory!appVars, Fleet!appVars, AgentTheory!agentVars,
       Fleet!agentVars, AgentTheory!Logged, Fleet!Logged, AgentTheory!Index,
       Fleet!Index, AgentTheory!Max, Fleet!Max, AgentTheory!MapThenSumSet,
       Fleet!MapThenSumSet, AgentTheory!MapThenFoldSet, Fleet!MapThenFoldSet,
       AgentTheory!(+), Fleet!(+), AgentTheory!Open, Fleet!Open, AgentTheory!Befalls,
       Fleet!Befalls, AgentTheory!Shows, Fleet!Shows, AgentTheory!Shortened,
       Fleet!Shortened, AgentTheory!Shown, Fleet!Shown, AgentTheory!Blank, Fleet!Blank,
       AgentTheory!Cardinality, Fleet!Cardinality

LEMMA SameRead == Fleet!Read = AgentTheory!Read /\ Fleet!Read' = AgentTheory!Read'
BY Zenon
   DEF AgentTheory!Read, Fleet!Read, AgentTheory!ToSet, Fleet!ToSet

LEMMA SameIndex == \A a : Fleet!Index(a) = AgentTheory!Index(a)
BY Zenon
   DEF AgentTheory!Index, Fleet!Index

LEMMA SameEntries == LogEntry(NodeCount) = AgentTheory!LogEntry(NodeCount)
BY Zenon DEF LogEntry, Clock, AgentTheory!LogEntry, AgentTheory!Clock

LEMMA SameNet == \A B : AgentTheory!BagToSet(B) = BagToSet(B)
BY Zenon DEF BagToSet, AgentTheory!BagToSet

\* Taking a datagram off the network leaves no other there than before.
LEMMA TakenOff ==
    ASSUME NEW B, NEW e
    PROVE  BagToSet(B (-) SetToBag({e})) \subseteq BagToSet(B)
BY Zenon DEF (-), BagToSet, SetToBag

-----------------------------------------------------------------------------
(***************************************************************************)
(* What the server holds and writes is what the agents made.               *)
(***************************************************************************)

\* The server may receive what an agent of its cluster can send, and no more.
Wired == Packets = LogEntry(NodeCount)

LEMMA WiredFits == ASSUME Wired PROVE FitsServer
<1>1. NodeCount \in 0 .. NodeCount
  BY ConstantTypes
<1> QED  BY <1>1 DEF Wired, FitsServer, LogEntry

\* The first start of the process, which nobody stops.
FirstRun ==
    /\ pc \in {"start", "recv", "flush", "timeout"}
    /\ pc # "start" => running
    /\ base = 0

\* The entries made of lines.
Entered == {r.entry : r \in AgentTheory!Read}

Joined ==
    /\ OrderInv
    /\ AgentTheory!TypeOK
    /\ FirstRun
    /\ Buffered \cup Written \subseteq Entered

LEMMA WrittenGrows ==
    ASSUME TypeOK, NEW e \in Packets, file' = Append(file, e)
    PROVE  Written' = Written \cup {e}
<1>1. /\ file \in Seq(Packets) /\ Len(file) \in Nat /\ DOMAIN file = 1 .. Len(file)
      /\ DOMAIN file' = 1 .. Len(file) + 1 /\ file'[Len(file) + 1] = e
      /\ \A k \in 1 .. Len(file) : file'[k] = file[k]
  BY DEF TypeOK
<1>2. \A k \in DOMAIN file' : k \in DOMAIN file \/ k = Len(file) + 1
  BY <1>1
<1>3. \A k \in DOMAIN file : k \in DOMAIN file'
  BY <1>1
<1>4. Len(file) + 1 \in DOMAIN file'
  BY <1>1
<1> QED  BY <1>1, <1>2, <1>3, <1>4, Zenon DEF Written, ToSet

\* The server's own steps move entries from the list to the file.
LEMMA ServerMoves ==
    ASSUME TypeOK, FirstRun, ServerStep
    PROVE  /\ FirstRun'
           /\ Buffered' \cup Written' \subseteq Buffered \cup Written
<1>0. \A k \in DOMAIN buffer : buffer[k].entry \in Packets /\ buffer[k].entry \in Buffered
  BY BufferElements DEF Buffered, Entries
<1>1. CASE Run \/ FlushDone \/ TimeoutDone
  BY <1>1 DEF Run, FlushDone, TimeoutDone, FirstRun, Buffered, Written
<1>2. CASE ReceiveTimeout
  <2>1. buffer' = Older(buffer) /\ buffer \in Seq(BufferNode) /\ file' = file
    BY <1>2 DEF ReceiveTimeout, TypeOK
  <2>2. 1 \in 1 .. Overdue
    BY ConstantTypes DEF Overdue
  <2>3. Buffered' = Buffered
    BY <2>1, <2>2, AgesOnly, AgeingKeepsBuffered
  <2> QED  BY <1>2, <2>1, <2>3 DEF ReceiveTimeout, FirstRun, Written
<1>3. ASSUME NEW k \in DOMAIN buffer, FlushDrop(k)
      PROVE  FirstRun' /\ Buffered' \cup Written' \subseteq Buffered \cup Written
  <2>1. Buffered' \in {Buffered, Buffered \ {buffer[k].entry}}
    BY <1>3, RemoveAtForgets DEF FlushDrop
  <2> QED  BY <1>3, <2>1 DEF FlushDrop, FirstRun, Written
<1>4. ASSUME NEW k \in DOMAIN buffer, FlushCommit(k)
      PROVE  FirstRun' /\ Buffered' \cup Written' \subseteq Buffered \cup Written
  <2>1. Buffered' \in {Buffered, Buffered \ {buffer[k].entry}}
    BY <1>4, RemoveAtForgets DEF FlushCommit
  <2>2. file' = Append(file, buffer[k].entry) \/ file' = file
    BY <1>4 DEF FlushCommit, Commit, Write
  <2>3. Written' \subseteq Written \cup {buffer[k].entry}
    BY <1>0, <2>2, WrittenGrows DEF Written
  <2> QED  BY <1>0, <1>4, <2>1, <2>3 DEF FlushCommit, FirstRun
<1>5. CASE TimeoutForce
  <2>1. buffer # <<>> /\ buffer' = Tail(buffer)
    BY <1>5 DEF TimeoutForce, HeadOverdue
  <2>2. /\ 1 \in DOMAIN buffer /\ Head(buffer) = buffer[1]
        /\ Buffered' \in {Buffered, Buffered \ {buffer[1].entry}}
    BY <2>1, TailForgets
  <2>3. file' = Append(file, buffer[1].entry) \/ file' = file
    BY <1>5, <2>2 DEF TimeoutForce, Commit, Write
  <2>4. Written' \subseteq Written \cup {buffer[1].entry}
    BY <1>0, <2>2, <2>3, WrittenGrows DEF Written
  <2> QED  BY <1>0, <1>5, <2>2, <2>4 DEF TimeoutForce, FirstRun
<1>6. ~CleanupWrite /\ ~CleanupDone
  BY DEF CleanupWrite, CleanupDone, FirstRun
<1> QED  BY <1>1, <1>2, <1>3, <1>4, <1>5, <1>6 DEF ServerStep

LEMMA AgentsStep ==
    ASSUME AgentTheory!TypeOK, [Fleet!Next]_fleetVars
    PROVE  AgentTheory!TypeOK' /\ AgentTheory!Read \subseteq AgentTheory!Read'
BY SameNext, AgentTheory!StepTypes, AgentTheory!ReadKept, FleetAssumption, ConstantTypes
   DEF AgentTheory!VC_MAX_NODES, VC_MAX_NODES

LEMMA DeliveryKept ==
    ASSUME Deliver
    PROVE  /\ AgentTheory!Read' = AgentTheory!Read
           /\ AgentTheory!TypeOK => AgentTheory!TypeOK'
           /\ AgentTheory!NumberedInv => AgentTheory!NumberedInv'
           /\ AgentTheory!ExactInv => AgentTheory!ExactInv'
<1>1. BagToSet(net') \subseteq BagToSet(net)
  BY TakenOff DEF Deliver
<1>2. AgentTheory!BagToSet(net') \subseteq AgentTheory!BagToSet(net)
  BY <1>1, SameNet
<1>3. UNCHANGED <<program, known, log, at, offset, position, clock, reads>>
  BY DEF Deliver
<1> QED
  BY <1>2, <1>3, AgentTheory!DeliveryKeeps, FleetAssumption, ConstantTypes
     DEF AgentTheory!VC_MAX_NODES, VC_MAX_NODES

LEMMA EnteredType ==
    ASSUME AgentTheory!TypeOK
    PROVE  Entered \subseteq LogEntry(NodeCount) /\ BagToSet(net) \subseteq Entered
<1>1. \A r \in AgentTheory!Read : r \in AgentTheory!Reading
  BY AgentTheory!ReadType, FleetAssumption, ConstantTypes
     DEF AgentTheory!VC_MAX_NODES, VC_MAX_NODES
<1>2. Entered \subseteq LogEntry(NodeCount)
  BY <1>1, SameEntries DEF Entered, AgentTheory!Reading
<1> QED  BY <1>2, SameNet DEF Entered, AgentTheory!TypeOK

\* A step of the whole is one of the server, one of the agents and the
\* applications, or a delivery, which is one of the server and the network.
LEMMA StepParts ==
    ASSUME Wired, AgentTheory!TypeOK, [PipelineNext]_allVars
    PROVE  /\ [Next]_vars
           /\ \/ Deliver
              \/ ServerWorks
              \/ TimePasses
              \/ [Fleet!Next]_fleetVars /\ UNCHANGED <<serverVars, forced>>
<1>1. CASE Deliver
  <2>1. PICK e \in BagToSet(net) : Receive(e)
    BY <1>1 DEF Deliver
  <2>2. e \in Packets
    BY <2>1, EnteredType DEF Wired
  <2> QED  BY <1>1, <2>1, <2>2 DEF Next
<1>2. CASE ServerWorks
  BY <1>2 DEF ServerWorks, Next
<1>3. CASE TimePasses
  BY <1>3 DEF TimePasses, Next
<1>4. ASSUME NEW a \in Agents, AgentWorks(a) \/ Surroundings(a)
      PROVE  [Fleet!Next]_fleetVars /\ UNCHANGED <<serverVars, forced>>
  BY <1>4 DEF AgentWorks, Surroundings, Fleet!Next
<1>5. CASE UNCHANGED allVars
  BY <1>5 DEF allVars, serverVars
<1> QED  BY <1>1, <1>2, <1>3, <1>4, <1>5 DEF PipelineNext, serverVars

LEMMA JoinedInit == PipelineInit => Joined
<1> SUFFICES ASSUME PipelineInit PROVE Joined
  OBVIOUS
<1>1. OrderInv
  BY OrderInit DEF PipelineInit
<1>2. AgentTheory!TypeOK
  BY SameInit, AgentTheory!InitTypes, FleetAssumption, ConstantTypes
     DEF PipelineInit, AgentTheory!VC_MAX_NODES, VC_MAX_NODES
<1>3. FirstRun /\ Buffered = {} /\ Written = {}
  BY DEF PipelineInit, Init, FirstRun, Buffered, Entries, Written, ToSet
<1> QED  BY <1>1, <1>2, <1>3 DEF Joined

LEMMA JoinedNext == ASSUME Wired, Joined, [PipelineNext]_allVars PROVE Joined'
<1>1. /\ OrderInv /\ TypeOK /\ AgentTheory!TypeOK /\ FirstRun
      /\ Buffered \cup Written \subseteq Entered
  BY DEF Joined, OrderInv
<1>2. OrderInv'
  BY <1>1, StepParts, WiredFits, OrderNext
<1>3. CASE Deliver
  <2>1. PICK e \in BagToSet(net) : Receive(e)
    BY <1>3 DEF Deliver
  <2>2. e \in Packets /\ e \in Entered
    BY <1>1, <2>1, EnteredType DEF Wired
  <2>3. Buffered' = Buffered \cup {e} /\ Written' = Written /\ FirstRun'
    BY <1>1, <2>1, <2>2, ReceiveAccepts DEF Receive, Written, FirstRun
  <2>4. AgentTheory!TypeOK' /\ Entered' = Entered
    BY <1>1, <1>3, DeliveryKept DEF Entered
  <2> QED  BY <1>1, <1>2, <2>2, <2>3, <2>4 DEF Joined
<1>4. ASSUME UNCHANGED fleetVars PROVE AgentTheory!TypeOK' /\ Entered' = Entered
  <2>1. UNCHANGED AgentTheory!vars
    BY <1>4 DEF fleetVars, AgentTheory!vars
  <2>2. [Fleet!Next]_fleetVars
    BY <1>4
  <2> QED
    BY <1>1, <2>1, <2>2, AgentsStep DEF Entered, AgentTheory!Read, AgentTheory!vars
<1>5. CASE ServerWorks
  <2>1. FirstRun' /\ Buffered' \cup Written' \subseteq Buffered \cup Written
    BY <1>1, <1>5, ServerMoves DEF ServerWorks
  <2> QED  BY <1>1, <1>2, <1>4, <1>5, <2>1 DEF Joined, ServerWorks
<1>6. CASE TimePasses
  <2>1. buffer' = Older(buffer) /\ buffer \in Seq(BufferNode) /\ 1 \in 1 .. Overdue
    BY <1>1, <1>6, ConstantTypes DEF TimePasses, Tick, TypeOK, Overdue
  <2>2. Buffered' = Buffered
    BY <2>1, AgesOnly, AgeingKeepsBuffered
  <2>3. FirstRun' /\ Written' = Written
    BY <1>1, <1>6 DEF TimePasses, Tick, FirstRun, Written
  <2> QED  BY <1>1, <1>2, <1>4, <1>6, <2>2, <2>3 DEF Joined, TimePasses
<1>7. CASE [Fleet!Next]_fleetVars /\ UNCHANGED <<serverVars, forced>>
  <2>1. AgentTheory!TypeOK' /\ Entered \subseteq Entered'
    BY <1>1, <1>7, AgentsStep DEF Entered
  <2>2. FirstRun' /\ Buffered' = Buffered /\ Written' = Written
    BY <1>1, <1>7 DEF serverVars, vars, FirstRun, Buffered, Written
  <2> QED  BY <1>1, <1>2, <2>1, <2>2 DEF Joined
<1> QED  BY <1>1, <1>3, <1>5, <1>6, <1>7, StepParts

-----------------------------------------------------------------------------
(***************************************************************************)
(* Without faults the log is in the applications' causal order.             *)
(***************************************************************************)

\* A cluster as main_server.c and gen_log set it up, with nothing worse in the
\* files than an empty line.
Unfaulted == Agents \subseteq 1 .. 3 /\ NodeCount = 3 /\ Faults \subseteq {"blank"}

LEMMA UnfaultedAgents == ASSUME Unfaulted PROVE AgentTheory!Undisturbed
BY DEF Unfaulted, AgentTheory!Undisturbed, AgentTheory!FitsPrefix

LEMMA ExactAgentsInit == ASSUME Unfaulted PROVE PipelineInit => AgentTheory!ExactInv
BY UnfaultedAgents, SameInit, AgentTheory!InitExact, FleetAssumption, ConstantTypes
   DEF PipelineInit, AgentTheory!VC_MAX_NODES, VC_MAX_NODES

LEMMA ExactAgentsNext ==
    ASSUME Unfaulted, AgentTheory!ExactInv, [PipelineNext]_allVars
    PROVE  AgentTheory!ExactInv'
<1>1. CASE [Fleet!Next]_fleetVars
  BY <1>1, UnfaultedAgents, SameNext, AgentTheory!ExactInductive, FleetAssumption, ConstantTypes
     DEF AgentTheory!VC_MAX_NODES, VC_MAX_NODES
<1>2. CASE Deliver
  BY <1>2, DeliveryKept
<1> QED
  BY <1>1, <1>2 DEF PipelineNext, ServerWorks, TimePasses, AgentWorks, Surroundings,
                    allVars, Fleet!Next

LEMMA ExactClocks == AgentTheory!ExactInv => ClocksFollowApps
BY SameRead DEF AgentTheory!ExactInv, AgentTheory!ClocksExact, ClocksFollowApps

\* Without faults, an agent gives every line the clock its application had,
\* whatever the polls, the writes of the files and the deliveries interleave to.
THEOREM ClocksAreTheApplications == ASSUME Unfaulted PROVE PipelineSpec => []ClocksFollowApps
<1>1. PipelineInit => AgentTheory!ExactInv
  BY ExactAgentsInit
<1>2. AgentTheory!ExactInv /\ [PipelineNext]_allVars => AgentTheory!ExactInv'
  BY ExactAgentsNext
<1> QED  BY <1>1, <1>2, ExactClocks, PTL DEF PipelineSpec

\* Without faults of the files and the agents, and whatever the network loses,
\* repeats and reorders and the server forces out: the log is in the causal order
\* of the applications.
THEOREM AggregateIsCausal == ASSUME Unfaulted, Wired PROVE PipelineSpec => []AggregateCausal
<1> DEFINE Inv == Joined /\ AgentTheory!ExactInv
<1>1. PipelineInit => Inv
  BY ExactAgentsInit, JoinedInit
<1>2. Inv /\ [PipelineNext]_allVars => Inv'
  BY ExactAgentsNext, JoinedNext
<1>3. Inv => AggregateCausal
  <2> SUFFICES ASSUME Inv, NEW i \in Mine, NEW j \in Mine, i < j,
                      NEW effect \in Fleet!Read, NEW cause \in Fleet!Read,
                      effect.entry = file[i], cause.entry = file[j],
                      HappensBefore(cause.line.vc, effect.line.vc)
               PROVE  FALSE
    BY DEF AggregateCausal
  <2>1. effect.entry.vc = effect.line.vc /\ cause.entry.vc = cause.line.vc
    BY ExactClocks DEF ClocksFollowApps
  <2>2. vc_leq(file[j].vc, file[i].vc)
    BY <2>1, BeforeLeq
  <2>3. ~vc_leq(file[j].vc, file[i].vc)
    BY DEF Joined, OrderInv, CausalFile, FirstRun, InLoop
  <2> QED  BY <2>2, <2>3
<1> QED  BY <1>1, <1>2, <1>3, PTL DEF PipelineSpec

-----------------------------------------------------------------------------
(***************************************************************************)
(* Until an entry is forced out, the log has no gap.                        *)
(***************************************************************************)

\* Agents whose clocks have a component of their own and that keep running, and a
\* disk that takes what is written.
Steady == Agents \subseteq 1 .. NodeCount /\ "restart" \notin Faults /\ ~DiskMayFail

\* The places of node a's entries among the first k of s.
Places(s, a, k) == {j \in 1 .. k : s[j].node = a}

\* Entry k of s counts the entries of each node there are up to it.
CountsPlaces(s, k) ==
    /\ OwnOf(s[k]) = Cardinality(Places(s, s[k].node, k))
    /\ \A a \in Agents : s[k].vc[Fleet!Index(a)] <= Cardinality(Places(s, a, k))

\* The file is s and the committed clock c, nothing having been forced out: each
\* node's component counts its entries in the file, which are numbered without
\* a gap.
Gapless(s, c) ==
    /\ \A a \in Agents :
          /\ c[Fleet!Index(a)] = Cardinality(Places(s, a, Len(s)))
          /\ \A n \in 1 .. c[Fleet!Index(a)] :
                \E k \in DOMAIN s : s[k].node = a /\ OwnOf(s[k]) = n
    /\ \A k \in DOMAIN s : CountsPlaces(s, k)

Counting ==
    /\ Joined
    /\ AgentTheory!NumberedInv
    /\ ~forced => Gapless(file, committed)

LEMMA OwnComponent ==
    ASSUME Steady, NEW a \in Agents
    PROVE  /\ Fleet!Index(a) \in 0 .. NodeCount - 1
           /\ \A b \in Agents : Fleet!Index(b) = Fleet!Index(a) => b = a
BY ConstantTypes DEF Steady, Fleet!Index

LEMMA PlacesAppend ==
    ASSUME NEW s \in Seq(LogEntry(NodeCount)), NEW e \in LogEntry(NodeCount), NEW a
    PROVE  LET t == Append(s, e)
               n == Len(s) + 1
           IN  /\ Cardinality(Places(s, a, Len(s))) \in Nat
               /\ \A k \in 1 .. Len(s) : Places(t, a, k) = Places(s, a, k)
               /\ Cardinality(Places(t, a, n)) =
                     IF e.node = a THEN Cardinality(Places(s, a, Len(s))) + 1
                     ELSE Cardinality(Places(s, a, Len(s)))
<1> DEFINE t == Append(s, e)
           n == Len(s) + 1
<1>1. /\ Len(s) \in Nat /\ t[n] = e /\ \A k \in 1 .. Len(s) : t[k] = s[k]
      /\ 1 .. n = (1 .. Len(s)) \cup {n} /\ n \notin 1 .. Len(s)
      /\ \A k \in 1 .. Len(s) : 1 .. k \subseteq 1 .. Len(s)
  OBVIOUS
<1>2. IsFiniteSet(Places(s, a, Len(s))) /\ n \notin Places(s, a, Len(s))
  <2>1. IsFiniteSet(1 .. Len(s))
    <3>1. 1 \in Int /\ Len(s) \in Int
      BY <1>1
    <3> QED  BY <3>1, FS_Interval, Zenon
  <2>2. Places(s, a, Len(s)) \subseteq 1 .. Len(s)
    BY DEF Places
  <2> QED  BY <1>1, <2>1, <2>2, FS_Subset
<1>3. Cardinality(Places(s, a, Len(s))) \in Nat
  BY <1>2, FS_CardinalityType
<1> HIDE DEF t, n
<1>4. \A k \in 1 .. Len(s) : Places(t, a, k) = Places(s, a, k)
  BY <1>1 DEF Places
<1>5. Places(t, a, n) = IF e.node = a THEN Places(s, a, Len(s)) \cup {n}
                                      ELSE Places(s, a, Len(s))
  BY <1>1 DEF Places
<1>6. Cardinality(Places(s, a, Len(s)) \cup {n}) = Cardinality(Places(s, a, Len(s))) + 1
  BY <1>2, FS_AddElement
<1> QED  BY <1>3, <1>4, <1>5, <1>6 DEF t, n

\* Committing the next entry of its node, which has seen nothing of the others
\* that is not in the file.
LEMMA CommitGapless ==
    ASSUME Steady, NEW s \in Seq(LogEntry(NodeCount)), NEW c \in Clock(NodeCount), Gapless(s, c),
           NEW e \in LogEntry(NodeCount), e.node \in Agents,
           OwnOf(e) = c[Fleet!Index(e.node)] + 1,
           \A i \in DOMAIN c \ {Fleet!Index(e.node)} : At(e.vc, i) <= c[i]
    PROVE  Gapless(Append(s, e), vc_merge(c, e.vc))
<1> DEFINE t == Append(s, e)
           n == Len(s) + 1
           d == vc_merge(c, e.vc)
           o == Fleet!Index(e.node)
<1>1. /\ Len(s) \in Nat /\ Len(t) = n /\ n \in DOMAIN t /\ t[n] = e
      /\ \A k \in DOMAIN s : k \in DOMAIN t /\ k \in 1 .. Len(s) /\ t[k] = s[k]
      /\ \A k \in DOMAIN t : k \in DOMAIN s \/ k = n
  OBVIOUS
<1>2. /\ o \in 0 .. NodeCount - 1
      /\ \A a \in Agents : Fleet!Index(a) \in 0 .. NodeCount - 1 /\ (Fleet!Index(a) = o => a = e.node)
  BY OwnComponent
<1>3. \A i \in 0 .. NodeCount - 1 : c[i] \in Nat /\ e.vc[i] \in Nat /\ At(e.vc, i) = e.vc[i]
                                  /\ i \in DOMAIN c
  BY DEF Clock, LogEntry, At
<1>4. \A i \in 0 .. NodeCount - 1 : d[i] = IF i = o THEN c[i] + 1 ELSE c[i]
  <2>1. \A i \in 0 .. NodeCount - 1 : d[i] = IF At(e.vc, i) > c[i] THEN At(e.vc, i) ELSE c[i]
    BY <1>3 DEF vc_merge
  <2>2. e.vc[o] = c[o] + 1
    BY DEF OwnOf
  <2>3. \A i \in 0 .. NodeCount - 1 : i # o => e.vc[i] <= c[i]
    BY <1>3
  <2> HIDE DEF o, d
  <2> QED  BY <1>3, <2>1, <2>2, <2>3
<1>5. \A a \in Agents :
         /\ Cardinality(Places(s, a, Len(s))) \in Nat
         /\ c[Fleet!Index(a)] = Cardinality(Places(s, a, Len(s)))
         /\ \A k \in 1 .. Len(s) : Places(t, a, k) = Places(s, a, k)
         /\ Cardinality(Places(t, a, n)) = IF e.node = a THEN c[Fleet!Index(a)] + 1
                                          ELSE c[Fleet!Index(a)]
  BY PlacesAppend DEF Gapless
<1> HIDE DEF t, n, d, o
<1>6. ASSUME NEW a \in Agents
      PROVE  /\ d[Fleet!Index(a)] = Cardinality(Places(t, a, Len(t)))
             /\ \A m \in 1 .. d[Fleet!Index(a)] :
                   \E k \in DOMAIN t : t[k].node = a /\ OwnOf(t[k]) = m
  <2>1. d[Fleet!Index(a)] = IF e.node = a THEN c[Fleet!Index(a)] + 1 ELSE c[Fleet!Index(a)]
    BY <1>2, <1>4 DEF o
  <2>2. d[Fleet!Index(a)] = Cardinality(Places(t, a, Len(t)))
    BY <1>1, <1>5, <2>1
  <2>3. ASSUME NEW m \in 1 .. d[Fleet!Index(a)]
        PROVE  \E k \in DOMAIN t : t[k].node = a /\ OwnOf(t[k]) = m
    <3>1. c[Fleet!Index(a)] \in Nat
      BY <1>2, <1>3
    <3>2. CASE m \in 1 .. c[Fleet!Index(a)]
      <4>1. PICK k \in DOMAIN s : s[k].node = a /\ OwnOf(s[k]) = m
        BY <3>2 DEF Gapless
      <4> QED  BY <1>1, <4>1
    <3>3. CASE m \notin 1 .. c[Fleet!Index(a)]
      <4>1. e.node = a /\ m = c[Fleet!Index(a)] + 1
        BY <2>1, <3>1, <3>3
      <4> QED  BY <1>1, <4>1
    <3> QED  BY <3>2, <3>3
  <2> QED  BY <2>2, <2>3
<1>7. ASSUME NEW k \in DOMAIN t PROVE CountsPlaces(t, k)
  <2>1. CASE k \in DOMAIN s
    <3>1. CountsPlaces(s, k) /\ t[k] = s[k] /\ k \in 1 .. Len(s)
      BY <1>1, <2>1 DEF Gapless
    <3>2. \A a : Places(t, a, k) = Places(s, a, k)
      BY <3>1, PlacesAppend DEF t
    <3> QED  BY <3>1, <3>2 DEF CountsPlaces
  <2>2. CASE k = n
    <3>1. OwnOf(e) = Cardinality(Places(t, e.node, n))
      BY <1>5
    <3>2. ASSUME NEW a \in Agents PROVE e.vc[Fleet!Index(a)] <= Cardinality(Places(t, a, n))
      <4>1. CASE a = e.node
        <5>1. e.vc[Fleet!Index(a)] = c[Fleet!Index(a)] + 1 /\ c[Fleet!Index(a)] \in Nat
          BY <1>2, <1>3, <4>1 DEF OwnOf
        <5> QED  BY <1>5, <4>1, <5>1
      <4>2. CASE a # e.node
        <5>1. Fleet!Index(a) # o /\ Fleet!Index(a) \in 0 .. NodeCount - 1
          BY <1>2, <4>2
        <5>2. e.vc[Fleet!Index(a)] <= c[Fleet!Index(a)]
          BY <1>3, <5>1 DEF o
        <5> QED  BY <1>5, <4>2, <5>2
      <4> QED  BY <4>1, <4>2
    <3> QED  BY <1>1, <2>2, <3>1, <3>2 DEF CountsPlaces
  <2> QED  BY <1>1, <2>1, <2>2
<1>8. Gapless(t, d)
  BY <1>6, <1>7 DEF Gapless
<1> QED  BY <1>8 DEF t, d

\* An entry made of a line: its node and number tell it from all others.
LEMMA EnteredNumbers ==
    ASSUME Steady, AgentTheory!TypeOK, AgentTheory!NumberedInv, NEW e \in Entered, NEW q \in Entered
    PROVE  /\ e \in LogEntry(NodeCount) /\ e.node \in Agents
           /\ OwnOf(e) \in Nat /\ 1 <= OwnOf(e)
           /\ e.node = q.node /\ OwnOf(e) = OwnOf(q) => e = q
<1>1. AgentTheory!FitsClock
  BY DEF Steady, AgentTheory!FitsClock
<1>2. PICK r \in AgentTheory!Read : e = r.entry
  BY DEF Entered
<1>3. PICK p \in AgentTheory!Read : q = p.entry
  BY DEF Entered
<1>4. \A x : AgentTheory!OwnCount(x) = OwnOf(x)
  BY SameIndex DEF AgentTheory!OwnCount, OwnOf
<1>5. /\ e \in AgentTheory!LogEntry(NodeCount) /\ e.node \in Agents
      /\ AgentTheory!OwnCount(e) \in Nat /\ 1 <= AgentTheory!OwnCount(e)
      /\ e.node = q.node /\ AgentTheory!OwnCount(e) = AgentTheory!OwnCount(q) => e = q
  BY <1>1, <1>2, <1>3, AgentTheory!NumbersIdentify, FleetAssumption, ConstantTypes
     DEF AgentTheory!VC_MAX_NODES, VC_MAX_NODES
<1> QED  BY <1>4, <1>5, SameEntries

\* What the committed clock counts already is in the file.
LEMMA CountedIsWritten ==
    ASSUME Steady, Counting, ~forced, NEW e \in Entered,
           OwnOf(e) <= committed[Fleet!Index(e.node)]
    PROVE  \E k \in Mine : file[k] = e
<1>1. /\ AgentTheory!TypeOK /\ AgentTheory!NumberedInv /\ Gapless(file, committed)
      /\ base = 0 /\ file \in Seq(Packets) /\ committed \in Clock(NodeCount)
      /\ Written \subseteq Entered
  BY DEF Counting, Joined, OrderInv, TypeOK, FirstRun
<1>2. e.node \in Agents /\ OwnOf(e) \in Nat /\ 1 <= OwnOf(e)
  BY <1>1, EnteredNumbers
<1>3. OwnOf(e) \in 1 .. committed[Fleet!Index(e.node)]
  <2>1. committed[Fleet!Index(e.node)] \in Nat
    BY <1>1, <1>2, OwnComponent DEF Clock
  <2> QED  BY <1>2, <2>1
<1>4. PICK k \in DOMAIN file : file[k].node = e.node /\ OwnOf(file[k]) = OwnOf(e)
  BY <1>1, <1>2, <1>3 DEF Gapless
<1>5. file[k] \in Entered
  BY <1>1 DEF Written, ToSet
<1>6. k \in Mine
  BY <1>1 DEF Mine
<1> QED  BY <1>1, <1>4, <1>5, <1>6, EnteredNumbers

\* An entry that is not stale but consecutive is the next one of its node.
LEMMA ConsecutiveIsNext ==
    ASSUME Steady, Wired, Counting, InLoop, ~forced, NEW e \in Entered,
           ~Stale(e), Consecutive(e.vc, committed)
    PROVE  /\ OwnOf(e) = committed[Fleet!Index(e.node)] + 1
           /\ \A i \in DOMAIN committed \ {Fleet!Index(e.node)} : At(e.vc, i) <= committed[i]
<1>1. /\ AgentTheory!TypeOK /\ AgentTheory!NumberedInv /\ committed \in Clock(NodeCount)
      /\ Dominates
  BY DEF Counting, Joined, OrderInv, TypeOK
<1>2. e \in LogEntry(NodeCount) /\ e.node \in Agents /\ OwnOf(e) \in Nat
  BY <1>1, EnteredNumbers
<1>3. Fleet!Index(e.node) \in DOMAIN committed /\ At(e.vc, Fleet!Index(e.node)) = OwnOf(e)
  BY <1>1, <1>2, OwnComponent DEF Clock, LogEntry, At, OwnOf
<1>4. PICK i \in DOMAIN committed : /\ At(e.vc, i) = committed[i] + 1
                                   /\ \A j \in DOMAIN committed \ {i} : At(e.vc, j) <= committed[j]
  BY DEF Consecutive
<1>5. ASSUME i # Fleet!Index(e.node) PROVE FALSE
  <2>1. OwnOf(e) <= committed[Fleet!Index(e.node)]
    BY <1>3, <1>4, <1>5
  <2>2. PICK k \in Mine : file[k] = e
    BY <2>1, CountedIsWritten
  <2>3. vc_leq(e.vc, committed)
    BY <1>1, <2>2 DEF Dominates
  <2> QED  BY <2>3, CompareLeq DEF Stale
<1> QED  BY <1>3, <1>4, <1>5

LEMMA CountingInit == ASSUME Steady PROVE PipelineInit => Counting
<1> SUFFICES ASSUME PipelineInit PROVE Counting
  OBVIOUS
<1>1. Joined
  BY JoinedInit
<1>2. AgentTheory!NumberedInv
  BY SameInit, AgentTheory!InitNumbered, FleetAssumption, ConstantTypes
     DEF PipelineInit, AgentTheory!VC_MAX_NODES, VC_MAX_NODES
<1>3. Gapless(file, committed)
  <2>1. file = <<>> /\ committed = vc_init(NodeCount) /\ DOMAIN <<>> = {} /\ Len(<<>>) = 0
    BY DEF PipelineInit, Init
  <2>2. \A a : Places(<<>>, a, 0) = {}
    BY DEF Places
  <2>3. \A i \in 0 .. NodeCount - 1 : vc_init(NodeCount)[i] = 0
    BY ConstantTypes DEF vc_init
  <2>4. \A a \in Agents : committed[Fleet!Index(a)] = 0 /\ Cardinality(Places(file, a, Len(file))) = 0
    BY <2>1, <2>2, <2>3, OwnComponent, FS_EmptySet
  <2> QED  BY <2>1, <2>4 DEF Gapless
<1> QED  BY <1>1, <1>2, <1>3 DEF Counting

LEMMA CountingNext ==
    ASSUME Steady, Wired, Counting, [PipelineNext]_allVars
    PROVE  Counting'
<1>0. Joined /\ AgentTheory!TypeOK /\ AgentTheory!NumberedInv
  BY DEF Counting, Joined
<1>1. Joined'
  BY <1>0, JoinedNext
<1>2. AgentTheory!NumberedInv'
  <2>1. AgentTheory!FitsClock
    BY DEF Steady, AgentTheory!FitsClock
  <2>2. CASE [Fleet!Next]_fleetVars
    BY <1>0, <2>1, <2>2, SameNext, AgentTheory!NumberedInductive, FleetAssumption, ConstantTypes
       DEF Steady, AgentTheory!VC_MAX_NODES, VC_MAX_NODES
  <2>3. CASE Deliver
    BY <1>0, <2>3, DeliveryKept
  <2> QED
    BY <1>0, <2>2, <2>3, StepParts DEF ServerWorks, TimePasses
<1>3. ASSUME ~forced' PROVE Gapless(file', committed')
  <2>1. ASSUME ~forced, UNCHANGED <<file, committed>> PROVE Gapless(file', committed')
    BY <2>1 DEF Counting
  <2>2. CASE Deliver
    BY <1>3, <2>1, <2>2 DEF Deliver, Receive
  <2>3. CASE TimePasses
    BY <1>3, <2>1, <2>3 DEF TimePasses, Tick
  <2>4. CASE UNCHANGED <<serverVars, forced>>
    BY <1>3, <2>1, <2>4 DEF serverVars, vars
  <2>5. CASE ServerWorks
    <3>1. ~forced /\ ~TimeoutForce /\ ServerStep /\ FirstRun
      BY <1>0, <1>3, <2>5 DEF ServerWorks, Joined
    <3>2. ASSUME NEW k \in DOMAIN buffer, FlushCommit(k) PROVE Gapless(file', committed')
      <4> DEFINE e == buffer[k].entry
      <4>1. e \in Packets /\ e \in Entered
        BY <1>0, BufferElements DEF Joined, OrderInv, Buffered, Entries
      <4>2. ~Stale(e) /\ Consecutive(e.vc, committed)
        BY <3>2 DEF FlushCommit, FirstTreatable, Treatable
      <4>3. file' = Append(file, e) /\ committed' = vc_merge(committed, e.vc)
        BY <3>2 DEF FlushCommit, Commit, Write, Steady
      <4>4. file \in Seq(LogEntry(NodeCount)) /\ committed \in Clock(NodeCount)
        BY <1>0 DEF Joined, OrderInv, TypeOK, Wired
      <4>5. InLoop
        BY <3>2 DEF FlushCommit, InLoop
      <4> HIDE DEF e
      <4>6. /\ OwnOf(e) = committed[Fleet!Index(e.node)] + 1
            /\ \A i \in DOMAIN committed \ {Fleet!Index(e.node)} : At(e.vc, i) <= committed[i]
        BY <3>1, <4>1, <4>2, <4>5, ConsecutiveIsNext
      <4>7. e \in LogEntry(NodeCount) /\ e.node \in Agents
        BY <1>0, <4>1, EnteredNumbers
      <4>8. Gapless(file, committed)
        BY <3>1 DEF Counting
      <4> QED  BY <4>3, <4>4, <4>6, <4>7, <4>8, CommitGapless
    <3>3. CASE \/ Run \/ ReceiveTimeout \/ FlushDone \/ TimeoutDone
               \/ \E k \in DOMAIN buffer : FlushDrop(k)
      BY <2>1, <3>1, <3>3 DEF Run, ReceiveTimeout, FlushDone, TimeoutDone, FlushDrop
    <3>4. ~CleanupWrite /\ ~CleanupDone
      BY <3>1 DEF CleanupWrite, CleanupDone, FirstRun
    <3> QED  BY <3>1, <3>2, <3>3, <3>4 DEF ServerStep
  <2> QED  BY <1>0, <2>2, <2>3, <2>4, <2>5, StepParts
<1> QED  BY <1>1, <1>2, <1>3 DEF Counting

\* Until an overdue entry is forced out, the log has no gap, whatever lines are
\* written in two parts or lost to truncations, and whatever datagrams are lost,
\* repeated and reordered.
THEOREM LogHasNoGap == ASSUME Steady, Wired PROVE PipelineSpec => []GapFree
<1>1. Counting => GapFree
  <2> SUFFICES ASSUME Counting, ~forced, NEW k \in Mine, NEW a
               PROVE  /\ CountsPlaces(file, k) /\ file[k].node \in Agents
                      /\ {j \in Mine : j <= k /\ file[j].node = a} = Places(file, a, k)
    BY Zenon DEF GapFree, CountsPlaces
  <2>1. /\ base = 0 /\ file \in Seq(Packets) /\ Len(file) \in Nat /\ Gapless(file, committed)
        /\ Written \subseteq Entered /\ AgentTheory!TypeOK /\ AgentTheory!NumberedInv
    BY DEF Counting, Joined, OrderInv, TypeOK, FirstRun
  <2>2. k \in DOMAIN file /\ k \in Nat /\ k <= Len(file)
    BY <2>1 DEF Mine
  <2>3. CountsPlaces(file, k)
    BY <2>1, <2>2 DEF Gapless
  <2>4. file[k].node \in Agents
    BY <2>1, <2>2, EnteredNumbers DEF Written, ToSet
  <2>5. {j \in Mine : j <= k /\ file[j].node = a} = Places(file, a, k)
    BY <2>1, <2>2 DEF Mine, Places
  <2> QED  BY <2>3, <2>4, <2>5
<1>2. PipelineInit => Counting
  BY CountingInit
<1>3. Counting /\ [PipelineNext]_allVars => Counting'
  BY CountingNext
<1> QED  BY <1>1, <1>2, <1>3, PTL DEF PipelineSpec

\* Until an overdue entry is forced out, the server discards an entry only when
\* the file has it.
THEOREM NothingIsLost == ASSUME Steady, Wired PROVE PipelineSpec => NothingLost
<1>1. ASSUME Counting
      PROVE  [~forced => \A k \in DOMAIN buffer : FlushDrop(k) => buffer[k].entry \in Written]_allVars
  <2> SUFFICES ASSUME ~forced, NEW k \in DOMAIN buffer, FlushDrop(k)
               PROVE  buffer[k].entry \in Written
    OBVIOUS
  <2>1. /\ buffer[k].entry \in Entered /\ AgentTheory!TypeOK /\ AgentTheory!NumberedInv
        /\ committed \in Clock(NodeCount) /\ file \in Seq(Packets) /\ base = 0
    BY <1>1 DEF Counting, Joined, OrderInv, TypeOK, FirstRun, Buffered, Entries
  <2> DEFINE e == buffer[k].entry
  <2>2. vc_leq(e.vc, committed)
    BY CompareLeq DEF FlushDrop, Stale
  <2> HIDE DEF e
  <2>3. e \in LogEntry(NodeCount) /\ e.node \in Agents
    BY <2>1, EnteredNumbers DEF e
  <2>4. OwnOf(e) <= committed[Fleet!Index(e.node)]
    BY <2>1, <2>2, <2>3, OwnComponent DEF vc_leq, At, Clock, LogEntry, OwnOf
  <2>5. PICK j \in Mine : file[j] = e
    BY <1>1, <2>1, <2>4, CountedIsWritten DEF e
  <2>6. j \in DOMAIN file
    BY <2>1 DEF Mine
  <2> QED  BY <2>5, <2>6 DEF Written, ToSet, e
<1>2. PipelineInit => Counting
  BY CountingInit
<1>3. Counting /\ [PipelineNext]_allVars => Counting'
  BY CountingNext
<1> QED  BY <1>1, <1>2, <1>3, PTL DEF PipelineSpec, NothingLost

-----------------------------------------------------------------------------
(***************************************************************************)
(* The whole implements Aggregation.                                        *)
(***************************************************************************)

LEMMA SameOrder ==
    /\ \A u, v : Aggregate!vc_leq(u, v) <=> vc_leq(u, v)
    /\ \A u, v : Aggregate!HappensBefore(u, v) <=> AgentTheory!HappensBefore(u, v)
<1>1. \A u, i : Aggregate!At(u, i) = At(u, i) /\ AgentTheory!At(u, i) = At(u, i)
  BY DEF Aggregate!At, At, AgentTheory!At
<1>2. \A u, v : (Aggregate!vc_leq(u, v) <=> vc_leq(u, v)) /\ (AgentTheory!vc_leq(u, v) <=> vc_leq(u, v))
  BY <1>1 DEF Aggregate!vc_leq, vc_leq, AgentTheory!vc_leq
<1>3. \A u, v : Aggregate!vc_compare(u, v) = AgentTheory!vc_compare(u, v)
  BY <1>2 DEF Aggregate!vc_compare, AgentTheory!vc_compare
<1>4. \A u, v : Aggregate!HappensBefore(u, v) <=> AgentTheory!HappensBefore(u, v)
  BY <1>3 DEF Aggregate!HappensBefore, AgentTheory!HappensBefore
<1> QED  BY <1>2, <1>4

LEMMA SameEvents == Fleet!Events = AgentTheory!Events /\ Fleet!Events' = AgentTheory!Events'
BY Zenon DEF Fleet!Events, AgentTheory!Events

\* The entries made of lines are events.
LEMMA EnteredHappened ==
    ASSUME AgentTheory!ReadHappened, NEW e \in Entered
    PROVE  Event(e) \in Fleet!Events
<1>1. PICK r \in AgentTheory!Read : e = r.entry
  BY DEF Entered
<1>2. [node |-> r.entry.node, vc |-> r.entry.vc] \in AgentTheory!Events
  BY DEF AgentTheory!ReadHappened
<1> QED  BY <1>1, <1>2, SameEvents DEF Event

\* The log as events.
Stored == [k \in DOMAIN file |-> Event(file[k])]

LEMMA StoredGrows ==
    ASSUME TypeOK, NEW e \in Packets, file' = Append(file, e)
    PROVE  Stored' = Append(Stored, Event(e))
<1>1. /\ file \in Seq(Packets) /\ Len(file) \in Nat /\ DOMAIN file = 1 .. Len(file)
      /\ DOMAIN file' = 1 .. Len(file) + 1 /\ file'[Len(file) + 1] = e
      /\ \A k \in 1 .. Len(file) : file'[k] = file[k]
  BY DEF TypeOK
<1> DEFINE S == {Event(x) : x \in Packets}
<1>2. Stored \in [1 .. Len(file) -> S]
  BY <1>1 DEF Stored
<1>3. Stored \in Seq(S) /\ Len(Stored) = Len(file)
  BY <1>1, <1>2
<1>4. Event(e) \in S
  OBVIOUS
<1> HIDE DEF S
<1>5. /\ Append(Stored, Event(e)) \in [1 .. Len(file) + 1 -> S]
      /\ Append(Stored, Event(e))[Len(file) + 1] = Event(e)
      /\ \A k \in 1 .. Len(file) : Append(Stored, Event(e))[k] = Stored[k]
  <2> DEFINE t == Append(Stored, Event(e))
  <2>1. t \in Seq(S) /\ Len(t) = Len(Stored) + 1
    BY <1>3, <1>4
  <2>2. t[Len(Stored) + 1] = Event(e) /\ \A k \in 1 .. Len(Stored) : t[k] = Stored[k]
    BY <1>3, <1>4
  <2> HIDE DEF t
  <2>3. t \in [1 .. Len(file) + 1 -> S]
    BY <1>1, <1>3, <2>1
  <2> QED  BY <1>3, <2>2, <2>3 DEF t
<1>6. \A k \in 1 .. Len(file) + 1 : file'[k] \in Packets
  <2>1. file' \in Seq(Packets)
    BY <1>1
  <2> QED  BY <1>1, <2>1
<1>7. Stored' \in [1 .. Len(file) + 1 -> S]
  BY <1>1, <1>6 DEF Stored, S
<1>8. \A k \in 1 .. Len(file) + 1 : Stored'[k] = Append(Stored, Event(e))[k]
  <2>1. \A k \in 1 .. Len(file) : Stored'[k] = Stored[k]
    BY <1>1 DEF Stored
  <2>2. Stored'[Len(file) + 1] = Event(e)
    BY <1>1 DEF Stored
  <2>3. \A k \in 1 .. Len(file) + 1 : k \in 1 .. Len(file) \/ k = Len(file) + 1
    BY <1>1
  <2> QED  BY <1>5, <2>1, <2>2, <2>3
<1> QED  BY <1>5, <1>7, <1>8

\* The steps of the server that write append an entry of its list.
LEMMA FileGrows ==
    ASSUME TypeOK, FirstRun, ServerStep
    PROVE  file' = file \/ \E e \in Packets : e \in Buffered /\ file' = Append(file, e)
<1>1. ASSUME NEW k \in DOMAIN buffer, Write(buffer[k].entry)
      PROVE  file' = file \/ \E e \in Packets : e \in Buffered /\ file' = Append(file, e)
  BY <1>1, BufferElements DEF Write, Buffered, Entries
<1>2. ASSUME NEW k \in DOMAIN buffer, FlushCommit(k) PROVE Write(buffer[k].entry)
  BY <1>2 DEF FlushCommit, Commit
<1>3. CASE TimeoutForce
  <2>1. 1 \in DOMAIN buffer /\ Head(buffer) = buffer[1]
    BY <1>3, BufferElements, EmptySeq DEF TimeoutForce, HeadOverdue
  <2> QED  BY <1>1, <1>3, <2>1 DEF TimeoutForce, Commit
<1>4. ~CleanupWrite /\ ~CleanupDone
  BY DEF CleanupWrite, CleanupDone, FirstRun
<1>5. CASE \/ Run \/ ReceiveTimeout \/ FlushDone \/ TimeoutDone
           \/ \E k \in DOMAIN buffer : FlushDrop(k)
  BY <1>5 DEF Run, ReceiveTimeout, FlushDone, TimeoutDone, FlushDrop
<1> QED  BY <1>1, <1>2, <1>3, <1>4, <1>5 DEF ServerStep

Traced == Joined /\ AgentTheory!ExactInv /\ AgentTheory!ReadHappened

LEMMA TracedInit == ASSUME Unfaulted PROVE PipelineInit => Traced
<1>1. PipelineInit => AgentTheory!ReadHappened
  BY SameInit, AgentTheory!ReadHappenedInit, FleetAssumption, ConstantTypes
     DEF PipelineInit, AgentTheory!VC_MAX_NODES, VC_MAX_NODES
<1> QED  BY <1>1, JoinedInit, ExactAgentsInit DEF Traced

LEMMA TracedNext ==
    ASSUME Unfaulted, Wired, Traced, [PipelineNext]_allVars
    PROVE  Traced'
<1>1. Joined' /\ AgentTheory!ExactInv'
  BY JoinedNext, ExactAgentsNext DEF Traced
<1>2. CASE [Fleet!Next]_fleetVars
  <2>1. AgentTheory!ReadHappened'
    BY <1>2, UnfaultedAgents, SameNext, AgentTheory!ReadHappenedNext, FleetAssumption, ConstantTypes
       DEF Traced, AgentTheory!VC_MAX_NODES, VC_MAX_NODES
  <2> QED  BY <1>1, <2>1 DEF Traced
<1>3. CASE Deliver
  <2>1. AgentTheory!Read' = AgentTheory!Read /\ log' = log
    BY <1>3, DeliveryKept DEF Deliver
  <2>2. AgentTheory!Events' = AgentTheory!Events
    BY <2>1 DEF AgentTheory!Events
  <2>3. AgentTheory!ReadHappened'
    BY <2>1, <2>2 DEF Traced, AgentTheory!ReadHappened
  <2> QED  BY <1>1, <2>3 DEF Traced
<1> QED
  BY <1>2, <1>3 DEF PipelineNext, ServerWorks, TimePasses, AgentWorks, Surroundings,
                    allVars, Fleet!Next

LEMMA AggregationInit == PipelineInit => Aggregate!Init
<1> SUFFICES ASSUME PipelineInit PROVE Aggregate!Init
  OBVIOUS
<1>1. file = <<>> /\ log = [a \in Agents |-> <<>>]
  BY DEF PipelineInit, Init, Fleet!Init
<1>2. DOMAIN file = {} /\ \A a \in Agents : DOMAIN log[a] = {}
  BY <1>1
<1>3. Fleet!Events = {}
  BY <1>2 DEF Fleet!Events
<1>4. [k \in DOMAIN file |-> Event(file[k])] = <<>>
  BY <1>2
<1> QED  BY <1>3, <1>4 DEF Aggregate!Init

LEMMA AggregationNext ==
    ASSUME Unfaulted, Wired, Traced, [PipelineNext]_allVars
    PROVE  [Aggregate!Next]_(Aggregate!vars)
<1>0. /\ Joined /\ OrderInv /\ TypeOK /\ FirstRun /\ AgentTheory!TypeOK
      /\ Buffered \cup Written \subseteq Entered
  BY DEF Traced, Joined, OrderInv
<1>i. Joined' /\ Traced'
  BY TracedNext DEF Traced
<1>v. Aggregate!vars = <<Fleet!Events, Stored>> /\ Aggregate!vars' = <<Fleet!Events', Stored'>>
  BY DEF Aggregate!vars, Stored
<1>1. ASSUME UNCHANGED <<log, file>> PROVE UNCHANGED Aggregate!vars
  BY <1>1, <1>v DEF Fleet!Events, Stored
<1>2. CASE ServerWorks
  <2>1. ServerStep /\ Fleet!Events' = Fleet!Events /\ log' = log
    BY <1>2 DEF ServerWorks, fleetVars, Fleet!Events
  <2>2. CASE file' = file
    BY <1>1, <2>1, <2>2
  <2>3. ASSUME NEW e \in Packets, e \in Buffered, file' = Append(file, e)
        PROVE  Aggregate!Next
    <3>1. Event(e) \in Fleet!Events
      BY <1>0, <2>3, EnteredHappened DEF Traced
    <3>2. Stored' = Append(Stored, Event(e))
      BY <1>0, <2>3, StoredGrows
    <3>3. \A k \in DOMAIN Stored : ~vc_leq(Event(e).vc, Stored[k].vc)
      <4>1. /\ file \in Seq(Packets) /\ Len(file) \in Nat /\ DOMAIN file = 1 .. Len(file)
            /\ DOMAIN file' = 1 .. Len(file) + 1 /\ file'[Len(file) + 1] = e
            /\ \A k \in 1 .. Len(file) : file'[k] = file[k]
        BY <1>0, <2>3 DEF TypeOK
      <4>2. CausalFile' /\ InLoop' /\ base' = 0 /\ Len(file') = Len(file) + 1
        BY <1>i, <2>3, <4>1 DEF Joined, OrderInv, FirstRun, InLoop
      <4>3. \A i, j \in 1 .. Len(file) + 1 : i < j => ~vc_leq(file'[j].vc, file'[i].vc)
        BY <4>2 DEF CausalFile, Mine
      <4>4. ASSUME NEW k \in 1 .. Len(file) PROVE ~vc_leq(e.vc, file[k].vc)
        <5>1. k \in 1 .. Len(file) + 1 /\ Len(file) + 1 \in 1 .. Len(file) + 1 /\ k < Len(file) + 1
          BY <4>1
        <5>2. ~vc_leq(file'[Len(file) + 1].vc, file'[k].vc)
          BY <4>3, <5>1
        <5> QED  BY <4>1, <5>2
      <4> QED  BY <4>1, <4>4 DEF Stored, Event
    <3>4. Aggregate!Store(Event(e))
      BY <2>1, <3>1, <3>2, <3>3, SameOrder DEF Aggregate!Store, Stored
    <3> QED  BY <3>1, <3>4 DEF Aggregate!Next
  <2> QED  BY <1>0, <2>1, <2>2, <2>3, FileGrows
<1>3. CASE [Fleet!Next]_fleetVars /\ UNCHANGED <<serverVars, forced>>
  <2>1. file' = file /\ Stored' = Stored
    BY <1>3 DEF serverVars, vars, Stored
  <2>2. \/ AgentTheory!Events' = AgentTheory!Events
        \/ \E e : /\ AgentTheory!Events' = AgentTheory!Events \cup {e}
                  /\ \A x \in AgentTheory!Events :
                        x.node = e.node => AgentTheory!HappensBefore(x.vc, e.vc)
    BY <1>3, UnfaultedAgents, SameNext, AgentTheory!EventsStep, FleetAssumption, ConstantTypes
       DEF Traced, AgentTheory!VC_MAX_NODES, VC_MAX_NODES
  <2>3. CASE AgentTheory!Events' = AgentTheory!Events
    BY <1>v, <2>1, <2>3, SameEvents DEF Stored
  <2>4. ASSUME NEW e, AgentTheory!Events' = AgentTheory!Events \cup {e},
               \A x \in AgentTheory!Events :
                  x.node = e.node => AgentTheory!HappensBefore(x.vc, e.vc)
        PROVE  Aggregate!Next
    <3>1. Fleet!Events' = Fleet!Events \cup {e}
      BY <2>4, SameEvents
    <3>2. \A x \in Fleet!Events : x.node = e.node => Aggregate!HappensBefore(x.vc, e.vc)
      BY <2>4, SameEvents, SameOrder
    <3>3. Aggregate!Happen(e)
      BY <2>1, <3>1, <3>2 DEF Aggregate!Happen, Stored
    <3> QED  BY <3>1, <3>3 DEF Aggregate!Next
  <2> QED  BY <2>2, <2>3, <2>4
<1>4. CASE Deliver
  BY <1>1, <1>4 DEF Deliver, Receive
<1>5. CASE TimePasses
  BY <1>1, <1>5 DEF TimePasses, Tick, fleetVars
<1> QED  BY <1>0, <1>2, <1>3, <1>4, <1>5, StepParts

\* From the applications' files to the server's, whatever the network loses,
\* repeats and reorders, whatever the server discards or forces out and whatever
\* the disk refuses: the log takes up events that were logged, with the clocks
\* they had, each once at most and never one after an event it happened before.
THEOREM PipelineImplementsAggregation ==
    ASSUME Unfaulted, Wired
    PROVE  PipelineSpec => ImplementsAggregation
<1>1. PipelineInit => Traced /\ Aggregate!Init
  BY TracedInit, AggregationInit
<1>2. Traced /\ [PipelineNext]_allVars => Traced' /\ [Aggregate!Next]_(Aggregate!vars)
  BY TracedNext, AggregationNext
<1> QED  BY <1>1, <1>2, PTL DEF PipelineSpec, ImplementsAggregation, Aggregate!Spec

=============================================================================
