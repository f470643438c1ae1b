------------------------------ MODULE Pipeline ------------------------------
(***************************************************************************)
(* The whole of LogAgg but its query tool: the agents of Agent, the network *)
(* and the server of CausalServer.  What arrives at the server is what the  *)
(* agents sent, any number of times and in any order.                       *)
(***************************************************************************)
EXTENDS CausalServer, Bags

CONSTANTS Agents, Programs, Faults, Faulty, Radix, MaxCopies, MaxTime, MaxLines

\* As in Agent.
ASSUME FleetAssumption ==
    /\ Agents \subseteq Nat \ {0}
    /\ Programs \subseteq {"free", "gen_log"}
    /\ Faults \subseteq {"split", "long", "rotate", "restart", "blank"}
    /\ Faulty \subseteq Agents
    /\ Radix \in Nat \ {0, 1}
    /\ MaxCopies \in Nat \ {0}
    /\ MaxTime \in Nat
    /\ MaxLines \in Nat

VARIABLES program, known, log, at, offset, position, clock, reads, net,
          forced    \* has the server written an entry because it was overdue?

fleetVars == <<program, known, log, at, offset, position, clock, reads, net>>

Fleet == INSTANCE Agent

serverVars == vars

allVars == <<serverVars, fleetVars, forced>>

PipelineInit ==
    /\ Init
    /\ Fleet!Init
    /\ forced = FALSE

\* A datagram leaves the network.
Deliver ==
    \E e \in BagToSet(net) :
        /\ Receive(e)
        /\ net' = net (-) SetToBag({e})
        /\ UNCHANGED <<program, known, log, at, offset, position, clock, reads, forced>>

\* An iteration of the server's loop goes on; a forced write is noted.
ServerWorks ==
    /\ ServerStep
    /\ forced' = (forced \/ TimeoutForce)
    /\ UNCHANGED fleetVars

TimePasses ==
    /\ Tick
    /\ UNCHANGED <<fleetVars, forced>>

AgentWorks(a) ==
    /\ Fleet!AgentStep(a)
    /\ UNCHANGED <<serverVars, forced>>

Surroundings(a) ==
    /\ Fleet!AppStep(a) \/ Fleet!Down(a) \/ Fleet!Up(a)
    /\ UNCHANGED <<serverVars, forced>>

PipelineNext ==
    \/ Deliver
    \/ ServerWorks
    \/ TimePasses
    \/ \E a \in Agents : AgentWorks(a) \/ Surroundings(a)

PipelineSpec == PipelineInit /\ [][PipelineNext]_allVars

\* The agents and the server run, and the network delivers what it does not
\* lose whenever the server keeps coming back to recvfrom.
FairPipeline ==
    /\ PipelineSpec
    /\ WF_allVars(ServerWorks)
    /\ SF_allVars(Deliver)
    /\ \A a \in Agents : WF_allVars(AgentWorks(a))

-----------------------------------------------------------------------------
\* Properties.

OwnOf(e) == e.vc[Fleet!Index(e.node)]

\* Without faults, the clock an agent gives a line is the one the application
\* had: merging the prefixes and counting the lines reconstructs it, whatever
\* the polls and the writes of the files interleave to.
ClocksFollowApps == \A r \in Fleet!Read : r.entry.vc = r.line.vc

\* The log is in causal order of the applications: no line is stored after one
\* it caused, whatever the network repeats and reorders and the server forces
\* out.  README.md:100 makes it the acceptance criterion of the system.
AggregateCausal ==
    \A i, j \in Mine : i < j =>
        ~\E effect, cause \in Fleet!Read :
            /\ effect.entry = file[i]
            /\ cause.entry = file[j]
            /\ HappensBefore(cause.line.vc, effect.line.vc)

\* The same of logs whose entries are not all different: an agent that was started
\* anew counts from one again, and gives several lines one entry.  No line is stored
\* after one it caused, whichever of the lines of an entry is the one stored.
NoneInverted ==
    \A i, j \in Mine : i < j =>
        \E effect, cause \in Fleet!Read :
            /\ effect.entry = file[i]
            /\ cause.entry = file[j]
            /\ ~HappensBefore(cause.line.vc, effect.line.vc)

\* The whole, from the applications' files to the server's, implements Aggregation:
\* what the server writes are events the applications logged, with the clocks they
\* had, each once and in causal order, whichever entries are repeated, reordered,
\* discarded or forced out on the way.
Event(e) == [node |-> e.node, vc |-> e.vc]

Aggregate == INSTANCE Aggregation WITH
    happened <- Fleet!Events,
    stored   <- [k \in DOMAIN file |-> Event(file[k])]

ImplementsAggregation == Aggregate!Spec

\* Until an overdue entry is forced out, the log has no gap: the clock of a
\* written entry counts entries of each node that are in the file before it,
\* its own count being its place among them.
GapFree ==
    ~forced => \A k \in Mine :
        LET Upto(a) == Cardinality({j \in Mine : j <= k /\ file[j].node = a})
        IN  /\ OwnOf(file[k]) = Upto(file[k].node)
            /\ \A a \in Agents : file[k].vc[Fleet!Index(a)] <= Upto(a)

\* Until an overdue entry is forced out, the server discards an entry only when
\* the file has it.
NothingLost ==
    [][~forced => \A k \in DOMAIN buffer : FlushDrop(k) => buffer[k].entry \in Written]_allVars

\* If the network loses nothing, all the lines the applications log are stored
\* in the end, unless an entry had to be forced out.
EveryLineStored ==
    <>[](forced \/ \A a \in Agents :
            known[a][Fleet!Index(a)] <= Cardinality({e \in Written : e.node = a}))

=============================================================================
