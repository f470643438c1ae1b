----------------------------- MODULE MCPipeline -----------------------------
(***************************************************************************)
(* Instances of Pipeline: two agents in a cluster of three nodes.           *)
(***************************************************************************)
EXTENDS Pipeline

CONSTANT MaxClock   \* bound: the clocks the agents reach

\* What two agents can send.
SentByTwo ==
    [node : {1, 2}, vc : [0 .. 2 -> 0 .. MaxClock], timestamp : 1 .. MaxTime]

\* Agent 2 is started when its application has logged two lines; application 1 logs
\* one.
LateStart ==
    /\ known[1][0] <= 1
    /\ at[2] = "down" => reads[2] = <<>>
    /\ \A r \in ToSet(reads[2]) : r.line.vc[1] > 2

\* Where the properties that speak of ~forced say something.
NotForced == ~forced

=============================================================================
