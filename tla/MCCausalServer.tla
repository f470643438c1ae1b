--------------------------- MODULE MCCausalServer ---------------------------
(***************************************************************************)
(* Instances of CausalServer: histories of three nodes.                     *)
(***************************************************************************)
EXTENDS CausalServer

Clk(a, b, c) == (0 :> a) @@ (1 :> b) @@ (2 :> c)
Log(n, v, t) == [node |-> n, vc |-> v, timestamp |-> t]

\* Node 3 logs twice and node 1 logs after hearing from it; node 2 is on its
\* own.  The timestamps respect happened-before.
ThreeNodes ==
    {Log(3, Clk(0, 0, 1), 1), Log(3, Clk(0, 0, 2), 2), Log(1, Clk(1, 0, 2), 3),
     Log(2, Clk(0, 1, 0), 1), Log(2, Clk(0, 2, 0), 2)}

\* A fourth agent, started with -c 4, and a server that tracks three nodes.
WithFourthNode ==
    ThreeNodes \cup {Log(4, Clk(0, 0, 0) @@ (3 :> 1), 1), Log(4, Clk(1, 0, 2) @@ (3 :> 2), 4)}

\* The same history logged within one second by agents that read timestamps
\* with the resolution of a second.
SameSecond == {[e EXCEPT !.timestamp = 1] : e \in ThreeNodes}

=============================================================================
