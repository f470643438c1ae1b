------------------------------- MODULE Agent -------------------------------
(***************************************************************************)
(* The agents of src/src/agent.c, one per application, and what surrounds   *)
(* them: the applications that write the log files they tail, and the UDP   *)
(* network they send to.                                                    *)
(*                                                                         *)
(* A log file is a sequence of pieces.  A piece is a whole line, an empty one, *)
(* or a part of a line: the head is what is in the file while the write of    *)
(* the line is not complete, cut at any place, the prefix included; full is    *)
(* the part of a long line that fills the buffer of fgets; the tail is the      *)
(* rest of either, with no prefix.  Positions in the file count pieces.  A file  *)
(* that does not exist yet is an empty one here: check_file_changed opens it at  *)
(* offset 0 when it appears.                                                 *)
(*                                                                         *)
(* at says where agent_run's loop stands:                                   *)
(*   poll     before check_file_changed, sleeping or not                    *)
(*   read     in process_new_lines' loop, before fgets                      *)
(*   eof      after that loop                                               *)
(*   down     not running                                                   *)
(***************************************************************************)
EXTENDS LogEntry, Sequences, SequencesExt, Bags

CONSTANTS
    Agents,     \* the agents, named by the number in their node_id
    NodeCount,  \* node_count, main_agent.c's -c
    Programs,   \* what the applications can be: "free", "gen_log"
    Faults,     \* what may befall files and agents: "split", "long", "rotate",
                \* "restart", "blank"
    Faulty,     \* the agents that it befalls
    Radix,      \* of the numbers in a prefix: 10
    MaxCopies,  \* bound: how often the network delivers a datagram, at most
    MaxTime,    \* bound: the agents' wall clocks
    MaxLines    \* bound: lines the applications write, all together, empty ones too

ASSUME AgentAssumption ==
    /\ Agents \subseteq Nat \ {0}
    /\ NodeCount \in 1 .. VC_MAX_NODES
    /\ Programs \subseteq {"free", "gen_log"}
    /\ Faults \subseteq {"split", "long", "rotate", "restart", "blank"}
    /\ Faulty \subseteq Agents
    /\ Radix \in Nat \ {0, 1}
    /\ MaxCopies \in Nat \ {0}
    /\ MaxTime \in Nat
    /\ MaxLines \in Nat

VARIABLES
    program,    \* what the applications are
    known,      \* known[a]: the clock application a keeps and puts in its lines
    log,        \* log[a]: the pieces in application a's log file
    at,         \* where agent a's loop stands
    offset,     \* agent->last_offset
    position,   \* the position of the stream agent->log_fp
    clock,      \* agent->vc
    reads,      \* history: reads[a], what agent a read and the entries it made of it
    net         \* the datagrams on their way, a bag of entries

vars == <<program, known, log, at, offset, position, clock, reads, net>>

appVars == <<program, known, log>>
agentVars == <<at, offset, position, clock, reads, net>>

\* my_node_idx of process_new_lines: the number in node_id, from 0.
Index(a) == a - 1

-----------------------------------------------------------------------------
\* The applications.  Their clocks have the three components a prefix has.

Prefix == Clock(3)
Line == [node : Agents, vc : Prefix]

\* What is left of a number that is cut behind its first digits.
Shortened(n) == {m \in 1 .. n - 1 : \E k \in 1 .. n : m = n \div Radix ^ k}

\* The clock sscanf finds in a piece: in the head of a line that of its prefix, or
\* one whose last number is cut, or none; no clock and a zero one are the same
\* to process_new_lines.
Shows(part, vc) ==
    CASE part \in {"whole", "full"} -> {vc}
      [] part = "head" ->
            {vc, vc_init(3)} \cup {[vc EXCEPT ![2] = n] : n \in Shortened(vc[2])}
      [] part \in {"tail", "blank"} -> {vc_init(3)}

Parts == {"whole", "head", "full", "tail"}
Piece ==
    {x \in [line : Line, part : Parts \cup {"blank"}, shown : Prefix] :
        x.shown \in Shows(x.part, x.line.vc)}
Reading == [line : Line, part : Parts, shown : Prefix, entry : LogEntry(NodeCount)]

Init ==
    /\ program \in Programs
    /\ known = [a \in Agents |-> vc_init(3)]
    /\ log = [a \in Agents |-> <<>>]
    /\ at = [a \in Agents |-> "poll"]
    /\ offset = [a \in Agents |-> 0]
    /\ position = [a \in Agents |-> 0]
    /\ clock = [a \in Agents |-> vc_init(NodeCount)]
    /\ reads = [a \in Agents |-> <<>>]
    /\ net = EmptyBag

LastPart(a) == IF log[a] = <<>> THEN "none" ELSE log[a][Len(log[a])].part

Befalls(fault, a) == fault \in Faults /\ a \in Faulty

\* How many lines the applications have written, and the files that begin with an
\* empty one.
Logged == MapThenSumSet(LAMBDA c : known[c][Index(c)], Agents)
Blank == {c \in Agents : log[c] # <<>> /\ log[c][1].part = "blank"}

\* Is the last line of the file not complete?
Open(a) == LastPart(a) \in {"head", "full"}

\* Application a writes a line with clock vc, or the first part of one.  Bound: a
\* line of two parts that is longer than fgets' buffer is cut where the buffer is full.
WriteLog(a, vc, part) ==
    /\ Logged + Cardinality(Blank) < MaxLines
    /\ ~Open(a)
    /\ part = "head" => Befalls("split", a)
    /\ part = "full" => Befalls("long", a)
    /\ known' = [known EXCEPT ![a] = vc]
    /\ \E shown \in Shows(part, vc) :
          log' = [log EXCEPT ![a] =
                     Append(@, [line |-> [node |-> a, vc |-> vc], part |-> part, shown |-> shown])]
    /\ UNCHANGED <<program, agentVars>>

\* Any application: a has heard from b (or from nobody, b = a) and logs.
AppLog(a, b, part) ==
    /\ program = "free"
    /\ WriteLog(a, vc_increment(vc_merge(known[a], known[b]), Index(a)), part)

\* gen_log for node a: node 1 counts its own events; the others claim to have
\* heard of a fixed number of those in every cycle, and do not wait to hear.
Claimed == <<0, 2, 4>>

Generate(a) ==
    /\ program = "gen_log"
    /\ a \in DOMAIN Claimed
    /\ WriteLog(a, vc_increment([known[a] EXCEPT ![0] = Max({@, Claimed[a]})], Index(a)),
                "whole")

\* The rest of the line reaches the file.  Where the prefix is complete it may be the
\* newline alone, which fgets takes for an empty line if it does not read it with
\* the rest.
AppFinish(a, rest) ==
    /\ Open(a)
    /\ rest = "blank" => log[a][Len(log[a])].shown = log[a][Len(log[a])].line.vc
    /\ log' = [log EXCEPT ![a] =
                  Append(@, [line |-> @[Len(@)].line, part |-> rest, shown |-> vc_init(3)])]
    /\ UNCHANGED <<program, known, agentVars>>

\* An empty line.  Bound: one in all files, before any other line.
AppBlank(a) ==
    /\ Befalls("blank", a)
    /\ Logged = 0
    /\ \A c \in Agents : log[c] = <<>>
    /\ log' = [log EXCEPT ![a] =
                  Append(@, [line |-> [node |-> a, vc |-> known[a]], part |-> "blank",
                             shown |-> vc_init(3)])]
    /\ UNCHANGED <<program, known, agentVars>>

\* The log file is truncated, as log rotation does.  Bound: not before a line is
\* written.
Rotate(a) ==
    /\ Befalls("rotate", a)
    /\ Logged > 0
    /\ log[a] # <<>>
    /\ ~Open(a)
    /\ log' = [log EXCEPT ![a] = <<>>]
    /\ UNCHANGED <<program, known, agentVars>>

-----------------------------------------------------------------------------
\* Wrong: only growth is noticed.
Poll_growth(a) ==
    /\ at[a] = "poll"
    /\ Len(log[a]) > offset[a]
    /\ position' = [position EXCEPT ![a] = offset[a]]
    /\ at' = [at EXCEPT ![a] = "read"]
    /\ UNCHANGED <<appVars, offset, clock, reads, net>>

\* check_file_changed, when it finds the file changed: grown, or truncated
\* behind the offset, which begins again at 0.
Poll(a) ==
    /\ at[a] = "poll"
    /\ Len(log[a]) # offset[a]
    /\ offset' = [offset EXCEPT ![a] = IF Len(log[a]) < @ THEN 0 ELSE @]
    /\ position' = [position EXCEPT ![a] = offset'[a]]
    /\ at' = [at EXCEPT ![a] = "read"]
    /\ UNCHANGED <<appVars, clock, reads, net>>

\* Wrong: the clock of the line's prefix is not looked at.
Heard_nothing(a, vc) == clock[a]

\* What agent a knows with the clock of a prefix, of the other nodes alone.
Heard(a, vc) ==
    [i \in DOMAIN clock[a] |->
        IF i # Index(a) /\ At(vc, i) > clock[a][i] THEN vc[i] ELSE clock[a][i]]

\* Wrong: the entry gets the clock from before the increment.
Stamp_before(a, vc) == vc

\* The clock an entry gets: vc_increment comes before vc_copy.
Stamp(a, vc) == vc_increment(vc, Index(a))

\* Where fgets stops that begins with piece p: at the end of a line, of its buffer,
\* or of the file if the rest of the line is not there yet.
LineEnd(s, p) == IF s[p].part = "head" /\ p < Len(s) THEN p + 1 ELSE p

\* The clock sscanf finds in what fgets read.
Shown(s, p) == IF LineEnd(s, p) > p THEN s[p].line.vc ELSE s[p].shown

\* One iteration of process_new_lines: the agent's clock advances whatever
\* becomes of the datagram, which the network may repeat (one that is lost is
\* never delivered).  Lines with whole seconds do not match the timestamp format,
\* the entry's timestamp is the time of reading.
ReadLine(a, now, copies) ==
    LET p     == position[a] + 1
        shown == Shown(log[a], p)
        vc    == Heard(a, shown)
        e     == [node |-> a, vc |-> Stamp(a, vc), timestamp |-> now]
    IN  /\ at[a] = "read"
        /\ position[a] < Len(log[a])
        /\ log[a][p].part # "blank"
        /\ clock' = [clock EXCEPT ![a] = vc_increment(vc, Index(a))]
        /\ position' = [position EXCEPT ![a] = LineEnd(log[a], p)]
        /\ reads' = [reads EXCEPT ![a] =
                        Append(@, [line |-> log[a][p].line, part |-> log[a][p].part,
                                   shown |-> shown, entry |-> e])]
        /\ net' = net (+) [d \in {e} |-> copies]
        /\ UNCHANGED <<appVars, at, offset>>

\* An empty line makes no entry and does not count.
SkipLine(a) ==
    /\ at[a] = "read"
    /\ position[a] < Len(log[a])
    /\ log[a][position[a] + 1].part = "blank"
    /\ position' = [position EXCEPT ![a] = @ + 1]
    /\ UNCHANGED <<appVars, at, offset, clock, reads, net>>

\* fgets reports the end of the file.
ReadEnd(a) ==
    /\ at[a] = "read"
    /\ position[a] >= Len(log[a])
    /\ at' = [at EXCEPT ![a] = "eof"]
    /\ UNCHANGED <<appVars, offset, position, clock, reads, net>>

\* Wrong: the size the file has by now.
SaveOffset_size(a) ==
    /\ at[a] = "eof"
    /\ offset' = [offset EXCEPT ![a] = Len(log[a])]
    /\ at' = [at EXCEPT ![a] = "poll"]
    /\ UNCHANGED <<appVars, position, clock, reads, net>>

\* The offset becomes the position of the stream.
SaveOffset(a) ==
    /\ at[a] = "eof"
    /\ offset' = [offset EXCEPT ![a] = position[a]]
    /\ at' = [at EXCEPT ![a] = "poll"]
    /\ UNCHANGED <<appVars, position, clock, reads, net>>

-----------------------------------------------------------------------------
\* The agent ends, by a signal or a crash: nothing it knows is kept.
Down(a) ==
    /\ Befalls("restart", a)
    /\ at[a] # "down"
    /\ at' = [at EXCEPT ![a] = "down"]
    /\ UNCHANGED <<appVars, offset, position, clock, reads, net>>

\* Wrong: the end of the file is not looked for.
Up_from_start(a) ==
    /\ at[a] = "down"
    /\ at' = [at EXCEPT ![a] = "poll"]
    /\ offset' = [offset EXCEPT ![a] = 0]
    /\ position' = [position EXCEPT ![a] = 0]
    /\ clock' = [clock EXCEPT ![a] = vc_init(NodeCount)]
    /\ UNCHANGED <<appVars, reads, net>>

\* agent_init: a zero clock, and the end of the file for its beginning.
Up(a) ==
    /\ at[a] = "down"
    /\ at' = [at EXCEPT ![a] = "poll"]
    /\ offset' = [offset EXCEPT ![a] = Len(log[a])]
    /\ position' = [position EXCEPT ![a] = Len(log[a])]
    /\ clock' = [clock EXCEPT ![a] = vc_init(NodeCount)]
    /\ UNCHANGED <<appVars, reads, net>>

AppStep(a) ==
    \/ \E b \in Agents, part \in {"whole", "head", "full"} : AppLog(a, b, part)
    \/ Generate(a)
    \/ \E rest \in {"tail", "blank"} : AppFinish(a, rest)
    \/ AppBlank(a)
    \/ Rotate(a)

\* How many copies of a datagram may arrive.
Copies == 1 .. MaxCopies

\* The steps of the agent's own loop.
AgentStep(a) ==
    \/ Poll(a)
    \/ \E now \in 1 .. MaxTime, copies \in Copies : ReadLine(a, now, copies)
    \/ SkipLine(a)
    \/ ReadEnd(a)
    \/ SaveOffset(a)

Next == \E a \in Agents : AppStep(a) \/ AgentStep(a) \/ Down(a) \/ Up(a)

Spec == Init /\ [][Next]_vars

\* The agents' loops go on.
FairSpec == Spec /\ \A a \in Agents : WF_vars(AgentStep(a))

-----------------------------------------------------------------------------
\* Properties.

Read == UNION {ToSet(reads[a]) : a \in Agents}

\* The events in the applications' files: a node and a clock for every line, read
\* or not.
Events ==
    UNION {{[node |-> a, vc |-> log[a][p].line.vc] :
                p \in {q \in DOMAIN log[a] : log[a][q].part # "blank"}} : a \in Agents}

\* Every variable holds what its counterpart can hold.
TypeOK ==
    /\ program \in Programs
    /\ known \in [Agents -> Prefix]
    /\ log \in [Agents -> Seq(Piece)]
    /\ at \in [Agents -> {"poll", "read", "eof", "down"}]
    /\ offset \in [Agents -> Nat]
    /\ position \in [Agents -> Nat]
    /\ clock \in [Agents -> Clock(NodeCount)]
    /\ reads \in [Agents -> Seq(Reading)]
    /\ BagToSet(net) \subseteq {r.entry : r \in Read}

\* No text is made an entry of twice, whatever rotations, restarts and polls
\* interleave to: check_file_changed goes back to the beginning only in a file
\* that was truncated.
ReadOnce ==
    \A a \in Agents : \A i, j \in DOMAIN reads[a] :
        i < j => <<reads[a][i].line, reads[a][i].part>> # <<reads[a][j].line, reads[a][j].part>>

\* Whatever lines an agent has skipped, split or forgotten in a restart, it never
\* takes the other nodes to be further than the application knew when it wrote the
\* line, also when the line was cut inside its prefix and a number of it was read
\* short; and an entry made of a whole prefix knows of them what the application
\* knew, whatever the lines before it came to.
ForeignFollowsApp ==
    \A r \in Read : \A i \in DOMAIN r.entry.vc \ {Index(r.entry.node)} :
        /\ r.entry.vc[i] <= At(r.line.vc, i)
        /\ r.shown = r.line.vc => r.entry.vc[i] = At(r.line.vc, i)

\* Once the application pauses, a running agent has come to the end of its file,
\* wherever rotations left its offset.
CatchesUp ==
    \A a \in Agents :
        <>[](at[a] # "down" => at[a] = "poll" /\ offset[a] = Len(log[a]))

=============================================================================
