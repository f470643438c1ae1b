----------------------------- MODULE MCLogEntry -----------------------------
(***************************************************************************)
(* The functions of vector_clock.c and log_entry.c on small inputs: those   *)
(* of ClockAlgebra over every triple of small entries (an initial state is   *)
(* one triple), and the texts of entries that differ in one part from a common   *)
(* one, along the way of Codec, and the lines of LogLine before it.          *)
(***************************************************************************)
EXTENDS ClockAlgebra, LogLine

CONSTANTS
    MaxNodes,   \* bound: components of a clock
    MaxClock,   \* bound: value of a component
    MaxTime     \* bound: timestamps

Clocks == UNION {[0 .. n - 1 -> 0 .. MaxClock] : n \in 0 .. MaxNodes}
SmallInputs == [node : 1 .. 2, vc : Clocks, timestamp : 0 .. MaxTime]

vars == <<a, b, c, line, stage, made, text, got, mark>>

NoInput == [node |-> 1, vc |-> vc_init(1), timestamp |-> 0]
NoBody == [text |-> <<>>, form |-> "none", level |-> "INFO", message |-> <<>>, time |-> 0]
NoLine == [vc |-> <<>>, body |-> NoBody, part |-> 0]

InitAlgebra ==
    /\ AlgebraInit
    /\ stage = "none" /\ made = NoEntry /\ text = <<>> /\ got = NoEntry /\ mark = "whole"
    /\ line = NoLine

Init ==
    \/ InitAlgebra
    \/ PathInit /\ line = NoLine /\ a = NoInput /\ b = NoInput /\ c = NoInput
    \/ LineInit /\ a = NoInput /\ b = NoInput /\ c = NoInput

Path ==
    /\ (PathNext /\ UNCHANGED line) \/ ReadLogLine
    /\ UNCHANGED <<a, b, c>>

Spec == Init /\ [][Path]_vars

-----------------------------------------------------------------------------
\* Entries that differ in their message (the longest escapes included), in their
\* clock, or have metadata; one is too large to be serialised.
Messages == BoundedSeq({"a", Quote, Backslash, "\n", "}"}, 2)
    \cup {<<x, x, x>> : x \in {"a", Quote, "BEL"}} \cup {<<"BEL", ",", Quote, Backslash>>}

TextInputs ==
    {log_entry_init(<<"n", "1">>, vc_init(2), "WARN", m, 12) : m \in Messages}
    \cup {log_entry_init(<<"n", Quote, "1">>, v, "INFO", <<"a">>, 0) :
              v \in {vc_init(0), [i \in 0 .. 2 |-> 10 * i + 1], vc_init(11), vc_init(12)}}
    \cup {log_entry_add_metadata(log_entry_add_metadata(
              log_entry_init(<<"n">>, vc_init(1), l, <<"a">>, 7),
              <<"k">>, <<"a", Quote>>), <<"k">>, <<"a">>) : l \in {"DEBUG", "FATAL"}}

NeighbourLines == {log_entry_to_json(log_entry_init(<<"n", "2">>, [i \in 0 .. 1 |-> i + 3],
                                                    "ERROR", <<"b">>, 34))}

ExtensionMembers ==
    {Member(<<"x">>, v) : v \in {<<"7">>, <<"{", "}">>,
        <<"{">> \o Member(<<"y">>, <<"7">>) \o <<",">> \o Member(<<"z">>, <<"8">>) \o <<"}">>,
        <<"[", "[", "1", "]", ",", "2", "]">>}}

\* Lines of every form, with messages that look like the beginning of another, some
\* longer than the buffer of fgets; lines with whole seconds (as gen_log.c writes them,
\* and agent.c:126 says are understood); and lines of no form: a level too long, a
\* part of a prefix.
LineNode == <<"n", "1">>

PrefixClocks == {<<1, 2, 3>>, <<4, 0, 10>>}

Day == <<"2", "-", "6", "-", "9", " ", "1", ":", "0", ":", "1">>

Letters(n) == [i \in 1 .. n |-> <<"a", "b", "c", "d", "e">>[(i % 5) + 1]]

LevelMessages == {<<"a">>, <<"a", ":", "b">>, <<"a", "]", Quote>>, Letters(16), Letters(34)}

LevelLines ==
    UNION {{[text |-> Day \o <<".", "5", " ", l, " ", " ">> \o m, form |-> "level",
             level |-> l, message |-> m, time |-> 5],
            [text |-> <<"[", l, "]", " ">> \o m, form |-> "level",
             level |-> l, message |-> m, time |-> 0],
            [text |-> <<l, ":", " ">> \o m, form |-> "level",
             level |-> l, message |-> m, time |-> 0]} :
           l \in {"WARN", "FATAL"}, m \in LevelMessages}

SecondsLines ==
    {[text |-> Day \o <<" ", "WARN", " ", " ">> \o m, form |-> "seconds", level |-> "WARN",
      message |-> <<"0", ":", "1", " ", "WARN", " ", " ">> \o m, time |-> 0] :
        m \in {<<"a">>, Letters(34)}}

OtherLines ==
    {[NoBody EXCEPT !.text = t] :
        t \in {<<>>, <<" ", "a">>, <<":", "a">>, <<"[", "WARN", "]", " ">>, <<"ERROR", ":">>,
               <<"[", "a", ":", "b">>,
               Prefix3 \o <<"1", ",", "2", "]", " ", "a">>,
               Prefix3 \o <<"1", ",", "2", ",", "x", "]", " ", "a">>}
              \cup {[i \in 1 .. n |-> IF i = n - 1 THEN ":" ELSE "a"] : n \in {17, 18}}}

LineBodies == LevelLines \cup SecondsLines \cup OtherLines

=============================================================================
