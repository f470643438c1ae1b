------------------------------ MODULE LogLine ------------------------------
(***************************************************************************)
(* The first part of an entry's way: what agent_parse_line (src/src/agent.c) *)
(* makes of a line of an application's log file, or of what fgets' buffer    *)
(* holds of one.  A line is a text as in Codec, without the newline fgets    *)
(* leaves at its end: letters, digits and punctuation one by one, but for the *)
(* words a level is written with.                                           *)
(***************************************************************************)
EXTENDS Codec

CONSTANTS
    Clocks3,    \* the clocks applications put before their lines
    Bodies,     \* what they write behind: the text, its form ("level", "seconds" or
                \* "none"), the level and the message in it, its time if it is read
    NODE_ID,    \* the node_id of the agent
    LEVEL_MAX,  \* agent.c:197: length of a level sscanf reads
    LINE_MAX,   \* characters fgets reads at most, LOG_MESSAGE_MAX_LEN (agent.c:258)
    ReadTime    \* when the agent reads the line

VARIABLE line   \* the line the agent reads: its clock (or none), its body and which
                \* of the parts fgets makes of it goes on from here (0 before)

-----------------------------------------------------------------------------
Prefix3 == <<"[", "V", "C", ":">>

\* sscanf's %d,%d,%d: the three numbers t begins with, or nothing.
ThreeNumbers(t) ==
    LET s == t \o <<NUL>>
        b == NumberEnd(s, 1)
        d == NumberEnd(s, b + 1)
    IN  IF /\ s[1] \in ToSet(Digits)
           /\ s[b] = "," /\ s[b + 1] \in ToSet(Digits)
           /\ s[d] = "," /\ s[d + 1] \in ToSet(Digits)
        THEN <<Number(s, 1), Number(s, b + 1), Number(s, d + 1)>>
        ELSE <<>>

\* What an application writes (write_log of gen_log.c): a prefix with its clock and
\* the rest.
write_log(vc, body) ==
    Prefix3 \o Decimal(vc[1]) \o <<",">> \o Decimal(vc[2]) \o <<",">> \o Decimal(vc[3])
            \o <<"]", " ">> \o body

LineText(l) == IF l.vc = <<>> THEN l.body.text ELSE write_log(l.vc, l.body.text)

\* parsed_vc: the numbers of a prefix [VC:x,y,z]
ParsedVc(s) ==
    IF IsPrefix(Prefix3, s) THEN ThreeNumbers(SubSeq(s, 5, Len(s))) ELSE <<>>


\* What follows a prefix and the spaces behind it
Content(s) ==
    LET close == SelectInSeq(s, LAMBDA x : x = "]")
        behind == SubSeq(s, close + 1, Len(s))
        start == SelectInSeq(behind, LAMBDA x : x # " ")
    IN  IF ParsedVc(s) = <<>> \/ close = 0 THEN s
        ELSE IF start = 0 THEN <<>> ELSE SubSeq(behind, start, Len(behind))

-----------------------------------------------------------------------------
(* The forms of a content: level and message, or nothing. *)

NoForm == [level |-> <<>>, message |-> <<>>]

\* A level and the message behind it and its blanks, which must not be empty
Form(level, rest) ==
    LET i == SelectInSeq(rest, LAMBDA x : x \notin Space)
    IN  IF i = 0 THEN NoForm ELSE [level |-> level, message |-> SubSeq(rest, i, Len(rest))]

\* 2024-06-29 10:00:01.500 INFO message, numbers of one digit here: the one form
\* that fits without a message too.
DateTime == <<"d", "-", "d", "-", "d", " ", "d", ":", "d", ":", "d", ".", "d", " ">>

Dated(s) ==
    LET n == Len(DateTime)
    IN  IF /\ Len(s) > n
           /\ \A i \in 1 .. n :
                IF DateTime[i] = "d" THEN s[i] \in ToSet(Digits) ELSE s[i] = DateTime[i]
        THEN [Form(<<>>, SubSeq(s, n + 2, Len(s))) EXCEPT !.level = <<s[n + 1]>>]
        ELSE NoForm

\* [INFO] message
Bracketed(s) ==
    LET close == SelectInSeq(s, LAMBDA x : x = "]")
    IN  IF IsPrefix(<<"[">>, s) /\ close \in 3 .. LEVEL_MAX + 2
        THEN Form(SubSeq(s, 2, close - 1), SubSeq(s, close + 1, Len(s)))
        ELSE NoForm

\* INFO: message
WithColon(s) ==
    LET colon == SelectInSeq(s, LAMBDA x : x = ":")
    IN  IF colon \in 2 .. LEVEL_MAX + 1
        THEN Form(SubSeq(s, 1, colon - 1), SubSeq(s, colon + 1, Len(s)))
        ELSE NoForm

\* The first form that fits; the whole content otherwise
Understood(s) ==
    LET forms == <<Dated(s), Bracketed(s), WithColon(s)>>
        i == SelectInSeq(forms, LAMBDA form : form # NoForm)
    IN  IF i > 0 THEN forms[i] ELSE [level |-> <<"INFO">>, message |-> s]

\* agent_parse_line of a line that is not empty, read now: the time of a dated line
\* is the one written there (its last digit stands for it), another line has now.
agent_parse_line(s, now) ==
    LET u == Understood(Content(s))
    IN  [log_entry_init(<<>>, vc_init(0), "INFO", u.message, now)
            EXCEPT !.level = log_level_from_str(u.level),
                   !.timestamp = IF Dated(Content(s)) # NoForm
                                 THEN DigitValue[Content(s)[Len(DateTime) - 1]] ELSE @]

-----------------------------------------------------------------------------
\* The parts in which fgets reads a line, each a line of its own for the agent.  When
\* the last part fills the buffer, the newline that is left is read as an empty one.
Buffers(s) ==
    [i \in 1 .. (Len(s) + LINE_MAX - 1) \div LINE_MAX |->
        SubSeq(s, (i - 1) * LINE_MAX + 1, Min({i * LINE_MAX, Len(s)}))]

\* What an agent of node 0 of three knows when it has read s: the other nodes' part of
\* a prefix, and its own count.
Advanced(vc, s) ==
    LET heard == ParsedVc(s)
    IN  vc_increment([i \in 0 .. 2 |-> IF i # 0 /\ heard # <<>> /\ heard[i + 1] > vc[i]
                                       THEN heard[i + 1] ELSE vc[i]], 0)

\* That agent, which has read nothing before, reads the line up to part k
\* (process_new_lines): an empty line makes no entry.
ReadLogLine ==
    LET parts == Buffers(LineText(line))
    IN  /\ stage = "line"
        /\ \E k \in DOMAIN parts :
              /\ made' = [agent_parse_line(parts[k], ReadTime) EXCEPT
                              !.node_id = NODE_ID,
                              !.vc = FoldLeft(Advanced, vc_init(3), SubSeq(parts, 1, k))]
              /\ line' = [line EXCEPT !.part = k]
        /\ stage' = "made"
        /\ UNCHANGED <<text, got, mark>>

LineInit ==
    /\ stage = "line"
    /\ line \in [vc : Clocks3 \cup {<<>>}, body : Bodies, part : {0}]
    /\ made = NoEntry /\ text = <<>> /\ got = NoEntry /\ mark = "whole"

-----------------------------------------------------------------------------

=============================================================================
