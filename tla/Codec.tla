------------------------------- MODULE Codec -------------------------------
(***************************************************************************)
(* The JSON text of a log entry (src/src/log_entry.c, src/src/vector_clock.c)*)
(* and its way: an agent serialises an entry into a datagram, the server    *)
(* parses it, serialises it again into a line of its file, and the store    *)
(* parses the line.  A line may be cut short by a full disk or a crash, and  *)
(* the next start of the server then goes on writing behind it.              *)
(*                                                                         *)
(* A text is a sequence of characters; a word (a key, a level) is one        *)
(* character here.  A C string is a text, NUL and what lies behind it in     *)
(* memory, and a pointer into it is a position.  An entry has its node_id and *)
(* message as texts; its clock is a function as in VectorClock.              *)
(***************************************************************************)
EXTENDS VectorClock, SequencesExt

CONSTANTS
    NODE_ID_MAX_LEN,        \* log_entry.h:31
    LOG_MESSAGE_MAX_LEN,    \* log_entry.h:34
    METADATA_MAX_COUNT,     \* log_entry.h:37
    LOGAGG_MAX_ENTRY_SIZE,  \* logagg.h:29
    KEY_SIZE,               \* log_entry.c:296: size of the key buffer
    KEY_MAX, VALUE_MAX,     \* log_entry.h:39: characters of a metadata pair
    Made,                   \* the entries agents send
    Neighbours,             \* lines that may follow a cut one, or lie behind it
    Extensions              \* members another version of the agent adds

ASSUME CodecBounds ==
    \A n \in {NODE_ID_MAX_LEN, LOG_MESSAGE_MAX_LEN, LOGAGG_MAX_ENTRY_SIZE, KEY_SIZE} :
        n \in Nat \ {0}

NUL == "NUL"
Quote == "\""
Backslash == "\\"
Space == {" ", "\t", "\n", "\r"}
Unprintable == {"\t", "\n", "\r", "BEL"}
Digits == <<"0", "1", "2", "3", "4", "5", "6", "7", "8", "9">>
DigitValue == [t \in ToSet(Digits) |-> CHOOSE d \in 0 .. 9 : Digits[d + 1] = t]

CString(text, behind) == text \o <<NUL>> \o behind \o <<NUL>>

-----------------------------------------------------------------------------
(* Making entries. *)

\* strncpy and the final NUL
Truncate(text, max) == SubSeq(text, 1, Min({max, Len(text)}))

\* An entry after memset.
NoEntry == [node_id |-> <<>>, vc |-> [i \in {} |-> 0], timestamp |-> 0, level |-> "DEBUG",
            message |-> <<>>, metadata |-> <<>>]

\* log_entry_init, with the current time given
log_entry_init(node_id, vc, level, message, now) ==
    [node_id |-> Truncate(node_id, NODE_ID_MAX_LEN), vc |-> vc, timestamp |-> now,
     level |-> level, message |-> Truncate(message, LOG_MESSAGE_MAX_LEN), metadata |-> <<>>]

\* log_entry_add_metadata: an entry that has all it can have stays as it is.
log_entry_add_metadata(e, key, value) ==
    IF Len(e.metadata) >= METADATA_MAX_COUNT THEN e
    ELSE [e EXCEPT !.metadata = Append(@, [key |-> Truncate(key, KEY_MAX),
                                           value |-> Truncate(value, VALUE_MAX)])]

-----------------------------------------------------------------------------
(* Serialising. *)

Quoted(text) == <<Quote>> \o text \o <<Quote>>

\* fields separated by commas
Commas(fields) ==
    LET joined[k \in 0 .. Len(fields)] ==
            IF k = 0 THEN <<>>
            ELSE IF k = 1 THEN fields[1]
            ELSE joined[k - 1] \o <<",">> \o fields[k]
    IN  joined[Len(fields)]

\* %llu
Decimal(n) ==
    LET digits[m \in 0 .. n] ==
            IF m < 10 THEN <<Digits[m + 1]>>
            ELSE Append(digits[m \div 10], Digits[(m % 10) + 1])
    IN  digits[n]

\* The characters json_escape writes in two, and the second of them.
Escape == [c \in {Quote, Backslash, "\n", "\t"} |->
              CASE c = "\n" -> "n" [] c = "\t" -> "t" [] OTHER -> c]

\* A wrong treatment of a backslash: it is written as it is.
Escaped_no_backslash(c) ==
    IF c \in DOMAIN Escape \ {Backslash} THEN <<Backslash, Escape[c]>>
    ELSE IF c \in Unprintable THEN <<>>
    ELSE <<c>>

\* What is written for one character; one that cannot be printed is left out.
Escaped(c) ==
    IF c \in DOMAIN Escape THEN <<Backslash, Escape[c]>>
    ELSE IF c \in Unprintable THEN <<>>
    ELSE <<c>>

\* json_escape stops when two characters may not fit.
json_escape(src, dstlen) ==
    LET dst[k \in 0 .. Len(src)] ==
            IF k = 0 THEN <<>>
            ELSE IF Len(dst[k - 1]) >= dstlen - 2 THEN dst[k - 1]
            ELSE dst[k - 1] \o Escaped(src[k])
    IN  dst[Len(src)]

\* The characters of a text that can be printed or have an escape
Printed(text) ==
    LET kept[k \in 0 .. Len(text)] ==
            IF k = 0 THEN <<>>
            ELSE IF text[k] \in Unprintable \ DOMAIN Escape THEN kept[k - 1]
            ELSE Append(kept[k - 1], text[k])
    IN  kept[Len(text)]

Member(key, value) == Quoted(key) \o <<":">> \o value

\* vc_to_json without node names, the form every caller uses.
vc_to_json(vc) ==
    <<"{">> \o Commas([i \in 1 .. Cardinality(DOMAIN vc) |->
                          Member(<<"node-">> \o Decimal(i - 1), Decimal(vc[i - 1]))])
            \o <<"}">>

\* The fields of an entry in the order log_entry_to_json writes them.
Members(e) ==
    LET Esc(text) == Quoted(json_escape(text, 2 * LOG_MESSAGE_MAX_LEN + 1))
        Pair(p) == Esc(p.key) \o <<":">> \o Esc(p.value)
    IN  <<Member(<<"node_id">>, Esc(e.node_id)),
          Member(<<"vector_clock">>, vc_to_json(e.vc)),
          Member(<<"timestamp">>, Decimal(e.timestamp)),
          Member(<<"level">>, Quoted(<<e.level>>)),
          Member(<<"message">>, Esc(e.message))>>
        \o IF e.metadata = <<>> THEN <<>>
           ELSE <<Member(<<"metadata">>,
                         <<"{">> \o Commas([i \in DOMAIN e.metadata |-> Pair(e.metadata[i])])
                                 \o <<"}">>)>>

\* log_entry_to_json: nothing when a piece and the final NUL do not fit.
log_entry_to_json(e) ==
    LET text == <<"{">> \o Commas(Members(e)) \o <<"}">>
    IN  IF Len(text) < LOGAGG_MAX_ENTRY_SIZE THEN text ELSE <<>>

-----------------------------------------------------------------------------
(* Parsing: a parser takes a C string s and a position p in it, and gives     *)
(* whether it succeeded, what it read, v, and where it stopped.  A loop is a   *)
(* function of the rounds made; one that has ended stays as it is.             *)

Done(v, p) == [ok |-> TRUE, v |-> v, p |-> p]

Failed == [ok |-> FALSE, v |-> <<>>, p |-> 0]

\* A parser after one that gave r: it goes on with what r read, where it stopped.
Then(r, Next(_, _)) == IF r.ok THEN Next(r.v, r.p) ELSE Failed

\* The first position from p on whose character is not in S, as NUL is not.
After(s, p, S) ==
    CHOOSE q \in p .. Len(s) : s[q] \notin S /\ \A j \in p .. q - 1 : s[j] \in S

skip_ws(s, p) == After(s, p, Space)

\* What a character behind a backslash means.  parse_json_string of vector_clock.c
\* knows those json_escape writes; parse_str takes any, NUL included.
Meaning(c) == CASE c = "n" -> "\n" [] c = "t" -> "\t" [] c = "r" -> "\r" [] OTHER -> c

\* One more character of a string, if there is one.
Character(s, r, strict) ==
    LET c == s[r.p]
        d == s[r.p + 1]
    IN  IF ~r.ok \/ c \in {Quote, NUL} THEN r
        ELSE IF c # Backslash THEN Done(Append(r.v, c), r.p + 1)
        ELSE IF strict /\ d \notin {Escape[e] : e \in DOMAIN Escape} THEN Failed
        ELSE IF r.p + 1 = Len(s) THEN Failed  \* nothing behind the NUL closes the string
        ELSE Done(Append(r.v, Meaning(d)), r.p + 2)

\* The characters of a string, room of them at most
Characters(s, p, room, strict) ==
    LET read[k \in 0 .. room] ==
            IF k = 0 THEN Done(<<>>, p) ELSE Character(s, read[k - 1], strict)
    IN  read[room]

\* A wrong end of a string: NUL ends it too.
StringEnd_unclosed(c) == c \in {Quote, NUL}

\* After its characters a string must end in a quote.
StringEnd(c) == c = Quote

UntilNul(v) ==
    LET ends == {i \in DOMAIN v : v[i] = NUL}
    IN  IF ends = {} THEN v ELSE SubSeq(v, 1, Min(ends) - 1)

\* parse_str and parse_json_string, whose strictness differs.  What they read
\* ends at a NUL for everyone who uses it.
ParseString(s, p, size, strict) ==
    IF s[skip_ws(s, p)] # Quote THEN Failed
    ELSE Then(Characters(s, skip_ws(s, p) + 1, size - 1, strict),
              LAMBDA v, q : IF StringEnd(s[q]) THEN Done(UntilNul(v), q + 1) ELSE Failed)

parse_str(s, p, size) == ParseString(s, p, size, FALSE)
parse_json_string(s, p, size) == ParseString(s, p, size, TRUE)

\* The digits from p on and their value: the loop of both parsers of numbers
NumberEnd(s, p) == After(s, p, ToSet(Digits))

Number(s, p) ==
    LET value[k \in 0 .. NumberEnd(s, p) - p] ==
            IF k = 0 THEN 0 ELSE value[k - 1] * 10 + DigitValue[s[p + k - 1]]
    IN  value[NumberEnd(s, p) - p]

parse_num(s, p) ==
    LET q == skip_ws(s, p) IN Done(Number(s, q), NumberEnd(s, q))

\* parse_json_number wants a digit.
parse_json_number(s, p) ==
    IF s[skip_ws(s, p)] \in ToSet(Digits) THEN parse_num(s, p) ELSE Failed

\* atoi
atoi(text) == Number(text \o <<NUL>>, 1)

SkipComma(s, p) ==
    LET q == skip_ws(s, p) IN IF s[q] = "," THEN skip_ws(s, q + 1) ELSE q

\* A key and its colon
ParseKey(s, p, strict) ==
    Then(ParseString(s, p, KEY_SIZE, strict),
         LAMBDA key, q : IF s[skip_ws(s, q)] = ":"
                         THEN Done(key, skip_ws(s, skip_ws(s, q) + 1)) ELSE Failed)

\* One more member of a clock, if there is one
ClockMember(s, r) ==
    IF ~r.ok \/ s[r.p] = "}" THEN r
    ELSE IF s[r.p] = NUL THEN Failed
    ELSE Then(ParseKey(s, r.p, TRUE), LAMBDA key, q :
           Then(parse_json_number(s, q), LAMBDA number, t :
             Done(Append(r.v, <<key, number>>), SkipComma(s, t))))

\* The members of a clock, as many as there can be, and its brace
ClockMembers(s, p) ==
    LET read[k \in 0 .. VC_MAX_NODES] ==
            IF k = 0 THEN Done(<<>>, p) ELSE ClockMember(s, read[k - 1])
    IN  Then(read[VC_MAX_NODES],
             LAMBDA v, q : IF s[q] = "}" THEN Done(v, q + 1) ELSE Failed)

\* The clock has as many components as members were found; "node-i" sets
\* component i if there is one.
Components(old, members) ==
    LET Sets(i) == {k \in DOMAIN members : /\ members[k][1] # <<>>
                                           /\ members[k][1][1] = "node-"
                                           /\ atoi(Tail(members[k][1])) = i}
    IN  [i \in 0 .. Len(members) - 1 |->
            IF Sets(i) = {} THEN At(old, i) ELSE members[Max(Sets(i))][2]]

\* vc_from_json, which gives a clock here; a text that cannot be parsed leaves old
\* alone, and log_entry_from_json does not ask.
vc_from_json(old, text) ==
    LET s == CString(text, <<>>)
        p == skip_ws(s, 1)
        r == IF s[p] = "{" THEN ClockMembers(s, skip_ws(s, p + 1)) ELSE Failed
    IN  IF r.ok THEN Components(old, r.v) ELSE old

\* How many brackets of u are open
Depth(u, open, close) ==
    Cardinality({i \in DOMAIN u : u[i] = open}) - Cardinality({i \in DOMAIN u : u[i] = close})

\* What follows the bracket at p and all in it
SkipNested(s, p, open, close) ==
    LET Ends(q) == s[q + 1] = NUL \/ Depth(SubSeq(s, p, q), open, close) <= 0
    IN  1 + CHOOSE q \in p .. Len(s) - 1 : Ends(q) /\ \A j \in p .. q - 1 : ~Ends(j)

SkipObject(s, p) == IF s[p] = "{" THEN SkipNested(s, p, "{", "}") ELSE p

\* What follows a number or a word
SkipWord(s, p) ==
    CHOOSE q \in p .. Len(s) : /\ s[q] \in {NUL, ",", "}"}
                               /\ \A j \in p .. q - 1 : s[j] \notin {NUL, ",", "}"}

\* A wrong treatment of unknown fields: brackets are taken for plain values.
SkipUnknown_flat(s, p) == IF s[p] = Quote THEN p + 1 ELSE SkipWord(s, p)

\* An unknown field: of a string only the opening quote is skipped.
SkipUnknown(s, p) ==
    CASE s[p] = Quote -> p + 1
      [] s[p] = "{" -> SkipObject(s, p)
      [] s[p] = "[" -> SkipNested(s, p, "[", "]")
      [] OTHER -> SkipWord(s, p)

\* log_level_from_str, whatever the case
log_level_from_str(text) ==
    CASE text \in {<<"DEBUG">>, <<"debug">>} -> "DEBUG"
      [] text \in {<<"WARN">>, <<"warn">>}   -> "WARN"
      [] text \in {<<"ERROR">>, <<"error">>} -> "ERROR"
      [] text \in {<<"FATAL">>, <<"fatal">>} -> "FATAL"
      [] OTHER -> "INFO"

\* The value of one field, put into the entry read so far
ParseValue(key, s, p, e) ==
    LET object == SkipObject(s, p)
    IN  CASE key = <<"node_id">> ->
                Then(parse_str(s, p, NODE_ID_MAX_LEN + 1),
                     LAMBDA id, q : Done([e EXCEPT !.node_id = id], q))
          [] key = <<"vector_clock">> ->
                Done([e EXCEPT !.vc = vc_from_json(@, SubSeq(s, p, object - 1))], object)
          [] key = <<"timestamp">> ->
                Then(parse_num(s, p), LAMBDA n, q : Done([e EXCEPT !.timestamp = n], q))
          [] key = <<"level">> ->
                Then(parse_str(s, p, 2 * LOG_MESSAGE_MAX_LEN), LAMBDA level, q :
                     Done([e EXCEPT !.level = log_level_from_str(level)], q))
          [] key = <<"message">> ->
                Then(parse_str(s, p, LOG_MESSAGE_MAX_LEN + 1),
                     LAMBDA m, q : Done([e EXCEPT !.message = m], q))
          [] key = <<"metadata">> -> Done(e, object)
          [] OTHER -> Done(e, SkipUnknown(s, p))

\* One more field of an entry, if there is one
ParseMember(s, r) ==
    IF ~r.ok \/ s[r.p] \in {NUL, "}"} THEN r
    ELSE Then(ParseKey(s, r.p, FALSE), LAMBDA key, q :
           Then(ParseValue(key, s, q, r.v), LAMBDA e, t : Done(e, SkipComma(s, t))))

\* The fields from p on: each has a colon, and the round that fails may have none.
ParseMembers(s, p, e) ==
    LET rounds == Cardinality({i \in DOMAIN s : s[i] = ":"}) + 1
        read[k \in 0 .. rounds] ==
            IF k = 0 THEN Done(e, p) ELSE ParseMember(s, read[k - 1])
    IN  read[rounds]

\* log_entry_from_json: the members of an object; its brace is not asked for.
log_entry_from_json(s) ==
    LET p == skip_ws(s, 1)
    IN  IF s[p] = "{" THEN ParseMembers(s, skip_ws(s, p + 1), NoEntry) ELSE Failed

-----------------------------------------------------------------------------
(* The entries and texts the constants stand for. *)

\* A C string, and one that SkipObject cannot take for the end of an object
String == Seq(STRING \ {NUL})
Braceless == Seq(STRING \ {NUL, "{", "}"})

\* The entries whose clock has n components
Entry(n) == [node_id : String, vc : Clock(n), timestamp : Nat,
             level : {"DEBUG", "INFO", "WARN", "ERROR", "FATAL"},
             message : String, metadata : Seq([key : Braceless, value : Braceless])]

\* Entries whose parts fit their buffers.  A node_id is printable, as a host's name is.
WellMade(e) ==
    /\ \E n \in 0 .. VC_MAX_NODES : e \in Entry(n)
    /\ Len(e.node_id) <= NODE_ID_MAX_LEN /\ Printed(e.node_id) = e.node_id
    /\ Len(e.message) <= LOG_MESSAGE_MAX_LEN

\* u begins with a bracket that closes at its end.
Enclosed(u, open, close) ==
    /\ u[1] = open /\ Depth(u, open, close) <= 0
    /\ \A k \in 1 .. Len(u) - 1 : Depth(SubSeq(u, 1, k), open, close) > 0

\* A number or a word
Flat(u) ==
    /\ u[1] \notin Space \cup {Quote, "{", "["}
    /\ \A i \in DOMAIN u : u[i] \notin {",", "}"}

\* A member this version does not know, whose value is a number, a word, an object or an
\* array: of a string SkipUnknown skips the opening quote only.
UnknownMember(x) ==
    LET value == SubSeq(x, 5, Len(x))
    IN  /\ x[2] \in STRING \ {Quote, NUL, Backslash, "node_id", "vector_clock", "timestamp",
                             "level", "message", "metadata"}
        /\ value \in String /\ value # <<>>
        /\ x = Member(<<x[2]>>, value)
        /\ Flat(value) \/ Enclosed(value, "{", "}") \/ Enclosed(value, "[", "]")

ASSUME EntriesWellMade == \A e \in Made : WellMade(e)

ASSUME NeighbourTexts == Neighbours \subseteq Seq(STRING)

ASSUME ExtensionsUnknown == \A x \in Extensions : UnknownMember(x)

\* log_entry.h:31 and 34, and a key buffer with room for "node-" and two digits
ASSUME BufferSizes == NODE_ID_MAX_LEN <= LOG_MESSAGE_MAX_LEN /\ KEY_SIZE >= 4

-----------------------------------------------------------------------------
(* The way of one entry. *)

VARIABLES
    stage,   \* "none", "made", "sent", "received", "written", "loaded" or "refused"
    made,    \* the entry the agent made
    text,    \* the datagram, then the line of the file
    got,     \* the entry the last reader has
    mark     \* what befell the text: "whole", "extended" or "cut"

pathVars == <<stage, made, text, got, mark>>

\* What a buffer of LOGAGG_MAX_ENTRY_SIZE takes of a text
Piece(t) == Truncate(t, LOGAGG_MAX_ENTRY_SIZE - 1)

\* agent_send_log: an entry that cannot be serialised is not sent.
Send ==
    /\ stage = "made"
    /\ text' = log_entry_to_json(made)
    /\ stage' = IF text' = <<>> THEN "refused" ELSE "sent"
    /\ UNCHANGED <<made, got, mark>>

\* The agent is of a version that writes a member more.
Extend ==
    /\ stage = "sent" /\ mark = "whole"
    /\ \E x \in Extensions : text' = <<"{">> \o x \o <<",">> \o Tail(text)
    /\ Len(text') < LOGAGG_MAX_ENTRY_SIZE
    /\ mark' = "extended"
    /\ UNCHANGED <<stage, made, got>>

\* A reader takes the entry out of a C string.
Parse(string, next) ==
    \E r \in {log_entry_from_json(string)} :
        /\ stage' = IF r.ok THEN next ELSE "refused"
        /\ got' = IF r.ok THEN r.v ELSE got
        /\ UNCHANGED <<made, text, mark>>

\* server_run: the datagram goes into a buffer and is parsed.
ReceiveText ==
    /\ stage = "sent"
    /\ Parse(CString(Piece(text), <<>>), "received")

\* server_write_entry_to_file
WriteLine ==
    /\ stage = "received"
    /\ text' = log_entry_to_json(got)
    /\ stage' = IF text' = <<>> THEN "refused" ELSE "written"
    /\ UNCHANGED <<made, got, mark>>

\* The write stops short; nothing follows, or the line of a later write does.
\* Bound: what comes of it fits the reader's buffer.
CutShort ==
    /\ stage = "written" /\ mark # "cut"
    /\ \E k \in 1 .. Len(text), next \in {<<>>} \cup Neighbours :
            text' = SubSeq(text, 1, k) \o next
    /\ Len(text') < LOGAGG_MAX_ENTRY_SIZE
    /\ mark' = "cut"
    /\ UNCHANGED <<stage, made, got>>

\* store_load_file reads the line over one that was longer.
LoadLine ==
    /\ stage = "written"
    /\ \E behind \in {<<>>} \cup Neighbours : Parse(CString(Piece(text), behind), "loaded")

PathInit ==
    /\ stage = "made" /\ made \in Made
    /\ text = <<>> /\ got = NoEntry /\ mark = "whole"

PathNext == Send \/ Extend \/ ReceiveText \/ WriteLine \/ CutShort \/ LoadLine

PathSpec == PathInit /\ [][PathNext]_pathVars

-----------------------------------------------------------------------------
\* What may be lost of an entry on its way: characters that cannot be printed,
\* and the metadata, which nobody reads.
Plain(e) == [e EXCEPT !.metadata = <<>>, !.message = Printed(@)]

\* Whatever an entry's message, clock, level and metadata (of a brace in it see
\* Braceless), and whether or not the agent writes a number, an object or an array
\* more (log_entry.c:354), the server and after it the store have the entry that
\* was sent.
EntrySurvives ==
    mark # "cut" /\ stage \in {"received", "written", "loaded"} => got = Plain(made)

\* No reader refuses what a writer has written: escaping, buffer sizes and parsing
\* fit each other up to the largest entry; only one that is too large to be
\* serialised at all is not sent (agent.c:99).
RefusedOnlyIfTooLarge ==
    mark # "cut" /\ stage = "refused" => log_entry_to_json(made) = <<>>

\* A line that was cut, alone or with the next line behind it, gives no entry or
\* one whose parts are all of the entry that was cut or absent: never a shorter
\* message, another's message or another's clock.  A line cut behind a backslash
\* is left out: there parse_str reads on behind the NUL (log_entry.c:255).
CutNeverMixes ==
    mark = "cut" /\ stage = "loaded" /\ Last(text) # Backslash =>
        /\ got.node_id \in {<<>>, made.node_id}
        /\ got.vc \in {NoEntry.vc, made.vc}
        /\ got.message \in {<<>>, Plain(made).message}
        /\ got.level \in {NoEntry.level, made.level}
        /\ IsPrefix(IF got.timestamp = 0 THEN <<>> ELSE Decimal(got.timestamp),
                    Decimal(made.timestamp))

=============================================================================
