------------------------------ MODULE LogStore ------------------------------
(***************************************************************************)
(* The query tool: src/src/store.c as src/src/main_query.c drives it, from  *)
(* the directory of .jsonl files to the answer and the graph of causes.     *)
(*                                                                         *)
(* at says where main stands:                                               *)
(*   start    before it reads its arguments                                 *)
(*   dir      in store_load_dir's loop                                      *)
(*   load     in store_load_file's loop                                     *)
(*   index, sort, query, export    before these calls                       *)
(*   exported   after store_export_dot                                      *)
(*   done     ending without it                                             *)
(*                                                                         *)
(* Messages and queries are sequences of characters; a character can stand  *)
(* for a run of them.  Case, which every comparison ignores, is left out.   *)
(* node is the rank of the node_id among the names there are, in strcmp's   *)
(* order; Names[node] is the name.                                          *)
(***************************************************************************)
EXTENDS LogEntry, Sequences, SequencesExt

CONSTANTS
    Lines,          \* the entries a line of a file can hold
    Malformed,      \* a line log_entry_from_json rejects
    Files,          \* the .jsonl files of the directory
    Contents,       \* what a file can be: its form, its lines and its bytes read as text
    Names,          \* the node_ids: is it "node-X", atoi(X), its characters
    Alnum,          \* the characters isalnum accepts
    Separators,     \* what parts the words of a message, blanks included
    MAX_TERM_LEN,   \* the characters of a term, its end included
    QUERY_MAX,      \* the characters of a query that q_copy holds
    Keywords,       \* the queries -k can be given
    CommandLines,   \* the arguments main can be given
    InitCapacity,   \* STORE_INIT_CAPACITY
    MaxFailures     \* bound: allocations that fail while loading

\* The entry log_entry_from_json makes of an object without members, closed or not;
\* its node_id is the empty name, the least of all.
Zero == [node |-> 0, vc |-> <<>>, timestamp |-> 0, level |-> "DEBUG", message |-> <<>>]

\* What a line and a file can hold, and what main's arguments can be: what strtol
\* makes of them.  The bytes of a container are sizes, distances and pieces of
\* lines: read as text, a "{" with an end of string behind it (a size or a distance
\* of 123) is the one line of them that is an entry.
ASSUME StoreAssumption ==
    /\ \A e \in Lines : /\ e.node \in Nat
                        /\ e.node \in DOMAIN Names
                        /\ e.timestamp \in Nat
                        /\ \E n \in 0 .. VC_MAX_NODES : e.vc \in Clock(n)
                        /\ e.message \in Seq(ToSet(e.message))
    /\ Zero \in Lines
    /\ \A k \in DOMAIN Names : /\ Names[k].numbered \in BOOLEAN
                               /\ Names[k].number \in Int
                               /\ Names[k].chars \in Seq(-128 .. 127)
    /\ Malformed \notin Lines
    /\ IsFiniteSet(Files)
    /\ \A c \in Contents : /\ c.form \in {"plain", "lz4", "cut"}
                           /\ c.lines \in Seq(Lines \cup {Malformed})
                           /\ c.text \in Seq({"{", "other"})
    /\ " " \in Separators
    /\ MAX_TERM_LEN \in Nat \ {0}
    /\ QUERY_MAX \in Nat
    /\ \A query \in Keywords : query \in Seq(ToSet(query))
    /\ \A args \in CommandLines :
            /\ args \in Seq(ToSet(args))
            /\ \A a \in ToSet(args) :
                    /\ a.opt = "-k" /\ a.arg # <<>> => a.arg[1] \in Keywords
                    /\ a.opt = "-c" /\ a.arg # <<>> => a.arg[1] \in Int
                    /\ a.opt = "-n" /\ a.arg # <<>> => a.arg[1] \in Nat
    /\ InitCapacity \in Nat \ {0}
    /\ MaxFailures \in Nat

VARIABLES
    dir,        \* dir[f]: the form of file f and its lines
    at,         \* where main stands
    unread,     \* the files readdir has not returned yet
    rest,       \* the lines of the current file fgets has not returned yet
    loaded,     \* what store_load_dir returns
    entries,    \* store->entries
    capacity,   \* store->capacity
    keys,       \* store->dedup_hash
    index,      \* store->index: the posting list of every term
    opts,       \* what main read from its arguments
    results,    \* the answer
    stats,      \* the counts --stats prints
    edges,      \* the edges of the exported graph, pairs of positions
    clusters,   \* clusters[i]: the node of the cluster event i is drawn in
    failures    \* history: how many allocations failed

vars == <<dir, at, unread, rest, loaded, entries, capacity, keys, index, opts,
          results, stats, edges, clusters, failures>>

loadVars == <<unread, rest, loaded, capacity, keys, failures>>
outVars == <<results, stats, edges, clusters>>

-----------------------------------------------------------------------------
\* The arguments: a sequence of options, each with the argument behind it if there
\* is one.

Defaults ==
    [dir |-> FALSE, keyword |-> <<>>, all |-> TRUE, node |-> -1, level |-> "any",
     from |-> 0, to |-> 0, max |-> 100, sort |-> "causal", stats |-> FALSE,
     dot |-> FALSE, exit |-> FALSE]

WithArgument == {"-d", "-k", "-n", "-l", "-s", "-e", "-c", "--sort"}

\* One round of main's loop; after an option that ends the program (-h, one it does
\* not know) none is read.
ReadOption(o, a) ==
    LET v == a.arg[1]
    IN  IF o.exit \/ (a.opt \in WithArgument /\ a.arg = <<>>)
        THEN [o EXCEPT !.exit = TRUE]
        ELSE
          CASE a.opt = "-d" -> [o EXCEPT !.dir = TRUE]
          [] a.opt = "-k" -> [o EXCEPT !.keyword = v]
          [] a.opt = "-n" -> [o EXCEPT !.node = v]
          [] a.opt = "-l" -> [o EXCEPT !.level = v]
          [] a.opt = "-s" -> [o EXCEPT !.from = v]
          [] a.opt = "-e" -> [o EXCEPT !.to = v]
          [] a.opt = "-c" -> [o EXCEPT !.max = IF v <= 0 THEN Defaults.max ELSE v]
          [] a.opt = "--sort" /\ v \in {"causal", "time", "node"} -> [o EXCEPT !.sort = v]
          [] a.opt = "--stats" -> [o EXCEPT !.stats = TRUE]
          [] a.opt = "--or" -> [o EXCEPT !.all = FALSE]
          [] a.opt = "--dot" -> [o EXCEPT !.dot = @ \/ a.arg # <<>>]
          [] OTHER -> [o EXCEPT !.exit = TRUE]

\* What main makes of its arguments; without -d it ends.
ReadOptions(args) ==
    LET o == FoldLeft(ReadOption, Defaults, args)
    IN  [o EXCEPT !.exit = @ \/ ~o.dir]

Init ==
    /\ dir \in [Files -> Contents]
    /\ at = "start"
    /\ unread = Files
    /\ rest = <<>>
    /\ loaded = 0
    /\ entries = <<>>
    /\ capacity = InitCapacity
    /\ keys = {}
    /\ index = <<>>
    /\ opts = Defaults
    /\ results = <<>>
    /\ stats = <<>>
    /\ edges = {}
    /\ clusters = <<>>
    /\ failures = 0

-----------------------------------------------------------------------------
\* main reads its arguments.  What they say matters only once the store is loaded
\* and is read in Sort.
Begin ==
    /\ at = "start"
    /\ \E args \in CommandLines :
            at' = IF ReadOptions(args).exit THEN "done" ELSE "dir"
    /\ UNCHANGED <<dir, entries, index, opts, outVars, loadVars>>

\* Loading.

\* store_save_compressed: a container of the lines; text is what its bytes are.
store_save_compressed(lines, text) == [form |-> "lz4", lines |-> lines, text |-> text]

\* Wrong: a container of which a part is missing gives the lines it has.
FileLines_partial(c) == c.lines

\* What store_load_file reads of a file.  store_load_compressed gives up on a plain
\* text, whose first bytes are no sizes of a container, and on a container of which
\* a part is missing; the latter is then read as a text.
FileLines(c) ==
    IF c.form \in {"plain", "lz4"} THEN c.lines
    ELSE [i \in DOMAIN c.text |-> IF c.text[i] = "{" THEN Zero ELSE Malformed]

\* Wrong: the clock alone.
Key_clock(e) == e.vc

\* What two entries that are the same agree on.  The hash is taken of the clock's
\* length too: clocks that vc_compare finds equal but differ in length are in
\* different buckets, but for a collision of the hash.
Key(e) == <<e.node, e.vc>>

\* readdir returns files in any order.
OpenFile(f) ==
    /\ at = "dir"
    /\ f \in unread
    /\ unread' = unread \ {f}
    /\ rest' = FileLines(dir[f])
    /\ at' = "load"
    /\ UNCHANGED <<dir, loaded, entries, capacity, keys, index, opts, outVars, failures>>

NextLine ==
    /\ at = "load"
    /\ rest # <<>>
    /\ rest' = Tail(rest)
    /\ UNCHANGED <<dir, at, unread, index, opts, outVars>>

SkipMalformed ==
    /\ NextLine
    /\ Head(rest) = Malformed
    /\ UNCHANGED <<loaded, entries, capacity, keys, failures>>

\* store_append finds the key: the line counts as loaded.
DropRepeated ==
    /\ NextLine
    /\ Head(rest) # Malformed
    /\ Key(Head(rest)) \in keys
    /\ loaded' = loaded + 1
    /\ UNCHANGED <<entries, capacity, keys, failures>>

\* store_append does not find the key.  remembered: the node of the hash table
\* was allocated; room: the array had room or was expanded.
StoreLine(remembered, room) ==
    LET e    == Head(rest)
        full == Len(entries) >= capacity
    IN  /\ NextLine
        /\ e # Malformed
        /\ Key(e) \notin keys
        /\ ~room => full
        /\ failures' = failures + Cardinality({i \in 1 .. 2 : ~<<remembered, room>>[i]})
        /\ failures' <= MaxFailures
        /\ keys' = IF remembered THEN keys \cup {Key(e)} ELSE keys
        /\ capacity' = IF full /\ room THEN 2 * capacity ELSE capacity
        /\ entries' = IF room THEN Append(entries, e) ELSE entries
        /\ loaded' = IF room THEN loaded + 1 ELSE loaded

CloseFile ==
    /\ at = "load"
    /\ rest = <<>>
    /\ at' = "dir"
    /\ UNCHANGED <<dir, entries, index, opts, outVars, loadVars>>

\* main stops if nothing was loaded.
LoadDone ==
    /\ at = "dir"
    /\ unread = {}
    /\ at' = IF loaded = 0 THEN "done" ELSE "index"
    /\ UNCHANGED <<dir, entries, index, opts, outVars, loadVars>>

-----------------------------------------------------------------------------
\* The inverted index.

\* A set of positions as posting_list_add leaves it when they come in order.
Increasing(S) ==
    CHOOSE f \in [1 .. Cardinality(S) -> S] : \A i, j \in DOMAIN f : i < j => f[i] < f[j]

\* strtok: the runs of characters of a text that are no separators, in order.
Token(text, seps, i) ==
    SubSeq(text, i, Min({Len(text) + 1} \cup
                        {j \in DOMAIN text : j > i /\ text[j] \in seps}) - 1)

Tokens(text, seps) ==
    LET Starts == {i \in DOMAIN text : text[i] \notin seps /\ (i = 1 \/ text[i - 1] \in seps)}
        start  == Increasing(Starts)
    IN  [m \in DOMAIN start |-> Token(text, seps, start[m])]

Cut(s, n) == SubSeq(s, 1, Min({n, Len(s)}))

\* normalize_term: the letters and digits of a word, run together, as many as fit.
Term(word) == Cut(SelectSeq(word, LAMBDA c : c \in Alnum), MAX_TERM_LEN - 1)

\* The terms a message is found under.
Terms(e) == {Term(w) : w \in ToSet(Tokens(e.message, Separators))} \ {<<>>}

\* Wrong: the positions count from 0, the array from 1.
Postings_from_zero(s) ==
    [t \in UNION {Terms(e) : e \in ToSet(s)} |->
        Increasing({i - 1 : i \in {k \in DOMAIN s : t \in Terms(s[k])}})]

\* store_build_index: for every term, the positions it occurs at, increasing.
Postings(s) ==
    [t \in UNION {Terms(e) : e \in ToSet(s)} |->
        Increasing({i \in DOMAIN s : t \in Terms(s[i])})]

BuildIndex ==
    /\ at = "index"
    /\ index' = Postings(entries)
    /\ at' = "sort"
    /\ UNCHANGED <<dir, entries, opts, outVars, loadVars>>

\* get_posting_list.
PostingList(word) == IF Term(word) \in DOMAIN index THEN index[Term(word)] ELSE <<>>

\* Wrong: both lists advance when their heads differ.
Intersect_both(a, b) ==
    LET f[p \in (1 .. Len(a) + 1) \X (1 .. Len(b) + 1)] ==
            LET i == p[1]
                j == p[2]
            IN  IF i > Len(a) \/ j > Len(b) THEN <<>>
                ELSE IF a[i] = b[j] THEN <<a[i]>> \o f[<<i + 1, j + 1>>]
                ELSE f[<<i + 1, j + 1>>]
    IN  f[<<1, 1>>]

\* intersect_posting_lists and union_posting_lists.
Intersect(a, b) ==
    LET f[p \in (1 .. Len(a) + 1) \X (1 .. Len(b) + 1)] ==
            LET i == p[1]
                j == p[2]
            IN  IF i > Len(a) \/ j > Len(b) THEN <<>>
                ELSE IF a[i] = b[j] THEN <<a[i]>> \o f[<<i + 1, j + 1>>]
                ELSE IF a[i] < b[j] THEN f[<<i + 1, j>>]
                ELSE f[<<i, j + 1>>]
    IN  f[<<1, 1>>]

\* Wrong: one list behind the other.
Unite_appended(a, b) == a \o SelectSeq(b, LAMBDA i : i \notin ToSet(a))

Unite(a, b) ==
    LET f[p \in (1 .. Len(a) + 1) \X (1 .. Len(b) + 1)] ==
            LET i == p[1]
                j == p[2]
            IN  IF i > Len(a) THEN SubSeq(b, j, Len(b))
                ELSE IF j > Len(b) THEN SubSeq(a, i, Len(a))
                ELSE IF a[i] = b[j] THEN <<a[i]>> \o f[<<i + 1, j + 1>>]
                ELSE IF a[i] < b[j] THEN <<a[i]>> \o f[<<i + 1, j>>]
                ELSE <<b[j]>> \o f[<<i, j + 1>>]
    IN  f[<<1, 1>>]

\* The words store_query_by_index asks for: what is between blanks, of the
\* characters q_copy has room for.
Words(query) == Tokens(Cut(query, QUERY_MAX), {" "})

\* store_query_by_index, up to the positions.
Lookup(query, all) ==
    LET words == Words(query)
    IN  IF words = <<>> THEN <<>>
        ELSE FoldLeft(LAMBDA found, w : IF all THEN Intersect(found, PostingList(w))
                                        ELSE Unite(found, PostingList(w)),
                      PostingList(Head(words)), Tail(words))

-----------------------------------------------------------------------------
\* Sorting.

\* Wrong: timestamp, then node_id.
ByNode_time_first(a, b) ==
    \/ a.timestamp < b.timestamp
    \/ a.timestamp = b.timestamp /\ a.node < b.node

\* compare_node: node_id, then timestamp.
ByNode(a, b) ==
    \/ a.node < b.node
    \/ a.node = b.node /\ a.timestamp < b.timestamp

\* Do the comparisons of S's elements belong to an order qsort can sort by?
WeakOrder(S, Less(_, _)) ==
    \A x, y, z \in S :
        /\ Less(x, y) /\ Less(y, z) => Less(x, z)
        /\ Less(x, z) => Less(x, y) \/ Less(y, z)

\* What qsort can make of s: any sorted arrangement, elements that compare equal
\* in any order, and any arrangement if the comparisons contradict one another.
Sorted(s, Less(_, _)) ==
    LET Arranged == {[i \in DOMAIN s |-> s[p[i]]] : p \in Bijection(DOMAIN s, DOMAIN s)}
    IN  IF WeakOrder(ToSet(s), Less)
        THEN {r \in Arranged : \A i, j \in DOMAIN r : i < j => ~Less(r[j], r[i])}
        ELSE Arranged

\* store_sort_causal, store_sort_by_time, store_sort_by_node.  The index is not
\* built again.
Sort(args) ==
    LET o == ReadOptions(args)
    IN  /\ at = "sort"
        /\ ~o.exit
        /\ opts' = o
        /\ entries' \in CASE o.sort = "causal" -> Sorted(entries, CausallyLess)
                          [] o.sort = "time"   -> Sorted(entries, ByTime)
                          [] o.sort = "node"   -> Sorted(entries, ByNode)
        /\ at' = "query"
        /\ UNCHANGED <<dir, index, outVars, loadVars>>

-----------------------------------------------------------------------------
\* Answering.

StatsSlots == 0 .. 31

\* The % of C: the remainder has the sign of x.
Rem(x, n) == IF x >= 0 THEN x % n ELSE -((-x) % n)

\* The hash of a name that is not "node-X"; a char is signed.
Hash(chars) ==
    LET idx[k \in 0 .. Len(chars)] ==
            IF k = 0 THEN 0 ELSE Rem(idx[k - 1] * 31 + chars[k], 32)
    IN  idx[Len(chars)]

\* The slot store_get_stats counts a node in, if it is one.
Slot(node) == IF Names[node].numbered THEN Names[node].number ELSE Hash(Names[node].chars)

InSlot(s, n) == Cardinality({i \in DOMAIN s : Slot(s[i].node) = n})

GreatestSlot(s) == Max({0} \cup ({Slot(e.node) : e \in ToSet(s)} \cap StatsSlots))

\* Wrong: the greatest slot is taken for their number.
Counts_to_max(s) ==
    [n \in {m \in 0 .. GreatestSlot(s) - 1 : InSlot(s, m) > 0} |-> InSlot(s, n)]

\* store_get_stats, and the counts print_stats prints.
Counts(s) ==
    [n \in {m \in 0 .. GreatestSlot(s) : InSlot(s, m) > 0} |-> InSlot(s, n)]

\* --stats: counts are printed and main returns.
StatsOnly ==
    /\ at = "query"
    /\ opts.stats
    /\ stats' = Counts(entries)
    /\ at' = "done"
    /\ UNCHANGED <<dir, entries, index, opts, results, edges, clusters, loadVars>>

\* main has asked, found are the positions of the results, and prints the first.
Answer(found) ==
    /\ at = "query"
    /\ ~opts.stats
    /\ results' = [m \in 1 .. Min({opts.max, Len(found)}) |-> entries[found[m]]]
    /\ at' = "export"
    /\ UNCHANGED <<dir, entries, index, opts, stats, edges, clusters, loadVars>>

\* With a -k that is not empty (blanks are not nothing) the index answers, and the
\* other filters are not looked at.
QueryIndex ==
    /\ opts.keyword # <<>>
    /\ Answer(Lookup(opts.keyword, opts.all))

\* store_match_query without a keyword; -1 and "any" stand for an absent filter.
Match(e, f) ==
    /\ f.node \in {-1, e.node}
    /\ f.level \in {"any", e.level}
    /\ f.from > 0 => e.timestamp >= f.from
    /\ f.to > 0 => e.timestamp <= f.to

QueryFilter ==
    /\ opts.keyword = <<>>
    /\ Answer(Increasing({i \in DOMAIN entries : Match(entries[i], opts)}))

Pairs == (DOMAIN entries) \X (DOMAIN entries)
Before(i, j) == HappensBefore(entries[i].vc, entries[j].vc)

\* Wrong: anything after i stands between i and j.
Direct_after(i, j) == ~\E k \in DOMAIN entries \ {i, j} : Before(i, k)

\* is_direct of store_export_dot.
Direct(i, j) == ~\E k \in DOMAIN entries \ {i, j} : Before(i, k) /\ Before(k, j)

\* The node of the cluster that is open when event i is drawn: one is opened for
\* the first event of a node and closed by the next one.
Cluster(i) ==
    LET First == {k \in 1 .. i : \A j \in 1 .. k - 1 : entries[j].node # entries[k].node}
    IN  entries[Max(First)].node

\* --dot: store_export_dot, which can fail to open its file.
Export ==
    /\ at = "export"
    /\ opts.dot
    /\ edges' = {p \in Pairs : Before(p[1], p[2]) /\ Direct(p[1], p[2])}
    /\ clusters' = [i \in DOMAIN entries |-> Cluster(i)]
    /\ at' = "exported"
    /\ UNCHANGED <<dir, entries, index, opts, results, stats, loadVars>>

NoExport ==
    /\ at = "export"
    /\ at' = "done"
    /\ UNCHANGED <<dir, entries, index, opts, outVars, loadVars>>

Next ==
    \/ Begin
    \/ \E f \in Files : OpenFile(f)
    \/ SkipMalformed
    \/ DropRepeated
    \/ \E remembered, room \in BOOLEAN : StoreLine(remembered, room)
    \/ CloseFile
    \/ LoadDone
    \/ BuildIndex
    \/ \E args \in CommandLines : Sort(args)
    \/ StatsOnly
    \/ QueryIndex
    \/ QueryFilter
    \/ Export
    \/ NoExport

Spec == Init /\ [][Next]_vars

-----------------------------------------------------------------------------
\* Properties.

\* The entries in the lines of the files that are whole, and the files that are not.
Logs ==
    (UNION {ToSet(dir[f].lines) : f \in {g \in Files : dir[g].form # "cut"}}) \ {Malformed}

Cuts == {f \in Files : dir[f].form = "cut"}

\* Every variable holds what its counterpart can hold; a position of the index
\* is one of the array.
TypeOK ==
    /\ dir \in [Files -> Contents]
    /\ at \in {"start", "dir", "load", "index", "sort", "query", "export", "exported", "done"}
    /\ unread \subseteq Files
    /\ rest \in Seq(Lines \cup {Malformed})
    /\ loaded \in Nat
    /\ entries \in Seq(Lines)
    /\ Len(entries) <= capacity
    /\ keys \subseteq {Key(e) : e \in Lines}
    /\ \A t \in DOMAIN index : ToSet(index[t]) \subseteq DOMAIN entries
    /\ opts \in {ReadOptions(args) : args \in CommandLines} \cup {Defaults}
    /\ ToSet(results) \subseteq ToSet(entries)
    /\ DOMAIN stats \subseteq StatsSlots
    /\ edges \subseteq Pairs
    /\ DOMAIN clusters \in {{}, DOMAIN entries}
    /\ failures \in 0 .. MaxFailures

\* Once loaded, the store has each log of the whole files once, an entry being told
\* by its node and its clock; an allocation that fails loses or repeats at most one,
\* whatever lines follow (the key is remembered before there is room).  A container
\* of which a part is missing adds none of its logs, but its bytes, read as text, can
\* add an entry that is all zeros: one, however many such containers there are.
StoreIsDirectory ==
    LET Kept == {<<e.node, e.vc>> : e \in Logs}
        Got  == {<<e.node, e.vc>> : e \in ToSet(entries)}
        zero == <<Zero.node, Zero.vc>>
    IN  at \in {"index", "sort", "query", "export", "exported"} =>
            /\ Got \subseteq Kept \cup {zero}
            /\ zero \in Got \ Kept => \E f \in Cuts : "{" \in ToSet(dir[f].text)
            /\ Cardinality(Kept \ Got) + (Len(entries) - Cardinality(Got)) <= failures

\* The message of e has a word with the letters and digits of w, as far as a term
\* goes.
HasWord(e, w) ==
    /\ Term(w) # <<>>
    /\ \E v \in ToSet(Tokens(e.message, Separators)) : Term(v) = Term(w)

\* As built, the index answers AND and OR queries exactly, for the words of the first
\* QUERY_MAX characters: user-42, which the separators of the index split in a
\* message but not in a query, is found in the messages that have user42.  A query of
\* blanks finds nothing.
IndexAnswersQuery ==
    at = "sort" => \A query \in Keywords, all \in BOOLEAN :
        ToSet(Lookup(query, all)) =
            {i \in DOMAIN entries :
                IF all THEN /\ Words(query) # <<>>
                            /\ \A w \in ToSet(Words(query)) : HasWord(entries[i], w)
                ELSE \E w \in ToSet(Words(query)) : HasWord(entries[i], w)}

\* Timestamps never contradict happened-before.
Honest ==
    \A x, y \in ToSet(entries) : HappensBefore(x.vc, y.vc) => x.timestamp < y.timestamp

\* Where timestamps follow happened-before, --sort causal leaves no effect before
\* its cause, whatever qsort does with entries that compare equal.
SortIsCausal ==
    at \in {"query", "export", "exported"} /\ opts.sort = "causal" /\ Honest =>
        \A i, j \in DOMAIN entries : i < j => ~Before(j, i)

\* So does what is printed then, whichever way the query went (the lists of positions
\* stay increasing through AND and OR): no effect before its cause, no entry twice.
AnswerIsCausal ==
    at = "export" /\ opts.sort = "causal" /\ Honest =>
        \A i, j \in DOMAIN results :
            i < j => /\ ~HappensBefore(results[j].vc, results[i].vc)
                     /\ failures = 0 => results[i] # results[j]

\* --stats counts every entry of the store once, those of a node-X with an X beyond
\* the 32 slots (or negative) excepted: node numbers start at 1, so that node-32 is
\* one of them.  Any other name is counted in the slot of its hash, but for names
\* with characters beyond ASCII, whose hash can be negative.
StatsCountNodes ==
    at = "done" /\ opts.stats =>
        LET Name(i) == Names[entries[i].node]
            Beyond  == {i \in DOMAIN entries :
                           Name(i).numbered /\ Name(i).number \notin 0 .. 31}
            Foreign == {i \in DOMAIN entries :
                           ~Name(i).numbered /\ \E c \in ToSet(Name(i).chars) : c < 0}
            counted == FoldFunction(+, 0, stats)
        IN  /\ counted + Cardinality(Beyond) <= Len(entries)
            /\ Len(entries) <= counted + Cardinality(Beyond) + Cardinality(Foreign)

\* Sorted by node, every event of the graph is drawn in the cluster of its node (in
\* the other orders it may be in the one opened last).
ClustersAreNodes ==
    at = "exported" /\ opts.sort = "node" =>
        \A i \in DOMAIN entries : clusters[i] = entries[i].node

\* The exported edges are the least that generate happened-before: every pair of
\* it is connected by a path of edges, and no edge can be done without.
EdgesGenerateOrder ==
    LET Path(E) == LET reach[n \in 0 .. Len(entries)] ==
                           IF n = 0 THEN E
                           ELSE reach[n - 1] \cup
                                {p \in Pairs : \E k \in DOMAIN entries :
                                    <<p[1], k>> \in reach[n - 1] /\ <<k, p[2]>> \in E}
                   IN  reach[Len(entries)]
    IN  at = "exported" =>
            /\ Path(edges) = {p \in Pairs : Before(p[1], p[2])}
            /\ \A e \in edges : e \notin Path(edges \ {e})

\* What -k returns contains the keywords asked for.
HitsContainKeywords ==
    at = "export" /\ opts.keyword # <<>> =>
        \A e \in ToSet(results) :
            IF opts.all THEN \A w \in ToSet(Words(opts.keyword)) : HasWord(e, w)
            ELSE \E w \in ToSet(Words(opts.keyword)) : HasWord(e, w)

=============================================================================
