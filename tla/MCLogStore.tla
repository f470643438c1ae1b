----------------------------- MODULE MCLogStore -----------------------------
(***************************************************************************)
(* Instances of LogStore: two files, as two days of the server leave them.  *)
(***************************************************************************)
EXTENDS LogStore, TLC

\* In strcmp's order: no name, "node-01", "node-32", "web" and "é", whose bytes are
\* negative chars.
SomeNames ==
    (0 :> [numbered |-> FALSE, number |-> 0, chars |-> <<>>])
    @@ (1 :> [numbered |-> TRUE, number |-> 1, chars |-> <<>>])
    @@ (2 :> [numbered |-> TRUE, number |-> 32, chars |-> <<>>])
    @@ (3 :> [numbered |-> FALSE, number |-> 0, chars |-> <<119, 101, 98>>])
    @@ (4 :> [numbered |-> FALSE, number |-> 0, chars |-> <<-61, -87>>])

SomeAlnum == {"user", "42", "login", "cache", "time", "out"}
SomeSeparators == {" ", "-"}

Entry(n, a, b, c, t, text) ==
    [node |-> n, vc |-> (0 :> a) @@ (1 :> b) @@ (2 :> c), timestamp |-> t,
     level |-> "INFO", message |-> text]

Login == Entry(4, 0, 0, 1, 1, <<"user", "-", "42", " ", "login">>)
Timeout == Entry(3, 1, 2, 1, 3, <<"time", "@", "out">>)
Effect == Entry(1, 1, 0, 1, 2, <<"login", " ", "cache">>)

\* Two concurrent causes, an effect of each, an effect of all, an entry of an agent
\* whose index is outside its clock and so has the clock of another node's, and one
\* without members.  MAX_TERM_LEN cuts user42cache to user42.
SomeLines ==
    {Login, Effect, Timeout, Zero,
     Entry(3, 0, 1, 0, 1, <<"user", "42", "cache">>),
     Entry(2, 0, 1, 0, 1, <<"-">>)}

\* "login cache", "time-out login", "user-42", a blank, and a query of which
\* QUERY_MAX leaves "user-42 login".
SomeKeywords ==
    {<<"login", " ", "cache">>, <<"time", "-", "out", " ", "login">>,
     <<"user", "-", "42">>, <<" ">>,
     <<"user", "-", "42", " ", "login", " ", "cache">>}

\* Any plain files of two lines at most, and a few containers, whole and cut.
Plain(s) == [form |-> "plain", lines |-> s, text |-> <<>>]
CutShort(s, text) == [form |-> "cut", lines |-> s, text |-> text]

SomeContents ==
    {Plain(s) : s \in BoundedSeq((SomeLines \cup {Malformed}) \ {Zero}, 2)}
    \cup {store_save_compressed(<<e, Effect>>, <<"{">>) : e \in {Malformed, Login}}
    \cup {CutShort(<<Timeout>>, <<t, "other">>) : t \in {"{", "other"}}

\* The order of the files in the directory says nothing: main opens them in any.
FileSymmetry == Permutations(Files)

Opt(o) == [opt |-> o, arg |-> <<>>]
With(o, v) == [opt |-> o, arg |-> <<v>>]
InDir == With("-d", "logs")

SomeCommandLines ==
    {<<InDir, With("-k", <<"login", " ", "cache">>)>>,
     <<InDir, With("-k", <<"time", "-", "out", " ", "login">>), Opt("--or"), With("-c", 2)>>,
     <<InDir, With("-k", <<" ">>)>>,
     <<InDir, With("-n", 1), With("-l", "INFO"), With("-s", 2), With("-e", 3)>>,
     <<InDir, With("-c", 0), With("--dot", "f")>>,
     <<InDir, With("--sort", "node"), With("--dot", "f")>>,
     <<InDir, With("--sort", "time"), Opt("--dot")>>,
     <<InDir, Opt("--stats")>>,
     <<InDir, With("--sort", "level")>>, <<Opt("-d")>>, <<Opt("--or")>>,
     <<InDir, Opt("-h"), Opt("--stats")>>, <<Opt("-x"), InDir>>}

=============================================================================
