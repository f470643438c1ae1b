---------------------------- MODULE CausalServer ----------------------------
(***************************************************************************)
(* The aggregation server of src/src/server.c: one thread that receives log *)
(* entries over UDP, holds them in a sorted list until their vector clock   *)
(* is the next one to commit, and appends them to the log file.             *)
(*                                                                         *)
(* pc says where server_run's loop stands:                                  *)
(*   start    signal handlers installed, server_run not yet entered         *)
(*   recv     blocked in recvfrom                                           *)
(*   flush    at the head of server_flush_causal_buffer's outer loop        *)
(*   timeout  at the head of server_check_timeout_flush's loop              *)
(*   cleanup  in server_cleanup's loop, after server_stop                   *)
(*   down     the process has ended, by server_cleanup or by a crash        *)
(*                                                                         *)
(* Time is counted in receive timeouts (SO_RCVTIMEO, 200 ms).  The code     *)
(* stores arrival_time and compares now - arrival_time with timeout_ms; the *)
(* model stores the difference as the entry's age, which stops growing once *)
(* it exceeds Timeout: larger ages differ only in how far back the clock    *)
(* would have to be set to make the entry fresh again.  A negative age is   *)
(* an arrival ahead of the clock.                                           *)
(***************************************************************************)
EXTENDS LogEntry, Sequences, SequencesExt

CONSTANTS
    Packets,          \* the well-formed log entries that can reach the socket
    NodeCount,        \* config.node_count, 3 in main_server.c
    Timeout,          \* config.timeout_ms, in receive timeouts
    DiskMayFail,      \* may a write of the log file fail?
    ClockMayStepBack, \* may the wall clock be set back?
    MaxReceived,      \* bound: datagrams received per start of the process
    MaxStarts         \* bound: starts of the process

ASSUME ConstantsAssumption ==
    /\ \A e \in Packets : \E n \in 0 .. VC_MAX_NODES : e \in LogEntry(n)
    /\ NodeCount \in 1 .. VC_MAX_NODES
    /\ Timeout \in Nat
    /\ DiskMayFail \in BOOLEAN
    /\ ClockMayStepBack \in BOOLEAN
    /\ MaxReceived \in Nat
    /\ MaxStarts \in Nat

VARIABLES
    pc,         \* where the server's loop stands
    running,    \* server->running, cleared by the signal handler
    buffer,     \* server->buffer_head: the list, with each entry's age
    committed,  \* server->committed_vc
    file,       \* the entries in the log files, in the order they were written
    base,       \* how many of them earlier starts of the process wrote
    stats,      \* server->stats: total_received, total_stored, total_errors
    starts      \* how often the process was started

vars == <<pc, running, buffer, committed, file, base, stats, starts>>

Overdue == Timeout + 1

\* Bound: how far an arrival can come to lie ahead of a clock that is set back.
Ahead == Overdue

BufferNode == [entry : Packets, age : -Ahead .. Overdue]

Entries(b) == {b[k].entry : k \in DOMAIN b}
Buffered == Entries(buffer)
Written == ToSet(file)

-----------------------------------------------------------------------------
\* server_init; main then installs the signal handlers.
Init ==
    /\ pc = "start"
    /\ running = FALSE
    /\ buffer = <<>>
    /\ committed = vc_init(NodeCount)
    /\ file = <<>>
    /\ base = 0
    /\ stats = [received |-> 0, stored |-> 0, errors |-> 0]
    /\ starts = 1

\* server_run sets running, whatever a signal has done before, and enters its
\* loop.
Run ==
    /\ pc = "start"
    /\ running' = TRUE
    /\ pc' = "recv"
    /\ UNCHANGED <<buffer, committed, file, base, stats, starts>>

\* server_write_entry_to_file.  No caller looks at its result.
Write(e) ==
    \/ file' = Append(file, e)
    \/ DiskMayFail /\ file' = file

\* A wrong commit: the clock of the entry is not merged.
Commit_without_merge(e) ==
    /\ Write(e)
    /\ stats' = [stats EXCEPT !.stored = @ + 1]
    /\ UNCHANGED committed

\* What every write outside server_cleanup goes with: the entry's clock is
\* merged into the committed one and the entry is counted.
Commit(e) ==
    /\ Write(e)
    /\ committed' = vc_merge(committed, e.vc)
    /\ stats' = [stats EXCEPT !.stored = @ + 1]

-----------------------------------------------------------------------------
\* Wrong insertions: at the end, as a plain queue, and at the front, as a stack.
InsertPosition_tail(b, e) == Len(b) + 1
InsertPosition_front(b, e) == 1

\* server_insert_to_buffer: before the first element the new entry sorts before.
InsertPosition(b, e) ==
    CHOOSE k \in 1 .. Len(b) + 1 :
        /\ k \in DOMAIN b => CausallyLess(e, b[k].entry)
        /\ \A j \in 1 .. k - 1 : ~CausallyLess(e, b[j].entry)

\* recvfrom returns a datagram log_entry_from_json accepts.
Receive(e) ==
    /\ pc = "recv"
    /\ stats.received < MaxReceived
    /\ buffer' = InsertAt(buffer, InsertPosition(buffer, e), [entry |-> e, age |-> 0])
    /\ stats' = [stats EXCEPT !.received = @ + 1]
    /\ pc' = "flush"
    /\ UNCHANGED <<running, committed, file, base, starts>>

\* recvfrom returns a datagram log_entry_from_json rejects.
ReceiveMalformed ==
    /\ pc = "recv"
    /\ stats.received < MaxReceived
    /\ stats' = [stats EXCEPT !.received = @ + 1, !.errors = @ + 1]
    /\ pc' = "timeout"
    /\ UNCHANGED <<running, buffer, committed, file, base, starts>>

-----------------------------------------------------------------------------
\* Time.

Older(b) == [k \in DOMAIN b |->
                [b[k] EXCEPT !.age = IF b[k].age < Overdue THEN b[k].age + 1 ELSE Overdue]]

SetBack(b, d) == [k \in DOMAIN b |->
                [b[k] EXCEPT !.age = IF b[k].age - d < -Ahead THEN -Ahead ELSE b[k].age - d]]

\* A wrong loop: nothing received, next iteration, without the timeout check.
ReceiveTimeout_continue ==
    /\ pc = "recv"
    /\ buffer' = Older(buffer)
    /\ pc' = IF running THEN "recv" ELSE "cleanup"
    /\ UNCHANGED <<running, committed, file, base, stats, starts>>

\* recvfrom gives up after its timeout.
ReceiveTimeout ==
    /\ pc = "recv"
    /\ buffer' = Older(buffer)
    /\ pc' = "timeout"
    /\ UNCHANGED <<running, committed, file, base, stats, starts>>

\* The signal that cleared running also interrupts recvfrom.
ReceiveInterrupted ==
    /\ pc = "recv"
    /\ ~running
    /\ pc' = "timeout"
    /\ UNCHANGED <<running, buffer, committed, file, base, stats, starts>>

\* Time passes before a datagram arrives or while the disk works.  The loop of
\* server_check_timeout_flush reads the clock once, before its first iteration.
Tick ==
    /\ pc \in {"recv", "flush"}
    /\ buffer' = Older(buffer)
    /\ UNCHANGED <<pc, running, committed, file, base, stats, starts>>

\* The wall clock is set back by d.
ClockStepsBack(d) ==
    /\ ClockMayStepBack
    /\ pc \in {"recv", "flush"}
    /\ buffer' = SetBack(buffer, d)
    /\ UNCHANGED <<pc, running, committed, file, base, stats, starts>>

-----------------------------------------------------------------------------
\* server_flush_causal_buffer: each iteration of the outer loop treats the
\* first list element that is stale or consecutive, and starts over.

\* A wrong test: an entry behind the committed clock is kept.
Stale_equal_only(e) == vc_compare(e.vc, committed) = "EQUAL"

Stale(e) == vc_compare(e.vc, committed) \in {"EQUAL", "BEFORE"}

Treatable(e) == Stale(e) \/ Consecutive(e.vc, committed)

FirstTreatable(k) ==
    /\ k \in DOMAIN buffer
    /\ Treatable(buffer[k].entry)
    /\ \A j \in 1 .. k - 1 : ~Treatable(buffer[j].entry)

FlushDrop(k) ==
    /\ pc = "flush"
    /\ FirstTreatable(k)
    /\ Stale(buffer[k].entry)
    /\ buffer' = RemoveAt(buffer, k)
    /\ UNCHANGED <<pc, running, committed, file, base, stats, starts>>

FlushCommit(k) ==
    /\ pc = "flush"
    /\ FirstTreatable(k)
    /\ ~Stale(buffer[k].entry)
    /\ Commit(buffer[k].entry)
    /\ buffer' = RemoveAt(buffer, k)
    /\ UNCHANGED <<pc, running, base, starts>>

\* A wrong loop: only the head of the list is looked at.
FlushDone_head_only ==
    /\ pc = "flush"
    /\ \A k \in DOMAIN buffer : k = 1 => ~Treatable(buffer[k].entry)
    /\ pc' = "timeout"
    /\ UNCHANGED <<running, buffer, committed, file, base, stats, starts>>

\* A whole pass found nothing to do, or the list is empty.
FlushDone ==
    /\ pc = "flush"
    /\ \A k \in DOMAIN buffer : ~Treatable(buffer[k].entry)
    /\ pc' = "timeout"
    /\ UNCHANGED <<running, buffer, committed, file, base, stats, starts>>

-----------------------------------------------------------------------------
\* server_check_timeout_flush looks at the head of the list alone.

\* The test of now - arrival_time is unsigned: while the clock is behind the
\* arrival the difference is huge.
TimedOut(age) == age < 0 \/ age > Timeout

HeadOverdue == buffer # <<>> /\ TimedOut(Head(buffer).age)

\* A wrong loop: the next head is looked at without a flush in between.
TimeoutForce_without_flush ==
    /\ pc = "timeout"
    /\ HeadOverdue
    /\ Commit(Head(buffer).entry)
    /\ buffer' = Tail(buffer)
    /\ UNCHANGED <<pc, running, base, starts>>

TimeoutForce ==
    /\ pc = "timeout"
    /\ HeadOverdue
    /\ Commit(Head(buffer).entry)
    /\ buffer' = Tail(buffer)
    /\ pc' = "flush"
    /\ UNCHANGED <<running, base, starts>>

\* A wrong loop: running is tested before the loop alone.
TimeoutDone_for_ever ==
    /\ pc = "timeout"
    /\ ~HeadOverdue
    /\ pc' = "recv"
    /\ UNCHANGED <<running, buffer, committed, file, base, stats, starts>>

\* The loop of server_run goes round, or ends.
TimeoutDone ==
    /\ pc = "timeout"
    /\ ~HeadOverdue
    /\ pc' = IF running THEN "recv" ELSE "cleanup"
    /\ UNCHANGED <<running, buffer, committed, file, base, stats, starts>>

-----------------------------------------------------------------------------
\* server_stop, called from the signal handler whatever the loop is doing.
\* Before server_run it finds running false and changes nothing.
Stop ==
    /\ pc \in {"start", "recv", "flush", "timeout"}
    /\ running' = FALSE
    /\ UNCHANGED <<pc, buffer, committed, file, base, stats, starts>>

\* server_cleanup writes what is left in list order.
CleanupWrite ==
    /\ pc = "cleanup"
    /\ buffer # <<>>
    /\ Write(Head(buffer).entry)
    /\ buffer' = Tail(buffer)
    /\ UNCHANGED <<pc, running, committed, base, stats, starts>>

CleanupDone ==
    /\ pc = "cleanup"
    /\ buffer = <<>>
    /\ pc' = "down"
    /\ UNCHANGED <<running, buffer, committed, file, base, stats, starts>>

\* The process is killed: what is on disk stays, the rest is gone.
Crash ==
    /\ pc # "down"
    /\ starts < MaxStarts
    /\ pc' = "down"
    /\ buffer' = <<>>
    /\ UNCHANGED <<running, committed, file, base, stats, starts>>

\* The process is started again: server_init begins from zero and
\* server_open_log_file appends to what is there.
Start ==
    /\ pc = "down"
    /\ starts < MaxStarts
    /\ pc' = "start"
    /\ running' = FALSE
    /\ committed' = vc_init(NodeCount)
    /\ base' = Len(file)
    /\ stats' = [received |-> 0, stored |-> 0, errors |-> 0]
    /\ starts' = starts + 1
    /\ UNCHANGED <<buffer, file>>

-----------------------------------------------------------------------------
\* The steps the server's own thread takes once nothing arrives any more.
ServerStep ==
    \/ Run
    \/ ReceiveTimeout
    \/ \E k \in DOMAIN buffer : FlushDrop(k) \/ FlushCommit(k)
    \/ FlushDone
    \/ TimeoutForce
    \/ TimeoutDone
    \/ CleanupWrite
    \/ CleanupDone

Next ==
    \/ \E e \in Packets : Receive(e)
    \/ ReceiveMalformed
    \/ ReceiveInterrupted
    \/ Tick
    \/ \E d \in 1 .. Overdue : ClockStepsBack(d)
    \/ Stop
    \/ Crash
    \/ Start
    \/ ServerStep

Spec == Init /\ [][Next]_vars

FairSpec == Spec /\ WF_vars(ServerStep)

-----------------------------------------------------------------------------
\* Properties.

\* The process is up and server_cleanup has not begun.
InLoop == pc \in {"start", "recv", "flush", "timeout"}

\* The positions of the entries this start of the process wrote.
Mine == base + 1 .. Len(file)

\* Every variable holds what its C counterpart can hold.
TypeOK ==
    /\ pc \in {"start", "recv", "flush", "timeout", "cleanup", "down"}
    /\ running \in BOOLEAN
    /\ buffer \in Seq(BufferNode)
    /\ committed \in Clock(NodeCount)
    /\ file \in Seq(Packets)
    /\ base \in 0 .. Len(file)
    /\ stats \in [received : Nat, stored : Nat, errors : Nat]
    /\ starts \in Nat

\* Whatever the network loses, repeats or reorders and whatever the timeout
\* forces out, what the loop writes is a linear extension of happened-before
\* without repetitions: no entry is written after one it happened before, and
\* no clock is written twice (the stale test of server_flush_causal_buffer and
\* the merge after every write, together).
CausalFile ==
    InLoop => \A i, j \in Mine : i < j => ~vc_leq(file[j].vc, file[i].vc)

\* committed_vc is the least clock above everything this start wrote: nothing
\* written is missing from it, and it claims nothing that was not written.
CommittedIsLub ==
    InLoop => /\ \A k \in Mine : vc_leq(file[k].vc, committed)
              /\ \A i \in DOMAIN committed :
                    committed[i] = 0 \/ \E k \in Mine : At(file[k].vc, i) = committed[i]

\* server_flush_causal_buffer's restarts reach a fixpoint: once it returns, and
\* until the next arrival or forced write, no entry that could be committed or
\* dropped is left in the list.
FlushReachesFixpoint ==
    pc \in {"recv", "timeout", "cleanup"} => \A k \in DOMAIN buffer : ~Treatable(buffer[k].entry)

\* The list server_insert_to_buffer keeps is in causal order: no element
\* happened before one that precedes it.
BufferCausal ==
    \A i, j \in DOMAIN buffer : i < j => ~HappensBefore(buffer[j].entry.vc, buffer[i].entry.vc)

\* The log a start of the process leaves behind, server_cleanup's writes
\* included, never shows an effect before its cause.
LogCausal ==
    \A i, j \in Mine : i < j => ~HappensBefore(file[j].vc, file[i].vc)

\* server_flush_causal_buffer discards an entry only when the file has it.
DropsOnlyDuplicates ==
    [][\A k \in DOMAIN buffer : FlushDrop(k) => buffer[k].entry \in Written]_vars

\* When the timeout check returns to recvfrom, no entry has waited longer than
\* timeout_ms.
WaitIsBounded ==
    [][TimeoutDone => \A k \in DOMAIN buffer : ~TimedOut(buffer[k].age)]_vars

\* An entry does not stay in memory for ever: it is written or discarded, or the
\* process ends.
Drains ==
    \A e \in Packets : e \in Buffered ~> e \notin Buffered

\* Once server_run has set running, server_stop ends the process, whatever is in
\* the list.  (A signal that arrives before that is overwritten: Run.)
StopEnds == pc # "start" /\ ~running ~> pc = "down"

\* What the server still has to do once it was stopped: three steps for every
\* entry in the list at most, and the rest of the iteration it is in.
Remaining ==
    3 * Len(buffer) + CASE pc = "recv" -> 7
                        [] pc = "flush" -> 3
                        [] pc = "timeout" -> 2
                        [] pc = "cleanup" -> 1
                        [] OTHER -> 0

\* After server_stop every step of the server's thread brings its end closer, and
\* nothing moves it away again: not a datagram that still arrives (the loop
\* handles it and everything it sets free), not the time that passes nor a
\* forced write that starts another flush.
StopComesCloser ==
    [][~running /\ pc \notin {"start", "down"} =>
          /\ ~running'
          /\ Remaining' <= Remaining
          /\ ServerStep => Remaining' < Remaining]_vars

-----------------------------------------------------------------------------
\* The server implements CausalLog: an entry leaves memory only by being
\* written, after everything in memory that happened before it and never after
\* something it happened before, by being discarded once the log accounts for
\* its clock, or in a crash.
Phase == IF InLoop THEN "open" ELSE IF pc = "cleanup" THEN "closing" ELSE "closed"

Abstract == INSTANCE CausalLog WITH
    phase   <- Phase,
    pending <- Buffered

ImplementsCausalLog == Abstract!Spec

=============================================================================
