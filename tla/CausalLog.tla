------------------------------ MODULE CausalLog ------------------------------
(***************************************************************************)
(* What the aggregation server promises about the log, without the list,    *)
(* the committed clock, the timeouts or the wall clock behind it: entries   *)
(* are accepted, and leave memory by being written after everything pending *)
(* that happened before them, by being discarded because the log already    *)
(* accounts for every component of their clock, or in a crash.              *)
(*                                                                         *)
(* An entry may be accepted more than once, so writing or discarding one    *)
(* copy may leave another pending.                                          *)
(***************************************************************************)
EXTENDS LogEntry, Sequences

CONSTANT Packets    \* the entries that can be accepted

VARIABLES
    phase,      \* open: accepting; closing: shutting down; closed: no process
    pending,    \* the accepted entries that are neither written nor discarded
    file,       \* the log
    base        \* how much of it earlier processes wrote

vars == <<phase, pending, file, base>>

Mine == base + 1 .. Len(file)

Init ==
    /\ phase = "open"
    /\ pending = {}
    /\ file = <<>>
    /\ base = 0

\* One accepted copy of e is done with.
Forget(e) == pending' \in {pending, pending \ {e}}

\* Nothing pending happened before e.
Minimal(e) == \A x \in pending : ~HappensBefore(x.vc, e.vc)

\* Every component of e's clock was reached by a written entry.
AccountedFor(e) ==
    \A i \in DOMAIN e.vc : e.vc[i] > 0 => \E k \in Mine : At(file[k].vc, i) >= e.vc[i]

Accept(e) ==
    /\ phase = "open"
    /\ pending' = pending \cup {e}
    /\ UNCHANGED <<phase, file, base>>

\* While the log is open nothing written is repeated or happened after e.
Write(e) ==
    /\ phase = "open"
    /\ Minimal(e)
    /\ \A k \in Mine : ~vc_leq(e.vc, file[k].vc)
    /\ file' = Append(file, e)
    /\ Forget(e)
    /\ UNCHANGED <<phase, base>>

Discard(e) ==
    /\ phase = "open"
    /\ AccountedFor(e)
    /\ Forget(e)
    /\ UNCHANGED <<phase, file, base>>

Close ==
    /\ phase = "open"
    /\ phase' = "closing"
    /\ UNCHANGED <<pending, file, base>>

\* A shutdown writes what is pending; it may repeat an entry but orders them.
WriteLast(e) ==
    /\ phase = "closing"
    /\ Minimal(e)
    /\ \A k \in Mine : ~HappensBefore(e.vc, file[k].vc)
    /\ file' = Append(file, e)
    /\ Forget(e)
    /\ UNCHANGED <<phase, base>>

\* A shutdown that is not interrupted leaves nothing unwritten.
End ==
    /\ phase = "closing"
    /\ pending = {}
    /\ phase' = "closed"
    /\ UNCHANGED <<pending, file, base>>

Crash ==
    /\ phase # "closed"
    /\ phase' = "closed"
    /\ pending' = {}
    /\ UNCHANGED <<file, base>>

Restart ==
    /\ phase = "closed"
    /\ phase' = "open"
    /\ base' = Len(file)
    /\ UNCHANGED <<pending, file>>

Next ==
    \/ \E e \in Packets : Accept(e)
    \/ \E e \in pending : Write(e) \/ Discard(e) \/ WriteLast(e)
    \/ Close
    \/ End
    \/ Crash
    \/ Restart

Spec == Init /\ [][Next]_vars

=============================================================================
