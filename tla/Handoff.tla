------------------------------ MODULE Handoff ------------------------------
(***************************************************************************)
(* What the buffered writer of the Postgres repository promises, without   *)
(* channels, batches, timers or shutdown: a bounded first-in first-out     *)
(* hand-off.  An item is taken over at most once, waits in one queue of    *)
(* limited length, and leaves it in the order it came, once.  Everything   *)
(* in the queue is volatile: it is what a crash of the process loses.      *)
(***************************************************************************)
EXTENDS Naturals, Sequences, Functions

CONSTANTS
    Items,      \* what is handed over
    Capacity    \* how many items may wait

VARIABLES
    queue,      \* taken over, not yet passed on
    out         \* passed on, in order

handoffVars == <<queue, out>>

Init ==
    /\ queue = <<>>
    /\ out = <<>>

Accept(i) ==
    /\ i \notin Range(queue) \cup Range(out)
    /\ Len(queue) < Capacity
    /\ queue' = Append(queue, i)
    /\ UNCHANGED out

PassOn ==
    /\ queue /= <<>>
    /\ out' = Append(out, Head(queue))
    /\ queue' = Tail(queue)

Next == PassOn \/ \E i \in Items : Accept(i)

Spec == Init /\ [][Next]_handoffVars
=============================================================================
