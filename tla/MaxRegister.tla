---------------------------- MODULE MaxRegister ----------------------------
(***************************************************************************)
(* What the writes of the repository amount to, without rows, keys or the  *)
(* three statements of a write: one number for each packet, the highest    *)
(* that was written.  A write raises it in one step and is then            *)
(* acknowledged, or it ends with an error, and has raised it or not.       *)
(***************************************************************************)
EXTENDS Integers

CONSTANTS
    Writers,    \* who writes, one item at a time
    Items,      \* what is written, each at most once: [packet, value, ...]
    NoItem      \* no item

VARIABLES
    best,       \* the number of each packet, as a set of one, or none
    writing,    \* the item of each writer
    begun,      \* items whose write has begun
    acked       \* items acknowledged, and not forgotten since

registerVars == <<best, writing, begun, acked>>

PacketIDs == {i.packet : i \in Items}

Init ==
    /\ best = [p \in PacketIDs |-> {}]
    /\ writing = [w \in Writers |-> NoItem]
    /\ begun = {}
    /\ acked = {}

(* The greatest element, in a set of its own; nothing of nothing. *)
Highest(S) == {x \in S : \A y \in S : y <= x}

Raise(i) ==
    best' = [best EXCEPT ![i.packet] = Highest(best[i.packet] \cup {i.value})]

Begin(w, i) ==
    /\ writing[w] = NoItem
    /\ i \notin begun
    /\ writing' = [writing EXCEPT ![w] = i]
    /\ begun' = begun \cup {i}
    /\ UNCHANGED <<best, acked>>

End(w) ==
    /\ writing[w] /= NoItem
    /\ writing' = [writing EXCEPT ![w] = NoItem]
    /\ UNCHANGED begun

Commit(w) ==
    /\ End(w)
    /\ Raise(writing[w])
    /\ acked' = acked \cup {writing[w]}

Abort(w) ==
    /\ End(w)
    /\ UNCHANGED best \/ Raise(writing[w])
    /\ UNCHANGED acked

(* The packet is deleted from outside. *)
Forget(p) ==
    /\ best' = [best EXCEPT ![p] = {}]
    /\ acked' = {i \in acked : i.packet /= p}
    /\ UNCHANGED <<writing, begun>>

Next ==
    \/ \E w \in Writers : (\E i \in Items : Begin(w, i)) \/ Commit(w) \/ Abort(w)
    \/ \E p \in PacketIDs : Forget(p)

Spec == Init /\ [][Next]_registerVars
=============================================================================
