------------------------------ MODULE Storage ------------------------------
(***************************************************************************)
(* The repository on its table: what Repository takes for one step, the    *)
(* write of an item, is here the statements of PacketStore, between which  *)
(* callers of Add and Close, the timer, the writers of other instances and *)
(* deletions from outside go on.  A call of Add stands for the packet      *)
(* maximum that it carries, which is the item that the writer writes.      *)
(***************************************************************************)
EXTENDS Repository, PacketStore

CONSTANT Me     \* the writer goroutine of this repository

ASSUME MeAssumption   == Me \in Writers
ASSUME AddsAssumption == Adds \subseteq Items

VARIABLE lost   \* items whose write ended with an error, which is only logged

storageVars == <<repoVars, storeVars, lost>>

StorageInit == RepoInit /\ StoreInit /\ lost = {}

Busy(w) == at[w] /= "idle"

Statement(w) == Insert(w) \/ UpdatePair(w) \/ UpdatePacket(w) \/ StatementFails(w)

-----------------------------------------------------------------------------
(* Mutant: the batch is written from its end. *)
WriteBeginLast ==
    /\ flushing
    /\ batch /= <<>>
    /\ BeginWrite(Me, batch[Len(batch)])
    /\ UNCHANGED <<repoVars, lost>>

(* processBatch calls writePacketMax with the next item. *)
WriteBegin ==
    /\ flushing
    /\ batch /= <<>>
    /\ BeginWrite(Me, Head(batch))
    /\ UNCHANGED <<repoVars, lost>>

(* A statement after which writePacketMax executes another one. *)
WriteGoesOn ==
    /\ Statement(Me)
    /\ Busy(Me)'
    /\ UNCHANGED <<repoVars, lost>>

(* Mutant: the first error ends processBatch, and flush truncates the batch. *)
WriteEndsBatch ==
    /\ Statement(Me)
    /\ ~Busy(Me)'
    /\ LET done == IF item[Me] \in stored' THEN <<Head(batch)>> ELSE batch IN
           /\ attempted' = attempted \o done
           /\ batch' = SubSeq(batch, Len(done) + 1, Len(batch))
    /\ runnerOpen' \in {runnerOpen, TRUE}
    /\ UNCHANGED <<ctxDone, closed, buffer, mode, flushing, timer, add, closer,
                   onceDone, query>>
    /\ lost' = IF item[Me] \in stored' THEN lost ELSE lost \cup {item[Me]}

(* A statement after which it returns; an error is logged and forgotten. *)
WriteEnds ==
    /\ Statement(Me)
    /\ ~Busy(Me)'
    /\ WriteOne
    /\ lost' = IF item[Me] \in stored' THEN lost ELSE lost \cup {item[Me]}

(* Whatever Repository does but write, the statement in progress aside.  The *)
(* writer that is inside writePacketMax has a batch left, so it does nothing *)
(* else; callers, lookups and timer do not wait for it.                      *)
AroundWrites ==
    /\ \/ Cancel
       \/ \E a \in Adds : AddStep(a)
       \/ Receive
       \/ Timeout
       \/ StopSeen
       \/ DrainEnd
       \/ EndFlush
       \/ TimerFire
       \/ \E c \in Closers : CloseStep(c)
       \/ \E q \in Queries : Query(q)
    /\ UNCHANGED <<storeVars, lost>>

(* The other instances on the same database, and deletions from outside. *)
Others ==
    /\ \/ \E w \in Writers \ {Me} :
            Statement(w) \/ \E i \in Items \ Adds : BeginWrite(w, i)
       \/ \E i \in Items : Purge(i.packet)
    /\ UNCHANGED <<repoVars, lost>>

StorageQuiet ==
    /\ Quiet
    /\ \A w \in Writers : ~Busy(w)
    /\ Items \ Adds \subseteq started
    /\ UNCHANGED <<storeVars, lost>>

StorageNext ==
    \/ WriteBegin
    \/ WriteGoesOn
    \/ WriteEnds
    \/ AroundWrites
    \/ Others
    \/ StorageQuiet

StorageSpec == StorageInit /\ [][StorageNext]_storageVars

-----------------------------------------------------------------------------
(* Properties *)

Covered(a) == \E r \in OfPacket(a.packet) : r.value >= a.value

(* A write in progress is that of the head of the batch, during a flush; it  *)
(* and the writes before it are all that this repository has asked of the    *)
(* table, and nobody else writes its items.                                  *)
StorageTypeOK ==
    /\ lost \in SUBSET Adds
    /\ Busy(Me) => flushing /\ batch /= <<>> /\ item[Me] = Head(batch)
    /\ started \cap Adds =
           Range(attempted) \cup (IF Busy(Me) THEN {item[Me]} ELSE {})
    /\ \A w \in Writers \ {Me} : Busy(w) => item[w] \notin Adds

(* What the writer is done with is stored, or an error about it was logged,  *)
(* and never both: one failing write takes no other item of its batch along, *)
(* and none passes for a success.  Only a deletion from outside takes away   *)
(* something stored.                                                         *)
Settled ==
    /\ lost \cap stored = {}
    /\ (stored \cap Adds) \cup lost \subseteq Range(attempted)
    /\ purges = 0 => Range(attempted) \subseteq stored \cup lost

(* When Close has returned, no statement of the writer is in progress. *)
IdleWhenClosed ==
    \A c \in Closers : closer[c] = "returned" => ~Busy(Me)

(* Close does not return before the writer's last statement, and what Add    *)
(* accepted before Close was called is then in the table, at its value or a  *)
(* higher one of its packet, unless an error was logged about it or rows     *)
(* were deleted from outside: neither the buffer and the batch, nor the      *)
(* statements of other instances, come between.                              *)
DurableAtClose ==
    /\ []IdleWhenClosed
    /\ \A a \in Adds : \A c \in Closers :
           [](add[a] = "ok" /\ ~closed
                => [](closer[c] = "returned" /\ purges = 0 /\ a \notin lost
                        => Covered(a)))
=============================================================================
