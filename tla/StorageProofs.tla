--------------------------- MODULE StorageProofs ---------------------------
(***************************************************************************)
(* The repository on its table, for every set of calls, instances and      *)
(* items and every configuration: its steps are steps of Repository and of *)
(* PacketStore, so what is proved of either holds here, and together they  *)
(* give what Close promises about the table.                               *)
(***************************************************************************)
EXTENDS Storage, RepositoryProofs, PacketStoreProofs

(* The callers, the writer and the timer do what Repository allows, with the *)
(* last statement of a write in the place of the write.                      *)
THEOREM StorageUsesRepository == StorageSpec => RepoSpec
<1>1. StorageInit => RepoInit
  BY DEF StorageInit
<1>2. [StorageNext]_storageVars => [RepoNext]_repoVars
  <2>1. WriteBegin \/ WriteGoesOn \/ Others \/ UNCHANGED storageVars => UNCHANGED repoVars
    BY DEF WriteBegin, WriteGoesOn, Others, storageVars
  <2>2. WriteEnds => RepoNext
    BY DEF WriteEnds, RepoNext, Writer
  <2>3. AroundWrites => RepoNext
    BY DEF AroundWrites, RepoNext, Writer
  <2>4. StorageQuiet => RepoNext
    BY DEF StorageQuiet, RepoNext
  <2>5. QED
    BY <2>1, <2>2, <2>3, <2>4 DEF StorageNext
<1>3. QED
  BY <1>1, <1>2, PTL DEF StorageSpec, RepoSpec

(* The statements of this instance and of the others, and the deletions, are *)
(* steps of PacketStore.                                                     *)
THEOREM StorageUsesTable == StorageSpec => StoreSpec
<1>1. StorageInit => StoreInit
  BY DEF StorageInit
<1>2. TypeInv /\ [StorageNext]_storageVars => [StoreNext]_storeVars
  <2> SUFFICES ASSUME TypeInv, [StorageNext]_storageVars
               PROVE  [StoreNext]_storeVars
    OBVIOUS
  <2>1. AroundWrites \/ StorageQuiet \/ UNCHANGED storageVars => UNCHANGED storeVars
    BY DEF AroundWrites, StorageQuiet, storageVars
  <2>2. \A w \in Writers : Statement(w) => StoreNext
    BY DEF Statement, StoreNext
  <2>3. WriteGoesOn \/ WriteEnds => StoreNext
    BY <2>2, MeAssumption DEF WriteGoesOn, WriteEnds
  <2>4. WriteBegin => StoreNext
    <3> SUFFICES ASSUME WriteBegin PROVE StoreNext
      OBVIOUS
    <3>1. Head(batch) \in Items
      BY HeadTailProperties, AddsAssumption DEF WriteBegin, TypeInv, RepoTypeOK
    <3>2. QED
      BY <3>1, MeAssumption DEF WriteBegin, StoreNext
  <2>5. Others => StoreNext
    BY <2>2 DEF Others, StoreNext
  <2>6. QED
    BY <2>1, <2>3, <2>4, <2>5 DEF StorageNext
<1>3. QED
  BY <1>1, <1>2, StorageUsesRepository, TypeInvAlways, PTL DEF StorageSpec, StoreSpec

-----------------------------------------------------------------------------
(* A write in progress *)

(* A statement moves its own writer only, and makes something stored only    *)
(* when it ends the write.                                                   *)
LEMMA OutcomeOfStatement ==
    ASSUME StoreInv, NEW w \in Writers, Statement(w)
    PROVE  /\ Busy(w) /\ UNCHANGED <<item, started, purges>>
           /\ \A v \in Writers \ {w} : at'[v] = at[v]
           /\ stored' = stored \/ (~Busy(w)' /\ stored' = stored \cup {item[w]})
<1>1. Busy(w) /\ UNCHANGED <<item, started, purges>>
  BY StepApplies DEF Statement, StepOf, Busy
<1>2. \E place \in {"idle", "pair", "packet"} : at' = [at EXCEPT ![w] = place]
  BY DEF Statement, Insert, UpdatePair, UpdatePacket, StatementFails, Succeed, GiveUp, GoTo
<1>3. at \in [Writers -> {"idle", "insert", "pair", "packet"}]
  BY DEF StoreInv
<1>4. \A v \in Writers \ {w} : at'[v] = at[v]
  BY <1>2, <1>3
<1>5. stored' = stored \/ (at' = [at EXCEPT ![w] = "idle"] /\ stored' = stored \cup {item[w]})
  BY DEF Statement, Insert, UpdatePair, UpdatePacket, StatementFails, Succeed, GiveUp, GoTo
<1>6. QED
  BY <1>1, <1>3, <1>4, <1>5 DEF Busy

(* Around a write in progress nothing moves the batch or the flush. *)
LEMMA WriterWaits ==
    ASSUME AroundWrites
    PROVE  /\ UNCHANGED <<storeVars, lost, attempted>>
           /\ flushing /\ batch /= <<>> => UNCHANGED <<flushing, batch>>
<1>1. ASSUME NEW a \in Adds, AddStep(a)
      PROVE  UNCHANGED <<attempted, flushing, batch>>
  BY <1>1 DEF AddStep, AddEnter, AddReadClosed, AddCtxDone, AddStopped, AddSend,
              AddTo, writerVars
<1>2. ASSUME NEW c \in Closers, CloseStep(c)
      PROVE  UNCHANGED <<attempted, flushing, batch>>
  BY <1>2 DEF CloseStep, CloseBegin, CloseWaited, CloseRunner, writerVars
<1>3. Cancel \/ TimerFire => UNCHANGED <<attempted, flushing, batch>>
  BY DEF Cancel, TimerFire, writerVars
<1>4. Receive \/ Timeout \/ StopSeen \/ DrainEnd \/ EndFlush
        => UNCHANGED attempted /\ ~(flushing /\ batch /= <<>>)
  BY DEF Receive, Timeout, StopSeen, DrainEnd, EndFlush
<1>5. ASSUME NEW q \in Queries, Query(q)
      PROVE  UNCHANGED <<attempted, flushing, batch>>
  BY <1>5 DEF Query
<1>6. QED
  BY <1>1, <1>2, <1>3, <1>4, <1>5 DEF AroundWrites

LEMMA RangeAfterWrite ==
    ASSUME TypeInv, WriteOne
    PROVE  /\ Head(batch) \in Adds
           /\ Range(attempted') = Range(attempted) \cup {Head(batch)}
<1>1. Head(batch) \in Adds
  BY HeadTailProperties DEF WriteOne, TypeInv, RepoTypeOK
<1>2. attempted \in Seq(Adds) /\ attempted' = Append(attempted, Head(batch))
  BY DEF WriteOne, TypeInv, RepoTypeOK
<1>3. QED
  BY <1>1, <1>2, RangeOfAppend

LEMMA StorageTypeNext ==
    ASSUME TypeInv, StoreInv, StorageTypeOK, [StorageNext]_storageVars
    PROVE  StorageTypeOK'
<1> USE MeAssumption DEF StorageTypeOK
<1>1. CASE WriteBegin
  <2>1. /\ ~Busy(Me) /\ flushing /\ batch /= <<>>
        /\ item' = [item EXCEPT ![Me] = Head(batch)] /\ started' = started \cup {Head(batch)}
        /\ at' = [at EXCEPT ![Me] = "insert"]
        /\ UNCHANGED <<flushing, batch, attempted, lost>>
    BY <1>1 DEF WriteBegin, BeginWrite, Busy, repoVars
  <2>2. Head(batch) \in Adds
    BY <2>1, HeadTailProperties DEF TypeInv, RepoTypeOK
  <2>3. item'[Me] = Head(batch) /\ Busy(Me)'
    BY <2>1 DEF StoreInv, Busy
  <2>4. \A w \in Writers \ {Me} : item'[w] = item[w] /\ (Busy(w)' <=> Busy(w))
    BY <2>1 DEF StoreInv, Busy
  <2>5. started' \cap Adds = Range(attempted') \cup {item'[Me]}
    BY <2>1, <2>2, <2>3
  <2>6. QED
    BY <2>1, <2>3, <2>4, <2>5
<1>2. CASE WriteGoesOn
  <2>1. /\ Busy(Me) /\ Busy(Me)' /\ UNCHANGED <<item, started, flushing, batch, attempted, lost>>
    BY <1>2, OutcomeOfStatement DEF WriteGoesOn, repoVars
  <2>2. \A w \in Writers \ {Me} : Busy(w)' <=> Busy(w)
    BY <1>2, OutcomeOfStatement DEF WriteGoesOn, Busy
  <2>3. QED
    BY <2>1, <2>2
<1>3. CASE WriteEnds
  <2>1. Busy(Me) /\ ~Busy(Me)' /\ UNCHANGED <<item, started>>
    BY <1>3, OutcomeOfStatement DEF WriteEnds
  <2>2. \A w \in Writers \ {Me} : Busy(w)' <=> Busy(w)
    BY <1>3, OutcomeOfStatement DEF WriteEnds, Busy
  <2>3. Head(batch) \in Adds /\ Range(attempted') = Range(attempted) \cup {Head(batch)}
    BY <1>3, RangeAfterWrite DEF WriteEnds
  <2>4. lost' \in SUBSET Adds
    BY <1>3, <2>1, <2>3 DEF WriteEnds
  <2>5. QED
    BY <2>1, <2>2, <2>3, <2>4
<1>4. CASE AroundWrites
  <2>1. /\ UNCHANGED <<at, item, started, lost, attempted>>
        /\ Busy(Me) => UNCHANGED <<flushing, batch>>
    BY <1>4, WriterWaits DEF storeVars
  <2>2. \A w \in Writers : Busy(w)' <=> Busy(w)
    BY <2>1 DEF Busy
  <2>3. QED
    BY <2>1, <2>2
<1>5. CASE Others
  <2>1. UNCHANGED <<flushing, batch, attempted, lost>>
    BY <1>5 DEF Others, repoVars
  <2>2. ASSUME NEW w \in Writers \ {Me}, Statement(w)
        PROVE  StorageTypeOK'
    <3>1. UNCHANGED <<item, started>> /\ Busy(w)
      BY <2>2, OutcomeOfStatement
    <3>2. \A v \in Writers \ {w} : Busy(v)' <=> Busy(v)
      BY <2>2, OutcomeOfStatement DEF Busy
    <3>3. QED
      BY <2>1, <3>1, <3>2
  <2>3. ASSUME NEW w \in Writers \ {Me}, NEW i \in Items \ Adds, BeginWrite(w, i)
        PROVE  StorageTypeOK'
    <3>1. item'[w] = i /\ started' \cap Adds = started \cap Adds
      BY <2>3 DEF BeginWrite, StoreInv
    <3>2. \A v \in Writers \ {w} : item'[v] = item[v] /\ (Busy(v)' <=> Busy(v))
      BY <2>3 DEF BeginWrite, StoreInv, Busy
    <3>3. QED
      BY <2>1, <3>1, <3>2
  <2>4. ASSUME NEW i \in Items, Purge(i.packet)
        PROVE  StorageTypeOK'
    BY <2>1, <2>4 DEF Purge, Busy
  <2>5. QED
    BY <1>5, <2>2, <2>3, <2>4 DEF Others
<1>6. CASE StorageQuiet \/ UNCHANGED storageVars
  BY <1>6 DEF StorageQuiet, Quiet, storageVars, repoVars, storeVars, Busy
<1>7. QED
  BY <1>1, <1>2, <1>3, <1>4, <1>5, <1>6 DEF StorageNext

LEMMA NothingInEmpty == Range(<<>>) = {}
BY EmptySeq DEF Range

(* Everything that this repository has asked of the table is the head of its *)
(* batch, or written; and nobody else writes its items.                      *)
THEOREM StorageTypeCorrect == StorageSpec => []StorageTypeOK
<1>1. StorageInit => StorageTypeOK
  BY NothingInEmpty, MeAssumption
     DEF StorageInit, StoreInit, RepoInit, StorageTypeOK, Busy
<1>2. QED
  BY <1>1, StorageTypeNext, StorageUsesRepository, StorageUsesTable, TypeInvAlways,
     StoreInvAlways, PTL DEF StorageSpec

-----------------------------------------------------------------------------
(* What becomes of the items.  An item is written once, so a write that     *)
(* ends finds its item among neither the stored nor the lost.               *)

LEMMA WrittenOnce ==
    ASSUME TypeInv, Accounted, batch /= <<>>
    PROVE  Head(batch) \notin Range(attempted)
<1>1. attempted \in Seq(Adds) /\ batch \in Seq(Adds) /\ buffer \in Seq(Adds)
  BY DEF TypeInv, RepoTypeOK
<1>2. batch \o buffer \in Seq(Adds) /\ Len(batch) \in Nat /\ Len(batch) > 0
  BY <1>1, ConcatProperties, EmptySeq
<1>3. Log = attempted \o (batch \o buffer)
  BY <1>1, ConcatAssociative DEF Log
<1>4. SUFFICES ASSUME NEW i \in DOMAIN attempted, attempted[i] = Head(batch)
               PROVE  FALSE
  BY DEF Range
<1> DEFINE n == Len(attempted)
<1>5. n \in Nat /\ i \in 1 .. n
  BY <1>1
<1>6. Len(batch \o buffer) > 0 /\ (batch \o buffer)[1] = Head(batch)
  BY <1>1, <1>2, ConcatProperties
<1>7. Log[i] = Head(batch) /\ Log[n + 1] = Head(batch)
  BY <1>1, <1>2, <1>3, <1>4, <1>5, <1>6, ConcatProperties
<1>8. i \in DOMAIN Log /\ n + 1 \in DOMAIN Log
  BY <1>1, <1>2, <1>3, <1>5, <1>6, ConcatProperties
<1>9. QED
  BY <1>5, <1>7, <1>8 DEF Accounted

LEMMA SettledNext ==
    ASSUME TypeInv, Accounted, StoreInv, StorageTypeOK, Settled, [StorageNext]_storageVars
    PROVE  Settled'
<1> USE MeAssumption DEF Settled
<1>1. CASE WriteBegin
  BY <1>1 DEF WriteBegin, BeginWrite, repoVars, writerVars
<1>2. CASE WriteGoesOn
  <2>1. UNCHANGED <<stored, purges, lost, attempted>>
    BY <1>2, OutcomeOfStatement DEF WriteGoesOn, repoVars, writerVars
  <2>2. QED
    BY <2>1
<1>3. CASE WriteEnds
  <2>1. Busy(Me) /\ UNCHANGED purges /\ stored' \in {stored, stored \cup {item[Me]}}
    BY <1>3, OutcomeOfStatement DEF WriteEnds
  <2>2. /\ item[Me] = Head(batch) /\ item[Me] \in Adds
        /\ Range(attempted') = Range(attempted) \cup {item[Me]}
    BY <1>3, <2>1, RangeAfterWrite DEF WriteEnds, StorageTypeOK
  <2>3. item[Me] \notin stored /\ item[Me] \notin lost
    BY <2>1, <2>2, WrittenOnce DEF StorageTypeOK
  <2>4. lost' = IF item[Me] \in stored' THEN lost ELSE lost \cup {item[Me]}
    BY <1>3 DEF WriteEnds
  <2>5. QED
    BY <2>1, <2>2, <2>3, <2>4
<1>4. CASE AroundWrites
  BY <1>4, WriterWaits DEF storeVars
<1>5. CASE Others
  <2>1. UNCHANGED <<attempted, lost>>
    BY <1>5 DEF Others, repoVars, writerVars
  <2>2. ASSUME NEW w \in Writers \ {Me}, Statement(w)
        PROVE  Settled'
    <3>1. UNCHANGED purges /\ stored' \in {stored, stored \cup {item[w]}} /\ item[w] \notin Adds
      BY <2>2, OutcomeOfStatement DEF StorageTypeOK
    <3>2. QED
      BY <2>1, <3>1 DEF StorageTypeOK
  <2>3. ASSUME NEW w \in Writers \ {Me}, NEW i \in Items \ Adds, BeginWrite(w, i)
        PROVE  Settled'
    BY <2>1, <2>3 DEF BeginWrite
  <2>4. ASSUME NEW i \in Items, Purge(i.packet)
        PROVE  Settled'
    <3>1. purges' /= 0 /\ stored' \subseteq stored
      BY <2>4 DEF Purge, StoreInv
    <3>2. QED
      BY <2>1, <3>1
  <2>5. QED
    BY <1>5, <2>2, <2>3, <2>4 DEF Others
<1>6. CASE StorageQuiet \/ UNCHANGED storageVars
  BY <1>6 DEF StorageQuiet, Quiet, storageVars, repoVars, writerVars, storeVars
<1>7. QED
  BY <1>1, <1>2, <1>3, <1>4, <1>5, <1>6 DEF StorageNext

(* Every item that the writer is done with is stored or was reported lost,   *)
(* and never both, whatever failed and whoever else wrote.                   *)
THEOREM EveryItemSettled == StorageSpec => []Settled
<1>1. StorageInit => Settled
  BY NothingInEmpty DEF StorageInit, StoreInit, RepoInit, Settled
<1>2. QED
  BY <1>1, SettledNext, StorageTypeCorrect, StorageUsesRepository, StorageUsesTable,
     TypeInvAlways, AccountedAlways, StoreInvAlways, PTL DEF StorageSpec

-----------------------------------------------------------------------------
(* Close *)

LEMMA CloseInvAlways ==
    ASSUME \A c, d \in Closers : c = d
    PROVE  RepoSpec => []CloseInv
<1>1. RepoInit => CloseInv
  BY DEF RepoInit, CloseInv
<1>2. TypeInv /\ CloseInv /\ [RepoNext]_repoVars => CloseInv'
  BY CloseInvNext
<1>3. QED
  BY <1>1, <1>2, TypeInvAlways, PTL DEF RepoSpec

(* If Close is called once, no statement of the writer is in progress, or    *)
(* still to come, when it has returned.                                      *)
LEMMA CloseWaitsForStatements ==
    ASSUME \A c, d \in Closers : c = d
    PROVE  StorageSpec => []IdleWhenClosed
<1>1. TypeInv /\ CloseInv /\ StorageTypeOK => IdleWhenClosed
  BY DEF TypeInv, WriterInv, CloseInv, StorageTypeOK, IdleWhenClosed
<1>2. QED
  BY <1>1, CloseInvAlways, StorageTypeCorrect, StorageUsesRepository, TypeInvAlways, PTL

(* If Close is called once, then it waits for the writer's last statement,   *)
(* and what was accepted before is in the table when it returns, unless an   *)
(* error about it was logged or rows were deleted.                           *)
THEOREM CloseMakesDurable ==
    ASSUME \A c, d \in Closers : c = d
    PROVE  StorageSpec => DurableAtClose
<1>1. ASSUME NEW a \in Adds, NEW c \in Closers
      PROVE  StorageSpec =>
                [](add[a] = "ok" /\ ~closed
                     => [](closer[c] = "returned" /\ purges = 0 /\ a \notin lost => Covered(a)))
  <2>1. RepoSpec => [](add[a] = "ok" /\ ~closed
                         => [](closer[c] = "returned" => a \in Range(attempted)))
    BY <1>1, CloseWritesWhatWasAccepted DEF WrittenBeforeReturn
  <2>2. Settled /\ StoredIsCovered
          => (a \in Range(attempted) => (purges = 0 /\ a \notin lost => Covered(a)))
    BY DEF Settled, StoredIsCovered, Covered
  <2>3. QED
    BY <2>1, <2>2, EveryItemSettled, StorageUsesRepository, StorageUsesTable,
       StoredStaysCovered, PTL
<1>2. QED
  BY <1>1, CloseWaitsForStatements DEF DurableAtClose
=============================================================================
