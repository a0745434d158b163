-------------------------- MODULE RepositoryProofs --------------------------
(***************************************************************************)
(* Theorems about Repository, for every set of calls and every             *)
(* configuration: type correctness with the limits of channel and batch,   *)
(* the timer invariant, the accounting of accepted items, the refinement   *)
(* of Handoff, and what a single Close guarantees.                         *)
(***************************************************************************)
EXTENDS Repository, SequenceTheorems, TLAPS

-----------------------------------------------------------------------------
(* Sequences: an item that moves from one end to the next. *)

LEMMA HeadThenTail ==
    ASSUME NEW S, NEW s \in Seq(S), s /= <<>>
    PROVE  s = <<Head(s)>> \o Tail(s)
<1>1. Len(s) \in Nat /\ Len(s) > 0
  BY EmptySeq
<1>2. SubSeq(s, 1, Len(s)) = <<s[1]>> \o SubSeq(s, 2, Len(s))
  BY <1>1, SubSeqRecursiveFirst
<1>3. SubSeq(s, 1, Len(s)) = s
  BY SubSeqFull
<1>4. Tail(s) = SubSeq(s, 2, Len(s))
  BY TailIsSubSeq
<1>5. Head(s) = s[1]
  BY <1>1
<1>6. QED
  BY <1>2, <1>3, <1>4, <1>5

(* Moving the head of t to the end of s changes nothing in s \o t. *)
LEMMA MoveAcross ==
    ASSUME NEW S, NEW s \in Seq(S), NEW t \in Seq(S), t /= <<>>
    PROVE  Append(s, Head(t)) \o Tail(t) = s \o t
<1>1. Head(t) \in S /\ Tail(t) \in Seq(S)
  BY HeadTailProperties
<1>2. Append(s, Head(t)) = s \o <<Head(t)>>
  BY <1>1, AppendIsConcat
<1>3. <<Head(t)>> \in Seq(S)
  BY <1>1
<1>4. (s \o <<Head(t)>>) \o Tail(t) = s \o (<<Head(t)>> \o Tail(t))
  BY <1>1, <1>3, ConcatAssociative
<1>5. QED
  BY <1>2, <1>4, HeadThenTail

LEMMA AppendAfterConcat ==
    ASSUME NEW S, NEW s \in Seq(S), NEW t \in Seq(S), NEW e \in S
    PROVE  s \o Append(t, e) = Append(s \o t, e)
<1>1. <<e>> \in Seq(S) /\ s \o t \in Seq(S)
  BY ConcatProperties
<1>2. Append(t, e) = t \o <<e>> /\ Append(s \o t, e) = (s \o t) \o <<e>>
  BY <1>1, AppendIsConcat
<1>3. s \o (t \o <<e>>) = (s \o t) \o <<e>>
  BY <1>1, ConcatAssociative
<1>4. QED
  BY <1>2, <1>3

LEMMA RangeOfAppend ==
    ASSUME NEW S, NEW s \in Seq(S), NEW e \in S
    PROVE  Range(Append(s, e)) = Range(s) \cup {e}
<1>1. DOMAIN s = 1 .. Len(s) /\ Len(s) \in Nat
  BY LenProperties
<1>2. DOMAIN Append(s, e) = 1 .. Len(s) + 1
  BY <1>1, AppendProperties
<1>3. \A i \in 1 .. Len(s) : Append(s, e)[i] = s[i]
  BY AppendProperties
<1>4. Append(s, e)[Len(s) + 1] = e
  BY AppendProperties
<1>5. QED
  BY <1>1, <1>2, <1>3, <1>4, SMT DEF Range

(* No element of s occurs at two places. *)
Distinct(s) == \A i, j \in DOMAIN s : s[i] = s[j] => i = j

LEMMA DistinctAppend ==
    ASSUME NEW S, NEW s \in Seq(S), NEW e \in S, Distinct(s), e \notin Range(s)
    PROVE  Distinct(Append(s, e))
<1>1. DOMAIN s = 1 .. Len(s) /\ Len(s) \in Nat
  BY LenProperties
<1>2. DOMAIN Append(s, e) = 1 .. Len(s) + 1
  BY <1>1, AppendProperties
<1>3. \A i \in 1 .. Len(s) : Append(s, e)[i] = s[i] /\ s[i] /= e
  BY <1>1, AppendProperties DEF Range
<1>4. Append(s, e)[Len(s) + 1] = e
  BY AppendProperties
<1>5. QED
  BY <1>1, <1>2, <1>3, <1>4, SMT DEF Distinct

-----------------------------------------------------------------------------
(* Type correctness.  The limit on the batch needs to know that between    *)
(* flushes the batch is not full, and that the last flush is a flush.      *)

WriterInv ==
    /\ ~flushing => Len(batch) < batchSize
    /\ mode = "final" => flushing
    /\ mode = "exited" => ~flushing /\ batch = <<>>

TypeInv == RepoTypeOK /\ WriterInv

LEMMA LimitsPositive ==
    /\ batchSize \in Nat \ {0}
    /\ bufferSize \in Nat \ {0}
    /\ batchTimeout \in Nat
BY ConfigAssumption DEF batchSize, bufferSize, batchTimeout

LEMMA TypeInvInit == RepoInit => TypeInv
<1>1. <<>> \in Seq(Adds) /\ Len(<<>>) = 0
  BY EmptySeq
<1>2. 0 <= bufferSize /\ 0 <= batchSize
  BY LimitsPositive
<1>3. RepoInit => RepoTypeOK
  <2> SUFFICES ASSUME RepoInit PROVE RepoTypeOK
    OBVIOUS
  <2>1. buffer \in Seq(Adds) /\ batch \in Seq(Adds) /\ attempted \in Seq(Adds)
    BY <1>1 DEF RepoInit
  <2>2. Len(buffer) <= bufferSize /\ Len(batch) <= batchSize
    BY <1>1, <1>2 DEF RepoInit
  <2>3. add \in [Adds -> AddStates] /\ closer \in [Closers -> CloserStates]
    BY DEF RepoInit, AddStates, CloserStates
  <2>4. QED
    BY <2>1, <2>2, <2>3 DEF RepoInit, RepoTypeOK
<1>4. RepoInit => WriterInv
  BY <1>1, LimitsPositive DEF RepoInit, WriterInv
<1>5. QED
  BY <1>3, <1>4 DEF TypeInv

LEMMA TypeInvNext == TypeInv /\ [RepoNext]_repoVars => TypeInv'
<1> SUFFICES ASSUME TypeInv, [RepoNext]_repoVars
             PROVE  TypeInv'
  OBVIOUS
<1> USE LimitsPositive DEF TypeInv, RepoTypeOK, WriterInv, AddStates, CloserStates
<1>1. CASE Cancel
  BY <1>1 DEF Cancel, writerVars
<1>2. ASSUME NEW a \in Adds, AddStep(a)
      PROVE  TypeInv'
  <2>1. CASE AddEnter(a)
    BY <2>1 DEF AddEnter, AddTo, writerVars
  <2>2. CASE AddReadClosed(a)
    BY <2>2 DEF AddReadClosed, AddTo, writerVars
  <2>3. CASE AddCtxDone(a)
    BY <2>3 DEF AddCtxDone, AddTo, writerVars
  <2>4. CASE AddStopped(a)
    BY <2>4 DEF AddStopped, AddTo, writerVars
  <2>5. CASE AddSend(a)
    <3>1. buffer' \in Seq(Adds) /\ Len(buffer') = Len(buffer) + 1
      BY <2>5, AppendProperties DEF AddSend
    <3>2. Len(buffer') <= bufferSize
      BY <2>5, <3>1, LenProperties DEF AddSend
    <3>3. QED
      BY <2>5, <3>1, <3>2 DEF AddSend, AddTo, writerVars
  <2>6. QED
    BY <1>2, <2>1, <2>2, <2>3, <2>4, <2>5 DEF AddStep
<1>3. CASE Receive
  <2>1. /\ Head(buffer) \in Adds
        /\ buffer' \in Seq(Adds)
        /\ Len(buffer') = Len(buffer) - 1
    BY <1>3, HeadTailProperties DEF Receive
  <2>2. batch' \in Seq(Adds) /\ Len(batch') = Len(batch) + 1
    BY <1>3, <2>1, AppendProperties DEF Receive, AppendToBatch
  <2>3. Len(buffer) \in Nat /\ Len(batch) \in Nat
    BY LenProperties
  <2>4. /\ flushing' \in BOOLEAN
        /\ ~flushing' => ~(Len(batch') >= batchSize)
        /\ timer' \in {"armed", timer}
    <3>1. flushing' = (Len(batch') >= batchSize)
      BY <1>3 DEF Receive, AppendToBatch
    <3>2. timer' \in {"armed", timer}
      BY <1>3 DEF Receive, AppendToBatch
    <3>3. flushing' \in BOOLEAN
      BY <3>1
    <3>4. QED
      BY <3>1, <3>2, <3>3
  <2>5. Len(batch) < batchSize
    BY <1>3 DEF Receive
  <2>6. Len(batch') <= batchSize
    BY <2>2, <2>3, <2>5
  <2>7. ~flushing' => Len(batch') < batchSize
    BY <2>2, <2>3, <2>4
  <2>8. QED
    BY <1>3, <2>1, <2>2, <2>4, <2>6, <2>7 DEF Receive
<1>4. CASE Timeout
  BY <1>4 DEF Timeout
<1>5. CASE StopSeen
  BY <1>5 DEF StopSeen
<1>6. CASE DrainEnd
  BY <1>6 DEF DrainEnd
<1>7. CASE WriteOne
  <2>1. /\ Head(batch) \in Adds
        /\ batch' \in Seq(Adds)
        /\ Len(batch') = Len(batch) - 1
    BY <1>7, HeadTailProperties DEF WriteOne
  <2>2. attempted' \in Seq(Adds)
    BY <1>7, <2>1, AppendProperties DEF WriteOne
  <2>3. Len(batch') <= batchSize
    BY <2>1, LenProperties
  <2>4. QED
    BY <1>7, <2>1, <2>2, <2>3 DEF WriteOne
<1>8. CASE EndFlush
  <2>1. Len(batch') = 0 /\ batch' = batch
    BY <1>8, EmptySeq DEF EndFlush
  <2>2. RepoTypeOK'
    BY <1>8 DEF EndFlush
  <2>3. WriterInv'
    BY <1>8, <2>1 DEF EndFlush
  <2>4. QED
    BY <2>2, <2>3
<1>9. CASE TimerFire
  BY <1>9 DEF TimerFire
<1>10. ASSUME NEW c \in Closers, CloseStep(c)
       PROVE  TypeInv'
  <2>1. CASE CloseBegin(c)
    BY <2>1 DEF CloseBegin, writerVars
  <2>2. CASE CloseWaited(c)
    BY <2>2 DEF CloseWaited, writerVars
  <2>3. CASE CloseRunner(c)
    BY <2>3 DEF CloseRunner
  <2>4. QED
    BY <1>10, <2>1, <2>2, <2>3 DEF CloseStep
<1>11. CASE UNCHANGED repoVars
  BY <1>11 DEF repoVars
<1>12. ASSUME NEW q \in Queries, Query(q)
       PROVE  TypeInv'
  BY <1>12 DEF Query
<1>13. QED
  BY <1>1, <1>2, <1>3, <1>4, <1>5, <1>6, <1>7, <1>8, <1>9, <1>10, <1>11, <1>12
     DEF RepoNext, Writer, Quiet

(* Every variable keeps its type, and neither the channel nor the batch ever *)
(* holds more than New allows it.                                            *)
THEOREM RepoTypeCorrect == RepoSpec => []RepoTypeOK
<1>1. TypeInv => RepoTypeOK
  BY DEF TypeInv
<1>2. QED
  BY TypeInvInit, TypeInvNext, <1>1, PTL DEF RepoSpec

LEMMA TypeInvAlways == RepoSpec => []TypeInv
BY TypeInvInit, TypeInvNext, PTL DEF RepoSpec

-----------------------------------------------------------------------------
(* The timer.  TimerCoversBatch is inductive given the types. *)

LEMMA TimerNext ==
    TypeInv /\ TimerCoversBatch /\ [RepoNext]_repoVars => TimerCoversBatch'
<1> SUFFICES ASSUME TypeInv, TimerCoversBatch, [RepoNext]_repoVars
             PROVE  TimerCoversBatch'
  OBVIOUS
<1>1. CASE UNCHANGED <<batch, mode, flushing, timer>>
  BY <1>1 DEF TimerCoversBatch
<1>2. CASE Receive
  <2>1. batch \in Seq(Adds) /\ Head(buffer) \in Adds
    BY <1>2, HeadTailProperties DEF Receive, TypeInv, RepoTypeOK
  <2>2. batch' = Append(batch, Head(buffer))
    BY <1>2 DEF Receive, AppendToBatch
  <2>3. batch' /= <<>> /\ Len(batch') = Len(batch) + 1
    BY <2>1, <2>2, AppendProperties
  <2>4. batch = <<>> <=> Len(batch') = 1
    BY <2>1, <2>3, EmptySeq, LenProperties
  <2>5. timer' = IF Len(batch') = 1 /\ batchTimeout > 0 THEN "armed" ELSE timer
    BY <1>2 DEF Receive, AppendToBatch
  <2>6. timer /= "received" /\ ((timer /= "nil") <=> (batchTimeout > 0 /\ batch /= <<>>))
    BY <1>2 DEF Receive, TimerCoversBatch
  <2>7. CASE batch = <<>>
    BY <2>3, <2>4, <2>5, <2>6, <2>7 DEF TimerCoversBatch
  <2>8. CASE batch /= <<>>
    BY <2>3, <2>4, <2>5, <2>6, <2>8 DEF TimerCoversBatch
  <2>9. QED
    BY <2>7, <2>8
<1>3. CASE Timeout
  BY <1>3 DEF Timeout, TimerCoversBatch
<1>4. CASE StopSeen
  BY <1>4 DEF StopSeen, TimerCoversBatch
<1>5. CASE DrainEnd
  BY <1>5 DEF DrainEnd, TimerCoversBatch
<1>6. CASE WriteOne
  BY <1>6 DEF WriteOne, TimerCoversBatch
<1>7. CASE EndFlush
  BY <1>7 DEF EndFlush, TimerCoversBatch
<1>8. CASE TimerFire
  BY <1>8 DEF TimerFire, TimerCoversBatch
<1>9. ASSUME NEW a \in Adds, AddStep(a)
      PROVE  UNCHANGED <<batch, mode, flushing, timer>>
  BY <1>9 DEF AddStep, AddEnter, AddReadClosed, AddCtxDone, AddStopped, AddSend,
              AddTo, writerVars
<1>10. ASSUME NEW c \in Closers, CloseStep(c)
       PROVE  UNCHANGED <<batch, mode, flushing, timer>>
  BY <1>10 DEF CloseStep, CloseBegin, CloseWaited, CloseRunner, writerVars
<1>11. Cancel \/ UNCHANGED repoVars => UNCHANGED <<batch, mode, flushing, timer>>
  BY DEF Cancel, repoVars, writerVars
<1>12. ASSUME NEW q \in Queries, Query(q)
       PROVE  UNCHANGED <<batch, mode, flushing, timer>>
  BY <1>12 DEF Query
<1>13. QED
  BY <1>1, <1>2, <1>3, <1>4, <1>5, <1>6, <1>7, <1>8, <1>9, <1>10, <1>11, <1>12
     DEF RepoNext, Writer, Quiet

(* Between flushes a partial batch has a timer, and only a partial batch. *)
THEOREM TimerCorrect == RepoSpec => []TimerCoversBatch
<1>1. RepoInit => TimerCoversBatch
  BY DEF RepoInit, TimerCoversBatch
<1>2. QED
  BY <1>1, TypeInvAlways, TimerNext, PTL DEF RepoSpec

-----------------------------------------------------------------------------
(* The log: what was accepted, in the order it was accepted.  Only a send  *)
(* changes it, by appending; the writer moves items along it.              *)

LEMMA LogOfReceive ==
    ASSUME TypeInv, Receive
    PROVE  Log' = Log /\ batch' \o buffer' = batch \o buffer
<1>1. batch \in Seq(Adds) /\ buffer \in Seq(Adds) /\ attempted \in Seq(Adds)
  BY DEF TypeInv, RepoTypeOK
<1>2. /\ buffer /= <<>>
      /\ attempted' = attempted
      /\ batch' = Append(batch, Head(buffer))
      /\ buffer' = Tail(buffer)
  BY DEF Receive, AppendToBatch
<1>3. batch' \o buffer' = batch \o buffer
  BY <1>1, <1>2, MoveAcross
<1>4. batch' \in Seq(Adds) /\ buffer' \in Seq(Adds)
  BY <1>1, <1>2, HeadTailProperties, AppendProperties
<1>5. Log = attempted \o (batch \o buffer)
  BY <1>1, ConcatAssociative DEF Log
<1>6. (attempted \o batch') \o buffer' = attempted \o (batch' \o buffer')
  BY <1>1, <1>4, ConcatAssociative
<1>7. Log' = (attempted \o batch') \o buffer'
  BY <1>2 DEF Log
<1>8. QED
  BY <1>3, <1>5, <1>6, <1>7

LEMMA LogOfWrite ==
    ASSUME TypeInv, WriteOne
    PROVE  Log' = Log
<1>1. batch \in Seq(Adds) /\ attempted \in Seq(Adds)
  BY DEF TypeInv, RepoTypeOK
<1>2. /\ batch /= <<>>
      /\ attempted' = Append(attempted, Head(batch))
      /\ batch' = Tail(batch)
      /\ buffer' = buffer
  BY DEF WriteOne
<1>3. attempted' \o batch' = attempted \o batch
  BY <1>1, <1>2, MoveAcross
<1>4. QED
  BY <1>2, <1>3 DEF Log

LEMMA LogOfSend ==
    ASSUME TypeInv, NEW a \in Adds, AddSend(a)
    PROVE  /\ Log' = Append(Log, a)
           /\ batch' \o buffer' = Append(batch \o buffer, a)
           /\ Accepted' = Accepted \cup {a}
           /\ a \notin Accepted
<1>1. batch \in Seq(Adds) /\ buffer \in Seq(Adds) /\ attempted \in Seq(Adds)
  BY DEF TypeInv, RepoTypeOK
<1>2. /\ batch' = batch
      /\ attempted' = attempted
      /\ buffer' = Append(buffer, a)
  BY DEF AddSend, AddTo, writerVars
<1>3. batch' \o buffer' = Append(batch \o buffer, a)
  BY <1>1, <1>2, AppendAfterConcat
<1>4. attempted \o batch \in Seq(Adds)
  BY <1>1, ConcatProperties
<1>5. Log' = Append(Log, a)
  BY <1>1, <1>2, <1>4, AppendAfterConcat DEF Log
<1>6. add \in [Adds -> AddStates]
  BY DEF TypeInv, RepoTypeOK
<1>7. add[a] = "sending" /\ add' = [add EXCEPT ![a] = "ok"]
  BY DEF AddSend, AddTo
<1>8. a \notin Accepted
  BY <1>7 DEF Accepted
<1>9. \A b \in Adds : b \in Accepted' <=> b \in Accepted \/ b = a
  BY <1>6, <1>7 DEF Accepted
<1>10. Accepted' \subseteq Adds /\ Accepted \subseteq Adds
  BY DEF Accepted
<1>11. Accepted' = Accepted \cup {a}
  BY <1>9, <1>10
<1>12. QED
  BY <1>3, <1>5, <1>8, <1>11

(* Every other step leaves the log, and what has been accepted, alone. *)
LogUnchanged ==
    UNCHANGED <<attempted, batch, buffer>> /\ Accepted' = Accepted

LEMMA OtherSteps ==
    ASSUME TypeInv, [RepoNext]_repoVars
    PROVE  \/ LogUnchanged
           \/ Receive
           \/ WriteOne
           \/ \E a \in Adds : AddSend(a)
<1>1. add \in [Adds -> AddStates]
  BY DEF TypeInv, RepoTypeOK
<1>2. ASSUME NEW a \in Adds, NEW s \in {"invalid", "cancelled", "entered", "closed", "sending"},
             AddTo(a, s), add[a] \in {"none", "entered", "sending"}
      PROVE  Accepted' = Accepted
  BY <1>1, <1>2 DEF AddTo, Accepted
<1>3. ASSUME NEW a \in Adds, AddStep(a)
      PROVE  LogUnchanged \/ AddSend(a)
  <2>1. CASE AddEnter(a)
    BY <2>1, <1>2 DEF AddEnter, AddTo, LogUnchanged, writerVars
  <2>2. CASE AddReadClosed(a)
    BY <2>2, <1>2 DEF AddReadClosed, AddTo, LogUnchanged, writerVars
  <2>3. CASE AddCtxDone(a)
    BY <2>3, <1>2 DEF AddCtxDone, AddTo, LogUnchanged, writerVars
  <2>4. CASE AddStopped(a)
    BY <2>4, <1>2 DEF AddStopped, AddTo, LogUnchanged, writerVars
  <2>5. QED
    BY <1>3, <2>1, <2>2, <2>3, <2>4 DEF AddStep
<1>4. ASSUME NEW c \in Closers, CloseStep(c)
      PROVE  LogUnchanged
  BY <1>4 DEF CloseStep, CloseBegin, CloseWaited, CloseRunner, LogUnchanged, Accepted,
              writerVars
<1>5. Cancel \/ UNCHANGED repoVars => LogUnchanged
  BY DEF Cancel, repoVars, LogUnchanged, Accepted, writerVars
<1>6. Timeout \/ StopSeen \/ DrainEnd \/ EndFlush \/ TimerFire => LogUnchanged
  BY DEF Timeout, StopSeen, DrainEnd, EndFlush, TimerFire, LogUnchanged, Accepted
<1>7. ASSUME NEW q \in Queries, Query(q)
      PROVE  LogUnchanged
  BY <1>7 DEF Query, LogUnchanged, Accepted
<1>8. QED
  BY <1>3, <1>4, <1>5, <1>6, <1>7 DEF RepoNext, Writer, Quiet

LEMMA AccountedNext ==
    TypeInv /\ Accounted /\ [RepoNext]_repoVars => Accounted'
<1> SUFFICES ASSUME TypeInv, Accounted, [RepoNext]_repoVars
             PROVE  Accounted'
  OBVIOUS
<1>1. CASE LogUnchanged
  BY <1>1 DEF LogUnchanged, Accounted, Log
<1>2. CASE Receive
  <2>1. Log' = Log
    BY <1>2, LogOfReceive
  <2>2. Accepted' = Accepted
    BY <1>2 DEF Receive, Accepted
  <2>3. QED
    BY <2>1, <2>2 DEF Accounted
<1>3. CASE WriteOne
  <2>1. Log' = Log
    BY <1>3, LogOfWrite
  <2>2. Accepted' = Accepted
    BY <1>3 DEF WriteOne, Accepted
  <2>3. QED
    BY <2>1, <2>2 DEF Accounted
<1>4. ASSUME NEW a \in Adds, AddSend(a)
      PROVE  Accounted'
  <2>1. Log' = Append(Log, a) /\ Accepted' = Accepted \cup {a} /\ a \notin Accepted
    BY <1>4, LogOfSend
  <2>2. Log \in Seq(Adds)
    BY ConcatProperties DEF Log, TypeInv, RepoTypeOK
  <2>3. Range(Log) = Accepted /\ Distinct(Log)
    BY DEF Accounted, Distinct
  <2>4. Range(Log') = Accepted'
    BY <2>1, <2>2, <2>3, RangeOfAppend
  <2>5. Distinct(Log')
    BY <2>1, <2>2, <2>3, DistinctAppend
  <2>6. QED
    BY <2>4, <2>5 DEF Accounted, Distinct
<1>5. QED
  BY <1>1, <1>2, <1>3, <1>4, OtherSteps

(* What Add accepted, and nothing else, is in the buffer, in the batch or    *)
(* written, each item once.                                                  *)
THEOREM AccountedAlways == RepoSpec => []Accounted
<1>1. RepoInit => Accounted
  <2> SUFFICES ASSUME RepoInit PROVE Accounted
    OBVIOUS
  <2>1. Log = <<>>
    BY EmptySeq, ConcatEmptySeq DEF RepoInit, Log
  <2>2. Accepted = {}
    BY DEF RepoInit, Accepted
  <2>3. QED
    BY <2>1, <2>2 DEF Accounted, Range
<1>2. QED
  BY <1>1, TypeInvAlways, AccountedNext, PTL DEF RepoSpec

-----------------------------------------------------------------------------
(* Refinement of Handoff, with the batch and the buffer as its queue. *)

Queue == batch \o buffer

LEMMA QueueOfWrite ==
    ASSUME TypeInv, WriteOne
    PROVE  /\ Queue /= <<>>
           /\ Head(Queue) = Head(batch)
           /\ Queue' = Tail(Queue)
<1>1. batch \in Seq(Adds) /\ buffer \in Seq(Adds)
  BY DEF TypeInv, RepoTypeOK
<1>2. batch /= <<>> /\ batch' = Tail(batch) /\ buffer' = buffer
  BY DEF WriteOne
<1>3. Tail(batch) \in Seq(Adds) /\ Head(batch) \in Adds
  BY <1>1, <1>2, HeadTailProperties
<1> DEFINE rest == Tail(batch) \o buffer
<1>4. rest \in Seq(Adds)
  BY <1>1, <1>3, ConcatProperties
<1>5. (<<Head(batch)>> \o Tail(batch)) \o buffer = <<Head(batch)>> \o rest
  BY <1>1, <1>3, ConcatAssociative
<1>6. Queue = <<Head(batch)>> \o rest
  BY <1>1, <1>2, <1>5, HeadThenTail DEF Queue
<1>7. Queue \in Seq(Adds) /\ Queue /= <<>>
  BY <1>1, <1>2, ConcatProperties, ConcatEqualIffEmpty DEF Queue
<1>8. Queue = <<Head(Queue)>> \o Tail(Queue) /\ Head(Queue) \in Adds /\ Tail(Queue) \in Seq(Adds)
  BY <1>7, HeadThenTail, HeadTailProperties
<1>9. Head(Queue) = Head(batch)
  <2>1. Len(batch) \in Nat /\ Len(batch) > 0 /\ Len(buffer) \in Nat
    BY <1>1, <1>2, EmptySeq, LenProperties
  <2>2. Queue[1] = batch[1]
    BY <1>1, <2>1, ConcatProperties DEF Queue
  <2>3. Head(Queue) = Queue[1] /\ Head(batch) = batch[1]
    BY <1>1, <1>2, <1>7
  <2>4. QED
    BY <2>2, <2>3
<1>10. Tail(Queue) = rest
  <2> HIDE DEF rest
  <2>1. <<Head(batch)>> \o rest = <<Head(batch)>> \o Tail(Queue) /\ <<Head(batch)>> \in Seq(Adds)
    BY <1>3, <1>6, <1>8, <1>9
  <2>2. QED
    BY <1>4, <1>8, <2>1, ConcatSimplifications
<1>11. Queue' = rest
  BY <1>2 DEF Queue
<1>12. QED
  BY <1>7, <1>9, <1>10, <1>11

LEMMA AcceptOfSend ==
    ASSUME TypeInv, Accounted, NEW a \in Adds, AddSend(a)
    PROVE  Handoff!Accept(a)
<1>1. batch \in Seq(Adds) /\ buffer \in Seq(Adds) /\ attempted \in Seq(Adds)
  BY DEF TypeInv, RepoTypeOK
<1>2. Queue \in Seq(Adds) /\ Len(Queue) = Len(batch) + Len(buffer)
  BY <1>1, ConcatProperties DEF Queue
<1>3. Len(Queue) < batchSize + bufferSize
  <2>1. Len(batch) \in Nat /\ Len(buffer) \in Nat
    BY <1>1, LenProperties
  <2>2. Len(batch) <= batchSize /\ Len(buffer) < bufferSize
    BY DEF TypeInv, RepoTypeOK, AddSend
  <2>3. QED
    BY <1>2, <2>1, <2>2, LimitsPositive
<1>4. a \notin Range(Queue) \cup Range(attempted)
  <2>1. Range(Log) = Accepted /\ a \notin Accepted
    BY LogOfSend DEF Accounted
  <2>2. Log = attempted \o Queue
    BY <1>1, ConcatAssociative DEF Log, Queue
  <2>3. Range(Log) = Range(attempted) \cup Range(Queue)
    BY <1>1, <1>2, <2>2, RangeConcatenation
  <2>4. QED
    BY <2>1, <2>3
<1>5. Queue' = Append(Queue, a)
  BY LogOfSend DEF Queue
<1>6. attempted' = attempted
  BY DEF AddSend, AddTo, writerVars
<1>7. QED
  BY <1>3, <1>4, <1>5, <1>6 DEF Handoff!Accept, Handoff!Range, Range, Queue

LEMMA HandoffNext ==
    TypeInv /\ Accounted /\ [RepoNext]_repoVars
        => [Handoff!Next]_(Handoff!handoffVars)
<1> SUFFICES ASSUME TypeInv, Accounted, [RepoNext]_repoVars
             PROVE  Handoff!Next \/ UNCHANGED Handoff!handoffVars
  OBVIOUS
<1>1. CASE LogUnchanged
  BY <1>1 DEF LogUnchanged, Handoff!handoffVars
<1>2. CASE Receive
  <2>1. batch' \o buffer' = batch \o buffer
    BY <1>2, LogOfReceive
  <2>2. attempted' = attempted
    BY <1>2 DEF Receive
  <2>3. QED
    BY <2>1, <2>2 DEF Handoff!handoffVars
<1>3. CASE WriteOne
  <2>1. Queue /= <<>> /\ Queue' = Tail(Queue) /\ attempted' = Append(attempted, Head(Queue))
    BY <1>3, QueueOfWrite DEF WriteOne
  <2>2. Handoff!PassOn
    BY <2>1 DEF Handoff!PassOn, Queue
  <2>3. QED
    BY <2>2 DEF Handoff!Next
<1>4. ASSUME NEW a \in Adds, AddSend(a)
      PROVE  Handoff!Next
  BY <1>4, AcceptOfSend DEF Handoff!Next
<1>5. QED
  BY <1>1, <1>2, <1>3, <1>4, OtherSteps

(* The repository implements the bounded first-in first-out hand-off. *)
THEOREM RepositoryHandsOver == RepoSpec => HandsOver
<1>1. RepoInit => Handoff!Init
  BY ConcatEmptySeq, EmptySeq DEF RepoInit, Handoff!Init
<1>2. QED
  BY <1>1, TypeInvAlways, AccountedAlways, HandoffNext, PTL
     DEF RepoSpec, HandsOver, Handoff!Spec

-----------------------------------------------------------------------------
(* Close.  With one call of Close at most, that call waits for the writer  *)
(* before it closes the runner, and the writer never opens it again; a     *)
(* lookup may.                                                             *)

CloseInv ==
    /\ closed => \E c \in Closers : closer[c] /= "none"
    /\ onceDone <=> \E c \in Closers : closer[c] = "returned"
    /\ \A c \in Closers : closer[c] \in {"releasing", "returned"} => mode = "exited"
    /\ onceDone /\ runnerOpen => ReopenedByQuery

LEMMA CloseInvNext ==
    ASSUME \A c, d \in Closers : c = d,
           TypeInv, CloseInv, [RepoNext]_repoVars
    PROVE  CloseInv'
<1> USE DEF CloseInv
<1>1. closer \in [Closers -> CloserStates] /\ onceDone \in BOOLEAN /\ runnerOpen \in BOOLEAN
  BY DEF TypeInv, RepoTypeOK
<1>2. mode = "exited" => ~flushing
  BY DEF TypeInv, WriterInv
<1>3. CASE UNCHANGED <<closed, closer, onceDone, query, runnerOpen, mode>>
  BY <1>3 DEF ReopenedByQuery
<1>4. CASE mode /= "exited" /\ UNCHANGED <<closed, closer, onceDone>>
  BY <1>1, <1>4
<1>5. Receive \/ Timeout \/ StopSeen \/ DrainEnd \/ WriteOne \/ EndFlush
        => mode /= "exited" /\ UNCHANGED <<closed, closer, onceDone>>
  BY <1>2 DEF Receive, Timeout, StopSeen, DrainEnd, WriteOne, EndFlush
<1>6. ASSUME NEW a \in Adds, AddStep(a)
      PROVE  UNCHANGED <<closed, closer, onceDone, query, runnerOpen, mode>>
  BY <1>6 DEF AddStep, AddEnter, AddReadClosed, AddCtxDone, AddStopped, AddSend,
              AddTo, writerVars
<1>7. Cancel \/ TimerFire \/ UNCHANGED repoVars
        => UNCHANGED <<closed, closer, onceDone, query, runnerOpen, mode>>
  BY DEF Cancel, TimerFire, repoVars, writerVars
<1>8. ASSUME NEW c \in Closers, CloseBegin(c)
      PROVE  CloseInv'
  <2>1. ~closed
    BY <1>8 DEF CloseBegin
  <2>2. closer'[c] = "waiting" /\ UNCHANGED <<onceDone, runnerOpen, mode>>
    BY <1>1, <1>8, <2>1 DEF CloseBegin, writerVars
  <2>3. ~onceDone
    BY <1>8 DEF CloseBegin
  <2>4. QED
    BY <2>2, <2>3
<1>9. ASSUME NEW c \in Closers, CloseWaited(c)
      PROVE  CloseInv'
  <2>1. closer[c] = "waiting" /\ closer'[c] = "releasing" /\ mode = "exited"
    BY <1>1, <1>9 DEF CloseWaited
  <2>2. UNCHANGED <<closed, onceDone, runnerOpen, mode>>
    BY <1>9 DEF CloseWaited, writerVars
  <2>3. QED
    BY <2>1, <2>2
<1>10. ASSUME NEW c \in Closers, CloseRunner(c)
       PROVE  CloseInv'
  <2>1. closer[c] = "releasing" /\ closer'[c] = "returned" /\ mode' = mode /\ closed' = closed
    BY <1>1, <1>10 DEF CloseRunner
  <2>2. ~onceDone
    BY <2>1
  <2>3. onceDone' /\ ~runnerOpen'
    BY <1>10, <2>2 DEF CloseRunner
  <2>4. QED
    BY <2>1, <2>3
<1>11. ASSUME NEW q \in Queries, Query(q)
       PROVE  CloseInv'
  <2>1. UNCHANGED <<closed, closer, onceDone, mode>>
    BY <1>11 DEF Query
  <2>2. ASSUME onceDone, runnerOpen'
        PROVE  ReopenedByQuery'
    <3>1. CASE runnerOpen
      <4>1. PICK r \in Queries : query[r] = "reopened"
        BY <2>2, <3>1 DEF ReopenedByQuery
      <4>2. query'[r] = "reopened"
        BY <1>11, <4>1 DEF Query, TypeInv, RepoTypeOK
      <4>3. QED
        BY <4>2 DEF ReopenedByQuery
    <3>2. CASE ~runnerOpen
      <4>1. query'[q] = "reopened"
        BY <1>11, <2>2, <3>2 DEF Query, TypeInv, RepoTypeOK
      <4>2. QED
        BY <4>1 DEF ReopenedByQuery
    <3>3. QED
      BY <3>1, <3>2
  <2>3. QED
    BY <2>1, <2>2
<1>12. QED
  BY <1>3, <1>4, <1>5, <1>6, <1>7, <1>8, <1>9, <1>10, <1>11
     DEF RepoNext, Writer, CloseStep, Quiet

(* If Close is called once, then its return means that the writer has exited *)
(* and that the runner holds a database only if a lookup opened it later.    *)
THEOREM SingleCloseReleases ==
    ASSUME \A c, d \in Closers : c = d
    PROVE  RepoSpec => []Released
<1>1. RepoInit => CloseInv
  BY DEF RepoInit, CloseInv
<1>2. CloseInv => Released
  BY DEF CloseInv, Released
<1>3. TypeInv /\ CloseInv /\ [RepoNext]_repoVars => CloseInv'
  BY CloseInvNext
<1>4. QED
  BY <1>1, <1>2, <1>3, TypeInvAlways, PTL DEF RepoSpec

-----------------------------------------------------------------------------
(* What is accepted while the repository is open cannot stay behind in the *)
(* channel: the writer leaves its select only after it is closed, and the  *)
(* drain loop only when the channel is empty.                              *)

SelectsWhileOpen == ~closed => mode = "select"

(* The item is on its way, and out of the channel when the drain is over. *)
OnItsWay(a) ==
    /\ add[a] = "ok"
    /\ mode \in {"final", "exited"} => a \in Range(attempted \o batch)

LEMMA SelectsWhileOpenNext ==
    ASSUME TypeInv, SelectsWhileOpen, [RepoNext]_repoVars
    PROVE  SelectsWhileOpen'
<1>1. CASE UNCHANGED <<closed, mode>>
  BY <1>1 DEF SelectsWhileOpen
<1>2. closed' => SelectsWhileOpen'
  BY DEF SelectsWhileOpen
<1>3. ASSUME NEW a \in Adds, AddStep(a)
      PROVE  UNCHANGED <<closed, mode>>
  BY <1>3 DEF AddStep, AddEnter, AddReadClosed, AddCtxDone, AddStopped, AddSend,
              AddTo, writerVars
<1>4. ASSUME NEW c \in Closers, CloseStep(c)
      PROVE  closed' \/ UNCHANGED <<closed, mode>>
  BY <1>4 DEF CloseStep, CloseBegin, CloseWaited, CloseRunner, writerVars
<1>5. Writer => closed' \/ UNCHANGED <<closed, mode>>
  <2>1. closed \in BOOLEAN
    BY DEF TypeInv, RepoTypeOK
  <2>2. Writer => closed' = closed
    BY DEF Writer, Receive, Timeout, StopSeen, DrainEnd, WriteOne, EndFlush
  <2>3. Writer /\ ~closed => mode' = mode
    BY DEF Writer, Receive, Timeout, StopSeen, DrainEnd, WriteOne, EndFlush, SelectsWhileOpen
  <2>4. QED
    BY <2>1, <2>2, <2>3
<1>6. Cancel \/ TimerFire \/ UNCHANGED repoVars => UNCHANGED <<closed, mode>>
  BY DEF Cancel, TimerFire, repoVars, writerVars
<1>7. ASSUME NEW q \in Queries, Query(q)
      PROVE  UNCHANGED <<closed, mode>>
  BY <1>7 DEF Query
<1>8. QED
  BY <1>1, <1>2, <1>3, <1>4, <1>5, <1>6, <1>7 DEF RepoNext, Quiet

(* An item that is in the log when the channel is empty is out of it. *)
LEMMA OutOfEmptyChannel ==
    ASSUME TypeInv, Accounted, NEW a \in Adds, add[a] = "ok", buffer = <<>>
    PROVE  a \in Range(attempted \o batch)
<1>1. attempted \o batch \in Seq(Adds)
  BY ConcatProperties DEF TypeInv, RepoTypeOK
<1>2. Log = attempted \o batch
  BY <1>1, ConcatEmptySeq DEF Log
<1>3. QED
  BY <1>2 DEF Accounted, Accepted

LEMMA OnItsWayNext ==
    ASSUME NEW a \in Adds, TypeInv, Accounted, OnItsWay(a), [RepoNext]_repoVars
    PROVE  OnItsWay(a)'
<1>1. add'[a] = "ok"
  <2>1. a \in Accepted
    BY DEF OnItsWay, Accepted
  <2>2. Receive \/ WriteOne => add' = add
    BY DEF Receive, WriteOne
  <2>3. a \in Accepted'
    BY <2>1, <2>2, OtherSteps, LogOfSend DEF LogUnchanged, Accepted
  <2>4. QED
    BY <2>3 DEF Accepted
<1>2. CASE UNCHANGED <<attempted, batch, mode>>
  BY <1>1, <1>2 DEF OnItsWay
<1>3. CASE mode' \notin {"final", "exited"}
  BY <1>1, <1>3 DEF OnItsWay
<1>4. CASE WriteOne
  <2>1. attempted' \o batch' = attempted \o batch
    BY <1>4, MoveAcross DEF WriteOne, TypeInv, RepoTypeOK
  <2>2. mode' = mode
    BY <1>4 DEF WriteOne
  <2>3. QED
    BY <1>1, <2>1, <2>2 DEF OnItsWay
<1>5. CASE DrainEnd
  <2>1. buffer = <<>> /\ UNCHANGED <<attempted, batch>>
    BY <1>5 DEF DrainEnd
  <2>2. QED
    BY <1>1, <2>1, OutOfEmptyChannel DEF OnItsWay
<1>6. CASE EndFlush
  BY <1>1, <1>6 DEF EndFlush, OnItsWay, TypeInv, WriterInv
<1>7. Receive \/ StopSeen => mode' \notin {"final", "exited"}
  BY DEF Receive, StopSeen
<1>8. Timeout \/ Cancel \/ TimerFire \/ UNCHANGED repoVars => UNCHANGED <<attempted, batch, mode>>
  BY DEF Timeout, Cancel, TimerFire, repoVars, writerVars
<1>9. ASSUME NEW b \in Adds, AddStep(b)
      PROVE  UNCHANGED <<attempted, batch, mode>>
  BY <1>9 DEF AddStep, AddEnter, AddReadClosed, AddCtxDone, AddStopped, AddSend,
              AddTo, writerVars
<1>10. ASSUME NEW c \in Closers, CloseStep(c)
       PROVE  UNCHANGED <<attempted, batch, mode>>
  BY <1>10 DEF CloseStep, CloseBegin, CloseWaited, CloseRunner, writerVars
<1>11. ASSUME NEW q \in Queries, Query(q)
       PROVE  UNCHANGED <<attempted, batch, mode>>
  BY <1>11 DEF Query
<1>12. QED
  BY <1>2, <1>3, <1>4, <1>5, <1>6, <1>7, <1>8, <1>9, <1>10, <1>11 DEF RepoNext, Writer, Quiet

(* If Close is called once, then whatever was accepted before it was called *)
(* has been written when it returns, however the last sends, the timer and  *)
(* the drain interleave.                                                    *)
THEOREM CloseWritesWhatWasAccepted ==
    ASSUME \A c, d \in Closers : c = d
    PROVE  RepoSpec => WrittenBeforeReturn
<1>1. ASSUME NEW a \in Adds, NEW c \in Closers
      PROVE  RepoSpec => [](add[a] = "ok" /\ ~closed
                              => [](closer[c] = "returned" => a \in Range(attempted)))
  <2>1. RepoInit => CloseInv /\ SelectsWhileOpen
    BY DEF RepoInit, CloseInv, SelectsWhileOpen
  <2>2. TypeInv /\ CloseInv /\ [RepoNext]_repoVars => CloseInv'
    BY CloseInvNext
  <2>3. TypeInv /\ SelectsWhileOpen /\ [RepoNext]_repoVars => SelectsWhileOpen'
    BY SelectsWhileOpenNext
  <2>4. SelectsWhileOpen /\ add[a] = "ok" /\ ~closed => OnItsWay(a)
    BY DEF SelectsWhileOpen, OnItsWay
  <2>5. TypeInv /\ Accounted /\ OnItsWay(a) /\ [RepoNext]_repoVars => OnItsWay(a)'
    BY OnItsWayNext
  <2>6. TypeInv /\ CloseInv /\ OnItsWay(a)
          => (closer[c] = "returned" => a \in Range(attempted))
    <3> SUFFICES ASSUME TypeInv, CloseInv, OnItsWay(a), closer[c] = "returned"
                 PROVE  a \in Range(attempted)
      OBVIOUS
    <3>1. mode = "exited" /\ batch = <<>>
      BY DEF CloseInv, TypeInv, WriterInv
    <3>2. attempted \o batch = attempted
      BY <3>1, ConcatEmptySeq DEF TypeInv, RepoTypeOK
    <3>3. QED
      BY <3>1, <3>2 DEF OnItsWay
  <2>7. QED
    BY <2>1, <2>2, <2>3, <2>4, <2>5, <2>6, TypeInvAlways, AccountedAlways, PTL DEF RepoSpec
<1>2. QED
  BY <1>1 DEF WrittenBeforeReturn
=============================================================================
