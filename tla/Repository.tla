----------------------------- MODULE Repository -----------------------------
(***************************************************************************)
(* The write side of the Postgres repository (database/postgres.go):       *)
(* callers of Add put packet maxima into a buffered channel, one writer    *)
(* goroutine (run) collects them into batches and writes them when a batch *)
(* is full, when its timer fires or when the repository is closed, and     *)
(* Close stops the writer and closes the SQL runner.                       *)
(*                                                                         *)
(* Each member of Adds is one call of Add, and stands as well for the      *)
(* packet maximum that the call carries: a call happens at most once, which*)
(* bounds the model.  Each member of Closers is one call of Close.  The    *)
(* calls share one context, as they do in main.go.  Each member of Queries *)
(* is one call of PacketMaxByID or PacketMaxInRange: what it reads is not  *)
(* part of this module, but it uses the SQL runner that Close closes.      *)
(***************************************************************************)
EXTENDS Integers, Sequences, Functions

CONSTANTS
    Adds,               \* calls of Add
    Valid,              \* those whose argument passes validatePacketMax
    Closers,            \* calls of Close
    Queries,            \* calls of PacketMaxByID and PacketMaxInRange
    CfgBatchSize,       \* Config.BatchSize, as configured
    CfgBufferSize,      \* Config.BufferSize, as configured
    CfgBatchTimeout     \* Config.BatchTimeout, as configured

ASSUME ValidAssumption == Valid \subseteq Adds
ASSUME ConfigAssumption ==
    CfgBatchSize \in Int /\ CfgBufferSize \in Int /\ CfgBatchTimeout \in Int

VARIABLES
    ctxDone,        \* the callers' context is cancelled
    closed,         \* Repository.closed, and stopCh closed with it
    buffer,         \* the channel Repository.buffer
    batch,          \* the items of run's batch not handed to writePacketMax yet
    mode,           \* where run is: its select, the drain loop, its last flush
    flushing,       \* run is inside flush
    timer,          \* run's timer: nil, running, ticked, or ticked and received
    add,            \* where each call of Add is, or what it returned
    closer,         \* where each call of Close is
    onceDone,       \* closeOnce has run
    query,          \* what became of each lookup: see Query
    runnerOpen,     \* the SQL runner holds an open database
    attempted       \* the items handed to writePacketMax, in order

repoVars == <<ctxDone, closed, buffer, batch, mode, flushing, timer, add,
              closer, onceDone, query, runnerOpen, attempted>>

writerVars == <<batch, mode, flushing, timer, runnerOpen, attempted>>

(* New: the limits the repository works with. *)
batchSize    == IF CfgBatchSize <= 0 THEN 1 ELSE CfgBatchSize
bufferSize   == IF CfgBufferSize <= 0 THEN batchSize ELSE CfgBufferSize
batchTimeout == IF CfgBatchTimeout < 0 THEN 0 ELSE CfgBatchTimeout

AddStates    == {"none", "entered", "sending",
                 "ok", "invalid", "cancelled", "closed"}
AddReturned  == {"ok", "invalid", "cancelled", "closed"}
CloserStates == {"none", "waiting", "releasing", "returned"}

RepoInit ==
    /\ ctxDone = FALSE
    /\ closed = FALSE
    /\ buffer = <<>>
    /\ batch = <<>>
    /\ mode = "select"
    /\ flushing = FALSE
    /\ timer = "nil"
    /\ add = [a \in Adds |-> "none"]
    /\ closer = [c \in Closers |-> "none"]
    /\ onceDone = FALSE
    /\ query = [q \in Queries |-> "none"]
    /\ runnerOpen = FALSE
    /\ attempted = <<>>

-----------------------------------------------------------------------------
(* The caller's context. *)

Cancel ==
    /\ ~ctxDone
    /\ ctxDone' = TRUE
    /\ UNCHANGED <<closed, buffer, writerVars, add, closer, onceDone, query>>

-----------------------------------------------------------------------------
(* Add *)

AddTo(a, state) ==
    /\ add' = [add EXCEPT ![a] = state]
    /\ UNCHANGED <<ctxDone, closed, writerVars, closer, onceDone, query>>

(* The checks before the lock: the argument, then the context. *)
AddEnter(a) ==
    /\ add[a] = "none"
    /\ AddTo(a, IF a \notin Valid THEN "invalid"
                ELSE IF ctxDone THEN "cancelled" ELSE "entered")
    /\ UNCHANGED buffer

(* The flag is read under the read lock, and used after it is released. *)
AddReadClosed(a) ==
    /\ add[a] = "entered"
    /\ AddTo(a, IF closed THEN "closed" ELSE "sending")
    /\ UNCHANGED buffer

(* The three cases of the select; any that is ready may be chosen. *)
AddCtxDone(a) ==
    /\ add[a] = "sending"
    /\ ctxDone
    /\ AddTo(a, "cancelled")
    /\ UNCHANGED buffer

(* Mutant: the select has no case for stopCh. *)
AddNeverStopped(a) == FALSE /\ a \in Adds

AddStopped(a) ==
    /\ add[a] = "sending"
    /\ closed
    /\ AddTo(a, "closed")
    /\ UNCHANGED buffer

AddSend(a) ==
    /\ add[a] = "sending"
    /\ Len(buffer) < bufferSize
    /\ buffer' = Append(buffer, a)
    /\ AddTo(a, "ok")

AddStep(a) ==
    \/ AddEnter(a)
    \/ AddReadClosed(a)
    \/ AddCtxDone(a)
    \/ AddStopped(a)
    \/ AddSend(a)

-----------------------------------------------------------------------------
(* run: the writer goroutine *)

(* Mutant: the flush comes one item late. *)
AppendFlushesLate(item) ==
    /\ batch' = Append(batch, item)
    /\ timer' = IF Len(batch') = 1 /\ batchTimeout > 0 THEN "armed" ELSE timer
    /\ flushing' = (Len(batch') > batchSize)

(* Mutant: the first item does not start the timer. *)
AppendWithoutTimer(item) ==
    /\ batch' = Append(batch, item)
    /\ timer' = timer
    /\ flushing' = (Len(batch') >= batchSize)

(* appendToBatch: the first item of a batch starts the timer, the last one *)
(* that fits starts a flush.                                               *)
AppendToBatch(item) ==
    /\ batch' = Append(batch, item)
    /\ timer' = IF Len(batch') = 1 /\ batchTimeout > 0 THEN "armed" ELSE timer
    /\ flushing' = (Len(batch') >= batchSize)

(* A receive from the buffer, in the main select or in the drain loop. *)
Receive ==
    /\ mode \in {"select", "drain"}
    /\ ~flushing
    /\ buffer /= <<>>
    /\ buffer' = Tail(buffer)
    /\ AppendToBatch(Head(buffer))
    /\ UNCHANGED <<ctxDone, closed, mode, add, closer, onceDone, query, runnerOpen,
                   attempted>>

(* The timer ticks on its own, whatever the writer is doing. *)
TimerFire ==
    /\ timer = "armed"
    /\ timer' = "ticked"
    /\ UNCHANGED <<ctxDone, closed, buffer, batch, mode, flushing, add, closer,
                   onceDone, query, runnerOpen, attempted>>

(* The select takes the tick and calls flush, which returns at once, leaving *)
(* the timer alone, when the batch is empty.                                 *)
Timeout ==
    /\ mode = "select"
    /\ ~flushing
    /\ timer = "ticked"
    /\ timer' = "received"
    /\ flushing' = (batch /= <<>>)
    /\ UNCHANGED <<ctxDone, closed, buffer, batch, mode, add, closer, onceDone,
                   query, runnerOpen, attempted>>

StopSeen ==
    /\ mode = "select"
    /\ ~flushing
    /\ closed
    /\ mode' = "drain"
    /\ UNCHANGED <<ctxDone, closed, buffer, batch, flushing, timer, add, closer,
                   onceDone, query, runnerOpen, attempted>>

(* Mutant: run returns without the last flush. *)
DrainEndWithoutFlush ==
    /\ mode = "drain"
    /\ ~flushing
    /\ buffer = <<>>
    /\ mode' = "exited"
    /\ UNCHANGED <<ctxDone, closed, buffer, batch, flushing, timer, add, closer,
                   onceDone, query, runnerOpen, attempted>>

(* Mutant: the drain loop is left with break, which does not leave run. *)
DrainEndBreaks ==
    /\ mode = "drain"
    /\ ~flushing
    /\ buffer = <<>>
    /\ mode' = "select"
    /\ flushing' = (batch /= <<>>)
    /\ UNCHANGED <<ctxDone, closed, buffer, batch, timer, add, closer, onceDone,
                   query, runnerOpen, attempted>>

(* The drain loop finds the buffer empty: one last flush, then run returns. *)
DrainEnd ==
    /\ mode = "drain"
    /\ ~flushing
    /\ buffer = <<>>
    /\ mode' = IF batch = <<>> THEN "exited" ELSE "final"
    /\ flushing' = (batch /= <<>>)
    /\ UNCHANGED <<ctxDone, closed, buffer, batch, timer, add, closer, onceDone,
                   query, runnerOpen, attempted>>

(* Mutant: an item whose write failed is kept, though it may be stored. *)
WriteOneRetries ==
    /\ flushing
    /\ batch /= <<>>
    /\ attempted' = Append(attempted, Head(batch))
    /\ batch' \in {batch, Tail(batch)}
    /\ runnerOpen' \in {runnerOpen, TRUE}
    /\ UNCHANGED <<ctxDone, closed, buffer, mode, flushing, timer, add, closer,
                   onceDone, query>>

(* Mutant: the batch is written from its end. *)
WriteOneBackwards ==
    /\ flushing
    /\ batch /= <<>>
    /\ attempted' = Append(attempted, batch[Len(batch)])
    /\ batch' = SubSeq(batch, 1, Len(batch) - 1)
    /\ runnerOpen' \in {runnerOpen, TRUE}
    /\ UNCHANGED <<ctxDone, closed, buffer, mode, flushing, timer, add, closer,
                   onceDone, query>>

(* processBatch hands over the next item.  Whatever the write returns, the *)
(* item is not kept.  The runner opens the database when it holds none,    *)
(* unless the ping fails.                                                  *)
WriteOne ==
    /\ flushing
    /\ batch /= <<>>
    /\ attempted' = Append(attempted, Head(batch))
    /\ batch' = Tail(batch)
    /\ runnerOpen' \in {runnerOpen, TRUE}
    /\ UNCHANGED <<ctxDone, closed, buffer, mode, flushing, timer, add, closer,
                   onceDone, query>>

(* Mutant: flush leaves the timer alone. *)
EndFlushKeepsTimer ==
    /\ flushing
    /\ batch = <<>>
    /\ flushing' = FALSE
    /\ mode' = IF mode = "final" THEN "exited" ELSE mode
    /\ UNCHANGED <<ctxDone, closed, buffer, batch, timer, add, closer, onceDone,
                   query, runnerOpen, attempted>>

(* flush ends with deactivateTimer; after the last flush run returns. *)
EndFlush ==
    /\ flushing
    /\ batch = <<>>
    /\ flushing' = FALSE
    /\ timer' = "nil"
    /\ mode' = IF mode = "final" THEN "exited" ELSE mode
    /\ UNCHANGED <<ctxDone, closed, buffer, batch, add, closer, onceDone,
                   query, runnerOpen, attempted>>

Writer ==
    \/ Receive
    \/ Timeout
    \/ StopSeen
    \/ DrainEnd
    \/ WriteOne
    \/ EndFlush

-----------------------------------------------------------------------------
(* Close *)

(* Under the lock: the first call closes the flag and stopCh and will wait *)
(* for the writer; any other call goes on to the runner.                   *)
CloseBegin(c) ==
    /\ closer[c] = "none"
    /\ closer' = [closer EXCEPT ![c] = IF closed THEN "releasing" ELSE "waiting"]
    /\ closed' = TRUE
    /\ UNCHANGED <<ctxDone, buffer, writerVars, add, onceDone, query>>

(* Mutant: Close does not wait for the writer. *)
CloseWithoutWait(c) ==
    /\ closer[c] = "waiting"
    /\ closer' = [closer EXCEPT ![c] = "releasing"]
    /\ UNCHANGED <<ctxDone, closed, buffer, writerVars, add, onceDone, query>>

CloseWaited(c) ==
    /\ closer[c] = "waiting"
    /\ mode = "exited"
    /\ closer' = [closer EXCEPT ![c] = "releasing"]
    /\ UNCHANGED <<ctxDone, closed, buffer, writerVars, add, onceDone, query>>

(* closeOnce: the first call that gets here closes the runner. *)
CloseRunner(c) ==
    /\ closer[c] = "releasing"
    /\ closer' = [closer EXCEPT ![c] = "returned"]
    /\ onceDone' = TRUE
    /\ runnerOpen' = (runnerOpen /\ onceDone)
    /\ UNCHANGED <<ctxDone, closed, buffer, batch, mode, flushing, timer, add,
                   query, attempted>>

CloseStep(c) ==
    \/ CloseBegin(c)
    \/ CloseWaited(c)
    \/ CloseRunner(c)

-----------------------------------------------------------------------------
(* The lookups, whose SELECT goes to the runner whether the repository is    *)
(* closed or not.  The runner opens the database when it holds none, unless  *)
(* the call fails before; a lookup that makes it hold one after closeOnce    *)
(* has run is remembered as such.                                            *)
Query(q) ==
    /\ query[q] = "none"
    /\ runnerOpen' \in {runnerOpen, TRUE}
    /\ query' = [query EXCEPT ![q] =
           IF onceDone /\ runnerOpen' /\ ~runnerOpen THEN "reopened" ELSE "returned"]
    /\ UNCHANGED <<ctxDone, closed, buffer, batch, mode, flushing, timer, add,
                   closer, onceDone, attempted>>

-----------------------------------------------------------------------------
(* Every call has returned and the writer has nothing left to do. *)
Quiet ==
    /\ \A a \in Adds : add[a] \in AddReturned
    /\ \A q \in Queries : query[q] /= "none"
    /\ \A c \in Closers : closer[c] = "returned"
    /\ IF closed THEN mode = "exited" ELSE buffer = <<>> /\ ~flushing
    /\ UNCHANGED repoVars

RepoNext ==
    \/ Cancel
    \/ \E a \in Adds : AddStep(a)
    \/ Writer
    \/ TimerFire
    \/ \E c \in Closers : CloseStep(c)
    \/ \E q \in Queries : Query(q)
    \/ Quiet

RepoSpec == RepoInit /\ [][RepoNext]_repoVars

(* A started call goes on: the scheduler runs every runnable goroutine, the *)
(* timer fires, and the database answers each statement.  Nothing forces a  *)
(* caller to call Add, Close or a lookup, or the context to be cancelled.   *)
RepoFairness ==
    /\ WF_repoVars(Writer)
    /\ WF_repoVars(TimerFire)
    /\ \A a \in Adds : WF_repoVars(add[a] /= "none" /\ AddStep(a))
    /\ \A c \in Closers : WF_repoVars(closer[c] /= "none" /\ CloseStep(c))

FairRepoSpec == RepoSpec /\ RepoFairness

-----------------------------------------------------------------------------
(* Properties *)

Log      == attempted \o batch \o buffer
Accepted == {a \in Adds : add[a] = "ok"}

(* Every variable has its type, and neither the channel nor the batch ever *)
(* holds more than its limit.                                              *)
RepoTypeOK ==
    /\ ctxDone \in BOOLEAN
    /\ closed \in BOOLEAN
    /\ buffer \in Seq(Adds) /\ Len(buffer) <= bufferSize
    /\ batch \in Seq(Adds) /\ Len(batch) <= batchSize
    /\ mode \in {"select", "drain", "final", "exited"}
    /\ flushing \in BOOLEAN
    /\ timer \in {"nil", "armed", "ticked", "received"}
    /\ add \in [Adds -> AddStates]
    /\ closer \in [Closers -> CloserStates]
    /\ onceDone \in BOOLEAN
    /\ query \in [Queries -> {"none", "returned", "reopened"}]
    /\ runnerOpen \in BOOLEAN
    /\ attempted \in Seq(Adds)

(* What Add accepted and nothing else is in the buffer, in the batch or      *)
(* written, each item in one place and once: no interleaving of callers,     *)
(* writer, timer and Close loses an item, writes it twice or writes one that *)
(* its caller was told had been refused.                                     *)
Accounted ==
    /\ Range(Log) = Accepted
    /\ \A i, j \in DOMAIN Log : Log[i] = Log[j] => i = j

(* Between flushes the writer has a timer that is running or has ticked      *)
(* exactly when timeouts are configured and it holds a partial batch: no     *)
(* order of ticks, full batches and resets leaves a batch without a timer,   *)
(* or an old tick to flush a younger batch.                                  *)
TimerCoversBatch ==
    ~flushing /\ mode /= "exited" =>
        /\ timer /= "received"
        /\ (timer /= "nil") <=> (batchTimeout > 0 /\ batch /= <<>>)

(* The buffered writer is a first-in first-out hand-off: it writes the items *)
(* in the order their Add calls sent them, and holds no more than a batch    *)
(* and a full channel of items that a crash would lose.                      *)
Handoff == INSTANCE Handoff
    WITH Items <- Adds, Capacity <- batchSize + bufferSize,
         queue <- batch \o buffer, out <- attempted

HandsOver == Handoff!Spec

(* The runner holds an open database after closeOnce only because a lookup *)
(* came after it, to which Close is no barrier.                            *)
ReopenedByQuery == \E q \in Queries : query[q] = "reopened"

(* When every call of Close has returned, the writer has exited and the SQL  *)
(* runner holds no open database but one that a lookup opened after the      *)
(* runner had been closed: no write opens one behind the back of Close, and  *)
(* none that was opened earlier, for a write or a lookup, outlives it.       *)
Released ==
    (\A c \in Closers : closer[c] = "returned") /\ Closers /= {}
        => mode = "exited" /\ (runnerOpen => ReopenedByQuery)

(* Once the writer has exited, every item that Add accepted has been written. *)
AddStores ==
    mode = "exited" => Accepted \subseteq Range(attempted)

(* An item accepted before Close was called has been written by the time    *)
(* that a call of Close returns.                                            *)
WrittenBeforeReturn ==
    \A a \in Adds : \A c \in Closers :
        [](add[a] = "ok" /\ ~closed
            => [](closer[c] = "returned" => a \in Range(attempted)))

(* A call of Add returns: neither a full channel nor a writer that is gone *)
(* holds a caller for ever.                                                *)
AddsReturn ==
    \A a \in Adds : add[a] = "entered" ~> add[a] \in AddReturned

(* A call of Close returns, whatever the writer was doing. *)
CloseReturns ==
    \A c \in Closers : closer[c] = "waiting" ~> closer[c] = "returned"

(* An item accepted while the repository is open is written, even when no   *)
(* further item comes to fill its batch, if timeouts are configured.        *)
AcceptedIsWritten ==
    batchTimeout > 0 =>
        \A a \in Adds : (add[a] = "ok" /\ ~closed) ~> a \in Range(attempted)
=============================================================================
