--------------------------- MODULE PipelineProofs ---------------------------
(***************************************************************************)
(* Theorems about Pipeline, for every set of packets, every number of      *)
(* workers and every configuration: the pipeline uses the repository as    *)
(* Repository allows, which carries the theorems of RepositoryProofs over  *)
(* to the program; packets are conserved; none is given up before the      *)
(* cancellation; and what a clean exit leaves behind.                      *)
(***************************************************************************)
EXTENDS Pipeline, RepositoryProofs, FiniteSetTheorems

-----------------------------------------------------------------------------
(* Types, without those of the repository and the bound on the gauge. *)

WorkerPlaces == {"absent", "new", "select", "finding", "adding", "leaving",
                 "finished", "done"}

PipeTypes ==
    /\ generator \in {"ticking", "sending", "stopped"}
    /\ outgoing \in Adds \cup {None}
    /\ generated \in SUBSET Adds
    /\ packets \in Seq(Adds) /\ Len(packets) <= channelSize
    /\ worker \in [Workers -> WorkerPlaces]
    /\ held \in [Workers -> Adds \cup {None}]
    /\ pool \in {"running", "returned"}
    /\ main \in {"listening", "serving", "failing", "waiting", "servers",
                 "cleanup", "exited", "killed"}
    /\ dropped \in SUBSET Adds

(* Who has a packet: the generator while it sends, a worker while it looks *)
(* for the maximum and while it is inside Add.                             *)
Holders ==
    /\ outgoing /= None <=> generator = "sending"
    /\ \A w \in Workers : held[w] /= None <=> worker[w] \in {"finding", "adding"}

Base == TypeInv /\ PipeTypes /\ Holders

LEMMA ChannelSizePositive == channelSize \in Nat \ {0}
BY PacketBufferAssumption DEF channelSize

LEMMA BaseInit == Init => Base
<1> SUFFICES ASSUME Init PROVE Base
  OBVIOUS
<1>1. TypeInv
  BY TypeInvInit DEF Init
<1>2. <<>> \in Seq(Adds) /\ Len(<<>>) = 0 /\ 0 <= channelSize
  BY EmptySeq, ChannelSizePositive
<1>3. PICK staff \in Staffs :
        worker = [w \in Workers |-> IF w \in staff THEN "new" ELSE "absent"]
  BY DEF Init
<1>4. worker \in [Workers -> WorkerPlaces]
      /\ \A w \in Workers : worker[w] \notin {"finding", "adding"}
  BY <1>3 DEF WorkerPlaces
<1>5. PipeTypes
  BY <1>2, <1>4 DEF Init, PipeTypes
<1>6. Holders
  BY <1>4 DEF Init, Holders
<1>7. QED
  BY <1>1, <1>5, <1>6 DEF Base

(* Every step of the pipeline is one that Repository allows. *)
LEMMA StepOfRepository ==
    ASSUME Base, [Next]_vars
    PROVE  [RepoNext]_repoVars
<1>1. GeneratorStep => UNCHANGED repoVars
  BY DEF GeneratorStep, GenTick, GenStop, GenSend, GenAbort, GeneratorOnly
<1>2. ASSUME NEW w \in Workers, WorkerStep(w)
      PROVE  [RepoNext]_repoVars
  <2>1. CASE WorkerInAdd(w)
    <3>1. held[w] \in Adds
      BY <2>1 DEF WorkerInAdd, Base, PipeTypes, Holders
    <3>2. QED
      BY <2>1, <3>1 DEF WorkerInAdd, RepoNext
  <2>2. ~WorkerInAdd(w) => UNCHANGED repoVars
    BY <1>2 DEF WorkerStep, WorkerStarted, WorkerReceive, WorkerLeave, WorkerFound,
                WorkerAbort, WorkerAddDone, WorkerFinished, WorkerDone
  <2>3. QED
    BY <2>1, <2>2
<1>3. PoolStep => UNCHANGED repoVars
  BY DEF PoolStep, PoolReturn, DrainPacket, DrainReturn, PoolOnly
<1>4. SetCtxDone => Cancel \/ UNCHANGED repoVars
  <2>1. ctxDone \in BOOLEAN
    BY DEF Base, TypeInv, RepoTypeOK
  <2>2. QED
    BY <2>1 DEF SetCtxDone, Cancel, repoVars, writerVars
<1>5. MainStep => [RepoNext]_repoVars
  BY <1>4, MainClosesAssumption
     DEF MainStep, Listen, ListenFail, Fatal, SeeCtxDone, ServerError, WorkersWaited,
         ServersWaited, Cleanup, Exit, RepoNext
<1>6. Signal \/ WriterStep \/ TimerStep => RepoNext
  BY DEF Signal, WriterStep, TimerStep, RepoNext
<1>7. Ended \/ UNCHANGED vars => UNCHANGED repoVars
  BY DEF Ended, vars
<1>8. ASSUME NEW q \in Queries, Lookup(q)
      PROVE  RepoNext
  BY <1>8 DEF Lookup, RepoNext
<1>9. QED
  BY <1>1, <1>2, <1>3, <1>5, <1>6, <1>7, <1>8 DEF Next

-----------------------------------------------------------------------------
(* What is common to several steps. *)

SamePipe == UNCHANGED pipeVars

(* The steps that change nothing of the pipeline's own. *)
LEMMA StepCases ==
    ASSUME [Next]_vars
    PROVE  \/ SamePipe
           \/ \E p \in Adds : GenTick(p)
           \/ GenStop \/ GenSend \/ GenAbort
           \/ \E w \in Workers :
                 \/ WorkerStarted(w) \/ WorkerReceive(w) \/ WorkerLeave(w)
                 \/ WorkerFound(w) \/ WorkerAbort(w) \/ WorkerAddDone(w)
                 \/ WorkerFinished(w) \/ WorkerDone(w)
           \/ PoolReturn \/ DrainPacket \/ DrainReturn
           \/ \E from, to \in {"listening", "serving", "failing", "waiting", "servers",
                               "cleanup", "exited", "killed"} : MainTo(from, to)
<1>1. GeneratorStep => (\E p \in Adds : GenTick(p)) \/ GenStop \/ GenSend \/ GenAbort
  BY DEF GeneratorStep
<1>2. ASSUME NEW w \in Workers, WorkerStep(w)
      PROVE  \/ SamePipe
             \/ WorkerStarted(w) \/ WorkerReceive(w) \/ WorkerLeave(w)
             \/ WorkerFound(w) \/ WorkerAbort(w) \/ WorkerAddDone(w)
             \/ WorkerFinished(w) \/ WorkerDone(w)
  BY <1>2 DEF WorkerStep, WorkerInAdd, SamePipe
<1>3. PoolStep => PoolReturn \/ DrainPacket \/ DrainReturn
  BY DEF PoolStep
<1>4. ASSUME MainStep
      PROVE  SamePipe \/ \E from, to \in {"listening", "serving", "failing", "waiting",
                               "servers", "cleanup", "exited", "killed"} : MainTo(from, to)
  BY <1>4, Zenon DEF MainStep, Listen, ListenFail, Fatal, SeeCtxDone, ServerError, WorkersWaited,
                     ServersWaited, Cleanup, Exit, SamePipe
<1>5. Signal \/ WriterStep \/ TimerStep => SamePipe
  BY DEF Signal, WriterStep, TimerStep, SamePipe
<1>6. Ended \/ UNCHANGED vars => SamePipe
  BY DEF Ended, vars, SamePipe
<1>7. ASSUME NEW q \in Queries, Lookup(q)
      PROVE  SamePipe
  BY <1>7 DEF Lookup, SamePipe
<1>8. QED
  BY <1>1, <1>2, <1>3, <1>4, <1>5, <1>6, <1>7, Zenon DEF Next

LEMMA TypesNext ==
    ASSUME Base, [Next]_vars
    PROVE  PipeTypes'
<1> USE DEF PipeTypes
<1>0. PipeTypes /\ Holders
  BY DEF Base
<1>1. CASE SamePipe
  BY <1>0, <1>1 DEF SamePipe, pipeVars, channelSize
<1>2. ASSUME NEW p \in Adds, GenTick(p)
      PROVE  PipeTypes'
  BY <1>0, <1>2 DEF GenTick, GeneratorOnly, channelSize
<1>3. CASE GenStop \/ GenAbort
  <2>1. GenAbort => outgoing \in Adds
    BY <1>0 DEF GenAbort, Holders
  <2>2. QED
    BY <1>0, <1>3, <2>1 DEF GenStop, GenAbort, GeneratorOnly, channelSize
<1>4. CASE GenSend
  <2>1. outgoing \in Adds
    BY <1>0, <1>4 DEF GenSend, Holders
  <2>2. packets' \in Seq(Adds) /\ Len(packets') = Len(packets) + 1
    BY <1>0, <1>4, <2>1, AppendProperties DEF GenSend
  <2>3. Len(packets) < channelSize /\ channelSize' = channelSize /\ Len(packets) \in Nat
    BY <1>0, <1>4, LenProperties DEF GenSend, channelSize
  <2>4. Len(packets') <= channelSize'
    BY <2>2, <2>3, ChannelSizePositive
  <2>5. QED
    BY <1>0, <1>4, <2>2, <2>4 DEF GenSend, GeneratorOnly
<1>5. ASSUME NEW w \in Workers,
             \/ WorkerStarted(w) \/ WorkerLeave(w) \/ WorkerFound(w)
             \/ WorkerFinished(w) \/ WorkerDone(w)
      PROVE  PipeTypes'
  <2>1. \E to \in WorkerPlaces : worker' = [worker EXCEPT ![w] = to]
    BY <1>5 DEF WorkerStarted, WorkerLeave, WorkerFound, WorkerFinished, WorkerDone,
                WorkerTo, WorkerPlaces
  <2>2. worker' \in [Workers -> WorkerPlaces]
    BY <1>0, <2>1
  <2>3. QED
    BY <1>0, <1>5, <2>2
       DEF WorkerStarted, WorkerLeave, WorkerFound, WorkerFinished, WorkerDone,
           WorkerTo, channelSize
<1>6. ASSUME NEW w \in Workers, WorkerReceive(w)
      PROVE  PipeTypes'
  <2>1. /\ Head(packets) \in Adds
        /\ Tail(packets) \in Seq(Adds) /\ Len(Tail(packets)) = Len(packets) - 1
    BY <1>0, <1>6, HeadTailProperties DEF WorkerReceive
  <2>2. Len(packets') <= channelSize'
    BY <1>0, <1>6, <2>1, ChannelSizePositive, LenProperties DEF WorkerReceive, channelSize
  <2>3. worker' \in [Workers -> WorkerPlaces] /\ held' \in [Workers -> Adds \cup {None}]
    BY <1>0, <1>6, <2>1 DEF WorkerReceive, WorkerTo, WorkerPlaces
  <2>4. QED
    BY <1>0, <1>6, <2>1, <2>2, <2>3 DEF WorkerReceive, WorkerTo
<1>7. ASSUME NEW w \in Workers, WorkerAbort(w) \/ WorkerAddDone(w)
      PROVE  PipeTypes'
  <2>1. held[w] \in Adds
    BY <1>0, <1>7 DEF WorkerAbort, WorkerAddDone, WorkerTo, Holders
  <2>2. dropped' \in SUBSET Adds
    BY <1>0, <1>7, <2>1 DEF WorkerAbort, WorkerAddDone
  <2>3. worker' \in [Workers -> WorkerPlaces] /\ held' \in [Workers -> Adds \cup {None}]
    BY <1>0, <1>7 DEF WorkerAbort, WorkerAddDone, WorkerTo, WorkerPlaces
  <2>4. QED
    BY <1>0, <1>7, <2>2, <2>3 DEF WorkerAbort, WorkerAddDone, WorkerTo, channelSize
<1>8. CASE PoolReturn \/ DrainReturn
  BY <1>0, <1>8 DEF PoolReturn, DrainReturn, PoolOnly, channelSize
<1>9. CASE DrainPacket
  <2>1. /\ Head(packets) \in Adds
        /\ Tail(packets) \in Seq(Adds) /\ Len(Tail(packets)) = Len(packets) - 1
    BY <1>0, <1>9, HeadTailProperties DEF DrainPacket
  <2>2. Len(packets') <= channelSize'
    BY <1>0, <1>9, <2>1, ChannelSizePositive, LenProperties DEF DrainPacket, channelSize
  <2>3. QED
    BY <1>0, <1>9, <2>1, <2>2 DEF DrainPacket, PoolOnly
<1>10. ASSUME NEW from, NEW to \in {"listening", "serving", "failing", "waiting", "servers",
                                    "cleanup", "exited", "killed"}, MainTo(from, to)
       PROVE  PipeTypes'
  BY <1>0, <1>10 DEF MainTo, channelSize
<1>11. QED
  BY <1>1, <1>2, <1>3, <1>4, <1>5, <1>6, <1>7, <1>8, <1>9, <1>10, StepCases

LEMMA HoldersNext ==
    ASSUME Base, [Next]_vars
    PROVE  Holders'
<1> USE DEF Holders
<1>0. PipeTypes /\ Holders
  BY DEF Base
<1>1. SamePipe => Holders'
  BY <1>0 DEF SamePipe, pipeVars
<1>2. ASSUME NEW p \in Adds, GenTick(p)
      PROVE  Holders'
  BY <1>0, <1>2, NoneAssumption DEF GenTick, GeneratorOnly
<1>3. GenStop \/ GenSend \/ GenAbort => Holders'
  BY <1>0 DEF GenStop, GenSend, GenAbort, GeneratorOnly
<1>4. ASSUME NEW w \in Workers,
             \/ WorkerStarted(w) \/ WorkerLeave(w) \/ WorkerFound(w)
             \/ WorkerFinished(w) \/ WorkerDone(w)
      PROVE  Holders'
  BY <1>0, <1>4 DEF PipeTypes, WorkerStarted, WorkerLeave, WorkerFound, WorkerFinished,
                    WorkerDone, WorkerTo
<1>5. ASSUME NEW w \in Workers, WorkerReceive(w)
      PROVE  Holders'
  <2>1. Head(packets) /= None
    BY <1>0, <1>5, HeadTailProperties, NoneAssumption DEF WorkerReceive, PipeTypes
  <2>2. QED
    BY <1>0, <1>5, <2>1 DEF PipeTypes, WorkerReceive, WorkerTo
<1>6. ASSUME NEW w \in Workers, WorkerAbort(w) \/ WorkerAddDone(w)
      PROVE  Holders'
  BY <1>0, <1>6 DEF PipeTypes, WorkerAbort, WorkerAddDone, WorkerTo
<1>7. PoolReturn \/ DrainPacket \/ DrainReturn => Holders'
  BY <1>0 DEF PoolReturn, DrainPacket, DrainReturn, PoolOnly
<1>8. ASSUME NEW from, NEW to, MainTo(from, to)
      PROVE  Holders'
  BY <1>0, <1>8 DEF MainTo
<1>9. QED
  BY <1>1, <1>2, <1>3, <1>4, <1>5, <1>6, <1>7, <1>8, StepCases

LEMMA BaseNext ==
    ASSUME Base, [Next]_vars
    PROVE  Base'
<1>1. TypeInv'
  BY StepOfRepository, TypeInvNext DEF Base
<1>2. QED
  BY <1>1, TypesNext, HoldersNext DEF Base

LEMMA BaseAlways == Spec => []Base
<1>1. Base /\ [Next]_vars => Base'
  BY BaseNext
<1>2. QED
  BY <1>1, BaseInit, PTL DEF Spec

(* The repository in the pipeline does what the module Repository allows: every *)
(* theorem about RepoSpec holds of the program.                                 *)
THEOREM PipelineUsesRepository == Spec => UsesRepository
<1>1. Init => RepoInit
  BY DEF Init
<1>2. Base /\ [Next]_vars => [RepoNext]_repoVars
  BY StepOfRepository
<1>3. QED
  BY <1>1, <1>2, BaseAlways, PTL DEF Spec, UsesRepository, RepoSpec

-----------------------------------------------------------------------------
(* The gauge counts the workers between the two updates; once Run returns *)
(* there are none.                                                        *)

Counted == {w \in Workers : worker[w] \in {"select", "finding", "adding", "leaving"}}

GaugeInv ==
    /\ active = Cardinality(Counted)
    /\ pool = "returned" => \A w \in Workers : worker[w] \in {"absent", "done"}

LEMMA CountedFinite == IsFiniteSet(Counted) /\ IsFiniteSet(Workers)
BY StaffsAssumption, FS_Subset DEF Counted

LEMMA GaugeInit == Init => GaugeInv
<1> SUFFICES ASSUME Init PROVE GaugeInv
  OBVIOUS
<1>1. PICK staff \in Staffs :
        worker = [w \in Workers |-> IF w \in staff THEN "new" ELSE "absent"]
  BY DEF Init
<1>2. Counted = {}
  BY <1>1 DEF Counted
<1>3. QED
  BY <1>2, FS_EmptySet DEF Init, GaugeInv

LEMMA GaugeNext ==
    ASSUME Base, GaugeInv, [Next]_vars
    PROVE  GaugeInv'
<1> USE DEF GaugeInv
<1>0. PipeTypes
  BY DEF Base
<1>1. UNCHANGED <<worker, active, pool>> => GaugeInv'
  BY DEF Counted
<1>2. ASSUME NEW w \in Workers, WorkerStarted(w)
      PROVE  GaugeInv'
  <2>1. worker[w] = "new" /\ worker' = [worker EXCEPT ![w] = "select"] /\ pool' = pool
    BY <1>2 DEF WorkerStarted, WorkerTo
  <2>2. Counted' = Counted \cup {w} /\ w \notin Counted
    BY <1>0, <2>1 DEF Counted, PipeTypes
  <2>3. Cardinality(Counted') = Cardinality(Counted) + 1
    BY <2>2, CountedFinite, FS_AddElement
  <2>4. QED
    BY <1>0, <1>2, <2>1, <2>3 DEF WorkerStarted, PipeTypes
<1>3. ASSUME NEW w \in Workers, WorkerFinished(w)
      PROVE  GaugeInv'
  <2>1. worker[w] = "leaving" /\ worker' = [worker EXCEPT ![w] = "finished"] /\ pool' = pool
    BY <1>3 DEF WorkerFinished, WorkerTo
  <2>2. Counted' = Counted \ {w} /\ w \in Counted
    BY <1>0, <2>1 DEF Counted, PipeTypes
  <2>3. Cardinality(Counted') = Cardinality(Counted) - 1
    BY <2>2, CountedFinite, FS_RemoveElement
  <2>4. QED
    BY <1>0, <1>3, <2>1, <2>3 DEF WorkerFinished, PipeTypes
<1>4. ASSUME NEW w \in Workers,
             \/ WorkerReceive(w) \/ WorkerLeave(w) \/ WorkerFound(w) \/ WorkerAbort(w)
             \/ WorkerAddDone(w) \/ WorkerDone(w)
      PROVE  GaugeInv'
  <2>1. \/ /\ worker[w] \in {"select", "finding", "adding"}
           /\ \E to \in {"select", "finding", "adding", "leaving"} :
                 worker' = [worker EXCEPT ![w] = to]
        \/ /\ worker[w] = "finished"
           /\ worker' = [worker EXCEPT ![w] = "done"]
    BY <1>4 DEF WorkerReceive, WorkerLeave, WorkerFound, WorkerAbort, WorkerAddDone,
                WorkerDone, WorkerTo
  <2>2. active' = active /\ pool' = pool
    BY <1>4 DEF WorkerReceive, WorkerLeave, WorkerFound, WorkerAbort, WorkerAddDone,
                WorkerDone, WorkerTo
  <2>3. Counted' = Counted
    BY <1>0, <2>1 DEF Counted, PipeTypes
  <2>4. QED
    BY <1>0, <2>1, <2>2, <2>3 DEF PipeTypes
<1>5. CASE PoolReturn \/ DrainReturn
  BY <1>5 DEF PoolReturn, DrainReturn, PoolOnly, NoWorkers, Counted
<1>6. QED
  <2>1. SamePipe \/ GenStop \/ GenSend \/ GenAbort \/ DrainPacket
          => UNCHANGED <<worker, active, pool>>
    BY DEF SamePipe, pipeVars, GenStop, GenSend, GenAbort, GeneratorOnly, DrainPacket, PoolOnly
  <2>2. \A p \in Adds : GenTick(p) => UNCHANGED <<worker, active, pool>>
    BY DEF GenTick, GeneratorOnly
  <2>3. \A from, to : MainTo(from, to) => UNCHANGED <<worker, active, pool>>
    BY DEF MainTo
  <2>4. QED
    BY <1>1, <1>2, <1>3, <1>4, <1>5, <2>1, <2>2, <2>3, StepCases

LEMMA GaugeAlways == Spec => []GaugeInv
<1>1. Base /\ GaugeInv /\ [Next]_vars => GaugeInv'
  BY GaugeNext
<1>2. QED
  BY <1>1, GaugeInit, BaseAlways, PTL DEF Spec

(* The gauge of active workers is zero once WorkerPool.Run has returned. *)
THEOREM GaugeSettlesAlways == Spec => []GaugeSettles
<1>1. GaugeInv => GaugeSettles
  <2> SUFFICES ASSUME GaugeInv, pool = "returned" PROVE active = 0
    BY DEF GaugeSettles
  <2>1. Counted = {}
    BY DEF GaugeInv, Counted
  <2>2. QED
    BY <2>1, FS_EmptySet DEF GaugeInv
<1>2. QED
  BY <1>1, GaugeAlways, PTL

(* Every variable keeps its type, the channel its capacity, and the gauge is *)
(* never negative or above the number of workers.                            *)
THEOREM PipelineTypeCorrect == Spec => []TypeOK
<1>1. Base /\ GaugeInv => TypeOK
  <2> SUFFICES ASSUME Base, GaugeInv PROVE TypeOK
    OBVIOUS
  <2>1. Counted \subseteq Workers
    BY DEF Counted
  <2>2. /\ Cardinality(Counted) \in Nat /\ Cardinality(Workers) \in Nat
        /\ Cardinality(Counted) <= Cardinality(Workers)
    BY <2>1, CountedFinite, FS_Subset, FS_CardinalityType
  <2>3. QED
    BY <2>2 DEF Base, TypeInv, PipeTypes, GaugeInv, TypeOK, WorkerPlaces
<1>2. QED
  BY <1>1, BaseAlways, GaugeAlways, PTL

-----------------------------------------------------------------------------
(* Shutdown.  main closes the repository only after generator and pool have *)
(* returned, and from then on nobody is inside Add: the writer that has     *)
(* seen the channel empty never finds it filled again.                      *)

ShutInv ==
    /\ main \in {"servers", "cleanup", "exited", "killed"} => WorkersReturned
    /\ closed => main \in {"cleanup", "exited"}
    /\ main = "exited" => closer["main"] = "returned"
    /\ mode \in {"drain", "final", "exited"} => closed
    /\ mode \in {"final", "exited"} => buffer = <<>>

(* What the calls of Add returned. *)
AnswerInv ==
    \A p \in Adds : add[p] \notin {"closed", "invalid"} /\ (add[p] = "cancelled" => ctxDone)

(* A worker inside Add keeps the repository open. *)
LEMMA AddingKeepsOpen ==
    ASSUME GaugeInv, ShutInv, NEW w \in Workers, worker[w] = "adding"
    PROVE  ~closed
BY DEF GaugeInv, ShutInv, WorkersReturned

(* The steps as the repository sees them. *)
LEMMA RepositoryCases ==
    ASSUME Base, [Next]_vars
    PROVE  \/ UNCHANGED <<closed, buffer, mode, add, closer>> /\ (ctxDone => ctxDone')
           \/ \E w \in Workers : WorkerInAdd(w)
           \/ WriterStep
           \/ Cleanup
<1>0. ctxDone \in BOOLEAN
  BY DEF Base, TypeInv, RepoTypeOK
<1> DEFINE Rest == UNCHANGED <<closed, buffer, mode, add, closer>> /\ (ctxDone => ctxDone')
<1>1. UNCHANGED repoVars => Rest
  BY DEF repoVars, writerVars
<1>2. GeneratorStep \/ PoolStep => UNCHANGED repoVars
  BY DEF GeneratorStep, GenTick, GenStop, GenSend, GenAbort, GeneratorOnly,
         PoolStep, PoolReturn, DrainPacket, DrainReturn, PoolOnly
<1>3. ASSUME NEW w \in Workers, WorkerStep(w), ~WorkerInAdd(w)
      PROVE  UNCHANGED repoVars
  BY <1>3 DEF WorkerStep, WorkerStarted, WorkerReceive, WorkerLeave, WorkerFound,
              WorkerAbort, WorkerAddDone, WorkerFinished, WorkerDone
<1>4. SetCtxDone \/ Cancel \/ TimerFire => Rest
  BY DEF SetCtxDone, Cancel, TimerFire, writerVars
<1>5. MainStep => Rest \/ Cleanup
  BY <1>1, <1>4 DEF MainStep, Listen, ListenFail, Fatal, SeeCtxDone, ServerError,
                    WorkersWaited, ServersWaited, Exit
<1>6. Signal \/ TimerStep => Rest
  BY <1>4 DEF Signal, TimerStep
<1>7. Ended \/ UNCHANGED vars => Rest
  BY <1>1 DEF Ended, vars
<1>8. ASSUME NEW q \in Queries, Lookup(q)
      PROVE  Rest
  BY <1>8 DEF Lookup, Query
<1>9. QED
  BY <1>1, <1>2, <1>3, <1>5, <1>6, <1>7, <1>8 DEF Next

(* One step of Add concerns that call alone. *)
LEMMA AddStepConcerns ==
    ASSUME Base, NEW a \in Adds, AddStep(a)
    PROVE  /\ \A b \in Adds : b /= a => add'[b] = add[b]
           /\ add[a] \notin AddReturned
           /\ add'[a] = "closed" => closed
           /\ add'[a] = "cancelled" => ctxDone
           /\ add'[a] /= "invalid"
           /\ UNCHANGED <<ctxDone, closed, mode, closer>>
<1>1. add \in [Adds -> AddStates] /\ a \in Valid
  BY GeneratedValidAssumption DEF Base, TypeInv, RepoTypeOK
<1>2. QED
  BY <1>1 DEF AddStep, AddEnter, AddReadClosed, AddCtxDone, AddStopped, AddSend, AddTo,
              AddReturned, writerVars

(* Generator and pool do not start again. *)
LEMMA ReturnedStays ==
    ASSUME Base, GaugeInv, [Next]_vars, WorkersReturned
    PROVE  WorkersReturned'
<1>1. generator = "stopped" /\ pool = "returned"
  BY DEF WorkersReturned
<1>2. ASSUME NEW p \in Adds, GenTick(p) \/ GenStop \/ GenSend \/ GenAbort
      PROVE  FALSE
  BY <1>1, <1>2 DEF GenTick, GenStop, GenSend, GenAbort
<1>3. GenStop \/ GenSend \/ GenAbort => FALSE
  BY <1>1 DEF GenStop, GenSend, GenAbort
<1>4. ASSUME NEW w \in Workers,
             \/ WorkerStarted(w) \/ WorkerReceive(w) \/ WorkerLeave(w)
             \/ WorkerFound(w) \/ WorkerAbort(w) \/ WorkerAddDone(w)
             \/ WorkerFinished(w) \/ WorkerDone(w)
      PROVE  WorkersReturned'
  BY <1>1, <1>4 DEF WorkerStarted, WorkerReceive, WorkerLeave, WorkerFound, WorkerAbort,
                    WorkerAddDone, WorkerFinished, WorkerDone, WorkerTo, WorkersReturned
<1>5. PoolReturn \/ DrainPacket \/ DrainReturn => FALSE
  BY <1>1 DEF PoolReturn, DrainPacket, DrainReturn
<1>6. ASSUME NEW from, NEW to, MainTo(from, to)
      PROVE  WorkersReturned'
  BY <1>1, <1>6 DEF MainTo, WorkersReturned
<1>7. SamePipe => WorkersReturned'
  BY <1>1 DEF SamePipe, pipeVars, WorkersReturned
<1>8. QED
  BY <1>2, <1>3, <1>4, <1>5, <1>6, <1>7, StepCases

(* Where main goes. *)
LEMMA MainMoves ==
    ASSUME [Next]_vars
    PROVE  \/ main' = main
           \/ main = "listening" /\ main' \in {"serving", "failing"}
           \/ main = "serving" /\ main' = "waiting"
           \/ main \in {"waiting", "failing"} /\ main' \in {"servers", "killed"} /\ WorkersReturned
           \/ main = "servers" /\ main' = "cleanup"
           \/ main = "cleanup" /\ main' = "exited" /\ closer["main"] = "returned"
                /\ UNCHANGED repoVars
<1>1. GeneratorStep \/ PoolStep => main' = main
  BY DEF GeneratorStep, GenTick, GenStop, GenSend, GenAbort, GeneratorOnly,
         PoolStep, PoolReturn, DrainPacket, DrainReturn, PoolOnly
<1>2. ASSUME NEW w \in Workers, WorkerStep(w)
      PROVE  main' = main
  BY <1>2 DEF WorkerStep, WorkerStarted, WorkerReceive, WorkerLeave, WorkerFound, WorkerAbort,
              WorkerInAdd, WorkerAddDone, WorkerFinished, WorkerDone, WorkerTo, pipeVars
<1>3. Signal \/ WriterStep \/ TimerStep \/ Ended \/ UNCHANGED vars => main' = main
  BY DEF Signal, WriterStep, TimerStep, Ended, vars, pipeVars
<1>4. ASSUME NEW q \in Queries, Lookup(q)
      PROVE  main' = main
  BY <1>4 DEF Lookup, pipeVars
<1>5. QED
  BY <1>1, <1>2, <1>3, <1>4
     DEF Next, MainStep, Listen, ListenFail, Fatal, SeeCtxDone, ServerError, WorkersWaited,
         ServersWaited, Cleanup, Exit, MainTo, pipeVars

LEMMA ShutNext ==
    ASSUME Base, GaugeInv, ShutInv, [Next]_vars
    PROVE  ShutInv'
<1>1. (main \in {"servers", "cleanup", "exited", "killed"} => WorkersReturned)'
  <2>1. main' \in {"servers", "cleanup", "exited", "killed"} => WorkersReturned
    BY MainMoves DEF ShutInv
  <2>2. QED
    BY <2>1, ReturnedStays
<1>2. main \in {"cleanup", "exited"} => main' \in {"cleanup", "exited"}
  BY MainMoves
<1>3. ASSUME UNCHANGED <<closed, buffer, mode, closer>>
      PROVE  ShutInv'
  <2>1. main' = "exited" => closer["main"] = "returned"
    BY MainMoves DEF ShutInv
  <2>2. QED
    BY <1>1, <1>2, <1>3, <2>1 DEF ShutInv
<1>4. ASSUME NEW w \in Workers, WorkerInAdd(w)
      PROVE  ShutInv'
  <2>1. ~closed /\ held[w] \in Adds
    BY <1>4, AddingKeepsOpen DEF WorkerInAdd, Base, PipeTypes, Holders
  <2>2. UNCHANGED <<closed, mode, closer, main>>
    BY <1>4, <2>1, AddStepConcerns DEF WorkerInAdd, pipeVars
  <2>3. QED
    BY <1>1, <2>1, <2>2 DEF ShutInv
<1>5. CASE WriterStep
  <2>1. UNCHANGED <<closed, closer, main>>
    BY <1>5 DEF WriterStep, pipeVars, Writer, Receive, Timeout, StopSeen, DrainEnd, WriteOne,
                EndFlush, AppendToBatch
  <2>2. mode' \in {"drain", "final", "exited"} => closed
    BY <1>5 DEF WriterStep, Writer, Receive, Timeout, StopSeen, DrainEnd, WriteOne,
                EndFlush, ShutInv
  <2>3. mode' \in {"final", "exited"} => buffer' = <<>>
    BY <1>5 DEF WriterStep, Writer, Receive, Timeout, StopSeen, DrainEnd, WriteOne,
                EndFlush, ShutInv
  <2>4. QED
    BY <1>1, <2>1, <2>2, <2>3 DEF ShutInv
<1>6. CASE Cleanup
  <2>1. main = "cleanup" /\ main' = "cleanup" /\ UNCHANGED <<buffer, mode>>
    BY <1>6 DEF Cleanup, pipeVars, CloseStep, CloseBegin, CloseWaited, CloseRunner, writerVars
  <2>2. closed => closed'
    BY <1>6 DEF Cleanup, CloseStep, CloseBegin, CloseWaited, CloseRunner
  <2>3. QED
    BY <1>1, <2>1, <2>2 DEF ShutInv
<1>7. QED
  BY <1>3, <1>4, <1>5, <1>6, RepositoryCases

LEMMA AnswerNext ==
    ASSUME Base, GaugeInv, ShutInv, AnswerInv, [Next]_vars
    PROVE  AnswerInv'
<1>1. ASSUME UNCHANGED add, ctxDone => ctxDone'
      PROVE  AnswerInv'
  BY <1>1 DEF AnswerInv
<1>2. ASSUME NEW w \in Workers, WorkerInAdd(w)
      PROVE  AnswerInv'
  <2>1. ~closed /\ held[w] \in Adds
    BY <1>2, AddingKeepsOpen DEF WorkerInAdd, Base, PipeTypes, Holders
  <2>2. AddStep(held[w])
    BY <1>2 DEF WorkerInAdd
  <2>3. QED
    BY <2>1, <2>2, AddStepConcerns DEF AnswerInv
<1>3. WriterStep \/ Cleanup => UNCHANGED <<add, ctxDone>>
  BY DEF WriterStep, Writer, Receive, Timeout, StopSeen, DrainEnd, WriteOne, EndFlush,
         Cleanup, CloseStep, CloseBegin, CloseWaited, CloseRunner
<1>4. QED
  BY <1>1, <1>2, <1>3, RepositoryCases

ShutdownInv == GaugeInv /\ ShutInv /\ AnswerInv

LEMMA ShutdownAlways == Spec => []ShutdownInv
<1>1. Init => ShutdownInv
  BY GaugeInit DEF Init, RepoInit, ShutdownInv, ShutInv, AnswerInv
<1>2. Base /\ ShutdownInv /\ [Next]_vars => ShutdownInv'
  BY GaugeNext, ShutNext, AnswerNext DEF ShutdownInv
<1>3. QED
  BY <1>1, <1>2, BaseAlways, PTL DEF Spec

(* No Add meets a closed repository, and a clean exit has written all that *)
(* was accepted, with the writer gone and the database released.           *)
THEOREM CleanExitAlways == Spec => []CleanExit
<1>1. \A c, d \in Closers : c = d
  BY MainClosesAssumption
<1>2. Init => CloseInv
  BY DEF Init, RepoInit, CloseInv
<1>3. Base /\ CloseInv /\ [Next]_vars => CloseInv'
  BY <1>1, StepOfRepository, CloseInvNext DEF Base
<1>4. Spec => []CloseInv
  BY <1>2, <1>3, BaseAlways, PTL DEF Spec
<1>5. Spec => []Accounted
  BY PipelineUsesRepository, AccountedAlways, PTL DEF UsesRepository
<1>6. Base /\ ShutdownInv /\ CloseInv /\ Accounted => CleanExit
  <2> SUFFICES ASSUME Base, ShutdownInv, CloseInv, Accounted
               PROVE  CleanExit
    OBVIOUS
  <2>1. \A p \in Adds : add[p] /= "closed"
    BY DEF ShutdownInv, AnswerInv
  <2>2. ASSUME main = "exited"
        PROVE  Accepted = Range(attempted) /\ mode = "exited" /\ (runnerOpen => ReopenedByQuery)
    <3>1. mode = "exited" /\ (runnerOpen => ReopenedByQuery)
      BY <2>2, MainClosesAssumption DEF ShutdownInv, ShutInv, CloseInv
    <3>2. batch = <<>> /\ buffer = <<>>
      BY <3>1 DEF ShutdownInv, ShutInv, Base, TypeInv, WriterInv
    <3>3. attempted \in Seq(Adds)
      BY DEF Base, TypeInv, RepoTypeOK
    <3>4. Log = attempted
      BY <3>2, <3>3, ConcatEmptySeq DEF Log
    <3>5. QED
      BY <3>1, <3>4 DEF Accounted
  <2>3. QED
    BY <2>1, <2>2 DEF CleanExit
<1>7. QED
  BY <1>4, <1>5, <1>6, BaseAlways, ShutdownAlways, PTL

-----------------------------------------------------------------------------
(* Conservation.  A packet is asked of Add only by the worker that holds it, *)
(* so whoever has it before, or gives it up before, has one that was not     *)
(* accepted.                                                                 *)

HasIt(p) == \E w \in Workers : held[w] = p

PlaceInv ==
    /\ \A p \in Adds :
          p \in generated <=>
            (outgoing = p \/ p \in InChannel \/ HasIt(p) \/ add[p] = "ok" \/ p \in dropped)
    /\ \A p \in Adds :
          outgoing = p => add[p] = "none" /\ p \notin InChannel /\ p \notin dropped /\ ~HasIt(p)
    /\ \A p \in InChannel : add[p] = "none" /\ p \notin dropped /\ ~HasIt(p)
    /\ \A p \in dropped : add[p] /= "ok" /\ ~HasIt(p)
    /\ \A p \in Adds : p \notin generated => add[p] = "none"
    /\ \A w \in Workers : worker[w] = "finding" => add[held[w]] = "none"
    /\ \A v, w \in Workers : held[v] = held[w] /\ held[w] /= None => v = w
    /\ Distinct(packets)

LEMMA DistinctTail ==
    ASSUME NEW S, NEW s \in Seq(S), s /= <<>>, Distinct(s)
    PROVE  /\ Range(s) = Range(Tail(s)) \cup {Head(s)}
           /\ Head(s) \notin Range(Tail(s))
           /\ Distinct(Tail(s))
<1>1. Len(s) \in Nat /\ Len(s) > 0 /\ DOMAIN s = 1 .. Len(s)
  BY EmptySeq, LenProperties
<1>2. /\ Tail(s) \in Seq(S) /\ Len(Tail(s)) = Len(s) - 1
      /\ \A i \in 1 .. Len(s) - 1 : Tail(s)[i] = s[i + 1]
  BY <1>1, HeadTailProperties
<1>3. DOMAIN Tail(s) = 1 .. Len(s) - 1
  BY <1>1, <1>2, LenProperties
<1>4. Head(s) = s[1]
  BY <1>1
<1>5. Distinct(Tail(s))
  BY <1>1, <1>2, <1>3, SMT DEF Distinct
<1>6. Head(s) \notin Range(Tail(s))
  BY <1>1, <1>2, <1>3, <1>4, SMT DEF Distinct, Range
<1>7. \A e \in Range(s) : e \in Range(Tail(s)) \cup {Head(s)}
  <2> SUFFICES ASSUME NEW i \in 1 .. Len(s)
               PROVE  s[i] = Head(s) \/ s[i] \in Range(Tail(s))
    BY <1>1 DEF Range
  <2>1. CASE i = 1
    BY <1>4, <2>1
  <2>2. CASE i /= 1
    <3>1. i - 1 \in DOMAIN Tail(s) /\ Tail(s)[i - 1] = s[i]
      BY <1>1, <1>2, <1>3, <2>2
    <3>2. QED
      BY <3>1 DEF Range
  <2>3. QED
    BY <2>1, <2>2
<1>8. Range(Tail(s)) \cup {Head(s)} \subseteq Range(s)
  BY <1>1, <1>2, <1>3, <1>4, SMT DEF Range
<1>9. QED
  BY <1>5, <1>6, <1>7, <1>8

LEMMA PlaceInit == Init => PlaceInv
<1> SUFFICES ASSUME Init PROVE PlaceInv
  OBVIOUS
<1>1. InChannel = {} /\ Distinct(packets)
  BY EmptySeq DEF Init, InChannel, Range, Distinct
<1>2. \A w \in Workers : held[w] = None /\ worker[w] /= "finding"
  BY DEF Init
<1>3. \A p \in Adds : p /= None /\ add[p] = "none" /\ outgoing /= p
  BY NoneAssumption DEF Init, RepoInit
<1>4. QED
  BY <1>1, <1>2, <1>3 DEF Init, PlaceInv, HasIt

(* Where add changes, a worker is inside the call. *)
LEMMA AddChanges ==
    ASSUME Base, [Next]_vars
    PROVE  UNCHANGED add \/ \E w \in Workers : WorkerInAdd(w)
<1>1. WriterStep \/ Cleanup => UNCHANGED add
  BY DEF WriterStep, Writer, Receive, Timeout, StopSeen, DrainEnd, WriteOne, EndFlush,
         Cleanup, CloseStep, CloseBegin, CloseWaited, CloseRunner
<1>2. QED
  BY <1>1, RepositoryCases

LEMMA PlaceNext ==
    ASSUME Base, PlaceInv, [Next]_vars
    PROVE  PlaceInv'
<1> USE DEF HasIt
<1>0. /\ outgoing \in Adds \cup {None} /\ packets \in Seq(Adds)
      /\ held \in [Workers -> Adds \cup {None}] /\ worker \in [Workers -> WorkerPlaces]
      /\ generated \subseteq Adds /\ dropped \subseteq Adds
      /\ add \in [Adds -> AddStates]
      /\ InChannel \subseteq Adds
  BY DEF Base, PipeTypes, TypeInv, RepoTypeOK, InChannel, Range
<1>1. ASSUME SamePipe, UNCHANGED add
      PROVE  PlaceInv'
  BY <1>1 DEF SamePipe, pipeVars, PlaceInv, InChannel
<1>2. ASSUME NEW w \in Workers, WorkerInAdd(w)
      PROVE  PlaceInv'
  <2>1. held[w] \in Adds /\ worker[w] = "adding"
    BY <1>2 DEF WorkerInAdd, Base, PipeTypes, Holders
  <2>2. AddStep(held[w]) /\ UNCHANGED pipeVars
    BY <1>2 DEF WorkerInAdd
  <2>3. /\ \A b \in Adds : b /= held[w] => add'[b] = add[b]
        /\ add[held[w]] /= "ok"
    BY <2>1, <2>2, AddStepConcerns DEF AddReturned
  <2>4. UNCHANGED <<outgoing, generated, packets, worker, held, dropped, InChannel>>
    BY <2>2 DEF pipeVars, InChannel
  <2>5. ASSUME NEW v \in Workers, worker[v] = "finding"
        PROVE  held[v] \in Adds /\ held[v] /= held[w]
    <3>1. held[v] /= None
      BY <2>5 DEF Base, Holders
    <3>2. QED
      BY <1>0, <2>1, <2>5, <3>1 DEF PlaceInv
  <2>6. QED
    BY <1>0, <2>1, <2>3, <2>4, <2>5 DEF PlaceInv
<1>3. ASSUME NEW p \in Adds, GenTick(p), UNCHANGED add
      PROVE  PlaceInv'
  <2>1. outgoing = None
    BY <1>3 DEF GenTick, Base, Holders
  <2>2. p \notin generated /\ outgoing' = p /\ generated' = generated \cup {p}
        /\ UNCHANGED <<packets, worker, held, dropped, InChannel>>
    BY <1>3 DEF GenTick, GeneratorOnly, InChannel
  <2>3. QED
    BY <1>0, <1>3, <2>1, <2>2, NoneAssumption DEF PlaceInv
<1>4. ASSUME GenStop, UNCHANGED add
      PROVE  PlaceInv'
  BY <1>4 DEF GenStop, GeneratorOnly, PlaceInv, InChannel
<1>5. ASSUME GenSend, UNCHANGED add
      PROVE  PlaceInv'
  <2>1. outgoing \in Adds
    BY <1>0, <1>5 DEF GenSend, Base, Holders
  <2>2. packets' = Append(packets, outgoing) /\ outgoing' = None
        /\ UNCHANGED <<generated, worker, held, dropped>>
    BY <1>5 DEF GenSend, GeneratorOnly
  <2>3. InChannel' = InChannel \cup {outgoing} /\ Distinct(packets')
    BY <1>0, <2>1, <2>2, RangeOfAppend, DistinctAppend DEF PlaceInv, InChannel
  <2>4. QED
    BY <1>0, <1>5, <2>1, <2>2, <2>3, NoneAssumption DEF PlaceInv
<1>6. ASSUME GenAbort, UNCHANGED add
      PROVE  PlaceInv'
  <2>1. outgoing \in Adds
    BY <1>0, <1>6 DEF GenAbort, Base, Holders
  <2>2. outgoing' = None /\ dropped' = dropped \cup {outgoing}
        /\ UNCHANGED <<generated, packets, worker, held, InChannel>>
    BY <1>6 DEF GenAbort, GeneratorOnly, InChannel
  <2>3. QED
    BY <1>0, <1>6, <2>1, <2>2, NoneAssumption DEF PlaceInv
<1>7. ASSUME NEW w \in Workers, UNCHANGED add,
             \/ WorkerStarted(w) \/ WorkerLeave(w) \/ WorkerFound(w)
             \/ WorkerFinished(w) \/ WorkerDone(w)
      PROVE  PlaceInv'
  <2>1. \A v \in Workers : worker'[v] = "finding" => worker[v] = "finding"
    BY <1>0, <1>7 DEF WorkerStarted, WorkerLeave, WorkerFound, WorkerFinished, WorkerDone,
                      WorkerTo
  <2>2. UNCHANGED <<outgoing, generated, packets, held, dropped, InChannel>>
    BY <1>7 DEF WorkerStarted, WorkerLeave, WorkerFound, WorkerFinished, WorkerDone,
                WorkerTo, InChannel
  <2>3. QED
    BY <1>7, <2>1, <2>2 DEF PlaceInv
<1>8. ASSUME NEW w \in Workers, WorkerReceive(w), UNCHANGED add
      PROVE  PlaceInv'
  <2> DEFINE p == Head(packets)
  <2>1. packets /= <<>> /\ packets' = Tail(packets) /\ worker[w] = "select"
        /\ UNCHANGED <<outgoing, generated, dropped>>
    BY <1>8 DEF WorkerReceive, WorkerTo
  <2>2. p \in Adds /\ InChannel = InChannel' \cup {p} /\ p \notin InChannel' /\ Distinct(packets')
    BY <1>0, <2>1, DistinctTail, HeadTailProperties DEF PlaceInv, InChannel
  <2>3. /\ held[w] = None /\ held'[w] = p
        /\ \A v \in Workers : v /= w => held'[v] = held[v] /\ worker'[v] = worker[v]
    BY <1>0, <1>8, <2>1 DEF WorkerReceive, WorkerTo, Base, Holders
  <2> HIDE DEF p
  <2>4. QED
    BY <1>0, <1>8, <2>1, <2>2, <2>3, NoneAssumption DEF PlaceInv
<1>9. ASSUME NEW w \in Workers, WorkerAbort(w) \/ WorkerAddDone(w), UNCHANGED add
      PROVE  PlaceInv'
  <2>1. held[w] \in Adds
    BY <1>0, <1>9 DEF WorkerAbort, WorkerAddDone, WorkerTo, Base, Holders
  <2>2. /\ held'[w] = None /\ worker'[w] = "select"
        /\ \A v \in Workers : v /= w => held'[v] = held[v] /\ worker'[v] = worker[v]
        /\ UNCHANGED <<outgoing, generated, packets, InChannel>>
    BY <1>0, <1>9 DEF WorkerAbort, WorkerAddDone, WorkerTo, InChannel
  <2>3. \/ add[held[w]] = "ok" /\ dropped' = dropped
        \/ add[held[w]] /= "ok" /\ dropped' = dropped \cup {held[w]}
    BY <1>9 DEF WorkerAbort, WorkerAddDone, WorkerTo, PlaceInv
  <2>4. ASSUME NEW v \in Workers, v /= w PROVE held[v] /= held[w]
    BY <2>1, <2>4, NoneAssumption DEF PlaceInv
  <2>5. QED
    BY <1>0, <1>9, <2>1, <2>2, <2>3, <2>4, NoneAssumption DEF PlaceInv
<1>10. ASSUME PoolReturn \/ DrainReturn, UNCHANGED add
       PROVE  PlaceInv'
  BY <1>10 DEF PoolReturn, DrainReturn, PoolOnly, PlaceInv, InChannel
<1>11. ASSUME DrainPacket, UNCHANGED add
       PROVE  PlaceInv'
  <2> DEFINE p == Head(packets)
  <2>1. packets /= <<>> /\ packets' = Tail(packets) /\ dropped' = dropped \cup {p}
        /\ UNCHANGED <<outgoing, generated, worker, held>>
    BY <1>11 DEF DrainPacket, PoolOnly
  <2>2. p \in Adds /\ InChannel = InChannel' \cup {p} /\ p \notin InChannel' /\ Distinct(packets')
    BY <1>0, <2>1, DistinctTail, HeadTailProperties DEF PlaceInv, InChannel
  <2> HIDE DEF p
  <2>3. QED
    BY <1>0, <1>11, <2>1, <2>2 DEF PlaceInv
<1>12. ASSUME NEW from, NEW to, MainTo(from, to), UNCHANGED add
       PROVE  PlaceInv'
  BY <1>12 DEF MainTo, PlaceInv, InChannel
<1>13. QED
  BY <1>1, <1>2, <1>3, <1>4, <1>5, <1>6, <1>7, <1>8, <1>9, <1>10, <1>11, <1>12,
     StepCases, AddChanges

LEMMA PlaceAlways == Spec => []PlaceInv
<1>1. Base /\ PlaceInv /\ [Next]_vars => PlaceInv'
  BY PlaceNext
<1>2. QED
  BY <1>1, PlaceInit, BaseAlways, PTL DEF Spec

(* Every packet is in exactly one place, and no other packet is anywhere. *)
THEOREM PacketsConserved == Spec => []Conserved
<1>1. Base /\ PlaceInv => Conserved
  <2> SUFFICES ASSUME Base, PlaceInv PROVE Conserved
    OBVIOUS
  <2>0. /\ outgoing \in Adds \cup {None} /\ held \in [Workers -> Adds \cup {None}]
        /\ generated \subseteq Adds /\ dropped \subseteq Adds
        /\ InChannel \subseteq Adds
    BY DEF Base, PipeTypes, InChannel, Range
  <2>1. /\ WithGenerator \subseteq Adds /\ WithWorkers \subseteq Adds /\ Accepted \subseteq Adds
        /\ None \notin Adds
    BY <2>0, NoneAssumption DEF WithGenerator, WithWorkers, Accepted
  <2>2. \A p \in Adds : /\ p \in WithGenerator <=> outgoing = p
                        /\ p \in WithWorkers <=> HasIt(p) /\ add[p] /= "ok"
                        /\ p \in Accepted <=> add[p] = "ok"
    BY <2>1 DEF WithGenerator, WithWorkers, Accepted, HasIt
  <2>3. generated = WithGenerator \cup InChannel \cup WithWorkers \cup Accepted \cup dropped
    BY <2>0, <2>1, <2>2 DEF PlaceInv
  <2>4. /\ WithGenerator \cap InChannel = {} /\ WithGenerator \cap WithWorkers = {}
        /\ WithGenerator \cap Accepted = {} /\ WithGenerator \cap dropped = {}
        /\ InChannel \cap WithWorkers = {} /\ InChannel \cap Accepted = {}
        /\ InChannel \cap dropped = {} /\ WithWorkers \cap Accepted = {}
        /\ WithWorkers \cap dropped = {} /\ Accepted \cap dropped = {}
    BY <2>0, <2>1, <2>2 DEF PlaceInv
  <2>5. /\ Places[1] = WithGenerator /\ Places[2] = InChannel /\ Places[3] = WithWorkers
        /\ Places[4] = Accepted /\ Places[5] = dropped
    BY DEF Places
  <2>6. UNION {Places[i] : i \in 1 .. 5}
          = WithGenerator \cup InChannel \cup WithWorkers \cup Accepted \cup dropped
    <3>1. 1 .. 5 = {1, 2, 3, 4, 5}
      OBVIOUS
    <3>2. {Places[i] : i \in 1 .. 5}
            = {WithGenerator, InChannel, WithWorkers, Accepted, dropped}
      BY <2>5, <3>1
    <3>3. QED
      BY <3>2
  <2>7. \A i, j \in 1 .. 5 : i /= j => Places[i] \cap Places[j] = {}
    <3>1. \A i \in 1 .. 5 : i = 1 \/ i = 2 \/ i = 3 \/ i = 4 \/ i = 5
      OBVIOUS
    <3>2. QED
      BY <2>4, <2>5, <3>1
  <2>8. QED
    BY <2>3, <2>6, <2>7 DEF PlaceInv, Distinct, Conserved
<1>2. QED
  BY <1>1, BaseAlways, PlaceAlways, PTL

-----------------------------------------------------------------------------
(* Without workers there never are any, and nothing else gives a packet up *)
(* while the context is live.                                              *)

LEMMA DropNext ==
    ASSUME Base, ShutdownInv, NoDropBeforeCancel, [Next]_vars
    PROVE  NoDropBeforeCancel'
<1>0. ctxDone \in BOOLEAN /\ (ctxDone => ctxDone')
  <2>1. ctxDone \in BOOLEAN
    BY DEF Base, TypeInv, RepoTypeOK
  <2>2. ASSUME NEW w \in Workers, WorkerInAdd(w)
        PROVE  ctxDone' = ctxDone
    BY <2>2, AddStepConcerns DEF WorkerInAdd, Base, PipeTypes, Holders
  <2>3. WriterStep \/ Cleanup => ctxDone' = ctxDone
    BY DEF WriterStep, Writer, Receive, Timeout, StopSeen, DrainEnd, WriteOne, EndFlush,
           Cleanup, CloseStep, CloseBegin, CloseWaited, CloseRunner
  <2>4. QED
    BY <2>1, <2>2, <2>3, RepositoryCases
<1>1. NoWorkers => NoWorkers'
  <2>1. SamePipe \/ GenStop \/ GenSend \/ GenAbort \/ PoolReturn \/ DrainPacket \/ DrainReturn
          => worker' = worker
    BY DEF SamePipe, pipeVars, GenStop, GenSend, GenAbort, GeneratorOnly, PoolReturn,
           DrainPacket, DrainReturn, PoolOnly
  <2>2. \A p \in Adds : GenTick(p) => worker' = worker
    BY DEF GenTick, GeneratorOnly
  <2>3. \A from, to : MainTo(from, to) => worker' = worker
    BY DEF MainTo
  <2>4. ASSUME NEW w \in Workers, NoWorkers,
             \/ WorkerStarted(w) \/ WorkerReceive(w) \/ WorkerLeave(w)
             \/ WorkerFound(w) \/ WorkerAbort(w) \/ WorkerAddDone(w)
             \/ WorkerFinished(w) \/ WorkerDone(w)
        PROVE  FALSE
    <3>1. worker[w] = "absent"
      BY <2>4 DEF NoWorkers
    <3>2. QED
      BY <2>4, <3>1 DEF WorkerStarted, WorkerReceive, WorkerLeave, WorkerFound, WorkerAbort,
                        WorkerAddDone, WorkerFinished, WorkerDone, WorkerTo
  <2>5. QED
    BY <2>1, <2>2, <2>3, <2>4, StepCases DEF NoWorkers
<1>2. dropped' = dropped \/ ctxDone \/ NoWorkers
  <2>1. SamePipe \/ GenStop \/ GenSend \/ PoolReturn \/ DrainReturn => dropped' = dropped
    BY DEF SamePipe, pipeVars, GenStop, GenSend, PoolReturn, DrainReturn
  <2>2. \A p \in Adds : GenTick(p) => dropped' = dropped
    BY DEF GenTick
  <2>3. \A from, to : MainTo(from, to) => dropped' = dropped
    BY DEF MainTo
  <2>4. GenAbort => ctxDone
    BY DEF GenAbort
  <2>5. DrainPacket => NoWorkers
    BY DEF DrainPacket
  <2>6. ASSUME NEW w \in Workers, WorkerAddDone(w)
        PROVE  dropped' = dropped \/ ctxDone
    <3>1. held[w] \in Adds /\ add[held[w]] \in AddReturned
      BY <2>6 DEF WorkerAddDone, WorkerTo, Base, PipeTypes, Holders
    <3>2. add[held[w]] = "ok" \/ ctxDone
      BY <3>1 DEF AddReturned, ShutdownInv, AnswerInv
    <3>3. QED
      BY <2>6, <3>2 DEF WorkerAddDone
  <2>7. ASSUME NEW w \in Workers,
             \/ WorkerStarted(w) \/ WorkerReceive(w) \/ WorkerLeave(w)
             \/ WorkerFound(w) \/ WorkerAbort(w)
             \/ WorkerFinished(w) \/ WorkerDone(w)
        PROVE  dropped' = dropped \/ ctxDone
    BY <2>7 DEF WorkerStarted, WorkerReceive, WorkerLeave, WorkerFound, WorkerAbort,
                WorkerFinished, WorkerDone
  <2>8. QED
    BY <2>1, <2>2, <2>3, <2>4, <2>5, <2>6, <2>7, StepCases
<1>3. QED
  BY <1>0, <1>1, <1>2 DEF NoDropBeforeCancel

(* While there are workers and the context is live, nothing is given up. *)
THEOREM NothingDroppedBeforeCancel == Spec => []NoDropBeforeCancel
<1>1. Init => NoDropBeforeCancel
  BY DEF Init, NoDropBeforeCancel
<1>2. Base /\ ShutdownInv /\ NoDropBeforeCancel /\ [Next]_vars => NoDropBeforeCancel'
  BY DropNext
<1>3. QED
  BY <1>1, <1>2, BaseAlways, ShutdownAlways, PTL DEF Spec
=============================================================================
