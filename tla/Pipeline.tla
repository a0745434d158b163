------------------------------ MODULE Pipeline ------------------------------
(***************************************************************************)
(* The data path from end to end, as main.go wires it: the generator sends *)
(* packets into a channel, the workers of the pool receive them, find each *)
(* packet's maximum and Add it to the repository, and main waits for a     *)
(* signal or an error, cancels the context, waits for both and closes the  *)
(* repository.  The repository is module Repository, whose variables and   *)
(* actions this module shares: a packet stands for the Add call that its   *)
(* maximum leads to, and the lookups are those of the APIs.  The search for*)
(* the maximum is one step here, with its detail in module WorkerScan.     *)
(***************************************************************************)
EXTENDS Repository, FiniteSets

CONSTANTS
    Workers,            \* worker goroutines
    Staffs,             \* the sets of workers that a configured count may start
    CfgPacketBuffer,    \* PacketBufferSize, as configured
    None                \* no packet

ASSUME NoneAssumption == None \notin Adds
ASSUME PacketBufferAssumption == CfgPacketBuffer \in Int
ASSUME StaffsAssumption == Staffs \subseteq SUBSET Workers /\ IsFiniteSet(Workers)

(* What the generator makes passes validatePacketMax, and main alone closes *)
(* the repository.                                                          *)
ASSUME GeneratedValidAssumption == Valid = Adds
ASSUME MainClosesAssumption == Closers = {"main"}

VARIABLES
    generator,  \* where Generator.Run is
    outgoing,   \* the packet it holds
    generated,  \* the packets it has made so far: packets_total
    packets,    \* the channel from the generator to the workers
    worker,     \* where each worker is
    held,       \* the packet it holds
    active,     \* the gauge of active workers
    pool,       \* WorkerPool.Run is running or has returned
    main,       \* where main is
    dropped     \* history: the packets somebody gave up

pipeVars == <<generator, outgoing, generated, packets, worker, held, active,
              pool, main, dropped>>
vars == <<repoVars, pipeVars>>

channelSize == IF CfgPacketBuffer <= 0 THEN 100 ELSE CfgPacketBuffer

(* The generator closes the channel when it returns. *)
channelClosed == generator = "stopped"

Init ==
    /\ RepoInit
    /\ generator = "ticking"
    /\ outgoing = None
    /\ generated = {}
    /\ packets = <<>>
    /\ \E staff \in Staffs :
         worker = [w \in Workers |-> IF w \in staff THEN "new" ELSE "absent"]
    /\ held = [w \in Workers |-> None]
    /\ active = 0
    /\ pool = "running"
    /\ main = "listening"
    /\ dropped = {}

(* A worker count of zero or less starts nobody. *)
NoWorkers == \A w \in Workers : worker[w] = "absent"

(* Nothing moves any more once the process has ended. *)
Running == main \notin {"exited", "killed"}

-----------------------------------------------------------------------------
(* Generator.Run *)

GeneratorOnly ==
    UNCHANGED <<repoVars, worker, held, active, pool, main>>

(* Mutant: identifiers repeat. *)
GenTickRepeats(p) ==
    /\ generator = "ticking"
    /\ generator' = "sending"
    /\ outgoing' = p
    /\ generated' = generated \cup {p}
    /\ UNCHANGED <<packets, dropped>>
    /\ GeneratorOnly

(* A tick makes a packet with an identifier never used before. *)
GenTick(p) ==
    /\ generator = "ticking"
    /\ p \notin generated
    /\ generator' = "sending"
    /\ outgoing' = p
    /\ generated' = generated \cup {p}
    /\ UNCHANGED <<packets, dropped>>
    /\ GeneratorOnly

GenStop ==
    /\ generator = "ticking"
    /\ ctxDone
    /\ generator' = "stopped"
    /\ UNCHANGED <<outgoing, generated, packets, dropped>>
    /\ GeneratorOnly

(* sendPacket: the select between the channel and the context. *)
GenSend ==
    /\ generator = "sending"
    /\ Len(packets) < channelSize
    /\ packets' = Append(packets, outgoing)
    /\ generator' = "ticking"
    /\ outgoing' = None
    /\ UNCHANGED <<generated, dropped>>
    /\ GeneratorOnly

(* Mutant: a packet that does not fit is dropped. *)
GenDropsWhenFull ==
    /\ generator = "sending"
    /\ ctxDone \/ Len(packets) = channelSize
    /\ generator' = IF ctxDone THEN "stopped" ELSE "ticking"
    /\ dropped' = dropped \cup {outgoing}
    /\ outgoing' = None
    /\ UNCHANGED <<generated, packets>>
    /\ GeneratorOnly

(* Mutant: the send does not watch the context. *)
GenNeverAborts == FALSE

GenAbort ==
    /\ generator = "sending"
    /\ ctxDone
    /\ generator' = "stopped"
    /\ dropped' = dropped \cup {outgoing}
    /\ outgoing' = None
    /\ UNCHANGED <<generated, packets>>
    /\ GeneratorOnly

GeneratorStep ==
    \/ \E p \in Adds : GenTick(p)
    \/ GenStop
    \/ GenSend
    \/ GenAbort

-----------------------------------------------------------------------------
(* WorkerPool.Run *)

WorkerTo(w, from, to) ==
    /\ worker[w] = from
    /\ worker' = [worker EXCEPT ![w] = to]
    /\ UNCHANGED <<generator, outgoing, generated, pool, main>>

(* Mutant: a worker that starts is not counted. *)
WorkerNotCounted(w) ==
    /\ WorkerTo(w, "new", "select")
    /\ UNCHANGED <<repoVars, packets, held, active, dropped>>

WorkerStarted(w) ==
    /\ WorkerTo(w, "new", "select")
    /\ active' = active + 1
    /\ UNCHANGED <<repoVars, packets, held, dropped>>

(* workerLoop: a packet, the closed and empty channel, or the context. *)
WorkerReceive(w) ==
    /\ WorkerTo(w, "select", "finding")
    /\ packets /= <<>>
    /\ held' = [held EXCEPT ![w] = Head(packets)]
    /\ packets' = Tail(packets)
    /\ UNCHANGED <<repoVars, active, dropped>>

WorkerLeave(w) ==
    /\ WorkerTo(w, "select", "leaving")
    /\ ctxDone \/ (channelClosed /\ packets = <<>>)
    /\ UNCHANGED <<repoVars, packets, held, active, dropped>>

(* findMaxMeasurement finds the maximum, or gives up between measurements *)
(* because the context is done.                                           *)
WorkerFound(w) ==
    /\ WorkerTo(w, "finding", "adding")
    /\ UNCHANGED <<repoVars, packets, held, active, dropped>>

(* Mutant: the scan gives up without a cancelled context. *)
WorkerAbortsAnyTime(w) ==
    /\ WorkerTo(w, "finding", "select")
    /\ dropped' = dropped \cup {held[w]}
    /\ held' = [held EXCEPT ![w] = None]
    /\ UNCHANGED <<repoVars, packets, active>>

WorkerAbort(w) ==
    /\ WorkerTo(w, "finding", "select")
    /\ ctxDone
    /\ dropped' = dropped \cup {held[w]}
    /\ held' = [held EXCEPT ![w] = None]
    /\ UNCHANGED <<repoVars, packets, active>>

(* storePacketMax: the steps of the call, then its return.  A packet whose *)
(* call failed is logged and forgotten.                                    *)
WorkerInAdd(w) ==
    /\ worker[w] = "adding"
    /\ AddStep(held[w])
    /\ UNCHANGED pipeVars

WorkerAddDone(w) ==
    /\ WorkerTo(w, "adding", "select")
    /\ add[held[w]] \in AddReturned
    /\ dropped' = dropped \cup IF add[held[w]] = "ok" THEN {} ELSE {held[w]}
    /\ held' = [held EXCEPT ![w] = None]
    /\ UNCHANGED <<repoVars, packets, active>>

(* The deferred calls, last one first: WorkerFinished, then wg.Done. *)
WorkerFinished(w) ==
    /\ WorkerTo(w, "leaving", "finished")
    /\ active' = active - 1
    /\ UNCHANGED <<repoVars, packets, held, dropped>>

WorkerDone(w) ==
    /\ WorkerTo(w, "finished", "done")
    /\ UNCHANGED <<repoVars, packets, held, active, dropped>>

WorkerStep(w) ==
    \/ WorkerStarted(w)
    \/ WorkerReceive(w)
    \/ WorkerLeave(w)
    \/ WorkerFound(w)
    \/ WorkerAbort(w)
    \/ WorkerInAdd(w)
    \/ WorkerAddDone(w)
    \/ WorkerFinished(w)
    \/ WorkerDone(w)

PoolOnly ==
    UNCHANGED <<repoVars, generator, outgoing, generated, worker, held, active,
                main>>

(* Mutant: the deferred calls are swapped, so that wg.Done comes first. *)
PoolReturnEarly ==
    /\ ~NoWorkers
    /\ pool = "running"
    /\ \A w \in Workers : worker[w] \in {"absent", "leaving", "finished", "done"}
    /\ pool' = "returned"
    /\ UNCHANGED <<packets, dropped>>
    /\ PoolOnly

(* wg.Wait *)
PoolReturn ==
    /\ ~NoWorkers
    /\ pool = "running"
    /\ \A w \in Workers : worker[w] \in {"absent", "done"}
    /\ pool' = "returned"
    /\ UNCHANGED <<packets, dropped>>
    /\ PoolOnly

(* drainUntilClosed: without workers the packets are thrown away. *)
DrainPacket ==
    /\ NoWorkers
    /\ pool = "running"
    /\ packets /= <<>>
    /\ dropped' = dropped \cup {Head(packets)}
    /\ packets' = Tail(packets)
    /\ UNCHANGED pool
    /\ PoolOnly

DrainReturn ==
    /\ NoWorkers
    /\ pool = "running"
    /\ ctxDone \/ (channelClosed /\ packets = <<>>)
    /\ pool' = "returned"
    /\ UNCHANGED <<packets, dropped>>
    /\ PoolOnly

PoolStep ==
    \/ PoolReturn
    \/ DrainPacket
    \/ DrainReturn

-----------------------------------------------------------------------------
(* main *)

MainTo(from, to) ==
    /\ main = from
    /\ main' = to
    /\ UNCHANGED <<generator, outgoing, generated, packets, worker, held, active,
                   pool, dropped>>

SetCtxDone ==
    /\ ctxDone' = TRUE
    /\ UNCHANGED <<closed, buffer, writerVars, add, closer, onceDone, query>>

(* SIGINT or SIGTERM *)
Signal ==
    /\ Cancel
    /\ UNCHANGED pipeVars

(* Both listeners open, or one of them does not: then main cancels the      *)
(* context, waits for generator and pool and ends the process with Fatalf,  *)
(* which runs no deferred call, so the repository is not closed.            *)
Listen     == MainTo("listening", "serving") /\ UNCHANGED repoVars
ListenFail == MainTo("listening", "failing") /\ SetCtxDone

(* Mutant: main waits for the generator alone. *)
OnlyGeneratorReturned == generator = "stopped"

WorkersReturned == generator = "stopped" /\ pool = "returned"
Fatal      == WorkersReturned /\ MainTo("failing", "killed") /\ UNCHANGED repoVars

(* The select between the context and a server's error, then stop(). *)
SeeCtxDone  == ctxDone /\ MainTo("serving", "waiting") /\ UNCHANGED repoVars
ServerError == MainTo("serving", "waiting") /\ SetCtxDone

(* workers.Wait, serverGroup.Wait, and the deferred cleanup.  The servers  *)
(* are not part of this module: they end, but a request may outlive them.  *)
WorkersWaited == WorkersReturned /\ MainTo("waiting", "servers") /\ UNCHANGED repoVars
ServersWaited == MainTo("servers", "cleanup") /\ UNCHANGED repoVars

Cleanup       == main = "cleanup" /\ CloseStep("main") /\ UNCHANGED pipeVars
Exit ==
    /\ closer["main"] = "returned"
    /\ MainTo("cleanup", "exited")
    /\ UNCHANGED repoVars

MainStep ==
    \/ Listen
    \/ ListenFail
    \/ Fatal
    \/ SeeCtxDone
    \/ ServerError
    \/ WorkersWaited
    \/ ServersWaited
    \/ Cleanup
    \/ Exit

-----------------------------------------------------------------------------
WriterStep == Writer /\ UNCHANGED pipeVars
TimerStep  == TimerFire /\ UNCHANGED pipeVars

(* The APIs serve once both listeners are open.  A request that Shutdown has *)
(* stopped waiting for goes on during the cleanup.                           *)
Lookup(q) ==
    /\ main \in {"serving", "waiting", "servers", "cleanup"}
    /\ Query(q)
    /\ UNCHANGED pipeVars

Ended      == ~Running /\ UNCHANGED vars

Next ==
    \/ Running /\ GeneratorStep
    \/ Running /\ \E w \in Workers : WorkerStep(w)
    \/ Running /\ PoolStep
    \/ Running /\ Signal
    \/ Running /\ MainStep
    \/ Running /\ WriterStep
    \/ Running /\ TimerStep
    \/ Running /\ \E q \in Queries : Lookup(q)
    \/ Ended

Spec == Init /\ [][Next]_vars

(* Every goroutine that can go on does, listeners open or fail, servers end, *)
(* the timer fires and the database answers.  No signal need ever come, no   *)
(* server need fail, and the generator need not tick.                        *)
Fairness ==
    /\ WF_vars(Running /\ (GenStop \/ GenSend \/ GenAbort))
    /\ \A w \in Workers : WF_vars(Running /\ WorkerStep(w))
    /\ WF_vars(Running /\ PoolStep)
    /\ WF_vars(Running /\ (Listen \/ ListenFail))
    /\ WF_vars(Running /\ (Fatal \/ SeeCtxDone \/ WorkersWaited
                             \/ ServersWaited \/ Cleanup \/ Exit))
    /\ WF_vars(Running /\ WriterStep)
    /\ WF_vars(Running /\ TimerStep)

FairSpec == Spec /\ Fairness

-----------------------------------------------------------------------------
(* Properties *)

TypeOK ==
    /\ RepoTypeOK
    /\ generator \in {"ticking", "sending", "stopped"}
    /\ outgoing \in Adds \cup {None}
    /\ generated \in SUBSET Adds
    /\ packets \in Seq(Adds) /\ Len(packets) <= channelSize
    /\ worker \in [Workers -> {"absent", "new", "select", "finding", "adding",
                               "leaving", "finished", "done"}]
    /\ held \in [Workers -> Adds \cup {None}]
    /\ active \in 0 .. Cardinality(Workers)
    /\ pool \in {"running", "returned"}
    /\ main \in {"listening", "serving", "failing", "waiting", "servers",
                 "cleanup", "exited", "killed"}
    /\ dropped \in SUBSET Adds

(* Where packets are: with the generator, in the channel, with a worker that *)
(* has not had them accepted, accepted by the repository, given up.          *)
WithGenerator == {outgoing} \ {None}
InChannel     == Range(packets)
WithWorkers   == {held[w] : w \in Workers} \ (Accepted \cup {None})
Places        == <<WithGenerator, InChannel, WithWorkers, Accepted, dropped>>

(* Every packet that was generated is in exactly one place, and no other      *)
(* packet is anywhere; the channel holds a packet once, and two workers never *)
(* process the same one.  However the goroutines interleave, no packet        *)
(* vanishes and none is processed twice.                                      *)
Conserved ==
    /\ generated = UNION {Places[i] : i \in 1 .. 5}
    /\ \A i, j \in 1 .. 5 : i /= j => Places[i] \cap Places[j] = {}
    /\ \A i, j \in DOMAIN packets : packets[i] = packets[j] => i = j
    /\ \A v, w \in Workers : held[v] = held[w] /\ held[w] /= None => v = w

(* While the context is live and there are workers nothing is given up: the *)
(* pipeline applies back-pressure and does not shed load.                   *)
NoDropBeforeCancel ==
    ~NoWorkers /\ ~ctxDone => dropped = {}

(* The order of shutdown keeps the race between Add and Close out of the     *)
(* program: no Add meets a closed repository, and once the process has ended *)
(* through cleanup all that was accepted has been written, with the writer   *)
(* gone and no database open but for a lookup that came after Close.         *)
CleanExit ==
    /\ \A p \in Adds : add[p] /= "closed"
    /\ main = "exited" =>
           /\ Accepted = Range(attempted)
           /\ mode = "exited"
           /\ runnerOpen => ReopenedByQuery

(* The gauge of active workers is back at zero when Run returns: no worker  *)
(* that Run has stopped waiting for is still counted.                       *)
GaugeSettles == pool = "returned" => active = 0

(* Whichever way the process ends, what Add accepted has been written. *)
ExitStores ==
    ~Running => Accepted \subseteq Range(attempted)

(* The repository in the pipeline does what the module Repository allows. *)
UsesRepository == RepoSpec

(* A packet that was generated reaches the database unless the context is *)
(* cancelled or there is nobody to process it.                            *)
Delivered ==
    \A p \in Adds :
        p \in generated /\ ~NoWorkers ~> (p \in Range(attempted) \/ ctxDone)

(* Once the context is cancelled the process ends: nobody waits for ever on  *)
(* a full channel, on a worker or on the writer.                             *)
ShutsDown == ctxDone ~> ~Running
=============================================================================
