----------------------------- MODULE Lifecycle -----------------------------
(***************************************************************************)
(* main of cmd/start from its start to its end, seen from the servers: the *)
(* goroutines that run the HTTP and the gRPC server, the goroutine that    *)
(* shuts both down, the requests in flight, and main, which must not close *)
(* the repository under a request.  Module Pipeline has the other half,    *)
(* generator and workers.                                                  *)
(*                                                                         *)
(* net/http and grpc are external.  Shutdown makes Serve return at once    *)
(* and waits for the requests in flight, five seconds at most;             *)
(* GracefulStop waits for the calls in flight without limit, and Serve of  *)
(* grpc returns only after it.                                             *)
(***************************************************************************)
EXTENDS Startup

CONSTANTS
    Requests,   \* requests, each made at most once in the life of a process
    kind        \* the server of each request

Servers == {"http", "grpc"}

ASSUME KindAssumption == kind \in [Requests -> Servers]

VARIABLES
    server,     \* where the goroutine of each server is
    stopping,   \* servers whose Shutdown or GracefulStop has been called
    broken,     \* servers whose Serve has returned an error
    errs,       \* errors waiting in the channel serverErrs
    shutter,    \* where the goroutine is that shuts the servers down
    timedOut,   \* Shutdown has run into its timeout
    request     \* where each request is

serveVars == <<server, stopping, broken, errs, shutter, timedOut, request>>
lifeVars == <<main, startVars, migratorVars, ctxDone, serveVars>>

ServeInit ==
    /\ server = [s \in Servers |-> "off"]
    /\ stopping = {}
    /\ broken = {}
    /\ errs = 0
    /\ shutter = "off"
    /\ timedOut = FALSE
    /\ request = [r \in Requests |-> "none"]

LifeInit == StartInit /\ ServeInit

(* Mutant: the channel has room for one error. *)
SmallErrsCapacity == 1

(* make(chan error, 2) *)
errsCapacity == 2

ServerTo(s, place) == server' = [server EXCEPT ![s] = place]

Idle(s) == \A r \in Requests : kind[r] = s => request[r] /= "active"

-----------------------------------------------------------------------------
(* The goroutines of the servers *)

(* A server that has been shut down before its Serve returns at once. *)
ServeBegin(s) ==
    /\ server[s] = "starting"
    /\ ServerTo(s, IF s \in stopping THEN "returned" ELSE "serving")
    /\ UNCHANGED <<stopping, broken, errs, shutter, timedOut, request>>

(* Serve meets an error of its own. *)
ServeBreaks(s) ==
    /\ server[s] = "serving"
    /\ s \notin stopping
    /\ ServerTo(s, "reporting")
    /\ broken' = broken \cup {s}
    /\ UNCHANGED <<stopping, errs, shutter, timedOut, request>>

Report(s) ==
    /\ server[s] = "reporting"
    /\ errs < errsCapacity
    /\ errs' = errs + 1
    /\ ServerTo(s, "returned")
    /\ UNCHANGED <<stopping, broken, shutter, timedOut, request>>

(* Serve of http returns when Shutdown begins, Serve of grpc when           *)
(* GracefulStop is over.                                                    *)
ServeReturns(s) ==
    /\ server[s] = "serving"
    /\ s \in stopping
    /\ s = "grpc" => shutter = "done"
    /\ ServerTo(s, "returned")
    /\ UNCHANGED <<stopping, broken, errs, shutter, timedOut, request>>

ServerStep(s) == ServeBegin(s) \/ Report(s) \/ ServeReturns(s)

(* A broken server accepts no connections but still serves the open ones. *)
Arrive(r) ==
    /\ request[r] = "none"
    /\ server[kind[r]] = "serving" \/ kind[r] \in broken
    /\ kind[r] \notin stopping
    /\ request' = [request EXCEPT ![r] = "active"]
    /\ UNCHANGED <<server, stopping, broken, errs, shutter, timedOut>>

Answer(r) ==
    /\ request[r] = "active"
    /\ request' = [request EXCEPT ![r] = "answered"]
    /\ UNCHANGED <<server, stopping, broken, errs, shutter, timedOut>>

-----------------------------------------------------------------------------
(* The goroutine that waits for the context and stops the servers *)

ShutdownBegin ==
    /\ shutter = "waiting"
    /\ ctxDone
    /\ shutter' = "http"
    /\ stopping' = stopping \cup {"http"}
    /\ UNCHANGED <<server, broken, errs, timedOut, request>>

(* Shutdown returns, and GracefulStop begins. *)
ShutdownTo(late) ==
    /\ shutter = "http"
    /\ shutter' = "grpc"
    /\ stopping' = stopping \cup {"grpc"}
    /\ timedOut' = late
    /\ UNCHANGED <<server, broken, errs, request>>

ShutdownReturns == Idle("http") /\ ShutdownTo(FALSE)

ShutdownTimesOut == ~Idle("http") /\ ShutdownTo(TRUE)

StopReturns ==
    /\ shutter = "grpc"
    /\ Idle("grpc")
    /\ shutter' = "done"
    /\ UNCHANGED <<server, stopping, broken, errs, timedOut, request>>

ShutterStep == ShutdownBegin \/ ShutdownReturns \/ ShutdownTimesOut \/ StopReturns

-----------------------------------------------------------------------------
(* main *)

MainTo(place) == main' = place /\ UNCHANGED <<startVars, migratorVars>>

(* A listener cannot be opened: the process ends with Fatalf. *)
ListenFails ==
    /\ main = "listen"
    /\ MainTo("failed")
    /\ ctxDone' = TRUE
    /\ UNCHANGED serveVars

Listen ==
    /\ main = "listen"
    /\ MainTo("serving")
    /\ server' = [s \in Servers |-> "starting"]
    /\ shutter' = "waiting"
    /\ UNCHANGED <<ctxDone, stopping, broken, errs, timedOut, request>>

SeeCtxDone ==
    /\ main = "serving"
    /\ ctxDone
    /\ MainTo("workers")
    /\ UNCHANGED <<ctxDone, serveVars>>

TakeError ==
    /\ main = "serving"
    /\ errs > 0
    /\ errs' = errs - 1
    /\ ctxDone' = TRUE
    /\ MainTo("workers")
    /\ UNCHANGED <<server, stopping, broken, shutter, timedOut, request>>

(* workers.Wait: module Pipeline shows that generator and pool return. *)
WorkersWaited ==
    /\ main = "workers"
    /\ MainTo("servers")
    /\ UNCHANGED <<ctxDone, serveVars>>

(* Mutant: main waits for the HTTP server only. *)
HttpServerWaited ==
    /\ main = "servers"
    /\ server["http"] = "returned"
    /\ MainTo("cleanup")
    /\ UNCHANGED <<ctxDone, serveVars>>

(* serverGroup.Wait *)
ServersWaited ==
    /\ main = "servers"
    /\ \A s \in Servers : server[s] = "returned"
    /\ MainTo("cleanup")
    /\ UNCHANGED <<ctxDone, serveVars>>

(* The deferred cleanup closes the repository, and main returns. *)
CleanUp ==
    /\ main = "cleanup"
    /\ MainTo("exited")
    /\ UNCHANGED <<ctxDone, serveVars>>

MainStep ==
    \/ ListenFails \/ Listen \/ SeeCtxDone \/ TakeError
    \/ WorkersWaited \/ ServersWaited \/ CleanUp

-----------------------------------------------------------------------------
(* The goroutines of the servers run as long as the process. *)
ServeStep ==
    /\ main \notin Ended
    /\ \/ \E s \in Servers : ServerStep(s) \/ ServeBreaks(s)
       \/ \E r \in Requests : Arrive(r) \/ Answer(r)
       \/ ShutterStep
    /\ UNCHANGED <<main, startVars, migratorVars, ctxDone>>

NewProcess ==
    /\ StartAgain
    /\ UNCHANGED migratorVars
    /\ server' = [s \in Servers |-> "off"]
    /\ stopping' = {}
    /\ broken' = {}
    /\ errs' = 0
    /\ shutter' = "off"
    /\ timedOut' = FALSE
    /\ request' = [r \in Requests |-> "none"]

Over ==
    /\ main \in Ended
    /\ starts = MaxStarts
    /\ migrator \in {"done", "failed"}
    /\ UNCHANGED lifeVars

LifeNext ==
    \/ (StartStep \/ Signal \/ Kill) /\ UNCHANGED <<migratorVars, serveVars>>
    \/ MigratorStep /\ UNCHANGED <<main, attempt, file, starts, ctxDone, serveVars>>
    \/ NewProcess
    \/ MainStep
    \/ ServeStep
    \/ Over

LifeSpec == LifeInit /\ [][LifeNext]_lifeVars

(* Each goroutine goes on, and a gRPC call ends, which supposes that the    *)
(* database answers; of HTTP requests nothing is assumed, since Shutdown    *)
(* has a timeout.                                                           *)
FairLifeSpec ==
    /\ LifeSpec
    /\ WF_lifeVars(StartStep /\ UNCHANGED <<migratorVars, serveVars>>)
    /\ WF_lifeVars(MainStep)
    /\ WF_lifeVars(ShutterStep /\ ServeStep)
    /\ \A s \in Servers : WF_lifeVars(ServerStep(s) /\ ServeStep)
    /\ \A r \in Requests : kind[r] = "grpc" => WF_lifeVars(Answer(r) /\ ServeStep)

-----------------------------------------------------------------------------
(* Properties *)

LifeTypeOK ==
    /\ main \in {"wait", "migrate", "listen", "serving", "workers", "servers", "cleanup"}
                \cup Ended
    /\ attempt \in 1 .. MaxAttempts
    /\ file \in 1 .. NFiles + 1
    /\ schema \in SUBSET (1 .. NFiles)
    /\ ctxDone \in BOOLEAN
    /\ starts \in 1 .. MaxStarts
    /\ migrator \in {"wait", "migrate", "done", "failed"}
    /\ migrating \in 1 .. NFiles + 1
    /\ server \in [Servers -> {"off", "starting", "serving", "reporting", "returned"}]
    /\ stopping \in SUBSET Servers
    /\ broken \in SUBSET Servers
    /\ errs \in 0 .. errsCapacity
    /\ shutter \in {"off", "waiting", "http", "grpc", "done"}
    /\ timedOut \in BOOLEAN
    /\ request \in [Requests -> {"none", "active", "answered"}]

(* The repository is closed under a request in flight only after the gRPC   *)
(* server broke, which nobody waits for then, or, for a request of HTTP,    *)
(* after Shutdown has given it five seconds.  main waits for the HTTP       *)
(* requests only through Serve of grpc, which returns after GracefulStop,   *)
(* which is called after Shutdown.                                          *)
RepositoryOutlivesRequests ==
    main \in {"cleanup", "exited"} =>
        \A r \in Requests : request[r] = "active" =>
            "grpc" \in broken \/ (kind[r] = "http" /\ timedOut)

(* After a signal, or an error of a server, the process ends. *)
ProcessEnds ==
    (ctxDone \/ errs > 0) ~> main \in Ended
=============================================================================
