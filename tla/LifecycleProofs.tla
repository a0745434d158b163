-------------------------- MODULE LifecycleProofs --------------------------
(***************************************************************************)
(* For any number of migration files, starts and requests: the files are   *)
(* executed in order, the service serves on the complete schema only, and  *)
(* the repository is closed under no request but in the two cases that     *)
(* RepositoryOutlivesRequests names.                                       *)
(***************************************************************************)
EXTENDS Lifecycle, TLAPS

-----------------------------------------------------------------------------
(* The schema. *)

(* While a process migrates, the files below its next one are executed; so   *)
(* they are for cmd/migrate.                                                 *)
SchemaInv ==
    /\ file \in 1 .. NFiles + 1 /\ migrating \in 1 .. NFiles + 1
    /\ schema \subseteq 1 .. NFiles
    /\ SchemaInOrder
    /\ main \in {"wait", "migrate"} => 1 .. file - 1 \subseteq schema
    /\ migrator \in {"wait", "migrate"} => 1 .. migrating - 1 \subseteq schema
    /\ ServesOnSchema

(* The next file of a process may be added to the schema. *)
LEMMA NextFileInOrder ==
    ASSUME SchemaInv, NEW next \in 1 .. NFiles, 1 .. next - 1 \subseteq schema
    PROVE  /\ \A n \in schema \cup {next} : \A m \in 1 .. n : m \in schema \cup {next}
           /\ schema \cup {next} \subseteq 1 .. NFiles
           /\ 1 .. next \subseteq schema \cup {next}
<1>1. 1 .. next - 1 \subseteq schema /\ schema \subseteq 1 .. NFiles
  BY DEF SchemaInv
<1>2. ASSUME NEW m \in 1 .. next
      PROVE  m \in schema \cup {next}
  <2>1. CASE m = next
    BY <2>1
  <2>2. CASE m /= next
    <3>1. m \in 1 .. next - 1
      BY <2>2, StartupAssumption
    <3>2. QED
      BY <1>1, <3>1
  <2>3. QED
    BY <2>1, <2>2
<1>3. \A n \in schema : \A m \in 1 .. n : m \in schema
  BY DEF SchemaInv, SchemaInOrder
<1>4. QED
  BY <1>1, <1>2, <1>3

(* A process that has executed all the files has a complete schema. *)
LEMMA AllFilesDone ==
    ASSUME SchemaInv, NEW next \in 1 .. NFiles + 1, ~(next <= NFiles),
           1 .. next - 1 \subseteq schema
    PROVE  schema = 1 .. NFiles
<1>1. next - 1 = NFiles
  BY StartupAssumption
<1>2. QED
  BY <1>1 DEF SchemaInv

(* The schema only grows, so that one which is complete stays complete, *)
(* whichever process adds to it.                                       *)
LEMMA FullStaysFull ==
    ASSUME SchemaInv, NEW next \in 1 .. NFiles, schema = 1 .. NFiles
    PROVE  schema \cup {next} = 1 .. NFiles
OBVIOUS

LEMMA SchemaInvInit == LifeInit => SchemaInv
BY StartupAssumption
   DEF LifeInit, StartInit, FirstPlace, SchemaInv, SchemaInOrder, ServesOnSchema

LEMMA SchemaInvNext == SchemaInv /\ [LifeNext]_lifeVars => SchemaInv'
<1> SUFFICES ASSUME SchemaInv, [LifeNext]_lifeVars
             PROVE  SchemaInv'
  OBVIOUS
<1> DEFINE Adds(next) ==
             /\ next \in 1 .. NFiles /\ 1 .. next - 1 \subseteq schema
             /\ schema' = schema \cup {next}
<1> USE StartupAssumption
<1>1. ASSUME NEW next, Adds(next)
      PROVE  /\ schema' \subseteq 1 .. NFiles /\ SchemaInOrder'
             /\ schema \subseteq schema' /\ 1 .. next \subseteq schema'
             /\ schema = 1 .. NFiles => schema' = 1 .. NFiles
  BY <1>1, NextFileInOrder, FullStaysFull DEF SchemaInOrder
<1>2. ASSUME UNCHANGED <<schema, file, main, migrator, migrating>>
      PROVE  SchemaInv'
  BY <1>2 DEF SchemaInv, SchemaInOrder, ServesOnSchema
<1>3. CASE (Dial \/ DialFails) /\ UNCHANGED migratorVars
  BY <1>3 DEF Dial, DialFails, startVars, migratorVars, SchemaInv, SchemaInOrder,
              ServesOnSchema
<1>4. CASE ApplyFile /\ UNCHANGED migratorVars
  <2>1. Adds(file) /\ main = "migrate" /\ main' = main /\ file' = file + 1
    BY <1>4 DEF ApplyFile, SchemaInv
  <2>2. file' \in 1 .. NFiles + 1 /\ file' - 1 = file
    BY <2>1
  <2>3. QED
    BY <1>1, <1>4, <2>1, <2>2 DEF SchemaInv, ServesOnSchema, migratorVars
<1>5. CASE ApplyFails /\ UNCHANGED migratorVars
  <2>1. /\ main' = "failed" /\ file' = file
        /\ schema' = schema \/ Adds(file)
    BY <1>5 DEF ApplyFails, SchemaInv
  <2>2. CASE schema' = schema
    BY <1>5, <2>1, <2>2 DEF SchemaInv, SchemaInOrder, ServesOnSchema, migratorVars
  <2>3. CASE Adds(file)
    BY <1>1, <1>5, <2>1, <2>3 DEF SchemaInv, ServesOnSchema, migratorVars
  <2>4. QED
    BY <2>1, <2>2, <2>3
<1>6. CASE SetupDone /\ UNCHANGED migratorVars
  <2>1. /\ ~(file <= NFiles) /\ main = "migrate" /\ main' = "listen"
        /\ UNCHANGED <<file, schema, migrator, migrating>>
    BY <1>6 DEF SetupDone, startVars, migratorVars, SchemaInv
  <2>2. schema = 1 .. NFiles
    BY <2>1, AllFilesDone DEF SchemaInv
  <2>3. QED
    BY <2>1, <2>2 DEF SchemaInv, SchemaInOrder, ServesOnSchema
<1>7. CASE (Signal \/ Kill) /\ UNCHANGED migratorVars
  BY <1>7 DEF Signal, Kill, startVars, migratorVars, SchemaInv, SchemaInOrder,
              ServesOnSchema
<1>8. CASE MigratorStep /\ UNCHANGED <<main, file>>
  <2>1. CASE MigratorWaited
    BY <1>8, <2>1 DEF MigratorWaited, SchemaInv, SchemaInOrder, ServesOnSchema
  <2>2. CASE MigratorApplies
    <3>1. Adds(migrating) /\ migrator' = migrator /\ migrating' = migrating + 1
      BY <2>2 DEF MigratorApplies, SchemaInv
    <3>2. migrating' \in 1 .. NFiles + 1 /\ migrating' - 1 = migrating
      BY <3>1
    <3>3. QED
      BY <1>1, <1>8, <2>2, <3>1, <3>2 DEF SchemaInv, ServesOnSchema, MigratorApplies
  <2>3. CASE MigratorFails
    <3>1. /\ migrator' = "failed" /\ migrating' = migrating
          /\ schema' = schema \/ Adds(migrating)
      BY <2>3 DEF MigratorFails, SchemaInv
    <3>2. CASE schema' = schema
      BY <1>8, <3>1, <3>2 DEF SchemaInv, SchemaInOrder, ServesOnSchema
    <3>3. CASE Adds(migrating)
      BY <1>1, <1>8, <3>1, <3>3 DEF SchemaInv, ServesOnSchema
    <3>4. QED
      BY <3>1, <3>2, <3>3
  <2>4. CASE MigratorDone
    <3>1. schema = 1 .. NFiles
      BY <2>4, AllFilesDone DEF MigratorDone, SchemaInv
    <3>2. QED
      BY <1>8, <2>4, <3>1 DEF MigratorDone, SchemaInv, SchemaInOrder, ServesOnSchema
  <2>5. QED
    BY <1>8, <2>1, <2>2, <2>3, <2>4 DEF MigratorStep
<1>9. CASE NewProcess
  BY <1>9 DEF NewProcess, StartAgain, FirstPlace, migratorVars, SchemaInv, SchemaInOrder,
              ServesOnSchema
<1>10. CASE MainStep
  <2>1. /\ UNCHANGED <<file, schema, migratorVars>>
        /\ main \notin {"wait", "migrate", "failed", "killed"}
        /\ main' \notin {"wait", "migrate"}
    BY <1>10 DEF MainStep, ListenFails, Listen, SeeCtxDone, TakeError, WorkersWaited,
                 ServersWaited, CleanUp, MainTo, startVars
  <2>2. QED
    BY <2>1 DEF SchemaInv, SchemaInOrder, ServesOnSchema, migratorVars
<1>11. CASE ServeStep \/ UNCHANGED lifeVars
  BY <1>2, <1>11 DEF ServeStep, startVars, migratorVars, lifeVars
<1>12. QED
  BY <1>3, <1>4, <1>5, <1>6, <1>7, <1>8, <1>9, <1>10, <1>11
     DEF LifeNext, StartStep, Over

LEMMA SchemaInvAlways == LifeSpec => []SchemaInv
BY SchemaInvInit, SchemaInvNext, PTL DEF LifeSpec

(* Files are executed in order, across failures and restarts. *)
THEOREM SchemaGrowsInOrder == LifeSpec => []SchemaInOrder
BY SchemaInvAlways, PTL DEF SchemaInv

(* The service is there only on the complete schema. *)
THEOREM ServesOnCompleteSchema == LifeSpec => []ServesOnSchema
BY SchemaInvAlways, PTL DEF SchemaInv

-----------------------------------------------------------------------------
(* The requests. *)

(* Every server has returned once main is past serverGroup.Wait. *)
ServersReturned ==
    main \in {"cleanup", "exited"} => \A s \in Servers : server[s] = "returned"

(* Serve of grpc returns without an error only when GracefulStop is over, or *)
(* has begun before Serve did, and then no call was ever accepted.           *)
GrpcReturned ==
    "grpc" \in broken \/ server["grpc"] \notin {"reporting", "returned"}
    \/ shutter = "done"
    \/ ("grpc" \in stopping /\ Idle("grpc"))

(* Before its Serve a server has no requests. *)
NoEarlyRequests ==
    \A s \in Servers : server[s] \in {"off", "starting"} => Idle(s) /\ s \notin broken

(* Which requests may still be in flight, by the place of the shutdown. *)
ShutterOrder ==
    /\ shutter \in {"http", "grpc", "done"} => "http" \in stopping
    /\ shutter \in {"grpc", "done"} =>
          /\ "grpc" \in stopping
          /\ Idle("http") \/ timedOut
    /\ shutter = "done" => Idle("grpc")
    /\ "grpc" \in stopping => shutter \in {"grpc", "done"}

(* Nothing of the servers is there before main has its listeners. *)
NotYetServing ==
    main \in {"wait", "migrate", "listen"} =>
        /\ \A s \in Servers : server[s] = "off"
        /\ stopping = {} /\ broken = {} /\ shutter = "off"

ServeTypes ==
    /\ kind \in [Requests -> Servers]
    /\ server \in [Servers -> {"off", "starting", "serving", "reporting", "returned"}]
    /\ request \in [Requests -> {"none", "active", "answered"}]
    /\ stopping \subseteq Servers

ServeInv ==
    /\ ServeTypes
    /\ ServersReturned
    /\ GrpcReturned
    /\ NoEarlyRequests
    /\ ShutterOrder
    /\ NotYetServing

LEMMA ServeInvInit == LifeInit => ServeInv
BY KindAssumption
   DEF LifeInit, StartInit, FirstPlace, ServeInit, ServeInv, ServeTypes, ServersReturned,
       GrpcReturned, NoEarlyRequests, ShutterOrder, NotYetServing, Idle, Servers

(* The steps of the servers, the requests and the shutdown. *)
LEMMA ServeStepKeeps == ServeInv /\ ServeStep => ServeInv'
<1> SUFFICES ASSUME ServeInv, ServeStep
             PROVE  ServeInv'
  OBVIOUS
<1> USE DEF ServeInv, ServeTypes, ServersReturned, GrpcReturned, NoEarlyRequests,
            ShutterOrder, NotYetServing, Idle, Servers
<1>0. UNCHANGED main
  BY DEF ServeStep
<1>1. ASSUME NEW s \in Servers, ServeBegin(s)
      PROVE  ServeInv'
  BY <1>0, <1>1 DEF ServeBegin, ServerTo
<1>2. ASSUME NEW s \in Servers, ServeBreaks(s)
      PROVE  ServeInv'
  BY <1>0, <1>2 DEF ServeBreaks, ServerTo
<1>3. ASSUME NEW s \in Servers, Report(s)
      PROVE  ServeInv'
  BY <1>0, <1>3 DEF Report, ServerTo
<1>4. ASSUME NEW s \in Servers, ServeReturns(s)
      PROVE  ServeInv'
  BY <1>0, <1>4 DEF ServeReturns, ServerTo
<1>5. ASSUME NEW r \in Requests, Arrive(r)
      PROVE  ServeInv'
  BY <1>0, <1>5 DEF Arrive
<1>6. ASSUME NEW r \in Requests, Answer(r)
      PROVE  ServeInv'
  BY <1>0, <1>6 DEF Answer
<1>7. CASE ShutdownBegin
  BY <1>0, <1>7 DEF ShutdownBegin
<1>8. CASE ShutdownReturns \/ ShutdownTimesOut
  BY <1>0, <1>8 DEF ShutdownReturns, ShutdownTimesOut, ShutdownTo
<1>9. CASE StopReturns
  BY <1>0, <1>9 DEF StopReturns
<1>10. QED
  BY <1>1, <1>2, <1>3, <1>4, <1>5, <1>6, <1>7, <1>8, <1>9
     DEF ServeStep, ServerStep, ShutterStep

(* The steps of main. *)
LEMMA MainStepKeeps == ServeInv /\ MainStep => ServeInv'
<1> SUFFICES ASSUME ServeInv, MainStep
             PROVE  ServeInv'
  OBVIOUS
<1> USE DEF ServeInv, ServeTypes, ServersReturned, GrpcReturned, NoEarlyRequests,
            ShutterOrder, NotYetServing, Idle, Servers, MainTo, serveVars
<1>1. CASE Listen
  BY <1>1 DEF Listen
<1>2. CASE ServersWaited
  BY <1>2 DEF ServersWaited
<1>3. CASE CleanUp
  BY <1>3 DEF CleanUp
<1>4. CASE TakeError
  BY <1>4 DEF TakeError
<1>5. CASE ListenFails \/ SeeCtxDone \/ WorkersWaited
  BY <1>5 DEF ListenFails, SeeCtxDone, WorkersWaited
<1>6. QED
  BY <1>1, <1>2, <1>3, <1>4, <1>5 DEF MainStep

LEMMA ServeInvNext == ServeInv /\ [LifeNext]_lifeVars => ServeInv'
<1> SUFFICES ASSUME ServeInv, [LifeNext]_lifeVars
             PROVE  ServeInv'
  OBVIOUS
<1> USE DEF ServeInv, ServeTypes, ServersReturned, GrpcReturned, NoEarlyRequests,
            ShutterOrder, NotYetServing, Idle, Servers, serveVars
<1>1. CASE (StartStep \/ Signal \/ Kill) /\ UNCHANGED <<migratorVars, serveVars>>
  <2>1. \/ main' = main \/ main' \in {"failed", "killed"}
        \/ main \in {"wait", "migrate"} /\ main' \in {"wait", "migrate", "listen"}
    BY <1>1 DEF StartStep, Dial, DialFails, ApplyFile, ApplyFails, SetupDone, Signal, Kill
  <2>2. QED
    BY <1>1, <2>1
<1>2. CASE NewProcess
  BY <1>2 DEF NewProcess, StartAgain, FirstPlace
<1>3. CASE Over \/ UNCHANGED lifeVars
  BY <1>3 DEF Over, lifeVars
<1>4. CASE MigratorStep /\ UNCHANGED <<main, attempt, file, starts, ctxDone, serveVars>>
  BY <1>4
<1>5. QED
  BY <1>1, <1>2, <1>3, <1>4, MainStepKeeps, ServeStepKeeps DEF LifeNext

LEMMA ServeInvAlways == LifeSpec => []ServeInv
BY ServeInvInit, ServeInvNext, PTL DEF LifeSpec

(* The repository is closed under a request only after the gRPC server      *)
(* broke or, for HTTP, after Shutdown's timeout.                            *)
THEOREM RequestsKeepRepository == LifeSpec => []RepositoryOutlivesRequests
<1>1. ServeInv => RepositoryOutlivesRequests
  <2> SUFFICES ASSUME ServeInv, main \in {"cleanup", "exited"}, "grpc" \notin broken,
                      NEW r \in Requests, request[r] = "active"
               PROVE  kind[r] = "http" /\ timedOut
    BY DEF RepositoryOutlivesRequests
  <2>1. server["grpc"] = "returned"
    BY DEF ServeInv, ServersReturned, Servers
  <2>2. "grpc" \in stopping /\ Idle("grpc")
    BY <2>1 DEF ServeInv, GrpcReturned, ShutterOrder
  <2>3. Idle("http") \/ timedOut
    BY <2>2 DEF ServeInv, ShutterOrder
  <2>4. QED
    BY <2>2, <2>3 DEF ServeInv, ServeTypes, Idle, Servers
<1>2. QED
  BY <1>1, ServeInvAlways, PTL

-----------------------------------------------------------------------------
(* Types.  Those of the schema and of the files are part of SchemaInv. *)

LifeTypes ==
    /\ main \in {"wait", "migrate", "listen", "serving", "workers", "servers", "cleanup"}
                \cup Ended
    /\ attempt \in 1 .. MaxAttempts
    /\ ctxDone \in BOOLEAN
    /\ starts \in 1 .. MaxStarts
    /\ migrator \in {"wait", "migrate", "done", "failed"}
    /\ server \in [Servers -> {"off", "starting", "serving", "reporting", "returned"}]
    /\ stopping \in SUBSET Servers
    /\ broken \in SUBSET Servers
    /\ errs \in 0 .. errsCapacity
    /\ shutter \in {"off", "waiting", "http", "grpc", "done"}
    /\ timedOut \in BOOLEAN
    /\ request \in [Requests -> {"none", "active", "answered"}]

LEMMA LifeTypesInit == LifeInit => LifeTypes
<1> SUFFICES ASSUME LifeInit PROVE LifeTypes
  OBVIOUS
<1>1. 1 \in 1 .. MaxAttempts /\ 1 \in 1 .. MaxStarts /\ 0 \in 0 .. errsCapacity
  BY StartupAssumption DEF errsCapacity
<1>2. /\ server \in [Servers -> {"off", "starting", "serving", "reporting", "returned"}]
      /\ request \in [Requests -> {"none", "active", "answered"}]
  BY DEF LifeInit, ServeInit
<1>3. QED
  BY <1>1, <1>2 DEF LifeInit, StartInit, FirstPlace, ServeInit, LifeTypes

LEMMA LifeTypesNext == LifeTypes /\ [LifeNext]_lifeVars => LifeTypes'
<1> SUFFICES ASSUME LifeTypes, [LifeNext]_lifeVars
             PROVE  LifeTypes'
  OBVIOUS
<1> USE StartupAssumption DEF LifeTypes, Servers, Ended, errsCapacity
<1>1. CASE (StartStep \/ Signal \/ Kill) /\ UNCHANGED <<migratorVars, serveVars>>
  <2>1. attempt' \in 1 .. MaxAttempts
    BY <1>1 DEF StartStep, Dial, DialFails, ApplyFile, ApplyFails, SetupDone, Signal, Kill,
                startVars
  <2>2. UNCHANGED <<starts, migrator, server, stopping, broken, errs, shutter, timedOut, request>>
    BY <1>1 DEF StartStep, Dial, DialFails, ApplyFile, ApplyFails, SetupDone, Signal, Kill,
                startVars, migratorVars, serveVars
  <2>3. main' \in {main, "migrate", "listen", "failed", "killed"} /\ ctxDone' \in BOOLEAN
    BY <1>1 DEF StartStep, Dial, DialFails, ApplyFile, ApplyFails, SetupDone, Signal, Kill
  <2>4. QED
    BY <2>1, <2>2, <2>3
<1>2. CASE MigratorStep /\ UNCHANGED <<main, attempt, file, starts, ctxDone, serveVars>>
  BY <1>2 DEF MigratorStep, MigratorWaited, MigratorApplies, MigratorFails, MigratorDone,
              serveVars
<1>3. CASE NewProcess
  <2>1. starts' \in 1 .. MaxStarts /\ attempt' \in 1 .. MaxAttempts
    BY <1>3 DEF NewProcess, StartAgain
  <2>2. /\ server' \in [Servers -> {"off", "starting", "serving", "reporting", "returned"}]
        /\ request' \in [Requests -> {"none", "active", "answered"}]
    BY <1>3 DEF NewProcess
  <2>3. main' \in {"wait", "migrate"} /\ ctxDone' = FALSE /\ migrator' = migrator
    BY <1>3 DEF NewProcess, StartAgain, FirstPlace, migratorVars
  <2>4. stopping' = {} /\ broken' = {} /\ errs' = 0 /\ shutter' = "off" /\ timedOut' = FALSE
    BY <1>3 DEF NewProcess
  <2>5. migrator' \in {"wait", "migrate", "done", "failed"} /\ errs' \in 0 .. errsCapacity
    BY <2>3, <2>4
  <2> HIDE DEF Servers
  <2>6. QED
    BY <2>1, <2>2, <2>3, <2>4, <2>5
<1>4. CASE MainStep
  <2> USE DEF MainTo, startVars, migratorVars, serveVars
  <2>1. CASE Listen
    <3>1. server' \in [Servers -> {"off", "starting", "serving", "reporting", "returned"}]
      BY <2>1 DEF Listen
    <3>2. QED
      BY <2>1, <3>1 DEF Listen
  <2>2. CASE TakeError
    BY <2>2 DEF TakeError
  <2>3. CASE ListenFails \/ SeeCtxDone \/ WorkersWaited \/ ServersWaited \/ CleanUp
    BY <2>3 DEF ListenFails, SeeCtxDone, WorkersWaited, ServersWaited, CleanUp
  <2>4. QED
    BY <1>4, <2>1, <2>2, <2>3 DEF MainStep
<1>5. CASE ServeStep
  <2>1. UNCHANGED <<main, attempt, ctxDone, starts, migrator>>
    BY <1>5 DEF ServeStep, startVars, migratorVars
  <2>2. ASSUME NEW s \in Servers, ServerStep(s) \/ ServeBreaks(s)
        PROVE  LifeTypes'
    <3>1. server' \in [Servers -> {"off", "starting", "serving", "reporting", "returned"}]
      BY <2>2 DEF ServerStep, ServeBegin, Report, ServeReturns, ServeBreaks, ServerTo
    <3>2. UNCHANGED <<stopping, shutter, timedOut, request>>
      BY <2>2 DEF ServerStep, ServeBegin, Report, ServeReturns, ServeBreaks
    <3>3. broken' \in SUBSET Servers
      BY <2>2 DEF ServerStep, ServeBegin, Report, ServeReturns, ServeBreaks
    <3>4. errs' \in 0 .. errsCapacity
      BY <2>2 DEF ServerStep, ServeBegin, Report, ServeReturns, ServeBreaks
    <3>5. QED
      BY <2>1, <3>1, <3>2, <3>3, <3>4
  <2>3. ASSUME NEW r \in Requests, Arrive(r) \/ Answer(r)
        PROVE  LifeTypes'
    BY <2>1, <2>3 DEF Arrive, Answer
  <2>4. CASE ShutterStep
    BY <2>1, <2>4 DEF ShutterStep, ShutdownBegin, ShutdownReturns, ShutdownTimesOut,
                      ShutdownTo, StopReturns
  <2>5. QED
    BY <1>5, <2>2, <2>3, <2>4 DEF ServeStep
<1>6. CASE Over \/ UNCHANGED lifeVars
  BY <1>6 DEF Over, lifeVars, startVars, migratorVars, serveVars
<1>7. QED
  BY <1>1, <1>2, <1>3, <1>4, <1>5, <1>6 DEF LifeNext

(* Every variable keeps its type: the attempts stay within their limit, and *)
(* the channel of errors within its capacity.                               *)
THEOREM LifeTypeCorrect == LifeSpec => []LifeTypeOK
<1>1. LifeTypes /\ SchemaInv => LifeTypeOK
  BY DEF LifeTypes, SchemaInv, LifeTypeOK
<1>2. QED
  BY <1>1, LifeTypesInit, LifeTypesNext, SchemaInvAlways, PTL DEF LifeSpec
=============================================================================
