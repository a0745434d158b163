-------------------------- MODULE SqlRunnerProofs --------------------------
(***************************************************************************)
(* For any number of calls, of closers and of data sources: no database    *)
(* leaks, callers share one, and only Close takes it away from them.       *)
(***************************************************************************)
EXTENDS SqlRunner, TLAPS

(* A call has opened its own database from "insert" on, and not before. *)
Opener(c) == exec[c] \in {"insert", "run", "done", "failed"}

(* What an entry of the map says: the database of this DSN is open, and its *)
(* opener has put it there.                                                 *)
EntriesOpen ==
    \A d \in DSNs : dbs[d] /= NoDb =>
        /\ dbs[d] \in open
        /\ dsn[dbs[d]] = d
        /\ exec[dbs[d]] \in {"run", "done", "failed"}

(* What a call that is about to run holds is of its DSN. *)
HeldIsOfDSN ==
    \A c \in Calls : exec[c] = "run" =>
        /\ db[c] \in Calls
        /\ dsn[db[c]] = dsn[c]
        /\ exec[db[c]] \in {"run", "done", "failed"}

OpenersAreOpen == \A h \in open : Opener(h)

InsertersAreOpen == \A c \in Calls : exec[c] = "insert" => c \in open

(* Without a call of Close nothing is closed that somebody holds. *)
HeldUntilClose ==
    (\A k \in Closers : close[k] = "none") =>
        /\ stopped = {}
        /\ \A c \in Calls : exec[c] = "run" => db[c] = dbs[dsn[c]]

RunnerInv ==
    /\ RunnerTypeOK
    /\ NoLeak
    /\ EntriesOpen
    /\ HeldIsOfDSN
    /\ OpenersAreOpen
    /\ InsertersAreOpen
    /\ HeldUntilClose

LEMMA RunnerInvInit == RunnerInit => RunnerInv
BY RunnerAssumption
   DEF RunnerInit, RunnerInv, RunnerTypeOK, NoLeak, EntriesOpen, HeldIsOfDSN, OpenersAreOpen,
       InsertersAreOpen, HeldUntilClose

LEMMA RunnerInvNext == RunnerInv /\ [RunnerNext]_runnerVars => RunnerInv'
<1> SUFFICES ASSUME RunnerInv, [RunnerNext]_runnerVars
             PROVE  RunnerInv'
  OBVIOUS
<1> USE RunnerAssumption DEF RunnerInv, RunnerTypeOK, NoLeak, EntriesOpen, HeldIsOfDSN,
                             OpenersAreOpen, InsertersAreOpen, HeldUntilClose, Opener
<1>1. ASSUME NEW c \in Calls, ExecBegin(c)
      PROVE  RunnerInv'
  BY <1>1 DEF ExecBegin, ExecTo
<1>2. ASSUME NEW c \in Calls, Lookup(c)
      PROVE  RunnerInv'
  BY <1>2 DEF Lookup, ExecTo
<1>3. ASSUME NEW c \in Calls, OpenDB(c)
      PROVE  RunnerInv'
  BY <1>3 DEF OpenDB, ExecTo
<1>4. ASSUME NEW c \in Calls, Insert(c)
      PROVE  RunnerInv'
  BY <1>4 DEF Insert, ExecTo
<1>5. ASSUME NEW c \in Calls, Run(c)
      PROVE  RunnerInv'
  BY <1>5 DEF Run, ExecTo
<1>6. ASSUME NEW k \in Closers, CloseBegin(k)
      PROVE  RunnerInv'
  BY <1>6 DEF CloseBegin
<1>7. ASSUME NEW k \in Closers, NEW d \in DSNs, CloseOne(k, d)
      PROVE  RunnerInv'
  BY <1>7 DEF CloseOne
<1>8. ASSUME NEW k \in Closers, CloseEnd(k)
      PROVE  RunnerInv'
  BY <1>8 DEF CloseEnd
<1>9. CASE UNCHANGED runnerVars
  BY <1>9 DEF runnerVars
<1>10. QED
  BY <1>1, <1>2, <1>3, <1>4, <1>5, <1>6, <1>7, <1>8, <1>9
     DEF RunnerNext, ExecStep, CloseStep, RunnerQuiet

LEMMA RunnerInvAlways == RunnerSpec => []RunnerInv
BY RunnerInvInit, RunnerInvNext, PTL DEF RunnerSpec

-----------------------------------------------------------------------------
(* Every variable has its type, and no call comes to its statement without  *)
(* a database.                                                              *)
THEOREM RunnerTypeCorrect == RunnerSpec => []RunnerTypeOK
BY RunnerInvAlways, PTL DEF RunnerInv

(* A database that is open is in the map, or in the hands of its opener.    *)
THEOREM NothingLeaks == RunnerSpec => []NoLeak
BY RunnerInvAlways, PTL DEF RunnerInv

(* Calls that are about to use open databases of one DSN share one.         *)
THEOREM CallersShare == RunnerSpec => []OneDatabase
<1>1. RunnerInv => OneDatabase
  <2> SUFFICES ASSUME RunnerInv, NEW c \in Calls, NEW e \in Calls,
                      dsn[c] = dsn[e], exec[c] = "run", exec[e] = "run",
                      db[c] \in open, db[e] \in open
               PROVE  db[c] = db[e]
    BY DEF OneDatabase
  <2>1. dbs[dsn[c]] = db[c]
    BY DEF RunnerInv, NoLeak, HeldIsOfDSN
  <2>2. dbs[dsn[e]] = db[e]
    BY DEF RunnerInv, NoLeak, HeldIsOfDSN
  <2>3. QED
    BY <2>1, <2>2
<1>2. QED
  BY <1>1, RunnerInvAlways, PTL

(* No call meets a closed database as long as nobody has called Close.      *)
THEOREM OnlyCloseStops == RunnerSpec => []StoppedByClose
<1>1. RunnerInv => StoppedByClose
  <2> SUFFICES ASSUME RunnerInv, \A k \in Closers : close[k] = "none"
               PROVE  stopped = {} /\ \A c \in Calls : exec[c] = "run" => db[c] \in open
    BY DEF StoppedByClose
  <2>1. stopped = {} /\ \A c \in Calls : exec[c] = "run" => db[c] = dbs[dsn[c]]
    BY DEF RunnerInv, HeldUntilClose
  <2>2. ASSUME NEW c \in Calls, exec[c] = "run"
        PROVE  db[c] \in open
    BY <2>1, <2>2, RunnerAssumption DEF RunnerInv, EntriesOpen, HeldIsOfDSN
  <2>3. QED
    BY <2>1, <2>2
<1>2. QED
  BY <1>1, RunnerInvAlways, PTL

(* When Close returns, only databases that were not in the map are open.    *)
THEOREM CloseReleases == RunnerSpec => ReleasedAtReturn
<1>1. ASSUME RunnerInv, [RunnerNext]_runnerVars, NEW k \in Closers,
             close[k] = "closing", close'[k] = "returned"
      PROVE  \A h \in open' : exec'[h] = "insert"
  <2>1. CloseEnd(k)
    BY <1>1 DEF RunnerNext, ExecBegin, ExecStep, Lookup, OpenDB, Insert, Run, CloseBegin,
                CloseStep, CloseOne, CloseEnd, RunnerQuiet, runnerVars, RunnerInv, RunnerTypeOK
  <2>2. /\ \A d \in DSNs : dbs[d] = NoDb
        /\ open' = open /\ exec' = exec
    BY <2>1 DEF CloseEnd
  <2>3. QED
    BY <1>1, <2>2, RunnerAssumption DEF RunnerInv, NoLeak, RunnerTypeOK
<1>2. RunnerInv /\ [RunnerNext]_runnerVars =>
        [\A k \in Closers :
           close[k] = "closing" /\ close'[k] = "returned"
               => \A h \in open' : exec'[h] = "insert"]_runnerVars
  BY <1>1
<1>3. QED
  BY <1>2, RunnerInvAlways, PTL DEF RunnerSpec, ReleasedAtReturn

-----------------------------------------------------------------------------
(* Refinement of SharedPool.  A step of Exec or Close is a step of the pool, *)
(* or none: the opening of a database that nobody has seen yet.              *)

Using == [c \in Calls |-> IF exec[c] = "run" THEN db[c] ELSE NoDb]
Made  == {h \in Calls : db[h] = h}
Phase(place) ==
    CASE place = "run" -> "using"
      [] place \in {"done", "failed"} -> place
      [] OTHER -> "waiting"
Call  == [c \in Calls |-> Phase(exec[c])]

(* A call that has not got a database yet has none. *)
NoneYet ==
    \A c \in Calls : exec[c] \in {"none", "lookup", "open", "insert"} => db[c] = NoDb

LEMMA NoneYetNext ==
    ASSUME RunnerInv, NoneYet, [RunnerNext]_runnerVars
    PROVE  NoneYet'
<1> USE DEF NoneYet, RunnerInv, RunnerTypeOK, ExecTo
<1>1. ASSUME NEW c \in Calls, ExecBegin(c) \/ ExecStep(c)
      PROVE  NoneYet'
  BY <1>1 DEF ExecBegin, ExecStep, Lookup, OpenDB, Insert, Run
<1>2. CASE UNCHANGED <<exec, db>>
  BY <1>2
<1>3. ASSUME NEW k \in Closers, CloseBegin(k) \/ CloseStep(k)
      PROVE  UNCHANGED <<exec, db>>
  BY <1>3 DEF CloseBegin, CloseStep, CloseOne, CloseEnd
<1>4. QED
  BY <1>1, <1>2, <1>3 DEF RunnerNext, RunnerQuiet, runnerVars

LEMMA NoneYetAlways == RunnerSpec => []NoneYet
<1>1. RunnerInit => NoneYet
  BY DEF RunnerInit, NoneYet
<1>2. QED
  BY <1>1, NoneYetNext, RunnerInvAlways, PTL DEF RunnerSpec

(* What a step of one call means for the state of the pool. *)
LEMMA MapOfCall ==
    ASSUME RunnerInv, NEW c \in Calls, NEW place \in {"lookup", "open", "insert", "run",
                                                       "done", "failed"},
           NEW h \in Calls \cup {NoDb},
           ExecTo(c, place), db' = [db EXCEPT ![c] = h]
    PROVE  /\ Call' = [Call EXCEPT ![c] = Phase(place)]
           /\ Using' = [Using EXCEPT ![c] = IF place = "run" THEN h ELSE NoDb]
           /\ Made' = (Made \ {c}) \cup (IF h = c THEN {c} ELSE {})
<1>1. exec' = [exec EXCEPT ![c] = place] /\ db' = [db EXCEPT ![c] = h]
  BY DEF ExecTo
<1>2. /\ exec \in [Calls -> {"none", "lookup", "open", "insert", "run", "done", "failed"}]
      /\ db \in [Calls -> Calls \cup {NoDb}]
  BY DEF RunnerInv, RunnerTypeOK
<1>3. \A e \in Calls :
        /\ exec'[e] = (IF e = c THEN place ELSE exec[e])
        /\ db'[e] = (IF e = c THEN h ELSE db[e])
  BY <1>1, <1>2
<1>4. Call' = [Call EXCEPT ![c] = Phase(place)]
  BY <1>3 DEF Call
<1>5. Using' = [Using EXCEPT ![c] = IF place = "run" THEN h ELSE NoDb]
  BY <1>3 DEF Using
<1>6. Made' = (Made \ {c}) \cup (IF h = c THEN {c} ELSE {})
  BY <1>3 DEF Made
<1>7. QED
  BY <1>4, <1>5, <1>6

(* The pool's actions, seen through the mapping. *)
LEMMA PoolActions ==
    ASSUME NEW c \in Calls
    PROVE  /\ Pool!Get(c) <=>
                 /\ Call[c] = "waiting" /\ Call' = [Call EXCEPT ![c] = "using"]
                 /\ dbs[dsn[c]] /= NoDb
                 /\ Using' = [Using EXCEPT ![c] = dbs[dsn[c]]]
                 /\ UNCHANGED <<dbs, Made>>
           /\ Pool!Make(c) <=>
                 /\ Call[c] = "waiting" /\ Call' = [Call EXCEPT ![c] = "using"]
                 /\ dbs[dsn[c]] = NoDb
                 /\ \E h \in Calls \ Made :
                      /\ dbs' = [dbs EXCEPT ![dsn[c]] = h]
                      /\ Using' = [Using EXCEPT ![c] = h]
                      /\ Made' = Made \cup {h}
           /\ Pool!Succeed(c) <=>
                 /\ Call[c] = "using" /\ Call' = [Call EXCEPT ![c] = "done"]
                 /\ Using[c] = dbs[dsn[c]]
                 /\ Using' = [Using EXCEPT ![c] = NoDb]
                 /\ UNCHANGED <<dbs, Made>>
           /\ Pool!Fail(c) <=>
                 /\ Call[c] \in {"waiting", "using"} /\ Call' = [Call EXCEPT ![c] = "failed"]
                 /\ Using' = [Using EXCEPT ![c] = NoDb]
                 /\ UNCHANGED <<dbs, Made>>
BY DEF Pool!Get, Pool!Make, Pool!Succeed, Pool!Fail, Pool!CallTo, Call, Using, Made, Phase

LEMMA PoolVars ==
    UNCHANGED <<dbs, Using, Made, Call>> <=> UNCHANGED Pool!poolVars
BY DEF Pool!poolVars, Call, Using, Made, Phase

LEMMA CallRefines ==
    ASSUME RunnerInv, NoneYet, NEW c \in Calls, ExecBegin(c) \/ ExecStep(c)
    PROVE  Pool!Next \/ UNCHANGED Pool!poolVars
<1> USE RunnerAssumption
<1>1. /\ exec \in [Calls -> {"none", "lookup", "open", "insert", "run", "done", "failed"}]
      /\ db \in [Calls -> Calls \cup {NoDb}] /\ db = [db EXCEPT ![c] = db[c]]
      /\ dbs[dsn[c]] \in Calls \cup {NoDb} /\ dsn[c] \in DSNs
  BY DEF RunnerInv, RunnerTypeOK
<1>2. db[c] \in Calls \cup {NoDb} /\ (Made \ {c}) \cup (IF db[c] = c THEN {c} ELSE {}) = Made
  BY <1>1 DEF Made
<1>3. exec[c] \in {"none", "lookup", "open", "insert"} =>
        /\ Call[c] = "waiting" /\ Using[c] = NoDb
        /\ Call = [Call EXCEPT ![c] = "waiting"] /\ Using = [Using EXCEPT ![c] = NoDb]
        /\ c \notin Made
  BY <1>1 DEF Call, Using, Phase, Made, NoneYet
<1>4. ASSUME NEW place \in {"lookup", "open", "insert", "failed"},
             exec[c] \in {"none", "lookup", "open", "insert"},
             ExecTo(c, place), UNCHANGED <<dbs, db>>
      PROVE  Pool!Next \/ UNCHANGED Pool!poolVars
  <2>1. /\ Call' = [Call EXCEPT ![c] = Phase(place)]
        /\ Using' = [Using EXCEPT ![c] = NoDb]
        /\ Made' = Made
    <3>1. /\ db' = [db EXCEPT ![c] = db[c]] /\ ExecTo(c, place)
          /\ place \in {"lookup", "open", "insert", "run", "done", "failed"}
      BY <1>1, <1>4
    <3>2. /\ Call' = [Call EXCEPT ![c] = Phase(place)]
          /\ Using' = [Using EXCEPT ![c] = IF place = "run" THEN db[c] ELSE NoDb]
          /\ Made' = (Made \ {c}) \cup (IF db[c] = c THEN {c} ELSE {})
      BY <1>2, <3>1, MapOfCall
    <3>3. QED
      BY <1>2, <1>4, <3>2
  <2>2. CASE place = "failed"
    <3>1. Pool!Fail(c)
      BY <1>3, <1>4, <2>1, <2>2, PoolActions DEF Phase
    <3>2. QED
      BY <3>1 DEF Pool!Next
  <2>3. CASE place /= "failed"
    <3>1. Phase(place) = "waiting"
      BY <1>4, <2>3 DEF Phase
    <3>2. UNCHANGED <<dbs, Using, Made, Call>>
      BY <1>3, <1>4, <2>1, <3>1
    <3>3. QED
      BY <3>2, PoolVars
  <2>4. QED
    BY <2>2, <2>3
<1>5. ASSUME NEW h \in Calls, exec[c] \in {"lookup", "insert"}, h = dbs[dsn[c]],
             ExecTo(c, "run"), db' = [db EXCEPT ![c] = h], dbs' = dbs
      PROVE  Pool!Next
  <2>1. h /= c
    BY <1>1, <1>5 DEF RunnerInv, EntriesOpen
  <2>2. /\ Call' = [Call EXCEPT ![c] = "using"]
        /\ Using' = [Using EXCEPT ![c] = h]
        /\ Made' = Made
    <3>1. /\ Call' = [Call EXCEPT ![c] = Phase("run")]
          /\ Using' = [Using EXCEPT ![c] = h]
          /\ Made' = (Made \ {c}) \cup (IF h = c THEN {c} ELSE {})
      BY <1>5, MapOfCall
    <3>2. QED
      BY <1>3, <1>5, <2>1, <3>1 DEF Phase
  <2>3. Pool!Get(c)
    BY <1>3, <1>5, <2>2, PoolActions
  <2>4. QED
    BY <2>3 DEF Pool!Next
<1>6. CASE ExecBegin(c)
  BY <1>4, <1>6 DEF ExecBegin
<1>7. CASE Lookup(c)
  <2>1. CASE dbs[dsn[c]] /= NoDb
    BY <1>1, <1>5, <1>7, <2>1 DEF Lookup
  <2>2. CASE dbs[dsn[c]] = NoDb
    BY <1>4, <1>7, <2>2 DEF Lookup
  <2>3. QED
    BY <2>1, <2>2
<1>8. CASE OpenDB(c)
  BY <1>4, <1>8 DEF OpenDB
<1>9. CASE Insert(c)
  <2>1. CASE dbs[dsn[c]] /= NoDb
    BY <1>1, <1>5, <1>9, <2>1 DEF Insert
  <2>2. CASE dbs[dsn[c]] = NoDb
    <3>1. ExecTo(c, "run") /\ db' = [db EXCEPT ![c] = c] /\ dbs' = [dbs EXCEPT ![dsn[c]] = c]
      BY <1>9, <2>2 DEF Insert
    <3>2. /\ Call' = [Call EXCEPT ![c] = "using"]
          /\ Using' = [Using EXCEPT ![c] = c]
          /\ Made' = Made \cup {c}
      BY <3>1, MapOfCall DEF Phase
    <3>3. c \in Calls \ Made /\ Call[c] = "waiting"
      BY <1>3, <1>9 DEF Insert
    <3>4. Pool!Make(c)
      BY <2>2, <3>1, <3>2, <3>3, PoolActions
    <3>5. QED
      BY <3>4 DEF Pool!Next
  <2>3. QED
    BY <2>1, <2>2
<1>10. CASE Run(c)
  <2>1. exec[c] = "run" /\ UNCHANGED <<dbs, db>> /\ Call[c] = "using" /\ Using[c] = db[c]
    BY <1>10 DEF Run, Call, Using, Phase
  <2>2. ASSUME NEW place \in {"done", "failed"}, ExecTo(c, place)
        PROVE  /\ Call' = [Call EXCEPT ![c] = place]
               /\ Using' = [Using EXCEPT ![c] = NoDb]
               /\ Made' = Made
    BY <1>1, <1>2, <2>1, <2>2, MapOfCall DEF Phase
  <2>3. CASE ExecTo(c, "done") /\ db[c] \in open
    <3>1. db[c] = dbs[dsn[c]]
      BY <1>1, <2>1, <2>3 DEF RunnerInv, NoLeak, HeldIsOfDSN
    <3>2. Pool!Succeed(c)
      BY <2>1, <2>2, <2>3, <3>1, PoolActions
    <3>3. QED
      BY <3>2 DEF Pool!Next
  <2>4. CASE ExecTo(c, "failed")
    <3>1. Pool!Fail(c)
      BY <2>1, <2>2, <2>4, PoolActions
    <3>2. QED
      BY <3>1 DEF Pool!Next
  <2>5. QED
    BY <1>10, <2>3, <2>4 DEF Run
<1>11. QED
  BY <1>6, <1>7, <1>8, <1>9, <1>10 DEF ExecStep

LEMMA RunnerRefines ==
    RunnerInv /\ NoneYet /\ [RunnerNext]_runnerVars => [Pool!Next]_(Pool!poolVars)
<1> SUFFICES ASSUME RunnerInv, NoneYet, [RunnerNext]_runnerVars
             PROVE  Pool!Next \/ UNCHANGED Pool!poolVars
  OBVIOUS
<1>1. ASSUME NEW c \in Calls, ExecBegin(c) \/ ExecStep(c)
      PROVE  Pool!Next \/ UNCHANGED Pool!poolVars
  BY <1>1, CallRefines
<1>2. CASE UNCHANGED <<dbs, exec, db>>
  BY <1>2 DEF Pool!poolVars
<1>3. ASSUME NEW k \in Closers, NEW d \in DSNs, CloseOne(k, d)
      PROVE  Pool!Next
  <2>1. UNCHANGED <<Using, Made, Call>>
    BY <1>3 DEF CloseOne, Using, Made, Call
  <2>2. Pool!Retire(d)
    BY <1>3, <2>1 DEF CloseOne, Pool!Retire, Using, Made, Call, Phase
  <2>3. QED
    BY <2>2 DEF Pool!Next
<1>4. ASSUME NEW k \in Closers, CloseBegin(k) \/ CloseEnd(k)
      PROVE  UNCHANGED <<dbs, exec, db>>
  BY <1>4 DEF CloseBegin, CloseEnd
<1>5. QED
  BY <1>1, <1>2, <1>3, <1>4 DEF RunnerNext, CloseStep, RunnerQuiet, runnerVars

(* The runner implements one shared database of each data source, got or     *)
(* made in one step, whatever comes between the two critical sections.       *)
THEOREM RunnerSharesDatabases == RunnerSpec => SharesDatabases
<1>1. RunnerInit => Pool!Init
  <2> SUFFICES ASSUME RunnerInit PROVE Pool!Init
    OBVIOUS
  <2>1. Made = {}
    BY RunnerAssumption DEF RunnerInit, Made
  <2>2. QED
    BY <2>1 DEF RunnerInit, Pool!Init, Made
<1>2. QED
  BY <1>1, RunnerInvAlways, NoneYetAlways, RunnerRefines, PTL
     DEF RunnerSpec, SharesDatabases, Pool!Spec
=============================================================================
