----------------------------- MODULE SqlRunner -----------------------------
(***************************************************************************)
(* SQLRunner of database/migrate.go: the open databases by DSN, shared by  *)
(* all callers of Exec and by Close.  The mutex covers the lookup, the     *)
(* insertion and Close, but not the opening of a database in between, nor  *)
(* the statement afterwards.                                               *)
(***************************************************************************)
EXTENDS FiniteSets

CONSTANTS
    Calls,      \* calls of Exec, each made at most once
    Closers,    \* calls of Close, each made at most once
    DSNs,       \* data source names
    dsn,        \* the data source of each call
    NoDb        \* no database

ASSUME RunnerAssumption ==
    /\ dsn \in [Calls -> DSNs]
    /\ NoDb \notin Calls

(* A call opens one database at most, which is known by the call that opened *)
(* it: a database handle is a member of Calls.                               *)
VARIABLES
    dbs,        \* the runner's map: the database of each DSN
    open,       \* databases open now
    exec,       \* where each call of Exec is
    db,         \* the database each call works with
    close,      \* where each call of Close is
    stopped     \* calls that met a closed database

runnerVars == <<dbs, open, exec, db, close, stopped>>

RunnerInit ==
    /\ dbs = [d \in DSNs |-> NoDb]
    /\ open = {}
    /\ exec = [c \in Calls |-> "none"]
    /\ db = [c \in Calls |-> NoDb]
    /\ close = [k \in Closers |-> "none"]
    /\ stopped = {}

(* Only Close keeps the mutex from one step of this model to the next. *)
MutexFree == \A k \in Closers : close[k] /= "closing"

ExecTo(c, place) == exec' = [exec EXCEPT ![c] = place]

-----------------------------------------------------------------------------
(* Exec *)

(* ctx.Err is asked first; a call with a cancelled context ends here.  So   *)
(* does a blank statement, without an error, but no caller of Exec has one. *)
ExecBegin(c) ==
    /\ exec[c] = "none"
    /\ \E place \in {"lookup", "failed"} : ExecTo(c, place)
    /\ UNCHANGED <<dbs, open, db, close, stopped>>

(* Mutant: a missing entry of the map is not noticed. *)
LookupUnchecked(c) ==
    /\ exec[c] = "lookup"
    /\ MutexFree
    /\ ExecTo(c, "run")
    /\ db' = [db EXCEPT ![c] = dbs[dsn[c]]]
    /\ UNCHANGED <<dbs, open, close, stopped>>

(* The first critical section of dbFor. *)
Lookup(c) ==
    /\ exec[c] = "lookup"
    /\ MutexFree
    /\ IF dbs[dsn[c]] /= NoDb
         THEN ExecTo(c, "run") /\ db' = [db EXCEPT ![c] = dbs[dsn[c]]]
         ELSE ExecTo(c, "open") /\ UNCHANGED db
    /\ UNCHANGED <<dbs, open, close, stopped>>

(* Mutant: a database that does not answer the ping stays open. *)
OpenDBNotClosed(c) ==
    /\ exec[c] = "open"
    /\ open' = open \cup {c}
    /\ \E place \in {"insert", "failed"} : ExecTo(c, place)
    /\ UNCHANGED <<dbs, db, close, stopped>>

(* A database is opened and pinged; when the ping fails it is closed again.  *)
OpenDB(c) ==
    /\ exec[c] = "open"
    /\ \/ open' = open \cup {c} /\ ExecTo(c, "insert")
       \/ UNCHANGED open /\ ExecTo(c, "failed")
    /\ UNCHANGED <<dbs, db, close, stopped>>

(* Mutant: the map is not read a second time. *)
InsertOverwrites(c) ==
    /\ exec[c] = "insert"
    /\ MutexFree
    /\ dbs' = [dbs EXCEPT ![dsn[c]] = c]
    /\ db' = [db EXCEPT ![c] = c]
    /\ ExecTo(c, "run")
    /\ UNCHANGED <<open, close, stopped>>

(* Mutant: the database found in the map is closed and replaced. *)
InsertReplaces(c) ==
    /\ exec[c] = "insert"
    /\ MutexFree
    /\ dbs' = [dbs EXCEPT ![dsn[c]] = c]
    /\ open' = open \ {dbs[dsn[c]]}
    /\ db' = [db EXCEPT ![c] = c]
    /\ ExecTo(c, "run")
    /\ UNCHANGED <<close, stopped>>

(* The second critical section of dbFor: whoever was faster is used. *)
Insert(c) ==
    /\ exec[c] = "insert"
    /\ MutexFree
    /\ IF dbs[dsn[c]] /= NoDb
         THEN /\ open' = open \ {c}
              /\ db' = [db EXCEPT ![c] = dbs[dsn[c]]]
              /\ UNCHANGED dbs
         ELSE /\ dbs' = [dbs EXCEPT ![dsn[c]] = c]
              /\ db' = [db EXCEPT ![c] = c]
              /\ UNCHANGED open
    /\ ExecTo(c, "run")
    /\ UNCHANGED <<close, stopped>>

(* The statement fails on a closed database; otherwise as the database says. *)
Run(c) ==
    /\ exec[c] = "run"
    /\ IF db[c] \in open
         THEN /\ \E place \in {"done", "failed"} : ExecTo(c, place)
              /\ UNCHANGED stopped
         ELSE ExecTo(c, "failed") /\ stopped' = stopped \cup {c}
    /\ UNCHANGED <<dbs, open, db, close>>

ExecStep(c) == Lookup(c) \/ OpenDB(c) \/ Insert(c) \/ Run(c)

-----------------------------------------------------------------------------
(* Close *)

CloseBegin(k) ==
    /\ close[k] = "none"
    /\ MutexFree
    /\ close' = [close EXCEPT ![k] = "closing"]
    /\ UNCHANGED <<dbs, open, exec, db, stopped>>

CloseOne(k, d) ==
    /\ close[k] = "closing"
    /\ dbs[d] /= NoDb
    /\ open' = open \ {dbs[d]}
    /\ dbs' = [dbs EXCEPT ![d] = NoDb]
    /\ UNCHANGED <<exec, db, close, stopped>>

(* Mutant: Close returns after the first database. *)
CloseEndEarly(k) ==
    /\ close[k] = "closing"
    /\ \E d \in DSNs : dbs[d] = NoDb
    /\ close' = [close EXCEPT ![k] = "returned"]
    /\ UNCHANGED <<dbs, open, exec, db, stopped>>

CloseEnd(k) ==
    /\ close[k] = "closing"
    /\ \A d \in DSNs : dbs[d] = NoDb
    /\ close' = [close EXCEPT ![k] = "returned"]
    /\ UNCHANGED <<dbs, open, exec, db, stopped>>

CloseStep(k) == (\E d \in DSNs : CloseOne(k, d)) \/ CloseEnd(k)

-----------------------------------------------------------------------------
RunnerQuiet ==
    /\ \A c \in Calls : exec[c] \in {"done", "failed"}
    /\ \A k \in Closers : close[k] = "returned"
    /\ UNCHANGED runnerVars

RunnerNext ==
    \/ \E c \in Calls : ExecBegin(c) \/ ExecStep(c)
    \/ \E k \in Closers : CloseBegin(k) \/ CloseStep(k)
    \/ RunnerQuiet

RunnerSpec == RunnerInit /\ [][RunnerNext]_runnerVars

-----------------------------------------------------------------------------
(* Properties *)

RunnerTypeOK ==
    /\ dbs \in [DSNs -> Calls \cup {NoDb}]
    /\ open \in SUBSET Calls
    /\ exec \in [Calls -> {"none", "lookup", "open", "insert", "run", "done", "failed"}]
    /\ db \in [Calls -> Calls \cup {NoDb}]
    /\ \A c \in Calls : exec[c] = "run" => db[c] /= NoDb
    /\ close \in [Closers -> {"none", "closing", "returned"}]
    /\ stopped \in SUBSET Calls

(* No database leaks: one that is open is the map's for its DSN, where Close *)
(* will find it, or its opener is about to put it there or to close it.      *)
NoLeak ==
    \A h \in open : dbs[dsn[h]] = h \/ exec[h] = "insert"

(* Calls that are about to use open databases of one DSN use the same one,  *)
(* however many of them opened one at the same time.                        *)
OneDatabase ==
    \A c, e \in Calls :
        /\ dsn[c] = dsn[e]
        /\ exec[c] = "run" /\ exec[e] = "run"
        /\ db[c] \in open /\ db[e] \in open
        => db[c] = db[e]

(* Only Close takes a database from a call that is about to use it. *)
StoppedByClose ==
    (stopped /= {} \/ \E c \in Calls : exec[c] = "run" /\ db[c] \notin open)
        => \E k \in Closers : close[k] /= "none"

(* When Close returns, every open database is one whose opener has not yet  *)
(* come to put it into the map.                                             *)
ReleasedAtReturn ==
    [][\A k \in Closers :
         close[k] = "closing" /\ close'[k] = "returned"
             => \A h \in open' : exec'[h] = "insert"]_runnerVars

(* The runner behaves like one shared database of each data source, which is *)
(* got or made in one step, although two callers may open one at the same    *)
(* time and Close may come between any two steps of either.                  *)
Pool == INSTANCE SharedPool
    WITH Callers <- Calls, Sources <- DSNs, source <- dsn, Handles <- Calls,
         current <- dbs,
         using <- [c \in Calls |-> IF exec[c] = "run" THEN db[c] ELSE NoDb],
         made <- {h \in Calls : db[h] = h},
         call <- [c \in Calls |->
                    CASE exec[c] = "run" -> "using"
                      [] exec[c] \in {"done", "failed"} -> exec[c]
                      [] OTHER -> "waiting"]

SharesDatabases == Pool!Spec
=============================================================================
