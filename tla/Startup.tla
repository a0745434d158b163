------------------------------ MODULE Startup ------------------------------
(***************************************************************************)
(* The start of the process: provideRepository waits for the database      *)
(* (WaitForDatabase) and goes on whatever comes of it, SetupRepository     *)
(* executes the migration files in the order of their names                *)
(* (ApplyMigrations).  The schema outlives the process, which may be       *)
(* killed at any moment and started again.  Beside it the command          *)
(* cmd/migrate executes the same files in the same database.               *)
(***************************************************************************)
EXTENDS Integers

CONSTANTS
    NFiles,         \* migration files, numbered in the order of their names
    MaxAttempts,    \* maxAttempts of WaitForDatabase
    MaxStarts       \* how often the process is started

ASSUME StartupAssumption ==
    NFiles \in Nat /\ MaxAttempts \in Nat \ {0} /\ MaxStarts \in Nat \ {0}

VARIABLES
    main,       \* where main is
    attempt,    \* the attempt of WaitForDatabase
    file,       \* the file ApplyMigrations executes next
    schema,     \* the files the database has executed
    ctxDone,    \* the context of the process is cancelled
    starts,     \* starts so far
    migrator,   \* where cmd/migrate is
    migrating   \* the file it executes next

migratorVars == <<migrator, migrating>>
startVars == <<attempt, file, schema, starts>>

Ended == {"exited", "failed", "killed"}

(* ShouldCheckDatabase: without a host or a DSN nothing is waited for. *)
FirstPlace == {"wait", "migrate"}

StartInit ==
    /\ main \in FirstPlace
    /\ attempt = 1
    /\ file = 1
    /\ schema = {}
    /\ ctxDone = FALSE
    /\ starts = 1
    /\ migrator = "wait"
    /\ migrating = 1

-----------------------------------------------------------------------------
(* WaitForDatabase *)

Dial ==
    /\ main = "wait"
    /\ ~ctxDone
    /\ main' = "migrate"
    /\ UNCHANGED <<startVars, ctxDone>>

(* Mutant: one attempt too many. *)
DialFailsOnceMore ==
    /\ main = "wait"
    /\ IF ctxDone \/ attempt > MaxAttempts
         THEN main' = "migrate" /\ UNCHANGED attempt
         ELSE attempt' = attempt + 1 /\ UNCHANGED main
    /\ UNCHANGED <<file, schema, ctxDone, starts>>

(* After the pause of two seconds, or at once when the context is cancelled. *)
(* provideRepository logs the error and continues.                           *)
DialFails ==
    /\ main = "wait"
    /\ IF ctxDone \/ attempt = MaxAttempts
         THEN main' = "migrate" /\ UNCHANGED attempt
         ELSE attempt' = attempt + 1 /\ UNCHANGED main
    /\ UNCHANGED <<file, schema, ctxDone, starts>>

-----------------------------------------------------------------------------
(* ApplyMigrations *)

(* One Exec of the whole file, which the database executes as one transaction. *)
ApplyFile ==
    /\ main = "migrate"
    /\ file <= NFiles
    /\ ~ctxDone
    /\ schema' = schema \cup {file}
    /\ file' = file + 1
    /\ UNCHANGED <<main, attempt, ctxDone, starts>>

(* Mutant: a file that fails is skipped. *)
ApplyGoesOn ==
    /\ main = "migrate"
    /\ file <= NFiles
    /\ file' = file + 1
    /\ UNCHANGED <<main, attempt, schema, ctxDone, starts>>

(* Mutant: a failed migration does not keep the service from starting. *)
ApplyIgnored ==
    /\ main = "migrate"
    /\ file <= NFiles
    /\ main' = "listen"
    /\ UNCHANGED <<startVars, ctxDone>>

(* Exec refuses a cancelled context; a file may have been executed although *)
(* the answer is an error.  main ends with os.Exit(1).                      *)
ApplyFails ==
    /\ main = "migrate"
    /\ file <= NFiles
    /\ main' = "failed"
    /\ schema' \in {schema, IF ctxDone THEN schema ELSE schema \cup {file}}
    /\ UNCHANGED <<attempt, file, ctxDone, starts>>

(* The repository is made, and main goes on. *)
SetupDone ==
    /\ main = "migrate"
    /\ file > NFiles
    /\ main' = "listen"
    /\ UNCHANGED <<startVars, ctxDone>>

StartStep == Dial \/ DialFails \/ ApplyFile \/ ApplyFails \/ SetupDone

-----------------------------------------------------------------------------
(* cmd/migrate: unlike the service it gives up when the database does not    *)
(* answer.                                                                   *)

MigratorWaited ==
    /\ migrator = "wait"
    /\ migrator' = "migrate"
    /\ UNCHANGED <<migrating, schema>>

MigratorApplies ==
    /\ migrator = "migrate"
    /\ migrating <= NFiles
    /\ schema' = schema \cup {migrating}
    /\ migrating' = migrating + 1
    /\ UNCHANGED migrator

(* The check of the database fails, a file does, or the process is killed. *)
MigratorFails ==
    /\ migrator \in {"wait", "migrate"}
    /\ migrator' = "failed"
    /\ \/ schema' = schema
       \/ /\ migrator = "migrate" /\ migrating <= NFiles
          /\ schema' = schema \cup {migrating}
    /\ UNCHANGED migrating

MigratorDone ==
    /\ migrator = "migrate"
    /\ migrating > NFiles
    /\ migrator' = "done"
    /\ UNCHANGED <<migrating, schema>>

MigratorStep == MigratorWaited \/ MigratorApplies \/ MigratorFails \/ MigratorDone

-----------------------------------------------------------------------------
Signal ==
    /\ main \notin Ended
    /\ ctxDone' = TRUE
    /\ UNCHANGED <<main, startVars>>

Kill ==
    /\ main \notin Ended
    /\ main' = "killed"
    /\ UNCHANGED <<startVars, ctxDone>>

(* Only the schema remains from the previous process. *)
StartAgain ==
    /\ main \in Ended
    /\ starts < MaxStarts
    /\ starts' = starts + 1
    /\ main' \in FirstPlace
    /\ attempt' = 1
    /\ file' = 1
    /\ ctxDone' = FALSE
    /\ UNCHANGED schema

-----------------------------------------------------------------------------
(* Properties *)

(* A file is executed only in a database that has executed all the earlier  *)
(* ones, whichever of the processes executes it, also when two do at once,  *)
(* and however the processes ended.                                         *)
SchemaInOrder ==
    \A n \in schema : \A m \in 1 .. n : m \in schema

(* From the moment main opens its listeners, and when cmd/migrate reports    *)
(* success, the schema is complete.                                          *)
ServesOnSchema ==
    main \notin {"wait", "migrate", "failed", "killed"} \/ migrator = "done" =>
        schema = 1 .. NFiles
=============================================================================
