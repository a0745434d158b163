----------------------------- MODULE SharedPool -----------------------------
(***************************************************************************)
(* What the SQL runner promises its callers, without a mutex that is let   *)
(* go in the middle, without databases that are opened and thrown away:    *)
(* there is one database of each data source at a time.  A caller gets it  *)
(* or makes it in one step, a statement succeeds only on the one that is   *)
(* current, and a database once closed is never handed out again.          *)
(***************************************************************************)
CONSTANTS
    Callers,    \* calls, each of one statement
    Sources,    \* data sources
    source,     \* the data source of each call
    Handles,    \* names of databases
    NoDb        \* no database

VARIABLES
    current,    \* the database of each data source
    using,      \* the database each call has got
    made,       \* every database there has been
    call        \* where each call is: waiting, using, done, failed

poolVars == <<current, using, made, call>>

Init ==
    /\ current = [s \in Sources |-> NoDb]
    /\ using = [c \in Callers |-> NoDb]
    /\ made = {}
    /\ call = [c \in Callers |-> "waiting"]

CallTo(c, from, to) ==
    /\ call[c] \in from
    /\ call' = [call EXCEPT ![c] = to]

(* The current database, or, where there is none, a new one. *)
Get(c) ==
    /\ CallTo(c, {"waiting"}, "using")
    /\ current[source[c]] /= NoDb
    /\ using' = [using EXCEPT ![c] = current[source[c]]]
    /\ UNCHANGED <<current, made>>

Make(c) ==
    /\ CallTo(c, {"waiting"}, "using")
    /\ current[source[c]] = NoDb
    /\ \E h \in Handles \ made :
         /\ current' = [current EXCEPT ![source[c]] = h]
         /\ using' = [using EXCEPT ![c] = h]
         /\ made' = made \cup {h}

(* The statement, on the database that is current when it is executed. *)
Succeed(c) ==
    /\ CallTo(c, {"using"}, "done")
    /\ using[c] = current[source[c]]
    /\ using' = [using EXCEPT ![c] = NoDb]
    /\ UNCHANGED <<current, made>>

Fail(c) ==
    /\ CallTo(c, {"waiting", "using"}, "failed")
    /\ using' = [using EXCEPT ![c] = NoDb]
    /\ UNCHANGED <<current, made>>

Retire(s) ==
    /\ current[s] /= NoDb
    /\ current' = [current EXCEPT ![s] = NoDb]
    /\ UNCHANGED <<using, made, call>>

Next ==
    \/ \E c \in Callers : Get(c) \/ Make(c) \/ Succeed(c) \/ Fail(c)
    \/ \E s \in Sources : Retire(s)

Spec == Init /\ [][Next]_poolVars
=============================================================================
