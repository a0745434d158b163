---------------------------- MODULE PacketStore ----------------------------
(***************************************************************************)
(* What one write of the repository does to the table public.packet_max:   *)
(* writePacketMax of database/postgres.go is an INSERT, on a unique        *)
(* violation an UPDATE of the row of packet and source, and when that row  *)
(* is gone an UPDATE of all the rows of the packet.  Each statement is     *)
(* atomic; between two of them the writers of other service instances, and *)
(* whoever deletes rows from outside, may run.  A statement may fail, and  *)
(* it may be applied although its answer is an error.                      *)
(***************************************************************************)
EXTENDS Integers, FiniteSets

CONSTANTS
    Writers,    \* writer goroutines, one in each running instance
    Items,      \* packet maxima to write, each at most once
    MaxPurges   \* how often rows are deleted from outside

(* Sources and packets are identifiers; a value and a timestamp are numbers. *)
ASSUME ItemsAssumption ==
    \A i \in Items : i.value \in Int /\ i.ts \in Int
ASSUME PurgesAssumption == MaxPurges \in Nat

(* No item, which is none of those that are written. *)
NoItem == [packet |-> "none", source |-> "none", value |-> 0, ts |-> 0]
ASSUME NoItemAssumption == NoItem \notin Items

VARIABLES
    table,      \* the rows
    at,         \* the statement each writer is about to execute
    item,       \* the item that it writes
    started,    \* items whose write has begun
    stored,     \* items whose write returned no error, rows not purged since
    purges      \* deletions from outside so far

storeVars == <<table, at, item, started, stored, purges>>

StoreInit ==
    /\ table = {}
    /\ at = [w \in Writers |-> "idle"]
    /\ item = [w \in Writers |-> NoItem]
    /\ started = {}
    /\ stored = {}
    /\ purges = 0

(* PRIMARY KEY (packet_id, source_id) *)
SameKey(r, s) == r.packet = s.packet /\ r.source = s.source

OfPacket(p) == {r \in table : r.packet = p}
OfKey(i)    == {r \in table : SameKey(r, i)}

(* Mutant: the source is overwritten whatever the value. *)
MergeTakesSource(r, i) ==
    [packet |-> r.packet, source |-> i.source, ts |-> i.ts,
     value  |-> IF i.value > r.value THEN i.value ELSE r.value]

(* Mutant: the last write wins. *)
MergeTakesValue(r, i) ==
    [packet |-> r.packet, source |-> i.source, value |-> i.value, ts |-> i.ts]

(* The SET clause of both updates.  The timestamp is taken over always. *)
Merge(r, i) ==
    [packet |-> r.packet, ts |-> i.ts,
     source |-> IF i.value > r.value THEN i.source ELSE r.source,
     value  |-> IF i.value > r.value THEN i.value ELSE r.value]

Updated(rows, i) == (table \ rows) \cup {Merge(r, i) : r \in rows}

(* An update is refused when two rows would come to have the same key. *)
Collides(rows, i) ==
    \E r \in rows : \E s \in table :
        r /= s /\ SameKey(Merge(r, i), IF s \in rows THEN Merge(s, i) ELSE s)

-----------------------------------------------------------------------------
(* processBatch gives the writer its next item. *)
BeginWrite(w, i) ==
    /\ at[w] = "idle"
    /\ i \notin started
    /\ at' = [at EXCEPT ![w] = "insert"]
    /\ item' = [item EXCEPT ![w] = i]
    /\ started' = started \cup {i}
    /\ UNCHANGED <<table, stored, purges>>

GoTo(w, place) ==
    /\ at' = [at EXCEPT ![w] = place]
    /\ UNCHANGED <<item, started, purges>>

Succeed(w) == GoTo(w, "idle") /\ stored' = stored \cup {item[w]}
GiveUp(w)  == GoTo(w, "idle") /\ UNCHANGED stored

(* Mutant: the table has no primary key. *)
InsertUnchecked(w) ==
    /\ at[w] = "insert"
    /\ table' = table \cup {item[w]}
    /\ Succeed(w)

(* Mutant: a row that exists is left as it is, and the write is a success. *)
InsertOrIgnore(w) ==
    /\ at[w] = "insert"
    /\ table' = IF OfKey(item[w]) = {} THEN table \cup {item[w]} ELSE table
    /\ Succeed(w)

(* The row is new; or its key exists, and the pair is updated next. *)
Insert(w) ==
    /\ at[w] = "insert"
    /\ IF OfKey(item[w]) = {}
         THEN table' = table \cup {item[w]} /\ Succeed(w)
         ELSE GoTo(w, "pair") /\ UNCHANGED <<table, stored>>

UpdatePair(w) ==
    /\ at[w] = "pair"
    /\ table' = Updated(OfKey(item[w]), item[w])
    /\ IF OfKey(item[w]) /= {}
         THEN Succeed(w)
         ELSE GoTo(w, "packet") /\ UNCHANGED stored

(* Mutant: an update of no row passes for a success. *)
UpdatePacketOfNone(w) ==
    /\ at[w] = "packet"
    /\ table' = Updated(OfPacket(item[w].packet), item[w])
    /\ Succeed(w)

UpdatePacket(w) ==
    LET rows == OfPacket(item[w].packet) IN
    /\ at[w] = "packet"
    /\ IF rows = {} \/ Collides(rows, item[w])
         THEN GiveUp(w) /\ UNCHANGED table
         ELSE table' = Updated(rows, item[w]) /\ Succeed(w)

(* The answer to the statement is an error other than a unique violation:   *)
(* the write ends, and the statement has been applied or not.               *)
StatementFails(w) ==
    /\ at[w] /= "idle"
    /\ GiveUp(w)
    /\ \/ UNCHANGED table
       \/ at[w] = "insert" /\ OfKey(item[w]) = {} /\ table' = table \cup {item[w]}
       \/ at[w] = "pair" /\ table' = Updated(OfKey(item[w]), item[w])
       \/ /\ at[w] = "packet"
          /\ ~Collides(OfPacket(item[w].packet), item[w])
          /\ table' = Updated(OfPacket(item[w].packet), item[w])

(* Somebody deletes the rows of a packet.  The service never does. *)
Purge(p) ==
    /\ purges < MaxPurges
    /\ OfPacket(p) /= {}
    /\ table' = table \ OfPacket(p)
    /\ stored' = {i \in stored : i.packet /= p}
    /\ purges' = purges + 1
    /\ UNCHANGED <<at, item, started>>

StoreQuiet ==
    /\ started = Items
    /\ \A w \in Writers : at[w] = "idle"
    /\ UNCHANGED storeVars

StoreNext ==
    \/ \E w \in Writers, i \in Items : BeginWrite(w, i)
    \/ \E w \in Writers : Insert(w)
    \/ \E w \in Writers : UpdatePair(w)
    \/ \E w \in Writers : UpdatePacket(w)
    \/ \E w \in Writers : StatementFails(w)
    \/ \E i \in Items : Purge(i.packet)
    \/ StoreQuiet

StoreSpec == StoreInit /\ [][StoreNext]_storeVars

-----------------------------------------------------------------------------
(* PacketMaxByID: LIMIT 1 without an order, any row of the packet. *)
ByID(p) == OfPacket(p)

(* Mutant: the end of the interval is exclusive. *)
InRangeHalfOpen(from, to) == {r \in table : from <= r.ts /\ r.ts < to}

(* PacketMaxInRange: ts BETWEEN, which includes both ends. *)
InRange(from, to) == {r \in table : from <= r.ts /\ r.ts <= to}

-----------------------------------------------------------------------------
(* Properties *)

StoreTypeOK ==
    /\ \A r \in table : r.value \in Int /\ r.ts \in Int
    /\ \A r, s \in table : SameKey(r, s) => r = s
    /\ at \in [Writers -> {"idle", "insert", "pair", "packet"}]
    /\ item \in [Writers -> Items \cup {NoItem}]
    /\ \A w \in Writers : at[w] /= "idle" => item[w] \in started
    /\ started \in SUBSET Items
    /\ stored \in SUBSET started
    /\ purges \in 0 .. MaxPurges

(* A write that returned no error is in the table: its packet has a row with *)
(* a value at least as high, whatever other writers and failures came        *)
(* between its statements.                                                   *)
StoredIsCovered ==
    \A i \in stored : \E r \in OfPacket(i.packet) : r.value >= i.value

(* No merge attributes a value to a source that did not report it: source    *)
(* and value of a row were written together, for its packet.  Its timestamp  *)
(* was written for the packet too, but perhaps with another value: an update *)
(* takes the new timestamp over even when it keeps the old value.            *)
SourceOwnsValue ==
    \A r \in table :
        /\ \E i \in started :
               i.packet = r.packet /\ i.source = r.source /\ i.value = r.value
        /\ \E j \in started : j.packet = r.packet /\ j.ts = r.ts

(* No step other than a deletion from outside lowers the value that a row of *)
(* the packet still has, and none removes the last row of a packet.          *)
NeverLower ==
    [][purges' = purges =>
        \A r \in table : \E s \in table' : s.packet = r.packet /\ s.value >= r.value
      ]_storeVars

(* What PacketMaxByID returns is the maximum of what is stored for the packet. *)
ReturnsMaximum ==
    \A i \in Items : \A r \in ByID(i.packet) : \A j \in stored :
        j.packet = r.packet => r.value >= j.value

(* The table behaves like one number for each packet, the highest that was  *)
(* written, which a write raises in one step: that a write is up to three   *)
(* statements with other writers, failures and deletions in between cannot  *)
(* be seen from the maximum of a packet's rows.                             *)
Register == INSTANCE MaxRegister
    WITH best <- [p \in {i.packet : i \in Items} |->
                    {r.value : r \in {s \in OfPacket(p) :
                                        \A t \in OfPacket(p) : t.value <= s.value}}],
         writing <- [w \in Writers |-> IF at[w] = "idle" THEN NoItem ELSE item[w]],
         begun <- started,
         acked <- stored

KeepsMaximum == Register!Spec
=============================================================================
