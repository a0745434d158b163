------------------------- MODULE PacketStoreProofs -------------------------
(***************************************************************************)
(* For every set of writers and items and any number of deletions: rows    *)
(* never fall, a write that returned no error stays covered, and a row's   *)
(* source is the one that reported its value.                              *)
(***************************************************************************)
EXTENDS PacketStore, TLAPS

(* What the proofs need to know of the state: values are numbers, and a     *)
(* writer past its first statement holds an item that it has begun with.    *)
StoreInv ==
    /\ \A r \in table : r.value \in Int
    /\ item \in [Writers -> Items \cup {NoItem}]
    /\ at \in [Writers -> {"idle", "insert", "pair", "packet"}]
    /\ \A w \in Writers : at[w] /= "idle" => item[w] \in started
    /\ started \subseteq Items
    /\ stored \subseteq started
    /\ purges \in Nat

(* A merged row belongs to the same packet, is at least as high as both, has *)
(* its value and source from the one or from the other, and the new time.    *)
LEMMA MergeFacts ==
    ASSUME NEW r, NEW i, r.value \in Int, i.value \in Int
    PROVE  /\ Merge(r, i).packet = r.packet
           /\ Merge(r, i).ts = i.ts
           /\ Merge(r, i).value \in Int
           /\ Merge(r, i).value >= r.value
           /\ Merge(r, i).value >= i.value
           /\ \/ Merge(r, i).source = r.source /\ Merge(r, i).value = r.value
              \/ Merge(r, i).source = i.source /\ Merge(r, i).value = i.value
<1>1. CASE i.value > r.value
  BY <1>1 DEF Merge
<1>2. CASE ~(i.value > r.value)
  BY <1>2 DEF Merge
<1>3. QED
  BY <1>1, <1>2

(* What a statement of writer w can do to the table: add its item, or merge *)
(* the item into rows of the item's packet.                                 *)
Applies(w) ==
    \/ UNCHANGED table
    \/ table' = table \cup {item[w]}
    \/ \E rows \in SUBSET OfPacket(item[w].packet) : table' = Updated(rows, item[w])

StepOf(w) == Insert(w) \/ UpdatePair(w) \/ UpdatePacket(w) \/ StatementFails(w)

LEMMA StepApplies ==
    ASSUME NEW w \in Writers, StepOf(w)
    PROVE  Applies(w) /\ at[w] /= "idle" /\ UNCHANGED <<item, started, purges>>
<1>1. OfKey(item[w]) \subseteq OfPacket(item[w].packet)
  BY DEF OfKey, OfPacket, SameKey
<1>2. OfPacket(item[w].packet) \subseteq OfPacket(item[w].packet)
  OBVIOUS
<1>3. CASE Insert(w)
  BY <1>3 DEF Insert, Applies, Succeed, GoTo
<1>4. CASE UpdatePair(w)
  BY <1>1, <1>4 DEF UpdatePair, Applies, Succeed, GoTo
<1>5. CASE UpdatePacket(w)
  BY <1>2, <1>5 DEF UpdatePacket, Applies, Succeed, GiveUp, GoTo
<1>6. CASE StatementFails(w)
  BY <1>1, <1>2, <1>6 DEF StatementFails, Applies, GiveUp, GoTo
<1>7. QED
  BY <1>3, <1>4, <1>5, <1>6 DEF StepOf

(* Every row before the step has a row of its packet, at least as high, after. *)
RowsKept == \A r \in table : \E s \in table' : s.packet = r.packet /\ s.value >= r.value

LEMMA AppliesKeepsRows ==
    ASSUME StoreInv, NEW w \in Writers, at[w] /= "idle", Applies(w)
    PROVE  RowsKept
<1>1. item[w].value \in Int
  BY ItemsAssumption DEF StoreInv
<1>2. ASSUME NEW r \in table
      PROVE  \E s \in table' : s.packet = r.packet /\ s.value >= r.value
  <2>1. r.value \in Int
    BY <1>2 DEF StoreInv
  <2>2. CASE r \in table'
    BY <2>1, <2>2
  <2>3. CASE r \notin table'
    <3>1. PICK rows \in SUBSET OfPacket(item[w].packet) : table' = Updated(rows, item[w])
      BY <2>3 DEF Applies
    <3>2. r \in rows
      BY <2>3, <3>1 DEF Updated
    <3>3. Merge(r, item[w]) \in table'
      BY <3>1, <3>2 DEF Updated
    <3>4. Merge(r, item[w]).packet = r.packet /\ Merge(r, item[w]).value >= r.value
      BY <1>1, <2>1, MergeFacts DEF StoreInv
    <3>5. QED
      BY <3>3, <3>4
  <2>4. QED
    BY <2>2, <2>3
<1>3. QED
  BY <1>2 DEF RowsKept

LEMMA AppliesKeepsNumbers ==
    ASSUME StoreInv, NEW w \in Writers, at[w] /= "idle", Applies(w)
    PROVE  \A r \in table' : r.value \in Int
<1>1. item[w] \in Items
  BY DEF StoreInv
<1>2. SUFFICES ASSUME NEW r \in table', r \notin table, r /= item[w]
               PROVE  r.value \in Int
  BY <1>1, ItemsAssumption DEF StoreInv
<1>3. PICK rows \in SUBSET OfPacket(item[w].packet) : table' = Updated(rows, item[w])
  BY <1>2 DEF Applies
<1>4. PICK q \in rows : r = Merge(q, item[w])
  BY <1>2, <1>3 DEF Updated
<1>5. q \in table
  BY <1>4 DEF OfPacket
<1>6. QED
  BY <1>1, <1>4, <1>5, ItemsAssumption, MergeFacts DEF StoreInv

LEMMA StoreInvNext == StoreInv /\ [StoreNext]_storeVars => StoreInv'
<1> SUFFICES ASSUME StoreInv, [StoreNext]_storeVars
             PROVE  StoreInv'
  OBVIOUS
<1>1. ASSUME NEW w \in Writers, NEW i \in Items, BeginWrite(w, i)
      PROVE  StoreInv'
  BY <1>1 DEF BeginWrite, StoreInv
<1>2. ASSUME NEW w \in Writers, StepOf(w)
      PROVE  StoreInv'
  <2>1. \A r \in table' : r.value \in Int
    BY <1>2, StepApplies, AppliesKeepsNumbers
  <2>2. UNCHANGED <<item, started, purges>> /\ at[w] /= "idle"
    BY <1>2, StepApplies
  <2>3. /\ at' \in [Writers -> {"idle", "insert", "pair", "packet"}]
        /\ \A u \in Writers : at'[u] /= "idle" => at[u] /= "idle"
    BY <1>2, <2>2 DEF StepOf, Insert, UpdatePair, UpdatePacket, StatementFails, Succeed,
                      GiveUp, GoTo, StoreInv
  <2>4. stored' \subseteq stored \cup {item[w]}
    BY <1>2 DEF StepOf, Insert, UpdatePair, UpdatePacket, StatementFails, Succeed, GiveUp
  <2>5. item[w] \in started
    BY <2>2 DEF StoreInv
  <2>6. QED
    BY <2>1, <2>2, <2>3, <2>4, <2>5 DEF StoreInv
<1>3. ASSUME NEW i \in Items, Purge(i.packet)
      PROVE  StoreInv'
  BY <1>3 DEF Purge, StoreInv
<1>4. CASE UNCHANGED storeVars
  BY <1>4 DEF storeVars, StoreInv
<1>5. QED
  BY <1>1, <1>2, <1>3, <1>4 DEF StoreNext, StepOf, StoreQuiet

LEMMA StoreInvAlways == StoreSpec => []StoreInv
<1>1. StoreInit => StoreInv
  BY DEF StoreInit, StoreInv
<1>2. QED
  BY <1>1, StoreInvNext, PTL DEF StoreSpec

-----------------------------------------------------------------------------
(* No step of the service lowers the value of a packet's row or removes its *)
(* last row.                                                                *)
THEOREM RowsNeverFall == StoreSpec => NeverLower
<1>1. ASSUME StoreInv, [StoreNext]_storeVars, purges' = purges
      PROVE  RowsKept
  <2>1. \A r \in table : r.value >= r.value
    BY <1>1 DEF StoreInv
  <2>2. CASE UNCHANGED table
    BY <2>1, <2>2 DEF RowsKept
  <2>3. ASSUME NEW w \in Writers, StepOf(w)
        PROVE  RowsKept
    BY <1>1, <2>3, StepApplies, AppliesKeepsRows
  <2>4. ASSUME NEW i \in Items
        PROVE  ~Purge(i.packet)
    BY <1>1 DEF Purge, StoreInv
  <2>5. QED
    BY <1>1, <2>2, <2>3, <2>4 DEF StoreNext, StepOf, StoreQuiet, storeVars, BeginWrite
<1>2. StoreInv /\ [StoreNext]_storeVars
        => [purges' = purges =>
              \A r \in table : \E s \in table' : s.packet = r.packet /\ s.value >= r.value
           ]_storeVars
  BY <1>1 DEF RowsKept
<1>3. QED
  BY <1>2, StoreInvAlways, PTL DEF StoreSpec, NeverLower

-----------------------------------------------------------------------------
(* The source and the value of a row were written together, its timestamp *)
(* for the same packet.                                                   *)
LEMMA OwnershipNext ==
    ASSUME StoreInv, SourceOwnsValue, [StoreNext]_storeVars
    PROVE  SourceOwnsValue'
<1>1. ASSUME NEW w \in Writers, StepOf(w)
      PROVE  SourceOwnsValue'
  <2>1. Applies(w) /\ at[w] /= "idle" /\ started' = started
    BY <1>1, StepApplies
  <2>2. item[w] \in started /\ item[w] \in Items
    BY <2>1 DEF StoreInv
  <2>3. SUFFICES ASSUME NEW r \in table', r \notin table, r /= item[w]
                 PROVE  /\ \E i \in started : i.packet = r.packet /\ i.source = r.source
                                             /\ i.value = r.value
                        /\ \E j \in started : j.packet = r.packet /\ j.ts = r.ts
    BY <2>1, <2>2 DEF SourceOwnsValue
  <2>4. PICK rows \in SUBSET OfPacket(item[w].packet) : table' = Updated(rows, item[w])
    BY <2>1, <2>3 DEF Applies
  <2>5. PICK q \in rows : r = Merge(q, item[w])
    BY <2>3, <2>4 DEF Updated
  <2>6. q \in table /\ q.packet = item[w].packet
    BY <2>5 DEF OfPacket
  <2>7. /\ r.packet = q.packet /\ r.ts = item[w].ts
        /\ \/ r.source = q.source /\ r.value = q.value
           \/ r.source = item[w].source /\ r.value = item[w].value
    BY <2>2, <2>5, <2>6, ItemsAssumption, MergeFacts DEF StoreInv
  <2>8. PICK j \in started : j.packet = q.packet /\ j.source = q.source /\ j.value = q.value
    BY <2>6 DEF SourceOwnsValue
  <2>9. QED
    BY <2>2, <2>6, <2>7, <2>8
<1>2. ASSUME NEW w \in Writers, NEW i \in Items, BeginWrite(w, i)
      PROVE  SourceOwnsValue'
  BY <1>2 DEF BeginWrite, SourceOwnsValue
<1>3. ASSUME NEW i \in Items, Purge(i.packet)
      PROVE  SourceOwnsValue'
  BY <1>3 DEF Purge, SourceOwnsValue
<1>4. CASE UNCHANGED storeVars
  BY <1>4 DEF storeVars, SourceOwnsValue
<1>5. QED
  BY <1>1, <1>2, <1>3, <1>4 DEF StoreNext, StepOf, StoreQuiet

THEOREM SourceNamesItsValue == StoreSpec => []SourceOwnsValue
<1>1. StoreInit => SourceOwnsValue
  BY DEF StoreInit, SourceOwnsValue
<1>2. QED
  BY <1>1, OwnershipNext, StoreInvAlways, PTL DEF StoreSpec

-----------------------------------------------------------------------------
(* A statement that succeeds leaves a row at least as high as its item. *)
LEMMA SuccessCovers ==
    ASSUME StoreInv, NEW w \in Writers, StepOf(w), stored' /= stored
    PROVE  /\ stored' = stored \cup {item[w]}
           /\ \E s \in table' : s.packet = item[w].packet /\ s.value >= item[w].value
<1>1. at[w] /= "idle" /\ item[w] \in Items
  BY StepApplies DEF StoreInv
<1>2. item[w].value \in Int /\ item[w].value >= item[w].value
  BY <1>1, ItemsAssumption
<1>3. ASSUME NEW rows, rows \subseteq OfPacket(item[w].packet), rows /= {},
             table' = Updated(rows, item[w])
      PROVE  \E s \in table' : s.packet = item[w].packet /\ s.value >= item[w].value
  <2>1. PICK r \in rows : r \in table /\ r.packet = item[w].packet
    BY <1>3 DEF OfPacket
  <2>2. /\ Merge(r, item[w]).packet = item[w].packet
        /\ Merge(r, item[w]).value >= item[w].value
    BY <1>2, <2>1, MergeFacts DEF StoreInv
  <2>3. Merge(r, item[w]) \in table'
    BY <1>3, <2>1 DEF Updated
  <2>4. QED
    BY <2>2, <2>3
<1>4. CASE Insert(w)
  BY <1>2, <1>4 DEF Insert, Succeed
<1>5. CASE UpdatePair(w)
  <2>1. OfKey(item[w]) \subseteq OfPacket(item[w].packet)
    BY DEF OfKey, OfPacket, SameKey
  <2>2. OfKey(item[w]) /= {} /\ stored' = stored \cup {item[w]}
    BY <1>5 DEF UpdatePair, Succeed
  <2>3. table' = Updated(OfKey(item[w]), item[w])
    BY <1>5 DEF UpdatePair
  <2>4. QED
    BY <1>3, <2>1, <2>2, <2>3
<1>6. CASE UpdatePacket(w)
  <2>1. /\ OfPacket(item[w].packet) /= {} /\ stored' = stored \cup {item[w]}
        /\ table' = Updated(OfPacket(item[w].packet), item[w])
    BY <1>6 DEF UpdatePacket, Succeed, GiveUp
  <2>2. OfPacket(item[w].packet) \subseteq OfPacket(item[w].packet)
    OBVIOUS
  <2>3. QED
    BY <1>3, <2>1, <2>2
<1>7. CASE StatementFails(w)
  BY <1>7 DEF StatementFails, GiveUp
<1>8. QED
  BY <1>4, <1>5, <1>6, <1>7 DEF StepOf

LEMMA CoveredNext ==
    ASSUME StoreInv, StoredIsCovered, [StoreNext]_storeVars
    PROVE  StoredIsCovered'
<1>1. ASSUME NEW w \in Writers, StepOf(w)
      PROVE  StoredIsCovered'
  <2>1. RowsKept
    BY <1>1, StepApplies, AppliesKeepsRows
  <2>2. \A r \in table' : r.value \in Int
    BY <1>1, StepApplies, AppliesKeepsNumbers
  <2>3. ASSUME NEW i \in stored
        PROVE  \E s \in table' : s.packet = i.packet /\ s.value >= i.value
    <3>1. PICK r \in table : r.packet = i.packet /\ r.value >= i.value
      BY DEF StoredIsCovered, OfPacket
    <3>2. PICK s \in table' : s.packet = r.packet /\ s.value >= r.value
      BY <2>1 DEF RowsKept
    <3>3. r.value \in Int /\ s.value \in Int /\ i.value \in Int
      BY <2>2, <2>3, ItemsAssumption DEF StoreInv
    <3>4. QED
      BY <3>1, <3>2, <3>3
  <2>4. \A i \in stored' : \E s \in table' : s.packet = i.packet /\ s.value >= i.value
    <3>1. CASE stored' = stored
      BY <2>3, <3>1
    <3>2. CASE stored' /= stored
      BY <1>1, <2>3, <3>2, SuccessCovers
    <3>3. QED
      BY <3>1, <3>2
  <2>5. QED
    BY <2>4 DEF StoredIsCovered, OfPacket
<1>2. ASSUME NEW w \in Writers, NEW i \in Items, BeginWrite(w, i)
      PROVE  StoredIsCovered'
  BY <1>2 DEF BeginWrite, StoredIsCovered, OfPacket
<1>3. ASSUME NEW i \in Items, Purge(i.packet)
      PROVE  StoredIsCovered'
  BY <1>3 DEF Purge, StoredIsCovered, OfPacket
<1>4. CASE UNCHANGED storeVars
  BY <1>4 DEF storeVars, StoredIsCovered, OfPacket
<1>5. QED
  BY <1>1, <1>2, <1>3, <1>4 DEF StoreNext, StepOf, StoreQuiet

(* A write that returned no error stays covered by a row of its packet. *)
THEOREM StoredStaysCovered == StoreSpec => []StoredIsCovered
<1>1. StoreInit => StoredIsCovered
  BY DEF StoreInit, StoredIsCovered
<1>2. QED
  BY <1>1, CoveredNext, StoreInvAlways, PTL DEF StoreSpec

-----------------------------------------------------------------------------
(* The primary key: no two rows of the same packet and source. *)
KeysUnique == \A r, s \in table : SameKey(r, s) => r = s

TimesAreNumbers == \A r \in table : r.ts \in Int

(* An update that does not collide keeps the keys unique. *)
LEMMA UpdateKeepsKeys ==
    ASSUME KeysUnique, NEW i, NEW rows, rows \subseteq table, ~Collides(rows, i),
           table' = Updated(rows, i)
    PROVE  KeysUnique'
<1> SUFFICES ASSUME NEW x \in table', NEW y \in table', SameKey(x, y)
             PROVE  x = y
  BY DEF KeysUnique, SameKey
<1>1. CASE x \notin table \ rows /\ y \notin table \ rows
  <2>1. PICK r \in rows : x = Merge(r, i)
    BY <1>1 DEF Updated
  <2>2. PICK s \in rows : y = Merge(s, i)
    BY <1>1 DEF Updated
  <2>3. r = s
    BY <2>1, <2>2 DEF Collides
  <2>4. QED
    BY <2>1, <2>2, <2>3
<1>2. CASE x \notin table \ rows /\ y \in table \ rows
  <2>1. PICK r \in rows : x = Merge(r, i)
    BY <1>2 DEF Updated
  <2>2. QED
    BY <1>2, <2>1 DEF Collides
<1>3. CASE x \in table \ rows /\ y \notin table \ rows
  <2>1. PICK s \in rows : y = Merge(s, i)
    BY <1>3 DEF Updated
  <2>2. SameKey(y, x)
    BY DEF SameKey
  <2>3. QED
    BY <1>3, <2>1, <2>2 DEF Collides
<1>4. CASE x \in table \ rows /\ y \in table \ rows
  BY <1>4 DEF KeysUnique
<1>5. QED
  BY <1>1, <1>2, <1>3, <1>4

(* An update of the pair does not change a key, so it cannot collide. *)
LEMMA PairDoesNotCollide ==
    ASSUME KeysUnique, NEW i
    PROVE  ~Collides(OfKey(i), i)
<1>1. \A r \in OfKey(i) : SameKey(Merge(r, i), r)
  BY DEF OfKey, SameKey, Merge
<1>2. SUFFICES ASSUME NEW r \in OfKey(i), NEW s \in table, r /= s,
                      SameKey(Merge(r, i), IF s \in OfKey(i) THEN Merge(s, i) ELSE s)
               PROVE  FALSE
  BY DEF Collides
<1>3. SameKey(r, s)
  BY <1>1, <1>2 DEF SameKey
<1>4. r \in table
  BY DEF OfKey
<1>5. QED
  BY <1>2, <1>3, <1>4 DEF KeysUnique

LEMMA KeysNext ==
    ASSUME KeysUnique, [StoreNext]_storeVars
    PROVE  KeysUnique'
<1>1. ASSUME NEW w \in Writers, StepOf(w)
      PROVE  KeysUnique'
  <2>1. CASE UNCHANGED table
    BY <2>1 DEF KeysUnique, SameKey
  <2>2. CASE OfKey(item[w]) = {} /\ table' = table \cup {item[w]}
    BY <2>2 DEF KeysUnique, SameKey, OfKey
  <2>3. CASE table' = Updated(OfKey(item[w]), item[w])
    <3>1. OfKey(item[w]) \subseteq table
      BY DEF OfKey
    <3>2. QED
      BY <2>3, <3>1, PairDoesNotCollide, UpdateKeepsKeys
  <2>4. CASE /\ ~Collides(OfPacket(item[w].packet), item[w])
             /\ table' = Updated(OfPacket(item[w].packet), item[w])
    <3>1. OfPacket(item[w].packet) \subseteq table
      BY DEF OfPacket
    <3>2. QED
      BY <2>4, <3>1, UpdateKeepsKeys
  <2>5. QED
    BY <1>1, <2>1, <2>2, <2>3, <2>4
       DEF StepOf, Insert, UpdatePair, UpdatePacket, StatementFails
<1>2. CASE UNCHANGED table
  BY <1>2 DEF KeysUnique, SameKey
<1>3. ASSUME NEW i \in Items, Purge(i.packet)
      PROVE  KeysUnique'
  BY <1>3 DEF Purge, KeysUnique, SameKey
<1>4. QED
  BY <1>1, <1>2, <1>3 DEF StoreNext, StepOf, StoreQuiet, storeVars, BeginWrite

LEMMA TimesNext ==
    ASSUME StoreInv, TimesAreNumbers, [StoreNext]_storeVars
    PROVE  TimesAreNumbers'
<1>1. ASSUME NEW w \in Writers, StepOf(w)
      PROVE  TimesAreNumbers'
  <2>1. Applies(w) /\ item[w] \in Items
    BY <1>1, StepApplies DEF StoreInv
  <2>2. item[w].ts \in Int
    BY <2>1, ItemsAssumption
  <2>3. \A r : Merge(r, item[w]).ts = item[w].ts
    BY DEF Merge
  <2>4. QED
    BY <2>1, <2>2, <2>3 DEF Applies, Updated, TimesAreNumbers
<1>2. CASE UNCHANGED table
  BY <1>2 DEF TimesAreNumbers
<1>3. ASSUME NEW i \in Items, Purge(i.packet)
      PROVE  TimesAreNumbers'
  BY <1>3 DEF Purge, TimesAreNumbers
<1>4. QED
  BY <1>1, <1>2, <1>3 DEF StoreNext, StepOf, StoreQuiet, storeVars, BeginWrite

(* The bound on the deletions. *)
PurgesBounded == purges \in 0 .. MaxPurges

LEMMA PurgesNext == PurgesBounded /\ [StoreNext]_storeVars => PurgesBounded'
<1> SUFFICES ASSUME PurgesBounded, [StoreNext]_storeVars
             PROVE  PurgesBounded'
  OBVIOUS
<1>1. ASSUME NEW i \in Items, Purge(i.packet)
      PROVE  PurgesBounded'
  BY <1>1, PurgesAssumption DEF Purge, PurgesBounded
<1>2. CASE UNCHANGED purges
  BY <1>2 DEF PurgesBounded
<1>3. QED
  BY <1>1, <1>2, StepApplies DEF StoreNext, StepOf, StoreQuiet, storeVars, BeginWrite

(* Types, and the primary key of the table, which no statement may break.   *)
THEOREM StoreTypeCorrect == StoreSpec => []StoreTypeOK
<1>1. StoreInit => KeysUnique /\ TimesAreNumbers /\ PurgesBounded
  BY PurgesAssumption DEF StoreInit, KeysUnique, TimesAreNumbers, PurgesBounded
<1>2. StoreInv /\ KeysUnique /\ TimesAreNumbers /\ PurgesBounded => StoreTypeOK
  BY DEF StoreInv, KeysUnique, TimesAreNumbers, PurgesBounded, StoreTypeOK
<1>3. QED
  BY <1>1, <1>2, KeysNext, TimesNext, PurgesNext, StoreInvAlways, PTL DEF StoreSpec

-----------------------------------------------------------------------------
(* Refinement of MaxRegister.  Top(S) is the greatest element of S in a set  *)
(* of its own.  A step of the register sees a set of values only by its      *)
(* greatest element, and two sets of which one lies within the other, while  *)
(* nothing of the larger is above all of the smaller, have the same one.     *)

Top(S) == {x \in S : \A y \in S : y <= x}

LEMMA TopOfDominating ==
    ASSUME NEW S \in SUBSET Int, NEW T \in SUBSET S,
           \A x \in S : \E y \in T : x <= y
    PROVE  Top(T) = Top(S)
<1>1. ASSUME NEW x \in Top(S)
      PROVE  x \in Top(T)
  <2>1. PICK y \in T : x <= y
    BY DEF Top
  <2>2. x = y
    BY <2>1 DEF Top
  <2>3. QED
    BY <2>1, <2>2 DEF Top
<1>2. ASSUME NEW x \in Top(T)
      PROVE  x \in Top(S)
  <2>1. \A z \in S : z <= x
    BY DEF Top
  <2>2. QED
    BY <2>1 DEF Top
<1>3. QED
  BY <1>1, <1>2

LEMMA TopOfOne ==
    ASSUME NEW v \in Int
    PROVE  Top({v}) = {v}
BY DEF Top

(* Only the greatest element of S matters to what S and v have together. *)
LEMMA TopOfTop ==
    ASSUME NEW S \in SUBSET Int, NEW v \in Int, S = {} \/ Top(S) /= {}
    PROVE  /\ Top(Top(S) \cup {v}) = Top(S \cup {v})
           /\ Top(S \cup {v}) /= {}
<1>1. CASE S = {}
  <2>1. Top(S) = {}
    BY <1>1 DEF Top
  <2>2. QED
    BY <1>1, <2>1, TopOfOne
<1>2. CASE S /= {}
  <2>1. PICK t \in S : \A y \in S : y <= t
    BY <1>2 DEF Top
  <2>2. t \in Top(S)
    BY <2>1 DEF Top
  <2>3. Top(S) \cup {v} \in SUBSET (S \cup {v}) /\ S \cup {v} \in SUBSET Int
    BY DEF Top
  <2>4. \A x \in S \cup {v} : \E y \in Top(S) \cup {v} : x <= y
    BY <2>1, <2>2
  <2>5. Top(Top(S) \cup {v}) = Top(S \cup {v})
    BY <2>3, <2>4, TopOfDominating
  <2>6. CASE v <= t
    BY <2>1, <2>6 DEF Top
  <2>7. CASE ~(v <= t)
    <3>1. \A y \in S : y <= v
      BY <2>1, <2>7
    <3>2. v \in Top(S \cup {v})
      BY <3>1 DEF Top
    <3>3. QED
      BY <2>5, <3>2
  <2>8. QED
    BY <2>5, <2>6, <2>7
<1>3. QED
  BY <1>1, <1>2

(* The packets, the values stored for one, and what the register has of it. *)
PacketIDs == {i.packet : i \in Items}
Values(p) == {r.value : r \in OfPacket(p)}
Best      == [p \in PacketIDs |-> Top(Values(p))]
Writing   == [w \in Writers |-> IF at[w] = "idle" THEN NoItem ELSE item[w]]

(* The values of a packet have a greatest one.  That they are finitely many *)
(* would imply it, but the greatest one can be followed step by step.       *)
HasTop == \A p \in PacketIDs : Values(p) = {} \/ Top(Values(p)) /= {}

(* A statement that is applied adds the item, or merges it into some rows. *)
Effect(i) ==
    \/ table' = table \cup {i}
    \/ \E rows \in SUBSET OfPacket(i.packet) : rows /= {} /\ table' = Updated(rows, i)

LEMMA EffectOnOthers ==
    ASSUME StoreInv, NEW i \in Items, Effect(i), NEW p, p /= i.packet
    PROVE  Values(p)' = Values(p)
<1>1. CASE table' = table \cup {i}
  BY <1>1 DEF Values, OfPacket
<1>2. ASSUME NEW rows \in SUBSET OfPacket(i.packet), table' = Updated(rows, i)
      PROVE  Values(p)' = Values(p)
  <2>1. \A r \in rows : r.packet = i.packet /\ Merge(r, i).packet = r.packet
    BY DEF OfPacket, Merge
  <2>2. OfPacket(p)' = OfPacket(p)
    BY <1>2, <2>1 DEF OfPacket, Updated
  <2>3. QED
    BY <2>2 DEF Values
<1>3. QED
  BY <1>1, <1>2 DEF Effect

LEMMA EffectOnPacket ==
    ASSUME StoreInv, NEW i \in Items, Effect(i)
    PROVE  /\ Values(i.packet) \in SUBSET Int
           /\ Top(Values(i.packet)') = Top(Values(i.packet) \cup {i.value})
<1> DEFINE before == Values(i.packet)
           after  == Values(i.packet)'
<1>1. i.value \in Int /\ before \in SUBSET Int
  BY ItemsAssumption DEF StoreInv, Values, OfPacket
<1>2. CASE table' = table \cup {i}
  <2>1. after = before \cup {i.value}
    BY <1>2 DEF Values, OfPacket
  <2>2. QED
    BY <1>1, <2>1
<1>3. ASSUME NEW rows \in SUBSET OfPacket(i.packet), rows /= {}, table' = Updated(rows, i)
      PROVE  Top(after) = Top(before \cup {i.value})
  <2>1. ASSUME NEW r \in rows
        PROVE  /\ r \in table /\ r.packet = i.packet /\ r.value \in Int
               /\ Merge(r, i) \in OfPacket(i.packet)'
               /\ Merge(r, i).value \in Int
               /\ Merge(r, i).value \in {r.value, i.value}
               /\ Merge(r, i).value >= r.value /\ Merge(r, i).value >= i.value
    <3>1. r \in table /\ r.packet = i.packet /\ r.value \in Int
      BY DEF OfPacket, StoreInv
    <3>2. Merge(r, i) \in table'
      BY <1>3 DEF Updated
    <3>3. QED
      BY <1>1, <3>1, <3>2, MergeFacts DEF OfPacket
  <2>2. \A s \in OfPacket(i.packet)' :
          s \in OfPacket(i.packet) \/ \E r \in rows : s = Merge(r, i)
    BY <1>3 DEF OfPacket, Updated
  <2>3. after \in SUBSET (before \cup {i.value})
    <3>1. ASSUME NEW s \in OfPacket(i.packet)'
          PROVE  s.value \in before \cup {i.value}
      <4>1. CASE s \in OfPacket(i.packet)
        BY <4>1 DEF Values
      <4>2. ASSUME NEW r \in rows, s = Merge(r, i)
            PROVE  s.value \in before \cup {i.value}
        BY <2>1, <4>2 DEF Values, OfPacket
      <4>3. QED
        BY <2>2, <4>1, <4>2
    <3>2. QED
      BY <3>1 DEF Values
  <2>4. ASSUME NEW x \in before \cup {i.value}
        PROVE  \E y \in after : x <= y
    <3>1. CASE x = i.value
      <4>1. PICK r \in rows : TRUE
        BY <1>3
      <4>2. Merge(r, i).value \in after /\ i.value <= Merge(r, i).value
        BY <1>1, <2>1 DEF Values
      <4>3. QED
        BY <3>1, <4>2
    <3>2. CASE x \in before
      <4>1. PICK r \in OfPacket(i.packet) : x = r.value
        BY <3>2 DEF Values
      <4>2. CASE r \in rows
        <5>1. Merge(r, i).value \in after /\ r.value <= Merge(r, i).value
          BY <2>1, <4>2 DEF Values
        <5>2. QED
          BY <4>1, <5>1
      <4>3. CASE r \notin rows
        <5>1. r \in OfPacket(i.packet)'
          BY <1>3, <4>1, <4>3 DEF OfPacket, Updated
        <5>2. x \in after /\ x \in Int
          BY <1>1, <3>2, <4>1, <5>1 DEF Values
        <5>3. QED
          BY <5>2
      <4>4. QED
        BY <4>2, <4>3
    <3>3. QED
      BY <3>1, <3>2
  <2> HIDE DEF before, after
  <2>5. before \cup {i.value} \in SUBSET Int
    BY <1>1
  <2>6. QED
    BY <2>3, <2>4, <2>5, TopOfDominating
<1>4. QED
  BY <1>1, <1>2, <1>3 DEF Effect

(* Whatever it does to the rows, a statement raises the packet's number. *)
LEMMA EffectRaises ==
    ASSUME StoreInv, HasTop, NEW i \in Items, Effect(i)
    PROVE  /\ Best' = [Best EXCEPT ![i.packet] = Top(Best[i.packet] \cup {i.value})]
           /\ HasTop'
<1>1. i.packet \in PacketIDs /\ i.value \in Int
  BY ItemsAssumption DEF PacketIDs
<1>2. /\ Values(i.packet) \in SUBSET Int
      /\ Top(Values(i.packet)') = Top(Values(i.packet) \cup {i.value})
  BY EffectOnPacket
<1>3. Values(i.packet) = {} \/ Top(Values(i.packet)) /= {}
  BY <1>1 DEF HasTop
<1>4. /\ Top(Values(i.packet)') = Top(Top(Values(i.packet)) \cup {i.value})
      /\ Top(Values(i.packet)') /= {}
  BY <1>1, <1>2, <1>3, TopOfTop
<1>5. \A p \in PacketIDs : p /= i.packet => Values(p)' = Values(p)
  BY EffectOnOthers
<1>6. Best[i.packet] = Top(Values(i.packet))
  BY <1>1 DEF Best
<1>7. \A p \in PacketIDs : Best'[p] = IF p = i.packet THEN Top(Best[i.packet] \cup {i.value})
                                    ELSE Best[p]
  BY <1>4, <1>5, <1>6 DEF Best
<1>8. Best' = [p \in PacketIDs |-> Best'[p]] /\ Best = [p \in PacketIDs |-> Best[p]]
  BY DEF Best
<1>9. Best' = [Best EXCEPT ![i.packet] = Top(Best[i.packet] \cup {i.value})]
  BY <1>7, <1>8
<1>10. HasTop'
  BY <1>4, <1>5 DEF HasTop
<1>11. QED
  BY <1>9, <1>10

(* The actions of the register, seen through the mapping. *)
LEMMA RegisterState ==
    /\ Best = [p \in {i.packet : i \in Items} |->
                 {r.value : r \in {s \in OfPacket(p) :
                                     \A t \in OfPacket(p) : t.value <= s.value}}]
    /\ Best' = [p \in {i.packet : i \in Items} |->
                 {r.value : r \in {s \in OfPacket(p) :
                                     \A t \in OfPacket(p) : t.value <= s.value}}]'
<1>1. ASSUME NEW p
      PROVE  Top(Values(p)) = {r.value : r \in {s \in OfPacket(p) :
                                              \A t \in OfPacket(p) : t.value <= s.value}}
  BY DEF Top, Values
<1>2. ASSUME NEW p
      PROVE  Top(Values(p))' = {r.value : r \in {s \in OfPacket(p) :
                                              \A t \in OfPacket(p) : t.value <= s.value}}'
  BY DEF Top, Values
<1>3. QED
  BY <1>1, <1>2 DEF Best, PacketIDs

Raises(i) == Best' = [Best EXCEPT ![i.packet] = Top(Best[i.packet] \cup {i.value})]

LEMMA RegisterActions ==
    /\ Register!registerVars = <<Best, Writing, started, stored>>
    /\ (UNCHANGED Register!registerVars) <=> UNCHANGED <<Best, Writing, started, stored>>
    /\ \A w \in Writers, i \in Items :
         Register!Begin(w, i) <=>
           /\ Writing[w] = NoItem /\ i \notin started
           /\ Writing' = [Writing EXCEPT ![w] = i] /\ started' = started \cup {i}
           /\ UNCHANGED <<Best, stored>>
    /\ \A w \in Writers :
         /\ Register!Commit(w) <=>
              /\ Writing[w] /= NoItem /\ Writing' = [Writing EXCEPT ![w] = NoItem]
              /\ started' = started
              /\ Raises(Writing[w]) /\ stored' = stored \cup {Writing[w]}
         /\ Register!Abort(w) <=>
              /\ Writing[w] /= NoItem /\ Writing' = [Writing EXCEPT ![w] = NoItem]
              /\ started' = started
              /\ Best' = Best \/ Raises(Writing[w])
              /\ stored' = stored
    /\ \A p \in PacketIDs :
         Register!Forget(p) <=>
           /\ Best' = [Best EXCEPT ![p] = {}]
           /\ stored' = {i \in stored : i.packet /= p}
           /\ UNCHANGED <<Writing, started>>
BY RegisterState
   DEF Register!registerVars, Register!Begin, Register!End, Register!Commit, Register!Abort,
       Register!Forget, Register!Raise, Register!Highest, Writing, Raises, Top

(* What a statement does: it ends the write, or leads to the next statement. *)
LEMMA StatementOutcomes ==
    ASSUME StoreInv, NEW w \in Writers, StepOf(w)
    PROVE  LET i == item[w] IN
           \/ table' = table /\ stored' = stored /\ at'[w] /= "idle"
           \/ Effect(i) /\ stored' = stored \cup {i} /\ at'[w] = "idle"
           \/ (table' = table \/ Effect(i)) /\ stored' = stored /\ at'[w] = "idle"
<1>1. at \in [Writers -> {"idle", "insert", "pair", "packet"}]
  BY DEF StoreInv
<1>2. /\ OfKey(item[w]) \in SUBSET OfPacket(item[w].packet)
      /\ OfPacket(item[w].packet) \in SUBSET OfPacket(item[w].packet)
  BY DEF OfKey, OfPacket, SameKey
<1>3. \A i : Updated({}, i) = table
  BY DEF Updated
<1>4. ASSUME NEW rows \in SUBSET OfPacket(item[w].packet), table' = Updated(rows, item[w])
      PROVE  IF rows = {} THEN table' = table ELSE Effect(item[w])
  BY <1>3, <1>4 DEF Effect
<1>5. CASE Insert(w)
  BY <1>1, <1>5 DEF Insert, Succeed, GoTo, Effect
<1>6. CASE UpdatePair(w)
  BY <1>1, <1>2, <1>4, <1>6 DEF UpdatePair, Succeed, GoTo
<1>7. CASE UpdatePacket(w)
  BY <1>1, <1>2, <1>4, <1>7 DEF UpdatePacket, Succeed, GiveUp, GoTo
<1>8. CASE StatementFails(w)
  <2>1. stored' = stored /\ at'[w] = "idle"
    BY <1>1, <1>8 DEF StatementFails, GiveUp, GoTo
  <2>2. table' = table \/ Effect(item[w])
    BY <1>2, <1>4, <1>8 DEF StatementFails, Effect
  <2>3. QED
    BY <2>1, <2>2
<1>9. QED
  BY <1>5, <1>6, <1>7, <1>8 DEF StepOf

LEMMA StatementRefines ==
    ASSUME StoreInv, HasTop, NEW w \in Writers, StepOf(w)
    PROVE  /\ Register!Next \/ UNCHANGED Register!registerVars
           /\ HasTop'
<1> DEFINE i == item[w]
<1>1. /\ at[w] /= "idle" /\ i \in Items /\ i \in started
      /\ UNCHANGED <<item, started>>
  BY StepApplies DEF StoreInv
<1>2. Writing[w] = i /\ i /= NoItem
  BY <1>1, NoItemAssumption DEF Writing
<1>3. at' = [at EXCEPT ![w] = at'[w]]
  BY DEF StepOf, Insert, UpdatePair, UpdatePacket, StatementFails, Succeed, GiveUp, GoTo,
         StoreInv
<1>4. at'[w] = "idle" => Writing' = [Writing EXCEPT ![w] = NoItem]
  BY <1>1, <1>3 DEF Writing, StoreInv
<1>5. at'[w] /= "idle" => Writing' = Writing
  BY <1>1, <1>3 DEF Writing, StoreInv
<1>6. table' = table => Best' = Best /\ HasTop' = HasTop
  BY DEF Best, Values, OfPacket, HasTop
<1>7. Effect(i) => Raises(i) /\ HasTop'
  BY <1>1, EffectRaises DEF Raises
<1> HIDE DEF i
<1>8. CASE table' = table /\ stored' = stored /\ at'[w] /= "idle"
  BY <1>1, <1>5, <1>6, <1>8, RegisterActions
<1>9. CASE Effect(i) /\ stored' = stored \cup {i} /\ at'[w] = "idle"
  <2>1. Register!Commit(w)
    BY <1>1, <1>2, <1>4, <1>7, <1>9, RegisterActions
  <2>2. QED
    BY <1>7, <1>9, <2>1 DEF Register!Next
<1>10. CASE (table' = table \/ Effect(i)) /\ stored' = stored /\ at'[w] = "idle"
  <2>1. Register!Abort(w)
    BY <1>1, <1>2, <1>4, <1>6, <1>7, <1>10, RegisterActions
  <2>2. QED
    BY <1>6, <1>7, <1>10, <2>1 DEF Register!Next
<1>11. QED
  BY <1>8, <1>9, <1>10, StatementOutcomes DEF i

LEMMA StoreRefines ==
    ASSUME StoreInv, HasTop, [StoreNext]_storeVars
    PROVE  /\ Register!Next \/ UNCHANGED Register!registerVars
           /\ HasTop'
<1>1. table' = table => Best' = Best /\ HasTop' = HasTop
  BY DEF Best, Values, OfPacket, HasTop
<1>2. ASSUME NEW w \in Writers, NEW i \in Items, BeginWrite(w, i)
      PROVE  /\ Register!Next \/ UNCHANGED Register!registerVars
             /\ HasTop'
  <2>1. Writing[w] = NoItem
    BY <1>2 DEF BeginWrite, Writing
  <2>2. Writing' = [Writing EXCEPT ![w] = i]
    BY <1>2 DEF BeginWrite, Writing, StoreInv
  <2>3. table' = table /\ stored' = stored /\ i \notin started /\ started' = started \cup {i}
    BY <1>2 DEF BeginWrite
  <2>4. Register!Begin(w, i)
    BY <1>1, <2>1, <2>2, <2>3, RegisterActions
  <2>5. QED
    BY <1>1, <2>3, <2>4 DEF Register!Next
<1>3. ASSUME NEW w \in Writers, StepOf(w)
      PROVE  /\ Register!Next \/ UNCHANGED Register!registerVars
             /\ HasTop'
  BY <1>3, StatementRefines
<1>4. ASSUME NEW i \in Items, Purge(i.packet)
      PROVE  /\ Register!Next \/ UNCHANGED Register!registerVars
             /\ HasTop'
  <2>1. /\ table' = table \ OfPacket(i.packet) /\ UNCHANGED <<at, item, started>>
        /\ stored' = {j \in stored : j.packet /= i.packet}
    BY <1>4 DEF Purge
  <2>2. i.packet \in PacketIDs
    BY DEF PacketIDs
  <2>3. Values(i.packet)' = {}
    BY <2>1 DEF Values, OfPacket
  <2>4. ASSUME NEW p, p /= i.packet
        PROVE  Values(p)' = Values(p)
    BY <2>1, <2>4 DEF Values, OfPacket
  <2>5. Top({}) = {}
    BY DEF Top
  <2>6. Best' = [Best EXCEPT ![i.packet] = {}]
    BY <2>3, <2>4, <2>5 DEF Best
  <2>7. Writing' = Writing
    BY <2>1 DEF Writing
  <2>8. Register!Forget(i.packet)
    BY <2>1, <2>2, <2>6, <2>7, RegisterActions
  <2>9. Register!PacketIDs = PacketIDs
    BY DEF Register!PacketIDs, PacketIDs
  <2>10. HasTop'
    BY <2>3, <2>4 DEF HasTop
  <2>11. QED
    BY <2>2, <2>8, <2>9, <2>10 DEF Register!Next
<1>5. CASE UNCHANGED storeVars
  <2>1. UNCHANGED <<table, at, item, started, stored>>
    BY <1>5 DEF storeVars
  <2>2. UNCHANGED <<Best, Writing, started, stored>>
    BY <1>1, <2>1 DEF Writing
  <2>3. QED
    BY <1>1, <2>1, <2>2, RegisterActions
<1>6. QED
  BY <1>2, <1>3, <1>4, <1>5 DEF StoreNext, StepOf, StoreQuiet

(* The table implements a register of maxima: from the maximum of a packet   *)
(* one cannot tell that a write is more than one step.                       *)
THEOREM TableKeepsMaximum == StoreSpec => KeepsMaximum
<1>1. StoreInit => Register!Init /\ HasTop
  <2> SUFFICES ASSUME StoreInit PROVE Register!Init /\ HasTop
    OBVIOUS
  <2>1. \A p : OfPacket(p) = {} /\ Values(p) = {}
    BY DEF StoreInit, OfPacket, Values
  <2>2. Register!Init
    BY <2>1 DEF StoreInit, Register!Init, Register!PacketIDs
  <2>3. QED
    BY <2>1, <2>2 DEF HasTop
<1>2. StoreInv /\ HasTop /\ [StoreNext]_storeVars
        => HasTop' /\ [Register!Next]_(Register!registerVars)
  BY StoreRefines
<1>3. QED
  BY <1>1, <1>2, StoreInvAlways, PTL DEF StoreSpec, KeepsMaximum, Register!Spec
=============================================================================
