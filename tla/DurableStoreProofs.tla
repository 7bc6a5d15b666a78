-------------------------- MODULE DurableStoreProofs --------------------------
(***************************************************************************)
(* Theorems about DurableStore, for every value of its constants.  IInv is *)
(* the inductive invariant.                                                *)
(***************************************************************************)
EXTENDS DurableStore, TLAPS

(* A tombstone has no value, and only a legacy key has a row without one.  *)
RowInv ==
  \A k \in Keys :
    /\ ~Missing(k) /\ table[k].deleted => table[k].value = None
    /\ Indexed(k) => k \in LegacyKeys /\ table[k].expires = Legacy[k].expires

(* A reader holds what the old namespace has for a key that may be         *)
(* imported, or had until its time was over.                               *)
Answers(k) ==
  {FromLegacy(k)} \union (IF k \in LegacyKeys /\ Legacy[k].expires # None THEN {Adopted(k)} ELSE {})

ReadInv ==
  \A r \in Readers :
    reader[r].stage # "idle" =>
      /\ reader[r].key \in Keys \ LocalKeys
      /\ reader[r].stage = "answered" => reader[r].raw \in Answers(reader[r].key)

(* A living legacy key without a row is still to be indexed by every       *)
(* listing.                                                                *)
ListInv ==
  \A k \in LegacyKeys :
    Missing(k) /\ Live(Legacy[k].expires) =>
      /\ ~imported
      /\ \A l \in Listers : lister[l] # None => k \in lister[l]

IInv == TypeOK /\ RowInv /\ ReadInv /\ ListInv

SameHeld == \A k \in Keys : Held(k)' = Held(k)

-----------------------------------------------------------------------------
(* Facts about rows *)

(* A row and a key are not their absence.                                  *)
LEMMA RowFacts ==
  /\ \A row \in Row : /\ row # None
                      /\ row.value \in Values \union {None}
                      /\ row.expires \in Nat \union {None}
                      /\ row.deleted \in BOOLEAN
  /\ \A value \in Values \union {None}, expires \in Nat \union {None}, deleted \in BOOLEAN :
       [value |-> value, expires |-> expires, deleted |-> deleted] \in Row
  /\ None \notin Keys /\ None \notin Values /\ None \notin Nat
BY StoreAssumption DEF Row

(* The rows the code writes.                                               *)
LEMMA Rows ==
  /\ \A v \in Values, d \in Nat \union {None} : ValueRow(v, d) \in Row
  /\ Tombstone \in Row
  /\ \A raw \in Values \union {None} : ImportedRow(raw) \in Row
BY RowFacts DEF ValueRow, Tombstone, ImportedRow

(* What the old namespace answers.                                         *)
LEMMA LegacyFacts ==
  ASSUME NEW k \in Keys
  PROVE  /\ k \in LegacyKeys => /\ k \notin LocalKeys /\ Legacy[k] # None
                                /\ Legacy[k].expires \in Nat \union {None}
                                /\ Adopted(k) \in Values /\ Adopted(k) # None
                                /\ IndexRow(k) \in Row
         /\ k \notin LegacyKeys => FromLegacy(k) = None
         /\ FromLegacy(k) \in Values \union {None}
         /\ Answers(k) \subseteq Values \union {None}
<1>1. k \in LegacyKeys => /\ k \notin LocalKeys /\ Legacy[k] # None
                          /\ Legacy[k].expires \in Nat \union {None}
                          /\ Legacy[k].value \in Values
  BY StoreAssumption DEF LegacyKeys, Entry
<1>2. k \in LegacyKeys => Adopted(k) \in Values /\ Adopted(k) # None
  BY <1>1, StoreAssumption DEF Adopted
<1>3. k \in LegacyKeys => IndexRow(k) \in Row
  BY <1>1, RowFacts DEF IndexRow
<1>4. FromLegacy(k) \in Values \union {None} /\ (k \notin LegacyKeys => FromLegacy(k) = None)
  BY <1>2 DEF FromLegacy
<1>5. QED
  BY <1>1, <1>2, <1>3, <1>4 DEF Answers

(* A key whose row does not change holds the same until time passes.       *)
LEMMA SameRowHolds ==
  ASSUME NEW k \in Keys, table'[k] = table[k], clock' = clock
  PROVE  /\ Held(k)' = Held(k)
         /\ View(k)' = View(k)
         /\ Missing(k)' = Missing(k)
         /\ Indexed(k)' = Indexed(k)
BY DEF Held, View, FromLegacy, Missing, Indexed, Listed, Live

(* What a key holds whose value is still to be imported.                   *)
LEMMA UnreadHolds ==
  ASSUME IInv, NEW k \in Keys, Missing(k) \/ Indexed(k)
  PROVE  /\ View(k) = FromLegacy(k)
         /\ Held(k) = IF FromLegacy(k) = None THEN None
                      ELSE [value |-> Adopted(k), expires |-> Legacy[k].expires]
<1>1. Indexed(k) => k \in LegacyKeys /\ table[k].expires = Legacy[k].expires /\ (Listed(k) <=> Live(Legacy[k].expires))
  BY DEF IInv, RowInv, Indexed, Listed
<1>2. View(k) = FromLegacy(k)
  BY <1>1 DEF View, Missing, Indexed, FromLegacy
<1>3. FromLegacy(k) # None => FromLegacy(k) = Adopted(k)
  BY DEF FromLegacy
<1>4. (IF Missing(k) THEN Legacy[k].expires ELSE table[k].expires) = Legacy[k].expires
  BY <1>1
<1>5. QED
  BY <1>2, <1>3, <1>4 DEF Held

(* Readers that stay as they are keep what they hold.                      *)
LEMMA ReadKept ==
  ASSUME IInv, reader' = reader, clock' = clock
  PROVE  ReadInv'
BY DEF IInv, ReadInv, Answers, FromLegacy, Live, LegacyKeys, Adopted

-----------------------------------------------------------------------------
(* The steps *)

(* The invariant holds before the first request.                           *)
LEMMA InitIInv == Init => IInv
<1> SUFFICES ASSUME Init
             PROVE  IInv
  OBVIOUS
<1>1. TypeOK
  <2>1. NoRead \in ReadRow
    BY DEF NoRead, ReadRow
  <2>2. clock \in 0 .. MaxTime
    BY StoreAssumption DEF Init
  <2>3. QED
    BY <2>1, <2>2 DEF Init, TypeOK
<1>2. RowInv
  BY DEF Init, RowInv, Missing, Indexed
<1>3. ReadInv
  BY DEF Init, ReadInv, NoRead
<1>4. ListInv
  BY DEF Init, ListInv
<1>5. QED
  BY <1>1, <1>2, <1>3, <1>4 DEF IInv

(* A batch writes rows with values.                                        *)
LEMMA BatchStep ==
  ASSUME IInv, NEW keys \in SUBSET Keys, NEW deadline \in Deadlines,
         NEW value \in [keys -> Written], Batch(keys, value, deadline)
  PROVE  IInv' /\ KV!Write(keys, value, deadline)
<1>1. /\ deadline \in Nat \union {None}
      /\ deadline # None => deadline \in Nat /\ deadline > clock
  BY DEF Deadlines, IInv, TypeOK
<1>2. ASSUME NEW k \in keys
      PROVE  /\ table'[k] = ValueRow(value[k], deadline)
             /\ value[k] \in Values
             /\ table'[k] \in Row
  BY <1>1, Rows, StoreAssumption DEF Batch
<1>3. ASSUME NEW k \in Keys \ keys
      PROVE  table'[k] = table[k]
  BY DEF Batch
<1>4. ASSUME NEW k \in keys
      PROVE  /\ ~Missing(k)' /\ ~Indexed(k)' /\ ~table'[k].deleted
             /\ Held(k)' = [value |-> value[k], expires |-> deadline]
  BY <1>1, <1>2, RowFacts DEF ValueRow, Missing, Indexed, Listed, Live, View, Held, Batch
<1>5. TypeOK'
  <2>1. table' \in [Keys -> Row \union {None}]
    BY <1>2, <1>3 DEF Batch, IInv, TypeOK
  <2>2. QED
    BY <2>1 DEF Batch, IInv, TypeOK
<1>6. RowInv'
  BY <1>3, <1>4 DEF RowInv, IInv, Missing, Indexed
<1>7. ReadInv'
  BY ReadKept DEF Batch
<1>8. ListInv'
  BY <1>3, <1>4 DEF Batch, ListInv, IInv, Missing, LegacyKeys, Live
<1>9. \A k \in Keys \ keys : Held(k)' = Held(k)
  BY <1>3, SameRowHolds DEF Batch
<1>10. KV!Write(keys, value, deadline)
  BY <1>4, <1>9 DEF KV!Write, Batch
<1>11. QED
  BY <1>5, <1>6, <1>7, <1>8, <1>10 DEF IInv

(* A deleted key holds nothing.                                            *)
LEMMA DeleteStep ==
  ASSUME IInv, NEW k \in Keys, Delete(k)
  PROVE  IInv' /\ KV!Delete(k)
<1>1. table'[k] = Tombstone /\ Tombstone \in Row
  BY Rows DEF Delete, IInv, TypeOK
<1>2. ASSUME NEW j \in Keys \ {k}
      PROVE  table'[j] = table[j]
  BY DEF Delete, IInv, TypeOK
<1>3. /\ ~Missing(k)' /\ ~Indexed(k)' /\ table'[k].value = None
      /\ Held(k)' = None
  BY <1>1, RowFacts DEF Tombstone, Missing, Indexed, Listed, View, Held
<1>4. TypeOK'
  <2>1. table' \in [Keys -> Row \union {None}]
    BY <1>1, <1>2 DEF Delete, IInv, TypeOK
  <2>2. QED
    BY <2>1 DEF Delete, IInv, TypeOK
<1>5. RowInv'
  BY <1>2, <1>3 DEF RowInv, IInv, Missing, Indexed
<1>6. ReadInv'
  BY ReadKept DEF Delete
<1>7. ListInv'
  BY <1>2, <1>3 DEF Delete, ListInv, IInv, Missing, LegacyKeys, Live
<1>8. \A j \in Keys \ {k} : Held(j)' = Held(j)
  BY <1>2, SameRowHolds DEF Delete
<1>9. KV!Delete(k)
  BY <1>3, <1>8 DEF KV!Delete, Delete
<1>10. QED
  BY <1>4, <1>5, <1>6, <1>7, <1>9 DEF IInv

(* The purge removes rows that held nothing, of keys that are never        *)
(* imported.                                                               *)
LEMMA CleanupStep ==
  ASSUME IInv, Cleanup
  PROVE  IInv' /\ KV!Idle
<1>1. ASSUME NEW k \in Keys, table'[k] # table[k]
      PROVE  k \in LocalKeys /\ Missing(k)' /\ Held(k)' = None /\ Held(k) = None
  BY <1>1, StoreAssumption, RowFacts
     DEF Cleanup, Missing, Listed, View, Held, FromLegacy, LegacyKeys
<1>2. TypeOK'
  <2>1. table' \in [Keys -> Row \union {None}]
    BY DEF Cleanup, IInv, TypeOK
  <2>2. QED
    BY <2>1 DEF Cleanup, IInv, TypeOK
<1>3. RowInv'
  BY <1>1 DEF RowInv, IInv, Missing, Indexed
<1>4. ReadInv'
  BY ReadKept DEF Cleanup
<1>5. ListInv'
  BY <1>1 DEF Cleanup, ListInv, IInv, Missing, LegacyKeys, Live
<1>6. SameHeld
  BY <1>1, SameRowHolds DEF Cleanup, SameHeld
<1>7. KV!Idle
  BY <1>6 DEF KV!Idle, SameHeld, Cleanup
<1>8. QED
  BY <1>2, <1>3, <1>4, <1>5, <1>7 DEF IInv

(* Steps of handlers that write no row.                                    *)
LEMMA NoRowStep ==
  ASSUME IInv, UNCHANGED <<table, clock>>
  PROVE  RowInv' /\ KV!Idle
<1>1. RowInv'
  BY DEF RowInv, IInv, Missing, Indexed, LegacyKeys
<1>2. SameHeld
  BY SameRowHolds DEF SameHeld
<1>3. QED
  BY <1>1, <1>2 DEF SameHeld, KV!Idle

(* What a key holds is a value or nothing.                                 *)
LEMMA ViewType ==
  ASSUME IInv, NEW k \in Keys
  PROVE  View(k) \in Values \union {None}
BY LegacyFacts, RowFacts DEF View, Missing, IInv, TypeOK

(* A get answers, or asks the old namespace for a key it may import.       *)
LEMMA GetStep ==
  ASSUME IInv, NEW r \in Readers, NEW k \in Keys, Get(r, k)
  PROVE  IInv' /\ KV!Idle
<1>1. (Missing(k) /\ k \notin LocalKeys) \/ (Indexed(k) /\ Listed(k)) => k \in Keys \ LocalKeys
  BY LegacyFacts DEF IInv, RowInv
<1>2. RowInv' /\ KV!Idle
  BY NoRowStep DEF Get
<1>3. TypeOK'
  BY ViewType DEF Get, IInv, TypeOK, ReadRow
<1>4. ReadInv'
  <2> SUFFICES ASSUME NEW q \in Readers, reader'[q].stage # "idle"
               PROVE  /\ reader'[q].key \in Keys \ LocalKeys
                      /\ reader'[q].stage = "answered" => reader'[q].raw \in Answers(reader'[q].key)
    BY DEF Get, ReadInv, Answers, FromLegacy, Live, LegacyKeys, Adopted
  <2>1. CASE reader'[q] = reader[q]
    BY <2>1 DEF IInv, ReadInv
  <2>2. CASE reader'[q] # reader[q]
    BY <1>1, <2>2 DEF Get, IInv, TypeOK
  <2>3. QED
    BY <2>1, <2>2
<1>5. ListInv'
  BY DEF Get, ListInv, IInv, Missing, LegacyKeys, Live
<1>6. QED
  BY <1>2, <1>3, <1>4, <1>5 DEF IInv

(* The old namespace answers.                                              *)
LEMMA LegacyAnswersStep ==
  ASSUME IInv, NEW r \in Readers, LegacyAnswers(r)
  PROVE  IInv' /\ KV!Idle
<1>1. reader[r].key \in Keys \ LocalKeys
  BY DEF LegacyAnswers, IInv, ReadInv
<1>2. FromLegacy(reader[r].key) \in Values \union {None}
  BY <1>1, LegacyFacts
<1>3. RowInv' /\ KV!Idle
  BY NoRowStep DEF LegacyAnswers
<1>4. TypeOK'
  BY <1>2 DEF LegacyAnswers, IInv, TypeOK, ReadRow
<1>5. ReadInv'
  <2> SUFFICES ASSUME NEW q \in Readers, reader'[q].stage # "idle"
               PROVE  /\ reader'[q].key \in Keys \ LocalKeys
                      /\ reader'[q].stage = "answered" => reader'[q].raw \in Answers(reader'[q].key)
    BY DEF LegacyAnswers, ReadInv, Answers, FromLegacy, Live, LegacyKeys, Adopted
  <2>0. \A k \in Keys : FromLegacy(k) \in Answers(k)
    BY DEF Answers
  <2>1. CASE q # r
    BY <2>0, <2>1 DEF LegacyAnswers, IInv, TypeOK, ReadInv
  <2>2. CASE q = r
    <3>1. reader'[q].key = reader[r].key /\ reader'[q].raw = FromLegacy(reader[r].key)
      BY <2>2 DEF LegacyAnswers, IInv, TypeOK, ReadRow
    <3>2. QED
      BY <1>1, <2>0, <3>1
  <2>3. QED
    BY <2>1, <2>2
<1>6. ListInv'
  BY DEF LegacyAnswers, ListInv, IInv, Missing, LegacyKeys, Live
<1>7. QED
  BY <1>3, <1>4, <1>5, <1>6 DEF IInv

(* An import stores what the key held, or finds a row that wins.           *)
LEMMA ImportValueStep ==
  ASSUME IInv, NEW r \in Readers, NEW k \in Keys,
         reader[r].key = k, ImportValue(r)
  PROVE  /\ IInv' /\ (KV!Idle \/ LastsFromNow(k))
         /\ answer'[r] = View(k)' \/ ~Live(table[k].expires)
<1> DEFINE raw == reader[r].raw
<1>1. k \in Keys \ LocalKeys /\ raw \in Answers(k) /\ raw \in Values \union {None}
  BY LegacyFacts DEF ImportValue, IInv, ReadInv
<1>2. ImportedRow(raw) \in Row
  BY <1>1, Rows
<1>3. /\ \A j \in Keys \ {k} : table'[j] = table[j]
      /\ table'[k] = IF Missing(k) \/ Indexed(k) THEN ImportedRow(raw) ELSE table[k]
      /\ answer'[r] = IF Missing(k) \/ Indexed(k) THEN raw ELSE table[k].value
      /\ clock' = clock
  BY <1>1 DEF ImportValue, IInv, TypeOK
<1>4. ASSUME Missing(k) \/ Indexed(k)
      PROVE  /\ ~Missing(k)' /\ ~Indexed(k)' /\ (table'[k].deleted => table'[k].value = None)
             /\ \/ Held(k)' = Held(k)
                \/ /\ k \in LegacyKeys /\ Legacy[k].expires # None
                   /\ Held(k)' = [value |-> Adopted(k), expires |-> None]
             /\ answer'[r] = View(k)'
  <2>1. table'[k] = ImportedRow(raw) /\ answer'[r] = raw
    BY <1>3, <1>4
  <2>2. ~Missing(k)' /\ ~Indexed(k)' /\ (table'[k].deleted => table'[k].value = None)
    BY <2>1, <1>2, <1>1, RowFacts
       DEF ImportedRow, Tombstone, ValueRow, Missing, Indexed
  <2>3. View(k)' = raw
    <3>1. CASE raw = None
      BY <2>1, <2>2, <3>1 DEF ImportedRow, Tombstone, View, Listed
    <3>2. CASE raw # None
      <4>1. table'[k] = [value |-> raw, expires |-> None, deleted |-> FALSE]
        BY <2>1, <3>2 DEF ImportedRow, ValueRow
      <4>2. Listed(k)'
        BY <4>1, <2>2 DEF Listed, Live, Missing
      <4>3. QED
        BY <4>1, <4>2, <2>2 DEF View
    <3>3. QED
      BY <3>1, <3>2
  <2>4. raw # None => table'[k].expires = None
    BY <2>1, RowFacts DEF ImportedRow, ValueRow
  <2>5. Held(k)' = IF raw = None THEN None ELSE [value |-> raw, expires |-> None]
    BY <2>2, <2>3, <2>4 DEF Held
  <2>6. CASE k \in LegacyKeys /\ Legacy[k].expires # None /\ raw = Adopted(k)
    BY <2>1, <2>2, <2>3, <2>5, <2>6, LegacyFacts
  <2>7. CASE raw = FromLegacy(k) /\ (raw = None \/ Legacy[k].expires = None)
    <3>1. raw # None => raw = Adopted(k)
      BY <2>7 DEF FromLegacy
    <3>2. Held(k)' = Held(k)
      BY <1>4, <2>5, <2>7, <3>1, UnreadHolds
    <3>3. QED
      BY <2>1, <2>2, <2>3, <3>2
  <2>8. \/ k \in LegacyKeys /\ Legacy[k].expires # None /\ raw = Adopted(k)
        \/ raw = FromLegacy(k) /\ (raw = None \/ Legacy[k].expires = None)
    BY <1>1 DEF Answers, FromLegacy
  <2>9. QED
    BY <2>6, <2>7, <2>8
<1>5. ASSUME ~(Missing(k) \/ Indexed(k))
      PROVE  /\ ~Missing(k)' /\ ~Indexed(k)' /\ (table'[k].deleted => table'[k].value = None)
             /\ Held(k)' = Held(k)
             /\ answer'[r] = View(k)' \/ ~Live(table[k].expires)
  <2>1. table'[k] = table[k] /\ answer'[r] = table[k].value
    BY <1>3, <1>5
  <2>3. /\ Held(k)' = Held(k) /\ View(k)' = View(k)
        /\ ~Missing(k)' /\ ~Indexed(k)'
    BY <1>1, <1>3, <1>5, <2>1, SameRowHolds
  <2>4. View(k) = table[k].value \/ ~Live(table[k].expires)
    BY <1>1, <1>5, RowFacts DEF View, Missing, Indexed, Listed, IInv, RowInv, TypeOK
  <2>5. table'[k].deleted => table'[k].value = None
    BY <1>5, <2>1 DEF IInv, RowInv
  <2>6. QED
    BY <2>1, <2>3, <2>4, <2>5
<1>6. /\ ~Missing(k)' /\ ~Indexed(k)' /\ (table'[k].deleted => table'[k].value = None)
      /\ answer'[r] = View(k)' \/ ~Live(table[k].expires)
  BY <1>4, <1>5
<1>7. TypeOK'
  <2>1. table' \in [Keys -> Row \union {None}]
    BY <1>1, <1>2, <1>3 DEF ImportValue, IInv, TypeOK
  <2>2. answer' \in [Readers -> Values \union {None}]
    <3>1. answer'[r] \in Values \union {None}
      BY <1>1, <1>3, RowFacts DEF Missing, IInv, TypeOK
    <3>2. QED
      BY <3>1 DEF ImportValue, IInv, TypeOK
  <2>3. reader' \in [Readers -> ReadRow]
    BY DEF ImportValue, IInv, TypeOK, NoRead, ReadRow
  <2>4. QED
    BY <2>1, <2>2, <2>3 DEF ImportValue, IInv, TypeOK
<1>8. RowInv'
  BY <1>3, <1>6 DEF RowInv, IInv, Missing, Indexed
<1>9. ReadInv'
  BY <1>3 DEF ImportValue, ReadInv, IInv, NoRead, TypeOK, Answers, FromLegacy, Live, LegacyKeys, Adopted
<1>10. ListInv'
  BY <1>3, <1>6 DEF ImportValue, ListInv, IInv, Missing, LegacyKeys, Live
<1>11. KV!Idle \/ LastsFromNow(k)
  <2>1. \A j \in Keys \ {k} : Held(j)' = Held(j)
    BY <1>3, SameRowHolds
  <2>2. CASE Held(k)' = Held(k)
    BY <1>3, <2>1, <2>2 DEF KV!Idle
  <2>3. CASE Held(k)' # Held(k)
    <3>1. /\ Missing(k) \/ Indexed(k)
          /\ k \in LegacyKeys /\ Legacy[k].expires # None
          /\ Held(k)' = [value |-> Adopted(k), expires |-> None]
      BY <1>4, <1>5, <2>3
    <3>2. KV!Write({k}, [j \in {k} |-> Adopted(k)], None)
      BY <1>3, <2>1, <3>1 DEF KV!Write
    <3>3. QED
      BY <3>1, <3>2 DEF LastsFromNow
  <2>4. QED
    BY <2>2, <2>3
<1>12. QED
  BY <1>6, <1>7, <1>8, <1>9, <1>10, <1>11 DEF IInv

(* A listing starts with every living legacy key to index.                 *)
LEMMA EnsurePrefixStep ==
  ASSUME IInv, NEW l \in Listers, EnsurePrefix(l)
  PROVE  IInv' /\ KV!Idle
<1>1. lister'[l] = {k \in LegacyKeys : Live(Legacy[k].expires)}
  BY DEF EnsurePrefix, IInv, TypeOK
<1>2. RowInv' /\ KV!Idle
  BY NoRowStep DEF EnsurePrefix
<1>3. TypeOK'
  BY <1>1 DEF EnsurePrefix, IInv, TypeOK
<1>4. ReadInv'
  BY ReadKept DEF EnsurePrefix
<1>5. ListInv'
  BY <1>1 DEF EnsurePrefix, ListInv, IInv, Missing, LegacyKeys, Live, TypeOK
<1>6. QED
  BY <1>2, <1>3, <1>4, <1>5 DEF IInv

(* A page gives its keys rows; what they hold stays with the old namespace.*)
LEMMA IndexPageStep ==
  ASSUME IInv, NEW l \in Listers, NEW page \in SUBSET LegacyKeys,
         IndexPage(l, page)
  PROVE  IInv' /\ KV!Idle
<1>1. page \subseteq Keys
  BY DEF LegacyKeys
<1>2. ASSUME NEW k \in Keys, table'[k] # table[k]
      PROVE  /\ k \in page /\ Missing(k)
             /\ table'[k] = IndexRow(k) /\ IndexRow(k) \in Row
  BY <1>2, LegacyFacts DEF IndexPage
<1>3. ASSUME NEW k \in page
      PROVE  ~Missing(k)'
  BY <1>1, LegacyFacts, RowFacts DEF IndexPage, Missing
<1>4. ASSUME NEW k \in Keys, table'[k] # table[k]
      PROVE  /\ ~Missing(k)' /\ ~table'[k].deleted /\ table'[k].expires = Legacy[k].expires
             /\ table'[k].value = None /\ Held(k)' = Held(k)
  <2>1. k \in LegacyKeys /\ Missing(k) /\ ~Missing(k)'
    BY <1>2, <1>3, <1>4
  <2>2. /\ ~table'[k].deleted /\ table'[k].expires = Legacy[k].expires /\ table'[k].value = None
    <3>1. table'[k] = IndexRow(k)
      BY <1>2, <1>4
    <3>2. QED
      BY <3>1 DEF IndexRow
  <2>3. clock' = clock
    BY DEF IndexPage
  <2>4. View(k) = FromLegacy(k) /\ View(k)' = FromLegacy(k)
    BY <2>1, <2>2, <2>3 DEF View, Missing, Indexed, Listed, FromLegacy, Live
  <2>5. Held(k)' = Held(k)
    BY <2>1, <2>2, <2>4 DEF Held
  <2>6. QED
    BY <2>1, <2>2, <2>5
<1>5. TypeOK'
  <2>1. table' \in [Keys -> Row \union {None}]
    BY <1>2 DEF IndexPage, IInv, TypeOK
  <2>2. lister' \in [Listers -> (SUBSET LegacyKeys) \union {None}]
    BY DEF IndexPage, IInv, TypeOK
  <2>3. QED
    BY <2>1, <2>2 DEF IndexPage, IInv, TypeOK
<1>6. RowInv'
  BY <1>2, <1>4 DEF RowInv, IInv, Missing, Indexed
<1>7. ReadInv'
  BY ReadKept DEF IndexPage
<1>8. ListInv'
  <2> SUFFICES ASSUME NEW k \in LegacyKeys, Missing(k)', Live(Legacy[k].expires)'
               PROVE  /\ ~imported'
                      /\ \A m \in Listers : lister'[m] # None => k \in lister'[m]
    BY DEF ListInv, LegacyKeys
  <2>1. k \notin page /\ Missing(k) /\ Live(Legacy[k].expires)
    BY <1>3, <1>4 DEF Missing, LegacyKeys, Live, IndexPage
  <2>2. QED
    BY <2>1 DEF IndexPage, ListInv, IInv, TypeOK
<1>9. KV!Idle
  <2>1. \A k \in Keys : Held(k)' = Held(k)
    BY <1>4, SameRowHolds DEF IndexPage
  <2>2. QED
    BY <2>1 DEF KV!Idle, IndexPage
<1>10. QED
  BY <1>5, <1>6, <1>7, <1>8, <1>9 DEF IInv

(* The prefix is marked when every legacy key has a row.                   *)
LEMMA MarkImportedStep ==
  ASSUME IInv, NEW l \in Listers, MarkImported(l)
  PROVE  IInv' /\ KV!Idle
<1>1. \A k \in LegacyKeys : ~(Missing(k) /\ Live(Legacy[k].expires))
  BY StoreAssumption DEF MarkImported, IInv, ListInv
<1>2. RowInv' /\ KV!Idle
  BY NoRowStep DEF MarkImported
<1>3. TypeOK'
  BY DEF MarkImported, IInv, TypeOK
<1>4. ReadInv'
  BY ReadKept DEF MarkImported
<1>5. ListInv'
  BY <1>1 DEF MarkImported, ListInv, IInv, Missing, LegacyKeys, Live
<1>6. QED
  BY <1>2, <1>3, <1>4, <1>5 DEF IInv

(* Time ends the rows that are over.                                       *)
LEMMA TimePassesStep ==
  ASSUME IInv, TimePasses
  PROVE  IInv' /\ KV!Tick
<1>1. /\ clock \in Nat /\ clock' = clock + 1 /\ table' = table
  BY DEF TimePasses, IInv, TypeOK
<1>2. TypeOK'
  BY StoreAssumption DEF TimePasses, IInv, TypeOK
<1>3. RowInv'
  BY DEF TimePasses, RowInv, IInv, Missing, Indexed, LegacyKeys
<1>4. ReadInv'
  <2>1. ASSUME NEW k \in Keys
        PROVE  Answers(k) \subseteq Answers(k)'
    <3>1. k \in LegacyKeys => Legacy[k].expires \in Nat \union {None}
      BY LegacyFacts
    <3>2. k \in LegacyKeys /\ Legacy[k].expires = None => FromLegacy(k)' = FromLegacy(k)
      BY DEF FromLegacy, Live, LegacyKeys, Adopted
    <3>3. k \notin LegacyKeys => FromLegacy(k)' = FromLegacy(k)
      BY DEF FromLegacy, LegacyKeys
    <3>4. k \in LegacyKeys /\ ~Live(Legacy[k].expires) => FromLegacy(k)' = FromLegacy(k)
      BY <1>1, <3>1, RowFacts DEF FromLegacy, Live, LegacyKeys
    <3>5. k \in LegacyKeys /\ Live(Legacy[k].expires) => FromLegacy(k) = Adopted(k)
      BY DEF FromLegacy
    <3>6. QED
      BY <3>2, <3>3, <3>4, <3>5 DEF Answers, LegacyKeys, Adopted
  <2>2. QED
    BY <2>1 DEF TimePasses, ReadInv, IInv
<1>5. ListInv'
  <2>1. \A k \in LegacyKeys : Live(Legacy[k].expires)' => Live(Legacy[k].expires)
    <3>1. \A k \in LegacyKeys : Legacy[k].expires \in Nat \union {None}
      BY LegacyFacts DEF LegacyKeys
    <3>2. QED
      BY <1>1, <3>1, RowFacts DEF Live
  <2>2. QED
    BY <2>1 DEF TimePasses, ListInv, IInv, Missing, LegacyKeys
<1>6. ASSUME NEW k \in Keys
      PROVE  Held(k)' =
               IF Held(k) # None /\ Held(k).expires # None /\ Held(k).expires <= clock'
               THEN None ELSE Held(k)
  <2>1. CASE Missing(k) \/ Indexed(k)
    <3>1. Missing(k)' = Missing(k) /\ Indexed(k)' = Indexed(k)
      BY <1>1 DEF Missing, Indexed
    <3>2. IInv'
      BY <1>2, <1>3, <1>4, <1>5 DEF IInv
    <3>3. Held(k) = IF FromLegacy(k) = None THEN None ELSE [value |-> Adopted(k), expires |-> Legacy[k].expires]
      BY <2>1, UnreadHolds
    <3>4. Held(k)' = IF FromLegacy(k)' = None THEN None ELSE [value |-> Adopted(k), expires |-> Legacy[k].expires]
      <4>1. (Missing(k) \/ Indexed(k))'
        BY <2>1, <3>1
      <4>2. Indexed(k)' => k \in LegacyKeys /\ table'[k].expires = Legacy[k].expires
                           /\ (Listed(k)' <=> Live(Legacy[k].expires)')
        BY <1>1, <1>3 DEF RowInv, Indexed, Listed, Live, LegacyKeys
      <4>3. View(k)' = FromLegacy(k)'
        BY <4>1, <4>2 DEF View, Missing, Indexed, FromLegacy
      <4>4. FromLegacy(k)' # None => FromLegacy(k)' = Adopted(k)
        BY DEF FromLegacy, Adopted
      <4>5. (IF Missing(k)' THEN Legacy[k].expires ELSE table'[k].expires) = Legacy[k].expires
        BY <4>1, <4>2
      <4>6. QED
        BY <4>3, <4>4, <4>5 DEF Held
    <3>5. CASE k \in LegacyKeys
      <4>1. Legacy[k].expires \in Nat \union {None} /\ Adopted(k) # None
        BY <3>5, LegacyFacts
      <4>2. FromLegacy(k)' = IF FromLegacy(k) = None \/ (Legacy[k].expires # None /\ Legacy[k].expires <= clock')
                             THEN None ELSE Adopted(k)
        BY <1>1, <3>5, <4>1, RowFacts DEF FromLegacy, Live, LegacyKeys, Adopted
      <4>3. QED
        BY <3>3, <3>4, <4>1, <4>2
    <3>6. CASE k \notin LegacyKeys
      BY <3>3, <3>4, <3>6 DEF FromLegacy, LegacyKeys
    <3>7. QED
      BY <3>5, <3>6
  <2>2. CASE ~(Missing(k) \/ Indexed(k))
    <3>1. /\ ~Missing(k)' /\ ~Indexed(k)'
          /\ table[k] \in Row
      BY <1>1, <2>2 DEF IInv, TypeOK, Missing, Indexed
    <3>2. table[k].expires \in Nat \union {None}
      BY <3>1, RowFacts
    <3>3. Held(k) = IF View(k) = None THEN None
                    ELSE [value |-> View(k), expires |-> table[k].expires]
      BY <2>2 DEF Held
    <3>4. Held(k)' = IF View(k)' = None THEN None
                     ELSE [value |-> View(k)', expires |-> table[k].expires]
      BY <1>1, <3>1 DEF Held
    <3>5. View(k) = IF Listed(k) THEN table[k].value ELSE None
      BY <2>2 DEF View
    <3>6. View(k)' = IF Listed(k)' THEN table[k].value ELSE None
      BY <1>1, <3>1 DEF View
    <3>7. Listed(k)' <=> /\ Listed(k)
                         /\ ~(table[k].expires # None /\ table[k].expires <= clock')
      BY <1>1, <2>2, <3>1, <3>2, RowFacts DEF Listed, Live, Missing
    <3>8. QED
      BY <3>3, <3>4, <3>5, <3>6, <3>7
  <2>3. QED
    BY <2>1, <2>2
<1>7. KV!Tick
  BY <1>1, <1>6 DEF KV!Tick
<1>8. QED
  BY <1>2, <1>3, <1>4, <1>5, <1>7 DEF IInv

(* Handlers that end leave nothing behind but what they stored.            *)
LEMMA InterruptedStep ==
  ASSUME IInv, NEW readers \in SUBSET Readers, NEW listers \in SUBSET Listers,
         Interrupted(readers, listers)
  PROVE  IInv' /\ KV!Idle
<1>1. RowInv' /\ KV!Idle
  BY NoRowStep DEF Interrupted
<1>2. TypeOK'
  BY DEF Interrupted, IInv, TypeOK, NoRead, ReadRow
<1>3. ReadInv'
  BY DEF Interrupted, ReadInv, IInv, NoRead, Answers, FromLegacy, Live, LegacyKeys, Adopted
<1>4. ListInv'
  BY DEF Interrupted, ListInv, IInv, Missing, LegacyKeys, Live
<1>5. QED
  BY <1>1, <1>2, <1>3, <1>4 DEF IInv

(* Reads, listings, the purge and interruptions.                           *)
LEMMA InternalStep ==
  ASSUME IInv, Internal
  PROVE  IInv' /\ (KV!Idle \/ \E k \in Keys : LastsFromNow(k))
<1>1. ASSUME NEW r \in Readers, ImportValue(r)
      PROVE  IInv' /\ (KV!Idle \/ \E k \in Keys : LastsFromNow(k))
  <2>1. reader[r].key \in Keys
    BY <1>1 DEF ImportValue, IInv, ReadInv
  <2>2. QED
    BY <1>1, <2>1, ImportValueStep
<1>2. QED
  BY <1>1, GetStep, LegacyAnswersStep, EnsurePrefixStep, IndexPageStep,
     MarkImportedStep, CleanupStep, InterruptedStep DEF Internal, Reading, Listing

(* Every step keeps the invariant.                                         *)
LEMMA NextKeeps ==
  ASSUME IInv, [Next]_vars
  PROVE  IInv'
<1>1. CASE UNCHANGED vars
  <2>1. ReadInv'
    BY <1>1, ReadKept DEF vars
  <2>2. TypeOK' /\ RowInv' /\ ListInv'
    BY <1>1 DEF vars, IInv, TypeOK, RowInv, ListInv, Missing, Indexed, LegacyKeys, Live
  <2>3. QED
    BY <2>1, <2>2 DEF IInv
<1>2. CASE Next
  BY <1>2, BatchStep, DeleteStep, TimePassesStep, InternalStep DEF Next
<1>3. QED
  BY <1>1, <1>2

-----------------------------------------------------------------------------
(* Theorems *)

(* The inductive invariant holds in every reachable state.                 *)
THEOREM Invariance ==
  Spec => []IInv
<1>1. Init => IInv
  BY InitIInv
<1>2. IInv /\ [Next]_vars => IInv'
  BY NextKeeps
<1>3. QED
  BY <1>1, <1>2, PTL DEF Spec

(* Every variable keeps its type.                                          *)
THEOREM TypeCorrect ==
  Spec => []TypeOK
<1>1. IInv => TypeOK
  BY DEF IInv
<1>2. QED
  BY <1>1, Invariance, PTL

(* Once the old prefix is marked, list and get agree on every key.         *)
THEOREM ListingsAreComplete ==
  Spec => []ListAgreesWithGet
<1>1. ASSUME IInv
      PROVE  ListAgreesWithGet
  <2> SUFFICES ASSUME imported, NEW k \in Keys
               PROVE  Listed(k) <=> View(k) # None
    BY DEF ListAgreesWithGet
  <2>1. CASE Missing(k)
    <3>1. ~Listed(k) /\ View(k) = FromLegacy(k)
      BY <2>1 DEF Listed, View, Missing
    <3>2. k \in LegacyKeys => ~Live(Legacy[k].expires)
      BY <1>1, <2>1 DEF IInv, ListInv
    <3>3. QED
      BY <3>1, <3>2 DEF FromLegacy
  <2>2. CASE Indexed(k)
    <3>1. View(k) = FromLegacy(k) /\ k \in LegacyKeys /\ table[k].expires = Legacy[k].expires
      BY <1>1, <2>2, UnreadHolds DEF IInv, RowInv
    <3>2. Adopted(k) # None
      BY <3>1, LegacyFacts
    <3>3. QED
      BY <2>2, <3>1, <3>2 DEF Listed, Indexed, FromLegacy
  <2>3. CASE ~Missing(k) /\ ~Indexed(k)
    BY <2>3 DEF View, Indexed, Listed, Missing
  <2>4. QED
    BY <2>1, <2>2, <2>3
<1>2. QED
  BY <1>1, Invariance, PTL

(* The store is a map: only batches, deletes and the end of a time change  *)
(* what a key holds, each as the map says, and an import the deadline of   *)
(* an old value that nobody has touched.                                   *)
THEOREM StoreIsAMap ==
  Spec => ImplementsKeyValue
<1>1. IInv /\ [Next]_vars =>
        [/\ \A keys \in SUBSET Keys, deadline \in Deadlines :
              \A value \in [keys -> Written] :
                Batch(keys, value, deadline) => KV!Write(keys, value, deadline)
         /\ \A k \in Keys : Delete(k) => KV!Delete(k)
         /\ TimePasses => KV!Tick
         /\ Internal => KV!Idle \/ \E k \in Keys : LastsFromNow(k)]_vars
  <2> SUFFICES ASSUME IInv
               PROVE  /\ \A keys \in SUBSET Keys, deadline \in Deadlines :
                           \A value \in [keys -> Written] :
                             Batch(keys, value, deadline) => KV!Write(keys, value, deadline)
                      /\ \A k \in Keys : Delete(k) => KV!Delete(k)
                      /\ TimePasses => KV!Tick
                      /\ Internal => KV!Idle \/ \E k \in Keys : LastsFromNow(k)
    OBVIOUS
  <2>1. ASSUME NEW keys \in SUBSET Keys, NEW deadline \in Deadlines,
               NEW value \in [keys -> Written], Batch(keys, value, deadline)
        PROVE  KV!Write(keys, value, deadline)
    BY <2>1, BatchStep
  <2>2. ASSUME NEW k \in Keys, Delete(k)
        PROVE  KV!Delete(k)
    BY <2>2, DeleteStep
  <2>3. TimePasses => KV!Tick
    BY TimePassesStep
  <2>4. Internal => KV!Idle \/ \E k \in Keys : LastsFromNow(k)
    BY InternalStep
  <2>5. QED
    BY <2>1, <2>2, <2>3, <2>4
<1>2. QED
  BY <1>1, Invariance, PTL DEF Spec, ImplementsKeyValue

(* An import answers what its key holds, whatever was written meanwhile.   *)
THEOREM ReadsAreCurrent ==
  Spec => ReadIsCurrent
<1>1. IInv /\ [Next]_vars =>
        [\A r \in Readers, k \in Keys :
           reader[r].key = k /\ ImportValue(r) =>
             answer'[r] = View(k)' \/ ~Live(table[k].expires)]_vars
  BY ImportValueStep
<1>2. QED
  BY <1>1, Invariance, PTL DEF Spec, ReadIsCurrent
=============================================================================
