----------------------------- MODULE DurableStore -----------------------------
(***************************************************************************)
(* The store of the coordinator (src/src/storage.js): a table of rows over *)
(* the key-value namespace of an older version, which is read and never    *)
(* written.  A legacy value becomes a row when its key is first read.  A   *)
(* listing first indexes the legacy keys, page by page, as rows without a  *)
(* value.  A deleted key keeps a row, so that its legacy value stays dead. *)
(*                                                                         *)
(* A statement of SQL is atomic.  Reads of the old namespace are not:      *)
(* handlers outside the coordinator's queue (downloads, portal pages,      *)
(* groups) run between the two halves of get and of ensurePrefix.          *)
(***************************************************************************)
EXTENDS Integers, FiniteSets

CONSTANTS
  Keys,
  LocalKeys,     \* keys never imported: "v2:" and "session:"
  PurgedKeys,    \* of these the "v2:" keys, whose expired rows are purged
  JobKeys,       \* legacy keys of broadcast jobs
  Values,
  Written,       \* the values that handlers write
  Paused,        \* what a job becomes when it is imported
  None,          \* the absence of a value, a row or a deadline
  Legacy,        \* the old namespace: values and deadlines
  Readers,       \* handlers that may be reading at the same time
  Listers,       \* handlers that may be listing at the same time
  MaxTime        \* bound: ticks of the clock

Row   == [value : Values \union {None}, expires : Nat \union {None}, deleted : BOOLEAN]
Entry == [value : Values, expires : Nat \union {None}]

ASSUME StoreAssumption ==
  /\ PurgedKeys \subseteq LocalKeys /\ LocalKeys \subseteq Keys
  /\ JobKeys \subseteq Keys
  /\ Written \subseteq Values
  /\ Paused \in [Values -> Values]
  /\ None \notin Keys \union Values \union Nat \union Row \union Entry /\ None # {}
  /\ Legacy \in [Keys -> Entry \union {None}]
  /\ MaxTime \in Nat

VARIABLES
  table,       \* panel_kv: a row or None
  imported,    \* panel_imports: whether the legacy prefix is indexed
  clock,
  reader,      \* the key a get is importing and what the old namespace answered
  answer,      \* what the last get of each reader returned
  lister       \* the legacy keys an ensurePrefix has still to index, or None

vars == <<table, imported, clock, reader, answer, lister>>

NoRead == [key |-> None, stage |-> "idle", raw |-> None]

-----------------------------------------------------------------------------
Live(deadline) == deadline = None \/ deadline > clock

(* What the old namespace answers for a key; active jobs arrive paused.    *)
LegacyKeys == {k \in Keys \ LocalKeys : Legacy[k] # None}
Adopted(k) == IF k \in JobKeys THEN Paused[Legacy[k].value] ELSE Legacy[k].value
FromLegacy(k) == IF k \in LegacyKeys /\ Live(Legacy[k].expires) THEN Adopted(k) ELSE None

Missing(k)  == table[k] = None
Indexed(k)  == table[k] # None /\ ~table[k].deleted /\ table[k].value = None
Listed(k)   == table[k] # None /\ ~table[k].deleted /\ Live(table[k].expires)

(* What a key holds.                                                       *)
View(k) ==
  IF Missing(k) THEN FromLegacy(k)
  ELSE IF ~Listed(k) THEN None
  ELSE IF Indexed(k) THEN FromLegacy(k)
  ELSE table[k].value

Init ==
  /\ table = [k \in Keys |-> None]
  /\ imported = FALSE
  /\ clock = 0
  /\ reader = [r \in Readers |-> NoRead]
  /\ answer = [r \in Readers |-> None]
  /\ lister = [l \in Listers |-> None]

-----------------------------------------------------------------------------
(* Writing *)

ValueRow(value, deadline) == [value |-> value, expires |-> deadline, deleted |-> FALSE]
Tombstone == [value |-> None, expires |-> None, deleted |-> TRUE]

(* put and batch: rows are replaced in one transaction.                    *)
Batch(keys, value, deadline) ==
  /\ table' = [k \in Keys |-> IF k \in keys THEN ValueRow(value[k], deadline) ELSE table[k]]
  /\ UNCHANGED <<imported, clock, reader, answer, lister>>

Delete(k) ==
  /\ table' = [table EXCEPT ![k] = Tombstone]
  /\ UNCHANGED <<imported, clock, reader, answer, lister>>

Cleanup_AllKeys ==
  /\ table' = [k \in Keys |-> IF ~Missing(k) /\ ~Live(table[k].expires) THEN None ELSE table[k]]
  /\ UNCHANGED <<imported, clock, reader, answer, lister>>

(* Purges expired rows of keys that are never imported.                    *)
Cleanup ==
  /\ table' = [k \in Keys |->
                 IF k \in PurgedKeys /\ ~Missing(k) /\ ~Live(table[k].expires)
                 THEN None ELSE table[k]]
  /\ UNCHANGED <<imported, clock, reader, answer, lister>>

-----------------------------------------------------------------------------
(* Reading *)

(* A row with a value, a tombstone or an expired row answers at once, and  *)
(* so does a local key without a row.                                      *)
Get(r, k) ==
  /\ reader[r] = NoRead
  /\ IF (Missing(k) /\ k \notin LocalKeys) \/ (Indexed(k) /\ Listed(k))
     THEN /\ reader' = [reader EXCEPT ![r] = [key |-> k, stage |-> "asking", raw |-> None]]
          /\ UNCHANGED answer
     ELSE /\ answer' = [answer EXCEPT ![r] = View(k)]
          /\ UNCHANGED reader
  /\ UNCHANGED <<table, imported, clock, lister>>

LegacyAnswers(r) ==
  /\ reader[r].stage = "asking"
  /\ reader' = [reader EXCEPT ![r].stage = "answered", ![r].raw = FromLegacy(reader[r].key)]
  /\ UNCHANGED <<table, imported, clock, answer, lister>>

(* The row that importValue stores: a value without a deadline, or a       *)
(* tombstone.                                                              *)
ImportedRow_NoTombstone(raw) == ValueRow(raw, None)

ImportedRow(raw) == IF raw = None THEN Tombstone ELSE ValueRow(raw, None)

ImportValue_Unguarded(r) ==
  LET k == reader[r].key
      raw == reader[r].raw IN
  /\ reader[r].stage = "answered"
  /\ table' = [table EXCEPT ![k] = ImportedRow(raw)]
  /\ answer' = [answer EXCEPT ![r] = raw]
  /\ reader' = [reader EXCEPT ![r] = NoRead]
  /\ UNCHANGED <<imported, clock, lister>>

ImportValue_AnswersRaw(r) ==
  LET k == reader[r].key
      raw == reader[r].raw IN
  /\ reader[r].stage = "answered"
  /\ table' = IF Missing(k) \/ Indexed(k) THEN [table EXCEPT ![k] = ImportedRow(raw)] ELSE table
  /\ answer' = [answer EXCEPT ![r] = raw]
  /\ reader' = [reader EXCEPT ![r] = NoRead]
  /\ UNCHANGED <<imported, clock, lister>>

(* A value or a tombstone written while the old namespace was read wins.   *)
ImportValue(r) ==
  LET k == reader[r].key
      raw == reader[r].raw IN
  /\ reader[r].stage = "answered"
  /\ IF Missing(k) \/ Indexed(k)
     THEN /\ table' = [table EXCEPT ![k] = ImportedRow(raw)]
          /\ answer' = [answer EXCEPT ![r] = raw]
     ELSE /\ answer' = [answer EXCEPT ![r] = table[k].value]
          /\ UNCHANGED table
  /\ reader' = [reader EXCEPT ![r] = NoRead]
  /\ UNCHANGED <<imported, clock, lister>>

-----------------------------------------------------------------------------
(* Listing: ensurePrefix indexes the legacy keys that are still alive, and *)
(* marks the prefix when all pages are done.                               *)

EnsurePrefix_Sessions(l) ==
  /\ ~imported
  /\ lister[l] = None
  /\ lister' = [lister EXCEPT ![l] = {k \in Keys : Legacy[k] # None}]
  /\ UNCHANGED <<table, imported, clock, reader, answer>>

EnsurePrefix(l) ==
  /\ ~imported
  /\ lister[l] = None
  /\ lister' = [lister EXCEPT ![l] = {k \in LegacyKeys : Live(Legacy[k].expires)}]
  /\ UNCHANGED <<table, imported, clock, reader, answer>>

IndexRow(k) == [value |-> None, expires |-> Legacy[k].expires, deleted |-> FALSE]

(* INSERT OR IGNORE: a key that has a row keeps it.                        *)
IndexPage(l, page) ==
  /\ lister[l] # None
  /\ page # {} /\ page \subseteq lister[l]
  /\ table' = [k \in Keys |-> IF k \in page /\ Missing(k) THEN IndexRow(k) ELSE table[k]]
  /\ lister' = [lister EXCEPT ![l] = @ \ page]
  /\ UNCHANGED <<imported, clock, reader, answer>>

MarkImported(l) ==
  /\ lister[l] = {}
  /\ imported' = TRUE
  /\ lister' = [lister EXCEPT ![l] = None]
  /\ UNCHANGED <<table, clock, reader, answer>>

-----------------------------------------------------------------------------
(* The environment *)

TimePasses ==
  /\ clock < MaxTime
  /\ clock' = clock + 1
  /\ UNCHANGED <<table, imported, reader, answer, lister>>

(* The old namespace rejects a read, or an eviction ends every handler:    *)
(* handlers end between two of their steps.  Rows and marks stay.          *)
Interrupted(readers, listers) ==
  /\ reader' = [r \in Readers |-> IF r \in readers THEN NoRead ELSE reader[r]]
  /\ lister' = [l \in Listers |-> IF l \in listers THEN None ELSE lister[l]]
  /\ UNCHANGED <<table, imported, clock, answer>>

Deadlines == {None, clock + 1}

Reading ==
  \E r \in Readers :
    \/ \E k \in Keys : Get(r, k)
    \/ LegacyAnswers(r)
    \/ ImportValue(r)

Listing ==
  \E l \in Listers :
    \/ EnsurePrefix(l)
    \/ \E page \in SUBSET LegacyKeys : IndexPage(l, page)
    \/ MarkImported(l)

Internal ==
  \/ Reading
  \/ Listing
  \/ Cleanup
  \/ \E readers \in SUBSET Readers, listers \in SUBSET Listers : Interrupted(readers, listers)

Next ==
  \/ \E keys \in SUBSET Keys, deadline \in Deadlines :
       \E value \in [keys -> Written] : Batch(keys, value, deadline)
  \/ \E k \in Keys : Delete(k)
  \/ TimePasses
  \/ Internal

Spec == Init /\ [][Next]_vars

-----------------------------------------------------------------------------
(* Properties *)

ReadRow == [key : Keys \union {None}, stage : {"idle", "asking", "answered"},
            raw : Values \union {None}]

(* Every variable keeps its type.                                          *)
TypeOK ==
  /\ table \in [Keys -> Row \union {None}]
  /\ imported \in BOOLEAN
  /\ clock \in 0 .. MaxTime
  /\ reader \in [Readers -> ReadRow]
  /\ answer \in [Readers -> Values \union {None}]
  /\ lister \in [Listers -> (SUBSET LegacyKeys) \union {None}]

Held(k) ==
  IF View(k) = None THEN None
  ELSE [value |-> View(k), expires |-> IF Missing(k) THEN Legacy[k].expires ELSE table[k].expires]

KV == INSTANCE KeyValue WITH store <- [k \in Keys |-> Held(k)]

(* An import keeps no deadline: an old value that no handler has written   *)
(* over or deleted becomes a lasting one, even if its time was over since  *)
(* it was read.                                                            *)
LastsFromNow(k) ==
  /\ k \in LegacyKeys /\ Legacy[k].expires # None
  /\ Missing(k) \/ Indexed(k)
  /\ KV!Write({k}, [j \in {k} |-> Adopted(k)], None)

(* The store is a map: a batch writes exactly its keys, a delete empties   *)
(* its key, time ends what is over, and everything else - imports,         *)
(* listings, purges, interruptions - changes nothing a key holds, however  *)
(* they interleave, but for the deadline an untouched old value loses.  So *)
(* no old value overwrites a newer one or comes back after a deletion.     *)
ImplementsKeyValue ==
  [][/\ \A keys \in SUBSET Keys, deadline \in Deadlines :
          \A value \in [keys -> Written] :
            Batch(keys, value, deadline) => KV!Write(keys, value, deadline)
     /\ \A k \in Keys : Delete(k) => KV!Delete(k)
     /\ TimePasses => KV!Tick
     /\ Internal => KV!Idle \/ \E k \in Keys : LastsFromNow(k)]_vars

(* A get that had to ask the old namespace answers what the key holds when *)
(* it returns, unless what was written meanwhile has expired again.        *)
ReadIsCurrent ==
  [][\A r \in Readers, k \in Keys :
       reader[r].key = k /\ ImportValue(r) =>
         answer'[r] = View(k)' \/ ~Live(table[k].expires)]_vars

(* Once a prefix is marked, list shows exactly the keys that get finds:    *)
(* no legacy key is forgotten and no dead one is shown.                    *)
ListAgreesWithGet ==
  imported => \A k \in Keys : Listed(k) <=> View(k) # None
=============================================================================
