------------------------------ MODULE KVStore ------------------------------
(***************************************************************************)
(* The key-value store of the server (src/kv): a bounded write-back cache  *)
(* of values, with an LRU list, over the SQL table kv_store.               *)
(*                                                                         *)
(* A critical section of KVStore::mutex_ is one step and a SQL statement   *)
(* is one step (Database::databaseLock serialises statements); everything  *)
(* between two of them may be interleaved with other threads.              *)
(***************************************************************************)
EXTENDS Integers, Sequences, FiniteSets

CONSTANTS
    Key,         \* fully scoped keys ("player.7.coins")
    Val,         \* values a client stores
    Thread,      \* threads that use the store (dispatcher, pool threads)
    Absent,      \* no entry in the cache / no row in kv_store
    Deleted,     \* ValueWrapper::deleted(), the tombstone remove() stores
    MAX_SIZE,    \* KVStore::MAX_SIZE
    Access,      \* Access[k]: the threads whose code uses key k
    Removable,   \* keys some client removes
    ForceLoaded, \* keys some client reads with forceLoad = true
    DbMayFail    \* whether a write statement may fail for good

ASSUME MaxSizeAssumption == MAX_SIZE \in Nat \ {0}

ASSUME KVConstantsAssumption ==
    /\ Absent # Deleted /\ Absent \notin Val /\ Deleted \notin Val
    /\ Access \in [Key -> SUBSET Thread]
    /\ Removable \subseteq Key /\ ForceLoaded \subseteq Key
    /\ DbMayFail \in BOOLEAN

VARIABLES
    store,     \* store_: the value cached for a key, Absent if there is none
    lruQueue,  \* lruQueue_: most recently set key first
    db,        \* the rows of kv_store
    op,        \* the call each thread is in, and where it is in it
    todo,      \* entries a thread has copied out of the cache and still has to
               \* write to kv_store: the evicted one, or saveAll's copy of all
    latest,    \* history: the value last set (or removed) for each key
    seen,      \* history: what a get in progress may correctly return
    dbFailed   \* history: some write statement has failed

vars == <<store, lruQueue, db, op, todo, latest, seen, dbFailed>>

-----------------------------------------------------------------------------
Entry == Val \cup {Deleted, Absent}
Row   == Val \cup {Absent}

\* What a reader is told about an entry: a tombstone reads as "no value", and
\* is written to the table by deleting the row.
Live(v) == IF v = Deleted THEN Absent ELSE v

Cached == {k \in Key : store[k] # Absent}

NoTodo == [k \in Key |-> Absent]

\* "load": get has missed and is about to SELECT the row. "fill": get has read
\* a row and is about to set() it. "ret": get is about to return. "saveAll":
\* writing the copy of the store, about to return once todo is empty.
Call == [pc : {"idle", "load", "fill", "ret", "saveAll"},
         key : Key \cup {Absent}, val : Entry]

Idle == [pc |-> "idle", key |-> Absent, val |-> Absent]

TypeOK ==
    /\ store \in [Key -> Entry]
    /\ lruQueue \in Seq(Key)
    /\ db \in [Key -> Row]
    /\ op \in [Thread -> Call]
    /\ \A t \in Thread : op[t].pc \in {"load", "fill", "ret"} => op[t].key \in Key
    /\ \A t \in Thread : op[t].pc = "fill" => op[t].val \in Val
    /\ \A t \in Thread : op[t].pc = "ret" => op[t].val \in Row
    /\ todo \in [Thread -> [Key -> Entry]]
    /\ latest \in [Key -> Entry]
    /\ seen \in [Thread -> SUBSET Row]
    /\ dbFailed \in BOOLEAN

Init ==
    /\ db \in [Key -> Row]
    /\ store = NoTodo
    /\ lruQueue = <<>>
    /\ op = [t \in Thread |-> Idle]
    /\ todo = [t \in Thread |-> NoTodo]
    /\ latest = db
    /\ seen = [t \in Thread |-> {}]
    /\ dbFailed = FALSE

\* lruQueue_.remove(key). A key occurs at most once in the list (see
\* LruMatchesStore), so removing every occurrence is removing one.
Without(q, k) ==
    IF \E i \in DOMAIN q : q[i] = k
    THEN LET p == CHOOSE i \in DOMAIN q : q[i] = k
         IN  [i \in 1 .. Len(q) - 1 |-> IF i < p THEN q[i] ELSE q[i + 1]]
    ELSE q

\* Mutant of Full: room is made one entry too late.
FullTooLate == Cardinality(Cached) > MAX_SIZE

Full == Cardinality(Cached) >= MAX_SIZE

\* The key std::prev(lruQueue_.end()) points at.
Last == lruQueue[Len(lruQueue)]

\* Mutant of SetLocked: the evicted entry is dropped instead of being saved.
SetLockedDropsEvicted(t, k, v) ==
    /\ lruQueue' = <<k>> \o Without(IF Full THEN SubSeq(lruQueue, 1, Len(lruQueue) - 1)
                                            ELSE lruQueue, k)
    /\ store' = [(IF Full THEN [store EXCEPT ![Last] = Absent] ELSE store) EXCEPT ![k] = v]
    /\ UNCHANGED todo

\* The critical section of setLocked: when the cache is full the last key of
\* the list makes room (even if k itself is cached already), and the thread
\* leaves the mutex with the evicted entry still to be saved.
SetLocked(t, k, v) ==
    LET queue == IF Full THEN SubSeq(lruQueue, 1, Len(lruQueue) - 1) ELSE lruQueue
        rest  == IF Full THEN [store EXCEPT ![Last] = Absent] ELSE store
    IN  /\ lruQueue' = <<k>> \o Without(queue, k)
        /\ store' = [rest EXCEPT ![k] = v]
        /\ todo' = IF Full
                   THEN [todo EXCEPT ![t] = [NoTodo EXCEPT ![Last] = store[Last]]]
                   ELSE todo

Free(t) == op[t] = Idle /\ todo[t] = NoTodo

\* History: v is now the latest value of k, and any get of k that is in
\* progress may return either what was or what is.
Publish(k, v) ==
    /\ latest' = [latest EXCEPT ![k] = v]
    /\ seen' = [u \in Thread |->
                  IF op[u].pc \in {"load", "fill", "ret"} /\ op[u].key = k
                  THEN seen[u] \cup {Live(v)} ELSE seen[u]]

\* KVStore::set.
Set(t, k, v) ==
    /\ Free(t)
    /\ t \in Access[k]
    /\ SetLocked(t, k, v)
    /\ Publish(k, v)
    /\ UNCHANGED <<db, op, dbFailed>>

\* KV::remove: a set of the tombstone.
Remove(t, k) ==
    /\ Free(t)
    /\ t \in Access[k] /\ k \in Removable
    /\ SetLocked(t, k, Deleted)
    /\ Publish(k, Deleted)
    /\ UNCHANGED <<db, op, dbFailed>>

\* Mutant of Get: the cache is not consulted.
GetIgnoresCache(t, k, forceLoad) ==
    /\ Free(t)
    /\ t \in Access[k]
    /\ op' = [op EXCEPT ![t] = [pc |-> "load", key |-> k, val |-> Absent]]
    /\ seen' = [seen EXCEPT ![t] = {Live(latest[k])}]
    /\ UNCHANGED <<store, lruQueue, db, todo, latest, dbFailed>>

\* KVStore::get up to the release of the mutex: a live cached value is the
\* answer (the LRU list is not touched), anything else goes to the table.
Get(t, k, forceLoad) ==
    /\ Free(t)
    /\ t \in Access[k]
    /\ forceLoad => k \in ForceLoaded
    /\ op' = [op EXCEPT ![t] =
                IF ~forceLoad /\ store[k] \notin {Absent, Deleted}
                THEN [pc |-> "ret", key |-> k, val |-> store[k]]
                ELSE [pc |-> "load", key |-> k, val |-> Absent]]
    /\ seen' = [seen EXCEPT ![t] = {Live(latest[k])}]
    /\ UNCHANGED <<store, lruQueue, db, todo, latest, dbFailed>>

\* KVSQL::load: one SELECT, outside the mutex.
Load(t) ==
    /\ op[t].pc = "load"
    /\ LET row == db[op[t].key]
       IN  op' = [op EXCEPT ![t] = [pc |-> IF row = Absent THEN "ret" ELSE "fill",
                                    key |-> op[t].key, val |-> row]]
    /\ UNCHANGED <<store, lruQueue, db, todo, latest, seen, dbFailed>>

\* The set(key, *dbVal) with which get caches the row it read.
Fill(t) ==
    /\ op[t].pc = "fill"
    /\ SetLocked(t, op[t].key, op[t].val)
    /\ op' = [op EXCEPT ![t].pc = "ret"]
    /\ UNCHANGED <<db, latest, seen, dbFailed>>

\* KVSQL::saveAll: getStore() copies the cache under the mutex.
SaveAll(t) ==
    /\ Free(t)
    /\ op' = [op EXCEPT ![t].pc = "saveAll"]
    /\ todo' = [todo EXCEPT ![t] = store]
    /\ UNCHANGED <<store, lruQueue, db, latest, seen, dbFailed>>

\* Mutant of Write: what is left of the batch is dropped after one statement.
WriteOneStatement(t, S) ==
    /\ S # {} /\ \A k \in S : todo[t][k] \notin {Absent, Deleted}
    /\ db' = [k \in Key |-> IF k \in S THEN todo[t][k] ELSE db[k]]
    /\ todo' = [todo EXCEPT ![t] = NoTodo]
    /\ UNCHANGED <<store, lruQueue, op, latest, seen, dbFailed>>

\* Mutant of Write: a tombstone is written as a row instead of deleting one.
WriteKeepsTombstone(t, S) ==
    /\ S # {} /\ \A k \in S : todo[t][k] # Absent
    /\ db' = [k \in Key |-> IF k \in S THEN todo[t][k] ELSE db[k]]
    /\ todo' = [todo EXCEPT ![t] = [k \in Key |-> IF k \in S THEN Absent ELSE todo[t][k]]]
    /\ UNCHANGED <<store, lruQueue, op, latest, seen, dbFailed>>

\* One write statement of KVSQL::save or KVSQL::saveAll: the DELETE of one
\* tombstoned key, or an INSERT ... ON DUPLICATE KEY UPDATE of the rows S.
Write(t, S) ==
    /\ S # {}
    /\ \A k \in S : todo[t][k] # Absent
    /\ \/ \E k \in S : S = {k} /\ todo[t][k] = Deleted
       \/ \A k \in S : todo[t][k] # Deleted
    /\ db' = [k \in Key |-> IF k \in S THEN Live(todo[t][k]) ELSE db[k]]
    /\ todo' = [todo EXCEPT ![t] = [k \in Key |-> IF k \in S THEN Absent ELSE todo[t][k]]]
    /\ UNCHANGED <<store, lruQueue, op, latest, seen, dbFailed>>

\* A write statement fails for good. setLocked ignores what save returns, and
\* saveAll gives up on the rest; executeWithinTransaction turns the failure
\* of its body into success, so neither caller learns of it.
WriteFails(t) ==
    /\ DbMayFail
    /\ todo[t] # NoTodo
    /\ todo' = [todo EXCEPT ![t] = NoTodo]
    /\ dbFailed' = TRUE
    /\ UNCHANGED <<store, lruQueue, db, op, latest, seen>>

\* get or saveAll returns to its caller.
Return(t) ==
    /\ op[t].pc \in {"ret", "saveAll"}
    /\ todo[t] = NoTodo
    /\ op' = [op EXCEPT ![t] = Idle]
    /\ seen' = [seen EXCEPT ![t] = {}]
    /\ UNCHANGED <<store, lruQueue, db, todo, latest, dbFailed>>

\* The process dies and is started again: only the table survives.
Crash ==
    /\ store' = NoTodo
    /\ lruQueue' = <<>>
    /\ op' = [t \in Thread |-> Idle]
    /\ todo' = [t \in Thread |-> NoTodo]
    /\ latest' = db
    /\ seen' = [t \in Thread |-> {}]
    /\ UNCHANGED <<db, dbFailed>>

Next ==
    \/ \E t \in Thread, k \in Key :
         \/ \E v \in Val : Set(t, k, v)
         \/ Remove(t, k)
         \/ \E forceLoad \in BOOLEAN : Get(t, k, forceLoad)
    \/ \E t \in Thread :
         \/ Load(t)
         \/ Fill(t)
         \/ SaveAll(t)
         \/ \E S \in SUBSET Key : Write(t, S)
         \/ WriteFails(t)
         \/ Return(t)
    \/ Crash

Spec == Init /\ [][Next]_vars

-----------------------------------------------------------------------------
(***************************************************************************)
(* Properties.                                                             *)
(***************************************************************************)

NoRepeats(q) == \A i, j \in DOMAIN q : q[i] = q[j] => i = j

Elements(q) == {q[i] : i \in DOMAIN q}

\* The LRU list and the cache describe the same keys, each listed once, and
\* the cache never outgrows MAX_SIZE, whatever setLocked, get's fill and
\* eviction do on any number of threads. (store_ keeps an iterator into the
\* list per key, and eviction indexes store_ by the last key of the list: a
\* list out of step with the cache evicts the wrong entry or invents one.)
LruMatchesStore ==
    /\ NoRepeats(lruQueue)
    /\ Elements(lruQueue) = Cached
    /\ Len(lruQueue) <= MAX_SIZE

\* Keys whose clients neither remove them nor read them with forceLoad.
Plain == Key \ (Removable \cup ForceLoaded)

\* The value of a key is wherever the write-back protocol has put it: in the
\* cache, else in a thread's hands between eviction and save, else in the row.
Holders(k) == {t \in Thread : op[t].pc # "saveAll" /\ todo[t][k] # Absent}

Holds(k, v) ==
    \/ store[k] = v /\ v # Absent
    \/ store[k] = Absent /\ \E t \in Holders(k) : todo[t][k] = v
    \/ store[k] = Absent /\ Holders(k) = {} /\ db[k] = v

\* No update is lost: as long as no statement has failed, the store still
\* holds the value last set for every plain key, through eviction, reload from
\* the table and saveAll.
NoLostUpdate == ~dbFailed => \A k \in Plain : Holds(k, latest[k])

\* A get returns a value that was the latest one at some moment of the call.
GetIsCurrent ==
    ~dbFailed => \A t \in Thread :
        op[t].pc = "ret" /\ op[t].key \in Plain => op[t].val \in seen[t]

\* When saveAll is about to return and no statement has failed, the table has
\* the latest value of every plain key: nothing set before the save is lost
\* by a crash after it.
SaveAllIsDurable ==
    ~dbFailed => \A t \in Thread :
        op[t].pc = "saveAll" /\ todo[t] = NoTodo
            => \A k \in Plain : db[k] = latest[k]

\* What tests/unit/kv/kv_test.cpp:125 expects of the store ("Removing an
\* element"): a key that was removed has no value.
RemovedHasNoValue ==
    \A t \in Thread : op[t].pc = "ret" /\ seen[t] = {Absent} => op[t].val = Absent
=============================================================================
