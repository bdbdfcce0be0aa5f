--------------------------- MODULE KVStoreProofs ---------------------------
(***************************************************************************)
(* Proofs about KVStore, for any number of keys, values and threads: its   *)
(* types, that the LRU list and the cache agree, and, for threads that do  *)
(* not share keys, that no update is lost, that a get is current and that  *)
(* saveAll is durable.                                                     *)
(***************************************************************************)
EXTENDS KVStore, FunctionTheorems, FiniteSetTheorems, TLAPS

-----------------------------------------------------------------------------
(* The list operations of setLocked. *)

\* lruQueue_.remove(key) removes the key and nothing else.
LEMMA WithoutRemoves ==
    ASSUME NEW q \in Seq(Key), NEW k \in Key, NoRepeats(q)
    PROVE  /\ Without(q, k) \in Seq(Key)
           /\ NoRepeats(Without(q, k))
           /\ Elements(Without(q, k)) = Elements(q) \ {k}
           /\ Len(Without(q, k)) <= Len(q)
<1>1. CASE ~ \E i \in DOMAIN q : q[i] = k
    BY <1>1 DEF Without, Elements
<1>2. CASE \E i \in DOMAIN q : q[i] = k
    <2> DEFINE p == CHOOSE i \in DOMAIN q : q[i] = k
               w == [i \in 1 .. Len(q) - 1 |-> IF i < p THEN q[i] ELSE q[i + 1]]
    <2>1. p \in 1 .. Len(q) /\ q[p] = k
        BY <1>2
    <2>2. Without(q, k) = w
        BY <1>2 DEF Without
    <2> HIDE DEF p
    <2>3. Len(q) \in Nat /\ DOMAIN q = 1 .. Len(q) /\ \A i \in 1 .. Len(q) : q[i] \in Key
        OBVIOUS
    <2>4. w \in Seq(Key) /\ Len(w) = Len(q) - 1 /\ DOMAIN w = 1 .. Len(q) - 1
        BY <2>1, <2>3
    <2>5. NoRepeats(w)
        BY <2>1, <2>3, <2>4 DEF NoRepeats
    <2>6. Elements(w) = Elements(q) \ {k}
        <3>1. ASSUME NEW x \in Elements(w) PROVE x \in Elements(q) \ {k}
            <4>1. PICK i \in 1 .. Len(q) - 1 : x = w[i]
                BY <2>4, <3>1 DEF Elements
            <4>2. PICK j \in 1 .. Len(q) : j # p /\ x = q[j]
                BY <4>1, <2>1, <2>3
            <4>3. q[j] # q[p]
                BY <4>2, <2>1, <2>3 DEF NoRepeats
            <4> QED
                BY <4>2, <4>3, <2>1, <2>3 DEF Elements
        <3>2. ASSUME NEW x \in Elements(q) \ {k} PROVE x \in Elements(w)
            <4>1. PICK j \in 1 .. Len(q) : x = q[j]
                BY <2>3, <3>2 DEF Elements
            <4>2. j # p
                BY <4>1, <3>2, <2>1
            <4>3. \E i \in 1 .. Len(q) - 1 : w[i] = q[j]
                <5>1. CASE j < p
                    BY <5>1, <2>1, <2>3
                <5>2. CASE j > p
                    <6>1. j - 1 \in 1 .. Len(q) - 1 /\ ~(j - 1 < p) /\ (j - 1) + 1 = j
                        BY <5>2, <2>1, <2>3
                    <6> QED
                        BY <6>1
                <5> QED
                    BY <5>1, <5>2, <4>2, <2>1, <2>3
            <4> QED
                BY <4>1, <4>3, <2>4 DEF Elements
        <3> QED
            BY <3>1, <3>2
    <2> HIDE DEF w
    <2> QED
        BY <2>2, <2>3, <2>4, <2>5, <2>6
<1> QED
    BY <1>1, <1>2

\* lruQueue_.pop_back() removes the last key and nothing else.
LEMMA PopBackRemoves ==
    ASSUME NEW q \in Seq(Key), NoRepeats(q), Len(q) > 0
    PROVE  LET b == SubSeq(q, 1, Len(q) - 1)
           IN  /\ b \in Seq(Key)
               /\ NoRepeats(b)
               /\ Elements(b) = Elements(q) \ {q[Len(q)]}
               /\ Len(b) = Len(q) - 1
<1> DEFINE b == SubSeq(q, 1, Len(q) - 1)
<1>1. Len(q) \in Nat \ {0} /\ DOMAIN q = 1 .. Len(q) /\ \A i \in 1 .. Len(q) : q[i] \in Key
    OBVIOUS
<1>2. \A i \in 1 .. Len(q) - 1 : q[i] \in Key
    BY <1>1
<1>3. b \in Seq(Key) /\ Len(b) = Len(q) - 1 /\ \A i \in 1 .. Len(q) - 1 : b[i] = q[i]
    BY <1>1, <1>2
<1> HIDE DEF b
<1>4. DOMAIN b = 1 .. Len(q) - 1
    BY <1>3
<1>5. NoRepeats(b)
    BY <1>1, <1>3, <1>4 DEF NoRepeats
<1>6. Elements(b) = Elements(q) \ {q[Len(q)]}
    BY <1>1, <1>3, <1>4 DEF NoRepeats, Elements
<1> QED
    BY <1>3, <1>5, <1>6 DEF b

\* lruQueue_.push_front(key) of a key that is not in the list.
LEMMA PushFrontAdds ==
    ASSUME NEW q \in Seq(Key), NEW k \in Key, NoRepeats(q), k \notin Elements(q)
    PROVE  LET f == <<k>> \o q
           IN  /\ f \in Seq(Key)
               /\ NoRepeats(f)
               /\ Elements(f) = Elements(q) \cup {k}
               /\ Len(f) = Len(q) + 1
<1> DEFINE f == <<k>> \o q
<1>1. Len(q) \in Nat /\ DOMAIN q = 1 .. Len(q)
    OBVIOUS
<1>2. f \in Seq(Key) /\ Len(f) = Len(q) + 1 /\ DOMAIN f = 1 .. Len(q) + 1
    BY <1>1
<1>3. f[1] = k /\ \A i \in 2 .. Len(q) + 1 : f[i] = q[i - 1]
    BY <1>1
<1> HIDE DEF f
<1>4. \A i \in 2 .. Len(q) + 1 : i - 1 \in DOMAIN q /\ f[i] # k
    BY <1>1, <1>3 DEF Elements
<1>5. NoRepeats(f)
    <2> SUFFICES ASSUME NEW i \in 1 .. Len(q) + 1, NEW j \in 1 .. Len(q) + 1,
                        i # j, f[i] = f[j]
                 PROVE  FALSE
        BY <1>2 DEF NoRepeats
    <2>1. CASE i = 1 \/ j = 1
        BY <2>1, <1>1, <1>3, <1>4
    <2>2. CASE i # 1 /\ j # 1
        <3>1. i - 1 \in DOMAIN q /\ j - 1 \in DOMAIN q /\ q[i - 1] = q[j - 1]
            BY <2>2, <1>1, <1>3
        <3> QED
            BY <3>1 DEF NoRepeats
    <2> QED
        BY <2>1, <2>2
<1>6. Elements(f) = Elements(q) \cup {k}
    <2>1. \A i \in DOMAIN q : i + 1 \in 2 .. Len(q) + 1 /\ f[i + 1] = q[i]
        BY <1>1, <1>3
    <2>2. \A i \in 1 .. Len(q) + 1 : f[i] \in Elements(q) \cup {k}
        BY <1>1, <1>3, <1>4 DEF Elements
    <2>3. 1 \in DOMAIN f /\ \A i \in DOMAIN q : i + 1 \in DOMAIN f
        BY <1>1, <1>2
    <2>4. ASSUME NEW x \in Elements(f) PROVE x \in Elements(q) \cup {k}
        BY <1>2, <2>2, <2>4 DEF Elements
    <2>5. ASSUME NEW x \in Elements(q) PROVE x \in Elements(f)
        <3>1. PICK i \in DOMAIN q : x = q[i]
            BY <2>5 DEF Elements
        <3> QED
            BY <3>1, <2>1, <2>3 DEF Elements
    <2>6. k \in Elements(f)
        BY <1>3, <2>3 DEF Elements
    <2> QED
        BY <2>4, <2>5, <2>6
<1> QED
    BY <1>2, <1>5, <1>6 DEF f

\* A list without repeats is as long as the set of its elements is large.
LEMMA ElementsCounted ==
    ASSUME NEW q \in Seq(Key), NoRepeats(q)
    PROVE  Cardinality(Elements(q)) = Len(q)
<1>1. Len(q) \in Nat /\ DOMAIN q = 1 .. Len(q)
    OBVIOUS
<1>2. q \in [1 .. Len(q) -> Elements(q)]
    BY <1>1 DEF Elements
<1>3. q \in Bijection(1 .. Len(q), Elements(q))
    <2>1. \A a, b \in 1 .. Len(q) : q[a] = q[b] => a = b
        BY <1>1 DEF NoRepeats
    <2>2. \A e \in Elements(q) : \E a \in 1 .. Len(q) : q[a] = e
        BY <1>1 DEF Elements
    <2> QED
        BY <1>2, <2>1, <2>2, Fun_IsBij
<1> QED
    BY <1>1, <1>3, FS_CountingElements DEF ExistsBijection

-----------------------------------------------------------------------------
(* The inductive invariant. Types alone are not inductive: that a full cache *)
(* has a last key to evict needs the agreement of list and cache.            *)

KVInv == TypeOK /\ LruMatchesStore

\* While list and cache agree, a full cache has a last key, and it is cached.
LEMMA FullHasLast ==
    ASSUME KVInv
    PROVE  /\ Full <=> Len(lruQueue) = MAX_SIZE
           /\ Full => Len(lruQueue) > 0 /\ Last \in Key /\ Last \in Cached
<1>1. Len(lruQueue) \in Nat /\ Cardinality(Cached) = Len(lruQueue)
    BY ElementsCounted DEF KVInv, TypeOK, LruMatchesStore
<1>2. Full <=> Len(lruQueue) = MAX_SIZE
    BY <1>1, MaxSizeAssumption DEF Full, KVInv, LruMatchesStore
<1>3. Full => Len(lruQueue) > 0
    BY <1>1, <1>2, MaxSizeAssumption
<1>4. ASSUME Full PROVE Last \in Elements(lruQueue)
    BY <1>1, <1>3, <1>4 DEF Last, Elements, KVInv, TypeOK
<1> QED
    BY <1>2, <1>3, <1>4 DEF Cached, KVInv, LruMatchesStore

\* setLocked keeps the agreement, whichever key it evicts and whichever key
\* (cached or not, perhaps the evicted one) it sets.
LEMMA SetLockedPreserves ==
    ASSUME KVInv, NEW t \in Thread, NEW k \in Key, NEW v \in Val \cup {Deleted},
           SetLocked(t, k, v)
    PROVE  /\ LruMatchesStore'
           /\ store' \in [Key -> Entry]
           /\ lruQueue' \in Seq(Key)
           /\ todo' \in [Thread -> [Key -> Entry]]
<1> DEFINE queue == IF Full THEN SubSeq(lruQueue, 1, Len(lruQueue) - 1) ELSE lruQueue
           rest == IF Full THEN [store EXCEPT ![Last] = Absent] ELSE store
           gone == IF Full THEN {Last} ELSE {}
<1>1. /\ lruQueue' = <<k>> \o Without(queue, k)
      /\ store' = [rest EXCEPT ![k] = v]
      /\ todo' = IF Full
                 THEN [todo EXCEPT ![t] = [NoTodo EXCEPT ![Last] = store[Last]]]
                 ELSE todo
    BY DEF SetLocked
<1>2. TypeOK /\ NoRepeats(lruQueue) /\ Elements(lruQueue) = Cached /\ Len(lruQueue) <= MAX_SIZE
    BY DEF KVInv, LruMatchesStore
<1>3. lruQueue \in Seq(Key) /\ store \in [Key -> Entry] /\ todo \in [Thread -> [Key -> Entry]]
    BY <1>2 DEF TypeOK
<1>4. v \in Entry /\ v # Absent /\ Absent \in Entry
    BY KVConstantsAssumption DEF Entry
<1>5. /\ queue \in Seq(Key) /\ NoRepeats(queue)
      /\ Elements(queue) = Cached \ gone
      /\ Len(queue) + 1 <= MAX_SIZE
    <2>1. CASE Full
        <3>1. Len(lruQueue) > 0 /\ Len(lruQueue) = MAX_SIZE
            BY <2>1, FullHasLast
        <3>2. LET b == SubSeq(lruQueue, 1, Len(lruQueue) - 1)
              IN  /\ b \in Seq(Key) /\ NoRepeats(b)
                  /\ Elements(b) = Elements(lruQueue) \ {lruQueue[Len(lruQueue)]}
                  /\ Len(b) = Len(lruQueue) - 1
            BY <3>1, <1>2, <1>3, PopBackRemoves
        <3> QED
            BY <2>1, <3>1, <3>2, <1>2, MaxSizeAssumption DEF Last
    <2>2. CASE ~Full
        <3>1. Len(lruQueue) # MAX_SIZE /\ Len(lruQueue) \in Nat
            BY <2>2, <1>3, FullHasLast
        <3> QED
            BY <2>2, <3>1, <1>2, <1>3, MaxSizeAssumption
    <2> QED
        BY <2>1, <2>2
<1> HIDE DEF queue
<1>6. /\ Without(queue, k) \in Seq(Key) /\ NoRepeats(Without(queue, k))
      /\ Elements(Without(queue, k)) = Elements(queue) \ {k}
      /\ Len(Without(queue, k)) <= Len(queue)
    BY <1>5, WithoutRemoves
<1>7. /\ lruQueue' \in Seq(Key) /\ NoRepeats(lruQueue')
      /\ Elements(lruQueue') = Elements(Without(queue, k)) \cup {k}
      /\ Len(lruQueue') = Len(Without(queue, k)) + 1
    <2>1. k \notin Elements(Without(queue, k))
        BY <1>6
    <2> QED
        BY <1>1, <1>6, <2>1, PushFrontAdds
<1>8. Len(lruQueue') <= MAX_SIZE
    BY <1>5, <1>6, <1>7, MaxSizeAssumption
<1>9. rest \in [Key -> Entry] /\ \A x \in Key : rest[x] # Absent <=> x \in Cached \ gone
    BY <1>3, <1>4, FullHasLast DEF Cached
<1> HIDE DEF rest, gone
<1>10. store' \in [Key -> Entry] /\ Cached' = (Cached \ gone) \cup {k}
    <2>1. store' \in [Key -> Entry]
        BY <1>1, <1>4, <1>9
    <2>2. \A x \in Key : store'[x] # Absent <=> x \in (Cached \ gone) \cup {k}
        BY <1>1, <1>4, <1>9
    <2>3. Cached \subseteq Key
        BY DEF Cached
    <2> QED
        BY <2>1, <2>2, <2>3 DEF Cached
<1>11. LruMatchesStore'
    BY <1>5, <1>6, <1>7, <1>8, <1>10 DEF LruMatchesStore
<1>12. todo' \in [Thread -> [Key -> Entry]]
    <2>1. CASE Full
        <3>1. Last \in Key
            BY <2>1, FullHasLast
        <3>2. [NoTodo EXCEPT ![Last] = store[Last]] \in [Key -> Entry]
            BY <3>1, <1>3, <1>4 DEF NoTodo
        <3> QED
            BY <2>1, <3>2, <1>1, <1>3
    <2> QED
        BY <2>1, <1>1, <1>3
<1> QED
    BY <1>7, <1>10, <1>11, <1>12

\* The history variables stay typed when a value is published.
LEMMA PublishPreserves ==
    ASSUME TypeOK, NEW k \in Key, NEW v \in Val \cup {Deleted}, Publish(k, v)
    PROVE  latest' \in [Key -> Entry] /\ seen' \in [Thread -> SUBSET Row]
<1>1. v \in Entry /\ Live(v) \in Row
    BY DEF Entry, Row, Live
<1>2. latest' \in [Key -> Entry]
    BY <1>1 DEF TypeOK, Publish
<1>3. \A u \in Thread : seen[u] \cup {Live(v)} \in SUBSET Row /\ seen[u] \in SUBSET Row
    BY <1>1 DEF TypeOK
<1>4. seen' \in [Thread -> SUBSET Row]
    BY <1>3 DEF Publish
<1> QED
    BY <1>2, <1>4

\* A step that leaves list and cache alone leaves their agreement alone.
LEMMA UntouchedPreserves ==
    ASSUME LruMatchesStore, UNCHANGED <<store, lruQueue>>
    PROVE  LruMatchesStore'
BY DEF LruMatchesStore, NoRepeats, Elements, Cached

LEMMA KVInit == Init => KVInv
<1> SUFFICES ASSUME Init PROVE KVInv
    OBVIOUS
<1>1. TypeOK
    <2>1. Idle \in Call /\ Idle.pc = "idle" /\ NoTodo \in [Key -> Entry]
        BY DEF Idle, Call, NoTodo, Entry
    <2>2. db \in [Key -> Row] /\ latest \in [Key -> Entry] /\ dbFailed \in BOOLEAN
        BY DEF Init, Row, Entry
    <2>3. store \in [Key -> Entry] /\ lruQueue \in Seq(Key)
        BY <2>1 DEF Init
    <2>4. /\ op \in [Thread -> Call]
          /\ \A t \in Thread : op[t].pc = "idle"
          /\ todo \in [Thread -> [Key -> Entry]]
          /\ seen \in [Thread -> SUBSET Row]
        BY <2>1 DEF Init
    <2> QED
        BY <2>2, <2>3, <2>4 DEF TypeOK
<1>2. LruMatchesStore
    <2>1. lruQueue = <<>> /\ store = NoTodo
        BY DEF Init
    <2>2. Len(lruQueue) = 0 /\ DOMAIN lruQueue = {} /\ Cached = {}
        BY <2>1 DEF Cached, NoTodo
    <2> QED
        BY <2>2, MaxSizeAssumption DEF LruMatchesStore, NoRepeats, Elements
<1> QED
    BY <1>1, <1>2 DEF KVInv

LEMMA KVNext == KVInv /\ [Next]_vars => KVInv'
<1> SUFFICES ASSUME KVInv, [Next]_vars PROVE KVInv'
    OBVIOUS
<1> USE DEF KVInv
<1> TypeOK /\ LruMatchesStore
    OBVIOUS
<1>1. ASSUME NEW t \in Thread, NEW k \in Key, NEW v \in Val, Set(t, k, v)
      PROVE  KVInv'
    <2>1. SetLocked(t, k, v) /\ Publish(k, v) /\ UNCHANGED <<db, op, dbFailed>>
        BY <1>1 DEF Set
    <2> QED
        BY <2>1, SetLockedPreserves, PublishPreserves DEF TypeOK
<1>2. ASSUME NEW t \in Thread, NEW k \in Key, Remove(t, k)
      PROVE  KVInv'
    <2>1. SetLocked(t, k, Deleted) /\ Publish(k, Deleted) /\ UNCHANGED <<db, op, dbFailed>>
        BY <1>2 DEF Remove
    <2> QED
        BY <2>1, SetLockedPreserves, PublishPreserves DEF TypeOK
<1>3. ASSUME NEW t \in Thread, NEW k \in Key, NEW forceLoad \in BOOLEAN, Get(t, k, forceLoad)
      PROVE  KVInv'
    <2>1. LruMatchesStore'
        BY <1>3, UntouchedPreserves DEF Get
    <2>2. Live(latest[k]) \in Row /\ store[k] \in Entry
        BY DEF TypeOK, Live, Entry, Row
    <2>3. PICK c \in Call : /\ op' = [op EXCEPT ![t] = c]
                            /\ c.key = k
                            /\ c.pc \in {"ret", "load"}
                            /\ c.pc = "ret" => c.val \in Row
        <3>1. CASE ~forceLoad /\ store[k] \notin {Absent, Deleted}
            <4> DEFINE c == [pc |-> "ret", key |-> k, val |-> store[k]]
            <4>1. c \in Call /\ c.key = k /\ c.pc = "ret" /\ c.val \in Row
                BY <2>2, <3>1 DEF Call, Row, Entry
            <4> QED
                BY <4>1, <3>1, <1>3 DEF Get
        <3>2. CASE ~(~forceLoad /\ store[k] \notin {Absent, Deleted})
            <4> DEFINE c == [pc |-> "load", key |-> k, val |-> Absent]
            <4>1. c \in Call /\ c.key = k /\ c.pc = "load"
                BY DEF Call, Entry
            <4> QED
                BY <4>1, <3>2, <1>3 DEF Get
        <3> QED
            BY <3>1, <3>2
    <2>4. op' \in [Thread -> Call]
        BY <2>3 DEF TypeOK
    <2>5. \A u \in Thread : /\ op'[u].pc \in {"load", "fill", "ret"} => op'[u].key \in Key
                            /\ op'[u].pc = "fill" => op'[u].val \in Val
                            /\ op'[u].pc = "ret" => op'[u].val \in Row
        BY <2>3 DEF TypeOK
    <2>6. seen' \in [Thread -> SUBSET Row]
        BY <1>3, <2>2 DEF Get, TypeOK
    <2> QED
        BY <1>3, <2>1, <2>4, <2>5, <2>6 DEF Get, TypeOK
<1>4. ASSUME NEW t \in Thread, Load(t)
      PROVE  KVInv'
    <2>1. LruMatchesStore'
        BY <1>4, UntouchedPreserves DEF Load
    <2> DEFINE row == db[op[t].key]
    <2>2. op[t].key \in Key /\ row \in Row /\ op[t] \in Call
        BY <1>4 DEF Load, TypeOK
    <2>3. op' = [op EXCEPT ![t] = [pc |-> IF row = Absent THEN "ret" ELSE "fill",
                                   key |-> op[t].key, val |-> row]]
        BY <1>4 DEF Load
    <2>4. [pc |-> IF row = Absent THEN "ret" ELSE "fill", key |-> op[t].key, val |-> row] \in Call
        BY <2>2 DEF Call, Row, Entry
    <2>5. row # Absent => row \in Val
        BY <2>2 DEF Row
    <2> HIDE DEF row
    <2>6. /\ op' \in [Thread -> Call]
          /\ \A u \in Thread : /\ op'[u].pc \in {"load", "fill", "ret"} => op'[u].key \in Key
                               /\ op'[u].pc = "fill" => op'[u].val \in Val
                               /\ op'[u].pc = "ret" => op'[u].val \in Row
        BY <2>2, <2>3, <2>4, <2>5 DEF TypeOK
    <2> QED
        BY <1>4, <2>1, <2>6 DEF Load, TypeOK
<1>5. ASSUME NEW t \in Thread, Fill(t)
      PROVE  KVInv'
    <2>1. op[t].key \in Key /\ op[t].val \in Val /\ SetLocked(t, op[t].key, op[t].val)
        BY <1>5 DEF Fill, TypeOK
    <2>2. /\ LruMatchesStore'
          /\ store' \in [Key -> Entry] /\ lruQueue' \in Seq(Key)
          /\ todo' \in [Thread -> [Key -> Entry]]
        BY <2>1, SetLockedPreserves
    <2>3. /\ op' \in [Thread -> Call]
          /\ \A u \in Thread : /\ op'[u].pc \in {"load", "fill", "ret"} => op'[u].key \in Key
                               /\ op'[u].pc = "fill" => op'[u].val \in Val
                               /\ op'[u].pc = "ret" => op'[u].val \in Row
        BY <1>5, <2>1 DEF Fill, TypeOK, Call, Row
    <2> QED
        BY <1>5, <2>2, <2>3 DEF Fill, TypeOK
<1>6. ASSUME NEW t \in Thread, SaveAll(t)
      PROVE  KVInv'
    <2>1. LruMatchesStore'
        BY <1>6, UntouchedPreserves DEF SaveAll
    <2>2. /\ op' \in [Thread -> Call]
          /\ \A u \in Thread : /\ op'[u].pc \in {"load", "fill", "ret"} => op'[u].key \in Key
                               /\ op'[u].pc = "fill" => op'[u].val \in Val
                               /\ op'[u].pc = "ret" => op'[u].val \in Row
        BY <1>6 DEF SaveAll, TypeOK, Call
    <2> QED
        BY <1>6, <2>1, <2>2 DEF SaveAll, TypeOK
<1>7. ASSUME NEW t \in Thread, NEW S \in SUBSET Key, Write(t, S)
      PROVE  KVInv'
    <2>1. LruMatchesStore'
        BY <1>7, UntouchedPreserves DEF Write
    <2>2. \A k \in Key : todo[t][k] \in Entry /\ Live(todo[t][k]) \in Row
        BY DEF TypeOK, Live, Entry, Row
    <2>3. Absent \in Entry
        BY DEF Entry
    <2>4. db' \in [Key -> Row] /\ todo' \in [Thread -> [Key -> Entry]]
        BY <1>7, <2>2, <2>3 DEF Write, TypeOK
    <2> QED
        BY <1>7, <2>1, <2>4 DEF Write, TypeOK
<1>8. ASSUME NEW t \in Thread, WriteFails(t)
      PROVE  KVInv'
    <2>1. LruMatchesStore'
        BY <1>8, UntouchedPreserves DEF WriteFails
    <2>2. NoTodo \in [Key -> Entry]
        BY DEF NoTodo, Entry
    <2> QED
        BY <1>8, <2>1, <2>2 DEF WriteFails, TypeOK
<1>9. ASSUME NEW t \in Thread, Return(t)
      PROVE  KVInv'
    <2>1. LruMatchesStore'
        BY <1>9, UntouchedPreserves DEF Return
    <2>2. Idle \in Call /\ Idle.pc = "idle"
        BY DEF Idle, Call, Entry
    <2>3. /\ op' \in [Thread -> Call]
          /\ \A u \in Thread : /\ op'[u].pc \in {"load", "fill", "ret"} => op'[u].key \in Key
                               /\ op'[u].pc = "fill" => op'[u].val \in Val
                               /\ op'[u].pc = "ret" => op'[u].val \in Row
        BY <1>9, <2>2 DEF Return, TypeOK
    <2> QED
        BY <1>9, <2>1, <2>3 DEF Return, TypeOK
<1>10. CASE Crash
    <2>2. TypeOK'
        BY <1>10 DEF Crash, TypeOK, NoTodo, Idle, Call, Entry, Row
    <2>3. Len(lruQueue') = 0 /\ DOMAIN lruQueue' = {} /\ Cached' = {}
        BY <1>10 DEF Crash, Cached, NoTodo
    <2> QED
        BY <2>2, <2>3, MaxSizeAssumption DEF LruMatchesStore, NoRepeats, Elements
<1>11. CASE UNCHANGED vars
    <2>1. LruMatchesStore'
        BY <1>11, UntouchedPreserves DEF vars
    <2> QED
        BY <1>11, <2>1 DEF vars, TypeOK
<1> QED
    BY <1>1, <1>2, <1>3, <1>4, <1>5, <1>6, <1>7, <1>8, <1>9, <1>10, <1>11 DEF Next

\* Whatever threads do to the store, every variable keeps its type: in
\* particular a get returns a value and never a tombstone, and kv_store never
\* gets a row for a tombstone.
THEOREM TypeCorrect == Spec => []TypeOK
<1>1. KVInv => TypeOK
    BY DEF KVInv
<1> QED
    BY <1>1, KVInit, KVNext, PTL DEF Spec

\* For every capacity and any number of threads, the LRU list lists exactly
\* the cached keys, each once, and the cache stays within MAX_SIZE.
THEOREM LruCorrect == Spec => []LruMatchesStore
<1>1. KVInv => LruMatchesStore
    BY DEF KVInv
<1> QED
    BY <1>1, KVInit, KVNext, PTL DEF Spec

-----------------------------------------------------------------------------
(* No lost update. It does not hold for threads that share keys, or that     *)
(* evict one another's entries (kv_shared_key): a value that is neither in   *)
(* the cache nor in the table is missed by whoever looks for it. It holds    *)
(* for a thread on its own, whatever it evicts, and for threads with keys of *)
(* their own under a cache that never fills.                                 *)

Alone == \A t, u \in Thread : t = u
Private == \A k \in Key : \A t, u \in Access[k] : t = u
Roomy == IsFiniteSet(Key) /\ Cardinality(Key) < MAX_SIZE
UsedApart == Alone \/ (Private /\ Roomy)

\* Where the latest value of a plain key is.
Kept(k) ==
    /\ latest[k] # Deleted
    /\ store[k] # Absent => store[k] = latest[k]
    /\ store[k] = Absent => /\ \A t \in Holders(k) : todo[t][k] = latest[k]
                            /\ Holders(k) = {} => db[k] = latest[k]

\* What a get of k has found so far; nobody else touches k meanwhile.
Got(t, k) ==
    op[t].key = k =>
        /\ op[t].pc \in {"load", "fill"} =>
               /\ store[k] = Absent /\ Holders(k) = {}
               /\ t \in Access[k] /\ Live(latest[k]) \in seen[t]
        /\ op[t].pc = "fill" => op[t].val = latest[k]
        /\ op[t].pc = "ret" => op[t].val \in seen[t]

\* What saveAll has still to write of k is in the cache, too, and if no other
\* thread is there what it has written is the latest value.
Saving(t, k) ==
    op[t].pc = "saveAll" =>
        /\ todo[t][k] # Absent => store[k] # Absent
        /\ Alone => IF todo[t][k] = Absent THEN db[k] = latest[k] ELSE todo[t][k] = store[k]

\* Nothing waits to be saved while a get is on its way, and nothing is ever
\* evicted unless there is one thread.
InCall(t) ==
    /\ op[t].pc \in {"load", "fill"} => todo[t] = NoTodo
    /\ ~Alone => (op[t].pc # "saveAll" => todo[t] = NoTodo)

KVSafe ==
    ~dbFailed => /\ \A k \in Plain : Kept(k) /\ \A t \in Thread : Got(t, k) /\ Saving(t, k)
                 /\ \A t \in Thread : InCall(t)

\* What setLocked does to the entries: k is set, and at most one other entry
\* goes from the cache to the thread's hands.
LEMMA SetLockedFacts ==
    ASSUME KVInv, UsedApart, NEW t \in Thread, NEW k \in Key, NEW v \in Val \cup {Deleted},
           todo[t] = NoTodo, SetLocked(t, k, v)
    PROVE  /\ store'[k] = v /\ v # Absent
           /\ \A u \in Thread \ {t} : todo'[u] = todo[u]
           /\ ~Alone => todo' = todo
           /\ \A j \in Key \ {k} :
                 \/ store'[j] = store[j] /\ todo'[t][j] = Absent
                 \/ Alone /\ store[j] # Absent /\ store'[j] = Absent /\ todo'[t][j] = store[j]
<1>1. /\ store \in [Key -> Entry] /\ todo \in [Thread -> [Key -> Entry]]
      /\ v # Absent
    BY KVConstantsAssumption DEF KVInv, TypeOK
<1>2. CASE Full
    <2>1. Last \in Key /\ Last \in Cached
        BY <1>2, FullHasLast
    <2>2. Alone
        <3>1. ASSUME Roomy PROVE FALSE
            <4>1. Cardinality(Cached) <= Cardinality(Key) /\ Cardinality(Cached) \in Nat /\ Cardinality(Key) \in Nat
                BY <3>1, FS_Subset, FS_CardinalityType DEF Roomy, Cached
            <4> QED
                BY <1>2, <3>1, <4>1, MaxSizeAssumption DEF Roomy, Full
        <3> QED
            BY <3>1 DEF UsedApart
    <2>3. /\ store' = [[store EXCEPT ![Last] = Absent] EXCEPT ![k] = v]
          /\ todo' = [todo EXCEPT ![t] = [NoTodo EXCEPT ![Last] = store[Last]]]
        BY <1>2 DEF SetLocked
    <2>4. \A j \in Key : todo'[t][j] = IF j = Last THEN store[Last] ELSE Absent
        BY <1>1, <2>1, <2>3 DEF NoTodo
    <2>5. \A u \in Thread \ {t} : todo'[u] = todo[u]
        BY <1>1, <2>3
    <2>6. \A j \in Key \ {k} : store'[j] = IF j = Last THEN Absent ELSE store[j]
        BY <1>1, <2>1, <2>3
    <2>7. store'[k] = v
        BY <1>1, <2>1, <2>3
    <2>8. store[Last] # Absent
        BY <2>1 DEF Cached
    <2> QED
        BY <1>1, <2>2, <2>4, <2>5, <2>6, <2>7, <2>8
<1>3. CASE ~Full
    <2>1. store' = [store EXCEPT ![k] = v] /\ todo' = todo
        BY <1>3 DEF SetLocked
    <2>2. \A j \in Key : todo[t][j] = Absent
        BY DEF NoTodo
    <2> QED
        BY <1>1, <2>1, <2>2
<1> QED
    BY <1>2, <1>3

\* The other keys, when k is set: an entry that is evicted goes to the hands of
\* the thread, which is alone then.
LEMMA OthersKept ==
    ASSUME KVInv, UsedApart, KVSafe, ~dbFailed,
           NEW t \in Thread, NEW k \in Key, NEW v \in Val \cup {Deleted},
           todo[t] = NoTodo, SetLocked(t, k, v), UNCHANGED db,
           op[t].pc # "saveAll", op'[t].pc # "saveAll",
           \A u \in Thread \ {t} : op'[u] = op[u],
           NEW j \in Plain \ {k}, latest'[j] = latest[j]
    PROVE  /\ Kept(j)'
           /\ \A u \in Thread : Saving(u, j)'
           /\ \A u \in Thread \ {t} : seen'[u] = seen[u] => Got(u, j)'
           /\ store[j] = Absent /\ Holders(j) = {} => store'[j] = Absent /\ Holders(j)' = {}
<1>1. /\ \A u \in Thread \ {t} : todo'[u] = todo[u]
      /\ ~Alone => todo' = todo
      /\ \/ store'[j] = store[j] /\ todo'[t][j] = Absent
         \/ Alone /\ store[j] # Absent /\ store'[j] = Absent /\ todo'[t][j] = store[j]
    BY SetLockedFacts DEF Plain
<1>2. Kept(j) /\ \A u \in Thread : Got(u, j) /\ Saving(u, j)
    BY DEF KVSafe
<1>3. todo[t][j] = Absent /\ j \in Key
    BY DEF NoTodo, Plain
<1>4. CASE store'[j] = store[j] /\ todo'[t][j] = Absent
    <2>1. Holders(j)' = Holders(j) /\ \A u \in Thread : todo'[u][j] = todo[u][j]
        BY <1>1, <1>3, <1>4 DEF Holders
    <2>2. Kept(j)'
        BY <1>2, <1>4, <2>1 DEF Kept, Holders
    <2>3. ASSUME NEW u \in Thread PROVE Saving(u, j)'
        BY <1>2, <1>4, <2>1 DEF Saving
    <2>4. ASSUME NEW u \in Thread \ {t}, seen'[u] = seen[u] PROVE Got(u, j)'
        BY <1>2, <1>4, <2>1, <2>4 DEF Got
    <2> QED
        BY <1>4, <2>1, <2>2, <2>3, <2>4
<1>5. CASE Alone /\ store[j] # Absent /\ store'[j] = Absent /\ todo'[t][j] = store[j]
    <2>1. \A u \in Thread : u = t
        BY <1>5 DEF Alone
    <2>2. t \in Holders(j)' /\ \A u \in Holders(j)' : u = t
        BY <1>5, <2>1 DEF Holders
    <2>3. Kept(j)'
        BY <1>2, <1>5, <2>2 DEF Kept
    <2>4. \A u \in Thread : Saving(u, j)'
        BY <2>1 DEF Saving
    <2> QED
        BY <1>5, <2>1, <2>3, <2>4
<1> QED
    BY <1>1, <1>4, <1>5

\* set and remove.
LEMMA SetSafe ==
    ASSUME KVInv, UsedApart, KVSafe,
           NEW t \in Thread, NEW k \in Key, NEW v \in Val \cup {Deleted},
           Free(t), t \in Access[k], k \in Plain => v # Deleted,
           SetLocked(t, k, v), Publish(k, v), UNCHANGED <<db, op, dbFailed>>
    PROVE  KVSafe'
<1> SUFFICES ASSUME ~dbFailed
             PROVE  /\ \A j \in Plain : Kept(j)' /\ \A u \in Thread : Got(u, j)' /\ Saving(u, j)'
                    /\ \A u \in Thread : InCall(u)'
    BY DEF KVSafe
<1>1. todo[t] = NoTodo /\ op[t].pc = "idle" /\ op' = op
    BY DEF Free, Idle
<1>2. /\ latest \in [Key -> Entry] /\ seen \in [Thread -> SUBSET Row] /\ op \in [Thread -> Call]
    BY DEF KVInv, TypeOK
<1>3. /\ latest'[k] = v /\ \A j \in Key \ {k} : latest'[j] = latest[j]
      /\ \A u \in Thread : seen[u] \subseteq seen'[u] /\ (op[u].key # k => seen'[u] = seen[u])
    BY <1>2 DEF Publish
<1>4. /\ store'[k] = v /\ v # Absent
      /\ \A u \in Thread \ {t} : todo'[u] = todo[u]
      /\ ~Alone => todo' = todo
    BY <1>1, SetLockedFacts
<1>5. ASSUME NEW j \in Plain \ {k} PROVE Kept(j)' /\ \A u \in Thread : Got(u, j)' /\ Saving(u, j)'
    <2>1. latest'[j] = latest[j]
        BY <1>3 DEF Plain
    <2>2. /\ Kept(j)'
          /\ \A u \in Thread : Saving(u, j)'
          /\ \A u \in Thread \ {t} : seen'[u] = seen[u] => Got(u, j)'
        BY <1>1, <2>1, OthersKept
    <2>3. ASSUME NEW u \in Thread PROVE Got(u, j)'
        <3>1. CASE u = t
            BY <1>1, <3>1 DEF Got
        <3>2. CASE u # t /\ op[u].key = k
            BY <1>1, <3>2 DEF Got
        <3>3. CASE u # t /\ op[u].key # k
            BY <1>3, <2>2, <3>3
        <3> QED
            BY <3>1, <3>2, <3>3
    <2> QED
        BY <2>2, <2>3
<1>6. ASSUME k \in Plain PROVE Kept(k)' /\ \A u \in Thread : Got(u, k)' /\ Saving(u, k)'
    <2>1. Kept(k)'
        BY <1>3, <1>4, <1>6 DEF Kept
    <2>2. ASSUME NEW u \in Thread PROVE Saving(u, k)'
        <3>1. CASE u = t
            BY <1>1, <3>1 DEF Saving
        <3>2. CASE u # t
            BY <1>4, <3>2 DEF Saving, Alone
        <3> QED
            BY <3>1, <3>2
    <2>3. ASSUME NEW u \in Thread PROVE Got(u, k)'
        <3>1. Got(u, k)
            BY <1>6 DEF KVSafe
        <3>2. ASSUME op[u].key = k, op[u].pc \in {"load", "fill"} PROVE FALSE
            <4>1. u \in Access[k] /\ u # t
                BY <1>1, <3>1, <3>2 DEF Got
            <4> QED
                BY <4>1 DEF UsedApart, Alone, Private
        <3> QED
            BY <1>1, <1>3, <3>1, <3>2 DEF Got
    <2> QED
        BY <2>1, <2>2, <2>3
<1>7. ASSUME NEW u \in Thread PROVE InCall(u)'
    <2>1. InCall(u)
        BY DEF KVSafe
    <2>2. CASE u = t
        BY <1>1, <1>4, <2>1, <2>2 DEF InCall
    <2>3. CASE u # t
        BY <1>1, <1>4, <2>1, <2>3 DEF InCall, Alone
    <2> QED
        BY <2>2, <2>3
<1> QED
    BY <1>5, <1>6, <1>7

\* The value that get has read is put into the cache.
LEMMA FillSafe ==
    ASSUME KVInv, UsedApart, KVSafe, NEW t \in Thread, Fill(t)
    PROVE  KVSafe'
<1> SUFFICES ASSUME ~dbFailed
             PROVE  /\ \A j \in Plain : Kept(j)' /\ \A u \in Thread : Got(u, j)' /\ Saving(u, j)'
                    /\ \A u \in Thread : InCall(u)'
    BY DEF KVSafe, Fill
<1>0. PICK k \in Key, v \in Val : k = op[t].key /\ v = op[t].val
    BY DEF Fill, KVInv, TypeOK
<1>1. /\ op[t].pc = "fill" /\ v \in Val \cup {Deleted} /\ op \in [Thread -> Call]
      /\ SetLocked(t, k, v)
    BY <1>0 DEF Fill, KVInv, TypeOK
<1>2. /\ op'[t].pc = "ret" /\ op'[t].key = k /\ op'[t].val = v
      /\ \A u \in Thread \ {t} : op'[u] = op[u]
      /\ UNCHANGED <<db, latest, seen>>
    BY <1>0, <1>1 DEF Fill, Call
<1>3. todo[t] = NoTodo
    BY <1>1 DEF KVSafe, InCall
<1>4. /\ store'[k] = v /\ v # Absent
      /\ \A u \in Thread \ {t} : todo'[u] = todo[u]
      /\ ~Alone => todo' = todo
    BY <1>1, <1>3, SetLockedFacts
<1>5. ASSUME NEW j \in Plain \ {k} PROVE Kept(j)' /\ \A u \in Thread : Got(u, j)' /\ Saving(u, j)'
    <2>1. latest'[j] = latest[j]
        BY <1>2
    <2>2. /\ Kept(j)'
          /\ \A u \in Thread : Saving(u, j)'
          /\ \A u \in Thread \ {t} : seen'[u] = seen[u] => Got(u, j)'
        BY <1>1, <1>2, <1>3, <2>1, OthersKept
    <2>3. Got(t, j)'
        BY <1>2 DEF Got
    <2> QED
        BY <1>2, <2>2, <2>3
<1>6. ASSUME k \in Plain PROVE Kept(k)' /\ \A u \in Thread : Got(u, k)' /\ Saving(u, k)'
    <2>1. Got(t, k) /\ Kept(k)
        BY <1>6 DEF KVSafe
    <2>2. v = latest[k] /\ Live(latest[k]) \in seen[t] /\ t \in Access[k]
        BY <1>0, <1>1, <2>1 DEF Got
    <2>3. Kept(k)'
        BY <1>2, <1>4, <2>1, <2>2 DEF Kept
    <2>4. ASSUME NEW u \in Thread PROVE Saving(u, k)'
        <3>1. CASE u = t
            BY <1>2, <3>1 DEF Saving
        <3>2. CASE u # t
            BY <1>4, <3>2 DEF Saving, Alone
        <3> QED
            BY <3>1, <3>2
    <2>5. ASSUME NEW u \in Thread PROVE Got(u, k)'
        <3>1. CASE u = t
            <4>1. Live(latest[k]) = v
                BY <2>1, <2>2 DEF Live, Kept
            <4> QED
                BY <1>2, <2>2, <3>1, <4>1 DEF Got
        <3>2. CASE u # t
            <4>1. Got(u, k)
                BY <1>6 DEF KVSafe
            <4>2. ASSUME op[u].key = k, op[u].pc \in {"load", "fill"} PROVE FALSE
                BY <2>2, <3>2, <4>1, <4>2 DEF Got, UsedApart, Alone, Private
            <4> QED
                BY <1>2, <3>2, <4>1, <4>2 DEF Got
        <3> QED
            BY <3>1, <3>2
    <2> QED
        BY <2>3, <2>4, <2>5
<1>7. ASSUME NEW u \in Thread PROVE InCall(u)'
    <2>1. InCall(u)
        BY DEF KVSafe
    <2>2. CASE u = t
        BY <1>1, <1>2, <1>3, <1>4, <2>1, <2>2 DEF InCall
    <2>3. CASE u # t
        BY <1>2, <1>4, <2>1, <2>3 DEF InCall, Alone
    <2> QED
        BY <2>2, <2>3
<1> QED
    BY <1>5, <1>6, <1>7

\* get looks into the cache.
LEMMA GetSafe ==
    ASSUME KVInv, UsedApart, KVSafe,
           NEW t \in Thread, NEW k \in Key, NEW forceLoad \in BOOLEAN, Get(t, k, forceLoad)
    PROVE  KVSafe'
<1> SUFFICES ASSUME ~dbFailed
             PROVE  /\ \A j \in Plain : Kept(j)' /\ \A u \in Thread : Got(u, j)' /\ Saving(u, j)'
                    /\ \A u \in Thread : InCall(u)'
    BY DEF KVSafe, Get
<1>1. /\ todo[t] = NoTodo /\ op[t].pc = "idle" /\ t \in Access[k] /\ (forceLoad => k \in ForceLoaded)
      /\ UNCHANGED <<store, lruQueue, db, todo, latest, dbFailed>>
    BY DEF Get, Free, Idle
<1>2. /\ op \in [Thread -> Call] /\ seen \in [Thread -> SUBSET Row] /\ store \in [Key -> Entry]
    BY DEF KVInv, TypeOK
<1>3. /\ \A u \in Thread \ {t} : op'[u] = op[u] /\ seen'[u] = seen[u]
      /\ op'[t].key = k /\ seen'[t] = {Live(latest[k])}
      /\ \/ ~forceLoad /\ store[k] \notin {Absent, Deleted} /\ op'[t].pc = "ret" /\ op'[t].val = store[k]
         \/ (forceLoad \/ store[k] \in {Absent, Deleted}) /\ op'[t].pc = "load"
    BY <1>2 DEF Get
<1>4. ASSUME NEW j \in Key PROVE Holders(j)' = Holders(j)
    <2>1. ASSUME NEW u \in Thread PROVE u \in Holders(j)' <=> u \in Holders(j)
        BY <1>1, <1>3 DEF Holders, NoTodo
    <2> QED
        BY <2>1 DEF Holders
<1>5. ASSUME NEW j \in Plain PROVE Kept(j)'
    <2>1. Kept(j) /\ j \in Key
        BY DEF KVSafe, Plain
    <2> QED
        BY <1>1, <1>4, <2>1 DEF Kept
<1>6. ASSUME NEW j \in Plain, NEW u \in Thread PROVE Saving(u, j)'
    <2>1. Saving(u, j)
        BY DEF KVSafe
    <2> QED
        BY <1>1, <1>3, <2>1 DEF Saving
<1>7. ASSUME NEW u \in Thread PROVE InCall(u)'
    <2>1. InCall(u)
        BY DEF KVSafe
    <2> QED
        BY <1>1, <1>3, <2>1 DEF InCall
<1>8. ASSUME NEW j \in Plain, NEW u \in Thread PROVE Got(u, j)'
    <2>1. Got(u, j) /\ Kept(j) /\ j \in Key /\ j \notin ForceLoaded
        BY DEF KVSafe, Plain
    <2>2. CASE u # t
        BY <1>1, <1>3, <1>4, <2>1, <2>2 DEF Got
    <2>3. CASE u = t /\ j # k
        BY <1>3, <2>3 DEF Got
    <2>4. CASE u = t /\ j = k
        <3>1. CASE op'[t].pc = "ret"
            <4>1. op'[t].val = latest[k] /\ latest[k] # Deleted
                BY <1>3, <2>1, <2>4, <3>1 DEF Kept
            <4> QED
                BY <1>3, <2>4, <3>1, <4>1 DEF Got, Live
        <3>2. CASE op'[t].pc = "load"
            <4>1. store[k] = Absent
                BY <1>1, <1>3, <2>1, <2>4, <3>2 DEF Kept
            <4>2. ASSUME NEW w \in Holders(k) PROVE FALSE
                <5>1. w \in Thread /\ op[w].pc # "saveAll" /\ todo[w][k] # Absent
                    BY <4>2 DEF Holders
                <5>2. InCall(w)
                    BY <5>1 DEF KVSafe
                <5> QED
                    BY <1>1, <5>1, <5>2 DEF InCall, Alone, NoTodo
            <4> QED
                BY <1>1, <1>3, <1>4, <2>4, <3>2, <4>1, <4>2 DEF Got
        <3> QED
            BY <1>3, <3>1, <3>2
    <2> QED
        BY <2>2, <2>3, <2>4
<1> QED
    BY <1>5, <1>6, <1>7, <1>8

\* The row of a key that is not cached is read.
LEMMA LoadSafe ==
    ASSUME KVInv, KVSafe, NEW t \in Thread, Load(t)
    PROVE  KVSafe'
<1> SUFFICES ASSUME ~dbFailed
             PROVE  /\ \A j \in Plain : Kept(j)' /\ \A u \in Thread : Got(u, j)' /\ Saving(u, j)'
                    /\ \A u \in Thread : InCall(u)'
    BY DEF KVSafe, Load
<1>0. PICK k \in Key : k = op[t].key
    BY DEF Load, KVInv, TypeOK
<1>1. op[t].pc = "load" /\ UNCHANGED <<store, lruQueue, db, todo, latest, seen, dbFailed>>
    BY DEF Load
<1>2. /\ \A u \in Thread \ {t} : op'[u] = op[u]
      /\ op'[t].key = k /\ op'[t].val = db[k]
      /\ op'[t].pc = IF db[k] = Absent THEN "ret" ELSE "fill"
    BY <1>0 DEF Load, KVInv, TypeOK
<1>3. ASSUME NEW j \in Key PROVE Holders(j)' = Holders(j)
    <2>1. ASSUME NEW u \in Thread PROVE u \in Holders(j)' <=> u \in Holders(j)
        BY <1>1, <1>2 DEF Holders
    <2> QED
        BY <2>1 DEF Holders
<1>4. ASSUME NEW j \in Plain PROVE Kept(j)'
    <2>1. Kept(j) /\ j \in Key
        BY DEF KVSafe, Plain
    <2> QED
        BY <1>1, <1>3, <2>1 DEF Kept
<1>5. ASSUME NEW j \in Plain, NEW u \in Thread PROVE Saving(u, j)'
    <2>1. Saving(u, j)
        BY DEF KVSafe
    <2> QED
        BY <1>1, <1>2, <2>1 DEF Saving
<1>6. ASSUME NEW u \in Thread PROVE InCall(u)'
    <2>1. InCall(u)
        BY DEF KVSafe
    <2> QED
        BY <1>1, <1>2, <2>1 DEF InCall
<1>7. ASSUME NEW j \in Plain, NEW u \in Thread PROVE Got(u, j)'
    <2>1. Got(u, j) /\ Kept(j) /\ j \in Key
        BY DEF KVSafe, Plain
    <2>2. CASE u # t
        BY <1>1, <1>2, <1>3, <2>1, <2>2 DEF Got
    <2>3. CASE u = t /\ j # k
        BY <1>2, <2>3 DEF Got
    <2>4. CASE u = t /\ j = k
        <3>1. store[k] = Absent /\ Holders(k) = {} /\ t \in Access[k] /\ Live(latest[k]) \in seen[t]
            BY <1>0, <1>1, <2>1, <2>4 DEF Got
        <3>2. db[k] = latest[k] /\ Live(latest[k]) = latest[k]
            BY <2>1, <2>4, <3>1 DEF Kept, Live
        <3> QED
            BY <1>1, <1>2, <1>3, <2>4, <3>1, <3>2 DEF Got
    <2> QED
        BY <2>2, <2>3, <2>4
<1> QED
    BY <1>4, <1>5, <1>6, <1>7

\* saveAll copies the cache.
LEMMA SaveAllSafe ==
    ASSUME KVInv, KVSafe, NEW t \in Thread, SaveAll(t)
    PROVE  KVSafe'
<1> SUFFICES ASSUME ~dbFailed
             PROVE  /\ \A j \in Plain : Kept(j)' /\ \A u \in Thread : Got(u, j)' /\ Saving(u, j)'
                    /\ \A u \in Thread : InCall(u)'
    BY DEF KVSafe, SaveAll
<1>1. /\ todo[t] = NoTodo /\ op[t].pc = "idle"
      /\ UNCHANGED <<store, lruQueue, db, latest, seen, dbFailed>>
    BY DEF SaveAll, Free, Idle
<1>2. /\ \A u \in Thread \ {t} : op'[u] = op[u] /\ todo'[u] = todo[u]
      /\ op'[t].pc = "saveAll" /\ todo'[t] = store
    BY DEF SaveAll, KVInv, TypeOK, Call
<1>3. ASSUME NEW j \in Key PROVE Holders(j)' = Holders(j)
    <2>1. ASSUME NEW u \in Thread PROVE u \in Holders(j)' <=> u \in Holders(j)
        BY <1>1, <1>2 DEF Holders, NoTodo
    <2> QED
        BY <2>1 DEF Holders
<1>4. ASSUME NEW j \in Plain
      PROVE  Kept(j)' /\ (\A u \in Thread \ {t} : Got(u, j)' /\ Saving(u, j)') /\ Got(t, j)' /\ Saving(t, j)'
    <2>1. Kept(j) /\ j \in Key /\ \A u \in Thread : Got(u, j) /\ Saving(u, j)
        BY DEF KVSafe, Plain
    <2>2. Kept(j)'
        <3>1. ASSUME NEW u \in Holders(j) PROVE todo'[u][j] = todo[u][j]
            BY <1>1, <1>2, <2>1, <3>1 DEF Holders, NoTodo
        <3> QED
            BY <1>1, <1>3, <2>1, <3>1 DEF Kept
    <2>3. ASSUME NEW u \in Thread \ {t} PROVE Got(u, j)'
        BY <1>1, <1>2, <1>3, <2>1 DEF Got
    <2>4. ASSUME NEW u \in Thread \ {t} PROVE Saving(u, j)'
        BY <1>1, <1>2, <2>1 DEF Saving
    <2>5. Got(t, j)'
        BY <1>2 DEF Got
    <2>6. Saving(t, j)'
        <3>1. ASSUME Alone PROVE Holders(j) = {}
            BY <1>1, <2>1, <3>1 DEF Alone, Holders, NoTodo
        <3> QED
            BY <1>1, <1>2, <2>1, <3>1 DEF Saving, Kept
    <2> QED
        BY <2>2, <2>3, <2>4, <2>5, <2>6
<1>5. ASSUME NEW u \in Thread PROVE InCall(u)'
    <2>1. InCall(u)
        BY DEF KVSafe
    <2> QED
        BY <1>1, <1>2, <2>1 DEF InCall
<1> QED
    BY <1>4, <1>5

\* Some of the entries in a thread's hands are written.
LEMMA WriteSafe ==
    ASSUME KVInv, KVSafe, NEW t \in Thread, NEW S \in SUBSET Key, Write(t, S)
    PROVE  KVSafe'
<1> SUFFICES ASSUME ~dbFailed
             PROVE  /\ \A j \in Plain : Kept(j)' /\ \A u \in Thread : Got(u, j)' /\ Saving(u, j)'
                    /\ \A u \in Thread : InCall(u)'
    BY DEF KVSafe, Write
<1>1. /\ S # {} /\ \A j \in S : todo[t][j] # Absent
      /\ UNCHANGED <<store, lruQueue, op, latest, seen, dbFailed>>
    BY DEF Write
<1>2. /\ \A u \in Thread \ {t} : todo'[u] = todo[u]
      /\ \A j \in Key : todo'[t][j] = IF j \in S THEN Absent ELSE todo[t][j]
      /\ \A j \in Key : db'[j] = IF j \in S THEN Live(todo[t][j]) ELSE db[j]
    BY DEF Write, KVInv, TypeOK
<1>3. ASSUME NEW j \in Plain PROVE Kept(j)' /\ \A u \in Thread : Got(u, j)' /\ Saving(u, j)'
    <2>1. Kept(j) /\ j \in Key /\ \A u \in Thread : Got(u, j) /\ Saving(u, j)
        BY DEF KVSafe, Plain
    <2>2. Holders(j)' \subseteq Holders(j) /\ \A u \in Holders(j) : u # t => u \in Holders(j)'
        BY <1>1, <1>2, <2>1 DEF Holders
    <2>3. \A u \in Holders(j)' : todo'[u][j] = todo[u][j]
        BY <1>1, <1>2, <2>1 DEF Holders
    <2>4. ASSUME store[j] = Absent, j \in S PROVE db'[j] = latest[j] /\ t \in Holders(j)
        <3>1. t \in Holders(j)
            BY <1>1, <2>1, <2>4 DEF Holders, Saving
        <3>2. todo[t][j] = latest[j] /\ latest[j] # Deleted
            BY <2>1, <2>4, <3>1 DEF Kept
        <3> QED
            BY <1>2, <2>1, <2>4, <3>1, <3>2 DEF Live
    <2>5. ASSUME store[j] = Absent, j \notin S
          PROVE  Holders(j)' = Holders(j) /\ db'[j] = db[j]
        BY <1>1, <1>2, <2>1, <2>5 DEF Holders
    <2>6. Kept(j)'
        <3>1. CASE store[j] # Absent
            BY <1>1, <2>1, <3>1 DEF Kept
        <3>2. CASE store[j] = Absent /\ j \in S
            BY <1>1, <2>1, <2>2, <2>3, <2>4, <3>2 DEF Kept
        <3>3. CASE store[j] = Absent /\ j \notin S
            BY <1>1, <2>1, <2>3, <2>5, <3>3 DEF Kept
        <3> QED
            BY <3>1, <3>2, <3>3
    <2>7. ASSUME NEW u \in Thread PROVE Got(u, j)'
        BY <1>1, <2>1, <2>2 DEF Got
    <2>8. ASSUME NEW u \in Thread PROVE Saving(u, j)'
        <3>1. CASE j \in S /\ u = t
            <4>1. ASSUME op[t].pc = "saveAll", Alone PROVE db'[j] = latest[j]
                <5>1. todo[t][j] = store[j] /\ store[j] # Absent
                    BY <1>1, <2>1, <3>1, <4>1 DEF Saving
                <5>2. store[j] = latest[j] /\ latest[j] # Deleted
                    BY <2>1, <5>1 DEF Kept
                <5> QED
                    BY <1>2, <2>1, <3>1, <5>1, <5>2 DEF Live
            <4> QED
                BY <1>1, <1>2, <2>1, <3>1, <4>1 DEF Saving
        <3>2. CASE j \notin S
            <4>1. todo'[u][j] = todo[u][j] /\ db'[j] = db[j]
                BY <1>2, <2>1, <3>2
            <4> QED
                BY <1>1, <2>1, <4>1 DEF Saving
        <3>3. CASE u # t
            <4>1. todo'[u][j] = todo[u][j] /\ ~Alone
                BY <1>2, <3>3 DEF Alone
            <4> QED
                BY <1>1, <2>1, <4>1 DEF Saving
        <3> QED
            BY <3>1, <3>2, <3>3
    <2> QED
        BY <2>6, <2>7, <2>8
<1>4. ASSUME NEW u \in Thread PROVE InCall(u)'
    <2>1. InCall(u)
        BY DEF KVSafe
    <2>2. CASE u # t
        BY <1>1, <1>2, <2>1, <2>2 DEF InCall
    <2>3. CASE u = t
        <3>1. todo[t] # NoTodo
            BY <1>1 DEF NoTodo
        <3> QED
            BY <1>1, <2>1, <2>3, <3>1 DEF InCall
    <2> QED
        BY <2>2, <2>3
<1> QED
    BY <1>3, <1>4

\* A call ends.
LEMMA ReturnSafe ==
    ASSUME KVInv, KVSafe, NEW t \in Thread, Return(t)
    PROVE  KVSafe'
<1> SUFFICES ASSUME ~dbFailed
             PROVE  /\ \A j \in Plain : Kept(j)' /\ \A u \in Thread : Got(u, j)' /\ Saving(u, j)'
                    /\ \A u \in Thread : InCall(u)'
    BY DEF KVSafe, Return
<1>1. /\ todo[t] = NoTodo /\ UNCHANGED <<store, lruQueue, db, todo, latest, dbFailed>>
    BY DEF Return
<1>2. /\ \A u \in Thread \ {t} : op'[u] = op[u] /\ seen'[u] = seen[u]
      /\ op'[t].pc = "idle"
    BY DEF Return, KVInv, TypeOK, Idle
<1>3. ASSUME NEW j \in Plain
      PROVE  Kept(j)' /\ (\A u \in Thread \ {t} : Got(u, j)' /\ Saving(u, j)') /\ Got(t, j)' /\ Saving(t, j)'
    <2>1. Kept(j) /\ j \in Key /\ \A u \in Thread : Got(u, j) /\ Saving(u, j)
        BY DEF KVSafe, Plain
    <2>2. \A u \in Thread : u \in Holders(j)' <=> u \in Holders(j)
        BY <1>1, <1>2, <2>1 DEF Holders, NoTodo
    <2>3. Holders(j)' = Holders(j)
        BY <2>2 DEF Holders
    <2>4. Kept(j)'
        BY <1>1, <2>1, <2>3 DEF Kept
    <2>5. ASSUME NEW u \in Thread \ {t} PROVE Got(u, j)' /\ Saving(u, j)'
        BY <1>1, <1>2, <2>1, <2>3 DEF Got, Saving
    <2>6. Got(t, j)' /\ Saving(t, j)'
        BY <1>2 DEF Got, Saving
    <2> QED
        BY <2>4, <2>5, <2>6
<1>4. ASSUME NEW u \in Thread PROVE InCall(u)'
    <2>1. InCall(u)
        BY DEF KVSafe
    <2> QED
        BY <1>1, <1>2, <2>1 DEF InCall
<1> QED
    BY <1>3, <1>4

\* The table is the latest after a start.
LEMMA StartSafe ==
    ASSUME KVInv, store = NoTodo, op = [t \in Thread |-> Idle], todo = [t \in Thread |-> NoTodo], latest = db
    PROVE  KVSafe
<1>1. \A t \in Thread : op[t].pc = "idle" /\ todo[t] = NoTodo
    BY DEF Idle
<1>2. ASSUME NEW j \in Plain PROVE Kept(j) /\ \A t \in Thread : Got(t, j) /\ Saving(t, j)
    <2>1. store[j] = Absent /\ Holders(j) = {} /\ latest[j] = db[j] /\ j \in Key
        BY <1>1 DEF Plain, NoTodo, Holders
    <2>2. latest[j] # Deleted
        BY <2>1, KVConstantsAssumption DEF KVInv, TypeOK, Row
    <2> QED
        BY <1>1, <2>1, <2>2 DEF Kept, Got, Saving
<1>3. \A t \in Thread : InCall(t)
    BY <1>1 DEF InCall
<1> QED
    BY <1>2, <1>3 DEF KVSafe

LEMMA KVSafeNext == ASSUME KVInv, KVInv', UsedApart, KVSafe, [Next]_vars PROVE KVSafe'
<1>1. ASSUME NEW t \in Thread, NEW k \in Key, NEW v \in Val, Set(t, k, v) PROVE KVSafe'
    <2>1. v \in Val \cup {Deleted} /\ v # Deleted
        BY KVConstantsAssumption
    <2> QED
        BY <1>1, <2>1, SetSafe DEF Set
<1>2. ASSUME NEW t \in Thread, NEW k \in Key, Remove(t, k) PROVE KVSafe'
    <2>1. k \notin Plain
        BY <1>2 DEF Remove, Plain
    <2> QED
        BY <1>2, <2>1, SetSafe DEF Remove
<1>3. ASSUME NEW t \in Thread, NEW k \in Key, NEW forceLoad \in BOOLEAN, Get(t, k, forceLoad) PROVE KVSafe'
    BY <1>3, GetSafe
<1>4. ASSUME NEW t \in Thread, Load(t) \/ Fill(t) \/ SaveAll(t) \/ Return(t) PROVE KVSafe'
    BY <1>4, LoadSafe, FillSafe, SaveAllSafe, ReturnSafe
<1>5. ASSUME NEW t \in Thread, NEW S \in SUBSET Key, Write(t, S) PROVE KVSafe'
    BY <1>5, WriteSafe
<1>6. ASSUME NEW t \in Thread, WriteFails(t) PROVE KVSafe'
    BY <1>6 DEF WriteFails, KVSafe
<1>7. ASSUME Crash PROVE KVSafe'
    <2>1. /\ store' = NoTodo /\ op' = [t \in Thread |-> Idle]
          /\ todo' = [t \in Thread |-> NoTodo] /\ latest' = db'
        BY <1>7 DEF Crash
    <2>2. \A t \in Thread : op'[t].pc = "idle" /\ todo'[t] = NoTodo
        BY <2>1 DEF Idle
    <2>3. ASSUME NEW j \in Plain PROVE Kept(j)' /\ \A t \in Thread : Got(t, j)' /\ Saving(t, j)'
        <3>1. store'[j] = Absent /\ Holders(j)' = {} /\ latest'[j] = db'[j] /\ j \in Key
            BY <2>1, <2>2 DEF Plain, NoTodo, Holders
        <3>2. latest'[j] # Deleted
            BY <3>1, KVConstantsAssumption DEF KVInv, TypeOK, Row
        <3> QED
            BY <2>2, <3>1, <3>2 DEF Kept, Got, Saving
    <2>4. \A t \in Thread : InCall(t)'
        BY <2>2 DEF InCall
    <2> QED
        BY <2>3, <2>4 DEF KVSafe
<1>8. ASSUME UNCHANGED vars PROVE KVSafe'
    BY <1>8 DEF vars, KVSafe, Kept, Got, Saving, InCall, Holders
<1> QED
    BY <1>1, <1>2, <1>3, <1>4, <1>5, <1>6, <1>7, <1>8 DEF Next

LEMMA KVSafeAlways == ASSUME UsedApart PROVE Spec => [](KVInv /\ KVSafe)
<1>1. Init => KVInv /\ KVSafe
    BY KVInit, StartSafe DEF Init
<1>2. KVInv /\ KVSafe /\ [Next]_vars => (KVInv /\ KVSafe)'
    BY KVNext, KVSafeNext
<1> QED
    BY <1>1, <1>2, PTL DEF Spec

\* What the invariant is for.
LEMMA SafeKeeps == ASSUME KVSafe PROVE NoLostUpdate /\ GetIsCurrent
<1>1. NoLostUpdate
    <2> SUFFICES ASSUME ~dbFailed, NEW k \in Plain PROVE Holds(k, latest[k])
        BY DEF NoLostUpdate
    <2>1. Kept(k)
        BY DEF KVSafe
    <2> QED
        BY <2>1 DEF Kept, Holds, Holders
<1>2. GetIsCurrent
    BY DEF GetIsCurrent, KVSafe, Got
<1> QED
    BY <1>1, <1>2

\* For any number of keys and values and any capacity: no update of a key that
\* is neither removed nor read past the cache is lost, through eviction, reload,
\* saveAll and crashes, if one thread uses the store, or if every thread has
\* keys of its own and the cache never fills.
THEOREM NoUpdateIsLost == ASSUME UsedApart PROVE Spec => []NoLostUpdate
BY SafeKeeps, KVSafeAlways, PTL

\* Under the same conditions a get returns a value that was the latest one at
\* some moment of the call, whether it comes from the cache or from the table.
THEOREM GetsAreCurrent == ASSUME UsedApart PROVE Spec => []GetIsCurrent
BY SafeKeeps, KVSafeAlways, PTL

\* When a thread on its own has written what saveAll copied, the table holds the
\* latest value of every plain key, those included that had been evicted.
THEOREM SavesAreDurable == ASSUME Alone PROVE Spec => []SaveAllIsDurable
<1>1. UsedApart
    BY DEF UsedApart
<1>2. KVInv /\ KVSafe => SaveAllIsDurable
    <2> SUFFICES ASSUME KVSafe, ~dbFailed, NEW t \in Thread, op[t].pc = "saveAll", todo[t] = NoTodo, NEW k \in Plain
                 PROVE  db[k] = latest[k]
        BY DEF SaveAllIsDurable
    <2>1. Saving(t, k) /\ todo[t][k] = Absent
        BY DEF KVSafe, NoTodo, Plain
    <2> QED
        BY <2>1 DEF Saving
<1> QED
    BY <1>1, <1>2, KVSafeAlways, PTL

=============================================================================
