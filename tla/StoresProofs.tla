---------------------------- MODULE StoresProofs ----------------------------
(* Proofs about the components that MCStores runs side by side (those about  *)
(* the key-value store are in KVStoreProofs), and about the composition.     *)
(*                                                                           *)
(* Party, for any players and parties: the four pointers of a membership     *)
(* agree, and nobody is trapped in a party.                                  *)
(*                                                                           *)
(* Decay, for any items and any lateness of the dispatcher: an item is filed *)
(* once, where its attributes say, an event comes no later than the first    *)
(* bucket, and the time that is left survives putting an item out.           *)
(*                                                                           *)
(* Trade, for any players and any things: the partners and Game::tradeItems  *)
(* agree, nothing is part of two offers, what is offered is near, and what   *)
(* was accepted is what will be given. Each of the four needs the others at  *)
(* the second acceptance, where things change hands.                         *)
EXTENDS MCStores, KVStoreProofs, FiniteSums

-----------------------------------------------------------------------------
(* Parties. *)

Objects == [life : [Mates -> {"online", "dead", "gone"}], party : [Mates -> Parties \cup {Nil}],
            invitations : [Mates -> SUBSET Parties], leader : [Parties -> Mates \cup {Nil}],
            members : [Parties -> Seq(Mates)], invited : [Parties -> SUBSET Mates]]

OnceEach(list) == \A i, j \in DOMAIN list : list[i] = list[j] => i = j
Listed(list) == {list[i] : i \in DOMAIN list}

Shape(t) == t \in Objects /\ \A q \in Parties : OnceEach(t.members[q])

\* The leader of q and its members, and nobody else, have it as their party.
PeopleAgree(t, q) ==
  Leader(t, q) # Nil =>
    /\ Leader(t, q) \notin Members(t, q)
    /\ \A x \in Mates : Exists(t, x) => (t.party[x] = q <=> x \in Members(t, q) \cup {Leader(t, q)})

\* Player and party know of the same invitations, and of none to the party's own.
InvitesAgree(t, q) ==
  /\ \A x \in Mates : Exists(t, x) /\ q \in t.invitations[x] => x \in t.invited[q]
  /\ Leader(t, q) # Nil =>
       \A x \in t.invited[q] : q \in t.invitations[x] /\ x \notin Members(t, q) \cup {Leader(t, q)}

NotLonely(t, q) == Leader(t, q) # Nil => ~Empty(t, q)

\* Whoever is in q is online, and q has a leader.
SafeIn(t, q) == \A x \in Mates : t.party[x] = q => t.life[x] = "online" /\ Leader(t, q) # Nil

Agrees(t, q) == PeopleAgree(t, q) /\ InvitesAgree(t, q)
Sound(t) == Shape(t) /\ \A q \in Parties : Agrees(t, q) /\ NotLonely(t, q)
Safe(t) == \A q \in Parties : SafeIn(t, q)

PartyInv == Sound(s) /\ leaveOnDeath \in BOOLEAN /\ (leaveOnDeath => Safe(s))

\* What an operation on party q leaves alone: u is what becomes of t.
Within(t, u, q) ==
  /\ u.life = t.life
  /\ \A r \in Parties \ {q} :
       u.leader[r] = t.leader[r] /\ u.members[r] = t.members[r] /\ u.invited[r] = t.invited[r]
  /\ \A x \in Mates : u.invitations[x] \ {q} = t.invitations[x] \ {q}
  /\ \A x \in Mates : u.party[x] = t.party[x] \/ (t.party[x] = q /\ u.party[x] = Nil)
  /\ \A x \in Members(u, q) \cup u.invited[q] : Exists(t, x)

\* Erasing a player takes him, and nobody else, off a list.
LEMMA ErasedFacts ==
  ASSUME NEW q \in Seq(Mates), NEW k \in Mates, OnceEach(q)
  PROVE  Erased(q, k) \in Seq(Mates) /\ OnceEach(Erased(q, k)) /\ Listed(Erased(q, k)) = Listed(q) \ {k}
<1>1. CASE ~ \E i \in DOMAIN q : q[i] = k
  BY <1>1 DEF Erased, Listed
<1>2. CASE \E i \in DOMAIN q : q[i] = k
  <2> DEFINE p == CHOOSE i \in DOMAIN q : q[i] = k
             w == [i \in 1 .. Len(q) - 1 |-> IF i < p THEN q[i] ELSE q[i + 1]]
  <2>1. p \in 1 .. Len(q) /\ q[p] = k
    BY <1>2
  <2>2. Erased(q, k) = w
    BY <1>2 DEF Erased
  <2> HIDE DEF p
  <2>3. Len(q) \in Nat /\ DOMAIN q = 1 .. Len(q) /\ \A i \in 1 .. Len(q) : q[i] \in Mates
    OBVIOUS
  <2>4. w \in Seq(Mates) /\ Len(w) = Len(q) - 1 /\ DOMAIN w = 1 .. Len(q) - 1
    BY <2>1, <2>3
  <2>5. OnceEach(w)
    BY <2>1, <2>3, <2>4 DEF OnceEach
  <2>6. ASSUME NEW x \in Listed(w) PROVE x \in Listed(q) \ {k}
    <3>1. PICK i \in 1 .. Len(q) - 1 : x = w[i]
      BY <2>4, <2>6 DEF Listed
    <3>2. PICK j \in 1 .. Len(q) : j # p /\ x = q[j]
      BY <3>1, <2>1, <2>3
    <3>3. q[j] # q[p]
      BY <3>2, <2>1, <2>3 DEF OnceEach
    <3> QED BY <3>2, <3>3, <2>1, <2>3 DEF Listed
  <2>7. ASSUME NEW x \in Listed(q) \ {k} PROVE x \in Listed(w)
    <3>1. PICK j \in 1 .. Len(q) : x = q[j]
      BY <2>3, <2>7 DEF Listed
    <3>2. j # p
      BY <3>1, <2>7, <2>1
    <3>3. CASE j < p
      <4>1. j \in 1 .. Len(q) - 1 /\ w[j] = q[j]
        BY <3>3, <2>1, <2>3
      <4> QED BY <3>1, <4>1, <2>4 DEF Listed
    <3>4. CASE j > p
      <4>1. j - 1 \in 1 .. Len(q) - 1 /\ ~(j - 1 < p) /\ (j - 1) + 1 = j
        BY <3>4, <2>1, <2>3
      <4>2. w[j - 1] = q[j]
        BY <4>1
      <4> QED BY <3>1, <4>1, <4>2, <2>4 DEF Listed
    <3> QED BY <3>2, <3>3, <3>4, <2>1, <2>3
  <2> QED BY <2>2, <2>4, <2>5, <2>6, <2>7
<1> QED BY <1>1, <1>2

\* A list with a player put in front.
LEMMA FrontFacts ==
  ASSUME NEW list \in Seq(Mates), NEW p \in Mates, OnceEach(list), p \notin Listed(list)
  PROVE  /\ <<p>> \o list \in Seq(Mates) /\ OnceEach(<<p>> \o list)
         /\ Listed(<<p>> \o list) = Listed(list) \cup {p}
<1> DEFINE w == <<p>> \o list
<1>1. w \in Seq(Mates) /\ Len(w) = Len(list) + 1 /\ DOMAIN w = 1 .. Len(list) + 1
  OBVIOUS
<1>2. Len(list) \in Nat /\ DOMAIN list = 1 .. Len(list)
  OBVIOUS
<1>3. w[1] = p /\ \A i \in 1 .. Len(list) : w[i + 1] = list[i]
  OBVIOUS
<1> HIDE DEF w
<1>4. ASSUME NEW i \in DOMAIN w PROVE i = 1 \/ (i - 1 \in DOMAIN list /\ w[i] = list[i - 1])
  <2>1. i = 1 \/ (i - 1 \in 1 .. Len(list) /\ (i - 1) + 1 = i)
    BY <1>1, <1>2
  <2> QED BY <2>1, <1>2, <1>3
<1>5. OnceEach(w)
  <2> SUFFICES ASSUME NEW i \in DOMAIN w, NEW j \in DOMAIN w, w[i] = w[j] PROVE i = j
    BY DEF OnceEach
  <2>1. CASE i = 1 \/ j = 1
    BY <2>1, <1>3, <1>4 DEF Listed
  <2>2. CASE i # 1 /\ j # 1
    <3>1. i - 1 = j - 1
      BY <2>2, <1>4 DEF OnceEach
    <3> QED BY <3>1, <1>1, <1>2
  <2> QED BY <2>1, <2>2
<1>6. ASSUME NEW x \in Listed(w) PROVE x \in Listed(list) \cup {p}
  BY <1>3, <1>4, <1>6 DEF Listed
<1>7. ASSUME NEW x \in Listed(list) \cup {p} PROVE x \in Listed(w)
  <2>1. CASE x = p
    <3>1. 1 \in DOMAIN w
      BY <1>1, <1>2
    <3> QED BY <2>1, <3>1, <1>3 DEF Listed
  <2>2. CASE x \in Listed(list)
    <3>1. PICK i \in DOMAIN list : x = list[i]
      BY <2>2 DEF Listed
    <3>2. i + 1 \in DOMAIN w /\ w[i + 1] = x
      BY <3>1, <1>1, <1>2, <1>3
    <3> QED BY <3>2 DEF Listed
  <2> QED BY <1>7, <2>1, <2>2
<1> QED BY <1>1, <1>5, <1>6, <1>7 DEF w

\* A list with a player put at the end.
LEMMA AppendFacts ==
  ASSUME NEW list \in Seq(Mates), NEW p \in Mates, OnceEach(list), p \notin Listed(list)
  PROVE  /\ Append(list, p) \in Seq(Mates) /\ OnceEach(Append(list, p))
         /\ Listed(Append(list, p)) = Listed(list) \cup {p}
<1> DEFINE w == Append(list, p)
<1>1. w \in Seq(Mates) /\ DOMAIN w = 1 .. Len(list) + 1 /\ Len(list) \in Nat /\ DOMAIN list = 1 .. Len(list)
  OBVIOUS
<1>2. w[Len(list) + 1] = p /\ \A i \in 1 .. Len(list) : w[i] = list[i]
  OBVIOUS
<1> HIDE DEF w
<1>3. \A i \in DOMAIN w : i = Len(list) + 1 \/ (i \in DOMAIN list /\ w[i] = list[i])
  BY <1>1, <1>2
<1>4. OnceEach(w)
  BY <1>2, <1>3 DEF OnceEach, Listed
<1>5. \A x \in Listed(w) : x \in Listed(list) \cup {p}
  BY <1>2, <1>3 DEF Listed
<1>6. ASSUME NEW x \in Listed(list) \cup {p} PROVE x \in Listed(w)
  <2>1. CASE x = p
    <3>1. Len(list) + 1 \in DOMAIN w
      BY <1>1
    <3> QED BY <2>1, <3>1, <1>2 DEF Listed
  <2>2. CASE x \in Listed(list)
    <3>1. PICK i \in DOMAIN list : x = list[i]
      BY <2>2 DEF Listed
    <3>2. i \in DOMAIN w /\ w[i] = x
      BY <3>1, <1>1, <1>2
    <3> QED BY <3>2 DEF Listed
  <2> QED BY <1>6, <2>1, <2>2
<1> QED BY <1>1, <1>4, <1>5, <1>6 DEF w

\* An operation on q makes nobody exist.
LEMMA WithinExists ==
  ASSUME NEW t, NEW u, NEW q, Within(t, u, q), NEW x \in Mates, Exists(u, x)
  PROVE  Exists(t, x)
BY DEF Within, Exists, Members

\* The other parties keep their members and their leader, unless he is gone with
\* the last list that referred to him.
LEMMA WithinLeader ==
  ASSUME NEW t, Shape(t), NEW u, NEW q, Within(t, u, q), NEW r \in Parties \ {q}
  PROVE  /\ Leader(u, r) \in {Leader(t, r), Nil}
         /\ Members(u, r) = Members(t, r)
<1>1. u.leader[r] = t.leader[r] /\ t.leader[r] \in Mates \cup {Nil}
  BY DEF Within, Shape, Objects
<1>2. t.leader[r] # Nil => (Exists(u, t.leader[r]) => Exists(t, t.leader[r]))
  BY <1>1, WithinExists
<1> QED BY <1>1, <1>2 DEF Leader, Within, Members

\* The other parties stay sound.
LEMMA OthersKeep ==
  ASSUME NEW t, Shape(t), NEW u, NEW q \in Parties, Within(t, u, q), NEW r \in Parties \ {q},
         Agrees(t, r), NotLonely(t, r)
  PROVE  Agrees(u, r) /\ NotLonely(u, r)
<1>1. Leader(u, r) \in {Leader(t, r), Nil} /\ Members(u, r) = Members(t, r)
  BY WithinLeader
<1>2. \A x \in Mates : Exists(u, x) => Exists(t, x)
  BY WithinExists
<1>3. /\ \A x \in Mates : /\ u.party[x] = r <=> t.party[x] = r
                          /\ r \in u.invitations[x] <=> r \in t.invitations[x]
      /\ u.invited[r] = t.invited[r] /\ u.members[r] = t.members[r]
      /\ t.invited[r] \subseteq Mates
  BY PartyAssumption DEF Within, Shape, Objects
<1>4. PeopleAgree(u, r)
  BY <1>1, <1>2, <1>3 DEF Agrees, PeopleAgree
<1>5. InvitesAgree(u, r)
  BY <1>1, <1>2, <1>3 DEF Agrees, InvitesAgree
<1>6. NotLonely(u, r)
  BY <1>1, <1>3 DEF NotLonely, Empty
<1> QED BY <1>4, <1>5, <1>6 DEF Agrees

LEMMA OthersSafe ==
  ASSUME NEW t, Shape(t), NEW u, NEW q \in Parties, Within(t, u, q), NEW r \in Parties \ {q},
         PeopleAgree(t, r), SafeIn(t, r)
  PROVE  SafeIn(u, r)
<1> SUFFICES ASSUME NEW x \in Mates, u.party[x] = r
             PROVE  u.life[x] = "online" /\ Leader(u, r) # Nil
  BY DEF SafeIn
<1>1. t.party[x] = r /\ u.life = t.life
  BY PartyAssumption DEF Within
<1>2. t.life[x] = "online" /\ Leader(t, r) # Nil
  BY <1>1 DEF SafeIn
<1>3. Leader(t, r) \in Mates /\ Exists(t, Leader(t, r)) /\ Leader(t, r) = t.leader[r]
  BY <1>2 DEF Leader, Shape, Objects
<1>4. t.life[Leader(t, r)] = "online"
  BY <1>2, <1>3 DEF PeopleAgree, SafeIn
<1>5. Exists(u, t.leader[r]) /\ u.leader[r] = t.leader[r]
  BY <1>1, <1>3, <1>4 DEF Exists, Within
<1> QED BY <1>1, <1>2, <1>3, <1>5 DEF Leader

\* One operation on q after another.
LEMMA WithinTwice ==
  ASSUME NEW t, NEW u, NEW v, NEW q \in Parties, Within(t, u, q), Within(u, v, q),
         Shape(v)
  PROVE  Within(t, v, q)
<1>1. Members(v, q) \cup v.invited[q] \subseteq Mates
  BY DEF Members, Shape, Objects
<1>2. \A x \in Mates : Exists(u, x) => Exists(t, x)
  BY WithinExists
<1>3. \A x \in Members(v, q) \cup v.invited[q] : Exists(t, x)
  BY <1>1, <1>2 DEF Within
<1> QED BY <1>3, PartyAssumption DEF Within

\* A party that is sound but empty is disbanded.
LEMMA DisbandSound ==
  ASSUME NEW t, Shape(t), NEW q \in Parties, Agrees(t, q)
  PROVE  LET u == Disband(t, q)
         IN /\ Shape(u) /\ Within(t, u, q) /\ Agrees(u, q) /\ Leader(u, q) = Nil
            /\ u.invited[q] \subseteq t.invited[q]
            /\ SafeIn(t, q) => SafeIn(u, q)
            /\ \A x \in Mates : t.party[x] = Nil => u.party[x] = Nil
<1> DEFINE u == Disband(t, q)
           l == Leader(t, q)
           P == Members(t, q) \cup {l}
<1>1. Members(t, q) \subseteq Mates /\ t.invited[q] \subseteq Mates
      /\ \A x \in Members(t, q) \cup t.invited[q] : Exists(t, x)
  BY DEF Members, Shape, Objects, Exists
<1>2. CASE l = Nil
  <2>1. u = t
    BY <1>2 DEF Disband
  <2>2. Within(t, t, q)
    BY <1>1 DEF Within
  <2> QED BY <1>2, <2>1, <2>2
<1>3. CASE l # Nil
  <2>0. l \in Mates /\ Exists(t, l)
    BY <1>3 DEF Leader, Shape, Objects
  <2>1. u = [t EXCEPT
    !.party = [p \in Mates |-> IF p \in P THEN Nil ELSE @[p]],
    !.invitations = [p \in Mates |-> IF p \in t.invited[q] THEN @[p] \ {q} ELSE @[p]],
    !.leader[q] = Nil, !.members[q] = <<>>, !.invited[q] = {}]
    BY <1>3 DEF Disband
  <2> HIDE DEF u, P, l
  <2>2. u \in Objects
    <3>1. [p \in Mates |-> IF p \in P THEN Nil ELSE t.party[p]] \in [Mates -> Parties \cup {Nil}]
      BY DEF Shape, Objects
    <3>2. [p \in Mates |-> IF p \in t.invited[q] THEN t.invitations[p] \ {q} ELSE t.invitations[p]]
            \in [Mates -> SUBSET Parties]
      BY DEF Shape, Objects
    <3>3. [t.leader EXCEPT ![q] = Nil] \in [Parties -> Mates \cup {Nil}]
      BY DEF Shape, Objects
    <3>4. [t.members EXCEPT ![q] = <<>>] \in [Parties -> Seq(Mates)]
      BY DEF Shape, Objects
    <3>5. [t.invited EXCEPT ![q] = {}] \in [Parties -> SUBSET Mates]
      BY DEF Shape, Objects
    <3> QED BY <2>1, <3>1, <3>2, <3>3, <3>4, <3>5 DEF Shape, Objects
  <2>3. /\ u.life = t.life
        /\ \A x \in Mates : /\ u.party[x] = IF x \in P THEN Nil ELSE t.party[x]
                            /\ u.invitations[x] = IF x \in t.invited[q] THEN t.invitations[x] \ {q}
                                                  ELSE t.invitations[x]
        /\ \A r \in Parties : /\ u.leader[r] = IF r = q THEN Nil ELSE t.leader[r]
                              /\ u.members[r] = IF r = q THEN <<>> ELSE t.members[r]
                              /\ u.invited[r] = IF r = q THEN {} ELSE t.invited[r]
    BY <2>1 DEF Shape, Objects
  <2>4. u.leader[q] = Nil /\ u.members[q] = <<>> /\ u.invited[q] = {}
    BY <2>3
  <2>5. Shape(u)
    BY <2>2, <2>3 DEF Shape, OnceEach
  <2>6. Leader(u, q) = Nil /\ Members(u, q) = {}
    BY <2>4 DEF Leader, Members
  <2>7. \A x \in P : t.party[x] = q
    BY <1>1, <1>3, <2>0 DEF P, l, Agrees, PeopleAgree
  <2>8. Within(t, u, q)
    BY <2>3, <2>4, <2>6, <2>7 DEF Within
  <2>9. ASSUME NEW x \in Mates, Exists(u, x), q \in u.invitations[x] PROVE FALSE
    <3>1. Exists(t, x)
      BY <2>8, <2>9, WithinExists
    <3>2. x \notin t.invited[q] /\ q \in t.invitations[x]
      BY <2>3, <2>9
    <3> QED BY <3>1, <3>2 DEF Agrees, InvitesAgree
  <2>10. Agrees(u, q)
    BY <2>6, <2>9 DEF Agrees, PeopleAgree, InvitesAgree
  <2>11. ASSUME SafeIn(t, q), NEW x \in Mates, u.party[x] = q PROVE FALSE
    <3>1. x \notin P /\ t.party[x] = q
      BY <2>3, <2>11, PartyAssumption
    <3>2. Exists(t, x)
      BY <3>1, <2>11 DEF SafeIn, Exists
    <3> QED BY <1>3, <3>1, <3>2 DEF P, l, Agrees, PeopleAgree
  <2>12. \A x \in Mates : t.party[x] = Nil => u.party[x] = Nil
    BY <2>3
  <2> QED BY <2>4, <2>5, <2>6, <2>8, <2>10, <2>11, <2>12 DEF u, SafeIn
<1> QED BY <1>2, <1>3

\* What an operation on party q has to show.
Done(t, u, q) ==
  /\ Shape(u) /\ Within(t, u, q) /\ Agrees(u, q) /\ NotLonely(u, q)
  /\ SafeIn(t, q) => SafeIn(u, q)

\* A party that is sound again leaves all of them sound.
LEMMA DoneSound ==
  ASSUME NEW t, Sound(t), NEW u, NEW q \in Parties, Done(t, u, q)
  PROVE  Sound(u) /\ (Safe(t) => Safe(u)) /\ u.life = t.life
         /\ \A x \in Mates : t.party[x] = Nil => u.party[x] = Nil
<1>1. Shape(t) /\ Shape(u) /\ Within(t, u, q)
  BY DEF Sound, Done
<1>2. ASSUME NEW r \in Parties \ {q} PROVE Agrees(u, r) /\ NotLonely(u, r)
  BY <1>1, OthersKeep DEF Sound
<1>3. Sound(u)
  BY <1>1, <1>2 DEF Sound, Done
<1>4. ASSUME Safe(t), NEW r \in Parties PROVE SafeIn(u, r)
  <2>1. CASE r = q
    BY <1>4, <2>1 DEF Safe, Done
  <2>2. CASE r # q
    <3>1. PeopleAgree(t, r) /\ SafeIn(t, r)
      BY <1>4 DEF Sound, Agrees, Safe
    <3> QED BY <1>1, <2>2, <3>1, OthersSafe
  <2> QED BY <2>1, <2>2
<1> QED BY <1>1, <1>3, <1>4 DEF Safe, Within

\* What leaveParty and removeInvite end with.
LEMMA IfEmptyDisband ==
  ASSUME NEW t, Shape(t), NEW u, Shape(u), NEW q \in Parties, Within(t, u, q), Agrees(u, q),
         SafeIn(t, q) => SafeIn(u, q)
  PROVE  LET v == IF Empty(u, q) THEN Disband(u, q) ELSE u
         IN Done(t, v, q) /\ Leader(v, q) \in {Leader(u, q), Nil} /\ v.invited[q] \subseteq u.invited[q]
            /\ \A x \in Mates : u.party[x] = Nil => v.party[x] = Nil
<1>1. CASE Empty(u, q)
  <2> DEFINE v == Disband(u, q)
  <2>1. /\ Shape(v) /\ Within(u, v, q) /\ Agrees(v, q) /\ Leader(v, q) = Nil
        /\ v.invited[q] \subseteq u.invited[q] /\ (SafeIn(u, q) => SafeIn(v, q))
        /\ \A x \in Mates : u.party[x] = Nil => v.party[x] = Nil
    BY DisbandSound
  <2> HIDE DEF v
  <2>2. Within(t, v, q)
    BY <2>1, WithinTwice
  <2>3. NotLonely(v, q)
    BY <2>1 DEF NotLonely
  <2>4. Done(t, v, q)
    BY <2>1, <2>2, <2>3 DEF Done
  <2> QED BY <1>1, <2>1, <2>4 DEF v
<1>2. CASE ~Empty(u, q)
  <2>1. Done(t, u, q)
    BY <1>2 DEF Done, NotLonely
  <2> QED BY <1>2, <2>1
<1> QED BY <1>1, <1>2

\* An invitation that is taken back leaves a sound party, or none.
LEMMA RemoveInviteDone ==
  ASSUME NEW t, Sound(t), NEW q \in Parties, NEW p \in Mates
  PROVE  LET u == RemoveInvite(t, q, p)
         IN /\ Done(t, u, q) /\ Leader(u, q) \in {Leader(t, q), Nil}
            /\ u.invited[q] \subseteq t.invited[q]
            /\ Leader(u, q) = Nil \/ p \notin u.invited[q]
<1> DEFINE u == [t EXCEPT !.invited[q] = @ \ {p}, !.invitations[p] = @ \ {q}]
<1>0. Shape(t) /\ Agrees(t, q) /\ NotLonely(t, q)
  BY DEF Sound
<1>1. CASE Leader(t, q) = Nil \/ p \notin t.invited[q]
  <2>1. RemoveInvite(t, q, p) = t
    BY <1>1 DEF RemoveInvite
  <2>2. Within(t, t, q)
    BY <1>0 DEF Within, Exists
  <2>3. Done(t, t, q)
    BY <1>0, <2>2 DEF Done
  <2> QED BY <1>1, <2>1, <2>3
<1>2. CASE Leader(t, q) # Nil /\ p \in t.invited[q]
  <2>1. RemoveInvite(t, q, p) = IF Empty(u, q) THEN Disband(u, q) ELSE u
    BY <1>2 DEF RemoveInvite
  <2>2. /\ u.life = t.life /\ u.party = t.party /\ u.leader = t.leader /\ u.members = t.members
        /\ u.invited = [t.invited EXCEPT ![q] = @ \ {p}]
        /\ u.invitations = [t.invitations EXCEPT ![p] = @ \ {q}]
        /\ u \in Objects
    BY <1>0 DEF Shape, Objects
  <2> HIDE DEF u
  <2>3. /\ \A r \in Parties : u.invited[r] = IF r = q THEN t.invited[q] \ {p} ELSE t.invited[r]
        /\ \A x \in Mates : u.invitations[x] = IF x = p THEN t.invitations[p] \ {q} ELSE t.invitations[x]
        /\ \A r : Members(u, r) = Members(t, r)
    BY <1>0, <2>2 DEF Shape, Objects, Members
  <2>4. Shape(u)
    BY <1>0, <2>2 DEF Shape
  <2>5. Within(t, u, q)
    BY <2>2, <2>3 DEF Within, Exists
  <2>6. \A x \in Mates : Exists(u, x) => Exists(t, x)
    BY <2>5, WithinExists
  <2>7. Leader(u, q) \in {Leader(t, q), Nil}
    <3>1. t.leader[q] \in Mates \cup {Nil}
      BY <1>0 DEF Shape, Objects
    <3> QED BY <2>2, <2>6, <3>1 DEF Leader
  <2>8. PeopleAgree(u, q)
    BY <1>0, <2>2, <2>3, <2>6, <2>7 DEF Agrees, PeopleAgree
  <2>9. InvitesAgree(u, q)
    <3>1. ASSUME NEW x \in Mates, Exists(u, x), q \in u.invitations[x] PROVE x \in u.invited[q]
      BY <1>0, <2>3, <2>6, <3>1 DEF Agrees, InvitesAgree
    <3>2. ASSUME Leader(u, q) # Nil, NEW x \in u.invited[q]
          PROVE  q \in u.invitations[x] /\ x \notin Members(u, q) \cup {Leader(u, q)}
      <4>1. x \in t.invited[q] /\ x # p /\ x \in Mates
        BY <1>0, <2>3, <3>2 DEF Shape, Objects
      <4> QED BY <1>0, <2>3, <2>7, <3>2, <4>1 DEF Agrees, InvitesAgree
    <3> QED BY <3>1, <3>2 DEF InvitesAgree
  <2>10. ASSUME SafeIn(t, q) PROVE SafeIn(u, q)
    <3> SUFFICES ASSUME NEW x \in Mates, t.party[x] = q PROVE u.life[x] = "online" /\ Leader(u, q) # Nil
      BY <2>2 DEF SafeIn
    <3>1. t.life[x] = "online" /\ Leader(t, q) \in Mates /\ Exists(t, Leader(t, q)) /\ Leader(t, q) = t.leader[q]
      BY <1>0, <1>2, <2>10 DEF SafeIn, Leader, Shape, Objects
    <3>2. t.life[Leader(t, q)] = "online"
      BY <1>0, <1>2, <2>10, <3>1 DEF SafeIn, Agrees, PeopleAgree
    <3>3. Exists(u, t.leader[q])
      BY <2>2, <3>1, <3>2 DEF Exists
    <3> QED BY <1>2, <2>2, <3>1, <3>3 DEF Leader
  <2> DEFINE v == IF Empty(u, q) THEN Disband(u, q) ELSE u
  <2>11. Done(t, v, q) /\ Leader(v, q) \in {Leader(u, q), Nil} /\ v.invited[q] \subseteq u.invited[q]
    <3>1. Agrees(u, q)
      BY <2>8, <2>9 DEF Agrees
    <3> QED BY <1>0, <2>4, <2>5, <2>10, <3>1, IfEmptyDisband
  <2> HIDE DEF v
  <2>12. RemoveInvite(t, q, p) = v
    BY <2>1 DEF v
  <2> QED BY <2>3, <2>7, <2>11, <2>12
<1> QED BY <1>1, <1>2

\* What passPartyLeadership does, when it does something.
LEMMA PassFacts ==
  ASSUME NEW t, Sound(t), NEW q \in Parties, NEW p \in Mates, Leader(t, q) \notin {Nil, p},
         t.party[p] = q, Exists(t, p)
  PROVE  LET u == PassLeadership(t, q, p)
             l == Leader(t, q)
         IN /\ u.life = t.life /\ u.party = t.party /\ u.invitations = t.invitations /\ u.invited = t.invited
            /\ l \in Mates /\ p \in Members(t, q)
            /\ Shape(u) /\ \A r \in Parties \ {q} : u.leader[r] = t.leader[r] /\ u.members[r] = t.members[r]
            /\ u.leader[q] = p /\ Members(u, q) = (Members(t, q) \ {p}) \cup {l}
<1> DEFINE u == PassLeadership(t, q, p)
           l == Leader(t, q)
           m == <<l>> \o Erased(t.members[q], p)
<1>1. Shape(t) /\ Agrees(t, q)
  BY DEF Sound
<1>2. l \in Mates
  BY <1>1 DEF Leader, Shape, Objects
<1>3. p \in Members(t, q) /\ l \notin Members(t, q) /\ Members(t, q) = Listed(t.members[q])
  BY DEF Sound, Agrees, PeopleAgree, Members, Listed
<1>4. Erased(t.members[q], p) \in Seq(Mates) /\ OnceEach(Erased(t.members[q], p))
      /\ Listed(Erased(t.members[q], p)) = Members(t, q) \ {p}
  <2>1. t.members[q] \in Seq(Mates) /\ OnceEach(t.members[q])
    BY <1>1 DEF Shape, Objects
  <2> QED BY <1>3, <2>1, ErasedFacts
<1>5. m \in Seq(Mates) /\ OnceEach(m) /\ Listed(m) = (Members(t, q) \ {p}) \cup {l}
  BY <1>2, <1>3, <1>4, FrontFacts
<1>6. u = [t EXCEPT !.leader[q] = p, !.members[q] = m]
  BY DEF PassLeadership
<1> HIDE DEF u, m, l
<1>7. /\ u.life = t.life /\ u.party = t.party /\ u.invitations = t.invitations /\ u.invited = t.invited
      /\ u.leader = [t.leader EXCEPT ![q] = p] /\ u.members = [t.members EXCEPT ![q] = m]
      /\ u \in Objects
  BY <1>1, <1>5, <1>6 DEF Shape, Objects
<1>8. \A r \in Parties : /\ u.leader[r] = IF r = q THEN p ELSE t.leader[r]
                         /\ u.members[r] = IF r = q THEN m ELSE t.members[r]
  BY <1>1, <1>7 DEF Shape, Objects
<1>9. Shape(u)
  BY <1>1, <1>5, <1>7, <1>8 DEF Shape
<1>10. Members(u, q) = Listed(m)
  BY <1>8 DEF Members, Listed
<1> QED BY <1>2, <1>3, <1>5, <1>7, <1>8, <1>9, <1>10 DEF u, l

\* Passing the leadership on.
LEMMA PassDone ==
  ASSUME NEW t, Sound(t), NEW q \in Parties, NEW p \in Mates, Leader(t, q) \notin {Nil, p},
         t.party[p] = q, Exists(t, p)
  PROVE  Done(t, PassLeadership(t, q, p), q)
<1> DEFINE u == PassLeadership(t, q, p)
           l == Leader(t, q)
<1>1. /\ u.life = t.life /\ u.party = t.party /\ u.invitations = t.invitations /\ u.invited = t.invited
      /\ l \in Mates /\ p \in Members(t, q)
      /\ Shape(u) /\ \A r \in Parties \ {q} : u.leader[r] = t.leader[r] /\ u.members[r] = t.members[r]
      /\ u.leader[q] = p /\ Members(u, q) = (Members(t, q) \ {p}) \cup {l}
  BY PassFacts
<1> HIDE DEF u
<1>2. Shape(t) /\ Agrees(t, q) /\ Exists(t, l) /\ l # Nil /\ l # p
  BY DEF Sound, Leader
<1>3. Within(t, u, q)
  BY <1>1, <1>2 DEF Within, Exists
<1>4. \A x \in Mates : Exists(u, x) => Exists(t, x)
  BY <1>3, WithinExists
<1>5. Leader(u, q) \in {p, Nil} /\ p # Nil
  BY <1>1, PartyAssumption DEF Leader
<1>6. PeopleAgree(u, q)
  BY <1>1, <1>2, <1>4, <1>5 DEF Agrees, PeopleAgree
<1>7. InvitesAgree(u, q)
  <2>1. \A x \in t.invited[q] : q \in t.invitations[x] /\ x \notin Members(t, q) \cup {l}
    BY <1>2 DEF Agrees, InvitesAgree
  <2>2. \A x \in Mates : Exists(t, x) /\ q \in t.invitations[x] => x \in t.invited[q]
    BY <1>2 DEF Agrees, InvitesAgree
  <2> HIDE DEF l
  <2> QED BY <1>1, <1>4, <1>5, <2>1, <2>2 DEF InvitesAgree
<1>8. NotLonely(u, q)
  <2>1. Members(u, q) # {}
    BY <1>1
  <2> QED BY <2>1 DEF NotLonely, Empty, Members
<1>9. ASSUME SafeIn(t, q) PROVE SafeIn(u, q)
  <2>1. t.life[p] = "online"
    BY <1>9 DEF SafeIn
  <2>2. Leader(u, q) # Nil
    BY <1>1, <1>5, <2>1 DEF Leader, Exists
  <2> QED BY <1>1, <1>9, <2>2 DEF SafeIn
<1> QED BY <1>1, <1>3, <1>6, <1>7, <1>8, <1>9 DEF Done, Agrees, u

\* leaveParty of a leader whose party would be left with nobody.
LEMMA LastLeaves ==
  ASSUME NEW t, Shape(t), NEW q \in Parties, NEW p \in Mates, Leader(t, q) = p, p \notin Members(t, q),
         t.life[p] = "online"
  PROVE  Disband([t EXCEPT !.members[q] = Erased(@, p), !.party[p] = Nil], q) = Disband(t, q)
<1> DEFINE v == [t EXCEPT !.members[q] = Erased(@, p), !.party[p] = Nil]
           P == Members(t, q) \cup {p}
<1>1. Erased(t.members[q], p) = t.members[q]
  BY DEF Erased, Members
<1>2. v = [t EXCEPT !.party = [t.party EXCEPT ![p] = Nil]]
  BY <1>1 DEF Shape, Objects
<1> HIDE DEF v
<1>3. /\ v.life = t.life /\ v.invitations = t.invitations /\ v.leader = t.leader /\ v.members = t.members
      /\ v.invited = t.invited /\ v.party = [t.party EXCEPT ![p] = Nil]
  BY <1>2 DEF Shape, Objects
<1>4. p # Nil /\ t.leader[q] = p
  BY PartyAssumption DEF Leader
<1>5. Leader(v, q) = p
  BY <1>3, <1>4 DEF Leader, Exists
<1>6. Members(v, q) \cup {Leader(v, q)} = P /\ Members(t, q) \cup {Leader(t, q)} = P
  BY <1>3, <1>5 DEF Members
<1>7. [x \in Mates |-> IF x \in P THEN Nil ELSE v.party[x]] = [x \in Mates |-> IF x \in P THEN Nil ELSE t.party[x]]
  <2>1. \A x \in Mates : (IF x \in P THEN Nil ELSE v.party[x]) = (IF x \in P THEN Nil ELSE t.party[x])
    BY <1>3 DEF Shape, Objects
  <2> QED BY <2>1
<1> DEFINE a == [x \in Mates |-> IF x \in P THEN Nil ELSE t.party[x]]
           b == [x \in Mates |-> IF x \in t.invited[q] THEN t.invitations[x] \ {q} ELSE t.invitations[x]]
<1>8. Disband(v, q) = [v EXCEPT !.party = a, !.invitations = b,
                              !.leader[q] = Nil, !.members[q] = <<>>, !.invited[q] = {}]
  BY <1>3, <1>4, <1>5, <1>6, <1>7 DEF Disband
<1>9. Disband(t, q) = [t EXCEPT !.party = a, !.invitations = b,
                              !.leader[q] = Nil, !.members[q] = <<>>, !.invited[q] = {}]
  BY <1>4, <1>6 DEF Disband
<1> HIDE DEF a, b, P
<1>10. Disband(v, q) = [t EXCEPT !.party = a, !.invitations = b,
                               !.leader[q] = Nil, !.members[q] = <<>>, !.invited[q] = {}]
  BY <1>2, <1>8 DEF Shape, Objects
<1> QED BY <1>9, <1>10 DEF v

\* u is w without p in the lists of q, which h leads in w; and w is t, but that
\* p may have passed the leadership on to h.
TakenOff(t, w, u, q, p, h) ==
  /\ Shape(w) /\ h \in Mates \ {p} /\ w.leader[q] = h
  /\ w.life = t.life /\ w.party = t.party /\ w.invitations = t.invitations /\ w.invited = t.invited
  /\ \A r \in Parties \ {q} : w.leader[r] = t.leader[r] /\ w.members[r] = t.members[r]
  /\ (Members(w, q) \ {p}) \cup {h, p} = Members(t, q) \cup {Leader(t, q)}
  /\ h \notin Members(w, q) /\ Leader(t, q) # Nil
  /\ u = [w EXCEPT !.members[q] = Erased(@, p), !.party[p] = Nil]

LEMMA TakenOffSound ==
  ASSUME NEW t, Sound(t), NEW q \in Parties, NEW p \in Mates, t.party[p] = q, t.life[p] = "online",
         NEW w, NEW u, NEW h, TakenOff(t, w, u, q, p, h)
  PROVE  /\ Shape(u) /\ Within(t, u, q) /\ Agrees(u, q) /\ u.party[p] = Nil
         /\ SafeIn(t, q) => SafeIn(u, q)
<1> USE DEF TakenOff
<1> DEFINE m == Erased(w.members[q], p)
           l == Leader(t, q)
<1>1. Shape(t) /\ Agrees(t, q) /\ Members(w, q) = Listed(w.members[q])
  BY DEF Sound, Members, Listed
<1>2. m \in Seq(Mates) /\ OnceEach(m) /\ Listed(m) = Members(w, q) \ {p}
  <2>1. w.members[q] \in Seq(Mates) /\ OnceEach(w.members[q])
    BY DEF Shape, Objects
  <2> DEFINE list == w.members[q]
  <2> HIDE DEF list
  <2>2. list \in Seq(Mates) /\ OnceEach(list) /\ Listed(list) = Members(w, q)
    BY <1>1, <2>1 DEF list
  <2>3. Erased(list, p) \in Seq(Mates) /\ OnceEach(Erased(list, p)) /\ Listed(Erased(list, p)) = Listed(list) \ {p}
    BY <2>2, ErasedFacts
  <2> QED BY <2>2, <2>3 DEF list
<1> HIDE DEF m, l
<1>3. /\ u.life = t.life /\ u.party = [t.party EXCEPT ![p] = Nil] /\ u.invitations = t.invitations
      /\ u.invited = t.invited /\ u.leader = w.leader /\ u.members = [w.members EXCEPT ![q] = m]
      /\ u \in Objects
  BY <1>2 DEF Shape, Objects, m
<1>4. \A r \in Parties : u.members[r] = IF r = q THEN m ELSE w.members[r]
  BY <1>3 DEF Shape, Objects
<1>5. Shape(u)
  BY <1>2, <1>3, <1>4 DEF Shape
<1>6. Members(u, q) = Members(w, q) \ {p}
  <2>1. u.members[q] = m
    BY <1>4
  <2> HIDE DEF TakenOff
  <2> QED BY <1>2, <2>1 DEF Members, Listed
<1>7. \A x \in Mates : u.party[x] = IF x = p THEN Nil ELSE t.party[x]
  BY <1>1, <1>3 DEF Shape, Objects
<1>8. \A x \in Members(t, q) \cup t.invited[q] : Exists(t, x)
  BY DEF Exists
<1>9. Exists(t, l) /\ l \in Mates
  BY <1>1 DEF l, Leader, Shape, Objects
<1>10. Members(u, q) \subseteq Members(t, q) \cup {l}
  BY <1>6 DEF l
<1>11. Within(t, u, q)
  BY <1>3, <1>4, <1>7, <1>8, <1>9, <1>10 DEF Within
<1>12. \A x \in Mates : Exists(u, x) => Exists(t, x)
  BY <1>11, WithinExists
<1>13. Leader(u, q) \in {h, Nil}
  BY <1>3 DEF Leader
<1>14. PeopleAgree(u, q)
  <2>1. h \notin Members(u, q)
    BY <1>6
  <2>2. ASSUME NEW x \in Mates, Exists(u, x) PROVE u.party[x] = q <=> x \in Members(u, q) \cup {h}
    <3>1. t.party[x] = q <=> x \in Members(t, q) \cup {l}
      BY <1>1, <1>12, <2>2 DEF Agrees, PeopleAgree, l
    <3>2. x \in Members(u, q) \cup {h} <=> x # p /\ x \in Members(t, q) \cup {l}
      BY <1>6 DEF l
    <3> QED BY <1>7, <3>1, <3>2, PartyAssumption
  <2> QED BY <1>13, <2>1, <2>2 DEF PeopleAgree
<1>15. InvitesAgree(u, q)
  <2>1. \A x \in t.invited[q] : q \in t.invitations[x] /\ x \notin Members(t, q) \cup {l}
    BY <1>1 DEF Agrees, InvitesAgree, l
  <2>2. \A x \in Mates : Exists(t, x) /\ q \in t.invitations[x] => x \in t.invited[q]
    BY <1>1 DEF Agrees, InvitesAgree
  <2>3. Members(u, q) \cup {h} \subseteq Members(t, q) \cup {l}
    BY <1>6 DEF l
  <2> QED BY <1>3, <1>12, <1>13, <2>1, <2>2, <2>3 DEF InvitesAgree
<1>16. ASSUME SafeIn(t, q) PROVE SafeIn(u, q)
  <2>1. h \in Members(t, q) \cup {l} /\ Members(t, q) \subseteq Mates
    <3>1. h \in Members(t, q) \cup {l}
      BY DEF l
    <3>2. t.members[q] \in Seq(Mates)
      BY <1>1 DEF Shape, Objects
    <3> QED BY <3>1, <3>2 DEF Members
  <2>2. t.party[h] = q
    BY <1>1, <1>8, <1>9, <2>1 DEF Agrees, PeopleAgree, l
  <2>3. t.life[h] = "online"
    BY <1>16, <2>2 DEF SafeIn
  <2>4. Leader(u, q) # Nil
    BY <1>3, <2>3, PartyAssumption DEF Leader, Exists
  <2> QED BY <1>3, <1>7, <1>16, <2>4, PartyAssumption DEF SafeIn
<1> QED BY <1>5, <1>7, <1>11, <1>14, <1>15, <1>16 DEF Agrees

\* Leaving, as a member, as a leader, or as the last one.
LEMMA LeaveDone ==
  ASSUME NEW t, Sound(t), NEW q \in Parties, NEW p \in Mates, t.party[p] = q, t.life[p] = "online"
  PROVE  LET u == LeaveParty(t, q, p)
         IN Done(t, u, q) /\ (Leader(t, q) # Nil => u.party[p] = Nil)
<1> DEFINE l == Leader(t, q)
           missing == l = p /\ (Len(t.members[q]) = 0 \/ (Len(t.members[q]) = 1 /\ t.invited[q] = {}))
           u == LeaveParty(t, q, p)
<1>1. Shape(t) /\ Agrees(t, q) /\ NotLonely(t, q) /\ Exists(t, p)
  BY DEF Sound, Exists
<1>2. CASE l = Nil
  <2>1. u = t
    BY <1>2 DEF LeaveParty
  <2>2. Within(t, t, q)
    BY <1>1 DEF Within, Exists
  <2> QED BY <1>1, <1>2, <2>1, <2>2 DEF Done
<1>3. CASE l # Nil /\ missing
  <2> DEFINE left == [t EXCEPT !.members[q] = Erased(@, p), !.party[p] = Nil]
  <2>1. u = Disband(left, q)
    BY <1>3 DEF LeaveParty
  <2>2. p \notin Members(t, q)
    BY <1>1, <1>3 DEF Agrees, PeopleAgree
  <2>3. u = Disband(t, q)
    <3>1. Disband(left, q) = Disband(t, q)
      BY <1>1, <1>3, <2>2, LastLeaves
    <3> HIDE DEF u, left
    <3> QED BY <2>1, <3>1
  <2>4. /\ Shape(u) /\ Within(t, u, q) /\ Agrees(u, q) /\ Leader(u, q) = Nil
        /\ SafeIn(t, q) => SafeIn(u, q)
    BY <1>1, <2>3, DisbandSound
  <2>5. u.party[p] = Nil
    <3>1. u.party = [x \in Mates |-> IF x \in Members(t, q) \cup {p} THEN Nil ELSE t.party[x]]
      BY <1>1, <1>3, <2>3 DEF Disband, Shape, Objects
    <3> QED BY <3>1
  <2> HIDE DEF u
  <2> QED BY <2>4, <2>5 DEF Done, NotLonely, u
<1>4. CASE l # Nil /\ ~missing
  <2> DEFINE w == IF l = p THEN PassLeadership(t, q, Head(t.members[q])) ELSE t
             left == [w EXCEPT !.members[q] = Erased(@, p), !.party[p] = Nil]
             h == IF l = p THEN Head(t.members[q]) ELSE l
  <2>1. u = IF Empty(left, q) THEN Disband(left, q) ELSE left
    BY <1>4 DEF LeaveParty
  <2>2. l \in Mates /\ l \notin Members(t, q)
    BY <1>1, <1>4 DEF Leader, Shape, Objects, Agrees, PeopleAgree
  <2>3. /\ Shape(w) /\ h \in Mates \ {p} /\ w.leader[q] = h
        /\ w.life = t.life /\ w.party = t.party /\ w.invitations = t.invitations /\ w.invited = t.invited
        /\ \A r \in Parties \ {q} : w.leader[r] = t.leader[r] /\ w.members[r] = t.members[r]
        /\ (Members(w, q) \ {p}) \cup {h, p} = Members(t, q) \cup {l}
        /\ h \notin Members(w, q)
    <3>1. CASE l # p
      <4>1. p \in Members(t, q)
        BY <1>1, <1>4, <3>1 DEF Agrees, PeopleAgree
      <4> QED BY <1>1, <1>4, <2>2, <3>1, <4>1 DEF Leader
    <3>2. CASE l = p
      <4> DEFINE g == Head(t.members[q])
      <4>1. t.members[q] \in Seq(Mates) /\ Len(t.members[q]) # 0
        BY <1>1, <1>4, <3>2 DEF Shape, Objects
      <4>2. g \in Mates /\ g \in Members(t, q)
        <5>1. 1 \in DOMAIN t.members[q] /\ g = t.members[q][1] /\ t.members[q][1] \in Mates
          BY <4>1
        <5> QED BY <5>1 DEF Members
      <4>3. Exists(t, g) /\ g # p
        BY <2>2, <3>2, <4>2 DEF Exists
      <4>4. t.party[g] = q
        BY <1>1, <1>4, <4>2, <4>3 DEF Agrees, PeopleAgree
      <4> HIDE DEF g
      <4> DEFINE v == PassLeadership(t, q, g)
      <4>5. /\ v.life = t.life /\ v.party = t.party /\ v.invitations = t.invitations /\ v.invited = t.invited
            /\ Shape(v) /\ \A r \in Parties \ {q} : v.leader[r] = t.leader[r] /\ v.members[r] = t.members[r]
            /\ v.leader[q] = g /\ Members(v, q) = (Members(t, q) \ {g}) \cup {l}
        BY <1>4, <3>2, <4>2, <4>3, <4>4, PassFacts
      <4>6. w = v /\ h = g
        BY <3>2 DEF g
      <4> HIDE DEF v, w, h, l
      <4> QED BY <2>2, <3>2, <4>2, <4>3, <4>5, <4>6
    <3> QED BY <3>1, <3>2
  <2> HIDE DEF w, h, u
  <2>4. /\ Shape(left) /\ Within(t, left, q) /\ Agrees(left, q) /\ left.party[p] = Nil
        /\ SafeIn(t, q) => SafeIn(left, q)
    <3>1. Leader(t, q) # Nil /\ (Members(w, q) \ {p}) \cup {h, p} = Members(t, q) \cup {Leader(t, q)}
      BY <1>4, <2>3
    <3> HIDE DEF missing, l
    <3>2. TakenOff(t, w, left, q, p, h)
      BY <2>3, <3>1 DEF TakenOff
    <3> HIDE DEF left
    <3> QED BY <3>2, TakenOffSound
  <2> HIDE DEF left
  <2>5. Done(t, u, q) /\ u.party[p] = Nil
    BY <1>1, <2>1, <2>4, IfEmptyDisband
  <2> QED BY <2>5 DEF u
<1> QED BY <1>2, <1>3, <1>4

\* Only p's life has changed, or what invitations he knows of, who has no other
\* place in a party's lists then.
LifeChanged(t, w, p) ==
  /\ w \in Objects
  /\ w.party = t.party /\ w.leader = t.leader /\ w.members = t.members /\ w.invited = t.invited
  /\ \A x \in Mates \ {p} : w.life[x] = t.life[x] /\ w.invitations[x] = t.invitations[x]
  /\ w.life[p] # "gone" => t.life[p] # "gone"
  /\ \/ w.invitations[p] = t.invitations[p]
     \/ w.invitations[p] = {} /\ \A r \in Parties : Leader(t, r) = Nil \/ p \notin t.invited[r]

\* Who does not exist any more can only take his party's leadership with him.
LEMMA LifeChangedSound ==
  ASSUME NEW t, Sound(t), NEW p \in Mates, NEW w, LifeChanged(t, w, p)
  PROVE  /\ Sound(w)
         /\ Safe(t) /\ (t.party[p] = Nil \/ w.life[p] = "online") => Safe(w)
<1>1. Shape(t) /\ Shape(w)
  BY DEF Sound, Shape, LifeChanged
<1>2. \A r : Members(w, r) = Members(t, r)
  BY DEF LifeChanged, Members
<1>3. \A x \in Mates : Exists(w, x) => Exists(t, x)
  BY <1>2 DEF LifeChanged, Exists
<1>4. ASSUME NEW r \in Parties PROVE Leader(w, r) \in {Leader(t, r), Nil}
  <2>1. w.leader[r] = t.leader[r] /\ t.leader[r] \in Mates \cup {Nil}
    BY <1>1 DEF LifeChanged, Shape, Objects
  <2> QED BY <1>3, <2>1 DEF Leader
<1>5. ASSUME NEW r \in Parties PROVE Agrees(w, r) /\ NotLonely(w, r)
  <2>1. PeopleAgree(t, r) /\ InvitesAgree(t, r) /\ NotLonely(t, r) /\ Leader(w, r) \in {Leader(t, r), Nil}
    BY <1>4 DEF Sound, Agrees
  <2>2. PeopleAgree(w, r)
    BY <1>2, <1>3, <2>1 DEF LifeChanged, PeopleAgree
  <2>3. NotLonely(w, r)
    BY <2>1 DEF LifeChanged, NotLonely, Empty
  <2>4. ASSUME NEW x \in Mates, Exists(w, x), r \in w.invitations[x] PROVE x \in w.invited[r]
    <3>1. r \in t.invitations[x]
      BY <2>4 DEF LifeChanged
    <3> QED BY <1>3, <2>1, <2>4, <3>1 DEF LifeChanged, InvitesAgree
  <2>5. ASSUME Leader(w, r) # Nil, NEW x \in w.invited[r]
        PROVE  r \in w.invitations[x] /\ x \notin Members(w, r) \cup {Leader(w, r)}
    <3>1. x \in t.invited[r] /\ x \in Mates /\ Leader(t, r) # Nil /\ Leader(w, r) = Leader(t, r)
      BY <1>1, <2>1, <2>5 DEF LifeChanged, Shape, Objects
    <3>2. r \in t.invitations[x] /\ x \notin Members(t, r) \cup {Leader(t, r)}
      BY <2>1, <3>1 DEF InvitesAgree
    <3>3. w.invitations[x] = t.invitations[x]
      BY <3>1 DEF LifeChanged
    <3> QED BY <1>2, <3>1, <3>2, <3>3
  <2> QED BY <2>2, <2>3, <2>4, <2>5 DEF Agrees, InvitesAgree
<1>6. ASSUME Safe(t), t.party[p] = Nil \/ w.life[p] = "online" PROVE Safe(w)
  <2> SUFFICES ASSUME NEW r \in Parties, NEW x \in Mates, t.party[x] = r
               PROVE  w.life[x] = "online" /\ Leader(w, r) # Nil
    BY DEF Safe, SafeIn, LifeChanged
  <2>1. t.life[x] = "online" /\ Leader(t, r) # Nil
    BY <1>6 DEF Safe, SafeIn
  <2>2. Leader(t, r) \in Mates /\ Exists(t, Leader(t, r)) /\ Leader(t, r) = t.leader[r]
    BY <1>1, <2>1 DEF Leader, Shape, Objects
  <2>3. t.party[Leader(t, r)] = r
    BY <2>1, <2>2 DEF Sound, Agrees, PeopleAgree
  <2>4. t.life[Leader(t, r)] = "online"
    BY <1>6, <2>2, <2>3 DEF Safe, SafeIn
  <2>5. \A y \in Mates : t.party[y] = r /\ t.life[y] = "online" => w.life[y] = "online"
    BY <1>6, PartyAssumption DEF LifeChanged
  <2>6. Exists(w, t.leader[r])
    BY <2>2, <2>3, <2>4, <2>5 DEF Exists
  <2> QED BY <2>1, <2>2, <2>5, <2>6 DEF Leader, LifeChanged
<1> QED BY <1>1, <1>5, <1>6 DEF Sound

\* The loop of clearPartyInvitations after the invitations Q, given what c says
\* of fewer.
ClearStep(t, p, c, Q) == IF Q = {} THEN t ELSE RemoveInvite(c[Q \ {Chosen(Q)}], Chosen(Q), p)

\* The recursion is well founded.
LEMMA ClearExists ==
  ASSUME NEW t, NEW p
  PROVE  \E c : c = [Q \in SUBSET Parties |-> ClearStep(t, p, c, Q)]
<1> DEFINE Solved(T, g) == \A Q \in SUBSET Parties : Cardinality(Q) <= Cardinality(T) => g[Q] = ClearStep(t, p, g, Q)
           Good == {T \in SUBSET Parties : \E g : Solved(T, g)}
<1>0. IsFiniteSet(Parties)
  BY PartyAssumption
<1>1. ASSUME NEW Q \in SUBSET Parties
      PROVE  /\ IsFiniteSet(Q) /\ Cardinality(Q) \in Nat /\ Cardinality(Q) <= Cardinality(Parties)
             /\ Cardinality(Q) = 0 <=> Q = {}
             /\ \A x \in Q : Cardinality(Q \ {x}) = Cardinality(Q) - 1
  BY <1>0, FS_Subset, FS_CardinalityType, FS_EmptySet, FS_RemoveElement
<1>2. {} \in Good
  <2> DEFINE z == [Q \in SUBSET Parties |-> t]
  <2>1. ASSUME NEW Q \in SUBSET Parties, Cardinality(Q) <= Cardinality({}) PROVE z[Q] = ClearStep(t, p, z, Q)
    <3>1. Cardinality({}) = 0 /\ Cardinality(Q) \in Nat
      BY <1>1, FS_EmptySet
    <3>2. Q = {}
      BY <1>1, <2>1, <3>1
    <3> QED BY <3>2 DEF ClearStep
  <2>2. Solved({}, z)
    BY <2>1
  <2> QED BY <2>2
<1>3. ASSUME NEW T \in Good, NEW x \in Parties \ T PROVE T \cup {x} \in Good
  <2>1. PICK g : Solved(T, g)
    OBVIOUS
  <2> DEFINE h == [Q \in SUBSET Parties |-> IF Cardinality(Q) <= Cardinality(T) THEN g[Q] ELSE ClearStep(t, p, g, Q)]
  <2>2. Cardinality(T) \in Nat /\ Cardinality(T \cup {x}) = Cardinality(T) + 1
    BY <1>1, FS_AddElement
  <2>3. ASSUME NEW Q \in SUBSET Parties, Cardinality(Q) <= Cardinality(T) + 1 PROVE h[Q] = ClearStep(t, p, h, Q)
    <3>1. h[Q] = ClearStep(t, p, g, Q)
      BY <2>1
    <3>2. CASE Q = {}
      BY <3>1, <3>2 DEF ClearStep
    <3>3. CASE Q # {}
      <4>1. Chosen(Q) \in Q
        BY <3>3 DEF Chosen
      <4>2. Q \ {Chosen(Q)} \in SUBSET Parties /\ Cardinality(Q \ {Chosen(Q)}) <= Cardinality(T)
        BY <1>1, <2>2, <2>3, <4>1
      <4>3. h[Q \ {Chosen(Q)}] = g[Q \ {Chosen(Q)}]
        BY <4>2
      <4> HIDE DEF h
      <4> QED BY <3>1, <3>3, <4>3 DEF ClearStep
    <3> QED BY <3>2, <3>3
  <2>4. Solved(T \cup {x}, h)
    BY <2>2, <2>3
  <2> HIDE DEF h
  <2> QED BY <2>4
<1>4. Parties \in Good
  <2> HIDE DEF Good
  <2>1. Good \in SUBSET SUBSET Parties
    BY DEF Good
  <2> QED BY <1>0, <1>2, <1>3, <2>1, SubsetInduction
<1>5. PICK g : Solved(Parties, g)
  BY <1>4
<1> DEFINE c == [Q \in SUBSET Parties |-> g[Q]]
<1>6. ASSUME NEW Q \in SUBSET Parties PROVE g[Q] = ClearStep(t, p, c, Q)
  <2>1. g[Q] = ClearStep(t, p, g, Q)
    BY <1>1, <1>5
  <2>2. c[Q \ {Chosen(Q)}] = g[Q \ {Chosen(Q)}]
    OBVIOUS
  <2> HIDE DEF c
  <2> QED BY <2>1, <2>2 DEF ClearStep
<1>7. c = [Q \in SUBSET Parties |-> ClearStep(t, p, c, Q)]
  BY <1>6
<1> HIDE DEF c
<1> QED BY <1>7

\* The objects u after some invitations of p were looked at: those in Q.
Cleared(t, u, p, Q) ==
  /\ Sound(u) /\ (Safe(t) => Safe(u)) /\ u.life = t.life
  /\ \A r \in Parties : Leader(u, r) \in {Leader(t, r), Nil} /\ u.invited[r] \subseteq t.invited[r]
  /\ \A r \in Q : Leader(u, r) = Nil \/ p \notin u.invited[r]
  /\ \A x \in Mates : t.party[x] = Nil => u.party[x] = Nil

LEMMA ClearOne ==
  ASSUME NEW t, NEW p \in Mates, NEW Q \in SUBSET Parties, NEW q \in Parties, NEW u, Cleared(t, u, p, Q)
  PROVE  Cleared(t, RemoveInvite(u, q, p), p, Q \cup {q})
<1> DEFINE v == RemoveInvite(u, q, p)
<1>1. Sound(u) /\ Shape(u)
  BY DEF Cleared, Sound
<1>2. /\ Done(u, v, q) /\ Leader(v, q) \in {Leader(u, q), Nil} /\ v.invited[q] \subseteq u.invited[q]
      /\ Leader(v, q) = Nil \/ p \notin v.invited[q]
  BY <1>1, RemoveInviteDone
<1> HIDE DEF v
<1>3. Sound(v) /\ (Safe(u) => Safe(v)) /\ v.life = u.life /\ \A x \in Mates : u.party[x] = Nil => v.party[x] = Nil
  BY <1>1, <1>2, DoneSound
<1>4. ASSUME NEW r \in Parties \ {q} PROVE Leader(v, r) \in {Leader(u, r), Nil} /\ v.invited[r] = u.invited[r]
  <2>1. Within(u, v, q)
    BY <1>2 DEF Done
  <2> QED BY <1>1, <2>1, WithinLeader DEF Within
<1>5. \A r \in Parties : Leader(v, r) \in {Leader(u, r), Nil} /\ v.invited[r] \subseteq u.invited[r]
  BY <1>2, <1>4
<1>6. \A r \in Parties : Leader(v, r) \in {Leader(t, r), Nil} /\ v.invited[r] \subseteq t.invited[r]
  BY <1>5 DEF Cleared
<1>7. \A r \in Q \cup {q} : Leader(v, r) = Nil \/ p \notin v.invited[r]
  BY <1>2, <1>5 DEF Cleared
<1> QED BY <1>3, <1>6, <1>7 DEF Cleared, v

\* By induction over the sets of invitations.
LEMMA ClearAll ==
  ASSUME NEW t, Sound(t), NEW p \in Mates, NEW c, c = [Q \in SUBSET Parties |-> ClearStep(t, p, c, Q)]
  PROVE  \A Q \in SUBSET Parties : Cleared(t, c[Q], p, Q)
<1> DEFINE Bad == {Q \in SUBSET Parties : ~Cleared(t, c[Q], p, Q)}
<1>1. ASSUME Bad # {} PROVE FALSE
  <2>1. PICK Q \in Bad : \A U \in Bad : U \subseteq Q => U = Q
    <3>1. Bad \in SUBSET SUBSET Parties /\ IsFiniteSet(Parties)
      BY PartyAssumption
    <3> HIDE DEF Bad
    <3> QED BY <1>1, <3>1, SmallestSubset
  <2>2. Q \in SUBSET Parties /\ c[Q] = ClearStep(t, p, c, Q)
    <3> HIDE DEF Cleared
    <3>1. Q \in SUBSET Parties
      OBVIOUS
    <3> QED BY <3>1
  <2>3. CASE Q = {}
    <3>1. c[Q] = t
      BY <2>2, <2>3 DEF ClearStep
    <3>2. Cleared(t, t, p, Q)
      BY <2>3 DEF Cleared
    <3> QED BY <3>1, <3>2
  <2>4. CASE Q # {}
    <3> DEFINE q == Chosen(Q)
    <3>1. q \in Q
      BY <2>4 DEF Chosen
    <3> HIDE DEF q
    <3>2. q \in Parties /\ Q \ {q} \in SUBSET Parties /\ (Q \ {q}) \cup {q} = Q /\ Q \ {q} # Q
      BY <2>2, <3>1
    <3>3. Q \ {q} \notin Bad
      BY <2>1, <3>2
    <3>4. Cleared(t, c[Q \ {q}], p, Q \ {q})
      BY <3>2, <3>3
    <3>5. Cleared(t, RemoveInvite(c[Q \ {q}], q, p), p, Q)
      BY <3>2, <3>4, ClearOne
    <3>6. c[Q] = RemoveInvite(c[Q \ {q}], q, p)
      BY <2>2, <2>4 DEF ClearStep, q
    <3> QED BY <3>5, <3>6
  <2> QED BY <2>3, <2>4
<1> QED BY <1>1

\* A logout: whoever goes is known as an invitee to no party that has a leader.
LEMMA ClearSound ==
  ASSUME NEW t, Sound(t), NEW p \in Mates
  PROVE  LET w == [ClearInvitations(t, p) EXCEPT !.life[p] = "gone"]
         IN Sound(w) /\ (Safe(t) /\ t.party[p] = Nil => Safe(w))
<1> DEFINE Fixed(c) == c = [Q \in SUBSET Parties |->
                             IF Q = {} THEN t
                             ELSE LET q == CHOOSE q \in Q : TRUE IN RemoveInvite(c[Q \ {q}], q, p)]
           c == CHOOSE c : Fixed(c)
           Q == t.invitations[p]
           u == c[Q]
           w == [ClearInvitations(t, p) EXCEPT !.life[p] = "gone"]
<1>1. \E d : Fixed(d)
  <2>1. PICK d : d = [R \in SUBSET Parties |-> ClearStep(t, p, d, R)]
    BY ClearExists
  <2>2. Fixed(d)
    BY <2>1 DEF ClearStep, Chosen
  <2> QED BY <2>2
<1>2. Fixed(c)
  BY <1>1, Zenon
<1>3. ClearInvitations(t, p) = [u EXCEPT !.invitations[p] = {}]
  BY Zenon DEF ClearInvitations
<1> HIDE DEF c
<1>4. Cleared(t, u, p, Q)
  <2>1. c = [R \in SUBSET Parties |-> ClearStep(t, p, c, R)]
    BY <1>2 DEF ClearStep, Chosen
  <2>2. Q \in SUBSET Parties
    BY DEF Sound, Shape, Objects
  <2> HIDE DEF Fixed, Q
  <2> QED BY <2>1, <2>2, ClearAll
<1>5. w = [u EXCEPT !.invitations[p] = {}, !.life[p] = "gone"]
  BY <1>3
<1> HIDE DEF u, w
<1>6. Shape(u) /\ u.life = t.life
  BY <1>4 DEF Cleared, Sound
<1>7. ASSUME NEW r \in Parties PROVE Leader(u, r) = Nil \/ p \notin u.invited[r]
  <2>1. CASE r \in Q
    BY <1>4, <2>1 DEF Cleared
  <2>2. CASE r \notin Q
    <3>1. Leader(t, r) = Nil \/ p \notin t.invited[r]
      BY <2>2 DEF Sound, Agrees, InvitesAgree
    <3> QED BY <1>4, <3>1 DEF Cleared
  <2> QED BY <2>1, <2>2
<1>8. LifeChanged(u, w, p)
  <2>1. /\ w \in Objects /\ w.party = u.party /\ w.leader = u.leader /\ w.members = u.members
        /\ w.invited = u.invited /\ w.life = [u.life EXCEPT ![p] = "gone"]
        /\ w.invitations = [u.invitations EXCEPT ![p] = {}]
    BY <1>5, <1>6 DEF Shape, Objects
  <2>2. /\ \A x \in Mates \ {p} : w.life[x] = u.life[x] /\ w.invitations[x] = u.invitations[x]
        /\ w.life[p] = "gone" /\ w.invitations[p] = {}
    BY <1>6, <2>1 DEF Shape, Objects
  <2> QED BY <1>7, <2>1, <2>2 DEF LifeChanged
<1>9. Sound(u) /\ (Safe(t) /\ t.party[p] = Nil => Safe(u) /\ u.party[p] = Nil)
  BY <1>4 DEF Cleared
<1> QED BY <1>8, <1>9, LifeChangedSound DEF w

-----------------------------------------------------------------------------
(* The requests and the lives of the players. *)

LEMMA PartyStarts == PartyInit => PartyInv
<1> SUFFICES ASSUME PartyInit PROVE PartyInv
  OBVIOUS
<1>1. Shape(s)
  BY DEF PartyInit, Shape, Objects, OnceEach
<1>2. \A q \in Parties : Leader(s, q) = Nil
  BY DEF PartyInit, Leader
<1>3. \A q \in Parties, x \in Mates : s.invitations[x] = {} /\ s.party[x] = Nil /\ q # Nil
  BY PartyAssumption DEF PartyInit
<1> QED BY <1>1, <1>2, <1>3
  DEF PartyInit, PartyInv, Sound, Safe, SafeIn, Agrees, PeopleAgree, InvitesAgree, NotLonely

\* An operation on one party keeps the invariant.
LEMMA DoneKeeps ==
  ASSUME PartyInv, NEW q \in Parties, Done(s, s', q), UNCHANGED leaveOnDeath
  PROVE  PartyInv'
<1>1. Sound(s') /\ (Safe(s) => Safe(s'))
  BY DoneSound DEF PartyInv
<1> QED BY <1>1 DEF PartyInv

LEMMA InviteKeeps ==
  ASSUME PartyInv, NEW p \in Mates, NEW o \in Mates, Invite(p, o)
  PROVE  PartyInv'
<1>0. PICK q \in Parties :
       LET t == IF s.party[p] = Nil THEN [s EXCEPT !.party[p] = q, !.leader[q] = p] ELSE s
       IN /\ IF s.party[p] = Nil THEN Unled(q) ELSE q = s.party[p]
          /\ Leader(t, q) = p
          /\ o \notin t.invited[q]
          /\ s' = [t EXCEPT !.invited[q] = @ \union {o}, !.invitations[o] = @ \union {q}]
  BY DEF Invite
<1>1. Shape(s) /\ s.life[p] = "online" /\ s.life[o] = "online" /\ p # o /\ s.party[o] = Nil /\ q # Nil
      /\ s.party[p] \in {Nil, q} /\ UNCHANGED leaveOnDeath
  BY <1>0, PartyAssumption DEF PartyInv, Sound, Invite, OnlineMates
<1>2. /\ s'.life = s.life /\ s'.members = s.members
      /\ s'.party = IF s.party[p] = Nil THEN [s.party EXCEPT ![p] = q] ELSE s.party
      /\ s'.leader = IF s.party[p] = Nil THEN [s.leader EXCEPT ![q] = p] ELSE s.leader
      /\ s'.invited = [s.invited EXCEPT ![q] = @ \cup {o}]
      /\ s'.invitations = [s.invitations EXCEPT ![o] = @ \cup {q}]
      /\ s' \in Objects
  <2>1. CASE s.party[p] = Nil
    <3>1. s' = [s EXCEPT !.party[p] = q, !.leader[q] = p, !.invited[q] = @ \cup {o}, !.invitations[o] = @ \cup {q}]
      BY <1>0, <1>1, <2>1 DEF Shape, Objects
    <3> QED BY <1>1, <2>1, <3>1 DEF Shape, Objects
  <2>2. CASE s.party[p] # Nil
    <3>1. s' = [s EXCEPT !.invited[q] = @ \cup {o}, !.invitations[o] = @ \cup {q}]
      BY <1>0, <2>2
    <3> QED BY <1>1, <2>2, <3>1 DEF Shape, Objects
  <2> QED BY <2>1, <2>2
<1>3. /\ \A r \in Parties : s'.invited[r] = IF r = q THEN s.invited[r] \cup {o} ELSE s.invited[r]
      /\ \A x \in Mates : s'.invitations[x] = IF x = o THEN s.invitations[x] \cup {q} ELSE s.invitations[x]
      /\ \A x \in Mates : s'.party[x] = IF x = p THEN q ELSE s.party[x]
      /\ \A r \in Parties \ {q} : s'.leader[r] = s.leader[r]
      /\ \A r : Members(s', r) = Members(s, r)
  <2>2. \A r \in Parties : s'.invited[r] = IF r = q THEN s.invited[r] \cup {o} ELSE s.invited[r]
    <3>1. s.invited \in [Parties -> SUBSET Mates] /\ s'.invited = [s.invited EXCEPT ![q] = @ \cup {o}]
      BY <1>1, <1>2 DEF Shape, Objects
    <3> QED BY <3>1
  <2>3. \A x \in Mates : s'.invitations[x] = IF x = o THEN s.invitations[x] \cup {q} ELSE s.invitations[x]
    <3>1. s.invitations \in [Mates -> SUBSET Parties] /\ s'.invitations = [s.invitations EXCEPT ![o] = @ \cup {q}]
      BY <1>1, <1>2 DEF Shape, Objects
    <3> QED BY <3>1
  <2>4. \A x \in Mates : s'.party[x] = IF x = p THEN q ELSE s.party[x]
    BY <1>1, <1>2 DEF Shape, Objects
  <2>5. \A r \in Parties \ {q} : s'.leader[r] = s.leader[r]
    BY <1>1, <1>2 DEF Shape, Objects
  <2>6. \A r : Members(s', r) = Members(s, r)
    BY <1>2 DEF Members
  <2> QED BY <2>2, <2>3, <2>4, <2>5, <2>6
<1>4. \A x \in Mates : Exists(s', x) <=> Exists(s, x)
  BY <1>1, <1>2, <1>3 DEF Exists
<1>5. ASSUME NEW r \in Parties \ {q} PROVE Leader(s', r) = Leader(s, r)
  <2>1. s.leader[r] \in Mates \cup {Nil}
    BY <1>1 DEF Shape, Objects
  <2> QED BY <1>3, <1>4, <2>1 DEF Leader
<1>6. Leader(s', q) = p
  <2>1. CASE s.party[p] = Nil
    <3>1. s'.leader[q] = p /\ Exists(s', p) /\ p # Nil
      BY <1>1, <1>2, <2>1, PartyAssumption DEF Exists, Shape, Objects
    <3> QED BY <3>1 DEF Leader
  <2>2. CASE s.party[p] # Nil
    <3>1. Leader(s, q) = p /\ s'.leader = s.leader
      BY <1>0, <1>2, <2>2
    <3>2. s.leader[q] = p /\ p # Nil /\ Exists(s', p)
      BY <1>1, <1>2, <3>1, PartyAssumption DEF Leader, Exists
    <3> QED BY <3>1, <3>2 DEF Leader
  <2> QED BY <2>1, <2>2
<1>7. ASSUME NEW r \in Parties \ {q} PROVE Agrees(s', r) /\ NotLonely(s', r) /\ (SafeIn(s, r) => SafeIn(s', r))
  <2>1. Agrees(s, r) /\ NotLonely(s, r) /\ Leader(s', r) = Leader(s, r) /\ s'.invited[r] = s.invited[r]
        /\ s'.members[r] = s.members[r]
    BY <1>2, <1>3, <1>5 DEF PartyInv, Sound
  <2>2. \A x \in Mates : s'.party[x] = r <=> s.party[x] = r
    <3>1. s.party[p] \in {Nil, q} /\ r \notin {Nil, q}
      BY <1>1, PartyAssumption
    <3> QED BY <1>3, <3>1
  <2>3. PeopleAgree(s', r)
    BY <1>3, <1>4, <2>1, <2>2 DEF Agrees, PeopleAgree
  <2>4. InvitesAgree(s', r)
    <3>1. \A x \in Mates : r \in s'.invitations[x] <=> r \in s.invitations[x]
      BY <1>3
    <3>2. s.invited[r] \subseteq Mates
      BY <1>1 DEF Shape, Objects
    <3> QED BY <1>3, <1>4, <2>1, <3>1, <3>2 DEF Agrees, InvitesAgree
  <2>5. NotLonely(s', r)
    BY <2>1 DEF NotLonely, Empty
  <2>6. SafeIn(s, r) => SafeIn(s', r)
    BY <1>2, <2>1, <2>2 DEF SafeIn
  <2> QED BY <2>3, <2>4, <2>5, <2>6 DEF Agrees
<1>8. ASSUME NEW x \in Mates PROVE x \notin {p, o} => (Exists(s, x) => (s.party[x] = q <=> x \in Members(s, q)))
  <2>1. CASE s.party[p] = Nil
    <3>1. s.party[x] # q /\ s.members[q] = <<>>
      BY <1>0, <2>1 DEF Unled, Empty
    <3> QED BY <3>1 DEF Members
  <2>2. CASE s.party[p] # Nil
    <3>1. Leader(s, q) = p /\ p # Nil
      BY <1>0, <1>1, <2>2, PartyAssumption
    <3> QED BY <3>1 DEF PartyInv, Sound, Agrees, PeopleAgree
  <2> QED BY <2>1, <2>2
<1>9. p \notin Members(s, q) /\ o \notin Members(s, q) /\ p \notin s.invited[q]
  <2>1. CASE s.party[p] = Nil
    BY <1>0, <1>1, <2>1 DEF Unled, Empty, Members
  <2>2. CASE s.party[p] # Nil
    <3>1. Leader(s, q) = p /\ p # Nil
      BY <1>0, <1>1, <2>2, PartyAssumption
    <3>2. Exists(s, o)
      BY <1>1 DEF Exists
    <3> QED BY <1>1, <3>1, <3>2 DEF PartyInv, Sound, Agrees, PeopleAgree, InvitesAgree
  <2> QED BY <2>1, <2>2
<1>10. PeopleAgree(s', q)
  <2> SUFFICES ASSUME NEW x \in Mates, Exists(s', x)
               PROVE  s'.party[x] = q <=> x \in Members(s, q) \cup {p}
    BY <1>3, <1>6, <1>9 DEF PeopleAgree
  <2> QED BY <1>1, <1>3, <1>4, <1>8, <1>9
<1>11. InvitesAgree(s', q)
  <2>1. \A x \in Mates : Exists(s, x) /\ q \in s.invitations[x] => x \in s.invited[q]
    BY DEF PartyInv, Sound, Agrees, InvitesAgree
  <2>2. \A x \in s.invited[q] : x \in Mates /\ q \in s.invitations[x] /\ x \notin Members(s, q) \cup {p}
    <3>1. CASE s.party[p] = Nil
      BY <1>0, <3>1 DEF Unled, Empty
    <3>2. CASE s.party[p] # Nil
      <4>1. Leader(s, q) = p /\ p # Nil /\ s.invited[q] \subseteq Mates
        BY <1>0, <1>1, <3>2, PartyAssumption DEF Shape, Objects
      <4> QED BY <4>1 DEF PartyInv, Sound, Agrees, InvitesAgree
    <3> QED BY <3>1, <3>2
  <2>3. \A x \in Mates : Exists(s', x) /\ q \in s'.invitations[x] => x \in s'.invited[q]
    BY <1>3, <1>4, <2>1
  <2>4. \A x \in s'.invited[q] : q \in s'.invitations[x] /\ x \notin Members(s, q) \cup {p}
    <3> SUFFICES ASSUME NEW x \in s'.invited[q] PROVE q \in s'.invitations[x] /\ x \notin Members(s, q) \cup {p}
      OBVIOUS
    <3>1. CASE x = o
      BY <1>1, <1>3, <1>9, <3>1
    <3>2. CASE x # o
      <4>1. x \in s.invited[q]
        BY <1>3, <3>2
      <4> QED BY <1>3, <2>2, <3>2, <4>1
    <3> QED BY <3>1, <3>2
  <2> QED BY <1>3, <1>6, <2>3, <2>4 DEF InvitesAgree
<1>12. NotLonely(s', q)
  <2>1. s'.invited[q] # {}
    BY <1>3
  <2> QED BY <2>1 DEF NotLonely, Empty
<1>13. SafeIn(s, q) => SafeIn(s', q)
  BY <1>1, <1>2, <1>3, <1>6, PartyAssumption DEF SafeIn
<1>14. Sound(s')
  <2>1. \A r \in Parties : OnceEach(s'.members[r])
    BY <1>1, <1>2 DEF Shape
  <2> QED BY <1>2, <1>7, <1>10, <1>11, <1>12, <2>1 DEF Sound, Shape, Agrees
<1>15. Safe(s) => Safe(s')
  BY <1>7, <1>13 DEF Safe
<1> QED BY <1>1, <1>14, <1>15 DEF PartyInv

LEMMA JoinKeeps ==
  ASSUME PartyInv, NEW p \in Mates, NEW l \in Mates, Join(p, l)
  PROVE  PartyInv'
<1> DEFINE q == s.party[l]
<1>1. Shape(s) /\ s.life[p] = "online" /\ s.life[l] = "online" /\ s.party[p] = Nil
      /\ q \in Parties /\ Leader(s, q) = l /\ p \in s.invited[q] /\ l # Nil /\ UNCHANGED leaveOnDeath
  BY PartyAssumption DEF PartyInv, Sound, Join, OnlineMates, Inviting, Shape, Objects
<1>2. s' = [s EXCEPT !.party[p] = q, !.members[q] = Append(@, p), !.invited[q] = @ \ {p}, !.invitations[p] = @ \ {q}]
  BY DEF Join
<1> HIDE DEF q
<1>3. Agrees(s, q) /\ Exists(s, p) /\ Exists(s, l) /\ q # Nil
  BY <1>1, PartyAssumption DEF PartyInv, Sound, Exists
<1>4. p \notin Members(s, q) /\ p # l /\ l \notin Members(s, q) /\ s.party[l] = q
  BY <1>1, <1>3 DEF Agrees, PeopleAgree
<1>5. Append(s.members[q], p) \in Seq(Mates) /\ OnceEach(Append(s.members[q], p))
      /\ Listed(Append(s.members[q], p)) = Members(s, q) \cup {p}
  <2>1. s.members[q] \in Seq(Mates) /\ OnceEach(s.members[q]) /\ Listed(s.members[q]) = Members(s, q)
    BY <1>1 DEF Shape, Objects, Listed, Members
  <2> QED BY <1>4, <2>1, AppendFacts
<1>6. /\ s'.life = s.life /\ s'.leader = s.leader
      /\ s'.party = [s.party EXCEPT ![p] = q]
      /\ s'.members = [s.members EXCEPT ![q] = Append(@, p)]
      /\ s'.invited = [s.invited EXCEPT ![q] = @ \ {p}]
      /\ s'.invitations = [s.invitations EXCEPT ![p] = @ \ {q}]
      /\ s' \in Objects
  BY <1>1, <1>2, <1>5 DEF Shape, Objects
<1>7. /\ \A r \in Parties : s'.invited[r] = IF r = q THEN s.invited[r] \ {p} ELSE s.invited[r]
      /\ \A x \in Mates : s'.invitations[x] = IF x = p THEN s.invitations[x] \ {q} ELSE s.invitations[x]
      /\ \A x \in Mates : s'.party[x] = IF x = p THEN q ELSE s.party[x]
      /\ \A r \in Parties : s'.members[r] = IF r = q THEN Append(s.members[q], p) ELSE s.members[r]
  BY <1>1, <1>6 DEF Shape, Objects
<1>8. \A r \in Parties : Members(s', r) = IF r = q THEN Members(s, q) \cup {p} ELSE Members(s, r)
  <2>1. \A r \in Parties : Members(s', r) = Listed(s'.members[r]) /\ Members(s, r) = Listed(s.members[r])
    BY DEF Members, Listed
  <2> QED BY <1>5, <1>7, <2>1
<1>9. \A x \in Mates : Exists(s', x) <=> Exists(s, x)
  BY <1>1, <1>6, <1>7, <1>8 DEF Exists
<1>10. ASSUME NEW r \in Parties PROVE Leader(s', r) = Leader(s, r)
  <2>1. s.leader[r] \in Mates \cup {Nil}
    BY <1>1 DEF Shape, Objects
  <2> QED BY <1>6, <1>9, <2>1 DEF Leader
<1>11. ASSUME NEW r \in Parties PROVE PeopleAgree(s', r)
  <2>0. PeopleAgree(s, r) /\ r # Nil
    BY PartyAssumption DEF PartyInv, Sound, Agrees
  <2>1. Leader(s, r) # Nil => p # Leader(s, r) /\ p \notin Members(s, r)
    BY <1>1, <1>3, <2>0 DEF PeopleAgree
  <2>2. CASE r = q
    BY <1>1, <1>4, <1>7, <1>8, <1>9, <1>10, <2>0, <2>1, <2>2 DEF PeopleAgree
  <2>3. CASE r # q
    BY <1>1, <1>7, <1>8, <1>9, <1>10, <2>0, <2>1, <2>3 DEF PeopleAgree
  <2> QED BY <2>2, <2>3
<1>12. ASSUME NEW r \in Parties PROVE InvitesAgree(s', r)
  <2>1. InvitesAgree(s, r) /\ s.invited[r] \subseteq Mates
    BY <1>1 DEF PartyInv, Sound, Agrees, Shape, Objects
  <2>2. \A x \in Mates : Exists(s', x) /\ r \in s'.invitations[x] => x \in s'.invited[r]
    BY <1>7, <1>9, <2>1 DEF InvitesAgree
  <2>3. ASSUME Leader(s', r) # Nil, NEW x \in s'.invited[r]
        PROVE  r \in s'.invitations[x] /\ x \notin Members(s', r) \cup {Leader(s', r)}
    <3>1. x \in s.invited[r] /\ x \in Mates /\ (r = q => x # p) /\ Leader(s, r) # Nil
      BY <1>7, <1>10, <2>1, <2>3
    <3>2. r \in s.invitations[x] /\ x \notin Members(s, r) \cup {Leader(s, r)}
      BY <2>1, <3>1 DEF InvitesAgree
    <3> QED BY <1>7, <1>8, <1>10, <3>1, <3>2
  <2> QED BY <2>2, <2>3 DEF InvitesAgree
<1>13. ASSUME NEW r \in Parties PROVE NotLonely(s', r)
  <2>1. CASE r = q
    <3>1. Members(s', q) # {}
      BY <1>1, <1>8
    <3> QED BY <2>1, <3>1 DEF NotLonely, Empty, Members
  <2>2. CASE r # q
    BY <1>7, <1>10, <2>2 DEF PartyInv, Sound, NotLonely, Empty
  <2> QED BY <2>1, <2>2
<1>14. ASSUME Safe(s), NEW r \in Parties PROVE SafeIn(s', r)
  BY <1>1, <1>6, <1>7, <1>10, <1>14 DEF Safe, SafeIn
<1>15. Sound(s')
  <2>1. \A r \in Parties : OnceEach(s'.members[r])
    BY <1>1, <1>5, <1>7 DEF Shape
  <2> QED BY <1>6, <1>11, <1>12, <1>13, <2>1 DEF Sound, Shape, Agrees
<1> QED BY <1>1, <1>14, <1>15 DEF PartyInv, Safe

\* Whoever is online leaves his party soundly, and for good when it has a leader.
LEMMA LeaveKeeps ==
  ASSUME PartyInv, NEW p \in Mates, s.life[p] = "online", s.party[p] # Nil
  PROVE  /\ Sound(LeaveParty(s, s.party[p], p))
         /\ LeaveParty(s, s.party[p], p).life = s.life
         /\ Safe(s) => Safe(LeaveParty(s, s.party[p], p)) /\ LeaveParty(s, s.party[p], p).party[p] = Nil
<1> DEFINE q == s.party[p]
           u == LeaveParty(s, q, p)
<1>1. q \in Parties /\ Sound(s)
  BY DEF PartyInv, Sound, Shape, Objects
<1>2. Done(s, u, q) /\ (Leader(s, q) # Nil => u.party[p] = Nil)
  BY <1>1, LeaveDone
<1> HIDE DEF u
<1>3. Sound(u) /\ (Safe(s) => Safe(u)) /\ u.life = s.life
  BY <1>1, <1>2, DoneSound
<1>4. Safe(s) => Leader(s, q) # Nil
  BY <1>1 DEF Safe, SafeIn
<1> QED BY <1>2, <1>3, <1>4 DEF u

\* Dying, rising and deserting.
LEMMA LifeKeeps ==
  ASSUME PartyInv, NEW p \in Mates, NEW t, Sound(t), NEW v \in {"online", "dead", "gone"},
         s' = [t EXCEPT !.life[p] = v], UNCHANGED leaveOnDeath, v # "gone" => t.life[p] # "gone",
         leaveOnDeath => Safe(t) /\ (t.party[p] = Nil \/ v = "online")
  PROVE  PartyInv'
<1>1. LifeChanged(t, s', p)
  BY DEF Sound, Shape, Objects, LifeChanged
<1>2. s'.life[p] = v
  BY DEF Sound, Shape, Objects
<1>3. Sound(s') /\ (leaveOnDeath => Safe(s'))
  BY <1>1, <1>2, LifeChangedSound
<1> QED BY <1>3 DEF PartyInv

LEMMA LoginKeeps ==
  ASSUME PartyInv, NEW p \in Mates, LoginMate(p)
  PROVE  PartyInv'
<1>1. /\ s' = [s EXCEPT !.life[p] = "online", !.party[p] = Nil, !.invitations[p] = {},
                        !.leader = [q \in Parties |-> IF @[q] = p THEN Nil ELSE @[q]]]
      /\ UNCHANGED leaveOnDeath /\ ~Exists(s, p)
  BY DEF LoginMate
<1>2. Shape(s) /\ p # Nil
  BY PartyAssumption DEF PartyInv, Sound
<1>3. /\ s'.life = [s.life EXCEPT ![p] = "online"] /\ s'.party = [s.party EXCEPT ![p] = Nil]
      /\ s'.invitations = [s.invitations EXCEPT ![p] = {}]
      /\ s'.leader = [q \in Parties |-> IF s.leader[q] = p THEN Nil ELSE s.leader[q]]
      /\ s'.members = s.members /\ s'.invited = s.invited
      /\ s' \in Objects
  BY <1>1, <1>2 DEF Shape, Objects
<1>4. /\ \A x \in Mates : /\ s'.life[x] = IF x = p THEN "online" ELSE s.life[x]
                          /\ s'.party[x] = IF x = p THEN Nil ELSE s.party[x]
                          /\ s'.invitations[x] = IF x = p THEN {} ELSE s.invitations[x]
      /\ \A q \in Parties : s'.leader[q] = IF s.leader[q] = p THEN Nil ELSE s.leader[q]
      /\ \A q : Members(s', q) = Members(s, q)
      /\ \A q \in Parties : p \notin Members(s, q) /\ p \notin s.invited[q]
  <2>1. \A x \in Mates : /\ s'.life[x] = IF x = p THEN "online" ELSE s.life[x]
                         /\ s'.party[x] = IF x = p THEN Nil ELSE s.party[x]
                         /\ s'.invitations[x] = IF x = p THEN {} ELSE s.invitations[x]
    BY <1>2, <1>3 DEF Shape, Objects
  <2>2. \A q \in Parties : s'.leader[q] = IF s.leader[q] = p THEN Nil ELSE s.leader[q]
    BY <1>3
  <2>3. \A q : Members(s', q) = Members(s, q)
    BY <1>3 DEF Members
  <2>4. \A q \in Parties : p \notin Members(s, q) /\ p \notin s.invited[q]
    BY <1>1 DEF Exists
  <2> QED BY <2>1, <2>2, <2>3, <2>4
<1>5. \A x \in Mates \ {p} : Exists(s', x) <=> Exists(s, x)
  BY <1>3, <1>4 DEF Exists
<1>6. ASSUME NEW q \in Parties PROVE Leader(s', q) = Leader(s, q) /\ Leader(s, q) # p
  <2>1. s.leader[q] \in Mates \cup {Nil}
    BY <1>2 DEF Shape, Objects
  <2>2. CASE s.leader[q] = p
    BY <1>1, <1>2, <1>4, <2>2 DEF Leader
  <2>3. CASE s.leader[q] # p
    <3>1. s'.leader[q] = s.leader[q]
      BY <1>4, <2>3
    <3> QED BY <1>2, <1>5, <2>1, <2>3, <3>1 DEF Leader
  <2> QED BY <2>2, <2>3
<1>7. ASSUME NEW q \in Parties
      PROVE  Agrees(s', q) /\ NotLonely(s', q) /\ (SafeIn(s, q) => SafeIn(s', q))
  <2>1. Agrees(s, q) /\ NotLonely(s, q) /\ q # Nil /\ s.invited[q] \subseteq Mates
    BY <1>2, PartyAssumption DEF PartyInv, Sound, Shape, Objects
  <2>2. PeopleAgree(s', q)
    <3> SUFFICES ASSUME Leader(s, q) # Nil, NEW x \in Mates, Exists(s', x)
                 PROVE  s'.party[x] = q <=> x \in Members(s, q) \cup {Leader(s, q)}
      BY <1>4, <1>6, <2>1 DEF Agrees, PeopleAgree
    <3>1. CASE x = p
      BY <1>4, <1>6, <2>1, <3>1
    <3>2. CASE x # p
      BY <1>4, <1>5, <2>1, <3>2 DEF Agrees, PeopleAgree
    <3> QED BY <3>1, <3>2
  <2>3. InvitesAgree(s', q)
    <3>1. ASSUME NEW x \in Mates, Exists(s', x), q \in s'.invitations[x] PROVE x \in s.invited[q]
      <4>1. x # p
        BY <1>4, <3>1
      <4> QED BY <1>4, <1>5, <2>1, <3>1, <4>1 DEF Agrees, InvitesAgree
    <3>2. ASSUME Leader(s, q) # Nil, NEW x \in s.invited[q]
          PROVE  q \in s'.invitations[x] /\ x \notin Members(s, q) \cup {Leader(s, q)}
      <4>1. x # p /\ x \in Mates
        BY <1>4, <2>1
      <4> QED BY <1>4, <2>1, <3>2, <4>1 DEF Agrees, InvitesAgree
    <3> QED BY <1>3, <1>4, <1>6, <3>1, <3>2 DEF InvitesAgree
  <2>4. NotLonely(s', q)
    BY <1>3, <1>6, <2>1 DEF NotLonely, Empty
  <2>5. SafeIn(s, q) => SafeIn(s', q)
    BY <1>4, <1>6, <2>1 DEF SafeIn
  <2> QED BY <2>2, <2>3, <2>4, <2>5 DEF Agrees
<1>8. Shape(s')
  BY <1>2, <1>3 DEF Shape
<1> QED BY <1>1, <1>7, <1>8 DEF PartyInv, Sound, Safe

LEMMA PartyStep == PartyInv /\ [PartyNext]_partyVars => PartyInv'
<1> SUFFICES ASSUME PartyInv, [PartyNext]_partyVars PROVE PartyInv'
  OBVIOUS
<1>0. Sound(s) /\ Shape(s)
  BY DEF PartyInv, Sound
<1>1. ASSUME NEW p \in Mates, LeaveBy(p) PROVE PartyInv'
  <2>1. s.life[p] = "online" /\ s.party[p] # Nil /\ s' = LeaveParty(s, s.party[p], p) /\ UNCHANGED leaveOnDeath
    BY <1>1 DEF LeaveBy, OnlineMates
  <2>2. Sound(s') /\ (Safe(s) => Safe(s'))
    BY <2>1, LeaveKeeps
  <2> QED BY <2>1, <2>2 DEF PartyInv
<1>2. ASSUME NEW p \in Mates, LogoutMate(p) PROVE PartyInv'
  <2> DEFINE left == IF s.party[p] = Nil THEN s ELSE LeaveParty(s, s.party[p], p)
  <2>1. s.life[p] = "online" /\ s' = [ClearInvitations(left, p) EXCEPT !.life[p] = "gone"] /\ UNCHANGED leaveOnDeath
    BY <1>2 DEF LogoutMate, OnlineMates
  <2>2. Sound(left) /\ (Safe(s) => Safe(left) /\ left.party[p] = Nil)
    BY <1>0, <2>1, LeaveKeeps
  <2> HIDE DEF left
  <2>3. Sound(s') /\ (Safe(s) => Safe(s'))
    BY <2>1, <2>2, ClearSound
  <2> QED BY <2>1, <2>3 DEF PartyInv
<1>3. ASSUME NEW p \in Mates, Perish(p) PROVE PartyInv'
  <2> DEFINE left == IF leaveOnDeath /\ s.party[p] # Nil THEN LeaveParty(s, s.party[p], p) ELSE s
  <2>1. s.life[p] = "online" /\ s' = [left EXCEPT !.life[p] = "dead"] /\ UNCHANGED leaveOnDeath
    BY <1>3 DEF Perish, OnlineMates
  <2>2. Sound(left) /\ left.life = s.life /\ (leaveOnDeath => Safe(left) /\ left.party[p] = Nil)
    BY <1>0, <2>1, LeaveKeeps DEF PartyInv
  <2> HIDE DEF left
  <2> QED BY <2>1, <2>2, LifeKeeps
<1>4. ASSUME NEW p \in Mates, Rise(p) PROVE PartyInv'
  <2>1. s.life[p] = "dead" /\ s' = [s EXCEPT !.life[p] = "online"] /\ UNCHANGED leaveOnDeath
    BY <1>4 DEF Rise
  <2> QED BY <1>0, <2>1, LifeKeeps DEF PartyInv
<1>5. ASSUME NEW p \in Mates, Desert(p) PROVE PartyInv'
  <2>1. s.life[p] = "dead" /\ s' = [s EXCEPT !.life[p] = "gone"] /\ UNCHANGED leaveOnDeath
    BY <1>5 DEF Desert
  <2>2. Safe(s) => s.party[p] = Nil
    <3>1. s.party[p] \in Parties \cup {Nil}
      BY <1>0 DEF Shape, Objects
    <3> QED BY <2>1, <3>1 DEF Safe, SafeIn
  <2> QED BY <1>0, <2>1, <2>2, LifeKeeps DEF PartyInv
<1>6. ASSUME NEW p \in Mates, LoginMate(p) PROVE PartyInv'
  BY <1>6, LoginKeeps
<1>7. ASSUME NEW p \in Mates, NEW o \in Mates, Invite(p, o) PROVE PartyInv'
  BY <1>7, InviteKeeps
<1>8. ASSUME NEW p \in Mates, NEW o \in Mates, Join(p, o) PROVE PartyInv'
  BY <1>8, JoinKeeps
<1>9. ASSUME NEW p \in Mates, NEW o \in Mates, Revoke(p, o) PROVE PartyInv'
  <2>1. s.party[p] \in Parties /\ s' = RemoveInvite(s, s.party[p], o) /\ UNCHANGED leaveOnDeath
    BY <1>0, <1>9 DEF Revoke, Inviting, Shape, Objects
  <2>2. Done(s, s', s.party[p])
    BY <1>0, <2>1, RemoveInviteDone
  <2> QED BY <2>1, <2>2, DoneKeeps
<1>10. ASSUME NEW p \in Mates, NEW o \in Mates, PassTo(p, o) PROVE PartyInv'
  <2> DEFINE q == s.party[p]
  <2>1. q \in Parties /\ p # o /\ Leader(s, q) = p /\ s.party[o] = q /\ s' = PassLeadership(s, q, o)
        /\ s.life[o] = "online" /\ UNCHANGED leaveOnDeath /\ p # Nil
    BY <1>0, <1>10, PartyAssumption DEF PassTo, OnlineMates, Shape, Objects
  <2> HIDE DEF q
  <2>2. Done(s, s', q)
    BY <1>0, <2>1, PassDone DEF Exists
  <2> QED BY <2>1, <2>2, DoneKeeps
<1>11. CASE UNCHANGED partyVars
  BY <1>11 DEF partyVars, PartyInv
<1> QED BY <1>1, <1>2, <1>3, <1>4, <1>5, <1>6, <1>7, <1>8, <1>9, <1>10, <1>11 DEF PartyNext

LEMMA PartyInvariant == PartySpec => []PartyInv
<1>1. PartyInit => PartyInv
  BY PartyStarts
<1>2. PartyInv /\ [PartyNext]_partyVars => PartyInv'
  BY PartyStep
<1> QED BY <1>1, <1>2, PTL DEF PartySpec

\* No list of members has anybody twice, and all pointers are to what they should.
THEOREM PartyTypeCorrect == PartySpec => []PartyTypeOK
<1>1. PartyInv => PartyTypeOK
  BY DEF PartyInv, Sound, Shape, Objects, OnceEach, PartyTypeOK
<1> QED BY <1>1, PartyInvariant, PTL

\* For any number of players and parties: a player's party, a party's leader and
\* members and the invitations on both sides agree, for all who exist, whatever
\* invitations, departures, deaths and logouts call each other; and no party
\* survives with its leader alone.
THEOREM PointersStayTogether == PartySpec => []PointersAgree
<1>1. PartyInv => PointersAgree
  <2> SUFFICES ASSUME PartyInv PROVE PointersAgree
    OBVIOUS
  <2>1. PartyAgrees
    BY DEF PartyInv, Sound, Agrees, PeopleAgree, PartyAgrees, Led
  <2>2. InvitationsAgree
    BY DEF PartyInv, Sound, Agrees, InvitesAgree, InvitationsAgree, Led
  <2>3. NoLonelyLeader
    BY DEF PartyInv, Sound, NotLonely, NoLonelyLeader, Led
  <2> QED BY <2>1, <2>2, <2>3 DEF PointersAgree
<1> QED BY <1>1, PartyInvariant, PTL

\* When players leave their party as they die, whoever is in a party has one with
\* a leader, which leaveParty asks for: he can leave it.
THEOREM PartiesCanBeLeft == PartySpec => []NobodyIsTrapped
<1>1. PartyInv => NobodyIsTrapped
  BY DEF PartyInv, Sound, Shape, Objects, Safe, SafeIn, NobodyIsTrapped, OnlineMates, Led
<1> QED BY <1>1, PartyInvariant, PTL

-----------------------------------------------------------------------------
(* Decaying items. *)


\* What an item is, and a state of an operation.
ItemStates == [type: Kinds, placed: BOOLEAN,
               state: {"none", "false", "true", "pending", "stopping"},
               duration: Times \cup {NoTime}, stamp: Times \cup {NoTime}]
World == [item: [Items -> ItemStates], decayMap: SUBSET [item: Items, at: Times],
          event: Times \cup {NoTime}, others: SUBSET Times]

Has(w, i) == w.item[i].duration = NoTime \/ w.item[i].duration >= 0

\* Between operations.
Firm(w, i) ==
  LET x == w.item[i]
  IN /\ Filed(w, i) = IF x.state = "true" THEN {[item |-> i, at |-> x.stamp]} ELSE {}
     /\ x.state = "true" => x.stamp # NoTime /\ (x.placed => x.type \in {"lit", "stub"})
     /\ x.state = "stopping" => x.type \in {"ash", "invalid"}
     /\ Has(w, i)

\* In the middle of an operation: an item that is filed is so where its stamp
\* says, and one that decays is filed.
Loose(w, i) ==
  LET x == w.item[i]
  IN /\ Filed(w, i) # {} => /\ Filed(w, i) = {[item |-> i, at |-> x.stamp]}
                            /\ x.stamp # NoTime /\ x.state # "none"
     /\ x.state = "true" => Filed(w, i) # {}
     /\ Has(w, i)

\* Before startDecay.
Ready(w, i) ==
  LET x == w.item[i]
  IN /\ Loose(w, i)
     /\ x.state = "stopping" => x.type \in {"ash", "invalid"}
     /\ x.state \in {"none", "false", "pending"} /\ Filed(w, i) # {} => CanDecay(w, i) /\ x.duration # NoTime

Pending(w) == w.others \cup ({w.event} \ {NoTime})

\* Each entry comes after an event, or after one of the times R.
Late(w, R) == \A d \in w.decayMap : \E e \in Pending(w) \cup R : e <= d.at

\* From w to u nothing happened but to i.
Does(w, u, i) ==
  /\ w \in World /\ u \in World
  /\ \A j \in Items \ {i} : u.item[j] = w.item[j]
  /\ \A d \in [item: Items, at: Times] : d.item # i => (d \in u.decayMap <=> d \in w.decayMap)
  /\ \A d \in u.decayMap : d \in w.decayMap \/ d.at > 0
  /\ \A R \in SUBSET Times : Late(w, R) => Late(u, R)

LEMMA MaxOfTwo ==
  ASSUME NEW m \in Int, NEW n \in Int PROVE Max({m, n}) = IF n >= m THEN n ELSE m
<1>1. CASE n >= m
  <2>1. \A x \in {m, n} : (\A y \in {m, n} : x >= y) <=> x = n
    BY <1>1
  <2> QED BY <1>1, <2>1 DEF Max
<1>2. CASE ~(n >= m)
  <2>1. \A x \in {m, n} : (\A y \in {m, n} : x >= y) <=> x = m
    BY <1>2
  <2> QED BY <1>2, <2>1 DEF Max
<1> QED BY <1>1, <1>2

LEMMA TimesAreIntegers ==
  /\ Times \subseteq Int /\ NoTime \notin Times
  /\ \A n \in Int : n \in Times <=> n >= -MaxDelay - 1 /\ (n <= MaxDuration \/ n <= 2)
  /\ -MaxDelay - 1 \in Times /\ 0 \in Times /\ 1 \in Times /\ 2 \in Times
  /\ \A n \in Int : Max({0, n}) = IF n >= 0 THEN n ELSE 0
<1>2. MaxDuration \in Nat /\ MaxDelay \in Nat /\ NoTime \notin Int /\ DecayTime["lit"] = 2
  BY DecayAssumption DEF DecayTime, Kinds
<1>3. Max({MaxDuration, DecayTime["lit"]}) = IF 2 >= MaxDuration THEN 2 ELSE MaxDuration
  BY <1>2, MaxOfTwo
<1>4. \A n \in Int : Max({0, n}) = IF n >= 0 THEN n ELSE 0
  BY MaxOfTwo
<1>5. Times = -MaxDelay - 1 .. (IF 2 >= MaxDuration THEN 2 ELSE MaxDuration)
  BY <1>3 DEF Times
<1> QED
  BY <1>2, <1>4, <1>5

LEMMA DoesNothing == ASSUME NEW w \in World, NEW i \in Items PROVE Does(w, w, i)
  BY DEF Does

LEMMA DoesMore ==
  ASSUME NEW w, NEW u, NEW v, NEW i \in Items, Does(w, u, i), Does(u, v, i)
  PROVE  Does(w, v, i)
<1>1. v.decayMap \subseteq [item: Items, at: Times] /\ u.decayMap \subseteq [item: Items, at: Times]
  BY DEF Does, World
<1> QED BY <1>1 DEF Does

LEMMA GetDurationType ==
  ASSUME NEW w \in World, NEW i \in Items
  PROVE  /\ GetDuration(w, i) \in Times /\ GetDuration(w, i) >= 0
         /\ ~Decaying(w, i) /\ Has(w, i) =>
              GetDuration(w, i) = IF w.item[i].duration = NoTime THEN 0 ELSE w.item[i].duration
<1>1. w.item[i].stamp \in Times \cup {NoTime} /\ w.item[i].duration \in Times \cup {NoTime}
  BY DEF World, ItemStates
<1>2. \A n \in Times : Max({0, n}) \in Times /\ Max({0, n}) >= 0 /\ (n >= 0 => Max({0, n}) = n)
  BY TimesAreIntegers
<1>3. 0 \in Times /\ 0 >= 0
  BY TimesAreIntegers
<1> HIDE DEF Max
<1> QED BY <1>1, <1>2, <1>3 DEF GetDuration, Has

\* stopDecay takes an item out of decayMap.
LEMMA StopDecayDoes ==
  ASSUME NEW w \in World, NEW i \in Items, Loose(w, i)
  PROVE  LET u == StopDecay(w, i)
         IN /\ Does(w, u, i) /\ Filed(u, i) = {} /\ Has(u, i)
            /\ u.item[i].type = w.item[i].type /\ u.item[i].placed = w.item[i].placed
            /\ u.item[i].state # "true" /\ u.item[i].state \in {"none", w.item[i].state}
            /\ w.item[i].state = "true" => u.item[i].state = "none" /\ u.item[i].duration = TimeLeft(w, i)
<1> DEFINE x == w.item[i]
           entry == [item |-> i, at |-> x.stamp]
           bucket == {e \in w.decayMap : e.at = x.stamp}
           u == StopDecay(w, i)
<1>1. x \in ItemStates /\ w.decayMap \subseteq [item: Items, at: Times] /\ w.item \in [Items -> ItemStates]
  BY DEF World
<1>2. CASE x.state = "none"
  BY <1>2, DoesNothing DEF StopDecay, Loose
<1>3. CASE x.state # "none" /\ x.stamp = NoTime
  <2>1. u = [w EXCEPT !.item[i].state = "none"]
    BY <1>3 DEF StopDecay
  <2>2. Filed(w, i) = {} /\ Has(w, i) /\ x.state # "true"
    BY <1>3 DEF Loose
  <2>3. /\ u.item = [w.item EXCEPT ![i].state = "none"]
        /\ u.decayMap = w.decayMap /\ u.event = w.event /\ u.others = w.others
        /\ u = [item |-> u.item, decayMap |-> u.decayMap, event |-> u.event, others |-> u.others]
    BY <2>1 DEF World
  <2> HIDE DEF u
  <2>4. u.item[i] \in ItemStates /\ \A j \in Items \ {i} : u.item[j] = w.item[j]
    BY <1>1, <2>3 DEF ItemStates
  <2>5. u \in World
    BY <1>1, <2>3, <2>4 DEF World
  <2>6. Does(w, u, i)
    BY <1>1, <2>3, <2>4, <2>5 DEF Does, Late, Pending
  <2>7. /\ u.item[i].state = "none" /\ u.item[i].type = x.type /\ u.item[i].placed = x.placed
        /\ u.item[i].duration = x.duration
    BY <1>1, <2>3 DEF ItemStates
  <2> QED BY <2>2, <2>3, <2>6, <2>7 DEF Filed, Has, u
<1>4. CASE x.state # "none" /\ x.stamp # NoTime /\ entry \in bucket
  <2>1. u = [w EXCEPT !.decayMap = @ \ {entry}, !.item[i].state = "none", !.item[i].duration = TimeLeft(w, i)]
    BY <1>4 DEF StopDecay
  <2>2. entry \in Filed(w, i)
    BY <1>4 DEF Filed
  <2>3. Filed(w, i) = {entry} /\ Has(w, i)
    BY <2>2 DEF Loose
  <2>4. TimeLeft(w, i) \in Times \cup {NoTime} /\ (TimeLeft(w, i) = NoTime \/ TimeLeft(w, i) >= 0)
    BY GetDurationType, TimesAreIntegers DEF TimeLeft
  <2>5. /\ u.item = [w.item EXCEPT ![i].state = "none", ![i].duration = TimeLeft(w, i)]
        /\ u.decayMap = w.decayMap \ {entry} /\ u.event = w.event /\ u.others = w.others
        /\ u = [item |-> u.item, decayMap |-> u.decayMap, event |-> u.event, others |-> u.others]
    BY <2>1 DEF World
  <2>6. u.item[i] = [x EXCEPT !.state = "none", !.duration = TimeLeft(w, i)]
    BY <1>1, <2>5
  <2>7. u.item[i] \in ItemStates /\ \A j \in Items \ {i} : u.item[j] = w.item[j]
    BY <1>1, <2>4, <2>5, <2>6 DEF ItemStates
  <2> HIDE DEF u
  <2>8. u \in World
    BY <1>1, <2>5, <2>7 DEF World
  <2>9. Does(w, u, i)
    BY <2>5, <2>7, <2>8 DEF Does, Late, Pending
  <2>10. Filed(u, i) = {}
    BY <2>3, <2>5 DEF Filed
  <2>11. /\ u.item[i].state = "none" /\ u.item[i].type = x.type /\ u.item[i].placed = x.placed
         /\ u.item[i].duration = TimeLeft(w, i)
    BY <1>1, <2>6 DEF ItemStates
  <2> QED BY <2>4, <2>9, <2>10, <2>11 DEF Has, u
<1>5. CASE x.state # "none" /\ x.stamp # NoTime /\ entry \notin bucket
  <2>1. u = IF Cardinality(bucket) = 1 THEN w ELSE [w EXCEPT !.item[i].stamp = NoTime]
    BY <1>5 DEF StopDecay
  <2>2. Filed(w, i) = {} /\ Has(w, i) /\ x.state # "true"
    <3>1. entry \notin Filed(w, i)
      BY <1>5 DEF Filed
    <3> QED BY <3>1 DEF Loose
  <2>3. CASE u = w
    BY <2>2, <2>3, DoesNothing
  <2>4. CASE u = [w EXCEPT !.item[i].stamp = NoTime]
    <3>1. /\ u.item = [w.item EXCEPT ![i].stamp = NoTime]
          /\ u.decayMap = w.decayMap /\ u.event = w.event /\ u.others = w.others
          /\ u = [item |-> u.item, decayMap |-> u.decayMap, event |-> u.event, others |-> u.others]
      BY <2>4 DEF World
    <3> HIDE DEF u
    <3>2. u.item[i] \in ItemStates /\ \A j \in Items \ {i} : u.item[j] = w.item[j]
      BY <1>1, <3>1 DEF ItemStates
    <3>3. u \in World
      BY <1>1, <3>1, <3>2 DEF World
    <3>4. Does(w, u, i)
      BY <1>1, <3>1, <3>2, <3>3 DEF Does, Late, Pending
    <3>5. /\ u.item[i].state = x.state /\ u.item[i].type = x.type /\ u.item[i].placed = x.placed
          /\ u.item[i].duration = x.duration
      BY <1>1, <3>1 DEF ItemStates
    <3> QED BY <2>2, <3>1, <3>4, <3>5 DEF Filed, Has, u
  <2> QED BY <2>1, <2>3, <2>4
<1> QED BY <1>2, <1>3, <1>4, <1>5

\* An item changes, and not where it is filed.
LEMMA ItemChanges ==
  ASSUME NEW w \in World, NEW i \in Items, NEW y \in ItemStates
  PROVE  LET u == [w EXCEPT !.item[i] = y]
         IN /\ Does(w, u, i) /\ u.item[i] = y /\ Filed(u, i) = Filed(w, i)
            /\ u.decayMap = w.decayMap /\ u.event = w.event /\ u.others = w.others
<1> DEFINE u == [w EXCEPT !.item[i] = y]
<1>1. /\ u.item = [w.item EXCEPT ![i] = y]
      /\ u.decayMap = w.decayMap /\ u.event = w.event /\ u.others = w.others
      /\ u = [item |-> u.item, decayMap |-> u.decayMap, event |-> u.event, others |-> u.others]
      /\ w.item \in [Items -> ItemStates]
  BY DEF World
<1> HIDE DEF u
<1>2. u.item[i] = y /\ u.item \in [Items -> ItemStates] /\ \A j \in Items \ {i} : u.item[j] = w.item[j]
  BY <1>1
<1>3. u \in World
  BY <1>1, <1>2 DEF World
<1>4. Does(w, u, i)
  BY <1>1, <1>2, <1>3 DEF Does, Late, Pending
<1> QED BY <1>1, <1>2, <1>4 DEF Filed, u

\* There is a first bucket.
LEMMA FirstExists ==
  ASSUME NEW S, S \subseteq [item: Items, at: Times], S # {}
  PROVE  First(S) \in {e.at : e \in S} /\ \A e \in S : First(S) <= e.at
<1> DEFINE T == {e.at : e \in S}
<1>0. T \subseteq Times /\ T # {}
  BY DEF T
<1>1. T \subseteq Times /\ T # {} /\ T \subseteq Int /\ \A m \in T : m + MaxDelay + 1 \in Nat
  <2> HIDE DEF T
  <2>1. MaxDelay \in Nat /\ T \subseteq Int
    BY <1>0, TimesAreIntegers, DecayAssumption
  <2>2. \A m \in T : m >= -MaxDelay - 1
    BY <1>0, <2>1, TimesAreIntegers
  <2> QED BY <1>0, <2>1, <2>2
<1>2. \E m \in T : \A n \in T : m <= n
  <2> HIDE DEF T
  <2> SUFFICES ASSUME \A m \in T : \E n \in T : n < m PROVE FALSE
    <3>1. \A m, n \in T : ~(m <= n) => n < m
      BY <1>1
    <3> QED BY <3>1
  <2> DEFINE Below == {n \in Nat : \A m \in T : m + MaxDelay + 1 > n}
  <2>1. 0 \in Below
    <3> SUFFICES ASSUME NEW m \in T PROVE m + MaxDelay + 1 > 0
      OBVIOUS
    <3>1. PICK n \in T : n < m
      OBVIOUS
    <3> QED BY <1>1, <3>1, DecayAssumption
  <2>2. \A n \in Nat : n \in Below => n + 1 \in Below
    <3> SUFFICES ASSUME NEW n \in Nat, n \in Below, NEW m \in T PROVE m + MaxDelay + 1 > n + 1
      OBVIOUS
    <3>1. PICK l \in T : l < m
      OBVIOUS
    <3>2. l + MaxDelay + 1 > n
      OBVIOUS
    <3> QED BY <1>1, <3>1, <3>2, DecayAssumption
  <2> HIDE DEF Below
  <2>3. \A n \in Nat : n \in Below
    BY <2>1, <2>2, NumberInduction
  <2>4. PICK m \in T : TRUE
    BY <1>1
  <2>5. m + MaxDelay + 1 \in Nat
    BY <1>1
  <2> QED BY <2>3, <2>5 DEF Below
<1> HIDE DEF T
<1>3. Min(T) \in T /\ \A n \in T : Min(T) <= n
  BY <1>2 DEF Min
<1>4. First(S) = Min(T)
  BY DEF First, T
<1> QED BY <1>3, <1>4 DEF T

\* An item that is in no bucket is filed.
LEMMA FileDoes ==
  ASSUME NEW w \in World, NEW i \in Items, NEW time \in Times, time > 0, Filed(w, i) = {}
  PROVE  LET u == File(w, i, time)
         IN /\ Does(w, u, i) /\ Filed(u, i) = {[item |-> i, at |-> time]}
            /\ u.item[i] = [w.item[i] EXCEPT !.state = "true", !.stamp = time]
<1> DEFINE entry == [item |-> i, at |-> time]
           first == First(w.decayMap)
           v == IF w.decayMap = {} THEN Schedule(w, time)
                ELSE IF time < first THEN Schedule(Unscheduled(w), time)
                ELSE w
           y == [w.item[i] EXCEPT !.state = "true", !.stamp = time]
           u == File(w, i, time)
<1>1. /\ w.item \in [Items -> ItemStates] /\ w.decayMap \subseteq [item: Items, at: Times]
      /\ w.event \in Times \cup {NoTime} /\ w.others \subseteq Times /\ entry \in [item: Items, at: Times]
  BY DEF World
<1>2. u = [v EXCEPT !.item[i].state = "true", !.item[i].stamp = time, !.decayMap = @ \cup {entry}]
  BY DEF File
<1>3. /\ v \in World /\ v.item = w.item /\ v.decayMap = w.decayMap
      /\ w.decayMap = {} => time \in Pending(v)
      /\ w.decayMap # {} /\ time < first => time \in Pending(v)
      /\ w.decayMap # {} /\ ~(time < first) => v = w
  <2>1. CASE w.decayMap = {}
    <3>1. /\ v.item = w.item /\ v.decayMap = w.decayMap /\ v.event = time
          /\ v.others = w.others \cup ({w.event} \ {NoTime})
          /\ v = [item |-> v.item, decayMap |-> v.decayMap, event |-> v.event, others |-> v.others]
      BY <2>1 DEF World, Schedule
    <3> HIDE DEF v
    <3> QED BY <1>1, <2>1, <3>1, TimesAreIntegers DEF World, Pending
  <2>2. CASE w.decayMap # {} /\ time < first
    <3>1. /\ v.item = w.item /\ v.decayMap = w.decayMap /\ v.event = time
          /\ v.others = w.others \cup ({NoTime} \ {NoTime})
          /\ v = [item |-> v.item, decayMap |-> v.decayMap, event |-> v.event, others |-> v.others]
      BY <2>2 DEF World, Schedule, Unscheduled
    <3> HIDE DEF v
    <3> QED BY <1>1, <2>2, <3>1, TimesAreIntegers DEF World, Pending
  <2>3. CASE w.decayMap # {} /\ ~(time < first)
    BY <2>3
  <2> QED BY <2>1, <2>2, <2>3
<1> HIDE DEF v
<1>4. /\ u.item = [w.item EXCEPT ![i] = y] /\ u.decayMap = w.decayMap \cup {entry}
      /\ u.event = v.event /\ u.others = v.others
      /\ u = [item |-> u.item, decayMap |-> u.decayMap, event |-> u.event, others |-> u.others]
  <2>1. /\ u.item = [v.item EXCEPT ![i].state = "true", ![i].stamp = time]
        /\ u.decayMap = v.decayMap \cup {entry} /\ u.event = v.event /\ u.others = v.others
        /\ u = [item |-> u.item, decayMap |-> u.decayMap, event |-> u.event, others |-> u.others]
    BY <1>2, <1>3 DEF World
  <2>2. [w.item EXCEPT ![i].state = "true", ![i].stamp = time] = [w.item EXCEPT ![i] = y]
    BY <1>1
  <2> HIDE DEF u, y
  <2> QED BY <1>3, <2>1, <2>2
<1>5. y \in ItemStates
  BY <1>1 DEF ItemStates
<1> HIDE DEF u, y
<1>6. u \in World
  BY <1>1, <1>3, <1>4, <1>5 DEF World
<1>7. ASSUME NEW R \in SUBSET Times, Late(w, R) PROVE Late(u, R)
  <2>1. Pending(u) = Pending(v)
    BY <1>4 DEF Pending
  <2>2. CASE w.decayMap = {}
    BY <1>3, <1>4, <2>1, <2>2, TimesAreIntegers DEF Late
  <2>3. CASE w.decayMap # {} /\ time < first
    <3>1. \A d \in u.decayMap : d.at \in Int /\ time <= d.at
      <4>1. \A d \in w.decayMap : first <= d.at /\ d.at \in Times /\ first \in Times
        BY <1>1, <2>3, FirstExists
      <4> HIDE DEF first
      <4> QED BY <1>4, <2>3, <4>1, TimesAreIntegers
    <3> QED BY <1>3, <2>1, <2>3, <3>1 DEF Late
  <2>4. CASE w.decayMap # {} /\ ~(time < first)
    <3>1. PICK d \in w.decayMap : d.at = first
      BY <1>1, <2>4, FirstExists
    <3>2. PICK e \in Pending(w) \cup R : e <= d.at
      BY <1>7 DEF Late
    <3>3. e \in Times /\ d.at \in Times
      BY <1>1 DEF Pending
    <3> HIDE DEF first
    <3>4. e <= time
      <4>1. e \in Int /\ time \in Int /\ first \in Int
        BY <3>1, <3>3, TimesAreIntegers
      <4>2. e <= first /\ ~(time < first)
        BY <2>4, <3>1, <3>2
      <4> QED BY <4>1, <4>2
    <3> QED BY <1>3, <1>4, <1>7, <2>1, <2>4, <3>4 DEF Late
  <2> QED BY <2>2, <2>3, <2>4
<1>8. Does(w, u, i)
  BY <1>1, <1>4, <1>6, <1>7 DEF Does
<1>9. Filed(u, i) = {entry}
  BY <1>1, <1>4 DEF Filed
<1>10. u.item[i] = y
  BY <1>1, <1>4
<1> QED BY <1>8, <1>9, <1>10 DEF u, y

LEMMA KindFacts ==
  ASSUME NEW t \in Kinds
  PROVE  /\ DecayTime[t] = (IF t = "lit" THEN 2 ELSE IF t = "stub" THEN 1 ELSE 0)
         /\ StopTime[t] <=> t = "unlit"
         /\ DecayTo[t] = (IF t = "lit" THEN "stub" ELSE IF t = "stub" THEN "nothing" ELSE "never")
  BY DEF Kinds, DecayTime, StopTime, DecayTo

LEMMA CanDecayFacts ==
  ASSUME NEW w, NEW i, w.item[i].type \in Kinds
  PROVE  CanDecay(w, i) <=> w.item[i].type \in {"lit", "stub"} /\ w.item[i].placed
<1> DEFINE t == w.item[i].type
<1>1. /\ DecayTime[t] = (IF t = "lit" THEN 2 ELSE IF t = "stub" THEN 1 ELSE 0)
      /\ DecayTo[t] = (IF t = "lit" THEN "stub" ELSE IF t = "stub" THEN "nothing" ELSE "never")
  BY KindFacts
<1> QED BY <1>1 DEF CanDecay, Kinds

\* What setID makes of an item.
LEMMA SetIDDoes ==
  ASSUME NEW w \in World, NEW i \in Items, NEW t \in Kinds
  PROVE  LET x == w.item[i]
             u == SetID(w, i, t)
             y == u.item[i]
         IN /\ Does(w, u, i) /\ Filed(u, i) = Filed(w, i) /\ u.decayMap = w.decayMap
            /\ y \in ItemStates /\ y.type = t /\ y.placed = x.placed /\ y.stamp = x.stamp
            /\ \/ /\ t \in {"ash", "invalid"} /\ y.duration = NoTime
                  /\ y.state = IF x.state = "none" THEN "none" ELSE "stopping"
               \/ /\ t \in {"lit", "stub"} /\ (x.type # "unlit" \/ x.duration = NoTime)
                  /\ y.state = "pending" /\ y.duration = DecayTime[t] /\ y.duration > 0
               \/ /\ t = "unlit" \/ (t \in {"lit", "stub"} /\ x.type = "unlit" /\ x.duration # NoTime)
                  /\ y.state = x.state /\ y.duration = x.duration
<1> DEFINE x == w.item[i]
           u == SetID(w, i, t)
<1>1. x \in ItemStates
  BY DEF World
<1>2. CASE t \in {"ash", "invalid"}
  <2> DEFINE y == [x EXCEPT !.type = t, !.duration = NoTime, !.state = IF @ = "none" THEN @ ELSE "stopping"]
  <2>1. u = [w EXCEPT !.item[i] = y]
    BY <1>2, KindFacts DEF SetID
  <2>2. y \in ItemStates /\ y.type = t /\ y.placed = x.placed /\ y.stamp = x.stamp
        /\ y.duration = NoTime /\ y.state = IF x.state = "none" THEN "none" ELSE "stopping"
    BY <1>1 DEF ItemStates
  <2> HIDE DEF y
  <2> QED BY <1>2, <2>1, <2>2, ItemChanges
<1>3. CASE t \in {"lit", "stub"} /\ (x.type # "unlit" \/ x.duration = NoTime)
  <2> DEFINE y == [x EXCEPT !.type = t, !.duration = DecayTime[t], !.state = "pending"]
  <2>1. u = [w EXCEPT !.item[i] = y]
    <3>1. x.type \in Kinds
      BY <1>1 DEF ItemStates
    <3> QED BY <1>3, <3>1, KindFacts DEF SetID
  <2>2. DecayTime[t] \in Times /\ DecayTime[t] > 0
    BY <1>3, KindFacts, TimesAreIntegers
  <2>3. y \in ItemStates /\ y.type = t /\ y.placed = x.placed /\ y.stamp = x.stamp
        /\ y.duration = DecayTime[t] /\ y.state = "pending"
    BY <1>1, <2>2 DEF ItemStates
  <2> HIDE DEF y
  <2> QED BY <1>3, <2>1, <2>2, <2>3, ItemChanges
<1>4. CASE t = "unlit" \/ (t \in {"lit", "stub"} /\ x.type = "unlit" /\ x.duration # NoTime)
  <2> DEFINE y == [x EXCEPT !.type = t]
  <2>1. u = [w EXCEPT !.item[i] = y]
    <3>1. x.type \in Kinds
      BY <1>1 DEF ItemStates
    <3> QED BY <1>4, <3>1, KindFacts DEF SetID
  <2>2. y \in ItemStates /\ y.type = t /\ y.placed = x.placed /\ y.stamp = x.stamp
        /\ y.duration = x.duration /\ y.state = x.state
    BY <1>1 DEF ItemStates
  <2> HIDE DEF y
  <2> QED BY <1>4, <2>1, <2>2, ItemChanges
<1> QED BY <1>2, <1>3, <1>4 DEF Kinds

\* startDecay of an item whose duration is not 0.
LEMMA StartedDoes ==
  ASSUME NEW w \in World, NEW i \in Items, Ready(w, i), ~TimeIsUp(w, i)
  PROVE  LET u == Started(w, i)
             x == w.item[i]
         IN /\ Does(w, u, i) /\ Firm(u, i) /\ u.item[i].type = x.type /\ u.item[i].placed = x.placed
            /\ ~CanDecay(w, i) =>
                 IF x.state = "true" THEN u.item[i].state = "none" /\ u.item[i].duration = TimeLeft(w, i)
                 ELSE x.state # "stopping" => u = w
            /\ x.state \in {"none", "false", "pending"} /\ CanDecay(w, i) /\ x.duration # NoTime =>
                 u.item[i].state = "true" /\ u.item[i].stamp = x.duration
<1> DEFINE x == w.item[i]
           u == Started(w, i)
<1>1. x \in ItemStates /\ x.type \in Kinds /\ Loose(w, i) /\ Has(w, i)
  BY DEF World, ItemStates, Ready, Loose
<1>2. CASE x.state = "stopping" \/ (x.state = "true" /\ ~CanDecay(w, i))
  <2>1. u = StopDecay(w, i)
    BY <1>2 DEF Started
  <2> HIDE DEF u
  <2>2. /\ Does(w, u, i) /\ Filed(u, i) = {} /\ Has(u, i)
        /\ u.item[i].type = x.type /\ u.item[i].placed = x.placed
        /\ u.item[i].state # "true" /\ u.item[i].state \in {"none", x.state}
        /\ x.state = "true" => u.item[i].state = "none" /\ u.item[i].duration = TimeLeft(w, i)
    BY <1>1, <2>1, StopDecayDoes
  <2> QED BY <1>2, <2>2 DEF Ready, Firm, u
<1>3. CASE x.state \in {"none", "false", "pending"} /\ CanDecay(w, i) /\ x.duration # NoTime
  <2> DEFINE v == Unfiled(w, i)
  <2>1. u = File(v, i, x.duration)
    BY <1>3 DEF Started
  <2>2. /\ Does(w, v, i) /\ Filed(v, i) = {} /\ v.item[i].type = x.type /\ v.item[i].placed = x.placed
        /\ v.item[i] \in ItemStates /\ Has(v, i)
    <3>1. CASE x.stamp # NoTime
      <4>1. v = StopDecay(w, i)
        BY <3>1 DEF Unfiled
      <4> HIDE DEF v
      <4>2. /\ Does(w, v, i) /\ Filed(v, i) = {} /\ v.item[i].type = x.type /\ v.item[i].placed = x.placed
            /\ Has(v, i)
        BY <1>1, <4>1, StopDecayDoes
      <4> QED BY <4>2 DEF Does, World
    <3>2. CASE x.stamp = NoTime
      <4>1. v = w
        BY <3>2 DEF Unfiled
      <4> QED BY <1>1, <3>2, <4>1, DoesNothing DEF Loose
    <3> QED BY <3>1, <3>2
  <2>3. x.duration \in Times /\ x.duration > 0
    <3>1. x.duration \in Times /\ x.duration # 0 /\ x.duration >= 0
      BY <1>1, <1>3 DEF TimeIsUp, ItemStates, Has
    <3>2. x.duration \in Int
      BY <3>1, TimesAreIntegers
    <3> HIDE DEF x
    <3> QED BY <3>1, <3>2
  <2> HIDE DEF u, v
  <2>4. v \in World
    BY <2>2 DEF Does
  <2>5. /\ Does(v, u, i) /\ Filed(u, i) = {[item |-> i, at |-> x.duration]}
        /\ u.item[i] = [v.item[i] EXCEPT !.state = "true", !.stamp = x.duration]
    BY <2>1, <2>2, <2>3, <2>4, FileDoes
  <2>6. /\ u.item[i].state = "true" /\ u.item[i].stamp = x.duration /\ u.item[i].type = x.type
        /\ u.item[i].placed = x.placed /\ u.item[i].duration = v.item[i].duration
    BY <2>2, <2>5 DEF ItemStates
  <2>7. Firm(u, i)
    <3>1. x.type \in {"lit", "stub"}
      BY <1>1, <1>3, CanDecayFacts
    <3> QED BY <2>2, <2>3, <2>5, <2>6, <3>1, TimesAreIntegers DEF Firm, Has
  <2> QED BY <1>3, <2>2, <2>5, <2>6, <2>7, DoesMore DEF u
<1>4. CASE /\ ~(x.state = "stopping" \/ (x.state = "true" /\ ~CanDecay(w, i)))
           /\ ~(x.state \in {"none", "false", "pending"} /\ CanDecay(w, i) /\ x.duration # NoTime)
  <2>1. u = w
    BY <1>4 DEF Started
  <2>2. x.state = "true" => /\ x.type \in {"lit", "stub"} /\ x.stamp # NoTime
                            /\ Filed(w, i) = {[item |-> i, at |-> x.stamp]}
    BY <1>1, <1>4, CanDecayFacts DEF Loose
  <2>3. x.state # "true" => Filed(w, i) = {}
    <3>1. x.state # "true" => x.state \in {"none", "false", "pending"}
      BY <1>1, <1>4 DEF ItemStates
    <3> QED BY <1>4, <3>1 DEF Ready
  <2>4. Firm(w, i)
    BY <1>1, <1>4, <2>2, <2>3 DEF Firm
  <2> QED BY <1>4, <2>1, <2>4, DoesNothing
<1> QED BY <1>2, <1>3, <1>4

\* Whoever burns down goes on as a stub, with all of a stub's duration.
LEMMA DecayedReady ==
  ASSUME NEW w \in World, NEW i \in Items, Loose(w, i), w.item[i].placed, w.item[i].type # "unlit"
  PROVE  LET u == Transformed(w, i, "stub")
         IN /\ Does(w, u, i) /\ Ready(u, i) /\ ~TimeIsUp(u, i)
            /\ u.item[i].type = "stub" /\ u.item[i].placed
<1> DEFINE u == Transformed(w, i, "stub")
           y == u.item[i]
<1>1. "stub" \in Kinds /\ DecayTo["stub"] = "nothing"
  BY KindFacts DEF Kinds
<1>2. TypeAfter(w, i, "stub") = "stub"
  BY <1>1 DEF TypeAfter
<1>3. u = SetID(w, i, "stub")
  BY <1>2 DEF Transformed
<1> HIDE DEF u
<1>4. /\ Does(w, u, i) /\ Filed(u, i) = Filed(w, i)
      /\ y \in ItemStates /\ y.type = "stub" /\ y.placed /\ y.stamp = w.item[i].stamp
      /\ y.state = "pending" /\ y.duration = DecayTime["stub"] /\ y.duration > 0
  BY <1>1, <1>3, SetIDDoes
<1>5. y.duration \in Int /\ y.duration # NoTime /\ y.duration # 0 /\ y.duration >= 0
  <2>1. DecayTime["stub"] = 1
    BY <1>1, KindFacts
  <2> QED BY <1>4, <2>1, TimesAreIntegers DEF ItemStates
<1>6. CanDecay(u, i)
  BY <1>1, <1>4, CanDecayFacts
<1>7. Ready(u, i)
  BY <1>4, <1>5, <1>6 DEF Ready, Loose, Has
<1>8. ~TimeIsUp(u, i)
  BY <1>5 DEF TimeIsUp
<1> QED BY <1>4, <1>7, <1>8 DEF u

\* internalRemoveItem.
LEMMA RemovedDoes ==
  ASSUME NEW w \in World, NEW i \in Items, Ready(w, i)
  PROVE  LET u == Removed(w, i) IN Does(w, u, i) /\ Firm(u, i) /\ u.item[i].placed = FALSE
<1> DEFINE x == w.item[i]
           y == [x EXCEPT !.placed = FALSE]
           v == [w EXCEPT !.item[i] = y]
           u == Removed(w, i)
<1>1. u = StopDecay(v, i)
  BY DEF Removed
<1>2. /\ y \in ItemStates /\ y.placed = FALSE /\ y.type = x.type /\ y.state = x.state
      /\ y.duration = x.duration /\ y.stamp = x.stamp
  BY DEF World, ItemStates
<1>3. Does(w, v, i) /\ v.item[i] = y /\ Filed(v, i) = Filed(w, i)
  BY <1>2, ItemChanges
<1> HIDE DEF u, v, y
<1>4. v \in World /\ Loose(v, i)
  BY <1>2, <1>3 DEF Does, Ready, Loose, Has
<1>5. /\ Does(v, u, i) /\ Filed(u, i) = {} /\ Has(u, i)
      /\ u.item[i].placed = FALSE /\ u.item[i].type = x.type
      /\ u.item[i].state # "true" /\ u.item[i].state \in {"none", x.state}
  BY <1>1, <1>2, <1>3, <1>4, StopDecayDoes
<1> QED BY <1>3, <1>5, DoesMore DEF Firm, Ready, u

\* internalDecayItem, of an item that does not decay by itself.
LEMMA InternalDecayDoes ==
  ASSUME NEW w \in World, NEW i \in Items, Ready(w, i), CanDecay(w, i),
         w.item[i].state \in {"none", "false", "pending"}
  PROVE  LET u == InternalDecayItem(w, i)
         IN /\ Does(w, u, i) /\ Firm(u, i)
            /\ u.item[i].placed => u.item[i].type = "stub"
<1> DEFINE x == w.item[i]
           u == InternalDecayItem(w, i)
<1>1. x \in ItemStates /\ x.type \in Kinds
  BY DEF World, ItemStates
<1>2. x.type \in {"lit", "stub"} /\ x.placed
  BY <1>1, CanDecayFacts
<1>3. DecayTo[x.type] = IF x.type = "lit" THEN "stub" ELSE "nothing"
  BY <1>1, <1>2, KindFacts
<1>4. CASE x.type = "stub"
  <2>1. u = Removed(w, i)
    BY <1>3, <1>4 DEF InternalDecayItem
  <2> QED BY <2>1, RemovedDoes
<1>5. CASE x.type = "lit"
  <2> DEFINE v == Transformed(w, i, "stub")
  <2>1. u = Started(v, i)
    BY <1>2, <1>3, <1>5 DEF InternalDecayItem, Transformable
  <2> HIDE DEF u, v
  <2>2. Does(w, v, i) /\ Ready(v, i) /\ ~TimeIsUp(v, i) /\ v.item[i].type = "stub"
    BY <1>2, <1>5, DecayedReady DEF v, Ready
  <2>3. Does(v, u, i) /\ Firm(u, i) /\ u.item[i].type = "stub"
    BY <2>1, <2>2, StartedDoes DEF Does
  <2> QED BY <2>2, <2>3, DoesMore DEF u
<1> QED BY <1>2, <1>4, <1>5

LEMMA StartDecayDoes ==
  ASSUME NEW w \in World, NEW i \in Items, Ready(w, i)
  PROVE  LET u == StartDecay(w, i)
         IN /\ Does(w, u, i) /\ Firm(u, i)
            /\ TimeIsUp(w, i) /\ u.item[i].placed => u.item[i].type = "stub"
            /\ ~TimeIsUp(w, i) => u.item[i].type = w.item[i].type /\ u = Started(w, i)
<1>1. CASE TimeIsUp(w, i)
  <2>1. /\ CanDecay(w, i) /\ w.item[i].state \in {"none", "false", "pending"}
        /\ StartDecay(w, i) = InternalDecayItem(w, i)
    BY <1>1 DEF TimeIsUp, StartDecay
  <2> QED BY <1>1, <2>1, InternalDecayDoes
<1>2. CASE ~TimeIsUp(w, i)
  <2>1. StartDecay(w, i) = Started(w, i)
    BY <1>2 DEF StartDecay
  <2> QED BY <1>2, <2>1, StartedDoes
<1> QED BY <1>1, <1>2

\* Between operations an item is ready for another.
LEMMA FirmReady ==
  ASSUME NEW w \in World, NEW i \in Items, Firm(w, i)
  PROVE  Ready(w, i)
  BY DEF Firm, Ready, Loose

\* What becomes of what keeps startDecay ready for it.
LEMMA TransformedReady ==
  ASSUME NEW w \in World, NEW i \in Items, Firm(w, i), w.item[i].placed,
         NEW t, <<w.item[i].type, t>> \in Becomes
  PROVE  LET u == Transformed(w, i, t)
         IN Does(w, u, i) /\ Ready(u, i) /\ u.item[i].placed
<1> DEFINE x == w.item[i]
           to == TypeAfter(w, i, t)
           u == Transformed(w, i, t)
           y == u.item[i]
<1>1. x \in ItemStates /\ x.type \in Kinds /\ t \in Kinds /\ Ready(w, i) /\ Loose(w, i) /\ Has(w, i)
  BY FirmReady DEF World, ItemStates, Becomes, Kinds, Ready, Firm
<1>2. to \in Kinds /\ (to = "unlit" => t = "unlit")
  BY <1>1, KindFacts DEF TypeAfter, Kinds
<1>3. u = SetID(w, i, to)
  BY DEF Transformed
<1>4. x.type \in {"lit", "unlit", "ash"} /\ (t = "unlit" => x.type = "lit")
  BY DEF Becomes
<1> HIDE DEF u, to
<1>5. /\ Does(w, u, i) /\ Filed(u, i) = Filed(w, i)
      /\ y \in ItemStates /\ y.type = to /\ y.placed /\ y.stamp = x.stamp
      /\ \/ /\ to \in {"ash", "invalid"} /\ y.duration = NoTime
            /\ y.state = IF x.state = "none" THEN "none" ELSE "stopping"
         \/ /\ to \in {"lit", "stub"} /\ (x.type # "unlit" \/ x.duration = NoTime)
            /\ y.state = "pending" /\ y.duration = DecayTime[to] /\ y.duration > 0
         \/ /\ to = "unlit" \/ (to \in {"lit", "stub"} /\ x.type = "unlit" /\ x.duration # NoTime)
            /\ y.state = x.state /\ y.duration = x.duration
  BY <1>2, <1>3, SetIDDoes
<1>6. CanDecay(u, i) <=> to \in {"lit", "stub"}
  BY <1>2, <1>5, CanDecayFacts
<1>7. CASE to \in {"ash", "invalid"}
  BY <1>1, <1>5, <1>7 DEF Ready, Loose, Has, u
<1>8. CASE to \in {"lit", "stub"} /\ (x.type # "unlit" \/ x.duration = NoTime)
  <2>1. y.duration \in Int /\ y.duration # NoTime /\ y.duration >= 0 /\ y.state = "pending"
    <3>1. DecayTime[to] \in {1, 2}
      BY <1>2, <1>8, KindFacts
    <3> QED BY <1>5, <1>8, <3>1, TimesAreIntegers
  <2> QED BY <1>1, <1>5, <1>6, <1>8, <2>1 DEF Ready, Loose, Has, u
<1>9. CASE to \in {"lit", "stub"} /\ x.type = "unlit" /\ x.duration # NoTime
  <2>1. x.state \notin {"true", "stopping"}
    BY <1>9 DEF Firm
  <2> QED BY <1>1, <1>5, <1>6, <1>9, <2>1 DEF Ready, Loose, Has, Firm, u
<1>10. CASE to = "unlit"
  <2>1. x.type = "lit" /\ y.state = x.state /\ y.duration = x.duration
    BY <1>2, <1>4, <1>5, <1>10
  <2>2. x.state # "stopping" /\ (x.state # "true" => Filed(w, i) = {})
    BY <2>1 DEF Firm
  <2> QED BY <1>1, <1>5, <2>1, <2>2 DEF Ready, Loose, Has, u
<1> QED BY <1>2, <1>5, <1>7, <1>8, <1>9, <1>10 DEF Kinds, u

\* Whoever was not touched is as before.
LEMMA Untouched ==
  ASSUME NEW w \in World, NEW u \in World, NEW j \in Items, u.item[j] = w.item[j],
         \A d \in [item: Items, at: Times] : d.item = j => (d \in u.decayMap <=> d \in w.decayMap)
  PROVE  Filed(u, j) = Filed(w, j) /\ (Firm(w, j) => Firm(u, j))
<1>1. Filed(u, j) = Filed(w, j)
  <2>1. w.decayMap \subseteq [item: Items, at: Times] /\ u.decayMap \subseteq [item: Items, at: Times]
    BY DEF World
  <2> QED BY <2>1 DEF Filed
<1> QED BY <1>1 DEF Firm, Has

\* checkDecay, for an item that it has taken out of decayMap.
LEMMA ExpireDoes ==
  ASSUME NEW w \in World, NEW i \in Items, Filed(w, i) = {}, Has(w, i)
  PROVE  LET u == Expire(w, i)
         IN /\ Does(w, u, i) /\ Firm(u, i)
            /\ u.item[i].placed => u.item[i].type \in {"stub", w.item[i].type}
<1> DEFINE x == w.item[i]
           y == [x EXCEPT !.state = "false", !.stamp = NoTime]
           v == [w EXCEPT !.item[i] = y]
           u == Expire(w, i)
           stopped == [w EXCEPT !.item[i].state = "false", !.item[i].stamp = NoTime]
<1>1. x \in ItemStates /\ x.type \in Kinds /\ w.item \in [Items -> ItemStates]
  BY DEF World, ItemStates
<1>2. stopped = v
  BY <1>1
<1>3. y \in ItemStates /\ y.state = "false" /\ y.stamp = NoTime /\ y.placed = x.placed
      /\ y.type = x.type /\ y.duration = x.duration
  BY <1>1 DEF ItemStates
<1>4. Does(w, v, i) /\ v.item[i] = y /\ Filed(v, i) = {}
  BY <1>3, ItemChanges
<1>5. v \in World
  BY <1>4 DEF Does
<1>6. CASE CanDecay(w, i)
  <2>1. u = InternalDecayItem(v, i)
    BY <1>2, <1>6 DEF Expire
  <2> HIDE DEF u, v, y
  <2>2. CanDecay(v, i) /\ Ready(v, i)
    BY <1>1, <1>3, <1>4, <1>6, CanDecayFacts DEF Ready, Loose, Has
  <2>3. Does(v, u, i) /\ Firm(u, i) /\ (u.item[i].placed => u.item[i].type = "stub")
    BY <1>3, <1>4, <1>5, <2>1, <2>2, InternalDecayDoes
  <2> QED BY <1>4, <2>3, DoesMore DEF u
<1>7. CASE ~CanDecay(w, i)
  <2> DEFINE z == [y EXCEPT !.duration = GetDuration(w, i)]
  <2>1. u = [v EXCEPT !.item[i].duration = GetDuration(w, i)]
    BY <1>2, <1>7 DEF Expire
  <2> HIDE DEF u, v, y
  <2>2. u = [v EXCEPT !.item[i] = z]
    BY <1>4, <1>5, <2>1
  <2>3. z \in ItemStates /\ z.state = "false" /\ z.type = x.type /\ z.duration = GetDuration(w, i)
    BY <1>3, GetDurationType DEF ItemStates
  <2>4. GetDuration(w, i) >= 0
    BY GetDurationType
  <2> HIDE DEF z
  <2>5. Does(v, u, i) /\ u.item[i] = z /\ Filed(u, i) = {}
    <3> DEFINE t == [v EXCEPT !.item[i] = z]
    <3>1. Does(v, t, i) /\ t.item[i] = z /\ Filed(t, i) = Filed(v, i)
      BY <1>5, <2>3, ItemChanges
    <3>2. u = t
      BY <2>2
    <3> HIDE DEF t
    <3> QED BY <1>4, <3>1, <3>2
  <2>6. Firm(u, i)
    BY <2>3, <2>4, <2>5 DEF Firm, Has
  <2> QED BY <1>4, <2>3, <2>5, <2>6, DoesMore DEF u
<1> QED BY <1>6, <1>7

\* From w to u the items I have expired, and nothing else has happened.
Expired(w, u, I) ==
  /\ u \in World
  /\ \A j \in Items \ I : u.item[j] = w.item[j]
  /\ \A d \in [item: Items, at: Times] : d.item \notin I => (d \in u.decayMap <=> d \in w.decayMap)
  /\ \A d \in u.decayMap : d \in w.decayMap \/ d.at > 0
  /\ \A R \in SUBSET Times : Late(w, R) => Late(u, R)
  /\ \A i \in I : Firm(u, i) /\ (u.item[i].placed => u.item[i].type \in {"stub", w.item[i].type})

LEMMA ExpireOne ==
  ASSUME NEW w \in World, NEW u, NEW I \in SUBSET Items, NEW i \in Items \ I,
         Filed(w, i) = {}, Has(w, i), Expired(w, u, I)
  PROVE  Expired(w, Expire(u, i), I \cup {i})
<1> DEFINE v == Expire(u, i)
<1>1. u \in World /\ u.item[i] = w.item[i] /\ Filed(u, i) = {} /\ Has(u, i)
  <2>1. u \in World /\ u.item[i] = w.item[i]
    BY DEF Expired
  <2>2. Filed(u, i) = Filed(w, i)
    BY <2>1, Untouched DEF Expired
  <2> QED BY <2>1, <2>2 DEF Has
<1>2. Does(u, v, i) /\ Firm(v, i) /\ (v.item[i].placed => v.item[i].type \in {"stub", w.item[i].type})
  BY <1>1, ExpireDoes
<1> HIDE DEF v
<1>3. ASSUME NEW j \in I
      PROVE  Firm(v, j) /\ (v.item[j].placed => v.item[j].type \in {"stub", w.item[j].type})
  <2>1. j \in Items /\ j # i /\ v \in World /\ v.item[j] = u.item[j]
    BY <1>2 DEF Does
  <2>2. Firm(u, j) => Firm(v, j)
    BY <1>1, <1>2, <2>1, Untouched DEF Does
  <2> QED BY <2>1, <2>2 DEF Expired
<1>4. v.decayMap \subseteq [item: Items, at: Times] /\ u.decayMap \subseteq [item: Items, at: Times]
  BY <1>2 DEF Does, World
<1> QED BY <1>2, <1>3, <1>4 DEF Expired, Does, v

\* The loop of checkDecay over the items I, given what c says of fewer.
ExpireStep(w, c, I) == IF I = {} THEN w ELSE Expire(c[I \ {Chosen(I)}], Chosen(I))

\* The recursion is well founded.
LEMMA ExpireExists ==
  ASSUME NEW w
  PROVE  \E c : c = [I \in SUBSET Items |-> ExpireStep(w, c, I)]
<1> DEFINE Solved(T, g) == \A I \in SUBSET Items : Cardinality(I) <= Cardinality(T) => g[I] = ExpireStep(w, g, I)
           Good == {T \in SUBSET Items : \E g : Solved(T, g)}
<1>0. IsFiniteSet(Items)
  BY DecayAssumption
<1>1. ASSUME NEW I \in SUBSET Items
      PROVE  /\ IsFiniteSet(I) /\ Cardinality(I) \in Nat /\ Cardinality(I) <= Cardinality(Items)
             /\ Cardinality(I) = 0 <=> I = {}
             /\ \A x \in I : Cardinality(I \ {x}) = Cardinality(I) - 1
  BY <1>0, FS_Subset, FS_CardinalityType, FS_EmptySet, FS_RemoveElement
<1>2. {} \in Good
  <2> DEFINE z == [I \in SUBSET Items |-> w]
  <2>1. ASSUME NEW I \in SUBSET Items, Cardinality(I) <= Cardinality({}) PROVE z[I] = ExpireStep(w, z, I)
    <3>1. Cardinality({}) = 0 /\ Cardinality(I) \in Nat
      BY <1>1, FS_EmptySet
    <3>2. I = {}
      BY <1>1, <2>1, <3>1
    <3> QED BY <3>2 DEF ExpireStep
  <2>2. Solved({}, z)
    BY <2>1
  <2> QED BY <2>2
<1>3. ASSUME NEW T \in Good, NEW x \in Items \ T PROVE T \cup {x} \in Good
  <2>1. PICK g : Solved(T, g)
    OBVIOUS
  <2> DEFINE h == [I \in SUBSET Items |-> IF Cardinality(I) <= Cardinality(T) THEN g[I] ELSE ExpireStep(w, g, I)]
  <2>2. Cardinality(T) \in Nat /\ Cardinality(T \cup {x}) = Cardinality(T) + 1
    BY <1>1, FS_AddElement
  <2>3. ASSUME NEW I \in SUBSET Items, Cardinality(I) <= Cardinality(T) + 1 PROVE h[I] = ExpireStep(w, h, I)
    <3>1. h[I] = ExpireStep(w, g, I)
      BY <2>1
    <3>2. CASE I = {}
      BY <3>1, <3>2 DEF ExpireStep
    <3>3. CASE I # {}
      <4>1. Chosen(I) \in I
        BY <3>3 DEF Chosen
      <4>2. I \ {Chosen(I)} \in SUBSET Items /\ Cardinality(I \ {Chosen(I)}) <= Cardinality(T)
        BY <1>1, <2>2, <2>3, <4>1
      <4>3. h[I \ {Chosen(I)}] = g[I \ {Chosen(I)}]
        BY <4>2
      <4> HIDE DEF h
      <4> QED BY <3>1, <3>3, <4>3 DEF ExpireStep
    <3> QED BY <3>2, <3>3
  <2>4. Solved(T \cup {x}, h)
    BY <2>2, <2>3
  <2> HIDE DEF h
  <2> QED BY <2>4
<1>4. Items \in Good
  <2> HIDE DEF Good
  <2>1. Good \in SUBSET SUBSET Items
    BY DEF Good
  <2> QED BY <1>0, <1>2, <1>3, <2>1, SubsetInduction
<1>5. PICK g : Solved(Items, g)
  BY <1>4
<1> DEFINE c == [I \in SUBSET Items |-> g[I]]
<1>6. ASSUME NEW I \in SUBSET Items PROVE g[I] = ExpireStep(w, c, I)
  <2>1. g[I] = ExpireStep(w, g, I)
    BY <1>1, <1>5
  <2>2. c[I \ {Chosen(I)}] = g[I \ {Chosen(I)}]
    OBVIOUS
  <2> HIDE DEF c
  <2> QED BY <2>1, <2>2 DEF ExpireStep
<1>7. c = [I \in SUBSET Items |-> ExpireStep(w, c, I)]
  BY <1>6
<1> HIDE DEF c
<1> QED BY <1>7

\* By induction over the sets of items.
LEMMA ExpireSome ==
  ASSUME NEW w \in World, NEW due \in SUBSET Items,
         \A i \in due : Filed(w, i) = {} /\ Has(w, i),
         NEW c, c = [I \in SUBSET Items |-> ExpireStep(w, c, I)]
  PROVE  \A I \in SUBSET due : Expired(w, c[I], I)
<1> DEFINE Bad == {I \in SUBSET due : ~Expired(w, c[I], I)}
<1>1. ASSUME Bad # {} PROVE FALSE
  <2>1. PICK I \in Bad : \A U \in Bad : U \subseteq I => U = I
    <3>1. Bad \in SUBSET SUBSET Items /\ IsFiniteSet(Items)
      BY DecayAssumption
    <3> HIDE DEF Bad
    <3> QED BY <1>1, <3>1, SmallestSubset
  <2>2. I \in SUBSET due /\ I \in SUBSET Items /\ c[I] = ExpireStep(w, c, I)
    <3>1. I \in SUBSET due /\ I \in SUBSET Items
      OBVIOUS
    <3> HIDE DEF Bad
    <3> QED BY <3>1
  <2>3. CASE I = {}
    <3>1. c[I] = w
      BY <2>2, <2>3 DEF ExpireStep
    <3>2. Expired(w, w, I)
      BY <2>3 DEF Expired
    <3> QED BY <3>1, <3>2
  <2>4. CASE I # {}
    <3> DEFINE i == Chosen(I)
    <3>1. i \in I
      BY <2>4 DEF Chosen
    <3> HIDE DEF i
    <3>2. i \in due /\ I \ {i} \in SUBSET due /\ (I \ {i}) \cup {i} = I /\ I \ {i} # I
      BY <2>2, <3>1
    <3>3. I \ {i} \notin Bad
      BY <2>1, <3>2
    <3>4. Expired(w, c[I \ {i}], I \ {i})
      BY <3>2, <3>3
    <3> HIDE DEF Bad
    <3>5. I \ {i} \in SUBSET Items /\ i \in Items \ (I \ {i}) /\ Filed(w, i) = {} /\ Has(w, i)
      BY <3>2
    <3>6. Expired(w, Expire(c[I \ {i}], i), (I \ {i}) \cup {i})
      BY <3>4, <3>5, ExpireOne
    <3>7. c[I] = Expire(c[I \ {i}], i)
      BY <2>2, <2>4 DEF ExpireStep, i
    <3>8. Expired(w, c[I], I)
      BY <3>2, <3>6, <3>7
    <3> QED BY <3>8 DEF Bad
  <2> QED BY <2>3, <2>4
<1> QED BY <1>1

LEMMA ExpireAllDoes ==
  ASSUME NEW w \in World, NEW due \in SUBSET Items, \A i \in due : Filed(w, i) = {} /\ Has(w, i)
  PROVE  Expired(w, ExpireAll(w, due), due)
<1> DEFINE Fixed(c) == c = [I \in SUBSET Items |->
                             IF I = {} THEN w
                             ELSE LET i == CHOOSE i \in I : TRUE IN Expire(c[I \ {i}], i)]
           c == CHOOSE c : Fixed(c)
<1>1. \E d : Fixed(d)
  <2>1. PICK d : d = [I \in SUBSET Items |-> ExpireStep(w, d, I)]
    BY ExpireExists
  <2>2. Fixed(d)
    BY <2>1 DEF ExpireStep, Chosen
  <2> QED BY <2>2
<1>2. Fixed(c)
  BY <1>1, Zenon
<1>3. ExpireAll(w, due) = c[due]
  BY Zenon DEF ExpireAll
<1> HIDE DEF c
<1>4. c = [I \in SUBSET Items |-> ExpireStep(w, c, I)]
  BY <1>2 DEF ExpireStep, Chosen
<1> HIDE DEF Fixed
<1>5. \A I \in SUBSET due : Expired(w, c[I], I)
  BY <1>4, ExpireSome
<1> QED BY <1>3, <1>5

\* What holds between operations.
Sane(w) ==
  /\ w \in World
  /\ \A i \in Items : Firm(w, i)
  /\ Late(w, {})
  /\ \A d \in w.decayMap : d.at >= -MaxDelay

\* checkDecay, whatever event runs it.
LEMMA CheckDecayDoes ==
  ASSUME NEW w \in World, \A i \in Items : Firm(w, i)
  PROVE  LET u == CheckDecay(w)
         IN /\ Sane(u)
            /\ \A i \in Items : u.item[i].placed => u.item[i].type \in {"stub", w.item[i].type}
<1> DEFINE rest == w.decayMap \ Due(w)
           due == {e.item : e \in Due(w)}
           v == [w EXCEPT !.decayMap = rest]
           done == ExpireAll(v, due)
           u == CheckDecay(w)
           R == {d.at : d \in rest}
<1>1. w.decayMap \subseteq [item: Items, at: Times] /\ Due(w) \subseteq w.decayMap
  BY DEF World, Due
<1>2. due \in SUBSET Items /\ R \in SUBSET Times /\ rest \subseteq [item: Items, at: Times]
  BY <1>1
<1>3. ASSUME NEW d \in rest PROVE d.at \in Int /\ d.at > 0
  <2>1. d.at \in Int
    BY <1>1, TimesAreIntegers
  <2>2. ~(d.at <= 0)
    BY DEF Due
  <2> QED BY <2>1, <2>2
<1>4. v.decayMap = rest /\ v.item = w.item /\ v \in World
  BY <1>2 DEF World
<1>5. ASSUME NEW i \in due PROVE Filed(v, i) = {} /\ Has(v, i)
  <2>1. PICK e \in Due(w) : e.item = i
    OBVIOUS
  <2>2. i \in Items /\ Firm(w, i) /\ e \in Filed(w, i)
    BY <1>1, <1>2, <2>1 DEF Filed
  <2>3. Filed(w, i) = {e}
    BY <2>2 DEF Firm
  <2> HIDE DEF v, due
  <2>4. \A d \in rest : d.item # i
    BY <1>1, <2>1, <2>3 DEF Filed
  <2> QED BY <1>4, <2>2, <2>4 DEF Filed, Firm, Has
<1>6. Late(v, R)
  BY <1>3, <1>4 DEF Late
<1> HIDE DEF due, v
<1>7. Expired(v, done, due)
  BY <1>2, <1>4, <1>5, ExpireAllDoes
<1>8. u = IF rest = {} THEN done ELSE Schedule(done, First(rest))
  BY DEF CheckDecay, v, due
<1> HIDE DEF done, u
<1>9. done \in World /\ \A d \in done.decayMap : d.at \in Int /\ d.at > 0
  BY <1>3, <1>4, <1>7, TimesAreIntegers DEF Expired, World
<1>10. ASSUME NEW i \in Items
       PROVE  Firm(done, i) /\ (done.item[i].placed => done.item[i].type \in {"stub", w.item[i].type})
  <2>1. CASE i \in due
    BY <1>4, <1>7, <2>1 DEF Expired
  <2>2. CASE i \notin due
    <3>1. done.item[i] = w.item[i]
      BY <1>4, <1>7, <2>2 DEF Expired
    <3>2. ASSUME NEW d \in [item: Items, at: Times], d.item = i
          PROVE  d \in done.decayMap <=> d \in w.decayMap
      <4>1. d \notin Due(w)
        BY <2>2, <3>2 DEF due
      <4>2. d \in done.decayMap <=> d \in rest
        BY <1>4, <1>7, <2>2, <3>2 DEF Expired
      <4> QED BY <4>1, <4>2
    <3>3. Firm(done, i)
      BY <1>9, <3>1, <3>2, Untouched
    <3> QED BY <3>1, <3>3
  <2> QED BY <2>1, <2>2
<1>11. Late(done, R)
  BY <1>2, <1>6, <1>7 DEF Expired
<1>12. /\ u \in World /\ Late(u, {}) /\ u.item = done.item /\ u.decayMap = done.decayMap
  <2>1. CASE rest = {}
    <3>1. R = {}
      BY <2>1
    <3> QED BY <1>8, <1>9, <1>11, <2>1, <3>1
  <2>2. CASE rest # {}
    <3> DEFINE first == First(rest)
    <3>1. first \in Times /\ \A e \in R : first <= e
      BY <1>2, <2>2, FirstExists
    <3>2. u = Schedule(done, first)
      BY <1>8, <2>2
    <3> HIDE DEF first
    <3>3. /\ u.item = done.item /\ u.decayMap = done.decayMap /\ u.event = first
          /\ u.others = done.others \cup ({done.event} \ {NoTime})
          /\ u = [item |-> u.item, decayMap |-> u.decayMap, event |-> u.event, others |-> u.others]
      BY <1>9, <3>2 DEF World, Schedule
    <3>4. u \in World
      BY <1>9, <3>1, <3>3 DEF World
    <3>5. Pending(done) \cup {first} \subseteq Pending(u)
      BY <3>1, <3>3, TimesAreIntegers DEF Pending
    <3>6. ASSUME NEW d \in u.decayMap PROVE \E e \in Pending(u) : e <= d.at
      <4>1. PICK e \in Pending(done) \cup R : e <= d.at
        BY <1>11, <3>3 DEF Late
      <4>2. CASE e \in Pending(done)
        BY <3>5, <4>1, <4>2
      <4>3. CASE e \in R
        <5>1. first \in Int /\ e \in Int /\ d.at \in Int /\ first <= e
          BY <1>2, <1>9, <3>1, <3>3, <4>3, TimesAreIntegers
        <5>2. first <= d.at
          BY <4>1, <5>1
        <5> QED BY <3>5, <5>2
      <4> QED BY <4>1, <4>2, <4>3
    <3> QED BY <3>3, <3>4, <3>6 DEF Late
  <2> QED BY <2>1, <2>2
<1>13. \A i \in Items : Firm(u, i)
  BY <1>10, <1>12 DEF Firm, Filed, Has
<1>14. \A d \in u.decayMap : d.at >= -MaxDelay
  BY <1>9, <1>12, DecayAssumption
<1> QED BY <1>10, <1>12, <1>13, <1>14 DEF Sane, u

\* Objects that are gone are forgotten.
LEMMA SettleDoes ==
  ASSUME NEW w, Sane(w)
  PROVE  LET u == Settle(w)
         IN Sane(u) /\ \A i \in Items : u.item[i].placed => u.item[i] = w.item[i]
<1> DEFINE u == Settle(w)
           items == [i \in Items |-> IF w.item[i].placed \/ Filed(w, i) # {} THEN w.item[i] ELSE Nowhere]
<1>1. w \in World /\ u = [w EXCEPT !.item = items]
  BY DEF Sane, Settle
<1>2. Nowhere \in ItemStates /\ Nowhere.placed = FALSE /\ Nowhere.state = "none" /\ Nowhere.duration = NoTime
  BY DEF Nowhere, ItemStates, Kinds
<1>3. /\ items \in [Items -> ItemStates]
      /\ \A i \in Items : items[i] = w.item[i] \/ (items[i] = Nowhere /\ Filed(w, i) = {})
  BY <1>1, <1>2 DEF World
<1> HIDE DEF items, u
<1>4. u.item = items /\ u.decayMap = w.decayMap /\ u.event = w.event /\ u.others = w.others /\ u \in World
  BY <1>1, <1>3 DEF World
<1>5. \A i \in Items : Firm(u, i)
  BY <1>2, <1>3, <1>4 DEF Firm, Filed, Has, Sane
<1>6. Late(u, {}) /\ \A d \in u.decayMap : d.at >= -MaxDelay
  BY <1>4 DEF Sane, Late, Pending
<1> QED BY <1>2, <1>3, <1>4, <1>5, <1>6 DEF Sane, u

\* An operation on one item.
LEMMA OneItem ==
  ASSUME NEW w, Sane(w), NEW u, NEW i \in Items, Does(w, u, i), Firm(u, i)
  PROVE  Sane(u)
<1>1. w \in World /\ u \in World
  BY DEF Does
<1>2. ASSUME NEW j \in Items PROVE Firm(u, j)
  <2>1. CASE j = i
    BY <2>1
  <2>2. CASE j # i
    BY <1>1, <2>2, Untouched DEF Does, Sane
  <2> QED BY <2>1, <2>2
<1>3. Late(u, {})
  BY DEF Does, Sane
<1>4. \A d \in u.decayMap : d.at >= -MaxDelay
  <2>1. \A d \in u.decayMap : d.at \in Int
    BY <1>1, TimesAreIntegers DEF World
  <2> QED BY <2>1, DecayAssumption DEF Does, Sane
<1> QED BY <1>1, <1>2, <1>3, <1>4 DEF Sane

\* What TimeIsKept says of a step, and what suffices when no item is lit or put
\* out.
KeepsTime(w, u) ==
  \A i \in Items :
    LET x == w.item[i]
        y == u.item[i]
    IN ({x.type, y.type} = {"lit", "unlit"} /\ x.placed /\ y.placed /\ x.duration # NoTime)
         => GetDuration(u, i) = GetDuration(w, i)
SameTypes(w, u) ==
  \A i \in Items : w.item[i].placed /\ u.item[i].placed => u.item[i].type \in {"stub", w.item[i].type}

LEMMA SameTypesKept == ASSUME NEW w, NEW u, SameTypes(w, u) PROVE KeepsTime(w, u)
  BY DEF KeepsTime, SameTypes

\* An operation on one item, and then Settle.
LEMMA OperationDone ==
  ASSUME NEW w, Sane(w), NEW u, NEW i \in Items, Does(w, u, i), Firm(u, i),
         w.item[i].placed /\ u.item[i].placed => u.item[i].type \in {"stub", w.item[i].type}
  PROVE  Sane(u) /\ SameTypes(w, u) /\ Sane(Settle(u)) /\ SameTypes(w, Settle(u))
<1>1. Sane(u)
  BY OneItem
<1>2. SameTypes(w, u)
  BY DEF SameTypes, Does
<1>3. Sane(Settle(u)) /\ \A j \in Items : Settle(u).item[j].placed => Settle(u).item[j] = u.item[j]
  BY <1>1, SettleDoes
<1>4. SameTypes(w, Settle(u))
  BY <1>2, <1>3 DEF SameTypes
<1> QED BY <1>1, <1>2, <1>3, <1>4

LEMMA SaneFacts ==
  ASSUME NEW w, Sane(w), NEW i \in Items
  PROVE  /\ w \in World /\ w.item[i] \in ItemStates /\ w.item[i].type \in Kinds
         /\ Firm(w, i) /\ Ready(w, i) /\ Loose(w, i) /\ Has(w, i)
<1>1. w \in World /\ Firm(w, i)
  BY DEF Sane
<1>2. w.item[i] \in ItemStates
  BY <1>1 DEF World
<1> QED BY <1>1, <1>2, FirmReady DEF ItemStates, Firm, Ready

SaneStep == Sane(decay') /\ KeepsTime(decay, decay')

LEMMA AppearKeeps ==
  ASSUME Sane(decay), NEW i \in Items, Appear(i) PROVE SaneStep
<1>1. PICK t \in Kinds \ {"invalid"} : \E state \in {"none", "pending"}, time \in Saved(t) :
        LET x == [type |-> t, state |-> state, duration |-> time, stamp |-> NoTime, placed |-> TRUE]
        IN decay' = Settle(StartDecay([decay EXCEPT !.item[i] = x], i))
  BY DEF Appear
<1>2. PICK state \in {"none", "pending"}, time \in Saved(t) :
        LET x == [type |-> t, state |-> state, duration |-> time, stamp |-> NoTime, placed |-> TRUE]
        IN decay' = Settle(StartDecay([decay EXCEPT !.item[i] = x], i))
  BY <1>1
<1> DEFINE x == [type |-> t, state |-> state, duration |-> time, stamp |-> NoTime, placed |-> TRUE]
           v == [decay EXCEPT !.item[i] = x]
           u == StartDecay(v, i)
<1>3. Saved(t) \subseteq {0, 1, 2, NoTime}
  <2>1. "lit" \in Kinds /\ "stub" \in Kinds
    BY DEF Kinds
  <2>2. DecayTime["lit"] = 2 /\ DecayTime["stub"] = 1
    BY <2>1, KindFacts
  <2> QED BY <2>2 DEF Saved, Kinds
<1>4. x \in ItemStates
  <2>1. time \in Times \cup {NoTime}
    BY <1>3, TimesAreIntegers
  <2> QED BY <2>1 DEF ItemStates
<1>5. decay' = Settle(u)
  BY <1>2
<1>6. x.duration = time /\ x.state = state /\ x.stamp = NoTime
  OBVIOUS
<1> HIDE DEF x, u
<1>7. Does(decay, v, i) /\ v.item[i] = x /\ Filed(v, i) = Filed(decay, i)
  BY <1>4, SaneFacts, ItemChanges
<1> HIDE DEF v
<1>8. v \in World /\ Ready(v, i)
  <2>1. Filed(v, i) = {}
    BY <1>7 DEF Appear
  <2>2. Has(v, i)
    BY <1>3, <1>7, <1>6 DEF Has
  <2> QED BY <1>7, <1>6, <2>1, <2>2 DEF Does, Ready, Loose
<1>9. Does(v, u, i) /\ Firm(u, i)
  BY <1>8, StartDecayDoes DEF u
<1>10. Does(decay, u, i)
  BY <1>7, <1>9, DoesMore
<1>11. ~decay.item[i].placed
  BY DEF Appear, Placed
<1> QED BY <1>5, <1>9, <1>10, <1>11, OperationDone, SameTypesKept DEF SaneStep

LEMMA LuaSetDurationKeeps ==
  ASSUME Sane(decay), NEW i \in Items, LuaSetDuration(i) PROVE SaneStep
<1>1. PICK time \in 0..MaxDuration :
        LET set == [decay EXCEPT !.item[i].state = "pending", !.item[i].duration = time]
        IN decay' = Settle(StartDecay(set, i))
  BY DEF LuaSetDuration
<1> DEFINE x == decay.item[i]
           y == [x EXCEPT !.state = "pending", !.duration = time]
           set == [decay EXCEPT !.item[i].state = "pending", !.item[i].duration = time]
           v == [decay EXCEPT !.item[i] = y]
           u == StartDecay(v, i)
<1>2. x \in ItemStates /\ x.type \in Kinds /\ Firm(decay, i) /\ x.placed /\ decay \in World
  BY SaneFacts DEF LuaSetDuration, Placed
<1>3. set = v
  BY <1>2 DEF World
<1>4. time \in Times /\ time \in Int /\ time >= 0
  BY TimesAreIntegers, DecayAssumption
<1>5. /\ y \in ItemStates /\ y.type = x.type /\ y.placed = x.placed /\ y.stamp = x.stamp
      /\ y.state = "pending" /\ y.duration = time
  BY <1>2, <1>4 DEF ItemStates
<1>6. Does(decay, v, i) /\ v.item[i] = y /\ Filed(v, i) = Filed(decay, i)
  BY <1>2, <1>5, ItemChanges
<1>7. decay' = Settle(u)
  BY <1>1, <1>3
<1> HIDE DEF u, v, y
<1>8. v \in World /\ Ready(v, i)
  <2>1. Filed(v, i) # {} => CanDecay(v, i)
    BY <1>2, <1>5, <1>6, CanDecayFacts DEF Firm
  <2>2. Loose(v, i)
    BY <1>2, <1>4, <1>5, <1>6 DEF Loose, Firm, Has
  <2>3. time # NoTime
    BY <1>4, TimesAreIntegers
  <2> QED BY <1>5, <1>6, <2>1, <2>2, <2>3 DEF Does, Ready
<1>9. Does(v, u, i) /\ Firm(u, i) /\ (u.item[i].placed => u.item[i].type \in {"stub", x.type})
  BY <1>5, <1>6, <1>8, StartDecayDoes DEF u
<1>10. Does(decay, u, i)
  BY <1>6, <1>9, DoesMore
<1> QED BY <1>7, <1>9, <1>10, OperationDone, SameTypesKept DEF SaneStep

LEMMA LuaStopDecayKeeps ==
  ASSUME Sane(decay), NEW i \in Items, LuaStopDecay(i) PROVE SaneStep
<1> DEFINE u == StopDecay(decay, i)
<1>1. decay' = u
  BY DEF LuaStopDecay
<1>2. /\ Does(decay, u, i) /\ Filed(u, i) = {} /\ Has(u, i) /\ u.item[i].type = decay.item[i].type
      /\ u.item[i].state # "true" /\ u.item[i].state \in {"none", decay.item[i].state}
  BY SaneFacts, StopDecayDoes
<1> HIDE DEF u
<1>3. Firm(u, i)
  BY <1>2, SaneFacts DEF Firm
<1> QED BY <1>1, <1>2, <1>3, OperationDone, SameTypesKept DEF SaneStep

LEMMA LuaDecayKeeps ==
  ASSUME Sane(decay), NEW i \in Items, LuaDecay(i) PROVE SaneStep
<1> DEFINE u == StartDecay(decay, i)
<1>1. decay' = Settle(u)
  BY DEF LuaDecay
<1>2. Does(decay, u, i) /\ Firm(u, i) /\ (u.item[i].placed => u.item[i].type \in {"stub", decay.item[i].type})
  BY SaneFacts, StartDecayDoes
<1> HIDE DEF u
<1> QED BY <1>1, <1>2, OperationDone, SameTypesKept DEF SaneStep

LEMMA RemoveItemKeeps ==
  ASSUME Sane(decay), NEW i \in Items, RemoveItem(i) PROVE SaneStep
<1> DEFINE u == Removed(decay, i)
<1>1. decay' = Settle(u)
  BY DEF RemoveItem
<1>2. Does(decay, u, i) /\ Firm(u, i) /\ u.item[i].placed = FALSE
  BY SaneFacts, RemovedDoes
<1> HIDE DEF u
<1> QED BY <1>1, <1>2, OperationDone, SameTypesKept DEF SaneStep

LEMMA RemoveContainerKeeps ==
  ASSUME Sane(decay), NEW i \in Items, RemoveContainer(i) PROVE SaneStep
<1> DEFINE x == decay.item[i]
           y == [x EXCEPT !.placed = FALSE]
           u == [decay EXCEPT !.item[i] = y]
<1>1. decay' = Settle([decay EXCEPT !.item[i].placed = FALSE])
  BY DEF RemoveContainer
<1>2. x \in ItemStates /\ Firm(decay, i) /\ decay \in World
  BY SaneFacts
<1>3. decay' = Settle(u)
  BY <1>1, <1>2 DEF World
<1>4. /\ y \in ItemStates /\ y.placed = FALSE /\ y.type = x.type /\ y.state = x.state
      /\ y.duration = x.duration /\ y.stamp = x.stamp
  BY <1>2 DEF ItemStates
<1>5. Does(decay, u, i) /\ u.item[i] = y /\ Filed(u, i) = Filed(decay, i)
  BY <1>2, <1>4, ItemChanges
<1> HIDE DEF u, y
<1>6. Firm(u, i)
  BY <1>2, <1>4, <1>5 DEF Firm, Has
<1> QED BY <1>3, <1>4, <1>5, <1>6, OperationDone, SameTypesKept DEF SaneStep

LEMMA RunEventKeeps == ASSUME Sane(decay), RunEvent PROVE SaneStep
<1>1. ASSUME NEW v \in World, v.item = decay.item, v.decayMap = decay.decayMap, decay' = Settle(CheckDecay(v))
      PROVE  SaneStep
  <2> DEFINE u == CheckDecay(v)
  <2>1. \A i \in Items : Firm(v, i)
    BY <1>1 DEF Sane, Firm, Filed, Has
  <2>2. Sane(u) /\ \A i \in Items : u.item[i].placed => u.item[i].type \in {"stub", decay.item[i].type}
    BY <1>1, <2>1, CheckDecayDoes
  <2> HIDE DEF u
  <2>3. Sane(Settle(u)) /\ \A j \in Items : Settle(u).item[j].placed => Settle(u).item[j] = u.item[j]
    BY <2>2, SettleDoes
  <2>4. SameTypes(decay, Settle(u))
    BY <2>2, <2>3 DEF SameTypes
  <2> QED BY <1>1, <2>3, <2>4, SameTypesKept DEF SaneStep, u
<1>2. decay \in World
  BY DEF Sane
<1>3. CASE decay' = Settle(CheckDecay([decay EXCEPT !.event = NoTime]))
  <2> DEFINE v == [decay EXCEPT !.event = NoTime]
  <2>1. v \in World /\ v.item = decay.item /\ v.decayMap = decay.decayMap
    BY <1>2 DEF World
  <2> HIDE DEF v
  <2> QED BY <1>1, <1>3, <2>1 DEF v
<1>4. ASSUME NEW e \in decay.others, decay' = Settle(CheckDecay([decay EXCEPT !.others = @ \ {e}]))
      PROVE  SaneStep
  <2> DEFINE v == [decay EXCEPT !.others = @ \ {e}]
  <2>1. v \in World /\ v.item = decay.item /\ v.decayMap = decay.decayMap
    BY <1>2 DEF World
  <2>2. decay' = Settle(CheckDecay(v))
    BY <1>4
  <2> HIDE DEF v
  <2> QED BY <1>1, <2>1, <2>2
<1> QED BY <1>3, <1>4 DEF RunEvent


\* Transform keeps the time that is left, wherever the item keeps it.
LEMMA TransformKeeps ==
  ASSUME Sane(decay), NEW i \in Items, Transform(i) PROVE SaneStep
<1>1. PICK t \in Kinds : <<decay.item[i].type, t>> \in Becomes /\ decay' = Settle(TransformItem(decay, i, t))
  BY DEF Transform
<1> DEFINE x == decay.item[i]
           to == TypeAfter(decay, i, t)
           v == Transformed(decay, i, t)
           z == v.item[i]
           u == StartDecay(v, i)
           y == u.item[i]
<1>2. /\ x \in ItemStates /\ x.type \in Kinds /\ x.placed /\ Firm(decay, i) /\ decay \in World /\ Has(decay, i)
  BY SaneFacts DEF Transform, Placed
<1>3. decay' = Settle(u)
  BY <1>1, <1>2 DEF TransformItem, Transformable, Becomes
<1>4. Does(decay, v, i) /\ Ready(v, i) /\ z.placed
  BY <1>1, <1>2, TransformedReady
<1>5. to \in Kinds /\ v = SetID(decay, i, to)
  BY <1>2, KindFacts DEF TypeAfter, Transformed, Kinds
<1> HIDE DEF u, v, to
<1>6. v \in World /\ z \in ItemStates /\ z.type \in Kinds
  BY <1>4 DEF Does, World, ItemStates
<1>7. /\ Does(v, u, i) /\ Firm(u, i)
      /\ TimeIsUp(v, i) /\ y.placed => y.type = "stub"
      /\ ~TimeIsUp(v, i) => y.type = z.type /\ u = Started(v, i)
  BY <1>4, <1>6, StartDecayDoes DEF u
<1>8. Does(decay, u, i)
  BY <1>4, <1>7, DoesMore
<1>9. Sane(u) /\ Sane(Settle(u))
  <2>1. Sane(u)
    BY <1>7, <1>8, OneItem
  <2> QED BY <2>1, SettleDoes
<1>10. ASSUME {x.type, y.type} = {"lit", "unlit"}, y.placed, x.duration # NoTime
       PROVE  GetDuration(u, i) = GetDuration(decay, i)
  <2>1. ~TimeIsUp(v, i) /\ y.type = z.type /\ u = Started(v, i) /\ z.type = to
    <3>1. y.type # "stub"
      BY <1>10
    <3>2. z.type = to
      BY <1>2, <1>5, SetIDDoes
    <3> QED BY <1>7, <1>10, <3>1, <3>2
  <2>2. /\ z.state = x.state /\ z.duration = x.duration /\ z.stamp = x.stamp
    BY <1>2, <1>5, <1>10, <2>1, SetIDDoes
  <2>3. GetDuration(v, i) = GetDuration(decay, i)
    BY <2>2 DEF GetDuration, Decaying
  <2>4. /\ ~CanDecay(v, i) =>
             IF z.state = "true" THEN y.state = "none" /\ y.duration = TimeLeft(v, i)
             ELSE z.state # "stopping" => u = v
        /\ z.state \in {"none", "false", "pending"} /\ CanDecay(v, i) /\ z.duration # NoTime =>
             y.state = "true" /\ y.stamp = z.duration
    BY <1>4, <1>6, <2>1, StartedDoes
  <2>5. x.state # "stopping"
    BY <1>2, <1>10 DEF Firm
  <2>6. u \in World /\ Has(u, i)
    BY <1>8, <1>9 DEF Does, Sane, Firm
  <2>7. CASE x.type = "lit" /\ y.type = "unlit"
    <3>1. ~CanDecay(v, i)
      BY <1>6, <2>1, <2>7, CanDecayFacts
    <3>2. CASE x.state = "true"
      <4>1. y.state = "none" /\ y.duration = GetDuration(v, i)
        BY <1>10, <2>2, <2>4, <3>1, <3>2 DEF TimeLeft
      <4>2. GetDuration(v, i) \in Times /\ GetDuration(v, i) # NoTime
        BY <1>6, GetDurationType, TimesAreIntegers
      <4>3. GetDuration(u, i) = y.duration
        BY <2>6, <4>1, <4>2, GetDurationType DEF Decaying
      <4> QED BY <2>3, <4>1, <4>3
    <3>3. CASE x.state # "true"
      BY <2>2, <2>3, <2>4, <2>5, <3>1, <3>3
    <3> QED BY <3>2, <3>3
  <2>8. CASE x.type = "unlit" /\ y.type = "lit"
    <3>1. CanDecay(v, i)
      BY <1>4, <1>6, <2>1, <2>8, CanDecayFacts
    <3>2. x.state \in {"none", "false", "pending"}
      BY <1>2, <2>5, <2>8 DEF Firm, ItemStates
    <3>3. y.state = "true" /\ y.stamp = x.duration
      BY <1>10, <2>2, <2>4, <3>1, <3>2
    <3>4. GetDuration(u, i) = IF x.duration = NoTime THEN 0 ELSE Max({0, x.duration})
      BY <3>3 DEF GetDuration, Decaying
    <3>5. GetDuration(decay, i) = IF x.duration = NoTime THEN 0 ELSE Max({0, x.duration})
      BY <3>2 DEF GetDuration, Decaying
    <3> QED BY <3>4, <3>5
  <2> QED BY <1>10, <2>7, <2>8
<1>11. KeepsTime(decay, Settle(u))
  <2>1. \A j \in Items : Settle(u).item[j].placed => Settle(u).item[j] = u.item[j]
    BY <1>9, SettleDoes
  <2> SUFFICES ASSUME NEW j \in Items,
                      {decay.item[j].type, Settle(u).item[j].type} = {"lit", "unlit"},
                      Settle(u).item[j].placed, decay.item[j].duration # NoTime
               PROVE  GetDuration(Settle(u), j) = GetDuration(decay, j)
    BY DEF KeepsTime
  <2>2. Settle(u).item[j] = u.item[j]
    BY <2>1
  <2>3. j = i
    <3>1. j # i => u.item[j] = decay.item[j]
      BY <1>8 DEF Does
    <3> QED BY <2>2, <3>1
  <2>4. GetDuration(Settle(u), j) = GetDuration(u, j)
    BY <2>2 DEF GetDuration, Decaying
  <2> QED BY <1>10, <2>2, <2>3, <2>4
<1> QED BY <1>3, <1>9, <1>11 DEF SaneStep

LEMMA EarlierFacts ==
  ASSUME NEW a \in Times
  PROVE  /\ Earlier(a) \in Times /\ Earlier(a) # NoTime
         /\ a > -MaxDelay => Earlier(a) >= -MaxDelay
         /\ \A b \in Times : b <= a => Earlier(b) <= Earlier(a)
<1>1. MaxDelay \in Nat /\ MaxDuration \in Nat /\ a \in Int /\ a # NoTime
  BY TimesAreIntegers, DecayAssumption
<1>2. ASSUME NEW b \in Times
      PROVE  b \in Int /\ Earlier(b) = IF -MaxDelay - 1 >= b - 1 THEN -MaxDelay - 1 ELSE b - 1
  <2>1. b \in Int /\ b # NoTime /\ b - 1 \in Int /\ -MaxDelay - 1 \in Int
    BY <1>1, TimesAreIntegers
  <2>2. Earlier(b) = Max({b - 1, -MaxDelay - 1})
    BY <2>1 DEF Earlier
  <2> QED BY <2>1, <2>2, MaxOfTwo
<1>3. Earlier(a) \in Times
  <2>1. Earlier(a) \in Int /\ Earlier(a) >= -MaxDelay - 1 /\ Earlier(a) <= a
    BY <1>1, <1>2, TimesAreIntegers
  <2> QED BY <1>1, <2>1, TimesAreIntegers
<1> QED BY <1>1, <1>2, <1>3, TimesAreIntegers

LEMMA TimePassesKeeps == ASSUME Sane(decay), TimePasses PROVE SaneStep
<1>1. /\ decay \in World /\ decay.item \in [Items -> ItemStates] /\ decay.others \subseteq Times
      /\ decay.event \in Times \cup {NoTime} /\ decay.decayMap \subseteq [item: Items, at: Times]
  BY DEF Sane, World
<1>2. \A e \in Pending(decay) : e > -MaxDelay
  BY DEF TimePasses, Events, Pending
<1>3. /\ decay'.item = [i \in Items |-> [decay.item[i] EXCEPT !.stamp = Earlier(@)]]
      /\ decay'.decayMap = {[e EXCEPT !.at = Earlier(@)] : e \in decay.decayMap}
      /\ decay'.event = Earlier(decay.event) /\ decay'.others = {Earlier(e) : e \in decay.others}
      /\ decay' = [item |-> decay'.item, decayMap |-> decay'.decayMap,
                   event |-> decay'.event, others |-> decay'.others]
  BY DEF TimePasses
<1>4. Earlier(NoTime) = NoTime
  BY DEF Earlier
<1>5. ASSUME NEW i \in Items
      PROVE  LET x == decay.item[i]
                 y == decay'.item[i]
             IN /\ y \in ItemStates /\ y.stamp = Earlier(x.stamp)
                /\ y.type = x.type /\ y.state = x.state /\ y.placed = x.placed /\ y.duration = x.duration
  <2>1. decay.item[i] \in ItemStates
    BY <1>1
  <2>2. Earlier(decay.item[i].stamp) \in Times \cup {NoTime}
    BY <1>4, <2>1, EarlierFacts DEF ItemStates
  <2> QED BY <1>3, <2>1, <2>2 DEF ItemStates
<1>6. ASSUME NEW d \in decay'.decayMap
      PROVE  \E c \in decay.decayMap : d = [item |-> c.item, at |-> Earlier(c.at)]
  <2>1. PICK c \in decay.decayMap : d = [c EXCEPT !.at = Earlier(@)]
    BY <1>3
  <2>2. c \in [item: Items, at: Times]
    BY <1>1
  <2> QED BY <2>1, <2>2
<1>7. ASSUME NEW c \in decay.decayMap PROVE [item |-> c.item, at |-> Earlier(c.at)] \in decay'.decayMap
  <2>1. c \in [item: Items, at: Times]
    BY <1>1
  <2>2. [c EXCEPT !.at = Earlier(@)] = [item |-> c.item, at |-> Earlier(c.at)]
    BY <2>1
  <2> QED BY <1>3, <2>2
<1>8. decay' \in World
  <2>1. decay'.item \in [Items -> ItemStates]
    BY <1>3, <1>5
  <2>2. decay'.decayMap \subseteq [item: Items, at: Times]
    BY <1>1, <1>6, EarlierFacts
  <2>3. decay'.event \in Times \cup {NoTime} /\ decay'.others \subseteq Times
    BY <1>1, <1>3, <1>4, EarlierFacts
  <2> QED BY <1>3, <2>1, <2>2, <2>3 DEF World
<1>9. ASSUME NEW i \in Items PROVE Firm(decay', i)
  <2> DEFINE x == decay.item[i]
             y == decay'.item[i]
  <2>1. Firm(decay, i)
    BY DEF Sane
  <2>2. x \in ItemStates
    BY <1>1
  <2>3. CASE x.state = "true"
    <3>1. Filed(decay, i) = {[item |-> i, at |-> x.stamp]} /\ x.stamp # NoTime
      BY <2>1, <2>3 DEF Firm
    <3>2. Filed(decay', i) = {[item |-> i, at |-> Earlier(x.stamp)]}
      <4>1. ASSUME NEW d \in Filed(decay', i) PROVE d = [item |-> i, at |-> Earlier(x.stamp)]
        <5>1. PICK c \in decay.decayMap : d = [item |-> c.item, at |-> Earlier(c.at)]
          BY <1>6 DEF Filed
        <5>2. c \in Filed(decay, i)
          BY <4>1, <5>1 DEF Filed
        <5> QED BY <3>1, <5>1, <5>2
      <4>2. [item |-> i, at |-> x.stamp] \in decay.decayMap
        BY <3>1 DEF Filed
      <4>3. [item |-> i, at |-> Earlier(x.stamp)] \in Filed(decay', i)
        BY <1>7, <4>2 DEF Filed
      <4> QED BY <4>1, <4>3
    <3>3. Earlier(x.stamp) # NoTime
      BY <2>2, <3>1, EarlierFacts DEF ItemStates
    <3> QED BY <1>5, <2>1, <2>3, <3>2, <3>3 DEF Firm, Has
  <2>4. CASE x.state # "true"
    <3>1. Filed(decay, i) = {}
      BY <2>1, <2>4 DEF Firm
    <3>2. Filed(decay', i) = {}
      BY <1>6, <3>1 DEF Filed
    <3> QED BY <1>5, <2>1, <2>4, <3>2 DEF Firm, Has
  <2> QED BY <2>3, <2>4
<1>10. ASSUME NEW d \in decay'.decayMap
       PROVE  /\ \E e \in Pending(decay') : e <= d.at
              /\ d.at >= -MaxDelay
  <2>1. PICK c \in decay.decayMap : d = [item |-> c.item, at |-> Earlier(c.at)]
    BY <1>6
  <2>2. PICK e \in Pending(decay) : e <= c.at
    BY DEF Sane, Late
  <2>3. e \in Times /\ c.at \in Times /\ e \in Int /\ c.at \in Int
    BY <1>1, TimesAreIntegers DEF Pending
  <2>4. Earlier(e) \in Pending(decay')
    BY <1>3, <1>4, <2>3, EarlierFacts DEF Pending
  <2>5. Earlier(e) <= d.at
    BY <2>1, <2>2, <2>3, EarlierFacts
  <2>6. c.at > -MaxDelay
    <3>1. e > -MaxDelay
      BY <1>2
    <3> QED BY <2>2, <2>3, <3>1, DecayAssumption
  <2> QED BY <2>1, <2>3, <2>4, <2>5, <2>6, EarlierFacts
<1>11. Sane(decay')
  BY <1>8, <1>9, <1>10 DEF Sane, Late
<1>12. SameTypes(decay, decay')
  BY <1>5 DEF SameTypes
<1> QED BY <1>11, <1>12, SameTypesKept DEF SaneStep

DecayInv == Sane(decay)
DecayStep == KeepsTime(decay, decay')

LEMMA SaneAlways == DecaySpec => []DecayInv /\ [][DecayStep]_decay
<1>1. DecayInit => DecayInv
  <2> SUFFICES ASSUME DecayInit PROVE Sane(decay)
    BY DEF DecayInv
  <2>1. Nowhere \in ItemStates /\ Nowhere.state = "none" /\ Nowhere.duration = NoTime
    BY DEF Nowhere, ItemStates, Kinds
  <2>2. /\ decay.item = [i \in Items |-> Nowhere] /\ decay.decayMap = {}
        /\ decay.event = NoTime /\ decay.others = {}
        /\ decay = [item |-> decay.item, decayMap |-> decay.decayMap,
                    event |-> decay.event, others |-> decay.others]
    BY DEF DecayInit
  <2>3. decay \in World
    BY <2>1, <2>2 DEF World
  <2>4. \A i \in Items : Firm(decay, i)
    BY <2>1, <2>2 DEF Firm, Filed, Has
  <2> QED BY <2>2, <2>3, <2>4 DEF Sane, Late
<1>2. DecayInv /\ [DecayNext]_decay => DecayInv' /\ [DecayStep]_decay
  <2> SUFFICES ASSUME Sane(decay), [DecayNext]_decay PROVE SaneStep
    BY DEF SaneStep, DecayInv, DecayStep
  <2>1. ASSUME NEW i \in Items, Appear(i) PROVE SaneStep
    BY <2>1, AppearKeeps
  <2>2. ASSUME NEW i \in Items, Transform(i) PROVE SaneStep
    BY <2>2, TransformKeeps
  <2>3. ASSUME NEW i \in Items, RemoveItem(i) PROVE SaneStep
    BY <2>3, RemoveItemKeeps
  <2>4. ASSUME NEW i \in Items, RemoveContainer(i) PROVE SaneStep
    BY <2>4, RemoveContainerKeeps
  <2>5. ASSUME NEW i \in Items, LuaSetDuration(i) PROVE SaneStep
    BY <2>5, LuaSetDurationKeeps
  <2>6. ASSUME NEW i \in Items, LuaStopDecay(i) PROVE SaneStep
    BY <2>6, LuaStopDecayKeeps
  <2>7. ASSUME NEW i \in Items, LuaDecay(i) PROVE SaneStep
    BY <2>7, LuaDecayKeeps
  <2>8. CASE RunEvent
    BY <2>8, RunEventKeeps
  <2>9. CASE TimePasses
    BY <2>9, TimePassesKeeps
  <2>10. CASE UNCHANGED decay
    BY <2>10 DEF SaneStep, KeepsTime
  <2> QED BY <2>1, <2>2, <2>3, <2>4, <2>5, <2>6, <2>7, <2>8, <2>9, <2>10 DEF DecayNext
<1> QED BY <1>1, <1>2, PTL DEF DecaySpec

\* The attributes of items and the entries of decayMap are what the code holds,
\* whatever scripts, equipment and the dispatcher did.
THEOREM DecayTypeCorrect == DecaySpec => []DecayTypeOK
<1>1. DecayInv => DecayTypeOK
  BY DEF DecayInv, Sane, World, ItemStates, DecayTypeOK
<1> QED BY <1>1, SaneAlways, PTL

\* An item is filed once, where its attributes say, and the dispatcher has an
\* event no later than the first bucket (property DecayMapSound).
THEOREM ItemsAreFiled == DecaySpec => []DecayMapSound
<1>1. DecayInv => DecayMapSound
  <2> SUFFICES ASSUME Sane(decay) PROVE DecayMapSound
    BY DEF DecayInv
  <2>1. \A i \in Items : Filed(decay, i) = IF decay.item[i].state = "true"
                                           THEN {[item |-> i, at |-> decay.item[i].stamp]} ELSE {}
    BY DEF Sane, Firm
  <2>2. ASSUME decay.decayMap # {} PROVE \E e \in Events : e <= First(decay.decayMap)
    <3>1. PICK d \in decay.decayMap : d.at = First(decay.decayMap)
      BY <2>2, FirstExists DEF Sane, World
    <3>2. PICK e \in Pending(decay) : e <= d.at
      BY DEF Sane, Late
    <3> QED BY <3>1, <3>2 DEF Events, Pending
  <2>3. \A d \in decay.decayMap : d.at >= -MaxDelay
    BY DEF Sane
  <2> QED BY <2>1, <2>2, <2>3 DEF DecayMapSound
<1> QED BY <1>1, SaneAlways, PTL

\* Putting an item out and lighting it again does not change how long it lasts
\* (property TimeIsKept).
THEOREM TimeKept == DecaySpec => TimeIsKept
<1>1. [DecayStep]_decay <=> [\A i \in Items :
       LET x == decay.item[i]
           y == decay'.item[i]
       IN ({x.type, y.type} = {"lit", "unlit"} /\ x.placed /\ y.placed /\ x.duration # NoTime)
            => GetDuration(decay', i) = GetDuration(decay, i)]_decay
  BY DEF DecayStep, KeepsTime
<1> QED BY <1>1, SaneAlways, PTL DEF TimeIsKept

-----------------------------------------------------------------------------
(* Trades. *)

\* Who loses his trade when those of a set do.
Closed(set) == ClosedFor(set) \intersect People

\* What the four properties need besides themselves: who has agreed to
\* something has a partner who offers it.
AgreedWithPartner ==
  \A p \in People : agreed[p] # {} =>
    tradePartner[p] \in People /\ tradeItem[tradePartner[p]] \in Things

TradeInv ==
  /\ TradeTypeOK
  /\ NothingOfferedTwice
  /\ OfferIsNear
  /\ StillAgreed
  /\ AgreedWithPartner

USE TradeAssumption

-----------------------------------------------------------------------------
(* What closing trades does.                                                 *)

\* Partners lose a trade together.
LEMMA ClosedWithPartner ==
  ASSUME TradeTypeOK, NEW set \in SUBSET People, NEW p \in People, NEW q \in People,
         tradePartner[p] = q
  PROVE  p \in Closed(set) <=> q \in Closed(set)
BY DEF TradeTypeOK, Closed, ClosedFor

\* Whoever is not closed keeps everything, the others have nothing left.
LEMMA CloseEffect ==
  ASSUME TradeTypeOK, NEW set \in SUBSET People, CloseTrade(set), NEW p \in People
  PROVE  /\ p \in Closed(set) =>
              /\ tradeState'[p] = "none" /\ tradePartner'[p] = None
              /\ tradeItem'[p] = None /\ agreed'[p] = {}
         /\ p \notin Closed(set) =>
              /\ tradeState'[p] = tradeState[p] /\ tradePartner'[p] = tradePartner[p]
              /\ tradeItem'[p] = tradeItem[p] /\ agreed'[p] = agreed[p]
BY DEF TradeTypeOK, CloseTrade, Closed

\* An offer that is still there was there before, with the same player.
LEMMA OffersLeft ==
  ASSUME TradeTypeOK, NEW set \in SUBSET People, CloseTrade(set), NEW p \in People,
         tradeItem'[p] # None
  PROVE  p \notin Closed(set) /\ tradeItem'[p] = tradeItem[p] /\ tradeItem[p] \in Things
BY CloseEffect DEF TradeTypeOK

\* The bookkeeping survives, wherever things are put meanwhile.
LEMMA CloseKeepsTypes ==
  ASSUME TradeTypeOK, NEW set \in SUBSET People, CloseTrade(set),
         place' \in [Things -> People \union {Floor, Bag}], place'[Bag] # Bag
  PROVE  TradeTypeOK'
<1>1. /\ tradeState' \in [People -> {"none", "initiated", "acknowledge", "accept"}]
      /\ tradePartner' \in [People -> People \union {None}]
      /\ tradeItem' \in [People -> Things \union {None}]
      /\ tradeItems' \in [Things -> People \union {None}]
      /\ agreed' \in [People -> SUBSET Things]
  BY DEF TradeTypeOK, CloseTrade
<1>2. \A p, q \in People : tradePartner'[p] = q => q # p /\ tradePartner'[q] = p
  <2> SUFFICES ASSUME NEW p \in People, NEW q \in People, tradePartner'[p] = q
               PROVE  q # p /\ tradePartner'[q] = p
    OBVIOUS
  <2>1. p \notin Closed(set) /\ tradePartner[p] = q
    BY CloseEffect
  <2>2. q \notin Closed(set) /\ q # p /\ tradePartner[q] = p
    BY <2>1, ClosedWithPartner DEF TradeTypeOK
  <2> QED
    BY <2>2, CloseEffect
<1>3. \A p \in People : tradePartner'[p] = None <=> tradeState'[p] = "none"
  BY CloseEffect DEF TradeTypeOK
<1>4. \A p \in People : tradeState'[p] \in {"none", "acknowledge"} => tradeItem'[p] = None
  BY CloseEffect DEF TradeTypeOK
<1>5. \A p \in People : tradeState'[p] = "initiated" => tradeItem'[p] # None
  BY CloseEffect DEF TradeTypeOK
<1>6. \A p \in People, i \in Things : tradeItems'[i] = p <=> tradeItem'[p] = i
  BY CloseEffect DEF TradeTypeOK, CloseTrade, Closed
<1> QED
  BY <1>1, <1>2, <1>3, <1>4, <1>5, <1>6 DEF TradeTypeOK

\* As long as what is still offered stays where it is, with what is in it,
\* closing trades disturbs nothing.
LEMMA CloseKeepsInv ==
  ASSUME TradeInv, NEW set \in SUBSET People, CloseTrade(set),
         place' \in [Things -> People \union {Floor, Bag}], place'[Bag] # Bag,
         \A p \in People \ Closed(set), i \in Things : tradeItem[p] = i =>
           Content(i)' = Content(i) /\ Near(p, i)'
  PROVE  TradeInv'
<1>0. TradeTypeOK /\ NothingOfferedTwice /\ OfferIsNear /\ StillAgreed /\ AgreedWithPartner
  BY DEF TradeInv
<1>1. TradeTypeOK'
  BY <1>0, CloseKeepsTypes
<1>2. NothingOfferedTwice'
  <2>1. ASSUME NEW p \in People, NEW q \in People, p # q, NEW x, NEW y,
               tradeItem'[p] = x, tradeItem'[q] = y
        PROVE  Content(x)' \intersect Content(y)' = {}
    <3>1. CASE x = None \/ y = None
      BY <3>1 DEF Content
    <3>2. CASE x # None /\ y # None
      <4>1. /\ p \in People \ Closed(set) /\ x = tradeItem[p] /\ x \in Things
            /\ q \in People \ Closed(set) /\ y = tradeItem[q] /\ y \in Things
        BY <1>0, <2>1, <3>2, OffersLeft
      <4>2. Content(x) \intersect Content(y) = {}
        BY <1>0, <2>1, <4>1 DEF NothingOfferedTwice
      <4>3. Content(x)' = Content(x) /\ Content(y)' = Content(y)
        BY <4>1
      <4> QED
        BY <4>2, <4>3
    <3> QED
      BY <3>1, <3>2
  <2> QED
    BY <2>1 DEF NothingOfferedTwice, Content
<1>3. OfferIsNear'
  <2>1. ASSUME NEW p \in People, NEW x, tradeItem'[p] = x, x # None
        PROVE  Near(p, x)'
    <3>1. p \in People \ Closed(set) /\ tradeItem[p] = x /\ x \in Things
      BY <1>0, <2>1, OffersLeft
    <3> QED
      BY <3>1
  <2> QED
    BY <2>1 DEF OfferIsNear, Near
<1>4. StillAgreed' /\ AgreedWithPartner'
  <2>1. ASSUME NEW p \in People, agreed'[p] # {}
        PROVE  \E q \in People, x \in Things :
                 tradePartner'[p] = q /\ tradeItem'[q] = x /\ agreed'[p] = Content(x)'
    <3>1. p \notin Closed(set) /\ agreed'[p] = agreed[p] /\ tradePartner'[p] = tradePartner[p]
      BY <1>0, <2>1, CloseEffect
    <3>2. PICK q \in People : q = tradePartner[p]
      BY <1>0, <2>1, <3>1 DEF AgreedWithPartner
    <3>3. PICK x \in Things : x = tradeItem[q]
      BY <1>0, <2>1, <3>1, <3>2 DEF AgreedWithPartner
    <3>4. agreed[p] = Content(x)
      BY <1>0, <2>1, <3>1, <3>2, <3>3 DEF StillAgreed
    <3>5. q \in People \ Closed(set) /\ tradeItem'[q] = x
      BY <1>0, <3>1, <3>2, <3>3, ClosedWithPartner, CloseEffect
    <3>6. Content(x)' = Content(x)
      BY <3>3, <3>5
    <3> QED
      BY <3>1, <3>2, <3>4, <3>5, <3>6
  <2>2. AgreedWithPartner'
    BY <2>1 DEF AgreedWithPartner
  <2>3. ASSUME NEW p \in People, agreed'[p] # {}
        PROVE  (agreed[p] = Content(tradeItem[tradePartner[p]]))'
    <3>1. PICK q \in People, x \in Things :
            tradePartner'[p] = q /\ tradeItem'[q] = x /\ agreed'[p] = Content(x)'
      BY <2>1, <2>3
    <3> QED
      BY <3>1 DEF Content
  <2>4. StillAgreed'
    BY <2>3 DEF StillAgreed
  <2> QED
    BY <2>2, <2>4
<1> QED
  BY <1>1, <1>2, <1>3, <1>4 DEF TradeInv

-----------------------------------------------------------------------------
(* The actions of a trade.                                                   *)

LEMMA TradeInitially == TradeInit => TradeInv
<1> SUFFICES ASSUME TradeInit PROVE TradeInv
  OBVIOUS
<1>1. TradeTypeOK
  BY DEF TradeInit, TradeTypeOK
<1>2. NothingOfferedTwice /\ OfferIsNear /\ StillAgreed /\ AgreedWithPartner
  BY DEF TradeInit, NothingOfferedTwice, OfferIsNear, StillAgreed, AgreedWithPartner, Content
<1> QED
  BY <1>1, <1>2 DEF TradeInv

LEMMA LeaveTradeKeeps ==
  ASSUME TradeInv, NEW p \in People, LeaveTrade(p)
  PROVE  TradeInv'
<1>1. CloseTrade({p}) /\ place' = place
  BY DEF LeaveTrade
<1>2. place' \in [Things -> People \union {Floor, Bag}] /\ place'[Bag] # Bag
  BY <1>1 DEF TradeInv, TradeTypeOK
<1>3. \A q \in People \ Closed({p}), i \in Things : tradeItem[q] = i =>
        Content(i)' = Content(i) /\ Near(q, i)'
  BY <1>1 DEF Content, Near, TradeInv, OfferIsNear
<1> QED
  BY <1>1, <1>2, <1>3, CloseKeepsInv

\* What is moved, and what it is moved out of or into, is nobody's offer any
\* more, and an offered thing in a bag that is moved is not either.
LEMMA MoveThingKeeps ==
  ASSUME TradeInv, NEW p \in People, NEW i \in Things, NEW to \in {p, Floor, Bag}, MoveThing(p, i, to)
  PROVE  TradeInv'
<1> DEFINE set == Touched(i, place[i], to)
<1>0. TradeTypeOK /\ OfferIsNear
  BY DEF TradeInv
<1>1. CloseTrade(set) /\ place' = [place EXCEPT ![i] = to] /\ to # place[i] /\ (to = Bag => i # Bag)
  BY DEF MoveThing, TradeTypeOK
<1>2. set \in SUBSET People
  BY DEF Touched
<1>3. place' \in [Things -> People \union {Floor, Bag}] /\ place'[Bag] # Bag
  BY <1>0, <1>1 DEF TradeTypeOK
<1>4. ASSUME NEW q \in People \ Closed(set), NEW j \in Things, tradeItem[q] = j
      PROVE  Content(j)' = Content(j) /\ Near(q, j)'
  <2>1. q \notin set
    BY <1>2, <1>4 DEF Closed, ClosedFor
  <2>2. j # None
    OBVIOUS
  <2>3. j # i /\ j # place[i] /\ j # to /\ place[j] # i
    BY <2>1, <2>2, <1>4 DEF Touched
  <2>4. Content(j)' = Content(j)
    <3>1. \A x \in Things : place'[x] = j <=> place[x] = j
      BY <2>3, <1>0, <1>1 DEF TradeTypeOK
    <3> QED
      BY <3>1, <2>2 DEF Content
  <2>5. Near(q, j)
    BY <1>0, <1>4, <2>2 DEF OfferIsNear
  <2>6. Near(q, j)'
    BY <2>3, <2>5, <1>0, <1>1 DEF Near, TradeTypeOK
  <2> QED
    BY <2>4, <2>6
<1> HIDE DEF set
<1> QED
  BY <1>1, <1>2, <1>3, <1>4, CloseKeepsInv

\* p offers i, which is in no other offer. Whoever has agreed to something got
\* his offer before, and p had made none.
LEMMA RequestTradeKeeps ==
  ASSUME TradeInv, NEW p \in People, NEW q \in People, NEW i \in Things, RequestTrade(p, q, i)
  PROVE  TradeInv'
<1>0. TradeTypeOK /\ NothingOfferedTwice /\ OfferIsNear /\ StillAgreed /\ AgreedWithPartner
  BY DEF TradeInv
<1>1. /\ p # q /\ Near(p, i) /\ ~IsTraded(i) /\ MayStart(p, q)
      /\ tradeItem' = [tradeItem EXCEPT ![p] = i]
      /\ tradeItems' = [tradeItems EXCEPT ![i] = p]
      /\ place' = place /\ agreed' = agreed
  BY DEF RequestTrade
<1>2. tradeItem[p] = None /\ tradeItems[i] = None
  <2>1. tradeItem[p] = None
    BY <1>0, <1>1 DEF MayStart, TradeTypeOK
  <2>2. tradeItems[i] = None
    BY <1>1 DEF IsTraded, Content
  <2> QED
    BY <2>1, <2>2
<1>3. \/ /\ tradeState[q] = "none" /\ tradeState[p] = "none"
         /\ tradeState' = [tradeState EXCEPT ![p] = "initiated", ![q] = "acknowledge"]
         /\ tradePartner' = [tradePartner EXCEPT ![p] = q, ![q] = p]
      \/ /\ tradeState[q] # "none" /\ tradePartner[q] = p /\ tradePartner[p] = q
         /\ tradeState' = [tradeState EXCEPT ![p] = "initiated"]
         /\ tradePartner' = tradePartner
  BY <1>0, <1>1 DEF RequestTrade, MayStart, TradeTypeOK
<1>4. TradeTypeOK'
  <2>1. /\ place' \in [Things -> People \union {Floor, Bag}] /\ place'[Bag] # Bag
        /\ tradeState' \in [People -> {"none", "initiated", "acknowledge", "accept"}]
        /\ tradePartner' \in [People -> People \union {None}]
        /\ tradeItem' \in [People -> Things \union {None}]
        /\ tradeItems' \in [Things -> People \union {None}]
        /\ agreed' \in [People -> SUBSET Things]
    BY <1>0, <1>1, <1>3 DEF TradeTypeOK
  <2>2. \A r, t \in People : tradePartner'[r] = t => t # r /\ tradePartner'[t] = r
    BY <1>0, <1>1, <1>3 DEF TradeTypeOK
  <2>3. \A r \in People : tradePartner'[r] = None <=> tradeState'[r] = "none"
    BY <1>0, <1>1, <1>3 DEF TradeTypeOK
  <2>4. \A r \in People : tradeState'[r] \in {"none", "acknowledge"} => tradeItem'[r] = None
    BY <1>0, <1>1, <1>2, <1>3 DEF TradeTypeOK
  <2>5. \A r \in People : tradeState'[r] = "initiated" => tradeItem'[r] # None
    BY <1>0, <1>1, <1>3 DEF TradeTypeOK
  <2>6. \A r \in People, j \in Things : tradeItems'[j] = r <=> tradeItem'[r] = j
    BY <1>0, <1>1, <1>2 DEF TradeTypeOK
  <2> QED
    BY <2>1, <2>2, <2>3, <2>4, <2>5, <2>6 DEF TradeTypeOK
<1>5. \A r \in People \ {p} : tradeItem'[r] = tradeItem[r] /\ (tradeItem[r] # None => tradeItem[r] \in Things)
  BY <1>0, <1>1 DEF TradeTypeOK
<1>6. tradeItem'[p] = i
  BY <1>0, <1>1 DEF TradeTypeOK
<1>7. ASSUME NEW j \in Things, NEW r \in People, tradeItem[r] = j
      PROVE  Content(i) \intersect Content(j) = {}
  <2>1. tradeItems[j] # None
    BY <1>0, <1>7 DEF TradeTypeOK
  <2>2. i \notin Content(j) /\ j \notin Content(i)
    BY <1>1, <2>1 DEF IsTraded
  <2> QED
    BY <2>2 DEF Content
<1>8. NothingOfferedTwice'
  <2>1. ASSUME NEW r \in People, NEW t \in People, r # t
        PROVE  Content(tradeItem'[r]) \intersect Content(tradeItem'[t]) = {}
    BY <1>0, <1>5, <1>6, <1>7, <2>1 DEF NothingOfferedTwice, Content
  <2> QED
    BY <2>1, <1>1 DEF NothingOfferedTwice, Content
<1>9. OfferIsNear'
  <2>1. \A r \in People : tradeItem'[r] # None => Near(r, tradeItem'[r])
    BY <1>0, <1>1, <1>5, <1>6 DEF OfferIsNear
  <2> QED
    BY <2>1, <1>1 DEF OfferIsNear, Near
<1>10. StillAgreed' /\ AgreedWithPartner'
  <2>1. ASSUME NEW r \in People, agreed[r] # {}
        PROVE  /\ tradePartner'[r] = tradePartner[r] /\ tradePartner[r] \in People
               /\ tradeItem'[tradePartner[r]] = tradeItem[tradePartner[r]]
               /\ tradeItem[tradePartner[r]] \in Things
               /\ agreed[r] = Content(tradeItem[tradePartner[r]])
    <3>1. tradePartner[r] \in People /\ tradeItem[tradePartner[r]] \in Things
            /\ agreed[r] = Content(tradeItem[tradePartner[r]])
      BY <1>0, <2>1 DEF StillAgreed, AgreedWithPartner
    <3>2. tradePartner[r] # p
      BY <3>1, <1>2
    <3>3. tradePartner'[r] = tradePartner[r]
      BY <3>1, <3>2, <1>0, <1>3 DEF TradeTypeOK
    <3> QED
      BY <3>1, <3>2, <3>3, <1>5
  <2>2. AgreedWithPartner'
    BY <2>1, <1>1 DEF AgreedWithPartner
  <2>3. ASSUME NEW r \in People, agreed'[r] # {}
        PROVE  (agreed[r] = Content(tradeItem[tradePartner[r]]))'
    <3>1. agreed[r] # {} /\ agreed'[r] = agreed[r]
      BY <2>3, <1>1
    <3>2. PICK t \in People, x \in Things :
            tradePartner'[r] = t /\ tradeItem'[t] = x /\ agreed[r] = Content(x)
      BY <2>1, <3>1
    <3> QED
      BY <3>1, <3>2, <1>1 DEF Content
  <2>4. StillAgreed'
    BY <2>3 DEF StillAgreed
  <2> QED
    BY <2>2, <2>4
<1> QED
  BY <1>4, <1>8, <1>9, <1>10 DEF TradeInv

\* The first acceptance changes nothing but what is agreed on.
LEMMA AcceptFirstKeeps ==
  ASSUME TradeInv, NEW p \in People, AcceptFirst(p)
  PROVE  TradeInv'
<1>0. TradeTypeOK /\ NothingOfferedTwice /\ OfferIsNear /\ StillAgreed /\ AgreedWithPartner
  BY DEF TradeInv
<1>1. PICK q \in People : tradePartner[p] = q
  BY <1>0 DEF AcceptFirst, Open, TradeTypeOK
<1>2. PICK x \in Things \union {None} : tradeItem[q] = x
  BY <1>0 DEF TradeTypeOK
<1>3. /\ tradeState[p] \in {"acknowledge", "initiated"}
      /\ tradeState' = [tradeState EXCEPT ![p] = "accept"]
      /\ agreed' = [agreed EXCEPT ![p] = Content(x)]
      /\ place' = place /\ tradePartner' = tradePartner
      /\ tradeItem' = tradeItem /\ tradeItems' = tradeItems
  BY <1>1, <1>2 DEF AcceptFirst, Open
<1>4. Content(x) \in SUBSET Things
  BY DEF Content
<1>5. TradeTypeOK'
  BY <1>0, <1>3, <1>4 DEF TradeTypeOK
<1>6. NothingOfferedTwice'
  BY <1>0, <1>3 DEF NothingOfferedTwice, Content
<1>7. OfferIsNear'
  BY <1>0, <1>3 DEF OfferIsNear, Near
<1>8. AgreedWithPartner'
  <2>1. ASSUME NEW r \in People, agreed'[r] # {}
        PROVE  tradePartner[r] \in People /\ tradeItem[tradePartner[r]] \in Things
    <3>1. CASE r = p
      <4>1. Content(x) # {}
        BY <2>1, <3>1, <1>0, <1>3 DEF TradeTypeOK
      <4> QED
        BY <4>1, <3>1, <1>1, <1>2 DEF Content
    <3>2. CASE r # p
      BY <2>1, <3>2, <1>0, <1>3 DEF AgreedWithPartner, TradeTypeOK
    <3> QED
      BY <3>1, <3>2
  <2> QED
    BY <2>1, <1>3 DEF AgreedWithPartner
<1>9. StillAgreed'
  <2>1. ASSUME NEW r \in People, agreed'[r] # {}
        PROVE  agreed'[r] = Content(tradeItem[tradePartner[r]])
    <3>1. CASE r = p
      BY <3>1, <1>0, <1>1, <1>2, <1>3 DEF TradeTypeOK
    <3>2. CASE r # p
      BY <2>1, <3>2, <1>0, <1>3 DEF StillAgreed, TradeTypeOK
    <3> QED
      BY <3>1, <3>2
  <2> QED
    BY <2>1, <1>3 DEF StillAgreed, Content
<1> QED
  BY <1>5, <1>6, <1>7, <1>8, <1>9 DEF TradeInv

\* The second acceptance: what changes hands is in no other offer, and no
\* other offer is in it, so that the other trades do not notice.
LEMMA AcceptSecondKeeps ==
  ASSUME TradeInv, NEW p \in People, AcceptSecond(p)
  PROVE  TradeInv'
<1>0. TradeTypeOK /\ NothingOfferedTwice /\ OfferIsNear
  BY DEF TradeInv
<1>1. PICK q \in People : tradePartner[p] = q /\ tradePartner[q] = p /\ q # p
  BY <1>0 DEF AcceptSecond, Open, TradeTypeOK
<1>2. PICK mine \in Things \union {None}, theirs \in Things \union {None} :
        tradeItem[p] = mine /\ tradeItem[q] = theirs
  BY <1>0 DEF TradeTypeOK
<1>3. /\ CloseTrade({p})
      /\ \/ place' = place
         \/ /\ mine # None /\ theirs # None
            /\ \E here \in RoomOf(p), there \in RoomOf(q) :
                 place' = [place EXCEPT ![mine] = there, ![theirs] = here]
  BY <1>1, <1>2 DEF AcceptSecond
<1>4. CASE place' = place
  <2>1. place' \in [Things -> People \union {Floor, Bag}] /\ place'[Bag] # Bag
    BY <1>0, <1>4 DEF TradeTypeOK
  <2>2. \A r \in People \ Closed({p}), i \in Things : tradeItem[r] = i =>
          Content(i)' = Content(i) /\ Near(r, i)'
    BY <1>0, <1>4 DEF Content, Near, OfferIsNear
  <2> QED
    BY <2>1, <2>2, <1>3, CloseKeepsInv
<1>5. CASE /\ mine # None /\ theirs # None
           /\ \E here \in RoomOf(p), there \in RoomOf(q) :
                place' = [place EXCEPT ![mine] = there, ![theirs] = here]
  <2>1. mine \in Things /\ theirs \in Things
    BY <1>5
  <2>2. PICK here \in RoomOf(p), there \in RoomOf(q) :
          place' = [place EXCEPT ![mine] = there, ![theirs] = here]
    BY <1>5
  <2>3. /\ here \in {p, Bag} /\ there \in {q, Bag}
        /\ here = Bag => ~IsTraded(Bag)
        /\ there = Bag => ~IsTraded(Bag)
    BY DEF RoomOf
  <2>4. tradeItems[mine] = p /\ tradeItems[theirs] = q /\ mine # theirs
    BY <1>0, <1>1, <1>2, <2>1 DEF TradeTypeOK
  <2>5. (here = Bag \/ there = Bag) => mine # Bag /\ theirs # Bag
    BY <2>1, <2>3, <2>4 DEF IsTraded, Content
  <2>6. place' \in [Things -> People \union {Floor, Bag}] /\ place'[Bag] # Bag
    BY <1>0, <2>1, <2>2, <2>3, <2>5 DEF TradeTypeOK
  <2>7. ASSUME NEW r \in People \ Closed({p}), NEW j \in Things, tradeItem[r] = j
        PROVE  Content(j)' = Content(j) /\ Near(r, j)'
    <3>1. r # p /\ r # q
      BY <1>1 DEF Closed, ClosedFor
    <3>2. j # None /\ tradeItems[j] = r
      BY <1>0, <2>7 DEF TradeTypeOK
    <3>3. /\ Content(j) \intersect Content(mine) = {}
          /\ Content(j) \intersect Content(theirs) = {}
      BY <1>0, <1>1, <1>2, <2>7, <3>1 DEF NothingOfferedTwice
    <3>4. /\ j # mine /\ j # theirs /\ place[mine] # j /\ place[theirs] # j
          /\ place[j] # mine /\ place[j] # theirs
      BY <3>2, <3>3, <2>1 DEF Content
    <3>5. here # j /\ there # j
      BY <2>3, <3>2 DEF IsTraded, Content
    <3>6. \A x \in Things : place'[x] = j <=> place[x] = j
      BY <1>0, <2>1, <2>2, <3>4, <3>5 DEF TradeTypeOK
    <3>7. Content(j)' = Content(j)
      BY <3>2, <3>6 DEF Content
    <3>8. Near(r, j)
      BY <1>0, <2>7, <3>2 DEF OfferIsNear
    <3>9. place'[j] = place[j] /\ (place[j] = Bag => place'[Bag] = place[Bag])
      BY <1>0, <2>1, <2>2, <3>4 DEF TradeTypeOK
    <3> QED
      BY <3>7, <3>8, <3>9 DEF Near
  <2> QED
    BY <1>3, <2>6, <2>7, CloseKeepsInv
<1> QED
  BY <1>3, <1>4, <1>5

-----------------------------------------------------------------------------
(* The theorems about trades.                                                *)

\* Every step keeps the invariant.
LEMMA TradeSteps == TradeInv /\ [TradeNext]_tradeVars => TradeInv'
<1> SUFFICES ASSUME TradeInv, [TradeNext]_tradeVars PROVE TradeInv'
  OBVIOUS
<1>1. ASSUME NEW p \in People, NEW q \in People, NEW i \in Things, RequestTrade(p, q, i) PROVE TradeInv'
  BY <1>1, RequestTradeKeeps
<1>2. ASSUME NEW p \in People, AcceptFirst(p) PROVE TradeInv'
  BY <1>2, AcceptFirstKeeps
<1>3. ASSUME NEW p \in People, AcceptSecond(p) PROVE TradeInv'
  BY <1>3, AcceptSecondKeeps
<1>4. ASSUME NEW p \in People, NEW i \in Things, NEW to \in {p, Floor, Bag}, MoveThing(p, i, to) PROVE TradeInv'
  BY <1>4, MoveThingKeeps
<1>5. ASSUME NEW p \in People, LeaveTrade(p) PROVE TradeInv'
  BY <1>5, LeaveTradeKeeps
<1>6. CASE UNCHANGED tradeVars
  BY <1>6 DEF tradeVars, TradeInv, TradeTypeOK, NothingOfferedTwice, OfferIsNear, StillAgreed,
              AgreedWithPartner, Content, Near
<1> QED
  BY <1>1, <1>2, <1>3, <1>4, <1>5, <1>6 DEF TradeNext

LEMMA TradeCorrect == TradeSpec => []TradeInv
<1>1. TradeInit => TradeInv
  BY TradeInitially
<1>2. TradeInv /\ [TradeNext]_tradeVars => TradeInv'
  BY TradeSteps
<1> QED
  BY <1>1, <1>2, PTL DEF TradeSpec

\* Partners have each other, a player who offers is in Game::tradeItems and
\* nobody else is, whatever the players do in whatever order.
THEOREM TradesAgree == TradeSpec => []TradeTypeOK
<1>1. TradeInv => TradeTypeOK
  BY DEF TradeInv
<1> QED
  BY <1>1, TradeCorrect, PTL

\* Nothing is part of two offers, by itself or in a bag, and what is offered
\* is in the reach of the player who offers it: game.cpp's checks at the
\* request and player.cpp's callbacks afterwards leave no gap.
THEOREM OffersAreSound == TradeSpec => []OffersSound
<1>1. TradeInv => OffersSound
  BY DEF TradeInv, OffersSound
<1> QED
  BY <1>1, TradeCorrect, PTL

\* What a player has accepted is what he gets, if he gets anything.
THEOREM AcceptedIsGiven == TradeSpec => []StillAgreed
<1>1. TradeInv => StillAgreed
  BY DEF TradeInv
<1> QED
  BY <1>1, TradeCorrect, PTL

-----------------------------------------------------------------------------
(* The composition. *)

\* Each component behaves as its own specification says, beside the others.
THEOREM StoresBehave == StoresSpec => Init /\ [][Next]_vars /\ PartySpec /\ TradeSpec /\ DecaySpec
<1>1. StoresInit => Init /\ PartyInit /\ TradeInit /\ DecayInit
  BY DEF StoresInit
<1>2. [StoresNext]_storesVars => /\ [Next]_vars /\ [PartyNext]_partyVars
                                 /\ [TradeNext]_tradeVars /\ [DecayNext]_decay
  BY DEF StoresNext, storesVars
<1> QED
  BY <1>1, <1>2, PTL DEF StoresSpec, PartySpec, TradeSpec, DecaySpec

\* Run side by side, they keep their types.
THEOREM StoresTypeCorrect == StoresSpec => []StoresTypeOK
<1>1. TypeOK /\ PartyTypeOK /\ TradeTypeOK /\ DecayTypeOK => StoresTypeOK
  BY DEF StoresTypeOK
<1> QED
  BY <1>1, StoresBehave, TypeCorrect, PartyTypeCorrect, TradesAgree, DecayTypeCorrect, PTL DEF Spec
=============================================================================
