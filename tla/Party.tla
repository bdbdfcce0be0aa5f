-------------------------------- MODULE Party --------------------------------
(* Parties: party.cpp, and the requests, deaths and logouts that reach it    *)
(* (game.cpp, player.cpp).                                                   *)
(*                                                                           *)
(* Four pointers have to agree: a player's m_party, a party's m_leader (weak)*)
(* and memberList, its inviteList, and a player's invitePartyList. Every     *)
(* request is one task of the dispatcher; what makes it hard is that one     *)
(* operation calls the next (leave, pass the leadership, disband, remove the *)
(* invitations), and that a player may die and go while he is in a party.    *)
EXTENDS Naturals, Sequences, FiniteSets

CONSTANTS
  Mates,     \* the Player objects
  Parties,   \* bound: Party objects
  Nil        \* a null pointer

ASSUME PartyAssumption == IsFiniteSet(Parties) /\ Nil \notin Mates \union Parties

VARIABLES
  s,             \* the objects and their pointers
  leaveOnDeath   \* the configured leavePartyOnDeath

partyVars == <<s, leaveOnDeath>>

PartyInit ==
  /\ s = [life |-> [p \in Mates |-> "online"],
          party |-> [p \in Mates |-> Nil],            \* Player::m_party
          invitations |-> [p \in Mates |-> {}],       \* Player::invitePartyList
          leader |-> [q \in Parties |-> Nil],         \* Party::m_leader
          members |-> [q \in Parties |-> <<>>],       \* Party::memberList
          invited |-> [q \in Parties |-> {}]]         \* Party::inviteList
  /\ leaveOnDeath \in BOOLEAN

----------------------------------------------------------------------------
(* The operations of a party. Each takes the objects and returns them as     *)
(* they are afterwards.                                                      *)

Members(t, q) == {t.members[q][i] : i \in DOMAIN t.members[q]}

\* std::find and erase.
Erased(list, p) ==
  IF \E i \in DOMAIN list : list[i] = p
  THEN LET it == CHOOSE i \in DOMAIN list : list[i] = p
       IN [i \in 1 .. Len(list) - 1 |-> IF i < it THEN list[i] ELSE list[i + 1]]
  ELSE list

\* An object that left the game lives on while a party's lists refer to it.
Exists(t, p) ==
  \/ t.life[p] # "gone"
  \/ \E q \in Parties : p \in Members(t, q) \union t.invited[q]

\* getLeader: the pointer is weak.
Leader(t, q) == IF t.leader[q] # Nil /\ Exists(t, t.leader[q]) THEN t.leader[q] ELSE Nil

Empty(t, q) == t.members[q] = <<>> /\ t.invited[q] = {}

\* Mutant: the invitees are not told.
DisbandQuietly(t, q) ==
  IF Leader(t, q) = Nil THEN t
  ELSE [t EXCEPT
    !.party = [p \in Mates |-> IF p \in Members(t, q) \union {Leader(t, q)} THEN Nil ELSE @[p]],
    !.leader[q] = Nil, !.members[q] = <<>>, !.invited[q] = {}]

Disband(t, q) ==
  IF Leader(t, q) = Nil THEN t
  ELSE [t EXCEPT
    !.party = [p \in Mates |-> IF p \in Members(t, q) \union {Leader(t, q)} THEN Nil ELSE @[p]],
    !.invitations = [p \in Mates |-> IF p \in t.invited[q] THEN @[p] \ {q} ELSE @[p]],
    !.leader[q] = Nil, !.members[q] = <<>>, !.invited[q] = {}]

\* passPartyLeadership: the old leader becomes the first member.
PassLeadership(t, q, p) ==
  IF Leader(t, q) \in {Nil, p} \/ t.party[p] # q THEN t
  ELSE [t EXCEPT !.leader[q] = p, !.members[q] = <<Leader(t, q)>> \o Erased(@, p)]

\* leaveParty: a leader passes the leadership on, unless his party would have
\* nobody else; a party left empty is disbanded.
LeaveParty(t, q, p) ==
  LET leader == Leader(t, q)
      missing == leader = p /\ (Len(t.members[q]) = 0 \/ (Len(t.members[q]) = 1 /\ t.invited[q] = {}))
      passed == IF leader = p /\ ~missing THEN PassLeadership(t, q, Head(t.members[q])) ELSE t
      left == [passed EXCEPT !.members[q] = Erased(@, p), !.party[p] = Nil]
  IN IF leader = Nil \/ (t.party[p] # q /\ leader # p) THEN t
     ELSE IF missing \/ Empty(left, q) THEN Disband(left, q) ELSE left

\* removeInvite, and a party without members and invitees is disbanded. From
\* clearPartyInvitations the player's own list is cleared by the caller.
RemoveInvite(t, q, p) ==
  LET removed == [t EXCEPT !.invited[q] = @ \ {p}, !.invitations[p] = @ \ {q}]
  IN IF Leader(t, q) = Nil \/ p \notin t.invited[q] THEN t
     ELSE IF Empty(removed, q) THEN Disband(removed, q) ELSE removed

ClearInvitations(t, p) ==
  LET cleared[Q \in SUBSET Parties] ==
        IF Q = {} THEN t
        ELSE LET q == CHOOSE q \in Q : TRUE IN RemoveInvite(cleared[Q \ {q}], q, p)
  IN [cleared[t.invitations[p]] EXCEPT !.invitations[p] = {}]

\* A Party object nobody refers to.
Unled(q) ==
  /\ s.leader[q] = Nil /\ Empty(s, q)
  /\ \A p \in Mates : s.party[p] # q /\ q \notin s.invitations[p]

Inviting(p, o) ==
  /\ s.party[p] # Nil
  /\ Leader(s, s.party[p]) = p
  /\ o \in s.invited[s.party[p]]

OnlineMates == {p \in Mates : s.life[p] = "online"}

----------------------------------------------------------------------------
(* The requests of the players.                                              *)

\* playerInviteToParty: the first invitation makes the party.
Invite(p, o) ==
  /\ {p, o} \subseteq OnlineMates /\ p # o
  /\ ~Inviting(o, p)
  /\ s.party[o] = Nil
  /\ \E q \in Parties :
       LET t == IF s.party[p] = Nil THEN [s EXCEPT !.party[p] = q, !.leader[q] = p] ELSE s
       IN /\ IF s.party[p] = Nil THEN Unled(q) ELSE q = s.party[p]
          /\ Leader(t, q) = p
          /\ o \notin t.invited[q]
          /\ s' = [t EXCEPT !.invited[q] = @ \union {o}, !.invitations[o] = @ \union {q}]
  /\ UNCHANGED leaveOnDeath

\* playerJoinParty. The invitations of other parties stay.
Join(p, l) ==
  /\ {p, l} \subseteq OnlineMates
  /\ Inviting(l, p)
  /\ s.party[p] = Nil
  /\ LET q == s.party[l]
     IN s' = [s EXCEPT !.party[p] = q, !.members[q] = Append(@, p),
                       !.invited[q] = @ \ {p}, !.invitations[p] = @ \ {q}]
  /\ UNCHANGED leaveOnDeath

Revoke(p, o) ==
  /\ {p, o} \subseteq OnlineMates
  /\ Inviting(p, o)
  /\ s' = RemoveInvite(s, s.party[p], o)
  /\ UNCHANGED leaveOnDeath

PassTo(p, o) ==
  /\ {p, o} \subseteq OnlineMates /\ p # o
  /\ s.party[p] # Nil
  /\ Leader(s, s.party[p]) = p
  /\ s.party[o] = s.party[p]
  /\ s' = PassLeadership(s, s.party[p], o)
  /\ UNCHANGED leaveOnDeath

LeaveBy(p) ==
  /\ p \in OnlineMates
  /\ s.party[p] # Nil
  /\ s' = LeaveParty(s, s.party[p], p)
  /\ UNCHANGED leaveOnDeath

----------------------------------------------------------------------------
(* The life of a player object.                                              *)

\* onRemoveCreature at a logout.
LogoutMate(p) ==
  /\ p \in OnlineMates
  /\ LET left == IF s.party[p] = Nil THEN s ELSE LeaveParty(s, s.party[p], p)
     IN s' = [ClearInvitations(left, p) EXCEPT !.life[p] = "gone"]
  /\ UNCHANGED leaveOnDeath

\* Mutant: death leaves the party as it is, whatever is configured.
PerishInParty(p) ==
  /\ p \in OnlineMates
  /\ s' = [s EXCEPT !.life[p] = "dead"]
  /\ UNCHANGED leaveOnDeath

\* Player::despawn.
Perish(p) ==
  /\ p \in OnlineMates
  /\ LET left == IF leaveOnDeath /\ s.party[p] # Nil THEN LeaveParty(s, s.party[p], p) ELSE s
     IN s' = [left EXCEPT !.life[p] = "dead"]
  /\ UNCHANGED leaveOnDeath

Rise(p) ==
  /\ s.life[p] = "dead"
  /\ s' = [s EXCEPT !.life[p] = "online"]
  /\ UNCHANGED leaveOnDeath

\* The client of a dead player goes: nothing removes the object from the game,
\* from which it is gone already, and its destructor looks after no party.
Desert(p) ==
  /\ s.life[p] = "dead"
  /\ s' = [s EXCEPT !.life[p] = "gone"]
  /\ UNCHANGED leaveOnDeath

\* The player logs in anew: a fresh object, here in the place of one that does
\* not exist any more.
LoginMate(p) ==
  /\ ~Exists(s, p)
  /\ s' = [s EXCEPT !.life[p] = "online", !.party[p] = Nil, !.invitations[p] = {},
                    !.leader = [q \in Parties |-> IF @[q] = p THEN Nil ELSE @[q]]]
  /\ UNCHANGED leaveOnDeath

----------------------------------------------------------------------------

PartyNext ==
  \E p \in Mates :
    \/ LeaveBy(p) \/ LogoutMate(p) \/ Perish(p) \/ Rise(p) \/ Desert(p) \/ LoginMate(p)
    \/ \E o \in Mates : Invite(p, o) \/ Join(p, o) \/ Revoke(p, o) \/ PassTo(p, o)

PartySpec == PartyInit /\ [][PartyNext]_partyVars

----------------------------------------------------------------------------
(* Properties.                                                               *)

\* The type invariant; nobody is twice in a list of members.
PartyTypeOK ==
  /\ s.life \in [Mates -> {"online", "dead", "gone"}]
  /\ s.party \in [Mates -> Parties \union {Nil}]
  /\ s.invitations \in [Mates -> SUBSET Parties]
  /\ s.leader \in [Parties -> Mates \union {Nil}]
  /\ s.members \in [Parties -> Seq(Mates)]
  /\ \A q \in Parties : \A i, j \in DOMAIN s.members[q] : s.members[q][i] = s.members[q][j] => i = j
  /\ s.invited \in [Parties -> SUBSET Mates]
  /\ leaveOnDeath \in BOOLEAN

Led == {q \in Parties : Leader(s, q) # Nil}

\* A party and its people agree: m_party of the leader and of each member is
\* the party, the leader is no member, and whoever has it as his party is in it.
PartyAgrees ==
  \A q \in Led :
    LET l == Leader(s, q)
    IN /\ l \notin Members(s, q)
       /\ \A p \in Mates : Exists(s, p) =>
            (s.party[p] = q <=> p \in Members(s, q) \union {l})

\* A player knows of no invitation that its party does not; a party with a
\* leader of none that the player does not, and of none to a member.
InvitationsAgree ==
  \A q \in Parties, p \in Mates :
    Exists(s, p) =>
      /\ q \in s.invitations[p] => p \in s.invited[q]
      /\ q \in Led /\ p \in s.invited[q] => q \in s.invitations[p] /\ p \notin Members(s, q)

\* No party survives with its leader alone.
NoLonelyLeader == \A q \in Led : ~Empty(s, q)

\* All four pointers of a membership agree, whatever operation called which.
PointersAgree == PartyAgrees /\ InvitationsAgree /\ NoLonelyLeader

\* Whoever is in a party can leave it, for it has a leader; provided that
\* players leave their party when they die (see the README).
NobodyIsTrapped == leaveOnDeath => \A p \in OnlineMates : s.party[p] # Nil => s.party[p] \in Led
=============================================================================
