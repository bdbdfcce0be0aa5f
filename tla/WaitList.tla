------------------------------ MODULE WaitList ------------------------------
(* The waiting list of a full server: waitlist.cpp, as ProtocolGame::login   *)
(* uses it. Premium players wait in a list of their own, ahead of the        *)
(* others. A client that waits comes again after a while; one that does not  *)
(* come loses its place.                                                     *)
(*                                                                           *)
(* clientLogin erases a player who may log in with waitList.erase, also when *)
(* his node is in priorityWaitList. The standard leaves that undefined; in   *)
(* libstdc++ the node leaves the list it is in, and the size that shrinks is *)
(* waitList's. The sizes are therefore variables of their own.               *)
EXTENDS Integers, Sequences, FiniteSets, SequencesExt

CONSTANTS
  Persons,      \* those who want to play
  Premium,      \* the premium ones
  MaxPlayers,   \* the configured maximum
  MaxDrift      \* bound: the drift of the two sizes is counted up to here

ASSUME WaitListAssumption ==
  Premium \subseteq Persons /\ MaxPlayers \in Nat \ {0} /\ MaxDrift \in Nat
  /\ MaxDrift >= MaxPlayers  \* beyond it nothing changes: newcomers are refused

VARIABLES
  online,        \* the players online
  priorityList,  \* priorityWaitList: its nodes
  normalList,    \* waitList: its nodes
  prioritySize,  \* what priorityWaitList.size() answers
  normalSize,    \* what waitList.size() answers (as a signed number)
  late           \* those in a list whose timeout has passed

waitVars == <<online, priorityList, normalList, prioritySize, normalSize, late>>

WaitInit ==
  /\ online = {}
  /\ priorityList = <<>>
  /\ normalList = <<>>
  /\ prioritySize = 0
  /\ normalSize = 0
  /\ late = {}

Waiting == ToSet(priorityList) \union ToSet(normalList)

\* What is left of a list without those that are gone.
Dropping(list, gone) ==
  LET kept[n \in 0..Len(list)] ==
        IF n = 0 THEN <<>>
        ELSE IF list[n] \in gone THEN kept[n - 1] ELSE Append(kept[n - 1], list[n])
  IN kept[Len(list)]

OnTime(list) == Dropping(list, late)
Without(list, p) == Dropping(list, {p})
Position(list, p) == CHOOSE i \in DOMAIN list : list[i] = p
LeastOf(a, b) == IF a <= b THEN a ELSE b

Added(list, p) == IF p \in ToSet(list) THEN list ELSE Append(list, p)

\* Mutant: premium players are let in by the sizes, too.
SlotBySize(p, pl, nl, pSize, nSize) ==
  IF p \in Premium THEN pSize ELSE pSize + nSize

\* addPlayerToList: the place of one who was in a list is counted along it,
\* that of a newcomer is taken from the sizes. The lists and sizes are those
\* after he was added.
Slot(p, pl, nl, pSize, nSize) ==
  IF p \in Waiting \ late
  THEN IF p \in Premium THEN Position(pl, p) ELSE pSize + Position(nl, p)
  ELSE IF p \in Premium THEN pSize ELSE pSize + nSize

\* Nobody waits and there is room.
WalkIn(p) ==
  /\ p \notin online
  /\ priorityList = <<>> /\ normalList = <<>>
  /\ Cardinality(online) < MaxPlayers
  /\ online' = online \union {p}
  /\ UNCHANGED <<priorityList, normalList, prioritySize, normalSize, late>>

\* cleanupList.
Cleaned(list) == OnTime(list)

\* Mutant: a player who waits is let in as soon as there is a seat.
FitsAnyone(slot) == Cardinality(online) < MaxPlayers

\* There is a seat for the player and for everyone ahead of him.
Fits(slot) == Cardinality(online) + slot <= MaxPlayers

\* clientLogin with a list: clean both, put the player in, and let him in if
\* there is a place for him and for everyone ahead of him.
AskAtList(p) ==
  /\ p \notin online
  /\ priorityList # <<>> \/ normalList # <<>> \/ Cardinality(online) >= MaxPlayers
  /\ LET pl == IF p \in Premium THEN Added(Cleaned(priorityList), p) ELSE Cleaned(priorityList)
         nl == IF p \in Premium THEN Cleaned(normalList) ELSE Added(Cleaned(normalList), p)
         pSize == prioritySize + Len(pl) - Len(priorityList)
         nSize == normalSize + Len(nl) - Len(normalList)
     IN IF Fits(Slot(p, pl, nl, pSize, nSize))
        THEN /\ online' = online \union {p}
             /\ priorityList' = Without(pl, p)
             /\ normalList' = Without(nl, p)
             /\ prioritySize' = LeastOf(pSize, Len(priorityList') + MaxDrift)
             /\ normalSize' = pSize + nSize - 1 - prioritySize'
        ELSE /\ priorityList' = pl /\ normalList' = nl
             /\ prioritySize' = pSize /\ normalSize' = nSize
             /\ UNCHANGED online
  /\ late' = {}

\* A client in a list does not come again in time.
Lapse(p) ==
  /\ p \in Waiting \ late
  /\ late' = late \union {p}
  /\ UNCHANGED <<online, priorityList, normalList, prioritySize, normalSize>>

LogOut(p) ==
  /\ p \in online
  /\ online' = online \ {p}
  /\ UNCHANGED <<priorityList, normalList, prioritySize, normalSize, late>>

WaitNext == \E p \in Persons : WalkIn(p) \/ AskAtList(p) \/ Lapse(p) \/ LogOut(p)

WaitSpec == WaitInit /\ [][WaitNext]_waitVars

(* Everyone who wants to play keeps asking, and everyone who plays stops one *)
(* day.                                                                      *)
WaitFairness ==
  \A p \in Persons : WF_waitVars(WalkIn(p) \/ AskAtList(p)) /\ WF_waitVars(LogOut(p))

WaitFairSpec == WaitSpec /\ WaitFairness

----------------------------------------------------------------------------
(* Properties.                                                               *)

\* The type invariant: each waits in the list of his kind, once. The sizes
\* drift apart, their sum does not.
WaitTypeOK ==
  /\ online \subseteq Persons
  /\ priorityList \in Seq(Premium) /\ IsInjective(priorityList)
  /\ normalList \in Seq(Persons \ Premium) /\ IsInjective(normalList)
  /\ Waiting \intersect online = {}
  /\ late \subseteq Waiting
  /\ prioritySize >= Len(priorityList)
  /\ prioritySize + normalSize = Len(priorityList) + Len(normalList)

\* How many are ahead of p, himself included.
Place(p, pl, nl) ==
  IF p \in Premium THEN Position(pl, p) ELSE Len(pl) + Position(nl, p)

\* Whoever is let in leaves a seat for each one who waits ahead of him and
\* still comes, and the server is never overfull: whatever the sizes say, a
\* player never gets in past another.
SeatsKept ==
  [][\A p \in online' \ online :
       LET pl == OnTime(priorityList)
           nl == OnTime(normalList)
           ahead == IF p \in ToSet(pl) \union ToSet(nl) THEN Place(p, pl, nl) - 1
                    ELSE IF p \in Premium THEN Len(pl) ELSE Len(pl) + Len(nl)
       IN Cardinality(online') + ahead <= MaxPlayers]_waitVars

\* A premium player who keeps asking is let in: his own place is counted along
\* the list. (For the others the drift is in the way: see the README.)
PremiumIsLetIn ==
  \A p \in Premium : p \in ToSet(priorityList) ~> p \in online \/ p \in late
=============================================================================
