-------------------------------- MODULE Trade --------------------------------
(* Trades between players (game.cpp, the trade part of player.cpp): two      *)
(* players each offer a thing, which stays where it is until both accept.    *)
(* Whatever happens to it, or inside it, meanwhile has to close the trade;   *)
(* the callbacks of player.cpp that notice are folded into Touched. One of   *)
(* the things is a bag, which others may be in. Each request, each move of a *)
(* thing, and each step of a player is one task of the dispatcher.           *)

CONSTANTS
  People,   \* players
  Things,   \* things that can be traded
  Bag,      \* the one of them that is a container
  Floor,    \* the tiles all of them stand at
  None      \* no player, no thing

ASSUME TradeAssumption ==
  /\ Bag \in Things
  /\ People \intersect Things = {}
  /\ Floor \notin People \union Things /\ None \notin People \union Things
  /\ Floor # None

VARIABLES
  place,         \* where a thing is: with a player, on the floor, in the bag
  tradeState,    \* Player::tradeState
  tradePartner,  \* Player::tradePartner
  tradeItem,     \* Player::tradeItem
  tradeItems,    \* Game::tradeItems: who offers a thing
  agreed         \* history: what the partner offered when a player accepted

tradeVars == <<place, tradeState, tradePartner, tradeItem, tradeItems, agreed>>

TradeInit ==
  /\ place \in [Things -> People \union {Floor}]
  /\ tradeState = [p \in People |-> "none"]
  /\ tradePartner = [p \in People |-> None]
  /\ tradeItem = [p \in People |-> None]
  /\ tradeItems = [i \in Things |-> None]
  /\ agreed = [p \in People |-> {}]

----------------------------------------------------------------------------

\* The thing and what is in it.
Content(i) == IF i = None THEN {} ELSE {i} \union {j \in Things : place[j] = i}

\* With the player, or beside him.
Near(p, i) ==
  \/ place[i] \in {p, Floor}
  \/ place[i] = Bag /\ place[Bag] \in {p, Floor}

\* internalCloseTrade for the players of a set and their partners.
ClosedFor(set) == set \union {tradePartner[p] : p \in set}

CloseTrade(set) ==
  LET closed == ClosedFor(set) \intersect People
  IN /\ tradeState' = [p \in People |-> IF p \in closed THEN "none" ELSE tradeState[p]]
     /\ tradePartner' = [p \in People |-> IF p \in closed THEN None ELSE tradePartner[p]]
     /\ tradeItem' = [p \in People |-> IF p \in closed THEN None ELSE tradeItem[p]]
     /\ tradeItems' = [i \in Things |-> IF tradeItems[i] \in closed THEN None ELSE tradeItems[i]]
     /\ agreed' = [p \in People |-> IF p \in closed THEN {} ELSE agreed[p]]

----------------------------------------------------------------------------
(* Requests.                                                                 *)

\* Mutant: only the thing itself is looked for in tradeItems.
IsTradedItself(i) == tradeItems[i] # None

\* The thing, something in it, or what it is in is offered already.
IsTraded(i) ==
  \E j \in Things : tradeItems[j] # None /\ (i \in Content(j) \/ j \in Content(i))

MayStart(p, q) ==
  /\ tradeState[p] = "none" \/ (tradeState[p] = "acknowledge" /\ tradePartner[p] = q)
  /\ tradeState[q] = "none" \/ tradePartner[q] = p

\* playerRequestTrade and internalStartTrade: p offers q thing i, or answers
\* q's offer.
RequestTrade(p, q, i) ==
  /\ p # q /\ Near(p, i)
  /\ ~IsTraded(i)
  /\ MayStart(p, q)
  /\ tradeItem' = [tradeItem EXCEPT ![p] = i]
  /\ tradeItems' = [tradeItems EXCEPT ![i] = p]
  /\ IF tradeState[q] = "none"
     THEN /\ tradeState' = [tradeState EXCEPT ![p] = "initiated", ![q] = "acknowledge"]
          /\ tradePartner' = [tradePartner EXCEPT ![p] = q, ![q] = p]
     ELSE /\ tradeState' = [tradeState EXCEPT ![p] = "initiated"]
          /\ tradePartner' = [tradePartner EXCEPT ![p] = q]
  /\ UNCHANGED <<place, agreed>>

Open(p) == tradeState[p] \in {"acknowledge", "initiated"}

\* playerAcceptTrade of the first of the two. He may do so before he has been
\* offered anything.
AcceptFirst(p) ==
  /\ Open(p) /\ tradeState[tradePartner[p]] # "accept"
  /\ tradeState' = [tradeState EXCEPT ![p] = "accept"]
  /\ agreed' = [agreed EXCEPT ![p] = Content(tradeItem[tradePartner[p]])]
  /\ UNCHANGED <<place, tradePartner, tradeItem, tradeItems>>

\* Where what a player is given may be put: the bag if he has it and it is not
\* part of the trade.
RoomOf(p) == {p} \union (IF place[Bag] = p /\ ~IsTraded(Bag) THEN {Bag} ELSE {})

\* playerAcceptTrade of the second. A script may object, a player may not have
\* room or strength, or one may have offered nothing: the trade is closed.
\* Otherwise both things change hands.
AcceptSecond(p) ==
  LET q == tradePartner[p]
      mine == tradeItem[p]
      theirs == tradeItem[q]
  IN /\ Open(p) /\ tradeState[q] = "accept"
     /\ \/ UNCHANGED place
        \/ /\ mine # None /\ theirs # None
           /\ \E here \in RoomOf(p), there \in RoomOf(q) :
                place' = [place EXCEPT ![mine] = there, ![theirs] = here]
     /\ CloseTrade({p})

----------------------------------------------------------------------------
(* Whatever may come between.                                                *)

\* Mutant: what goes into or out of an offered bag is not noticed.
TouchedItself(i, from, to) ==
  {p \in People : tradeItem[p] # None /\ (tradeItem[p] = i \/ place[tradeItem[p]] = i)}

\* The players whose offer moving thing i touches: it is i, it is in i, or i
\* goes into or out of it.
Touched(i, from, to) ==
  {p \in People : tradeItem[p] # None
                    /\ (tradeItem[p] \in {i, from, to} \/ place[tradeItem[p]] = i)}

\* A player moves a thing he can reach. The same goes for a thing that is
\* sold, dropped at death, mailed or transformed, which the model shows as a
\* move to the floor.
MoveThing(p, i, to) ==
  /\ Near(p, i)
  /\ to # place[i]
  /\ \/ to \in {p, Floor}
     \/ to = Bag /\ i # Bag /\ Near(p, Bag)
  /\ place' = [place EXCEPT ![i] = to]
  /\ CloseTrade(Touched(i, place[i], to))

\* playerCloseTrade, a step out of range, a logout, a death.
LeaveTrade(p) ==
  /\ tradePartner[p] # None
  /\ CloseTrade({p})
  /\ UNCHANGED place

TradeNext ==
  \E p \in People :
    \/ \E q \in People, i \in Things : RequestTrade(p, q, i)
    \/ AcceptFirst(p) \/ AcceptSecond(p)
    \/ \E i \in Things, to \in {p, Floor, Bag} : MoveThing(p, i, to)
    \/ LeaveTrade(p)

TradeSpec == TradeInit /\ [][TradeNext]_tradeVars

----------------------------------------------------------------------------
(* Properties.                                                               *)

\* The type invariant: partners have each other, and Game::tradeItems is what
\* the players offer.
TradeTypeOK ==
  /\ place \in [Things -> People \union {Floor, Bag}]
  /\ place[Bag] # Bag
  /\ tradeState \in [People -> {"none", "initiated", "acknowledge", "accept"}]
  /\ tradePartner \in [People -> People \union {None}]
  /\ tradeItem \in [People -> Things \union {None}]
  /\ tradeItems \in [Things -> People \union {None}]
  /\ agreed \in [People -> SUBSET Things]
  /\ \A p, q \in People : tradePartner[p] = q => q # p /\ tradePartner[q] = p
  /\ \A p \in People : tradePartner[p] = None <=> tradeState[p] = "none"
  /\ \A p \in People : tradeState[p] \in {"none", "acknowledge"} => tradeItem[p] = None
  /\ \A p \in People : tradeState[p] = "initiated" => tradeItem[p] # None
  /\ \A p \in People, i \in Things : tradeItems[i] = p <=> tradeItem[p] = i

\* Nothing is part of two offers, neither by itself nor in a bag.
NothingOfferedTwice ==
  \A p, q \in People : p # q => Content(tradeItem[p]) \intersect Content(tradeItem[q]) = {}

\* What is offered is still where the player who offers it can take it from.
OfferIsNear == \A p \in People : tradeItem[p] # None => Near(p, tradeItem[p])

\* An offer stands for what can be given: it is in reach and in no other offer.
OffersSound == NothingOfferedTwice /\ OfferIsNear

\* What a player accepted is still what he will get: the same thing, and the
\* same in it. (One who accepted before anything was offered gets whatever is
\* offered later: see the README.)
StillAgreed ==
  \A p \in People : agreed[p] # {} => agreed[p] = Content(tradeItem[tradePartner[p]])
=============================================================================
