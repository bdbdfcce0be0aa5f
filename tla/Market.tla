------------------------------- MODULE Market -------------------------------
(* The market: the offers of iomarket.cpp and the requests of game.cpp that  *)
(* make, accept and cancel them, for one kind of item.                       *)
(*                                                                           *)
(* Every request is one task of the dispatcher. The search for expired       *)
(* offers is not: a thread of the pool runs the SELECT, and what it found is *)
(* given back by a later task, after whatever happened to the offers in      *)
(* between. The inbox goods are put into may be full.                        *)
EXTENDS Integers, Sequences, FiniteSets, FiniteSetsExt

CONSTANTS
  Traders,      \* the players
  Stock,        \* bound: the items each has at the start
  Purse,        \* bound: the gold each has at the start
  Price,        \* the price of one item
  MaxOffers,    \* bound: offers ever made
  MaxSearches,  \* bound: searches for expired offers in flight
  MaxTroubles   \* bound: no request is made once so much went wrong

ASSUME MarketAssumption ==
  /\ IsFiniteSet(Traders)
  /\ Stock \in Nat /\ Purse \in Nat /\ Price \in Nat \ {0}
  /\ MaxOffers \in Nat /\ MaxSearches \in Nat /\ MaxTroubles \in Nat

VARIABLES
  gold,       \* gold[t]: money and balance, in the object or in the row
  goods,      \* goods[t]: stash, locker and inbox
  offers,     \* the rows of market_offers
  made,       \* offers made so far
  searches,   \* what the searches in flight have found
  fees,       \* history: fees paid
  troubles    \* history: what went wrong with goods on the way

marketVars == <<gold, goods, offers, made, searches, fees, troubles>>

MarketInit ==
  /\ gold = [t \in Traders |-> Purse]
  /\ goods = [t \in Traders |-> Stock]
  /\ offers = {}
  /\ made = 0
  /\ searches = <<>>
  /\ fees = 0
  /\ troubles = {}

----------------------------------------------------------------------------

LesserOf(m, n) == IF m < n THEN m ELSE n
GreaterOf(m, n) == IF m < n THEN n ELSE m

\* Two per cent, at least 20 and at most a million.
Fee(total) == GreaterOf(20, LesserOf(1000000, (total * 2) \div 100))

Amounts == 1..Stock

Insert(t, sale, n) ==
  /\ made' = made + 1
  /\ offers' = offers \union {[id |-> made + 1, by |-> t, sale |-> sale, amount |-> n, old |-> FALSE]}

\* The row of offer o is gone when nothing is left of it.
Less(o, n) ==
  IF o.amount = n THEN offers \ {o} ELSE (offers \ {o}) \union {[o EXCEPT !.amount = @ - n]}

\* Of n items k fit into an inbox.
Fit(n, k) == k \in 0..n /\ troubles' = IF k < n THEN troubles \union {"full"} ELSE troubles

----------------------------------------------------------------------------
(* Requests of players who are online, each one task.                        *)

\* playerCreateMarketOffer. What there is of the goods is taken before it
\* turns out that they are too few; then there is no offer.
CreateSell(t, n) ==
  /\ made < MaxOffers
  /\ gold[t] >= Fee(Price * n)
  /\ goods' = [goods EXCEPT ![t] = GreaterOf(@ - n, 0)]
  /\ IF goods[t] >= n
     THEN /\ Insert(t, TRUE, n)
          /\ gold' = [gold EXCEPT ![t] = @ - Fee(Price * n)]
          /\ fees' = fees + Fee(Price * n)
          /\ UNCHANGED troubles
     ELSE troubles' = troubles \union {"short"} /\ UNCHANGED <<offers, made, gold, fees>>
  /\ UNCHANGED <<searches>>

CreateBuy(t, n) ==
  /\ made < MaxOffers
  /\ LET total == Price * n + Fee(Price * n)
     IN /\ gold[t] >= total
        /\ gold' = [gold EXCEPT ![t] = @ - total]
        /\ fees' = fees + Fee(Price * n)
  /\ Insert(t, FALSE, n)
  /\ UNCHANGED <<goods, searches, troubles>>

\* playerCancelMarketOffer.
Cancel(t, o) ==
  /\ o \in offers /\ o.by = t
  /\ \E k \in 0..o.amount :
       /\ IF o.sale
          THEN Fit(o.amount, k) /\ goods' = [goods EXCEPT ![t] = @ + k] /\ UNCHANGED gold
          ELSE k = 0 /\ gold' = [gold EXCEPT ![t] = @ + Price * o.amount] /\ UNCHANGED <<goods, troubles>>
  /\ offers' = offers \ {o}
  /\ UNCHANGED <<made, searches, fees>>

\* playerAcceptMarketOffer of a buy offer. The seller is paid for all he gives,
\* the offer shrinks by what fits into the buyer's inbox. A buyer who is
\* offline is loaded from his row and saved again.
AcceptBuy(t, o, n) ==
  /\ o \in offers /\ ~o.sale /\ o.by # t
  /\ n <= o.amount
  /\ goods[t] >= n
  /\ \E k \in 0..n :
       /\ Fit(n, k)
       /\ goods' = [goods EXCEPT ![t] = @ - n, ![o.by] = @ + k]
       /\ gold' = [gold EXCEPT ![t] = @ + Price * n]
       /\ offers' = Less(o, k)
  /\ UNCHANGED <<made, searches, fees>>

\* The goods are too few: those there are are taken.
AcceptBuyShort(t, o, n) ==
  /\ o \in offers /\ ~o.sale /\ o.by # t
  /\ n <= o.amount
  /\ goods[t] < n
  /\ goods' = [goods EXCEPT ![t] = 0]
  /\ troubles' = troubles \union {"short"}
  /\ UNCHANGED <<gold, offers, made, searches, fees>>

\* playerAcceptMarketOffer of a sell offer. The buyer pays for all he asked,
\* the seller gets the price of what fitted into the buyer's inbox.
AcceptSell(t, o, n) ==
  /\ o \in offers /\ o.sale /\ o.by # t
  /\ n <= o.amount
  /\ gold[t] >= Price * n
  /\ \E k \in 0..n :
       /\ Fit(n, k)
       /\ goods' = [goods EXCEPT ![t] = @ + k]
       /\ gold' = [gold EXCEPT ![t] = @ - Price * n, ![o.by] = @ + Price * k]
       /\ offers' = Less(o, k)
  /\ UNCHANGED <<made, searches, fees>>

----------------------------------------------------------------------------
(* Expiry.                                                                   *)

MarketAges ==
  /\ \E o \in offers : ~o.old /\ offers' = (offers \ {o}) \union {[o EXCEPT !.old = TRUE]}
  /\ UNCHANGED <<gold, goods, made, searches, fees, troubles>>

Old == {o \in offers : o.old}

\* checkExpiredOffers: the SELECT, on a thread of the pool.
Search ==
  /\ Old # {}
  /\ Len(searches) < MaxSearches
  /\ searches' = Append(searches, Old)
  /\ UNCHANGED <<gold, goods, offers, made, fees, troubles>>

\* The offers a search found that are still there, as it found them.
StillThere(found) == {f \in found : \E o \in offers : o.id = f.id}

GoodsOf(t, set) == MapThenSumSet(LAMBDA f : f.amount, {f \in set : f.by = t /\ f.sale})
GoldOf(t, set) == Price * MapThenSumSet(LAMBDA f : f.amount, {f \in set : f.by = t /\ ~f.sale})

\* Mutant: what has been taken off the market meanwhile is given back, too.
ProcessExpiredAll ==
  /\ searches # <<>>
  /\ LET found == Head(searches)
     IN \E lost \in [Traders -> 0..Stock] :
          /\ \A t \in Traders : lost[t] <= GoodsOf(t, found)
          /\ goods' = [t \in Traders |-> goods[t] + GoodsOf(t, found) - lost[t]]
          /\ gold' = [t \in Traders |-> gold[t] + GoldOf(t, found)]
          /\ offers' = {o \in offers : \A f \in found : f.id # o.id}
          /\ troubles' = troubles \union (IF \E t \in Traders : lost[t] > 0 THEN {"full"} ELSE {})
                           \union (IF StillThere(found) \subseteq offers THEN {} ELSE {"stale"})
  /\ searches' = Tail(searches)
  /\ UNCHANGED <<made, fees>>

\* processExpiredOffers. An offer that is not there any more is passed over;
\* one that is is given back in the amount the search has found.
ProcessExpired ==
  /\ searches # <<>>
  /\ LET found == StillThere(Head(searches))
     IN \E lost \in [Traders -> 0..Stock] :
          /\ \A t \in Traders : lost[t] <= GoodsOf(t, found)
          /\ goods' = [t \in Traders |-> goods[t] + GoodsOf(t, found) - lost[t]]
          /\ gold' = [t \in Traders |-> gold[t] + GoldOf(t, found)]
          /\ offers' = {o \in offers : \A f \in found : f.id # o.id}
          /\ troubles' = troubles \union (IF \E t \in Traders : lost[t] > 0 THEN {"full"} ELSE {})
                           \union (IF found \subseteq offers THEN {} ELSE {"stale"})
  /\ searches' = Tail(searches)
  /\ UNCHANGED <<made, fees>>

----------------------------------------------------------------------------

Trade(t) ==
  \/ \E n \in Amounts : CreateSell(t, n) \/ CreateBuy(t, n)
  \/ \E o \in offers : Cancel(t, o)
  \/ \E o \in offers, n \in Amounts : AcceptBuy(t, o, n) \/ AcceptBuyShort(t, o, n) \/ AcceptSell(t, o, n)

MarketNext ==
  \/ Cardinality(troubles) < MaxTroubles /\ \E t \in Traders : Trade(t)
  \/ MarketAges \/ Search \/ ProcessExpired

MarketSpec == MarketInit /\ [][MarketNext]_marketVars

----------------------------------------------------------------------------
(* Properties.                                                               *)

Offers == [id : 1..MaxOffers, by : Traders, sale : BOOLEAN, amount : Amounts, old : BOOLEAN]

AmountOf(set) == MapThenSumSet(LAMBDA f : f.amount, set)
GoodsOffered == AmountOf({o \in offers : o.sale})
GoldOffered == Price * AmountOf({o \in offers : ~o.sale})
HeldBy(holding) == MapThenSumSet(LAMBDA t : holding[t], Traders)

\* The type invariant: nobody owes gold or goods, no offer is for nothing, and
\* an id names one offer.
MarketTypeOK ==
  /\ gold \in [Traders -> Nat] /\ goods \in [Traders -> Nat]
  /\ offers \subseteq Offers
  /\ \A o, p \in offers : o.id = p.id => o = p
  /\ made \in 0..MaxOffers /\ fees \in Nat
  /\ searches \in Seq(SUBSET Offers)
  /\ troubles \subseteq {"short", "full", "stale"}

\* Goods are with a player or in an offer: requests, expiries and searches
\* that find the same offer twice neither clone nor lose any, unless an offer
\* shrank while a search was in flight (see the README), an inbox was full, or
\* more was offered than there was.
GoodsKept ==
  troubles = {} => HeldBy(goods) + GoodsOffered = Stock * Cardinality(Traders)

\* Gold is with a player, set aside for a buy offer, or paid as a fee, under
\* the same conditions.
GoldKept ==
  troubles \subseteq {"short"} => HeldBy(gold) + GoldOffered + fees = Purse * Cardinality(Traders)

\* Neither is made or lost on the market.
WealthKept == GoodsKept /\ GoldKept

\* "The player may lose the item as it will have already been removed, but
\* will not clone": there are never more goods than there were.
NoGoodsCloned == HeldBy(goods) + GoodsOffered <= Stock * Cardinality(Traders)
=============================================================================
