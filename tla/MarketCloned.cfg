\* An offer that shrinks while a search that has found it is in flight.
SPECIFICATION MarketSpec
CONSTANTS
    Traders = {t1, t2}
    Stock = 2
    Purse = 2100
    Price = 1000
    MaxOffers = 2
    MaxSearches = 1
    MaxTroubles = 1
INVARIANT NoGoodsCloned
CHECK_DEADLOCK FALSE
