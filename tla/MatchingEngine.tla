--------------------------- MODULE MatchingEngine ---------------------------
(***************************************************************************)
(* The order book of one symbol (OrderBook) and the balance events that    *)
(* MatchingEngine attaches to what happens on it.  An order is placed,     *)
(* matched trade by trade against the other side, and what is left of it   *)
(* rests on the book.  The engine keeps no balances: avail and frozen add  *)
(* up the deltas it emits for UBSCore and settlement to apply.  Callers    *)
(* use one of two entries: add_order_and_build_output, or add_order and    *)
(* add_order_batch, whose commands go to a NullLedger and are gone.        *)
(***************************************************************************)
EXTENDS Integers, Sequences, SequencesExt, FiniteSets, FiniteSetsExt

CONSTANTS
    OrderIds,   \* ids clients give their orders
    Users,
    Prices,     \* limit prices, in quote units
    MaxQty,     \* bound: the largest order
    MaxPlaced,  \* bound: orders placed in one behaviour
    NoOrder     \* no order is being matched

ASSUME EngineAssumption ==
    /\ IsFiniteSet(OrderIds) /\ IsFiniteSet(Users) /\ IsFiniteSet(Prices)
    /\ Prices \subseteq Nat \ {0}
    /\ MaxQty \in Nat \ {0}
    /\ MaxPlaced \in Nat
    /\ NoOrder \notin OrderIds

VARIABLES
    api,      \* the entry the caller uses: "output" or "batch"
    orders,   \* the last order placed under each id, qty is what is left of it
    queue,    \* bids and asks: the orders resting at each price, oldest first
    index,    \* active_order_ids, the keys of order_index
    taker,    \* the id of the order being matched, or NoOrder
    avail,    \* sum of the delta_avail emitted for each user and asset
    frozen,   \* sum of the delta_frozen
    placed    \* orders placed so far

bookVars == <<api, orders, queue, index, taker, avail, frozen, placed>>

Side == {"buy", "sell"}
Asset == {"base", "quote"}

Order == [user : Users, side : Side, price : Prices, qty : 0..MaxQty]

Opposite(s) == IF s = "buy" THEN "sell" ELSE "buy"

\* what an order of q at price p locks: its cost, or the goods
LockAsset(s) == IF s = "buy" THEN "quote" ELSE "base"
LockAmount(s, p, q) == IF s = "buy" THEN p * q ELSE q

\* the orders of side s at price p, and the prices that have any
LevelPrices(s) == {p \in Prices : queue[s][p] # <<>>}

\* asks are taken from the lowest price, bids from the highest
Better(s, p, r) == IF s = "sell" THEN p < r ELSE p > r
BestPrice(s) == IF s = "sell" THEN Min(LevelPrices(s)) ELSE Max(LevelPrices(s))

\* the price of side s is within the taker's limit
Crosses(s, p, limit) == IF s = "sell" THEN p <= limit ELSE p >= limit

Matchable(o) ==
    LET s == Opposite(orders[o].side)
    IN  LevelPrices(s) # {} /\ Crosses(s, BestPrice(s), orders[o].price)

\* the sum of two tables of deltas
Shift(table, u, a, n) == [table EXCEPT ![u][a] = @ + n]

-----------------------------------------------------------------------------
BookInit ==
    /\ api \in {"output", "batch"}
    /\ orders = [o \in OrderIds |-> NoOrder]
    /\ queue = [s \in Side |-> [p \in Prices |-> <<>>]]
    /\ index = {}
    /\ taker = NoOrder
    /\ avail = [u \in Users |-> [a \in Asset |-> 0]]
    /\ frozen = [u \in Users |-> [a \in Asset |-> 0]]
    /\ placed = 0

\* OrderBook::add_order up to the matching loop: the order enters the index
Enters(o, u, s, p, q) ==
    /\ taker = NoOrder
    /\ placed < MaxPlaced /\ placed' = placed + 1
    /\ index' = index \cup {o}
    /\ orders' = [orders EXCEPT ![o] = [user |-> u, side |-> s, price |-> p, qty |-> q]]
    /\ taker' = o
    /\ UNCHANGED <<api, queue>>

\* the event of the lock
LockEvents(u, s, p, q) ==
    /\ avail' = Shift(avail, u, LockAsset(s), -LockAmount(s, p, q))
    /\ frozen' = Shift(frozen, u, LockAsset(s), LockAmount(s, p, q))

\* Mutant: an id that is on the book is accepted again.
PlaceAgain(o, u, s, p, q) ==
    /\ api = "output"
    /\ Enters(o, u, s, p, q)
    /\ LockEvents(u, s, p, q)

\* process_order_with_output up to the matching loop: an id that is active is
\* refused and the lock event is emitted
Place(o, u, s, p, q) ==
    /\ api = "output"
    /\ o \notin index
    /\ Enters(o, u, s, p, q)
    /\ LockEvents(u, s, p, q)

\* the same for the other entry: the lock goes to the NullLedger
process_order_logic(o, u, s, p, q) ==
    /\ o \notin index
    /\ Enters(o, u, s, p, q)
    /\ UNCHANGED <<avail, frozen>>

\* the next order of a batch
PlaceInBatch(o, u, s, p, q) == api = "batch" /\ process_order_logic(o, u, s, p, q)

\* an order on its own: the same, between a write and a flush of the order log
\* (an order the log does not take is an order that is not placed)
add_order(o, u, s, p, q) == api = "batch" /\ process_order_logic(o, u, s, p, q)

\* what a buying taker gets back when it trades below its limit
Refund(buyer, price, q) ==
    IF taker = buyer /\ orders[buyer].price > price
      THEN (orders[buyer].price - price) * q ELSE 0

\* Mutant: no refund.
TradeEventsUnrefunded(buyer, seller, price, q) ==
    LET b == orders[buyer].user
        s == orders[seller].user
        cost == price * q
    IN  /\ avail' = Shift(Shift(avail, b, "base", q), s, "quote", cost)
        /\ frozen' = Shift(Shift(frozen, b, "quote", -cost), s, "base", -q)

\* the four balance events of a trade
TradeEvents(buyer, seller, price, q) ==
    LET b == orders[buyer].user
        s == orders[seller].user
        cost == price * q
        refund == Refund(buyer, price, q)
    IN  /\ avail' = Shift(Shift(Shift(avail, b, "quote", refund), b, "base", q),
                          s, "quote", cost)
        /\ frozen' = Shift(Shift(frozen, b, "quote", -(cost + refund)), s, "base", -q)

\* the MatchExecBatch of process_order_logic: priced and numbered, and lost
BatchedTrade == UNCHANGED <<avail, frozen>>

Clears(buyer, seller, price, q) ==
    \/ api = "output" /\ TradeEvents(buyer, seller, price, q)
    \/ api = "batch" /\ BatchedTrade

\* Mutant: a maker that is not used up goes to the back of its price.
LevelAfterBack(level, left) ==
    IF left > 0 THEN Append(Tail(level), Head(level)) ELSE Tail(level)

\* a price level after its first order traded: a maker that has something left
\* keeps its place
LevelAfter(level, left) == IF left > 0 THEN level ELSE Tail(level)

\* Mutant: the maker's whole quantity is traded.
TradeQtyMaker(o, maker) == orders[maker].qty

TradeQty(o, maker) == Min({orders[o].qty, orders[maker].qty})

\* one turn of the matching loop: the taker trades with the oldest order of
\* the best price, at that order's price
Match ==
    /\ taker # NoOrder
    /\ orders[taker].qty > 0
    /\ Matchable(taker)
    /\ LET s == Opposite(orders[taker].side)
           p == BestPrice(s)
           maker == Head(queue[s][p])
           q == TradeQty(taker, maker)
           left == orders[maker].qty - q
       IN  /\ orders' = [orders EXCEPT ![taker].qty = @ - q, ![maker].qty = @ - q]
           /\ queue' = [queue EXCEPT ![s][p] = LevelAfter(@, left)]
           /\ index' = IF left > 0 THEN index ELSE index \ {maker}
           /\ IF s = "sell" THEN Clears(taker, maker, p, q)
                            ELSE Clears(maker, taker, p, q)
    /\ UNCHANGED <<api, taker, placed>>

\* Mutant: the matching loop stops after the first trade.
RestEarly ==
    /\ taker # NoOrder
    /\ orders[taker].qty > 0
    /\ queue' = [queue EXCEPT ![orders[taker].side][orders[taker].price] = Append(@, taker)]
    /\ taker' = NoOrder
    /\ UNCHANGED <<api, orders, index, avail, frozen, placed>>

\* nothing more to match with: what is left rests behind its price
Rest ==
    /\ taker # NoOrder
    /\ orders[taker].qty > 0
    /\ ~Matchable(taker)
    /\ queue' = [queue EXCEPT ![orders[taker].side][orders[taker].price] = Append(@, taker)]
    /\ taker' = NoOrder
    /\ UNCHANGED <<api, orders, index, avail, frozen, placed>>

\* the taker is used up; its id stays in the index
Filled ==
    /\ taker # NoOrder
    /\ orders[taker].qty = 0
    /\ taker' = NoOrder
    /\ UNCHANGED <<api, orders, queue, index, avail, frozen, placed>>

\* iter().position(): where o is first at its price
Position(level, o) ==
    CHOOSE i \in DOMAIN level : level[i] = o /\ \A j \in 1..(i - 1) : level[j] # o

\* an order on the book leaves it and its lock is released
Release(o) ==
    LET x == orders[o]
        n == LockAmount(x.side, x.price, x.qty)
    IN  /\ queue' = [queue EXCEPT ![x.side][x.price] = RemoveAt(@, Position(@, o))]
        /\ avail' = Shift(avail, x.user, LockAsset(x.side), n)
        /\ frozen' = Shift(frozen, x.user, LockAsset(x.side), -n)

\* cancel_order: the index entry goes, even if the order is not on the book
Cancel(o) ==
    /\ taker = NoOrder
    /\ o \in index
    /\ index' = index \ {o}
    /\ IF o \in Range(queue[orders[o].side][orders[o].price])
         THEN Release(o) ELSE UNCHANGED <<queue, avail, frozen>>
    /\ UNCHANGED <<api, orders, taker, placed>>

BookNext ==
    \/ \E o \in OrderIds, u \in Users, s \in Side, p \in Prices, q \in 1..MaxQty :
          Place(o, u, s, p, q) \/ PlaceInBatch(o, u, s, p, q) \/ add_order(o, u, s, p, q)
    \/ Match
    \/ Rest
    \/ Filled
    \/ \E o \in OrderIds : Cancel(o)

BookSpec == BookInit /\ [][BookNext]_bookVars

-----------------------------------------------------------------------------
(***************************************************************************)
(* Properties                                                              *)
(***************************************************************************)

\* The type invariant.
BookTypeOK ==
    /\ api \in {"output", "batch"}
    /\ orders \in [OrderIds -> Order \cup {NoOrder}]
    /\ queue \in [Side -> [Prices -> Seq(OrderIds)]]
    /\ index \subseteq OrderIds
    /\ taker \in OrderIds \cup {NoOrder}
    /\ avail \in [Users -> [Asset -> Int]]
    /\ frozen \in [Users -> [Asset -> Int]]
    /\ placed \in 0..MaxPlaced

OnBook(o) == \E s \in Side, p \in Prices : o \in Range(queue[s][p])

\* Between two orders the book is not crossed: whatever could trade has traded.
NeverCrossed ==
    taker = NoOrder /\ LevelPrices("buy") # {} /\ LevelPrices("sell") # {} =>
        BestPrice("buy") < BestPrice("sell")

\* The index finds every order on the book: each rests once, where the index
\* says (its own side and price), with a quantity left, and remove_order can
\* reach it.
BookIndexed ==
    \A s \in Side, p \in Prices :
        /\ IsInjective(queue[s][p])
        /\ \A o \in Range(queue[s][p]) :
              /\ o \in index /\ o # taker
              /\ orders[o].side = s /\ orders[o].price = p /\ orders[o].qty > 0

\* what o, on the book or being matched, needs of u's asset a
Need(o, u, a) ==
    LET x == orders[o]
    IN  IF (OnBook(o) \/ o = taker) /\ x.user = u /\ LockAsset(x.side) = a
          THEN LockAmount(x.side, x.price, x.qty) ELSE 0

Needs(u, a) == SumFunctionOnSet([o \in OrderIds |-> Need(o, u, a)], OrderIds)

\* what the events in a table add up to, over all users
Total(table, a) == SumFunctionOnSet([u \in Users |-> table[u][a]], Users)

\* The lock deltas and the trade deltas match: what the events leave frozen
\* for a user is exactly what the user's open orders still need, so a trade can
\* always be paid from frozen funds and nothing stays frozen after an order is
\* filled or cancelled, whatever prices it traded at; and over all users the
\* events add up to nothing in each asset.  (Of add_order_batch only the
\* unlocks of cancels get out.)
FrozenIsBacked ==
    api = "output" => \A a \in Asset :
        /\ \A u \in Users : frozen[u][a] = Needs(u, a)
        /\ Total(avail, a) + Total(frozen, a) = 0

\* a is ahead of b: better price, or the same price and earlier
Ahead(a, b) ==
    \E s \in Side, p \in Prices, r \in Prices :
        /\ a \in Range(queue[s][p]) /\ b \in Range(queue[s][r])
        /\ \/ Better(s, p, r)
           \/ /\ p = r
              /\ \E i, j \in DOMAIN queue[s][p] :
                    queue[s][p][i] = a /\ queue[s][p][j] = b /\ i < j

\* "it has priority": no order on the book trades while another of its side is
\* ahead of it, and none is overtaken by an order that came later.
PriceTimePriority ==
    [][\A a, b \in OrderIds :
          Ahead(a, b) => /\ orders'[b] = orders[b]
                         /\ OnBook(a)' /\ OnBook(b)' => Ahead(a, b)']_bookVars
=============================================================================
