------------------------------ MODULE History ------------------------------
(***************************************************************************)
(* What becomes of an order in the tables users query.  The matching       *)
(* engine is reduced to which orders are open and what is left of them.    *)
(* One of two readers is deployed: the order history service               *)
(* (bin/order_history_service.rs), which handles the engine's              *)
(* LedgerCommands one at a time, or the settlement service's derived       *)
(* writers (bin/settlement_service.rs), which work in parallel on batches  *)
(* of EngineOutputs.  Both write the tables of db/order_history_db.rs; the *)
(* writers also keep active_orders, order_lookup and user_trades of        *)
(* db/settlement_db.rs.  Any statement may fail.  order_updates_stream is  *)
(* read by nobody, so only its statement is kept.                          *)
(***************************************************************************)
EXTENDS Integers, FiniteSets, FiniteSetsExt, Sequences, SequencesExt, Functions

CONSTANTS
    Order,        \* the orders: order_id -> [user, symbol, side, qty]
    MaxBatch,     \* MAX_BATCH_SIZE
    Room,         \* DERIVED_WRITER_BUFFER
    MaxFailures   \* bound: failed statements and restarts

OrderIds == DOMAIN Order
Users == {Order[o].user : o \in OrderIds}

\* the symbols of SymbolManager::load_from_db, with their assets
SymbolManager == [BTC_USDT |-> [id |-> 0, base |-> 1, quote |-> 2],
                  ETH_USDT |-> [id |-> 1, base |-> 3, quote |-> 2]]
Symbols == DOMAIN SymbolManager
get_symbol_id(symbol) == SymbolManager[symbol].id

ASSUME HistoryAssumption ==
    /\ IsFiniteSet(OrderIds)
    /\ \A o \in OrderIds : Order[o].side \in {"buy", "sell"} /\ Order[o].qty \in Nat \ {0}
    /\ \A o \in OrderIds : Order[o].symbol \in Symbols
    /\ {MaxBatch, Room} \subseteq Nat \ {0}
    /\ MaxFailures \in Nat

VARIABLES
    reader,     \* the reader that is deployed
    book,       \* the engine: what each order is
    left,       \* the engine: what is left of it
    trades,     \* history: the trades of the engine
    wire,       \* the order history service's socket
    outTopic,   \* EngineOutputs on their way to the settlement service
    db,         \* OrderHistoryDb: [active, history, stats]
    tradesCh, orderCh,  \* the writers' channels
    working,    \* the batch the order writer is at
    tracked,    \* how many outputs of it are in active_orders
    updates,    \* its order updates in flight
    listed,     \* SettlementDb's active_orders: the status of a row
    lookup,     \* order_lookup
    userTrades, \* user_trades
    failures

engineVars == <<reader, book, left, trades>>
writerVars == <<tradesCh, orderCh, working, tracked, updates, listed, lookup, userTrades>>
vars == <<engineVars, wire, outTopic, db, writerVars, failures>>

Closed == {"Filled", "Cancelled", "Rejected", "Expired"}
Status == {"New", "PartiallyFilled"} \cup Closed
NoRow == [status |-> "none", filled |-> 0]
Row == {NoRow} \cup [status : Status, filled : Nat]
Zero == [total |-> 0, filled |-> 0, cancelled |-> 0, rejected |-> 0]
NoStats == [Zero EXCEPT !.total = -1]

Init ==
    /\ reader \in {"service", "settlement"}
    /\ book = [o \in OrderIds |-> "unsent"]
    /\ left = [o \in OrderIds |-> Order[o].qty]
    /\ trades = {}
    /\ wire = <<>> /\ outTopic = <<>>
    /\ db = [active |-> [o \in OrderIds |-> NoRow], history |-> [o \in OrderIds |-> NoRow],
             stats |-> [u \in Users |-> NoStats]]
    /\ tradesCh = <<>> /\ orderCh = <<>>
    /\ working = <<>> /\ tracked = 0 /\ updates = <<>>
    /\ listed = [o \in OrderIds |-> "none"] /\ lookup = {} /\ userTrades = {}
    /\ failures = 0

Works == UNCHANGED failures
Fails == failures < MaxFailures /\ failures' = failures + 1

-----------------------------------------------------------------------------
(***************************************************************************)
(* The engine, which says of an order: New and then its trades to the      *)
(* order history service; one EngineOutput, with the update and the        *)
(* completion of the order itself and not of the orders it met, to the     *)
(* settlement service.                                                     *)
(***************************************************************************)

Update(o, status, filled) == [kind |-> "update", order |-> o, status |-> status,
                              filled |-> filled]
Fill(o, n) == [kind |-> "fill", order |-> o, qty |-> n]

Trade(o, m) == IF Order[o].side = "buy" THEN [buyer |-> o, seller |-> m]
                                        ELSE [buyer |-> m, seller |-> o]

\* MatchExecBatch: of every trade the buyer's and then the seller's fill
Fills(o, makers, n) ==
    FlattenSeq([i \in DOMAIN makers |->
        LET m == makers[i]
        IN  IF Order[o].side = "buy" THEN <<Fill(o, n[m]), Fill(m, n[m])>>
                                     ELSE <<Fill(m, n[m]), Fill(o, n[m])>>])

Tells(commands, output) ==
    IF reader = "service" THEN /\ wire' = wire \o commands
                               /\ UNCHANGED outTopic
                          ELSE /\ outTopic' = Append(outTopic, output)
                               /\ UNCHANGED wire

\* An unknown symbol, the only reason there is: register_symbol has opened the
\* accounts, so the later rejection of an order already called New cannot come.
RejectOrder(o) ==
    /\ book[o] = "unsent"
    /\ book' = [book EXCEPT ![o] = "rejected"]
    /\ Tells(<<Update(o, "Rejected", 0)>>,
             [order |-> o, status |-> "Rejected", filled |-> 0, makers |-> <<>>])
    /\ UNCHANGED <<reader, left, trades, db, writerVars, failures>>

\* the open orders of the other side of the symbol's book
Opposite(o) == {m \in OrderIds : /\ book[m] = "open"
                                 /\ Order[m].symbol = Order[o].symbol
                                 /\ Order[m].side # Order[o].side}

\* the order meets some of them until it is filled
PlaceOrder(o) ==
    /\ book[o] = "unsent"
    /\ \E C \in SUBSET Opposite(o) :
       \E n \in [C -> 1..Order[o].qty] :
          LET filled == SumFunctionOnSet(n, C)
              status == IF filled = 0 THEN "New"
                        ELSE IF filled = Order[o].qty THEN "Filled" ELSE "PartiallyFilled"
              makers == SetToSeq(C)
          IN  /\ filled <= Order[o].qty
              /\ \A m \in C : n[m] <= left[m]
              /\ \/ \A m \in C : n[m] = left[m]
                 \/ filled = Order[o].qty /\ Cardinality({m \in C : n[m] < left[m]}) = 1
              /\ left' = [m \in OrderIds |-> IF m = o THEN left[o] - filled
                                             ELSE IF m \in C THEN left[m] - n[m] ELSE left[m]]
              /\ book' = [m \in OrderIds |-> IF m \in C \cup {o}
                                               THEN IF left'[m] = 0 THEN "filled" ELSE "open"
                                               ELSE book[m]]
              /\ trades' = trades \cup {[taker |-> o, maker |-> m, qty |-> n[m]] : m \in C}
              /\ Tells(<<Update(o, "New", 0)>> \o Fills(o, makers, n),
                       [order |-> o, status |-> status, filled |-> filled, makers |-> makers])
    /\ UNCHANGED <<reader, db, writerVars, failures>>

\* cancel_order reports filled_qty 0; it makes no EngineOutput
CancelOrder(o) ==
    /\ reader = "service"
    /\ book[o] = "open"
    /\ book' = [book EXCEPT ![o] = "cancelled"]
    /\ wire' = Append(wire, Update(o, "Cancelled", 0))
    /\ UNCHANGED <<reader, left, trades, outTopic, db, writerVars, failures>>

-----------------------------------------------------------------------------
(***************************************************************************)
(* OrderHistoryDb.                                                         *)
(***************************************************************************)

RowOf(u) == [status |-> u.status, filled |-> u.filled]

\* the counters of update_order_statistics
WithCounted(s, status) ==
    LET c == IF s = NoStats THEN Zero ELSE s
    IN  CASE status = "New"                      -> [c EXCEPT !.total = @ + 1]
          [] status = "Filled"                   -> [c EXCEPT !.filled = @ + 1]
          [] status \in {"Cancelled", "Expired"} -> [c EXCEPT !.cancelled = @ + 1]
          [] status = "Rejected"                 -> [c EXCEPT !.rejected = @ + 1]
          [] OTHER                               -> c

\* Mutant: IF NOT EXISTS is dropped.
init_user_statistics_again(s) == [Zero EXCEPT !.total = 1]

\* the first order of a user is counted here and by update_order_statistics
init_user_statistics(s) == IF s = NoStats THEN [Zero EXCEPT !.total = 1] ELSE s

\* what a set of statements about an update does; init_user_statistics comes
\* before update_order_statistics, the others touch different rows
Perform(d, steps, u) ==
    LET who == Order[u.order].user
        begun == IF "init" \in steps THEN init_user_statistics(d.stats[who]) ELSE d.stats[who]
    IN  [active  |-> [d.active EXCEPT ![u.order] = IF "upsert" \in steps THEN RowOf(u)
                                                   ELSE IF "delete" \in steps THEN NoRow ELSE @],
         history |-> [d.history EXCEPT ![u.order] = IF "history" \in steps THEN RowOf(u) ELSE @],
         stats   |-> [d.stats EXCEPT ![who] = IF "stats" \in steps THEN WithCounted(begun, u.status)
                                              ELSE begun]]

-----------------------------------------------------------------------------
(***************************************************************************)
(* The order history service: its statements one after the other; the      *)
(* first that fails ends the update.                                       *)
(***************************************************************************)

\* Mutant: the history is written before the active order.
StepsHistoryFirst(status) ==
    CASE status = "New"               -> <<"history", "upsert", "stream", "init", "stats">>
      [] status = "PartiallyFilled"   -> <<"history", "upsert", "stream">>
      [] status \in {"Filled", "Cancelled"} -> <<"history", "delete", "stream", "stats">>
      [] status = "Rejected"          -> <<"history", "stream", "stats">>
      [] status = "Expired"           -> <<"history", "delete", "stream">>

Steps(status) ==
    CASE status = "New"               -> <<"upsert", "history", "stream", "init", "stats">>
      [] status = "PartiallyFilled"   -> <<"upsert", "history", "stream">>
      [] status \in {"Filled", "Cancelled"} -> <<"delete", "history", "stream", "stats">>
      [] status = "Rejected"          -> <<"history", "stream", "stats">>
      [] status = "Expired"           -> <<"delete", "history", "stream">>

process_order_update(u) ==
    LET steps == Steps(u.status)
        Done(n) == Perform(db, {steps[i] : i \in 1..n}, u)
    IN  \/ Works /\ db' = Done(Len(steps))
        \/ Fails /\ \E n \in 0..(Len(steps) - 1) : db' = Done(n)

ReceiveUpdate ==
    /\ wire # <<>> /\ Head(wire).kind = "update"
    /\ wire' = Tail(wire)
    /\ process_order_update(Head(wire))
    /\ UNCHANGED <<engineVars, outTopic, writerVars>>

\* read the active order, add the fill, and persist that as an update; a fill
\* of an order that is not active is dropped
process_trade_fill ==
    LET o == Head(wire).order
        filled == db.active[o].filled + Head(wire).qty
        status == IF filled >= Order[o].qty THEN "Filled" ELSE "PartiallyFilled"
    IN  /\ wire # <<>> /\ Head(wire).kind = "fill"
        /\ wire' = Tail(wire)
        /\ \/ /\ db.active[o] # NoRow
              /\ process_order_update(Update(o, status, filled))
           \/ ((db.active[o] = NoRow /\ Works) \/ Fails) /\ UNCHANGED db
        /\ UNCHANGED <<engineVars, outTopic, writerVars>>

\* what its socket had taken in is gone
ServiceRestarts ==
    /\ reader = "service"
    /\ Fails
    /\ \E n \in 0..Len(wire) : wire' = SubSeq(wire, n + 1, Len(wire))
    /\ UNCHANGED <<engineVars, outTopic, db, writerVars>>

-----------------------------------------------------------------------------
(***************************************************************************)
(* The settlement service's writers.  The sends to their channels wait for *)
(* room.                                                                   *)
(***************************************************************************)

\* Mutant: what does not fit in a channel is sent all the same.
dispatch_without_waiting ==
    \E k \in 1..Min({Len(outTopic), MaxBatch}) :
        LET part == SubSeq(outTopic, 1, k)
        IN  /\ orderCh' = Append(orderCh, part)
            /\ tradesCh' = tradesCh \o FlattenSeq([i \in 1..k |->
                  [j \in DOMAIN part[i].makers |->
                      Trade(part[i].order, part[i].makers[j])]])
            /\ outTopic' = SubSeq(outTopic, k + 1, Len(outTopic))
            /\ UNCHANGED <<engineVars, wire, db, working, tracked, updates, listed, lookup,
                           userTrades, failures>>

dispatch_to_writers ==
    \E k \in 1..Min({Len(outTopic), MaxBatch}) :
        LET part == SubSeq(outTopic, 1, k)
        IN  /\ Len(orderCh) < Room /\ Len(tradesCh) < Room
            /\ orderCh' = Append(orderCh, part)
            /\ tradesCh' = tradesCh \o FlattenSeq([i \in 1..k |->
                  [j \in DOMAIN part[i].makers |->
                      Trade(part[i].order, part[i].makers[j])]])
            /\ outTopic' = SubSeq(outTopic, k + 1, Len(outTopic))
            /\ UNCHANGED <<engineVars, wire, db, working, tracked, updates, listed, lookup,
                           userTrades, failures>>

\* the table's own idea of a pair's symbol id, not SymbolManager's
get_symbol_id_from_assets(base, quote) == IF base = 1 /\ quote = 2 THEN 1 ELSE 0

\* the id a trade is written under
WrittenUnder(t) == LET pair == SymbolManager[Order[t.buyer].symbol]
                   IN  get_symbol_id_from_assets(pair.base, pair.quote)

\* the buyer's row and, if that worked, the seller's; the key is the user, the
\* symbol id and the trade, so of a trade with oneself the seller's row is left
write_user_trades ==
    LET t == Head(tradesCh)
        Insert(rows, role) == {r \in rows : <<r.user, r.trade>> # <<Order[t[role]].user, t>>}
                              \cup {[user |-> Order[t[role]].user, symbol |-> WrittenUnder(t),
                                    trade |-> t, role |-> role]}
        bought == Insert(userTrades, "buyer")
    IN  /\ tradesCh # <<>>
        /\ tradesCh' = Tail(tradesCh)
        /\ \/ Works /\ userTrades' = Insert(bought, "seller")
           \/ Fails /\ userTrades' \in {userTrades, bought}
        /\ UNCHANGED <<engineVars, wire, outTopic, db, orderCh, working, tracked, updates, listed,
                       lookup>>

ReceiveBatch ==
    /\ working = <<>>
    /\ orderCh # <<>>
    /\ working' = Head(orderCh)
    /\ orderCh' = Tail(orderCh)
    /\ tracked' = 0
    /\ UNCHANGED <<engineVars, wire, outTopic, db, tradesCh, updates, listed, lookup, userTrades,
                   failures>>

\* mark_order_complete: the key comes from order_lookup; without it, nothing
mark_order_complete(rows, known, output) ==
    IF output.status = "Filled" /\ output.order \in known
      THEN [rows EXCEPT ![output.order] = "Filled"]
      ELSE rows

\* Mutant: an output's completion is handled before its placement.
TrackedCompletionFirst(output) ==
    [rows |-> [mark_order_complete(listed, lookup, output) EXCEPT ![output.order] = "New"],
     known |-> lookup \cup {output.order}]

\* insert_active_order with its two rows, then the completion
Tracked(output) ==
    LET known == lookup \cup {output.order}
        inserted == [listed EXCEPT ![output.order] = "New"]
    IN  [rows |-> mark_order_complete(inserted, known, output), known |-> known]

\* the placement and the completion of one output, each logged if it fails;
\* with the last output of the batch the order updates start together
TrackOrder ==
    LET output == working[tracked + 1]
        inserted == [listed EXCEPT ![output.order] = "New"]
        todo(i) == IF working[i].status = "New" THEN {"rows", "init", "read", "write"}
                   ELSE IF working[i].status = "PartiallyFilled" THEN {"rows"}
                   ELSE {"rows", "read", "write"}
    IN  /\ tracked < Len(working)
        /\ tracked' = tracked + 1
        /\ updates' = IF tracked' < Len(working) THEN updates
                      ELSE [i \in DOMAIN working |-> [todo |-> todo(i), read |-> NoStats]]
        /\ \/ output.status = "Rejected" /\ Works /\ UNCHANGED <<listed, lookup>>
           \/ /\ output.status # "Rejected" /\ Works
              /\ listed' = Tracked(output).rows /\ lookup' = Tracked(output).known
           \/ /\ output.status # "Rejected" /\ Fails
              /\ \/ UNCHANGED <<listed, lookup>>
                 \/ listed' = inserted /\ UNCHANGED lookup
                 \/ output.status = "Filled" /\ listed' = inserted
                    /\ lookup' = lookup \cup {output.order}
        /\ UNCHANGED <<engineVars, wire, outTopic, db, tradesCh, orderCh, working, userTrades>>

\* the statements of an update that are about the order alone
OrderSteps(status) == Range(Steps(status)) \ {"init", "stats"}

\* One statement of process_order_update_parallel; update_order_statistics
\* reads and then writes, and other updates of the user come between.
UpdateStep(i, s) ==
    LET u == working[i]
        who == Order[u.order].user
        Done(steps) == Perform(db, steps, u)
        skip == IF s = "read" THEN {"read", "write"} ELSE {s}
    IN  /\ s \in updates[i].todo
        /\ s = "write" => "read" \notin updates[i].todo
        /\ UNCHANGED <<engineVars, wire, outTopic, tradesCh, orderCh, working, tracked, listed,
                       lookup, userTrades>>
        /\ \/ /\ Works
              /\ updates' = [updates EXCEPT ![i].todo = @ \ {s},
                                            ![i].read = IF s = "read" THEN db.stats[who] ELSE @]
              /\ db' = CASE s = "rows"  -> Done(OrderSteps(u.status))
                         [] s = "init"  -> Done({"init"})
                         [] s = "read"  -> db
                         [] s = "write" ->
                              [db EXCEPT !.stats[who] = WithCounted(updates[i].read, u.status)]
           \/ /\ Fails
              /\ updates' = [updates EXCEPT ![i].todo = @ \ skip]
              /\ \/ s # "rows" /\ UNCHANGED db
                 \/ /\ s = "rows"
                    /\ \E x \in OrderSteps(u.status) : db' = Done(OrderSteps(u.status) \ {x})

\* join_all: the writer goes on when all of them have ended
BatchDone ==
    /\ updates # <<>>
    /\ \A i \in DOMAIN updates : updates[i].todo = {}
    /\ working' = <<>> /\ tracked' = 0 /\ updates' = <<>>
    /\ UNCHANGED <<engineVars, wire, outTopic, db, tradesCh, orderCh, listed, lookup, userTrades,
                   failures>>

Next ==
    \/ \E o \in OrderIds : RejectOrder(o) \/ PlaceOrder(o) \/ CancelOrder(o)
    \/ ReceiveUpdate \/ process_trade_fill \/ ServiceRestarts
    \/ dispatch_to_writers \/ write_user_trades \/ ReceiveBatch \/ TrackOrder
    \/ \E i \in DOMAIN updates : \E s \in updates[i].todo : UpdateStep(i, s)
    \/ BatchDone

Spec == Init /\ [][Next]_vars

-----------------------------------------------------------------------------
(***************************************************************************)
(* Properties.                                                             *)
(***************************************************************************)

\* Every variable has its type, and no row says that more than the order was
\* filled.
TypeOK ==
    /\ reader \in {"service", "settlement"}
    /\ book \in [OrderIds -> {"unsent", "rejected", "open", "filled", "cancelled"}]
    /\ \A o \in OrderIds : left[o] \in 0..Order[o].qty
    /\ \A o \in OrderIds : {db.active[o], db.history[o]} \subseteq Row
    /\ \A o \in OrderIds : {db.active[o].filled, db.history[o].filled} \subseteq 0..Order[o].qty
    /\ \A u \in Users : db.stats[u] = NoStats \/ Range(db.stats[u]) \subseteq Nat
    /\ tracked \in 0..Len(working) /\ DOMAIN updates \subseteq DOMAIN working
    /\ Len(orderCh) <= Room
    /\ listed \in [OrderIds -> {"none", "New", "Filled"}] /\ lookup \subseteq OrderIds
    /\ failures \in 0..MaxFailures

\* Whatever statement fails or message is lost: while an order is in
\* active_orders, order_history neither says that it has ended nor shows a
\* fill that active_orders has not.
HistoryNotAhead ==
    \A o \in OrderIds : db.active[o] # NoRow =>
        /\ db.history[o].status \notin Closed
        /\ db.history[o].filled <= db.active[o].filled

Count(u, what) == Cardinality({o \in OrderIds : Order[o].user = u /\ book[o] = what})

\* The order history service has the engine's open orders when it has caught
\* up and nothing failed: exactly those, filled as far as they are, and it has
\* counted every order that ended once, however many trades that took.  A
\* user's orders may be counted one too many (init_user_statistics).
MirrorsEngine ==
    reader = "service" /\ wire = <<>> /\ failures = 0 =>
        /\ \A o \in OrderIds :
              db.active[o] = IF book[o] # "open" THEN NoRow
                             ELSE [status |-> IF left[o] = Order[o].qty THEN "New"
                                              ELSE "PartiallyFilled",
                                   filled |-> Order[o].qty - left[o]]
        /\ \A u \in Users : db.stats[u] # NoStats =>
              /\ db.stats[u].filled = Count(u, "filled")
              /\ db.stats[u].cancelled = Count(u, "cancelled")
              /\ db.stats[u].rejected = Count(u, "rejected")
              /\ db.stats[u].total - Count(u, "open") - Count(u, "filled")
                    - Count(u, "cancelled") \in {0, 1}

\* the queries of SettlementDb: the rows of a user under a symbol id, of orders
\* those whose status is 0 or 1.  An order is listed under the id it was placed
\* with, a trade under the one write_user_trades made up.
select_active_orders(u, id) ==
    {o \in OrderIds : Order[o].user = u /\ get_symbol_id(Order[o].symbol) = id /\ listed[o] = "New"}
get_user_trades(u, id) == {r \in userTrades : r.user = u /\ r.symbol = id}

\* Side::as_u8, which the engine puts in an output, and what the gateway takes
\* the number for
as_u8(side) == IF side = "buy" THEN 1 ELSE 2
SideShown(code) == CASE code = 0 -> "Buy" [] code = 1 -> "Sell" [] OTHER -> "Unknown"

\* what the gateway makes of them for a user who asks for a symbol (limit is
\* not reached)
get_active_orders(u, symbol) ==
    {[order |-> o, side |-> SideShown(as_u8(Order[o].side)), status |-> listed[o]] :
        o \in select_active_orders(u, get_symbol_id(symbol))}
get_trade_history(u, symbol) ==
    {[trade |-> r.trade, role |-> IF r.role = "buyer" THEN "BUYER" ELSE "SELLER"] :
        r \in get_user_trades(u, get_symbol_id(symbol))}

\* the trades a user took part in; of a trade with themselves one role is shown
TradesOf(u) == {Trade(t.taker, t.maker) : t \in
                   {x \in trades : u \in {Order[x.taker].user, Order[x.maker].user}}}
RoleIn(u, t) == IF Order[t.seller].user = u THEN "SELLER" ELSE "BUYER"
AsShown(u, T) == {[trade |-> t, role |-> RoleIn(u, t)] : t \in T}

TakenBy(o) == {t \in trades : t.taker = o}
FilledOnArrival(o) == SumFunctionOnSet([t \in TakenBy(o) |-> t.qty], TakenBy(o)) = Order[o].qty

\* the settlement service's writers have caught up, and nothing failed
CaughtUp == /\ reader = "settlement" /\ failures = 0
            /\ outTopic = <<>> /\ orderCh = <<>> /\ tradesCh = <<>> /\ working = <<>>

OrdersOf(u) == {o \in OrderIds : Order[o].user = u}
AtOnce(u) == {o \in OrdersOf(u) : book[o] \notin {"unsent", "rejected"} /\ FilledOnArrival(o)}

\* When the settlement service's writers have caught up and nothing failed, no
\* trade is missing, doubled or in the wrong role: asked for a symbol, the
\* gateway shows a user their trades that were written under its id; no open
\* order is missing from active_orders, and none is listed that was never
\* placed or was filled as it arrived (mark_order_complete found it); and no
\* order is counted twice though the updates of a batch race for the counters.
DerivedComplete ==
    CaughtUp => \A u \in Users :
        /\ \A s \in Symbols :
              LET mine == {o \in OrdersOf(u) : Order[o].symbol = s}
                  shown == {r.order : r \in get_active_orders(u, s)}
              IN  /\ get_trade_history(u, s) =
                        AsShown(u, {t \in TradesOf(u) : WrittenUnder(t) = get_symbol_id(s)})
                  /\ {o \in mine : book[o] = "open"} \subseteq shown
                  /\ shown \subseteq {o \in mine : book[o] \notin {"unsent", "rejected"}} \ AtOnce(u)
        /\ db.stats[u].filled <= Cardinality(AtOnce(u))
        /\ db.stats[u].rejected <= Count(u, "rejected")
        /\ db.stats[u].total <= 1 + Cardinality({o \in OrdersOf(u) :
                                                   /\ book[o] \notin {"unsent", "rejected"}
                                                   /\ \A t \in trades : t.taker # o})

-----------------------------------------------------------------------------
(***************************************************************************)
(* What the repository says of these tables and the code does not keep.    *)
(***************************************************************************)

\* "Get trades for a specific user and symbol" (settlement_db.rs:769): the trade
\* history of a symbol is the user's trades of that symbol.
OwnSymbolShown ==
    CaughtUp => \A u \in Users, s \in Symbols :
        get_trade_history(u, s) = AsShown(u, {t \in TradesOf(u) : Order[t.buyer].symbol = s})

\* "0=Buy, 1=Sell" (active_orders.cql): a listed order is shown on its side.
SidesAsPlaced ==
    \A u \in Users, s \in Symbols : \A r \in get_active_orders(u, s) :
        r.side = IF Order[r.order].side = "buy" THEN "Buy" ELSE "Sell"

\* "Stores currently open orders" (active_orders.cql): an order that trades have
\* filled is no longer listed.
OnlyOpenListed ==
    CaughtUp => \A u \in Users, s \in Symbols :
        \A r \in get_active_orders(u, s) : book[r.order] = "open"

\* "Upsert: On EVERY OrderUpdate event (increment counters)"
\* (ORDER_HISTORY_SCHEMA.md): every update that is counted is counted.
EveryUpdateCounted ==
    CaughtUp => \A u \in Users :
        /\ db.stats[u].filled = Cardinality(AtOnce(u))
        /\ db.stats[u].rejected = Count(u, "rejected")
=============================================================================
