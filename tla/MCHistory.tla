----------------------------- MODULE MCHistory -----------------------------
\* History with two users: alice's sell order of two units may meet bob's buy
\* order and one of her own.
EXTENDS History

MCOrder ==
    [o1 |-> [user |-> "alice", symbol |-> "BTC_USDT", side |-> "sell", qty |-> 2],
     o2 |-> [user |-> "bob",   symbol |-> "BTC_USDT", side |-> "buy",  qty |-> 1],
     o3 |-> [user |-> "alice", symbol |-> "BTC_USDT", side |-> "buy",  qty |-> 2]]
=============================================================================
