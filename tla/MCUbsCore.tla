----------------------------- MODULE MCUbsCore -----------------------------
\* UbsCore with two users and three orders of three ticks, one whose price times
\* quantity does not fit in a u64.
EXTENDS UbsCore

MCDeltas == {<<"quote", -1>>, <<"base", 1>>}

MCOrder ==
    [o1 |-> [user |-> "alice", side |-> "Buy",  price |-> 1, qty |-> 1, ts |-> 0],
     o2 |-> [user |-> "bob",   side |-> "Sell", price |-> 1, qty |-> 1, ts |-> 1],
     o3 |-> [user |-> "bob",   side |-> "Buy",  price |-> 2, qty |-> 2, ts |-> 2]]
=============================================================================
