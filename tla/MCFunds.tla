------------------------------ MODULE MCFunds ------------------------------
\* Funds with one user who can pay for two orders, or for a transfer out, or
\* has one refused; the log has room for one order.  Request ids are as the
\* gateway drew them.
EXTENDS Funds

MCOrder == [o1 |-> [user |-> "alice", cost |-> 1], o2 |-> [user |-> "alice", cost |-> 1]]

MCTransfer ==
    <<[dir |-> "out", user |-> "alice", amount |-> 2],
      [dir |-> "in",  user |-> "alice", amount |-> 1]>>
=============================================================================
