--------------------------- MODULE AtomicTransfer ---------------------------
(***************************************************************************)
(* What an internal transfer promises (docs/INTERNAL_TRANSFER_V2_DESIGN):  *)
(* the amount leaves the source at most once and arrives at exactly one    *)
(* place, and the status of the transfer, once decided, says which.        *)
(***************************************************************************)
CONSTANT Transfers

VARIABLES
    status,   \* "absent", "open", "committed", "rolled_back" or "failed"
    funds     \* where the amount is: "source", "between", "target", "returned"

atomicVars == <<status, funds>>

AtomicTypeOK ==
    /\ status \in [Transfers -> {"absent", "open", "committed", "rolled_back", "failed"}]
    /\ funds \in [Transfers -> {"source", "between", "target", "returned"}]

AtomicInit ==
    /\ status = [t \in Transfers |-> "absent"]
    /\ funds = [t \in Transfers |-> "source"]

Submit(t) ==
    /\ status[t] = "absent"
    /\ status' = [status EXCEPT ![t] = "open"]
    /\ UNCHANGED funds

\* money moves only while the transfer is open
Move(t, from, to) ==
    /\ status[t] = "open"
    /\ funds[t] = from
    /\ funds' = [funds EXCEPT ![t] = to]
    /\ UNCHANGED status

\* the outcome that belongs to each resting place
Decide(t, outcome, place) ==
    /\ status[t] = "open"
    /\ funds[t] = place
    /\ status' = [status EXCEPT ![t] = outcome]
    /\ UNCHANGED funds

AtomicNext ==
    \E t \in Transfers :
        \/ Submit(t)
        \/ Move(t, "source", "between")
        \/ Move(t, "between", "target")
        \/ Move(t, "between", "returned")
        \/ Decide(t, "committed", "target")
        \/ Decide(t, "rolled_back", "returned")
        \/ Decide(t, "failed", "source")

AtomicSpec == AtomicInit /\ [][AtomicNext]_atomicVars
=============================================================================
