---------------------------- MODULE EngineOutput ----------------------------
(***************************************************************************)
(* EngineOutput bundles and their hash chain, and the Kafka topic          *)
(* engine.outputs that carries them from the matching engine to            *)
(* settlement.  A bundle is abstracted to its sequence number, the hash    *)
(* of its predecessor, the order it reports and its symbol, which is 0     *)
(* for an output without trades.                                           *)
(***************************************************************************)
EXTENDS Integers, Sequences, SequencesExt, FiniteSets, FiniteSetsExt

CONSTANTS
    Orders,       \* order ids
    MaxMessages,  \* bound: the length of the orders topic
    MaxFaults     \* bound: crashes and failed writes

ASSUME OutputAssumption == MaxMessages \in Nat /\ MaxFaults \in Nat

VARIABLES
    outputs,   \* the topic engine.outputs
    faults     \* crashes and failed writes so far, by kind

FaultKind == {"restart", "unsent", "stop", "sot"}

Faults == SumFunctionOnSet(faults, FaultKind)

\* something of kind k goes wrong
Fault(k) ==
    /\ Faults < MaxFaults
    /\ faults' = [faults EXCEPT ![k] = @ + 1]

\* an output with trades is filed under the symbol that traded
Symbol == {0, 1}

\* hashes do not collide here: a hash is the history it covers
GenesisHash == <<>>
Chain == Seq([seq : Nat, order : Orders, symbol : Symbol])

Output == [seq : Nat, prev : Chain, order : Orders, symbol : Symbol]

Hash(out) ==
    Append(out.prev, [seq |-> out.seq, order |-> out.order, symbol |-> out.symbol])
=============================================================================
