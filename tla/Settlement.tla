----------------------------- MODULE Settlement -----------------------------
(***************************************************************************)
(* settlement_service reading engine.outputs: it checks the hash chain,    *)
(* writes what it accepts to engine_output_log (the source of truth, SOT), *)
(* one partition per symbol, and hands it to the writers of the derived    *)
(* tables at the same time.  It never commits an offset, so every start    *)
(* reads the topic from its beginning.                                     *)
(***************************************************************************)
EXTENDS EngineOutput

CONSTANTS
    MaxReceived   \* outputs per batch (MAX_BATCH_SIZE)

ASSUME SettlementAssumption == MaxReceived \in Nat \ {0}

VARIABLES
    read,       \* outputs received since the service started
    lastSeq,    \* last_seq and
    chainHash,  \* last_hash of the verified chain
    verified,   \* outputs of the batch in hand
    writing,    \* symbols whose partition of the batch is not written yet
    sending,    \* the batch is not yet handed to the derived writers
    sot,        \* rows of engine_output_log
    derived     \* outputs handed to the derived writers

settlementVars == <<read, lastSeq, chainHash, verified, writing, sending, sot, derived>>

-----------------------------------------------------------------------------
(***************************************************************************)
(* verify_batch, one output at a time, over the chain state [seq, hash]    *)
(* and the outputs accepted so far.                                        *)
(***************************************************************************)

Accept(v, output) ==
    [seq |-> output.seq, hash |-> Hash(output), ok |-> Append(v.ok, output)]

\* Mutant: the link to the last output is not checked.
VerifyUnlinked(v, output) ==
    IF output.seq < v.seq + 1 THEN v ELSE Accept(v, output)

\* an output that was passed is skipped; one that skips others starts the
\* chain anew; the next one must carry the hash of the last
Verify(v, output) ==
    IF \/ output.seq < v.seq + 1
       \/ output.seq = v.seq + 1 /\ output.prev # v.hash
      THEN v ELSE Accept(v, output)

VerifyBatch(batch) ==
    LET upTo[i \in 0..Len(batch)] ==
          IF i = 0 THEN [seq |-> lastSeq, hash |-> chainHash, ok |-> <<>>]
          ELSE Verify(upTo[i - 1], batch[i])
    IN  upTo[Len(batch)]

-----------------------------------------------------------------------------
Idle == writing = {} /\ ~sending

\* receive a batch and verify it; the chain state advances before any write
Receive(n) ==
    /\ Idle
    /\ read + n <= Len(outputs)
    /\ read' = read + n
    /\ LET v == VerifyBatch(SubSeq(outputs, read + 1, read + n))
       IN  /\ lastSeq' = v.seq
           /\ chainHash' = v.hash
           /\ verified' = v.ok
           /\ writing' = {output.symbol : output \in Range(v.ok)}
           /\ sending' = (v.ok # <<>>)
    /\ UNCHANGED <<outputs, sot, derived, faults>>

Shard(s) == {output \in Range(verified) : output.symbol = s}

\* INSERT by (symbol_id, output_seq): a row with the same key is replaced
Upsert(rows) ==
    {r \in sot : \A x \in rows : <<x.symbol, x.seq>> # <<r.symbol, r.seq>>} \cup rows

\* Mutant: only the newest output of a partition is written.
WriteShardLast(s) ==
    /\ s \in writing
    /\ writing' = writing \ {s}
    /\ sot' = Upsert({x \in Shard(s) : \A y \in Shard(s) : y.seq <= x.seq})
    /\ UNCHANGED <<outputs, read, lastSeq, chainHash, verified, sending, derived, faults>>

\* write_sot_parallel: one batch statement per partition
WriteShard(s) ==
    /\ s \in writing
    /\ writing' = writing \ {s}
    /\ sot' = Upsert(Shard(s))
    /\ UNCHANGED <<outputs, read, lastSeq, chainHash, verified, sending, derived, faults>>

\* the write is logged as failed and never repeated
WriteFails(s) ==
    /\ s \in writing
    /\ Fault("sot")
    /\ writing' = writing \ {s}
    /\ UNCHANGED <<outputs, read, lastSeq, chainHash, verified, sending, sot, derived>>

\* dispatch_to_writers
Dispatch ==
    /\ sending
    /\ sending' = FALSE
    /\ derived' = derived \cup Range(verified)
    /\ UNCHANGED <<outputs, read, lastSeq, chainHash, verified, writing, sot, faults>>

\* get_chain_state: the newest row of the partition of symbol 0
Recovered ==
    LET rows == {r \in sot : r.symbol = 0}
    IN  IF rows = {} THEN [seq |-> 0, hash |-> GenesisHash]
        ELSE LET r == CHOOSE x \in rows : \A y \in rows : y.seq <= x.seq
             IN  [seq |-> r.seq, hash |-> Hash(r)]

\* what load_chain_state may return: that, or a fresh chain if the query fails
LoadedStates == {Recovered, [seq |-> 0, hash |-> GenesisHash]}

\* the service dies and starts again from the beginning of the topic
Stop ==
    /\ Fault("stop")
    /\ read' = 0
    /\ \E chain \in LoadedStates : lastSeq' = chain.seq /\ chainHash' = chain.hash
    /\ verified' = <<>> /\ writing' = {} /\ sending' = FALSE
    /\ UNCHANGED <<outputs, sot, derived>>

SettlementInit ==
    /\ read = 0
    /\ lastSeq = 0 /\ chainHash = GenesisHash
    /\ verified = <<>> /\ writing = {} /\ sending = FALSE
    /\ sot = {} /\ derived = {}

SettlementNext ==
    \/ \E n \in 1..MaxReceived : Receive(n)
    \/ \E s \in Symbol : WriteShard(s) \/ WriteFails(s)
    \/ Dispatch
    \/ Stop

-----------------------------------------------------------------------------
SettlementTypeOK ==
    /\ read \in 0..Len(outputs)
    /\ lastSeq \in Nat /\ chainHash \in Chain
    /\ verified \in Seq(Output)
    /\ writing \subseteq Symbol /\ sending \in BOOLEAN
    /\ sot \subseteq Output /\ derived \subseteq Output

\* The source of truth never joins two histories: of two rows with consecutive
\* numbers the second carries the hash of the first, whatever engine restarts,
\* lost outputs, repeated outputs and restarts of the service lie between.
SotLinked ==
    \A a, b \in sot : b.seq = a.seq + 1 => b.prev = Hash(a)

\* in the source of truth, or about to be written
InSot(output) ==
    output \in sot \/ (output \in Range(verified) /\ output.symbol \in writing)

\* with the derived writers, or about to be sent to them
InDerived(output) ==
    output \in derived \/ (output \in Range(verified) /\ sending)

PassedIsSettled == \A i \in 1..read : InSot(outputs[i]) /\ InDerived(outputs[i])
=============================================================================
