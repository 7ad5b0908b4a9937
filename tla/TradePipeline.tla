--------------------------- MODULE TradePipeline ---------------------------
(***************************************************************************)
(* The matching engine server and the settlement service, joined by the    *)
(* topic engine.outputs.                                                   *)
(***************************************************************************)
EXTENDS EngineServer, Settlement

vars == <<serverVars, settlementVars>>

Init == ServerInit /\ SettlementInit

Next ==
    \/ ServerNext /\ UNCHANGED settlementVars
    \/ SettlementNext /\ UNCHANGED <<topic, committed, memory>>

Spec == Init /\ [][Next]_vars

-----------------------------------------------------------------------------
\* The type invariant.
TypeOK == ServerTypeOK /\ SettlementTypeOK

\* As long as neither service dies and every write succeeds, nothing the
\* settlement service passes over is missing: what it skips, such as the outputs
\* a reused slot of the ring sends again, was settled before.
SettledWhileUp == Faults = 0 => PassedIsSettled

\* settlement_service.rs: "Skip if already processed (idempotency)".  When all
\* that went wrong is that the service died and recovered its chain state, the
\* outputs it passes are in the source of truth or about to be written there.
RecoveryKeepsSot ==
    Faults = faults["stop"] => \A i \in 1..read : InSot(outputs[i])
=============================================================================
