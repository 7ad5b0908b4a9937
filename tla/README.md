# A TLA+ model of the exchange backend

This directory specifies the core of the trading backend in `src/`: internal
transfers, the Aeron request/response channel, UBSCore and its services, the
gateway's order and transfer paths, the matching engine, the settlement
pipeline, the order history tables and the global ledger. The modules are
translated from the Rust source and model-checked with TLC on small instances;
the invariants of transfers (over the contract and over the production
adapters), of the channel, of UBSCore, of its service and the flow of funds, of
the order book, of the engine-settlement pipeline and of the global ledger are
proved with TLAPS for every value of the constants. `PROJECT.json` maps every definition to the
lines it models, lists the runs, and lists the places of the code that are hard
to test ("hazards") with the properties that watch them.

Paths below are relative to the crate (`src/src/...` of the repository).

## 1. The system

```
 client --HTTP--> gateway_service --Aeron--> ubscore_aeron_service (UBSCore)
    |                |      \--Kafka: balance.operations-->|   |
    |                |                                     |   | Kafka: validated orders
    |                |            Kafka: balance.events <--+   v
 client --HTTP--> internal_transfer_service           matching_engine_server
                     |  \--Aeron--> UBSCore    |               | Kafka: engine.outputs
                     v                         v               v
          TigerBeetle, ScyllaDB           settlement_service --> ScyllaDB (balance_ledger,
                                          order_history_service   engine_output_log, orders, trades)
```

| Component | Source | State | Operations | Modules |
|---|---|---|---|---|
| Transfer coordinator | `transfer/coordinator.rs`, `state.rs`, `db.rs` | the `transfers` table | `create`, `step` and the `step_*` functions | `TransferCoordinator`, `Transfer` |
| Transfer worker, HTTP handlers | `transfer/worker.rs`, `bin/internal_transfer_service.rs`, `gateway.rs` | bounded queue, scan result, running tasks | `process_now`, `run_one_cycle`, `scan_stale_transfers`, the handler of both servers | `TransferCoordinator` |
| Service adapters | `transfer/adapters/*.rs` | what Funding (TigerBeetle) and Trading (UBSCore, or TigerBeetle) have done | `withdraw`, `deposit`, `commit`, `rollback` | `Transfer` (contract), `TransferServices` (production) |
| Aeron channel | `ubs_core/comm/aeron_channel.rs`, `bin/ubscore_aeron_service.rs` | correlation ids, registrations, the poll thread's map | `send_and_receive`, poll loop, reply | `AeronChannel` |
| UBSCore | `ubs_core/core.rs`, `dedup.rs`, `order.rs`, `risk.rs`, `debt.rs` | balances, debts, deduplication cache and watermark | `process_order_durable`, `on_deposit`, `on_withdraw`, `apply_balance_delta`, `unlock_funds`, `settle_trade` | `UbsCore` |
| UBSCore's logs | `ubs_core/wal/group_commit.rs`, `mmap_wal.rs` | buffer, file; mapped file, cursor | `append`, `flush`, `open` | `UbsCore`, `UbsService` |
| UBSCore service | `bin/ubscore_aeron_service.rs`, `ubs_core/comm/ubscore_handler.rs` | the batch under way, consumer offsets | collect, validate, log, flush, forward, answer, consume balance operations | `UbsService`, `Funds` |
| Gateway | `gateway.rs`, `bin/gateway_service.rs` | simulated funding account, requests in flight | `create_order`, `cancel_order`, `transfer_in`, `transfer_out`, queries | `UbsService`, `Funds`, `History` |
| Order book, engine | `matching_engine_base.rs` | bids, asks, index of active orders | place, match, rest, cancel, and their balance events | `MatchingEngine` |
| Engine server | `bin/matching_engine_server.rs` | disruptor ring, deduplicator, output sequence, Kafka offsets | poll, match, publish, restart | `EngineServer` |
| Engine output | `engine_output.rs` | the hash chain | hash, link | `EngineOutput` |
| Settlement | `bin/settlement_service.rs`, `db/settlement_db.rs` | chain state, `engine_output_log`, the writers' channels, derived tables | `verify_batch`, `write_sot_parallel`, `dispatch_to_writers`, the balance, trade and order writers, `get_chain_state` | `Settlement`, `TradePipeline`, `Funds`, `History` |
| Order history | `bin/order_history_service.rs`, `db/order_history_db.rs` | `active_orders`, `order_history`, user statistics | `process_order_update`, `process_trade_fill` | `History` |
| Global ledger | `ledger.rs`, `enforced_balance.rs`, `user_account.rs` | accounts, log segments, snapshots | `apply`, `commit_batch`, `trigger_snapshot`, `new` | `Accounts`, `Ledger` |

What is hard in each of them:

* **Transfers.** The HTTP handler's `process_now` and the workers of all
  processes step the same row at the same time, with a database statement or a
  remote call at every `.await`; the result of the last update is ignored; an
  answer may be lost after its operation took effect; processes die anywhere.
  Correct means: no money is made or lost, a client is not told a success that
  did not happen, and every transfer ends.
* **Aeron channel.** Callers, a poll thread and a server run concurrently;
  answers come late, are lost, or arrive before the registration; several
  channels, two of them in the gateway, share one response stream. Correct
  means: a caller gets the answer to its own request, which holds among the
  requests of one channel only (section 5).
* **UBSCore.** A single thread, but it ends between locking funds, appending,
  flushing and queueing; clients repeat orders; the cache has a limit; costs
  may exceed 64 bits and balances the range of an i64; unlocks, settlements and debts draw on one frozen sum.
  Correct means: an accepted order is durable and paid for while it is open,
  and no money appears or vanishes.
* **UBSCore service and gateway.** Orders and cancels are handled in batches
  with one flush, over a log that fills up, refuses or is lost with the
  machine; balance operations come from another topic; two consumers commit
  offsets on their own clock; the gateway and settlement write the same table.
  Correct means: what is accepted is logged, a cancel does not overtake its
  order, and every difference between money paid in and money held is accounted
  for.
* **Order book.** Long sequences of orders, partial fills and cancels. Correct
  means: price-time priority, an index that agrees with the book, and balance
  events that freeze exactly what open orders need.
* **Engine server and settlement.** Three threads around a ring, offsets that
  are committed later, two services that restart independently, several
  partitions written at once. Correct means: no order is lost or executed
  twice, and the source of truth is one unbroken history.
* **Order history.** Five statements per update, each of which may fail;
  writers that update the rows of a batch in parallel. Correct means: the
  tables agree with each other at all times and with the engine once they have
  caught up.
* **Global ledger.** A log in segments that are rotated, deleted and resumed,
  snapshots by background threads, crashes between any two steps. Correct
  means: it comes up on a prefix of what it accepted, or not at all.

Parts that are not modelled, and why, are in section 8.

## 2. Modules

| Module | Extends | What it is |
|---|---|---|
| `TransferCoordinator` | – | coordinator, table, handler, workers; service calls left open |
| `Transfer` | `TransferCoordinator` | over services that keep the contract of `traits.rs` |
| `AtomicTransfer` | – | abstract specification: an amount that moves once, in one of three outcomes |
| `TransferProofs` | `Transfer`, TLAPS | proofs |
| `TransferServices` | `TransferCoordinator` | over TigerBeetle and UBSCore as the production adapters use them |
| `TransferServicesProofs` | `TransferServices`, `AeronChannel`, TLAPS | proofs of the adapters and of the channel they use |
| `AeronChannel` | – | channels with their callers and poll threads, the answering server |
| `UbsCore` | – | UBSCore with `GroupCommitWal` |
| `UbsCoreProofs` | `UbsCore`, `SumTheorems` | proofs |
| `Accounts` | – | balances and what every `LedgerCommand` does to them (no state) |
| `Ledger` | `Accounts` | `GlobalLedger` with its rolling log and snapshots |
| `LedgerProofs` | `Ledger`, `SumTheorems` | proofs |
| `UbsService` | `Accounts` | gateway order path, service loop, batch handler, `MmapWal` |
| `Funds` | `UbsService` | composed with transfers in and out, both topics and the balance writer |
| `FundsProofs` | `Funds`, `SumTheorems` | proofs |
| `MatchingEngine` | – | order book and balance events |
| `EngineOutput` | – | output bundles, hash chain, the topic between the services |
| `EngineServer` | `EngineOutput` | engine server |
| `Settlement` | `EngineOutput` | settlement service up to the derived writers |
| `TradePipeline` | `EngineServer`, `Settlement` | the two composed over `engine.outputs` |
| `TradePipelineProofs` | `TradePipeline`, `MatchingEngine`, `SumTheorems` | proofs of the two services and of the order book the engine server runs |
| `History` | – | order history service; settlement's trade and order writers; the queries on their tables |
| `HistoryProofs` | `History`, `SumTheorems` | proofs |
| `SumTheorems` | TLAPS | sums over finite sets, extremes of finite sets of numbers, induction over subsets and up to a bound |
| `MC*` | each of the above | instances for TLC |

### Transfer

`proc[p]` is the async task of process `p`: the handler of transfer `t` is
process `t`, the background workers are `Workers`. Its `pc` walks through
`step()`: `get` (read the row), `persist` (the conditional update to the
pending state), `reread` (after a lost race), `call`/`await` (the service
call), `commit`/`finalize` (`finalize_source_commit`), `handle` (the update
with the result) and `retry`. The local variables the code keeps over an
`.await` are `st` (the state it read) and `res` (the result); everything else
is read anew. `StepDbError` is any statement that fails with `?`; an update may
then have been applied or not. `CasAnswers` contains TRUE always, because
`db.rs` takes an applied flag it cannot parse for `true`. `Crash(w)` kills the
OS process of `w`: with `QueueWorker` also every handler and the queue.

In `Transfer` a service decides an operation once, possibly long after its
caller timed out (`ServiceDecides`), and answers every later call alike. In
`TransferServices`, `tb` is TigerBeetle's transfers by id (withdraw creates a
pending transfer, commit and rollback resolve it under the ids `req_id + 1` and
`req_id + 2`), `avail`, `debits` and `credits` are UBSCore's, and `late` are
messages whose sender gave up. A call ends with its own answer
(`CallAnswered`) or with whatever answer another channel's request of the same
number got (`CallMisanswered`, at most `MaxForeign` times); `misled` remembers
the transfers this happened to, and `dropped` those whose commit call was given
up. Each process takes one Trading adapter at its
start, `UbsTradingAdapter` or `TbTradingAdapter`, and a restart may take the
other, as `main()` does; `tbTrading` is what the second one does in TigerBeetle.

`AtomicTransfer` says what a transfer promises. The refinement mapping keeps
the terminal states and calls all others `open`; the place of the money follows
from what the services decided.

### Aeron channel

`Channels` are the `AeronChannel`s on one response stream: the transfer service
opens one, and the gateway two (`bin/gateway_service.rs:93` and `:154`). A
`send_and_receive` takes the next number of its channel, registers it with
the poll thread over a bounded channel, publishes, and waits until its answer
or its timeout. The server puts an answer on the stream all channels subscribe
to, or loses it (its `offer` is not checked). The poll thread alternates
between draining registrations and polling.

### UBSCore

`process_order_durable` in three steps (validate, lock and append; flush;
queue and return Ok), so that the process may end between them. `TooOld`,
`FutureTimestamp` and `Duplicate` are the checks of `check_and_record`;
`Record` its eviction, which removes the entry inserted last and raises the
watermark. `apply_balance_delta` may leave a user in debt; later deposits pay
the debt first (`pay_debt`). It casts the balance to an i64 (`AsI64`), so a
balance beyond i64::MAX counts as negative: all of it goes and a debt is
recorded. `wraps` counts how often that happened. `Unlock` and `settle_trade` close orders that were
accepted and are open; `StillOpen` counts an order as often as it was accepted.
`Restart` empties everything but the file. The module models the library with
one symbol registered; the services that embed it are in `UbsService`.

### UBSCore service and funds

`UbsService` is the loop of `ubscore_aeron_service`: `Collect` polls up to
`POLL_LIMIT` messages, every message is validated and appended in order
(cancels are forwarded at once), `FlushBatch` flushes once, `forward_to_kafka`
forwards the accepted orders and `Respond` answers one by one. `image` is the mapped file as the process sees it, `disk`
what a power loss leaves; `ProcessEnds` keeps the image, `PowerLoss` goes back
to the disk. A reopened log starts at its beginning, as `find_cursor` makes it.
Clients time out; one that got its answer knows the order's id and may cancel.

`Funds` adds the gateway's `transfer_in` (lock, publish, spend) and
`transfer_out` (publish, read the row, append a row, credit), the consumer of
`balance.operations`, the events it publishes, and settlement's consumer and
balance writer with its bounded channel. `opsCommitted` and `evCommitted` lag
behind the positions, so that a restart reads again. A row of `balance_ledger`
remembers the event it came from, or that `transfer_out` or the engine made it.
`WriteEngineRow` is the row of a balance event in an engine output: the engine
runs with the null ledger, which reports version 0 and u64::MAX for everything,
so these rows are numbered from 1, below every clock value, and their balances
mean nothing. `stranded` are the orders whose funds UBSCore locked and whose
log entry was refused.

### Matching engine

`Place` is `process_order_with_output` up to the loop, `Match` one turn of the
loop, `Rest` and `Filled` its two ends, `Cancel` is `cancel_order`. `api` says
which entry the caller uses: `add_order_and_build_output`, or `add_order` and
`add_order_batch`, which emit no balance events for placing and trading. The
engine keeps no balances; `avail` and `frozen` sum the deltas of the events it
emits. Nothing interrupts the loop: the steps are apart because the properties
speak about single trades; no other action is enabled while `taker` is set.

### Engine server and settlement

`Poll` reads a batch and publishes one event on the ring; `MatchOrder` and
`MatchDone` are the matcher; `PublishOutput` and `PublishDone` the publisher. A
slot of the ring keeps its outputs when the next event in it produces none, as
in the code. A hash is modelled as the history it covers, so that hashes do not
collide. `Receive` is one turn of the settlement loop (`verify_batch` included);
`WriteShard` one partition's write of `write_sot_parallel`, `Dispatch` the
hand-over to the derived writers, which runs at the same time; `Stop` a restart,
which recovers the chain state with `get_chain_state` or, when that fails,
begins at the genesis hash (`LoadedStates`).

### Order history

The engine is reduced to which orders are open and what is left of them;
`reader` is the process that is deployed. For `order_history_service` one
message is one action (it handles one at a time), with the statement that fails,
if any, chosen by `\E`. For the settlement service `TrackOrder` writes
`active_orders` and `order_lookup`, then the updates of the batch run in
parallel, one statement per `UpdateStep`; reading and writing the statistics
are two of them. `get_active_orders` and `get_trade_history` are what the
gateway makes of the tables. Two conversions on the way are modelled by what
they do: `get_symbol_id_from_assets` gives a trade the id it is written under,
`get_symbol_id` the one it is asked for with; `as_u8` encodes a side,
`SideShown` decodes it.

### Global ledger

`GlobalLedger` is library code: in this commit only tests create one, and the
engine server runs with the null ledger. `Apply` logs a command, then executes it; `ApplyRefused` and `ApplyPanics` are
its failures, which leave the record in the log; the append may rotate the
segment first (`Rotates`). `BatchValidated`, `BatchAppend`
and `BatchCommit` are `commit_batch`: the shadow ledger, one append per command,
the delta. A segment is the records a replay reaches and the place of its
cursor: `open_existing` counts the sequence number of each record twice, so the
cursor of a resumed segment is behind a gap or inside a record. `Open` is
`GlobalLedger::new`: the latest snapshot, then `replay_iter` from the segment
that covers it.

## 3. Runs

| Run | Expect | What it shows |
|---|---|---|
| `race` | pass | a handler and a worker on one transfer, lost answers, late decisions and two crashes: `MoneyConserved`, `PersistBeforeCall`, `ToldTruthfully`, `FollowsFsm`, refinement of `AtomicTransfer`; under fairness every created transfer ends (`EveryTransferEnds`) |
| `services` | pass | production adapters with lost, late, repeated and crossed answers: no credit or commit without a debit, but for a transfer that was handed another request's answer (`CreditFollowsDebit`); a committed transfer is posted unless its commit call was given up or its posting id was taken (`CommittedIsPosted`) |
| `double_credit` | violation | `CreditedOnce`: a deposit whose answer is lost is applied again |
| `stuck` | violation | `EveryTransferEnds`: TigerBeetle's "exists" is taken for Pending for ever |
| `channel` | pass | two channels on one stream, two requests each: `AnsweredById` |
| `book` | pass | `NeverCrossed`, `BookIndexed`, `FrozenIsBacked`, `PriceTimePriority`, through both entries of the engine |
| `pipeline` | pass | crashes of either service, refused outputs, failed writes: `AtLeastOnce`, `ExecutedOnce`, `SotLinked`, `SettledWhileUp` |
| `recovery` | violation | `RecoveryKeepsSot`: the service recovers past an output it never wrote |
| `ubscore` | pass | orders, deposits, withdrawals, charges, unlocks and settlements with faults: `AcceptedIsOnDisk`, `AcceptedIsCovered`, `ForgottenAreOld` |
| `ledger` | pass | crashes, rotations, deletions, late snapshot threads, refused and half-done calls: `OpensOnHistory`, `MoneyConserved`, `FirstRestartKeepsAll`, `LatestSnapshotKept` |
| `funds` | pass | orders, cancels and transfers in and out, a log that fills, failed flushes, publications and statements, restarts of both services: `AcceptedIsLogged`, `CancelFollowsOrder`, `MoneyAccounted`, `LedgerInOrder` |
| `history` | pass | either reader, failing statements, lost messages, racing updates: `HistoryNotAhead`, `MirrorsEngine`, `DerivedComplete` |

Every passing run also checks the module's type invariant (`TypeOK`;
`ChannelTypeOK` and `BookTypeOK` in the channel and the book). Operators marked "Mutant"
are wrong variants of the definition that follows them; `PROJECT.json` says
which property each one must break. No definition uses them.

Several properties say exactly how far the code keeps a promise, with its known
exceptions spelled out: `MoneyAccounted` lists the four cases in which money
is made or stranded, the orders whose log entry was refused among them;
`CreditFollowsDebit` excludes the transfers that got another request's answer;
`AcceptedIsCovered` takes off 2^64 for every wrapped balance;
`FirstRestartKeepsAll` excludes segments of equal number, `OpensOnHistory`
calls that failed half way; `DerivedComplete` says under which id trades are
shown and bounds what may be listed beyond the open orders. They would fail if
the code lost money, commands or rows in any other way; that the exceptions
do occur is shown in section 5.

### Bounds and why they are enough

* `race`: transfers do not share state except the queue and the workers' time,
  so one transfer exercises every race on a row; the handler and a worker are
  two concurrent writers. Two crashes at any point, so that the restarted
  worker may die as well. `DepositMayFail = {"trading"}`: a deposit to Funding
  fails for technical reasons only, which is a timeout. The proofs cover any
  number of transfers, workers and crashes and any `DepositMayFail`.
* `services`: one lost answer, one crossed answer and one crash in any
  combination; `MaxApplied = 2` is the first number that tells "once" from
  "more than once"; both adapters. `frozen` has two transfers with consecutive
  ids; `stuck` needs neither a crash nor a lost message, only a statement that
  fails.
* `channel`: two channels with two requests each, so that an early, a late and
  a current answer and the other channel's all meet; the registration channel
  is smaller than the number of requests so that it fills. Symmetric in the
  channels.
* `book`: three ids, two users, two prices, quantities up to two, four orders
  placed, any cancels: a level with two makers, a partial fill, a trade across
  two levels, an id that is used again. Symmetric in ids and users.
* `pipeline`: every topic of three messages over two orders and one message
  that does not parse, batches of up to two, a ring of two slots (it fills and
  is reused), two faults of any kind. The deduplicator's memory holds the two
  orders. `recovery` needs three distinct orders and a single restart.
* `ubscore`: two users, three orders, two of one tick, one whose cost exceeds
  64 bits (`MaxU64 = 2`, so i64::MAX is 1 and a balance of 2 wraps); cache of
  one, so the second order evicts; buffer and queue of one; three submissions,
  two faults, debts of up to one unit and one wrapped balance per asset.
  `readmitted` and `wrapped` have a cache of two and four submissions.
* `ledger`: a batch that funds and locks both sides, a trade with a refund, a
  deposit that makes the trade overflow (`MaxU64 = 2`), a batch of trades whose
  second is refused, two `commit_batch` calls; four commands accepted, three
  crashes, snapshots or failures, two rotations with two segments kept: enough
  for a deleted segment, a resumed one and two snapshot threads.
* `funds`: one user, two orders, one transfer each way, of which clients ask
  for two in a behaviour; a log with room for one of the two orders, batches of
  up to two messages, one restart or failed flush, one failed publication or
  write, a clock of two values so that events may or may not share a
  millisecond; it starts above the numbers of the engine's rows.
* `history`: three orders of two users; one of alice's meets bob's and may meet
  her own; batches of two outputs, one fault. All are of BTC_USDT; the proof
  covers orders of either symbol.

The largest instances have about 4.5 million (`channel`, `funds`) and 1.7
million (`pipeline`, `ledger`) distinct states.

Deadlock is not checked where the model stops because a bound is used up and
the program would merely be idle: `book`, `pipeline`, `ubscore`, `ledger`,
`funds`, `history` and the violated configurations of these modules.

### Fairness

`race` and `stuck` use `FairSpec`. Weak fairness of each task's steps: tokio
runs every ready task, and a call ends by its answer or by its timeout. Weak
fairness of `ServiceDecides`: a service that received an operation decides it.
Strong fairness for the workers' database steps, their answered calls and their
scans: the workers retry without limit, so the assumption is only that a
statement or call repeated for ever does not fail for ever, and that an open row
becomes stale and is eventually returned by `find_stale`. Handlers get no
strong fairness: a handler may die or answer at its deadline. Clients and
crashes get none. `stuck` is violated under this fairness, so it is not an
artefact of a task that stops.

## 4. Proofs

Every theorem holds for all values of the constants that satisfy the named
assumption of the module that declares them; TLC evaluates these assumptions on
the instances. Bounds such as `MaxCrashes`, `MaxFaults` or `MaxMessages` are
arbitrary numbers in the proofs. None of the invariants of the runs is
inductive as it stands; what had to be added is where the argument is.

### TransferProofs

For every set of transfers and workers, every queue capacity and
`DepositMayFail` (`TransferAssumption`, `DepositAssumption`):

* `TypeCorrect`: `Spec => []TypeOK`
* `Conservation`: `Spec => []MoneyConserved`
* `PersistedFirst`: `Spec => []PersistBeforeCall`
* `ToldTheTruth`: `Spec => []ToldTruthfully`
* `FsmFollowed`: `Spec => FollowsFsm`, an action property
* `Refinement`: `Spec => ImplementsAtomic`, the abstract specification

A task acts on what it read before other tasks wrote the row, so the invariant
must bound how stale its view can be. `IndInv` has four parts: `TypeOK`;
`WiringInv` (a handler works on its own transfer, and what is queued or scanned
has a row); `RowInv(t)`, which ties the row to the services' decisions (a row
past `source_done` has its withdraw decided ok, a compensating one has a failed
deposit, and so on); and `TaskInv(p)`, which says that the row is still in
`After(s)` for the state `s` the task read, and that a result the task holds is
the decision the service made. `After(s)` is what the row may be once it was
`s`. The central lemmas: a conditional update from `Expected(s)` moves a row
only forward within `After`, and a row that moves forward keeps every other
task's `TaskInv` (`TaskFrame`). The proof of the step has one lemma per action
or group of like actions. `IndInvHolds` is the theorem `Spec => []IndInv` from
which the others follow: an update goes along an edge of the state machine
because the row still is what the task read, and a step of the coordinator is a
step or a stutter of `AtomicTransfer` because the place of the money is a
function of decisions that `RowInv` ties to the row.

### TransferServicesProofs

For any number of transfers and workers, any opening balance, and any number of
crashes, lost answers and repetitions (`TransferAssumption`,
`ServicesAssumption`):

* `TypeCorrect`: `Spec => []TypeOK`, with UBSCore's balance never below zero
* `NoCreditAlone`: `Spec => []CreditFollowsDebit`
* `CommitsArePosted`: `Spec => []CommittedIsPosted`, for transfers with any ids
* `NeverRollsBack`: the row of no transfer outside `misled` is ever
  `compensating` or `rolled_back`

Here the services forget: a repeated withdraw or deposit is applied again, and a
message nobody waits for may arrive at any later time. The invariant therefore
speaks of what has happened at least once (`Debited`, `Credited`) and never of
what an operation's one decision was. A caller may also be handed the answer to
another channel's request, after which nothing but types can be said of its
transfer: `RowInv` and `TaskInv` are claimed for the transfers outside `misled`,
and the proof shows that a misled one does not spoil the others, whose services
and ids it shares. `RowInv` ties it to the row, `TaskInv`
bounds how stale a task's view is (as in `TransferProofs`) and says that the
answer a task holds or is about to get is true of the services (`Tells`), and
`LateInv` says that a deposit or commit nobody waits for was sent after a
debit. That the row never compensates is part of the invariant and not a
consequence of it: UBSCore applies every deposit it reads and the adapters turn
TigerBeetle's errors into Pending, so no deposit is ever answered Failed, and
only a failed deposit starts a compensation. Posting takes the id `req_id + 1`,
which may be another transfer's: then either the posting finds it taken, and
the committed transfer stays pending in TigerBeetle, or the other transfer does.
`CommittedIsPosted` says that this is the only alternative to a posted transfer
when the commit call was not given up.

For the channel, whose proofs are in the same module, and any number of channels
on one stream, requests and any registration capacity (`ChannelAssumption`):

* `ChannelTypeCorrect`: `ChannelSpec => []ChannelTypeOK`
* `AnswersCarryTheId`: `ChannelSpec => []AnsweredById`

A caller is thus never handed another answer of its own channel; the answers
that do get crossed are those of other channels' requests of the same number
(`crosstalk`). The invariant (`ChannelIndInv`) says that within a channel ids
are distinct and bounded by the counter, that a
registration or an entry belongs to the request that has its id, and that an
answer in flight is for a request that was published.

### UbsCoreProofs

For any finite sets of users and orders, capacities and `MaxU64`
(`UbsAssumption`):

* `DurableBeforeOk`: `Spec => []AcceptedIsOnDisk`
* `WatermarkCovers`: `Spec => []ForgottenAreOld`
* `TypeCorrect`: `Spec => []TypeOK`; all balances of an asset together fit into
  a u64
* `OpenOrdersCovered`: `Spec => []AcceptedIsCovered`; balances less debts are
  `Booked`, what was paid in less what was taken out, less 2^64 for every
  balance that `apply_balance_delta` took beyond i64::MAX

For the first two the strengthening is `AtWorkIsLogged`: between append and
flush the order at work is in the buffer, between flush and Ok it is in the
file. The watermark proof needs that an eviction loses only the last entry of
the cache (`RangeFront`) and raises the watermark at least to its timestamp
(`MaxOfTwo`). For the money it is `MoneyInv`: the sums over users (`Balanced`),
the sum over a user's open orders with the one at work on top (`Covered`), and
no order closed more often than it was accepted (`Counted`). Without the order
at work `Covered` is not kept by `process_order_durable`, which locks the funds
two steps before it accepts.

### TradePipelineProofs

For any topic, ring, batch and memory size and any number of crashes, refused
outputs and failed writes (`OutputAssumption`, `ServerAssumption`,
`SettlementAssumption`):

* `TypeCorrect`: `Spec => []TypeOK`
* `RowsLinked`: `Spec => []SotLinked`
* `NoDoubleExecution`: `Spec => []ExecutedOnce`
* `NoOrderLost`: `Spec => []AtLeastOnce`
* `NothingMissing`: `Spec => []SettledWhileUp`

`RowsLinked` rests on the history of the topic: `Canon(s)` is what
`verify_batch` makes of the outputs `s` from genesis on, whoever published them.
A settlement service that has read `n` outputs stands on this history at `n` or
later (`Follows`); it is later after a restart that recovered a newer chain
state, and at the beginning after one that could not read it (`FreshFollows`);
it then passes what it reads until the two meet (`FollowsStep`). Every
row it writes is a row of the one history, which is linked. For `ExecutedOnce`
the deduplicator's queue and the chain are tied by distance (`Remembered`): the
order with number `k` is `outputSeq - k` places from the end of the queue, as
long as the queue reaches that far. For `AtLeastOnce` the invariant `AllSafe`
follows a message through read, queued, matched, sent and committed, and says
at each stage where its output is. `NothingMissing` needs most: as long as
nothing fails, the outputs of the engine are one chain without a gap, including
those still waiting in slots of the ring and those that a reused slot sends
again (`ChainInv`), so that the history accepts every new one and the service
stands exactly where the history stands (`SettledInv`).

For the order book, whose proofs are in the same module, and any finite sets of
order ids, users and prices and any quantities (`EngineAssumption`):

* `BookTypeCorrect`: `BookSpec => []BookTypeOK`
* `IndexFindsOrders`: `BookSpec => []BookIndexed`
* `BookNotCrossed`: `BookSpec => []NeverCrossed`
* `PriorityKept`: `BookSpec => PriceTimePriority`, an action property
* `EventsBalance`: `BookSpec => []FrozenIsBacked`

`NeverCrossed` speaks of the book between orders; `BookInv` needs that the book
is not crossed while an order is being matched either (`NotCrossed`): the taker
is not on the book, and rests only when no price on the other side meets its
own. `EventsBalance` adds up, per user and asset, what the orders need; a trade
changes two of the terms, and `SumTheorems` says by how much the sum changes.

### FundsProofs

For any finite sets of users and requests, any orders, batch and log sizes, any
capacity of the writer's channel and any number of restarts, failed flushes,
publications and writes (`AccountsAssumption`, `ServiceAssumption`,
`FundsAssumption`):

* `TypeCorrect`: `Spec => []TypeOK`
* `AcceptedAreLogged`: `Spec => []AcceptedIsLogged`
* `CancelAfterOrder`: `Spec => []CancelFollowsOrder`
* `TableInOrder`: `Spec => []LedgerInOrder`
* `MoneyIsAccounted`: `SupplyFits` implies `Spec => []MoneyAccounted`
* `FrozenIsHeld`: `Spec => []HeldInv`; what is frozen is exactly what orders
  hold

`AcceptedIsLogged` speaks of orders with a verdict, which they get two steps
after they were logged; `LogInv` says the same of pending results before the
flush, and of the disk after it. `CancelFollowsOrder` needs the way of an order
(`Travels`): it is at most once in subscription, batch and results together,
its client hears of it only when it has been forwarded, and there is no cancel
before that. `TableInOrder` follows from `RowsInv`: every row of UBSCore's is
the row of an event that was written no later than the last one, rows that
`transfer_out` appends never replace one, and the engine's are numbered below
every clock value, as are those numbered after them (`Launch`); the times of events do not decrease
along the topic (`EventsInv`). Both consumers may read again from any offset
they committed; `UpsertBatch` then writes old events over, which `BatchFacts`
shows harmless for the newest row.

`MoneyAccounted` speaks of rest only, when every handler has ended and every
operation was consumed. `MoneyInv` is the equation for every state: `Gained(t)`
is what request `t` has added so far to the money that can be spent, from the
stage of its handler and what UBSCore did with it, and `Reserved(t)` what it
holds locked. That UBSCore treats a request once while it is up is in `OpsInv`;
`GainedAtRest` then reads off the three gaps of the transfers. The fourth is in
what UBSCore holds frozen: `HeldInv` follows each order from its lock through
the batch and says for which orders funds are held (accepted, pending in the
batch, or `stranded` by a full log), so that at rest the frozen sum splits into
the cost of accepted orders and that of stranded ones. `SupplyFits` (all that is there
at first and all that requests move fits in a u64) is needed: beyond it
`deposit` refuses, `transfer_out` ignores the refusal, and `lock` takes from
one part of a balance what it cannot add to the other. The instance of `funds`
satisfies it.

### LedgerProofs

For any finite set of users, any commands and batches, any retention of
segments and snapshots and any number of crashes, rotations and refusals
(`AccountsAssumption`, `LedgerAssumption`):

* `LedgerTypeCorrect`: `Spec => []TypeOK`
* `OpensOnAcceptedHistory`: `Spec => []OpensOnHistory`
* `FirstRestartLosesNothing`: `Spec => []FirstRestartKeepsAll`
* `NewestSnapshotStays`: `Spec => LatestSnapshotKept`, an action property
* `MoneyIsConserved`: `Spec => []MoneyConserved`, if no command is a
  `TradeSettle` or holds one

`OpensOnHistory` says nothing of the disk, which decides what the next restart
makes of it. The invariant therefore describes every record that a replay from
the newest snapshot can reach (`RecordsOK`): it is corrupt, or carries the
number and the command of an accepted one, or it is what a refused or panicking
call left, and then it fails again on the accounts it would meet (`RecordOK`).
A record of the last kind may stand in front of, behind or instead of the
accepted one of the same number; in each case the replay takes the accepted
command or ends with an error, never with other accounts (`RecordsSound`,
`SegmentsSound`). Which segments can be reached depends on the newest
snapshot (`Live`): the ones behind the last file whose number is not above
it. Deleting old segments, inserting a new one among the sorted files, writing
through a cursor in the wrong place and a newer snapshot all keep `RecordsOK`
(`CutFacts`, `InsertFacts`, `SegmentAppendFacts`, `RecordsKept`). A restart
forgets the accepted commands behind the last one it could read; that the
records that are left are good for the shorter history needs that the replay
passed every one of them (`RecoveredFacts`, `RecoverableCut`).

Snapshots, written or waiting in a thread, are states along the history
(`SnapshotOK`). A batch under way ends the history as far as it is logged, and
its delta is what the shadow ledger made of it (`BatchInv`); `BatchGoesOn` shows
from there that a command the shadow ledger accepted succeeds again when the
replay meets it. All of this is only claimed while no failed call has left part
of its work behind (`stained`). For `FirstRestartKeepsAll`, `FirstInv` says that
before any restart the last file ends with the last accepted command or a later
record, so that a replay that succeeds has come that far (`FirstReplay`); with
two files of one number the last file need not be the current one.

The money is counted along the history (`HistoryMoney`): every command changes
the total of an asset by what it brings in (`OnMoves`, `ExecMoves`, `EachMoves`),
and the accounts in memory are the state at its end. `TradeSettle` drops its
credit when the balance overflows (`ledger.rs:1010`) and still succeeds, so it
is excluded; the source calls it deprecated and never used in production
(`ledger.rs:57`). The run `ledger` contains one whose credit fits.

`StateAt`, `Recovered`, `ApplyAll` and `Inflow` are folds over sequences. The
first part of the module characterises such a fold by its value on the empty
sequence and its step on one more element (`FoldAppend`, `PrefixInduction`),
which is all the rest uses.

### HistoryProofs

For any finite set of orders with any users, symbols, sides and quantities, any batch
size and channel room and any number of failed statements and restarts
(`HistoryAssumption`):

* `HistoryTypes`: `Spec => []TypeOK`
* `HistoryNeverAhead`: `Spec => []HistoryNotAhead`
* `ServiceMirrorsEngine`: `Spec => []MirrorsEngine`
* `DerivedTablesComplete`: `Spec => []DerivedComplete`

`MirrorsEngine` and `DerivedComplete` speak of a reader that has caught up;
`HistInv` says for every state what the messages on their way still owe to the
tables. `EngineInv` is about the engine's orders and `DbInv` about the rows;
`HistoryNotAhead` is part of `DbInv`, since each statement keeps it on its own
once it is known what a message may say (`WireInv`, `SettledRows`).

For the order history service (`ServiceInv`), the messages about an order come
in the engine's order (`InOrder`), and their fills (`Due`) are what separates
the fills shown from the fills made. `Mirror(o)` is the row that the messages
read so far call for; with an empty wire it is the engine's own. The counters
are the orders that ended and about which no message is left. That a fill finds
its row needs that the `New` of an order is ahead of every fill.

For settlement's writers (`WritersInv`), `Queue` is every output on its way, the
ones at work first. An order is `Untracked`, `Unwritten` or `Uncounted` as long
as its output is there with this part undone. The updates of a batch race for a
user's counters, so the counters are bounded, not determined: `CountersInv`
bounds them by the orders whose output was counted, and bounds by the same
numbers what an update has read and will write back. This holds because an
update writes back what it read plus itself, and it is itself not counted until
then. `WritersShow` places every trade in the topic, in the trade writer's
channel or in the table, and makes the row of a tracked order depend on whether
it was filled on arrival, which is fixed when it is placed; an order that is
open now was not (`OpenLater`). Which rows a query returns depends on the ids
alone: the two symbols are written under different ids, each under the other's
(`IdsDiffer`, `RowsShown`).

### SumTheorems and induction

The provers cannot instantiate the library's induction principles, which take an
operator. The claim is given as a set instead: `SubsetInduction` over the
subsets of a finite set (for what sums do term by term, from minimal
counterexamples of the strict subset ordering) and `UpToInduction` over the
numbers up to a bound (for runs over a sequence, such as `Canon`).

### Only model-checked

* Liveness (`EveryTransferEnds`) and the violated properties.
* `MoneyConserved` of the ledger with a `TradeSettle`.

## 5. Findings

Each is a violated run; `PROJECT.json` quotes the line the code disagrees with.

1. **A repeated deposit is credited twice** (`double_credit`,
   `ubs_core/core.rs:352`). `on_deposit` does not look at the transfer's id.
2. **A transfer whose row was not updated after the deposit never ends**
   (`stuck`, `transfer/adapters/funding.rs:195`). The repeated deposit is
   refused because it exists, which the adapter reports as Pending.
3. **Settlement recovers past an unwritten output** (`recovery`,
   `db/settlement_db.rs:1992`). The chain state is read from one partition.

### Further counterexamples

Where a passing property spells out an exception, a configuration of the same
module shows that the exception occurs: TLC finds the property violated, and
the property is what the quoted line of the repository says. They are kept
beside the runs (`tlc -config crosstalk.cfg MCAeronChannel`); the properties
that hold, and are proved, are those of section 3.

| Configuration | Module | What happens | What is said |
|---|---|---|---|
| `foreign_answer.cfg` | `MCTransferServices` | `SourceConfirmed`: a withdraw is believed from the answer to another channel's request | `transfer/state.rs:22` "Source confirmed debit/freeze" |
| `frozen.cfg` | `MCTransferServices` | `FundsReleased`: two transfers with consecutive ids; the first is committed and its funds stay frozen | `transfer/adapters/funding.rs:201` "release frozen funds" |
| `crosstalk.cfg` | `MCAeronChannel` | `OwnAnswer`: a caller is handed the answer to the other channel's request | `ubs_core/comm/aeron_channel.rs:9` "Caller just sees: send(payload) -> response" |
| `readmitted.cfg` | `MCUbsCore` | `NeverReadmitted`: an evicted order of the watermark's millisecond is accepted again | `ubs_core/dedup.rs:29` "Err if duplicate or too old" |
| `wrapped.cfg` | `MCUbsCore` | `CreditsCauseNoDebt`: a credit beyond i64::MAX zeroes the balance and leaves a debt | `ubs_core/debt.rs:18` "Cannot cause debt (increases balance)" |
| `balance.cfg` | `MCFunds` | `BalanceIsCurrent`: with no failure at all, a transfer out is debited twice in `balance_ledger` | `db/settlement_db.rs:193` "Current balance = latest row with highest seq" |
| `overwrite.cfg` | `MCFunds` | `RowsAreImmutable`: the second operation of a millisecond replaces the row of the first | `db/settlement_db.rs:192` "Each row is immutable" |
| `wrong_symbol.cfg` | `MCHistory` | `OwnSymbolShown`: trades of BTC_USDT are shown under ETH_USDT | `db/settlement_db.rs:769` "trades for a specific user and symbol" |
| `wrong_side.cfg` | `MCHistory` | `SidesAsPlaced`: a buy is shown as a sell, a sell as unknown | `schema/active_orders.cql:13` "0=Buy, 1=Sell" |
| `still_listed.cfg` | `MCHistory` | `OnlyOpenListed`: a resting order that was filled stays listed | `schema/active_orders.cql:2` "Stores currently open orders" |
| `lost_count.cfg` | `MCHistory` | `EveryUpdateCounted`: updates of one batch race for a user's counters | `docs/ORDER_HISTORY_SCHEMA.md:137` "On EVERY `OrderUpdate` event (increment counters)" |

Where they come from:

* Every `AeronChannel` numbers its requests from 1 and reads one response stream
  (`ubs_core/comm/aeron_channel.rs:79`, `:188`); the gateway opens two and the
  transfer service one.
* `commit` posts under `req_id + 1`, the id of the next transfer created in the
  same millisecond (`transfer/adapters/funding.rs:206`); its answer is ignored.
* `check_and_record` lets an id pass whose millisecond is the watermark's
  (`ubs_core/dedup.rs:44`), although ids of that millisecond were evicted.
* `apply_balance_delta` casts the balance to an i64 (`ubs_core/core.rs:308`).
* UBSCore's event and the gateway's own row both take a transfer out off the
  balance in the table (`gateway.rs:298`); the batch of the balance writer
  inserts without `IF NOT EXISTS` (`db/settlement_db.rs:1237`), and its key is a
  millisecond.
* `write_user_trades` gives the assets (1, 2) the symbol 1 and all others 0
  (`db/settlement_db.rs:841`), `SymbolManager` has it the other way round; the
  gateway decodes sides as 0 and 1 (`gateway.rs:805`), `Side` is 1 and 2.
* An output completes the order it is about and not the ones it filled
  (`bin/settlement_service.rs:333`); the updates of a batch read and write a
  user's counters side by side (`db/order_history_db.rs:260`).

## 6. Observations

Behaviour of the code that the models follow, or that was met while reading it,
and that no property forbids.

Transfers:

* `process_now` reports "failed" when the database fails twice in a row
  (`transfer/worker.rs:131`), although the transfer goes on and may commit.
  `process_transfer` has no deadline: one transfer that stays pending keeps a
  worker busy.
* `step_source_done` moves a transfer from Trading to Compensating when the
  deposit fails; Trading refuses every rollback, so the transfer stays open.
  `step_target_pending` avoids this.
* A withdraw UBSCore executed, whose answer was lost, is sent again. When the
  balance no longer suffices the answer is Failed, and the transfer ends as
  failed with the first withdraw debited. `CreditFollowsDebit` is therefore one
  direction only.
* `TbTradingAdapter` commits and rolls back under the id of the pending
  transfer, which TigerBeetle refuses, so the pending transfer is never
  resolved. A restarted process may take the other adapter for a transfer that
  is under way.

Channel:

* An answer that arrives before its registration reached the poll thread's map
  is dropped, and its caller times out. Entries of requests that were never
  answered stay in the map.

UBSCore and its services:

* The deduplication guard evicts the newest id (`IndexSet::pop`), not the
  oldest. An order that is accepted again (section 5) has its funds locked
  twice, which is what `AcceptedIsCovered` shows.
* An order id stays recorded when the order is refused afterwards; after a
  failed flush its funds stay locked and its entry is written with the next
  order's.
* `on_withdraw` looks at the balance only; `can_withdraw`, which blocks users
  in debt, is called by nobody. `settle_trade` leaves its first half done when
  the second fails, does not look at the match id and charges no fees.
  `unlock_funds`, `settle_trade` and `apply_balance_delta` have no caller in
  the services.
* A reopened `GroupCommitWal` continues behind its preallocated zeroes, where
  `WalReplay` stops reading; `MmapWal::find_cursor` reads the big-endian length
  as little-endian and starts again at the beginning of the file. No service
  replays a log.
* As they are configured, neither service accepts an order:
  `ubscore_aeron_service` never calls `register_symbol`, and `ubscore_service`
  receives no deposits. `funds` therefore sets `Registered = TRUE` to reach the
  rest of the path.
* The handler drops the future that forwards an order or a cancel without
  awaiting it (`ubs_core/comm/ubscore_handler.rs:188` and `:293`). In the model
  the message may reach the topic or not.
* `create_order` and `cancel_order` report Accepted and Cancelled whatever the
  answer says.
* `transfer_in` leaves the amount locked when publishing fails; `transfer_out`
  credits the funding account even if UBSCore then refuses.

Engine and settlement:

* In the engine server cancels and balance requests are parsed in a branch that
  is never reached (`bin/matching_engine_server.rs:507`).
* A ring slot whose event produces no output sends the outputs of its previous
  event again; settlement skips them. An output Kafka refuses is logged and its
  offset stored.
* A restarted engine has an empty book and numbers its outputs from 1;
  settlement skips them as already processed until the numbers pass its own.
* `add_order_batch` emits no locks, while cancelling such an order emits an
  unlock.
* The derived tables are fed while the source of truth is still being written,
  and a partition whose write failed is not written again.
* `transfer_out` numbers its row of `balance_ledger` one above the newest, and
  `IF NOT EXISTS` drops it when that number is taken. The rows of engine outputs
  carry the null ledger's numbers: they replace each other, and a user without
  a transfer has u64::MAX less a lock, or -1, for a balance.

Order history:

* `SettlementDb` and `OrderHistoryDb` use two incompatible tables of the name
  `active_orders`.
* A user's first order is counted twice (`init_user_statistics` and the
  update).
* A trade of a user with themselves leaves one row of `user_trades`; a replay
  duplicates rows, whose key contains the time of settlement. A cancel reports
  `filled_qty` 0.
* The socket of `order_history_service` has no writer in this repository, and
  the gateway's `get_order_history` reads `settled_trades`, which nothing
  writes.

Global ledger (created by tests only in this commit):

* A resumed segment's cursor counts eight bytes too many for every record, so
  what is logged after a restart is unreachable or overwrites older records; a
  second restart then loses it.
* `apply` logs a command before it tries it: a refused command makes later
  recoveries fail. `apply` of a `Batch` is not atomic.
* Old segments are deleted by count, whether or not a snapshot covers them; two
  segments may be created with the same number.

## 7. Plan

Done, in this order: the transfer service with its contract, its abstract
specification and its proofs; the production adapters; the channel; the order
book; the engine server and settlement; UBSCore with debts and settlement; the
global ledger; the UBSCore service, the gateway and the flow of funds; the
order history tables.

Proved, in this order: transfers, then their state machine and refinement; the
channel; UBSCore; the order book; the pipeline; transfers over the production
adapters; the UBSCore service and the flow of funds; the global ledger; the
order history.

Next, proofs:

1. `UbsCore`: the mapping to an abstract account that is debited and credited
   in one step.

Next, models:

1. `ubscore_service`'s Kafka loop (log, then validate), once it has deposits.
2. The TigerBeetle mirror worker.
3. The engine's own order log and snapshots with `replay_wal`.

## 8. Not modelled

* The **TigerBeetle mirror worker** copies balance events one way and without
  acknowledgement; of the events the Aeron service makes it handles only locks,
  and nothing reads its answers.
* **`ubscore_service`**, the Kafka variant, has no source of deposits and
  refuses every order.
* The **engine's order log, snapshots and `replay_wal`** are switched off in
  the server, which runs with the null ledger.
* **Identifier generation** (Snowflake, ULID) packs bits; its ids are taken as
  fresh. **Balance and account managers** convert decimals.
* **Reconciliation** compares two tables it reads.
* Push and market-data bridges, the block-data indexer and storage wrappers,
  configuration, symbols, logging, metrics, health and test clients are I/O or
  static data without a protocol.
* The mock and in-memory adapters, which stand in when no TigerBeetle is
  configured.
* A crash of the machine under the global ledger, which may lose pages that
  were not flushed; the process crash is modelled.
* Price, quantity and symbol checks of the engine are reflected in the inputs
  the models enumerate. Overflow of a balance by deposits is excluded in
  `UbsCore` by bounding the supply of an asset to a u64; `Accounts` models it.

## 9. Running

```
tlc -workers 2 -config race.cfg MCTransfer
tlc -workers 2 -config book.cfg MCMatchingEngine
tlapm TransferProofs.tla
tlapm TransferServicesProofs.tla
tlapm SumTheorems.tla
tlapm UbsCoreProofs.tla
tlapm TradePipelineProofs.tla
tlapm FundsProofs.tla
tlapm LedgerProofs.tla
tlapm HistoryProofs.tla
```

The other runs pair a configuration with its `MC` module as `PROJECT.json`
lists them; each ends within five minutes on two cores.
