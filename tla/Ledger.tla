------------------------------- MODULE Ledger -------------------------------
(***************************************************************************)
(* GlobalLedger (ledger.rs): balances in memory, a rolling write-ahead log *)
(* of commands in mmapped segments, and snapshots written by background    *)
(* threads.  The process may crash at any step; what was copied into a     *)
(* mapped file survives it (a crash of the machine is not modelled: the    *)
(* log is flushed only when a segment is rotated).                         *)
(*                                                                         *)
(* A segment is the records a replay reaches and the place of its cursor.  *)
(* WalSegment::open_existing counts the sequence number of a record twice, *)
(* so a resumed cursor is where the log ends only if the segment is empty. *)
(***************************************************************************)
EXTENDS Accounts, FiniteSets, FiniteSetsExt, Functions

CONSTANTS
    Commands,           \* commands given to apply
    Batches,            \* sequences of commands given to commit_batch
    WalRetention,       \* WAL_RETENTION
    SnapshotRetention,  \* SNAPSHOT_RETENTION
    MaxSeq,             \* bound: commands accepted
    MaxEvents,          \* bound: crashes, snapshots, refused commands and failed rotations
    MaxRotations        \* bound: rotations

ASSUME LedgerAssumption ==
    /\ WalRetention \in Nat \ {0}
    /\ SnapshotRetention \in Nat \ {0}
    /\ MaxSeq \in Nat
    /\ IsFiniteSet(Users)
    /\ Commands \subseteq Command /\ Batches \subseteq Seq(Command)

VARIABLES
    status,     \* "up", "down" (crashed) or "failed" (GlobalLedger::new bailed)
    accounts,   \* balances in memory
    last_seq,   \* sequence number of the last command accepted
    wals,       \* the segment files, in the order list_wals returns them
    current,    \* index of current_segment in wals, Unlinked, or 0 if there is none
    cleanup,    \* a cleanup_old_wals thread has not run yet
    snaps,      \* snapshot files
    threads,    \* snapshot threads that have not run yet
    batch,      \* the commit_batch under way: commands, how many are logged, the delta
    history,    \* (history) the commands accepted, in order
    stained,    \* (history) a failed call left part of its work behind
    lost,       \* (history) the first restart that came up with fewer commands, or 0
    doubled,    \* (history) two segment files had the same number
    restarts,   \* (history) restarts so far
    rotations,  \* (history) rotations so far
    events      \* (history) crashes, snapshots, refusals and failed rotations so far

vars == <<status, accounts, last_seq, wals, current, cleanup, snaps, threads,
          batch, history, stained, lost, doubled, restarts, rotations, events>>
disk == <<wals, current, cleanup, doubled, rotations>>
snapshots == <<snaps, threads>>

Unlinked == -1

\* a cursor behind the last record, behind a gap, or (n) in the record n
AtEnd == 0
Beyond == -1

NoBatch == [cmds |-> <<>>, logged |-> 0, delta |-> NoAccounts]

\* a record a later one was written into: its checksum does not match
Corrupt == [seq |-> 0, cmd |-> [op |-> "corrupt"]]

Segment(start) == [start |-> start, recs |-> <<>>, cursor |-> AtEnd]

Event == events < MaxEvents /\ events' = events + 1

-----------------------------------------------------------------------------
(* The rolling log. *)

\* WalSegment::append: behind the last record; behind a gap, where no replay
\* gets; or into an older record
SegmentAppend(s, rec) ==
    CASE s.cursor = AtEnd  -> [s EXCEPT !.recs = Append(@, rec)]
      [] s.cursor = Beyond -> s
      [] OTHER -> [s EXCEPT !.recs = Append(SubSeq(@, 1, s.cursor - 1), Corrupt),
                            !.cursor = Beyond]

\* where open_existing leaves the cursor: 8 bytes behind a single record; with
\* more records it reads their data as lengths and may stop anywhere behind
\* the first one
Resumed(s) ==
    CASE s.recs = <<>>     -> {AtEnd}
      [] Len(s.recs) = 1   -> {Beyond}
      [] OTHER             -> {AtEnd, Beyond} \cup 2..Len(s.recs)

\* rotate: the new file next to the ones list_wals sorts by their number;
\* files with the same number come in the order of the directory
Places(w, start) ==
    {i \in 1..(Len(w) + 1) : /\ \A j \in 1..(i - 1) : w[j].start <= start
                             /\ \A j \in i..Len(w) : w[j].start >= start}

\* a file that was deleted while it was mapped takes records no replay sees
LogInto(w, i, rec) ==
    IF i = Unlinked THEN w ELSE [w EXCEPT ![i] = SegmentAppend(@, rec)]

\* a record that goes into a new file
Rotated(i, rec) == LogInto(InsertAt(wals, i, Segment(rec.seq)), i, rec)

Rotates(rec) ==
    /\ rotations < MaxRotations /\ rotations' = rotations + 1
    /\ doubled' = (doubled \/ \E i \in DOMAIN wals : wals[i].start = rec.seq)

\* RollingWal::append: by age or because it is full the segment may be
\* rotated first
WalAppend(rec) ==
    \/ /\ wals' = LogInto(wals, current, rec)
       /\ UNCHANGED <<current, cleanup, doubled, rotations>>
    \/ /\ Rotates(rec)
       /\ \E i \in Places(wals, rec.seq) : wals' = Rotated(i, rec) /\ current' = i
       /\ cleanup' = TRUE

\* cleanup_old_wals, in its thread: the oldest files go, snapshot or not
Extra(w) == IF Len(w) > WalRetention THEN Len(w) - WalRetention ELSE 0
Retained(w) == SubSeq(w, Extra(w) + 1, Len(w))

cleanup_old_wals ==
    LET extra == Extra(wals)
    IN  /\ status = "up" /\ cleanup
        /\ cleanup' = FALSE
        /\ wals' = Retained(wals)
        /\ current' = CASE current > extra -> current - extra
                        [] current \in 1..extra -> Unlinked
                        [] OTHER -> current
        /\ UNCHANGED <<status, accounts, last_seq, snapshots, batch, history, stained,
                       lost, doubled, restarts, rotations, events>>

\* Mutant: the segment that holds the next command is skipped.
ReplayFromNext(w, min) == 1 + Cardinality({i \in DOMAIN w : w[i].start <= min})

\* replay_iter: the first segment to read (partition_point, minus one)
ReplayFrom(w, min) ==
    LET n == Cardinality({i \in DOMAIN w : w[i].start <= min})
    IN  IF n = 0 THEN 1 ELSE n

\* the segments a replay reads, in their order
Replayed(w, min) == SubSeq(w, ReplayFrom(w, min), Len(w))

-----------------------------------------------------------------------------
(* Recovery. *)

\* find_latest_snapshot: number 0 is never taken
LatestSeq(S) == Max({0} \cup {s.seq : s \in S})
Latest(S) ==
    IF LatestSeq(S) = 0 THEN [seq |-> 0, accounts |-> NoAccounts]
    ELSE CHOOSE s \in S : s.seq = LatestSeq(S)

\* Mutant: a gap in the numbers is accepted.
RedoOverGap(r, rec) ==
    IF r.res # "ok" \/ rec.seq <= r.seq THEN r
    ELSE LET t == apply_transaction(r.acc, rec.cmd)
         IN  [res |-> t.res, seq |-> rec.seq, acc |-> t.acc]

\* one record of the replay in GlobalLedger::new
Redo(r, rec) ==
    IF r.res # "ok" THEN r
    ELSE IF rec = Corrupt THEN [r EXCEPT !.res = "err"]
    ELSE IF rec.seq <= r.seq THEN r
    ELSE IF rec.seq # r.seq + 1 THEN [r EXCEPT !.res = "err"]
    ELSE LET t == apply_transaction(r.acc, rec.cmd)
         IN  [res |-> t.res, seq |-> rec.seq, acc |-> t.acc]

RedoSegment(r, s) == FoldLeft(Redo, r, s.recs)

Recovered ==
    LET s == Latest(snaps)
    IN  FoldLeft(RedoSegment, [res |-> "ok", seq |-> s.seq, acc |-> s.accounts],
                 Replayed(wals, s.seq))

\* GlobalLedger::new and RollingWal::new: replay, then go on in the last file
Open ==
    /\ status = "down"
    /\ LET r == Recovered
       IN  \/ /\ r.res # "ok"
              /\ status' = "failed"
              /\ UNCHANGED <<accounts, last_seq, wals, current, history, lost>>
           \/ /\ r.res = "ok"
              /\ status' = "up"
              /\ accounts' = r.acc
              /\ last_seq' = r.seq
              /\ \E c \in Resumed(Last(wals)) :
                    wals' = [wals EXCEPT ![Len(wals)].cursor = c]
              /\ current' = Len(wals)
              /\ lost' = IF lost = 0 /\ r.seq < Len(history) THEN restarts + 1 ELSE lost
              /\ history' = SubSeq(history, 1, Min({r.seq, Len(history)}))
    /\ restarts' = restarts + 1
    /\ UNCHANGED <<cleanup, snapshots, batch, stained, doubled, rotations, events>>

-----------------------------------------------------------------------------
(* The running ledger. *)

\* memory, threads and the batch under way are gone
Dies ==
    /\ status' = "down"
    /\ accounts' = NoAccounts /\ last_seq' = 0
    /\ cleanup' = FALSE /\ threads' = {} /\ batch' = NoBatch

Crash ==
    /\ status = "up"
    /\ Event
    /\ Dies
    /\ current' = 0
    /\ UNCHANGED <<wals, snaps, history, stained, lost, doubled, restarts, rotations>>

Idle == status = "up" /\ batch = NoBatch

\* GlobalLedger::apply: the command is logged before it is tried, and the
\* record of a refused command stays, under the number the next one gets
Apply(cmd) ==
    /\ Idle /\ current # 0
    /\ Len(history) < MaxSeq
    /\ WalAppend([seq |-> last_seq + 1, cmd |-> cmd])
    /\ LET r == apply_transaction(accounts, cmd)
       IN  /\ r.res = "ok"
           /\ accounts' = r.acc
           /\ last_seq' = last_seq + 1
           /\ history' = Append(history, cmd)
    /\ UNCHANGED <<status, snapshots, batch, stained, lost, restarts, events>>

ApplyRefused(cmd) ==
    /\ Idle /\ current # 0
    /\ Event
    /\ WalAppend([seq |-> last_seq + 1, cmd |-> cmd])
    /\ LET r == apply_transaction(accounts, cmd)
       IN  /\ r.res = "err"
           /\ accounts' = r.acc
           /\ stained' = (stained \/ r.acc # accounts)
    /\ UNCHANGED <<status, last_seq, snapshots, batch, history, lost, restarts>>

\* a trade that passes the checks and overflows a balance: the record is there,
\* in a new file perhaps, whose thread may have deleted old ones by now
ApplyPanics(cmd) ==
    LET rec == [seq |-> last_seq + 1, cmd |-> cmd]
    IN  /\ Idle /\ current # 0
        /\ Event
        /\ apply_transaction(accounts, cmd).res = "panic"
        /\ \/ wals' = LogInto(wals, current, rec) /\ UNCHANGED <<doubled, rotations>>
           \/ /\ Rotates(rec)
              /\ \E i \in Places(wals, rec.seq) :
                    wals' \in {Rotated(i, rec), Retained(Rotated(i, rec))}
        /\ Dies
        /\ current' = 0
        /\ UNCHANGED <<snaps, history, stained, lost, restarts>>

\* commit_batch, phase 1: a shadow ledger tries every command; unless all of
\* them succeed nothing happens
BatchValidated(cmds) ==
    /\ Idle
    /\ Len(history) + Len(cmds) <= MaxSeq
    /\ LET r == ApplyAll(accounts, cmds)
       IN  /\ r.res = "ok"
           /\ batch' = [cmds |-> cmds, logged |-> 0, delta |-> r.acc]
    /\ UNCHANGED <<status, accounts, last_seq, disk, snapshots, history, stained, lost,
                   restarts, events>>

\* append_to_wal: one command of the batch
BatchAppend ==
    /\ status = "up" /\ batch.logged < Len(batch.cmds) /\ current # 0
    /\ LET cmd == batch.cmds[batch.logged + 1]
       IN  /\ WalAppend([seq |-> last_seq + 1, cmd |-> cmd])
           /\ history' = Append(history, cmd)
    /\ last_seq' = last_seq + 1
    /\ batch' = [batch EXCEPT !.logged = @ + 1]
    /\ UNCHANGED <<status, accounts, snapshots, stained, lost, restarts, events>>

\* apply_delta_to_memory
BatchCommit ==
    /\ status = "up" /\ batch # NoBatch /\ batch.logged = Len(batch.cmds)
    /\ accounts' = batch.delta
    /\ batch' = NoBatch
    /\ UNCHANGED <<status, last_seq, disk, snapshots, history, stained, lost, restarts, events>>

\* an append that has to rotate cannot flush, rename or create a file: the
\* call returns the error, the commands of a batch that were logged stay
\* logged, and there is no segment any more
RotateFails ==
    /\ status = "up" /\ current # 0
    /\ batch = NoBatch \/ batch.logged < Len(batch.cmds)
    /\ Event
    /\ current' = 0
    /\ stained' = (stained \/ batch.logged > 0)
    /\ batch' = NoBatch
    /\ UNCHANGED <<status, accounts, last_seq, wals, cleanup, snapshots, history, lost,
                   doubled, restarts, rotations>>

\* the next append unwraps the missing segment
AppendPanics ==
    /\ status = "up" /\ current = 0
    /\ Dies
    /\ UNCHANGED <<wals, current, snaps, history, stained, lost, doubled, restarts, rotations,
                   events>>

\* trigger_snapshot: a copy of the accounts is handed to a thread
trigger_snapshot ==
    /\ Idle
    /\ Event
    /\ threads' = threads \cup {[seq |-> last_seq, accounts |-> accounts]}
    /\ UNCHANGED <<status, accounts, last_seq, disk, snaps, batch, history, stained, lost,
                   restarts>>

\* Mutant: the oldest snapshots are kept.
KeptOldest(S) == {s \in S : Cardinality({t \in S : t.seq < s.seq}) < SnapshotRetention}

\* the newest SNAPSHOT_RETENTION files
Kept(S) == {s \in S : Cardinality({t \in S : t.seq > s.seq}) < SnapshotRetention}

\* the thread: the file is written under a temporary name, renamed, and old
\* files are deleted; threads may end in any order
SnapshotThread(t) ==
    /\ status = "up"
    /\ snaps' = Kept(snaps \cup {t})
    /\ threads' = threads \ {t}
    /\ UNCHANGED <<status, accounts, last_seq, disk, batch, history, stained, lost,
                   restarts, events>>

Init ==
    /\ status = "up"
    /\ accounts = NoAccounts /\ last_seq = 0
    /\ wals = <<Segment(1)>> /\ current = 1 /\ cleanup = FALSE
    /\ snaps = {} /\ threads = {}
    /\ batch = NoBatch
    /\ history = <<>> /\ stained = FALSE /\ lost = 0 /\ doubled = FALSE
    /\ restarts = 0 /\ rotations = 0 /\ events = 0

Next ==
    \/ \E c \in Commands : Apply(c) \/ ApplyRefused(c) \/ ApplyPanics(c)
    \/ \E b \in Batches : BatchValidated(b)
    \/ BatchAppend \/ BatchCommit
    \/ RotateFails \/ AppendPanics
    \/ cleanup_old_wals
    \/ trigger_snapshot
    \/ \E t \in threads : SnapshotThread(t)
    \/ Crash \/ Open

Spec == Init /\ [][Next]_vars

-----------------------------------------------------------------------------
(***************************************************************************)
(* Properties                                                              *)
(***************************************************************************)

\* The type invariant.
TypeOK ==
    /\ status \in {"up", "down", "failed"}
    /\ accounts \in [Users -> [Asset -> Balance]]
    /\ last_seq \in Nat
    /\ wals # <<>> /\ \A i \in DOMAIN wals : wals[i].start \in Nat \ {0}
    /\ current \in {Unlinked} \cup 0..Len(wals)
    /\ cleanup \in BOOLEAN /\ stained \in BOOLEAN /\ doubled \in BOOLEAN
    /\ \A s \in snaps \cup threads : s.seq \in Nat /\ s.accounts \in [Users -> [Asset -> Balance]]
    /\ batch.logged \in 0..Len(batch.cmds)
    /\ Len(history) <= MaxSeq

StateAt(cmds) == FoldLeft(LAMBDA acc, c : apply_transaction(acc, c).acc, NoAccounts, cmds)

\* A ledger that is open holds what the commands it counts do, each once and
\* in order: whatever crashes, rotations, deleted segments, resumed logs and
\* late snapshot threads came before, GlobalLedger::new bails or comes up with
\* the effects of a prefix of the accepted commands and no others.  (Not if a
\* call that failed left part of its work behind.)
OpensOnHistory ==
    Idle /\ ~stained => last_seq = Len(history) /\ accounts = StateAt(history)

\* what one command of the log brings in from outside, or takes out
BroughtBy(c, a) ==
    LET If(cond, n) == IF cond THEN n ELSE 0
    IN  CASE c.op = "Deposit"     -> If(c.asset = a, c.amount)
          [] c.op = "Withdraw"    -> If(c.asset = a, -c.amount)
          [] c.op = "TradeSettle" ->
               If(c.gain_asset = a, c.gain_amount) - If(c.spend_asset = a, c.spend_amount)
          [] OTHER                -> 0

BroughtByEach(cmds, a) == FoldLeft(LAMBDA n, c : n + BroughtBy(c, a), 0, cmds)

Inflow(cmds, a) ==
    FoldLeft(LAMBDA n, c : n + IF c.op \in Nested THEN BroughtByEach(c.cmds, a) ELSE BroughtBy(c, a),
             0, cmds)

\* Trades, locks, refunds and restarts neither make nor lose money: what all
\* users own of an asset is what deposits and withdrawals brought in.
MoneyConserved ==
    Idle /\ ~stained =>
        \A a \in Asset :
            SumFunctionOnSet([u \in Users |-> accounts[u][a].avail + accounts[u][a].frozen], Users)
              = Inflow(history, a)

\* The first restart of a ledger loses no accepted command (it recovers all
\* of them or bails), unless two segments have the same number, when
\* replay_iter may start behind the one it needs.
FirstRestartKeepsAll == lost # 1 \/ doubled

\* Snapshot threads that end out of order never take recovery back: the
\* newest snapshot is not deleted or replaced by an older one.
LatestSnapshotKept == [][LatestSeq(snaps') >= LatestSeq(snaps)]_vars
=============================================================================
