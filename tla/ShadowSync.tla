----------------------------- MODULE ShadowSync -----------------------------
(***************************************************************************)
(* The shadow-proving batch synchroniser (src/prover/bin/shadow-prove):   *)
(* the main loop of main.rs and BatchSyncer::sync_batch with the helpers  *)
(* of shadow_rollup.rs, against the three ledgers it talks to.            *)
(*                                                                         *)
(* The syncer is one sequential task.  Every await of the code (an RPC    *)
(* call) is a step of its own, so the ledgers may change between any two  *)
(* of them.  The ledgers are the environment: the canonical Rollup on L1  *)
(* commits batches, L1 grows, the L2 chain holds the blocks of each       *)
(* batch, and the ShadowRollup includes (or reverts) the syncer's         *)
(* commitBatch transactions.  The process may crash and be restarted at  *)
(* any point; it keeps no state of its own across a restart.              *)
(***************************************************************************)
EXTENDS Integers, Sequences, FiniteSets, Functions, BatchHeaderCodec

CONSTANTS
    MaxBatch,       \* the canonical rollup commits batches 1..MaxBatch in a run
    MaxHeight,      \* the last L1 block height of a run
    ScanWindow,     \* trailing L1 blocks scanned for CommitBatch logs (600)
    AnchorSteps,    \* L2 blocks a batch may add to its parent's last block
    TxPerBlock,     \* transaction counts an L2 block may hold
    HeaderLens,     \* byte lengths a committed batch header may have
    MaxBlock,       \* SHADOW_PROVING_MAX_BLOCK (default 300)
    MaxTxn,         \* SHADOW_PROVING_MAX_TXN (default 600)
    MaxSends,       \* bound on the commitBatch transactions sent in a run
    Width,          \* bit width of the block-number arithmetic (u64: 64)
    OverflowChecks  \* TRUE: debug build, u64 overflow panics; FALSE: it wraps

ASSUME ConstantsAssumption ==
    /\ MaxBatch \in Nat \ {0}
    /\ MaxHeight \in Nat \ {0}
    /\ ScanWindow \in Nat \ {0}
    /\ AnchorSteps \subseteq Nat /\ AnchorSteps # {} /\ IsFiniteSet(AnchorSteps)
    /\ TxPerBlock \subseteq Nat /\ TxPerBlock # {}
    /\ HeaderLens \subseteq Nat /\ HeaderLens # {}
    /\ MaxBlock \in Nat /\ MaxTxn \in Nat /\ MaxSends \in Nat
    /\ Width \in Nat \ {0}
    /\ OverflowChecks \in BOOLEAN

\* 2^Width: u64 values are 0 .. U64Mod - 1.
U64Mod == 2 ^ Width

\* The L2 block numbers a run can reach.
L2Blocks == 1 .. (MaxBatch * (CHOOSE m \in AnchorSteps : \A s \in AnchorSteps : s <= m))

\* Batch indices; 0 is the genesis batch, committed before the run.
Batches == 0 .. MaxBatch

\* A CommitBatch log: the L1 block of the commit, the indexed batch index,
\* and the batch whose header the commit transaction carries as parent.
Events == [blk : Nat, idx : Nat, parent : Nat]

\* A shadow commitBatch transaction and the status of its receipt.
Txs == [idx : Nat, store : [StoreFields -> B256Values(Batches)],
        status : {"pending", "ok", "reverted"}]

\* BatchInfo {batch_index, start_block, end_block}.
BatchInfos == [batch_index : Nat, start_block : Nat, end_block : Nat]

\* The places of the syncer task between awaits.
PCs == {"sleep", "blockNumber", "getLogs", "prevAnchor", "curAnchor",
        "resolve", "getTx", "proveState", "send", "receipt", "prove",
        "panicked"}

VARIABLES
    l1Height,     \* the L1 head block number
    commitLog,    \* the canonical Rollup's CommitBatch logs, in ledger order
    anchor,       \* batchDataStore(i).blockNumber: the last L2 block of batch i
    l2Txs,        \* the transaction count of each L2 block
    headerLen,    \* the byte length of the committed header of batch i
    shadowStore,  \* the ShadowRollup's BatchStore for each batch index
    proven,       \* the indices with ShadowRollup.isProveSuccess = true
    txs,          \* the commitBatch transactions the syncer sent, in order
    pc,           \* where the syncer task is
    latest,       \* sync_batch: latest
    cand,         \* get_committed_batch: batch_index
    nextTx,       \* get_committed_batch: the last log (next_tx_hash)
    prevBn,       \* batch_blocks_inspect: prev_bn
    curBn,        \* batch_blocks_inspect: current_bn
    info,         \* get_committed_batch: batch_info
    header,       \* sync_batch: batch_header
    myTx          \* sync_batch: the position in txs of pending_tx

ledgerVars == <<l1Height, commitLog, anchor, l2Txs, headerLen, shadowStore, proven, txs>>
localVars == <<latest, cand, nextTx, prevBn, curBn, info, header, myTx>>
vars == <<ledgerVars, pc, localVars>>

NoEvent == [blk |-> 0, idx |-> 0, parent |-> 0]
NoInfo == [batch_index |-> 0, start_block |-> 0, end_block |-> 0]
NoHeader == Header(0, 0)

-----------------------------------------------------------------------------
(***************************************************************************)
(* Helpers of get_committed_batch and batch_blocks_inspect.                *)
(***************************************************************************)

\* The first L1 block of the scan (shadow_rollup.rs:172).
ScanStart(l) == IF l > ScanWindow THEN l - ScanWindow ELSE 1

\* The positions of the logs get_logs returns: every CommitBatch log from
\* block `from` on.  eth_getLogs returns them in ledger order.
LogsFrom(from) == {k \in 1 .. Len(commitLog) : commitLog[k].blk >= from}

\* Log j comes after log k once sorted by block number with a stable sort
\* (logs.sort_by at line 190): by block, ties in the order returned.
SortsAfter(j, k) ==
    \/ commitLog[j].blk > commitLog[k].blk
    \/ commitLog[j].blk = commitLog[k].blk /\ j > k

\* The last of a set of logs in the sorted order.
LastLog(W) == CHOOSE k \in W : \A j \in W \ {k} : SortsAfter(k, j)

\* Variant for mutation checks: the candidate read from the last log.
CandidateLogLast(W) == LastLog(W)

\* logs.get(logs.len() - 2): the candidate's log, second to last.
CandidateLog(W) == LastLog(W \ {LastLog(W)})

\* batchDataStore(i).blockNumber; a slot never written reads as zero.
StoredBlockNumber(i) == IF i \in DOMAIN anchor THEN anchor[i] ELSE 0

\* The L2 block numbers prev_bn + 1 .. current_bn.
BlockRange(p, c) == {b \in L2Blocks : p + 1 <= b /\ b <= c}

\* The cycle ends: the task returns to the loop's sleep and drops its
\* locals (every return of sync_batch, and of main's match on its result).
EndCycle ==
    /\ pc' = "sleep"
    /\ latest' = 0 /\ cand' = 0 /\ nextTx' = NoEvent /\ prevBn' = 0
    /\ curBn' = 0 /\ info' = NoInfo /\ header' = NoHeader /\ myTx' = 0

\* A panic (an unwrap or an overflow check): the task, and with it the
\* process, stops.
Panic == pc' = "panicked" /\ UNCHANGED localVars

-----------------------------------------------------------------------------
(***************************************************************************)
(* The syncer task.                                                        *)
(***************************************************************************)

\* main.rs:74-75: the loop sleeps 12 s, then calls sync_batch.
Tick ==
    /\ pc = "sleep"
    /\ pc' = "blockNumber"
    /\ UNCHANGED <<ledgerVars, localVars>>

\* shadow_rollup.rs:53: get_block_number; an error is returned with `?` and
\* main logs it.
GetBlockNumber ==
    /\ pc = "blockNumber"
    /\ \/ /\ latest' = l1Height
          /\ pc' = "getLogs"
          /\ UNCHANGED <<cand, nextTx, prevBn, curBn, info, header, myTx>>
       \/ EndCycle
    /\ UNCHANGED ledgerVars

\* get_committed_batch up to its first contract read: get_logs from the
\* window start (an error, no log, or fewer than 3 logs end the cycle), the
\* sort, the candidate from the second to last log (index 0 is an error),
\* and the last log kept for its transaction.
GetLogs ==
    /\ pc = "getLogs"
    /\ LET W == LogsFrom(ScanStart(latest)) IN
         \/ EndCycle
         \/ /\ Cardinality(W) >= 3
            /\ commitLog[CandidateLog(W)].idx # 0
            /\ cand' = commitLog[CandidateLog(W)].idx
            /\ nextTx' = commitLog[LastLog(W)]
            /\ pc' = "prevAnchor"
            /\ UNCHANGED <<latest, prevBn, curBn, info, header, myTx>>
    /\ UNCHANGED ledgerVars

\* batch_blocks_inspect: batchDataStore(batch_index - 1); an error ends the
\* cycle.
PrevAnchor ==
    /\ pc = "prevAnchor"
    /\ \/ /\ prevBn' = StoredBlockNumber(cand - 1)
          /\ pc' = "curAnchor"
          /\ UNCHANGED <<latest, cand, nextTx, curBn, info, header, myTx>>
       \/ EndCycle
    /\ UNCHANGED ledgerVars

\* batch_blocks_inspect: batchDataStore(batch_index); an error ends the
\* cycle.
CurAnchor ==
    /\ pc = "curAnchor"
    /\ \/ /\ curBn' = StoredBlockNumber(cand)
          /\ pc' = "resolve"
          /\ UNCHANGED <<latest, cand, nextTx, prevBn, info, header, myTx>>
       \/ EndCycle
    /\ UNCHANGED ledgerVars

\* Variant for mutation checks: the range check the other way round, an
\* empty range (start > end) rejected and a non-empty one let through.
ResolveEmptyRejected ==
    /\ pc = "resolve"
    /\ LET start == prevBn + 1
           end   == curBn
       IN
         \/ /\ start > end
            /\ EndCycle
         \/ /\ start <= end
            /\ \E read \in SUBSET BlockRange(prevBn, curBn) :
                 IF end - start + 1 > MaxBlock \/ SumFunctionOnSet(l2Txs, read) > MaxTxn
                 THEN EndCycle
                 ELSE /\ info' = [batch_index |-> cand,
                                  start_block |-> start, end_block |-> end]
                      /\ pc' = "getTx"
                      /\ UNCHANGED <<latest, cand, nextTx, prevBn, curBn, header, myTx>>
    /\ UNCHANGED ledgerVars

\* The rest of batch_blocks_inspect and the checks of get_committed_batch:
\* the per-block transaction counts (a failed read counts 0), the log line's
\* current_bn - prev_bn, the range check, the two ceilings, and batch_info.
\* The range check ends the cycle when start <= end.  Past it, start > end,
\* so current_bn - prev_bn (line 316) or end - start (line 215) underflows:
\* a debug build panics, a release build wraps modulo 2^64.
Resolve ==
    /\ pc = "resolve"
    /\ LET start == prevBn + 1
           end   == curBn
       IN
         \/ /\ start <= end
            /\ EndCycle
         \/ /\ start > end
            /\ \E read \in SUBSET BlockRange(prevBn, curBn) :
                 LET total == SumFunctionOnSet(l2Txs, read)
                     span  == (((end - start) % U64Mod) + 1) % U64Mod
                 IN  IF OverflowChecks
                     THEN Panic
                     ELSE IF span > MaxBlock \/ total > MaxTxn
                          THEN EndCycle
                          ELSE /\ info' = [batch_index |-> cand,
                                           start_block |-> start, end_block |-> end]
                               /\ pc' = "getTx"
                               /\ UNCHANGED <<latest, cand, nextTx, prevBn, curBn,
                                              header, myTx>>
    /\ UNCHANGED ledgerVars

\* Variant for mutation checks: the header taken as the last log's own batch
\* rather than the parent its transaction carries.
GetTxHeaderOfLastLog ==
    /\ pc = "getTx"
    /\ \/ /\ header' = Header(nextTx.idx, headerLen[nextTx.idx])
          /\ pc' = "proveState"
          /\ UNCHANGED <<latest, cand, nextTx, prevBn, curBn, info, myTx>>
       \/ EndCycle
    /\ UNCHANGED ledgerVars

\* batch_header_inspect: get_transaction_by_hash of the last log's
\* transaction and the ABI decoding of its input; an error, no transaction,
\* an empty input or another call shape returns None and ends the cycle.
GetTx ==
    /\ pc = "getTx"
    /\ \/ /\ header' = Header(nextTx.parent, headerLen[nextTx.parent])
          /\ pc' = "proveState"
          /\ UNCHANGED <<latest, cand, nextTx, prevBn, curBn, info, myTx>>
       \/ EndCycle
    /\ UNCHANGED ledgerVars

\* Variant for mutation checks: a read error taken as "not proven"
\* (unwrap_or(false)).
ProveStateErrorAsFalse ==
    /\ pc = "proveState"
    /\ \/ /\ pc' = "send"
          /\ UNCHANGED localVars
       \/ EndCycle
    /\ UNCHANGED ledgerVars

\* is_prove_success(batch_index).unwrap_or(true): a proven batch, or a read
\* error, ends the cycle.
ProveState ==
    /\ pc = "proveState"
    /\ \/ /\ cand \notin proven
          /\ pc' = "send"
          /\ UNCHANGED localVars
       \/ EndCycle
    /\ UNCHANGED ledgerVars

\* Variant for mutation checks: the position of the new transaction taken
\* before it is appended.
SendStaleIndex ==
    /\ pc = "send"
    /\ Len(txs) < MaxSends
    /\ txs' = Append(txs, [idx |-> cand, store |-> BatchStoreOf(header),
                           status |-> "pending"])
    /\ myTx' = Len(txs)
    /\ pc' = "receipt"
    /\ UNCHANGED <<latest, cand, nextTx, prevBn, curBn, info, header>>
    /\ UNCHANGED <<l1Height, commitLog, anchor, l2Txs, headerLen, shadowStore, proven>>

\* The BatchStore assembled from the header, and commitBatch(...).send(); a
\* send error ends the cycle.
Send ==
    /\ pc = "send"
    /\ \/ /\ Len(txs) < MaxSends
          /\ txs' = Append(txs, [idx |-> cand, store |-> BatchStoreOf(header),
                                 status |-> "pending"])
          /\ myTx' = Len(txs) + 1
          /\ pc' = "receipt"
          /\ UNCHANGED <<latest, cand, nextTx, prevBn, curBn, info, header>>
          /\ UNCHANGED <<l1Height, commitLog, anchor, l2Txs, headerLen, shadowStore, proven>>
       \/ /\ EndCycle
          /\ UNCHANGED ledgerVars

\* Variant for mutation checks: the receipt's status is not checked.
ReceiptIgnoringStatus ==
    /\ pc = "receipt"
    /\ txs[myTx].status # "pending"
    /\ pc' = "prove"
    /\ UNCHANGED localVars
    /\ UNCHANGED ledgerVars

\* pending_tx.get_receipt().await.unwrap(): an RPC error panics; once the
\* transaction is included, a failed status ends the cycle and a successful
\* one returns Some(batch_info).
Receipt ==
    /\ pc = "receipt"
    /\ \/ Panic
       \/ /\ txs[myTx].status = "reverted"
          /\ EndCycle
       \/ /\ txs[myTx].status = "ok"
          /\ pc' = "prove"
          /\ UNCHANGED localVars
    /\ UNCHANGED ledgerVars

\* main.rs:78: shadow_prover.prove(batch); success sets isProveSuccess on the
\* ShadowRollup, an error is logged.  The loop goes on either way.
Prove ==
    /\ pc = "prove"
    /\ \/ proven' = proven \cup {info.batch_index}
       \/ UNCHANGED proven
    /\ EndCycle
    /\ UNCHANGED <<l1Height, commitLog, anchor, l2Txs, headerLen, shadowStore, txs>>

\* The process is stopped (a panic, a kill, a host restart) and started
\* again: it starts at the top of the loop with nothing of the old run.
\* Transactions already sent stay in the ledger's mempool.
Restart ==
    /\ pc # "sleep"
    /\ EndCycle
    /\ UNCHANGED ledgerVars

-----------------------------------------------------------------------------
(***************************************************************************)
(* The ledgers.                                                            *)
(***************************************************************************)

\* The sequencer commits the next batch on the canonical Rollup: a
\* CommitBatch log in the current L1 block whose transaction carries the
\* parent's header, the batch's last L2 block, and its L2 blocks.
CommitBatch ==
    /\ Len(commitLog) < MaxBatch
    /\ LET i == Len(commitLog) + 1 IN
       \E step \in AnchorSteps, len \in HeaderLens, count \in TxPerBlock :
         /\ anchor[i - 1] + step \in L2Blocks \cup {0}
         /\ commitLog' = Append(commitLog, [blk |-> l1Height, idx |-> i, parent |-> i - 1])
         /\ anchor' = [anchor EXCEPT ![i] = anchor[i - 1] + step]
         /\ headerLen' = [headerLen EXCEPT ![i] = len]
         /\ l2Txs' = [b \in L2Blocks |->
                        IF anchor[i - 1] < b /\ b <= anchor'[i] THEN count ELSE l2Txs[b]]
    /\ UNCHANGED <<l1Height, shadowStore, proven, txs, pc, localVars>>

\* A new L1 block.
AdvanceL1 ==
    /\ l1Height < MaxHeight
    /\ l1Height' = l1Height + 1
    /\ UNCHANGED <<commitLog, anchor, l2Txs, headerLen, shadowStore, proven, txs,
                   pc, localVars>>

\* A pending commitBatch transaction is included in the ShadowRollup's
\* chain; it succeeds and stores its BatchStore, or reverts.
IncludeTx ==
    \E k \in DOMAIN txs :
      /\ txs[k].status = "pending"
      /\ \/ /\ txs' = [txs EXCEPT ![k].status = "ok"]
            /\ shadowStore' = [shadowStore EXCEPT ![txs[k].idx] = txs[k].store]
         \/ /\ txs' = [txs EXCEPT ![k].status = "reverted"]
            /\ UNCHANGED shadowStore
      /\ UNCHANGED <<l1Height, commitLog, anchor, l2Txs, headerLen, proven, pc, localVars>>

-----------------------------------------------------------------------------
Init ==
    /\ l1Height = 1
    /\ commitLog = << >>
    /\ anchor = [i \in Batches |-> 0]
    /\ l2Txs = [b \in L2Blocks |-> 0]
    /\ headerLen \in {[i \in Batches |-> IF i = 0 THEN len ELSE 0] : len \in HeaderLens}
    /\ shadowStore = [i \in Batches |-> NoStore]
    /\ proven = {}
    /\ txs = << >>
    /\ pc = "sleep"
    /\ latest = 0 /\ cand = 0 /\ nextTx = NoEvent /\ prevBn = 0 /\ curBn = 0
    /\ info = NoInfo /\ header = NoHeader /\ myTx = 0

Syncer == Tick \/ GetBlockNumber \/ GetLogs \/ PrevAnchor \/ CurAnchor \/ Resolve
          \/ GetTx \/ ProveState \/ Send \/ Receipt \/ Prove

Ledgers == CommitBatch \/ AdvanceL1 \/ IncludeTx

Next == Syncer \/ Restart \/ Ledgers

Spec == Init /\ [][Next]_vars

-----------------------------------------------------------------------------
(***************************************************************************)
(* Properties.                                                             *)
(***************************************************************************)

\* Every variable holds a value of its type; a task waiting on a receipt or
\* holding a synced batch points at a transaction it sent.
TypeOK ==
    /\ l1Height \in 1 .. MaxHeight
    /\ commitLog \in Seq(Events)
    /\ anchor \in [Batches -> Nat]
    /\ l2Txs \in [L2Blocks -> Nat]
    /\ headerLen \in [Batches -> Nat]
    /\ shadowStore \in [Batches -> [StoreFields -> B256Values(Batches)]]
    /\ proven \subseteq Nat
    /\ txs \in Seq(Txs)
    /\ pc \in PCs
    /\ latest \in Nat /\ cand \in Nat /\ nextTx \in Events
    /\ prevBn \in Nat /\ curBn \in Nat /\ info \in BatchInfos
    /\ header \in [id : Nat, len : Nat]
    /\ myTx \in 0 .. Len(txs)
    /\ pc \in {"receipt", "prove"} => myTx \in 1 .. Len(txs)

\* The shadow ledger holds nothing but genuine commitments: whatever slot
\* the syncer's commitBatch writes (sync_batch, lines 98-141) holds the
\* six fields of that very batch's header, at the codec's offsets.  This
\* rests on the candidate (second to last log) and the header (the parent
\* in the last log's transaction) being the same batch.
ShadowLedgerFaithful ==
    \A i \in Batches : shadowStore[i] \in {NoStore, Genuine(i)}

\* The idempotency guard (sync_batch, line 73): the syncer never sends a
\* commitBatch for a batch the ShadowRollup already reports proven.
NoCommitOfProvenBatch ==
    [][\A k \in DOMAIN txs' \ DOMAIN txs : txs'[k].idx \notin proven]_vars

\* The prover is handed a batch only once a commitBatch for it has been
\* included successfully (sync_batch, lines 149-156): its slot on the
\* ShadowRollup is no longer empty.
ProverGetsCommittedBatch ==
    pc = "prove" => shadowStore[info.batch_index] # NoStore

\* The ledgers as the abstract specification ShadowLedger sees them: the
\* number of batches on the Rollup, the ShadowRollup's slots and proof flags.
Ledger == INSTANCE ShadowLedger
            WITH committed <- Len(commitLog), store <- shadowStore, proven <- proven

\* The syncer, the prover, crashes and the ledgers together implement the
\* abstract ShadowRollup: every commitBatch that lands (sync_batch, lines
\* 98-157, included at any later time, even after a restart) records the
\* genuine commitment of a committed, unproven batch or changes nothing,
\* and the prover (main.rs:78) proves only a batch so recorded.
RefinesShadowLedger == Ledger!Spec

\* What the range check of line 211 really lets through: a batch reaches
\* the prover only when its range is empty, prev_bn = current_bn, so that
\* the BatchInfo of lines 225-226 has start_block = end_block + 1 (the
\* wrapped block count 0 passes the ceiling of line 215); and only a
\* release build gets that far, a debug build panics on the underflow.
ProverBatchInvertedByOne ==
    pc = "prove" => info.start_block = info.end_block + 1 /\ ~OverflowChecks

-----------------------------------------------------------------------------
(***************************************************************************)
(* What the design says of sync_batch, checked against the code.           *)
(***************************************************************************)

\* The true transaction count of the L2 blocks s .. e.
RangeTxCount(s, e) == SumFunctionOnSet(l2Txs, {b \in L2Blocks : s <= b /\ b <= e})

\* A block range is eligible (design 3, 4.2, 4.3): not empty, at most
\* MaxBlock blocks and at most MaxTxn transactions.
EligibleRange(s, e) ==
    /\ s <= e
    /\ e - s + 1 <= MaxBlock
    /\ RangeTxCount(s, e) <= MaxTxn

\* The bounds resolver drops a candidate (get_committed_batch, lines
\* 211-223) only when its range is empty or over a ceiling: an eligible
\* batch such as the design's scenario B goes on to be committed.
EligibleBatchNotDropped ==
    [][(Resolve /\ pc' = "sleep") => ~EligibleRange(prevBn + 1, curBn)]_vars

\* The BatchInfo that sync_batch returns and main hands to the prover
\* satisfies start_block <= end_block (design 3).
ProverBatchWellFormed ==
    pc = "prove" => info.start_block <= info.end_block

\* The design's primary concurrency invariant (design 5): the loop awaits
\* the receipt of its commitBatch (sync_batch, line 149) before the next
\* cycle, so at most one commit is in flight at a time, and the design
\* calls the process restart-safe.  No two commitBatch transactions are
\* pending together.
AtMostOneInFlight ==
    Cardinality({k \in DOMAIN txs : txs[k].status = "pending"}) <= 1

\* No error of a single cycle stops the loop of main (design 4.8, 7): the
\* task never panics.
LoopNeverStops == pc # "panicked"
=============================================================================
