# TLA+ verification of the shadow-proving batch syncer

This directory holds the TLA+ model of `src/prover/bin/shadow-prove`, the
off-chain process that replays batches committed on the canonical Rollup
contract (L1) onto a ShadowRollup contract and then has them proven again.
It contains the TLC configurations that model-check it and the TLAPS proofs
about it.

## The system

The whole core is `main.rs` (the loop) and `shadow_rollup.rs`
(`BatchSyncer::sync_batch` and its helpers).  Every 12 s, one tokio task
runs the following steps, each an RPC call awaited in turn:

| design component  | code                                       | lines            |
|-------------------|--------------------------------------------|------------------|
| Scheduler         | `main` loop                                | main.rs 74-90    |
| Chain reader      | `get_block_number`                         | shadow_rollup 53 |
| Commit scanner    | `get_committed_batch`: logs, sort, candidate | 160-204        |
| Bounds resolver   | `batch_blocks_inspect`, checks at 211-223  | 205-227, 279-324 |
| Proof-state oracle| `is_prove_success(..).unwrap_or(true)`     | 72-76, 326-348   |
| Header extractor  | `batch_header_inspect`                     | 229-277          |
| BatchStore build  | six `get(..).unwrap_or_default().try_into().unwrap_or_default()` | 98-125 |
| Shadow committer  | `commitBatch(..).send()`, `get_receipt().await.unwrap()` | 139-157 |
| Prover            | `ShadowProver::prove` (not under src/)     | main.rs 78       |

The syncer holds no state across cycles.  Its world is three ledgers: the
Rollup (CommitBatch logs, `batchDataStore(i).blockNumber`, the commit
transactions carrying the *parent* batch header), the L2 chain (transaction
count per block) and the ShadowRollup (`commitBatch`, `isProveSuccess`).

Not modelled: metrics and their HTTP server, logging setup, configuration and
startup (`main.rs` 26-72, 93-185): none affects the syncer's control or the
ledgers, and a bad configuration panics before the loop.  The tests
(`main.rs` 187-272, `shadow_rollup.rs` 350-454) are integration tests against
live nodes.

## Modules

* `BatchHeaderCodec.tla`: the header slicing.  A header is abstracted to
  the batch it encodes and its length; the bytes `[lo, hi)` of it are the
  record `[hdr, lo, hi]`, so two slices are equal exactly when they are the
  same range of the same header.  `GetOrDefault` is `get(lo..hi)
  .unwrap_or_default()` (empty slice out of range), `ToB256` is
  `try_into().unwrap_or_default()` (32 zero bytes unless 32 long),
  `BatchStoreOf` the six fields.  `CodecOffset` and `Genuine` are the
  reference: the offsets of the layout table, written independently of the
  slicing code.
* `ShadowSync.tla`: the syncer and the ledgers.
  * State of the task: `pc` (which await it is at) and the locals
    `latest, cand, nextTx, prevBn, curBn, info, header, myTx`.
  * Syncer actions, one per await: `Tick` (sleep), `GetBlockNumber`,
    `GetLogs` (get_logs with the window, the <3 check, the stable sort by
    block, the second-to-last log as candidate, index 0), `PrevAnchor`,
    `CurAnchor` (the two `batchDataStore` reads), `Resolve` (the block
    loop with failed reads counting 0, the range check of line 211, the
    u64 arithmetic of 215/316, the two ceilings), `GetTx`, `ProveState`,
    `Send`, `Receipt`, `Prove`.  Every error path is a disjunct ending the
    cycle (`EndCycle`), and `Panic` stops the task.  `Restart` is the
    process being killed or crashing and started again.
  * Environment: `CommitBatch` (the sequencer commits batch `i`, whose
    transaction carries header `i-1`, with some L2 blocks and a header
    length), `AdvanceL1`, `IncludeTx` (a pending shadow commit is included,
    succeeding or reverting).
  * u64 arithmetic is taken modulo `2^Width`.  `OverflowChecks` chooses
    the build: TRUE panics on underflow (debug), FALSE wraps (release).
* `ShadowLedger.tla`: the abstract specification, i.e. what the whole
  system promises of the ShadowRollup.  It has only three variables: the
  number of batches on the Rollup (`committed`), the slots (`store`) and
  the proof flags (`proven`).  Its actions:
  * `CommitNext`: the Rollup commits the next batch.
  * `Record(i)`: the genuine commitment of a committed, unproven batch is
    written.
  * `ProveBatch(i)`: a batch whose commitment is recorded is proven.

  It has no task, RPC, crash or pending transaction.  `ShadowSync`
  instantiates it as `Ledger` under the mapping `committed <-
  Len(commitLog)`, `store <- shadowStore`, `proven <- proven`.  The
  property `RefinesShadowLedger` is `Ledger!Spec`.
* `MCShadowSync.tla`: the module the runs check.

## Runs

All runs use 4 batches, a 3-block L1, a scan window of 2 (both branches of
line 172), at most 2 shadow sends, Width 4 and a release build.

* `sync_release` (pass, `ShadowSync.cfg`, about 140k states):
  `TypeOK`, `ShadowLedgerFaithful` (every ShadowRollup slot is empty or
  the genuine fields of that batch), `ProverGetsCommittedBatch` (the prover
  only sees a batch whose shadow commit was included), and
  `NoCommitOfProvenBatch` (no commit is sent for a batch already proven),
  `RefinesShadowLedger` (the system implements `ShadowLedger`), and
  `ProverBatchInvertedByOne` (every batch the prover gets has
  `start_block = end_block + 1`, and only a release build gets there).  The
  refinement adds two things to the invariants:
  * a late commit from a crashed run never changes the slot of a batch
    proven in the meantime;
  * only batches committed on the Rollup get a slot.
  Crashes, restarts between send and receipt, resends and reverts all
  happen.  Batches here may add 0 or 1 L2 block: because of the bug at
  line 211, only a batch that adds no block ever gets past the bounds
  resolver, so without 0 the commit path is never reached.  The anchors are
  data the sequencer supplies and the syncer reads as untrusted, so this is a
  state the code has to cope with.
* `eligible_dropped` (violation): every batch adds one block with one
  transaction, within both ceilings; the design's scenario B says it is
  committed, but line 211 drops it.
* `prover_batch_inverted` (violation): the batch that passes line 211 has
  `start = end + 1`; `end - start + 1` wraps to 0, passes the ceiling, and
  the prover gets `BatchInfo` with `start_block > end_block`.
* `receipt_panic` (violation): `get_receipt().await.unwrap()` panics on an
  RPC error and the loop stops, contrary to design 4.8/7.
* `inflight_after_restart` (violation, `InFlight.cfg`): the design's
  "primary concurrency invariant" says at most one commit is in flight
  (`AtMostOneInFlight`).  It is broken by a restart between send
  (line 141) and receipt (line 149).  The pending transaction lives only in
  a local of `sync_batch`.  The new process re-derives the same unproven
  candidate and sends a second commit.  This is harmless to the ledger,
  because the refinement still holds.  Still, the invariant holds only
  within one process lifetime, not across the restarts the design calls
  safe.
* `short_header_zero_fill` (violation): headers of 200 bytes are committed
  with zero fields instead of being rejected (design 4.5, 9).

Each property of the passing run has a mutant in `ShadowSync.tla`
(`CandidateLogLast`, `ProveStateErrorAsFalse`, `SendStaleIndex`,
`ReceiptIgnoringStatus`, `GetTxHeaderOfLastLog`, `ResolveEmptyRejected`)
that TLC shows breaks it.  `ResolveEmptyRejected` is the range check the
right way round.  With it, a batch with a non-empty range reaches the
prover, and `ProverBatchInvertedByOne` fails.

No fairness is assumed and no liveness property is checked.  The only
liveness property the design states is that an eligible batch is
eventually synced.  It is false because of line 211
(`eligible_dropped` shows that as a safety violation).

The fairness the code justifies is that each await eventually returns,
with a value or a transport error.  In the model, every await has an
error outcome that is always enabled, so under that fairness "the cycle
ends" holds by the shape of the model and says nothing about the code.
Any stronger promise needs fairness on the ledgers and the RPCs, which
the code does not give: that transient errors are not permanent, and that
the ShadowRollup includes every transaction.

## Proofs

The proofs are checked by TLAPS (`tlapm`) for every value of the constants
allowed by `ConstantsAssumption`.

* `ShadowSyncProofs.tla`: `TypeCorrect`, i.e. `Spec => []TypeOK`.  TypeOK
  is not inductive by itself.  GetLogs indexes `commitLog` at the CHOOSE of
  `LastLog` and `CandidateLog`.  GetTx reads `headerLen[nextTx.parent]`.
  IncludeTx writes `shadowStore[txs[k].idx]`.  The inductive invariant
  `TypeInv` therefore adds two things:
  * `LogShape`: the Rollup's logs are sorted by block, there is one per
    batch, and the log of batch k names parent k-1;
  * `IndicesInRange`: every index the task or a transaction holds is a
    batch.

  The lemmas `MaxIsLast` and `CandidateIsPrevious` show what lines 186-200
  and 229 compute on such a log.  When get_logs returns at least three
  logs, the stable sort leaves them in place: the last log is the newest,
  and the candidate is the one before it.
* `ShadowSyncSafetyProofs.tla`: `ShadowLedgerIsFaithful`,
  `ProverOnlyGetsCommittedBatches` and `NoCommitAfterProof`.  All three
  are under the hypothesis `FullHeaders`: every header is at least 217
  bytes.  Without it `ShadowLedgerFaithful` is false
  (`short_header_zero_fill`).  The proofs share the inductive invariant
  `SafetyInv = TypeInv /\ LedgerCoherent /\ TaskCoherent`:
  * `LedgerCoherent`: every committed header length is one of HeaderLens.
    Every sent transaction carries `Genuine(idx)`.  A successful one has
    written it.
  * `TaskCoherent`: the last log's parent is the candidate.  From getTx on,
    the header and the BatchInfo are the candidate's.  From send on, the
    awaited transaction is for the candidate and the candidate was unproven
    at send.  At prove, the receipt was successful.

  `FullHeaderDecodesGenuine` proves that the six `get/try_into` reads
  equal the layout table's offsets on a full header.

* `ShadowSyncRefinementProofs.tla`: `Refinement`, i.e.
  `Spec => RefinesShadowLedger`, under `FullHeaders`.  The proof follows
  the standard layout:
  * the initial state maps to `Ledger!Init`;
  * under an invariant, every step maps to a `Ledger!Next` step or to a
    stutter of `<<Len(commitLog), shadowStore, proven>>`;
  * PTL combines the two.

  The invariant `RefInv` is `SafetyInv` plus `RefinementExtra`:
  * the candidate is never batch 0 once chosen (line 202);
  * every sent commit names a batch already on the Rollup;
  * every proven batch's slot holds its genuine store.

  With the last fact, a late inclusion for a proven batch
  (`IncludeRefines`) is a stutter rather than a `Record`, which needs the
  batch unproven.  `SameCodec` bridges the codec operators seen through
  the instance to those of `BatchHeaderCodec`.

* `ShadowSyncBoundsProofs.tla`: `BoundsInvariant` and
  `ProverBatchAlwaysInverted`, i.e. `Spec => []ProverBatchInvertedByOne`.
  Neither needs a hypothesis on the headers.  Together they show that the
  inverted check at line 211 is no accident of the small instance.  For
  every number of batches, every anchor step and every word width:
  * a batch reaches the prover only in a release build;
  * it always has `start_block = end_block + 1`.

  The inductive invariant `BoundsInv` is `TypeInv /\ AnchorsMonotone /\
  BoundsCoherent`:
  * `AnchorsMonotone`: the Rollup's anchors never decrease, because each
    commit adds a number of L2 blocks (`CommitBatchBounds`);
  * `BoundsCoherent`: the candidate is a committed batch, `prev_bn` and
    `current_bn` are its parent's anchor and its own, and from getTx on
    the BatchInfo was built from them, with `prev_bn + 1 > current_bn`,
    in a release build.

  Anchors, once written, never change.  So the two reads stay equal to the
  stored values across the later awaits.  With them `prev_bn <=
  current_bn`, and the check's `prev_bn + 1 > current_bn` forces equality.
  Without `AnchorsMonotone` the invariant is not inductive: the model
  alone does not rule out `prev_bn > current_bn`.

Checked only by TLC: the violated properties of the other runs.  No liveness
property is stated yet.  TLAPS cannot prove liveness or ENABLED, so these
stay with TLC.

## Plan for later work

* Reorgs of L1 and reverted Rollup batches, so that anchors read in two
  calls can disagree and the scan window can lose logs.
* A fixed bounds resolver (line 211 as the design states it) as a second
  configuration, with the ceilings checked against the true transaction
  count and a liveness property under weak fairness of the loop.
* Reorgs in the abstract specification: a batch re-committed with other
  content, so that `Genuine` depends on the header's version.
* Proofs for the fixed bounds resolver.
