---------------------------- MODULE ShadowLedger ----------------------------
(***************************************************************************)
(* What the shadow-proving process promises of the ShadowRollup, seen     *)
(* from the ledgers alone (design 2 and 4.4-4.8): the canonical Rollup     *)
(* commits batches one after the other; the ShadowRollup records, for a    *)
(* committed batch that is not proven yet, the commitment of that very     *)
(* batch (the six BatchStore fields at the codec's offsets of its own      *)
(* header); and a batch is proven only once its commitment is recorded.    *)
(* A recorded commitment is never overwritten by anything else, and the    *)
(* slot of a proven batch never changes again.                             *)
(*                                                                         *)
(* No syncer task, RPC, crash or pending transaction appears here: the     *)
(* detailed specification ShadowSync is shown to implement this one under *)
(* the refinement mapping of ShadowSync!Ledger.                            *)
(***************************************************************************)
EXTENDS Naturals, BatchHeaderCodec

CONSTANT MaxBatch       \* the canonical rollup commits batches 1..MaxBatch

VARIABLES
    committed,   \* the number of batches committed on the canonical Rollup
    store,       \* the ShadowRollup's BatchStore for each batch index
    proven       \* the batches with isProveSuccess = true

abstractVars == <<committed, store, proven>>

\* Batch indices; 0 is the genesis batch.
LedgerBatches == 0 .. MaxBatch

Init ==
    /\ committed = 0
    /\ store = [i \in LedgerBatches |-> NoStore]
    /\ proven = {}

\* The canonical Rollup commits the next batch.
CommitNext ==
    /\ committed < MaxBatch
    /\ committed' = committed + 1
    /\ UNCHANGED <<store, proven>>

\* The ShadowRollup records the genuine commitment of a committed batch
\* that is not proven yet.
Record(i) ==
    /\ i \in 1 .. committed
    /\ i \notin proven
    /\ store' = [store EXCEPT ![i] = Genuine(i)]
    /\ UNCHANGED <<committed, proven>>

\* A committed batch whose commitment is recorded is proven.
ProveBatch(i) ==
    /\ i \in 1 .. committed
    /\ store[i] = Genuine(i)
    /\ proven' = proven \cup {i}
    /\ UNCHANGED <<committed, store>>

Next == CommitNext \/ \E i \in 1 .. MaxBatch : Record(i) \/ ProveBatch(i)

Spec == Init /\ [][Next]_abstractVars
=============================================================================
