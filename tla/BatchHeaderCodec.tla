-------------------------- MODULE BatchHeaderCodec --------------------------
(***************************************************************************)
(* The decoding of a committed batch header into the ShadowRollup          *)
(* BatchStore (shadow_rollup.rs, sync_batch, lines 78-125).                *)
(*                                                                         *)
(* A header is the parentBatchHeader blob of a Rollup.commitBatch call.    *)
(* Its bytes are abstracted by what a property can tell apart: the batch   *)
(* whose header it is (id) and its length in bytes (len).  The bytes       *)
(* [lo, hi) of header h are the value [hdr |-> h.id, lo |-> lo, hi |-> hi]:*)
(* two slices are equal exactly when they are the same range of the same  *)
(* header.                                                                 *)
(***************************************************************************)
EXTENDS Integers

\* A header blob: the batch it encodes and its length in bytes.
Header(id, len) == [id |-> id, len |-> len]

\* The bytes [lo, hi) of header h.
Bytes(h, lo, hi) == [hdr |-> h.id, lo |-> lo, hi |-> hi]

\* The empty byte slice, &[] (what unwrap_or_default gives for a slice).
EmptySlice == [hdr |-> -1, lo |-> 0, hi |-> 0]

\* B256::default(): 32 zero bytes.
ZeroB256 == [hdr |-> -1, lo |-> 0, hi |-> 32]

\* Bytes::get(lo..hi): the slice when the range lies inside the blob, else
\* None; .unwrap_or_default() turns None into the empty slice.
GetOrDefault(h, lo, hi) ==
    IF lo <= hi /\ hi <= h.len THEN Bytes(h, lo, hi) ELSE EmptySlice

\* <[u8; 32]>::try_from(slice).unwrap_or_default(): the slice when it is 32
\* bytes long, else 32 zero bytes.
ToB256(s) == IF s.hi - s.lo = 32 THEN s ELSE ZeroB256

\* The ShadowRollup::BatchStore that sync_batch assembles from a header.
BatchStoreOf(h) ==
    [prevStateRoot          |-> ToB256(GetOrDefault(h, 89, 121)),
     postStateRoot          |-> ToB256(GetOrDefault(h, 121, 153)),
     withdrawalRoot         |-> ToB256(GetOrDefault(h, 153, 185)),
     dataHash               |-> ToB256(GetOrDefault(h, 25, 57)),
     blobVersionedHash      |-> ToB256(GetOrDefault(h, 57, 89)),
     sequencerSetVerifyHash |-> ToB256(GetOrDefault(h, 185, 217))]

\* The names of the six BatchStore fields.
StoreFields == {"prevStateRoot", "postStateRoot", "withdrawalRoot",
                "dataHash", "blobVersionedHash", "sequencerSetVerifyHash"}

\* A value of a 32-byte field: a 32-byte range of some header, or zeros.
B256Values(ids) ==
    [hdr : ids \cup {-1}, lo : Nat, hi : Nat]

-----------------------------------------------------------------------------
(***************************************************************************)
(* The reference: the offsets of BatchHeaderCodecV1.sol, as the comment of *)
(* sync_batch and the layout table of the design give them, independently *)
(* of the slicing code above.                                              *)
(***************************************************************************)
CodecOffset ==
    [dataHash |-> 25, blobVersionedHash |-> 57, prevStateRoot |-> 89,
     postStateRoot |-> 121, withdrawalRoot |-> 153, sequencerSetVerifyHash |-> 185]

\* The genuine commitment of batch i: each field is the 32 bytes at its
\* codec offset in batch i's header.
Genuine(i) ==
    [f \in DOMAIN CodecOffset |->
        [hdr |-> i, lo |-> CodecOffset[f], hi |-> CodecOffset[f] + 32]]

\* The BatchStore a ledger slot holds before any commit: all zeros.
NoStore == [f \in StoreFields |-> ZeroB256]

\* The length from which every field of the layout lies inside the header.
FullHeaderLen == 217
=============================================================================
