---------------------------- MODULE MCShadowSync ----------------------------
(***************************************************************************)
(* Small instances of ShadowSync for TLC.  The constants are given in the  *)
(* .cfg files: a handful of batches, a three-block L1, a two-block scan    *)
(* window (so that both branches of the window start are taken) and a     *)
(* 4-bit block-number width (so that the u64 wrap is reached).            *)
(***************************************************************************)
EXTENDS ShadowSync
=============================================================================
