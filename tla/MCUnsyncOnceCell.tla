-------------------------- MODULE MCUnsyncOnceCell --------------------------
(* UnsyncOnceCell with a few values. *)
EXTENDS UnsyncOnceCell, TLC

CONSTANTS v1, v2, v3, v4
=============================================================================
