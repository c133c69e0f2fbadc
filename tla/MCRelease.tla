----------------------------- MODULE MCRelease -----------------------------
EXTENDS Release, TLC

CONSTANTS c1, c2, c3, c4, j1, j2

(* c1 and c2 have one version; c3 bumps it and forgets Cargo.lock.msrv,    *)
(* which c4 repairs.                                                       *)
BumpedOnce ==
  c1 :> "1.21.3" @@ c2 :> "1.21.3" @@ c3 :> "1.21.4" @@ c4 :> "1.21.4"

=============================================================================
