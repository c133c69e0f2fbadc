------------------------------- MODULE MCLazy -------------------------------
(* Lazy with functions that use each other: those of sync, a and b, in no  *)
(* cycle, and those of unsync, c and d, in any way.  The latter are in     *)
(* thread-local storage, where the function of a finds its thread's own.   *)
EXTENDS Lazy, TLC

CONSTANTS t1, t2, a, b, c, d

MixedNeeds == a :> {b, c} @@ b :> {} @@ c :> {b, c, d} @@ d :> {c, d}
=============================================================================
