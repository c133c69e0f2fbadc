------------------------------- MODULE MCImpPl -------------------------------
(* ImpPl on small sets of threads. *)
EXTENDS ImpPl, TLC

CONSTANTS t1, t2, t3

(* Every thread may make any call. *)
AnyCalls == [t \in Threads |-> {"get", "init", "wait"}]
=============================================================================
