------------------------------ MODULE MCImpStd ------------------------------
(* ImpStd on small sets of threads, and on words of six bits. *)
EXTENDS QueueWords, TLC

CONSTANTS t1, t2, t3

Symmetry == Permutations(Threads)

(* Programs: every thread may make any call; or each has a part to play. *)
AnyCalls == [t \in Threads |-> {"get", "init", "wait"}]
BlockingCalls == [t \in Threads |-> {"init", "wait"}]
PartCalls == [t \in Threads |-> IF t = t3 THEN {"wait"} ELSE {"init"}]

(* Stacks at both ends of the address space: as an isize, one is negative. *)
Slots == [t \in Threads |-> IF t = t1 THEN 15 ELSE IF t = t2 THEN 1 ELSE 2]
=============================================================================
