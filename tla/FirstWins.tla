----------------------------- MODULE FirstWins -----------------------------
(***************************************************************************)
(* What the cells of src/race.rs promise: several threads may offer a      *)
(* value, one offer is chosen, and the chosen value is the only one that   *)
(* anybody is ever told, over and over again.                              *)
(***************************************************************************)
CONSTANTS
  Threads,  \* the threads that share the cell
  Values,   \* what they may offer
  None      \* "no value"

VARIABLES
  chosen,   \* the value of the cell, or None
  offer,    \* what each thread is offering, or None
  known     \* what each thread has been told that the cell holds, or None

vars == <<chosen, offer, known>>

Init ==
  /\ chosen = None
  /\ offer = [t \in Threads |-> None]
  /\ known = [t \in Threads |-> None]

(* A thread calls set, or the closure it passed to get_or_try_init returns. *)
Offer(t) ==
  /\ offer[t] = None
  /\ \E v \in Values : offer' = [offer EXCEPT ![t] = v]
  /\ UNCHANGED <<chosen, known>>

Win(t) ==
  /\ offer[t] # None
  /\ chosen = None
  /\ chosen' = offer[t]
  /\ offer' = [offer EXCEPT ![t] = None]
  /\ known' = [known EXCEPT ![t] = chosen']

Lose(t) ==
  /\ offer[t] # None
  /\ chosen # None
  /\ offer' = [offer EXCEPT ![t] = None]
  /\ known' = [known EXCEPT ![t] = chosen]
  /\ UNCHANGED chosen

(* A thread that reads the cell need not find the value, but there is no   *)
(* other value to find.                                                    *)
Learn(t) ==
  /\ chosen # None
  /\ known' = [known EXCEPT ![t] = chosen]
  /\ UNCHANGED <<chosen, offer>>

Next == \E t \in Threads : Offer(t) \/ Win(t) \/ Lose(t) \/ Learn(t)

Spec == Init /\ [][Next]_vars
=============================================================================
