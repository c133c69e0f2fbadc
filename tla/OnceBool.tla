------------------------------ MODULE OnceBool ------------------------------
(***************************************************************************)
(* race::OnceBool: a OnceNonZeroUsize that holds the word of a bool.       *)
(***************************************************************************)
EXTENDS RaceCell

to_usize(value) == IF value THEN 1 ELSE 2

WrongFromUsize(value) == value # 0
from_usize(value) == value = 1

(* The words that set and the closures of get_or_try_init offer. *)
Words == {to_usize(b) : b \in BOOLEAN}

ASSUME BoolAssumption == Values \subseteq Words /\ None \notin BOOLEAN
-----------------------------------------------------------------------------
(* The bool that the program passed in for a word. *)
Given(w) == CHOOSE b \in BOOLEAN : to_usize(b) = w

Bools ==
  INSTANCE FirstWins WITH
    Values <- BOOLEAN,
    chosen <- IF inner = 0 THEN None ELSE Given(inner),
    offer <- [t \in Threads |-> IF offer[t] = None THEN None ELSE Given(offer[t])],
    known <- [t \in Threads |-> IF known[t] = 0 THEN None ELSE from_usize(known[t])]

\* One of the bools that were passed in is chosen, and everybody is told that one, although
\* it goes through a word on the way; false is not taken for an empty cell.
IsFirstBool == Bools!Spec
=============================================================================
