--------------------------- MODULE UnsyncOnceCell ---------------------------
(***************************************************************************)
(* unsync::OnceCell: an Option in an UnsafeCell.  Nothing runs at the same *)
(* time, but the closure of get_or_try_init is program code that may call  *)
(* the cell it initializes, so calls nest; `closures` counts those whose   *)
(* closure is running.  `refs` are the values that the program has         *)
(* references to, which borrow the cell.                                   *)
(***************************************************************************)
EXTENDS Naturals, Slot

CONSTANTS
  Values,   \* what the cell may hold
  MaxDepth  \* how deep closures nest (a bound of the model)

ASSUME UnsyncAssumption == Null \notin Values /\ MaxDepth \in Nat

VARIABLE closures

vars == <<inner, closures, refs>>
-----------------------------------------------------------------------------
(* new() and with_value(). *)
Init ==
  /\ inner \in Values \cup {Null}
  /\ closures = 0
  /\ refs = {}

(* try_insert writes only if get finds nothing: this is what set is to the *)
(* program, and to the end of get_or_try_init.                             *)
WrongVacant == TRUE
Vacant == inner = Null

TryInsert(v) ==
  /\ Vacant
  /\ inner' = v

(* A reference goes out to the program, ... *)
Get ==
  /\ inner # Null
  /\ refs' = refs \cup {inner}
  /\ UNCHANGED <<inner, closures>>

(* ... and is given up. *)
EndBorrow ==
  /\ \E v \in refs : refs' = refs \ {v}
  /\ UNCHANGED <<inner, closures>>

Set(v) ==
  /\ TryInsert(v)
  /\ UNCHANGED <<closures, refs>>

(* get_or_try_init finds nothing, and calls f. *)
BeginInit ==
  /\ inner = Null
  /\ closures < MaxDepth
  /\ closures' = closures + 1
  /\ UNCHANGED <<inner, refs>>

InitSucceeds(v) ==
  /\ closures > 0
  /\ TryInsert(v)
  /\ closures' = closures - 1
  /\ UNCHANGED refs

(* f returned a value, but a call of its own has filled the cell: panic. *)
ReentrantInit ==
  /\ closures > 0
  /\ ~Vacant
  /\ closures' = closures - 1
  /\ UNCHANGED <<inner, refs>>

(* f returned Err, or panicked. *)
InitFails ==
  /\ closures > 0
  /\ closures' = closures - 1
  /\ UNCHANGED <<inner, refs>>

(* take and into_inner have the cell to themselves: &mut self, self. *)
Take ==
  /\ closures = 0 /\ refs = {}
  /\ inner' = Null
  /\ UNCHANGED <<closures, refs>>

(* get_mut: so does the program that puts another value in the place of    *)
(* the one it gets; clone_from does, too.                                  *)
GetMut(v) ==
  /\ closures = 0 /\ refs = {}
  /\ inner # Null
  /\ inner' = v
  /\ UNCHANGED <<closures, refs>>
-----------------------------------------------------------------------------
Next ==
  \/ Get \/ EndBorrow \/ BeginInit \/ ReentrantInit \/ InitFails \/ Take
  \/ \E v \in Values : Set(v) \/ InitSucceeds(v) \/ GetMut(v)

Spec == Init /\ [][Next]_vars
-----------------------------------------------------------------------------
\* Every variable has the type of what it models.
TypeOK ==
  /\ inner \in Values \cup {Null}
  /\ closures \in 0..MaxDepth
  /\ refs \subseteq Values

\* Written at most once, but for exclusive access.
WrittenOnce == [][inner # Null /\ inner' # inner => refs = {} /\ closures = 0]_vars
=============================================================================
