---------------------------- MODULE OnceCellSpec ----------------------------
(***************************************************************************)
(* What sync::OnceCell promises its callers, whichever of imp_std, imp_pl  *)
(* and imp_cs implements it: at most one initializing function runs at a   *)
(* time, the first one that succeeds fixes the value, every later caller   *)
(* returns that value, a function that fails leaves the cell empty, and    *)
(* only exclusive access (take) empties the cell again.                    *)
(***************************************************************************)
CONSTANTS
  Threads,  \* the threads that share the cell
  Null      \* "no value"

VARIABLES
  value,    \* the thread whose function (or with_value) made the value, or Null
  phase     \* what each thread is doing with the cell

vars == <<value, phase>>

Phases == {"idle", "trying", "waiting", "running", "failed"}

(* A cell made by new() is empty, one made by with_value is full. *)
Init ==
  /\ value \in Threads \cup {Null}
  /\ phase = [t \in Threads |-> "idle"]

(* get_or_try_init and its wrappers are "trying"; wait, and a get that     *)
(* found the cell full, are "waiting" for the value.                       *)
Call(t) ==
  /\ phase[t] = "idle"
  /\ \E p \in {"trying", "waiting"} : phase' = [phase EXCEPT ![t] = p]
  /\ UNCHANGED value

Start(t) ==
  /\ phase[t] = "trying"
  /\ value = Null
  /\ \A u \in Threads : phase[u] # "running"
  /\ phase' = [phase EXCEPT ![t] = "running"]
  /\ UNCHANGED value

Succeed(t) ==
  /\ phase[t] = "running"
  /\ value' = t
  /\ phase' = [phase EXCEPT ![t] = "trying"]

(* The call may go on for a while, to notify the threads it kept waiting. *)
Fail(t) ==
  /\ phase[t] = "running"
  /\ \E p \in {"idle", "failed"} : phase' = [phase EXCEPT ![t] = p]
  /\ UNCHANGED value

Return(t) ==
  /\ \/ phase[t] \in {"trying", "waiting"} /\ value # Null
     \/ phase[t] = "failed"
  /\ phase' = [phase EXCEPT ![t] = "idle"]
  /\ UNCHANGED value

Take ==
  /\ \A t \in Threads : phase[t] = "idle"
  /\ value' = Null
  /\ UNCHANGED phase

Next ==
  \/ \E t \in Threads : Call(t) \/ Start(t) \/ Succeed(t) \/ Fail(t) \/ Return(t)
  \/ Take

Spec == Init /\ [][Next]_vars

(* Nobody who can return stays, and an empty cell that somebody tries to   *)
(* initialize and nobody is initializing does not stay that way.           *)
Fairness ==
  /\ \A t \in Threads : WF_vars(Return(t))
  /\ WF_vars(\E t \in Threads : Start(t))

FairSpec == Spec /\ Fairness

=============================================================================
