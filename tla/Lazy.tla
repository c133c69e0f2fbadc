-------------------------------- MODULE Lazy --------------------------------
(***************************************************************************)
(* sync::Lazy and unsync::Lazy, which are the same text over two kinds of  *)
(* OnceCell: a cell, and the function that makes its value, which is taken *)
(* out of `init` before it is called.  There are several Lazies, whose     *)
(* functions force each other.                                             *)
(*                                                                         *)
(* The cells are those of OnceCellSpec.  A cell of unsync is used by one   *)
(* thread, and it (as a cell of imp_cs) lets the thread that runs a        *)
(* closure for it run another one inside of that.                          *)
(***************************************************************************)
EXTENDS Naturals, Sequences, SequencesExt

CONSTANTS
  Threads,
  Lazies,
  Null,      \* None
  Needs,     \* Needs[l] are the Lazies that the function of l may use
  Unsync,    \* the Lazies of unsync, the others being of sync
  Home,      \* the thread that those of unsync belong to
  MaxDepth   \* how deep calls nest (a bound of the model)

ASSUME LazyAssumption ==
  /\ Null \notin Threads
  /\ Needs \in [Lazies -> SUBSET Lazies]
  /\ Unsync \subseteq Lazies
  /\ Home \in Threads
  /\ MaxDepth \in Nat

VARIABLES
  value,  \* Lazy::cell: the thread that ran the function, or Null
  init,   \* Lazy::init: whether the function is there
  fate,   \* what has become of the function
  calls   \* the calls that each thread is in, the innermost one last

vars == <<value, init, fate, calls>>
-----------------------------------------------------------------------------
(* A call of `lazy` is in the `cell` (in get_or_init or at its end), in    *)
(* the `closure` before init.take(), or in `f`.                            *)
InUse(l) == \E t \in Threads : \E i \in DOMAIN calls[t] : calls[t][i].lazy = l

RunsF(t, l) == \E i \in DOMAIN calls[t] : calls[t][i].lazy = l /\ calls[t][i].at = "f"

Initializing(t, l) ==
  \E i \in DOMAIN calls[t] : calls[t][i].lazy = l /\ calls[t][i].at # "cell"

At(t, p) == calls[t] # <<>> /\ Last(calls[t]).at = p

This(t) == Last(calls[t]).lazy

GotoIn(t, p) == calls' = [calls EXCEPT ![t][Len(calls[t])].at = p]

(* The call returns, or a panic leaves it; what called it may catch that.  *)
Leave(t) == calls' = [calls EXCEPT ![t] = Front(@)]

Init ==
  /\ value = [l \in Lazies |-> Null]
  /\ init = [l \in Lazies |-> TRUE]
  /\ fate = [l \in Lazies |-> "new"]
  /\ calls = [t \in Threads |-> <<>>]

(* The program, or a function, calls.  unsync::Lazy is not Sync; force_mut *)
(* has the Lazy to itself.                                                 *)
Call(t, l, of) ==
  /\ l \in Unsync => t = Home
  /\ \/ calls[t] = <<>>
     \/ At(t, "f") /\ l \in Needs[This(t)] /\ Len(calls[t]) < MaxDepth
  /\ IF of = "force_mut" THEN ~InUse(l)
     ELSE \A u \in Threads : \A i \in DOMAIN calls[u] :
            calls[u][i].lazy = l => calls[u][i].of = "force"
  /\ calls' = [calls EXCEPT ![t] = Append(@, [lazy |-> l, of |-> of, at |-> "cell"])]
  /\ UNCHANGED <<value, init, fate>>

(* get_or_init calls its closure; force_mut finds the cell empty.          *)
Start(t) ==
  /\ At(t, "cell")
  /\ value[This(t)] = Null
  /\ \A u \in Threads : Initializing(u, This(t)) => This(t) \in Unsync
  /\ GotoIn(t, "closure")
  /\ UNCHANGED <<value, init, fate>>

(* this.init.take(), and f is called. *)
WrongTaken == TRUE
Taken == FALSE

TakeInit(t) ==
  /\ At(t, "closure")
  /\ init[This(t)]
  /\ init' = [init EXCEPT ![This(t)] = Taken]
  /\ fate' = [fate EXCEPT ![This(t)] = "running"]
  /\ GotoIn(t, "f")
  /\ UNCHANGED value

(* "Lazy instance has previously been poisoned", or its function is        *)
(* running right now, on this thread.                                      *)
WrongPoisoned(t) == GotoIn(t, "cell")
Poisoned(t) == Leave(t)

FindNone(t) ==
  /\ At(t, "closure")
  /\ ~init[This(t)]
  /\ Poisoned(t)
  /\ UNCHANGED <<value, init, fate>>

(* The value goes into the cell; force_mut puts a new cell in its place.   *)
(* A cell filled by someone else in between would panic: "reentrant init". *)
Return(t) ==
  /\ At(t, "f")
  /\ fate' = [fate EXCEPT ![This(t)] = "returned"]
  /\ IF Last(calls[t]).of = "force_mut" \/ value[This(t)] = Null
     THEN value' = [value EXCEPT ![This(t)] = t] /\ GotoIn(t, "cell")
     ELSE Leave(t) /\ UNCHANGED value
  /\ UNCHANGED init

(* A panic in f leaves the cell as it was, and f is gone. *)
Panic(t) ==
  /\ At(t, "f")
  /\ fate' = [fate EXCEPT ![This(t)] = "panicked"]
  /\ Leave(t)
  /\ UNCHANGED <<value, init>>

(* The call has a value to return. *)
Get(t) ==
  /\ At(t, "cell")
  /\ value[This(t)] # Null
  /\ Leave(t)
  /\ UNCHANGED <<value, init, fate>>

(* into_value consumes the Lazy; the program makes another one. *)
IntoValue(l) ==
  /\ ~InUse(l)
  /\ value' = [value EXCEPT ![l] = Null]
  /\ init' = [init EXCEPT ![l] = TRUE]
  /\ fate' = [fate EXCEPT ![l] = "new"]
  /\ UNCHANGED calls
-----------------------------------------------------------------------------
Ends(t) == Return(t) \/ Panic(t)

InClosure(t) == TakeInit(t) \/ FindNone(t)

Next ==
  \/ \E t \in Threads :
       \/ \E l \in Lazies, of \in {"force", "force_mut"} : Call(t, l, of)
       \/ Start(t) \/ InClosure(t) \/ Ends(t) \/ Get(t)
  \/ \E l \in Lazies : IntoValue(l)

Spec == Init /\ [][Next]_vars

(* What OnceCellSpec promises, and that functions return, after any calls  *)
(* of their own.                                                           *)
Fairness ==
  /\ \A l \in Lazies : WF_vars(\E t \in Threads : Start(t) /\ This(t) = l)
  /\ \A t \in Threads :
       /\ WF_vars(InClosure(t) \/ Get(t))
       /\ \A d \in 1..MaxDepth : SF_vars(Len(calls[t]) = d /\ Ends(t))

FairSpec == Spec /\ Fairness
-----------------------------------------------------------------------------
Frames ==
  [lazy : Lazies, of : {"force", "force_mut"}, at : {"cell", "closure", "f"}]

\* Every variable has the type of what it models.
TypeOK ==
  /\ value \in [Lazies -> Threads \cup {Null}]
  /\ init \in [Lazies -> BOOLEAN]
  /\ fate \in [Lazies -> {"new", "running", "returned", "panicked"}]
  /\ calls \in [Threads -> Seq(Frames)]

\* A Lazy has its function as long as that was not called, and a value if and only if the
\* function has returned; it is running if and only if a call is in it.  So what is left is
\* poisoned, and into_value, which looks at the value and then at the function, gives the
\* right answer.
FunctionOrValue ==
  \A l \in Lazies :
    /\ init[l] <=> fate[l] = "new"
    /\ value[l] # Null <=> fate[l] = "returned"
    /\ (\E t \in Threads : RunsF(t, l)) <=> fate[l] = "running"

\* The function of a Lazy is called at most once, also if it panics: the Lazy stays
\* poisoned until it is consumed, and what has returned keeps its value.
CalledOnce ==
  [][\A l \in Lazies :
       fate'[l] # fate[l] =>
         \/ fate[l] = "new" /\ fate'[l] = "running"
         \/ fate[l] = "running" /\ fate'[l] \in {"returned", "panicked"}
         \/ ~InUse(l) /\ fate'[l] = "new"]_vars

\* No call blocks for ever, unless calls on poisoned Lazies keep overtaking it: threads
\* whose Lazies need each other, in no cycle, do not wait for each other.
CallsReturn ==
  \A t \in Threads :
    <>[](calls[t] # <<>>) => []<><<\E u \in Threads : FindNone(u) /\ Leave(u)>>_vars

Phase(t, l) ==
  IF Initializing(t, l) THEN "running"
  ELSE IF \E i \in DOMAIN calls[t] : calls[t][i].lazy = l THEN "trying"
  ELSE "idle"

Cell(l) ==
  INSTANCE OnceCellSpec WITH
    value <- value[l],
    phase <- [t \in Threads |-> Phase(t, l)]

\* The cell of a sync::Lazy goes through what OnceCellSpec lets it, force_mut and
\* into_value included: so a Lazy asks no more of its cell than the implementations are
\* shown to give.
AreOnceCells == [][\A l \in Lazies \ Unsync : Cell(l)!Next \/ UNCHANGED Cell(l)!vars]_vars
=============================================================================
