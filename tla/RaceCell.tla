------------------------------ MODULE RaceCell ------------------------------
(***************************************************************************)
(* race::OnceNonZeroUsize: one atomic word, 0 while the cell is empty,     *)
(* that the first compare_exchange fills for good.  OnceBool is such a     *)
(* cell; OnceRef does the same with a pointer that is not null.            *)
(*                                                                         *)
(* One action is one access to the word.  Closures run between accesses,   *)
(* several at once, and may use the cell they are initializing.            *)
(*                                                                         *)
(* Weak memory: a load may miss the only store there is until its thread   *)
(* has read that store or has been synchronized with a thread that has     *)
(* (`aware`); `seen` is whoever sees what the winner did before its call.  *)
(***************************************************************************)
EXTENDS Naturals

CONSTANTS
  Threads,   \* the threads that share the cell
  Values,    \* the words they may store
  None,      \* "no offer"
  Word,      \* the message in `inner`, which may carry happens-before
  MaxDepth,  \* how deep the closures of one thread nest
  Live       \* the threads that the scheduler runs

ASSUME ValuesAssumption == Values \subseteq Nat \ {0}
ASSUME NoneAssumption == None \notin Nat /\ Word \notin Threads
ASSUME MaxDepthAssumption == MaxDepth \in Nat
ASSUME LiveAssumption == Live \subseteq Threads

VARIABLES
  inner,     \* OnceNonZeroUsize::inner
  closures,  \* how many closures of get_or_try_init each thread is running
  offer,     \* what its compare_exchange is about to store, or None
  known,     \* the value its calls have told it, or 0
  aware,     \* the threads that can no longer load an older word
  seen       \* to whom the winner's effects before its call are visible

vars == <<inner, closures, offer, known, aware, seen>>
-----------------------------------------------------------------------------
(* Memory orderings: get, and compare_exchange, success and failure. *)
WrongGetOrdering == "Relaxed"
GetOrdering == "Acquire"
StoreOrdering == "Release"
FailureOrdering == "Acquire"

Init ==
  /\ inner = 0
  /\ closures = [t \in Threads |-> 0]
  /\ offer = [t \in Threads |-> None]
  /\ known = [t \in Threads |-> 0]
  /\ aware = Threads
  /\ seen = {}

(* t runs code of the program: its own, or that of a closure. *)
InProgram(t) == offer[t] = None

(* The word that was stored, even if t has just offered another. *)
WrongAnswer(t) == IF offer[t] = None THEN inner ELSE offer[t]
Answer(t) == inner

Reads(t, ord) ==
  /\ known' = [known EXCEPT ![t] = Answer(t)]
  /\ aware' = aware \cup {t}
  /\ seen' = seen \cup (IF ord = "Acquire" /\ Word \in seen THEN {t} ELSE {})

(* get finds the value, ... *)
Finds(t) == inner # 0 /\ Reads(t, GetOrdering)

(* ... or nothing: a thread that knew better would have forgotten it. *)
Misses(t) ==
  /\ inner = 0 \/ t \notin aware
  /\ known' = [known EXCEPT ![t] = 0]
  /\ UNCHANGED <<aware, seen>>

Get(t) ==
  /\ InProgram(t)
  /\ Finds(t) \/ Misses(t)
  /\ UNCHANGED <<inner, closures, offer>>

(* get_unchecked reads the word as plain memory.  The caller vouches that  *)
(* the cell is full and that what is in it has been acquired.              *)
GetUnchecked(t) ==
  /\ InProgram(t)
  /\ inner # 0 /\ t \in seen
  /\ known' = [known EXCEPT ![t] = inner]
  /\ aware' = aware \cup {t}
  /\ UNCHANGED <<inner, closures, offer, seen>>

GetOrTryInit(t) ==
  /\ InProgram(t)
  /\ \/ Finds(t) /\ UNCHANGED closures
     \/ /\ closures[t] < MaxDepth
        /\ Misses(t)
        /\ closures' = [closures EXCEPT ![t] = @ + 1]
  /\ UNCHANGED <<inner, offer>>

Set(t, v) ==
  /\ InProgram(t)
  /\ offer' = [offer EXCEPT ![t] = v]
  /\ UNCHANGED <<inner, closures, known, aware, seen>>

ClosureSucceeds(t, v) ==
  /\ InProgram(t) /\ closures[t] > 0
  /\ closures' = [closures EXCEPT ![t] = @ - 1]
  /\ offer' = [offer EXCEPT ![t] = v]
  /\ UNCHANGED <<inner, known, aware, seen>>

(* f returned Err, or panicked: nothing is stored. *)
OfferOfFailed == None

ClosureFails(t) ==
  /\ InProgram(t) /\ closures[t] > 0
  /\ closures' = [closures EXCEPT ![t] = @ - 1]
  /\ offer' = [offer EXCEPT ![t] = OfferOfFailed]
  /\ UNCHANGED <<inner, known, aware, seen>>

(* compare_exchange(0, ..). *)
Expected(w) == w = 0

Win(t) ==
  /\ offer[t] # None
  /\ Expected(inner)
  /\ inner' = offer[t]
  /\ offer' = [offer EXCEPT ![t] = None]
  /\ known' = [known EXCEPT ![t] = offer[t]]
  /\ aware' = {t}
  /\ seen' = {t} \cup (IF StoreOrdering = "Release" THEN {Word} ELSE {})
  /\ UNCHANGED closures

(* get_or_try_init goes on with the old value, which its caller gets. set  *)
(* answers Err(()): the caller may go on to get_unchecked.                 *)
WrongAfterLoss(t) == offer
AfterLoss(t) == [offer EXCEPT ![t] = None]

Lose(t) ==
  /\ offer[t] # None
  /\ ~Expected(inner)
  /\ Reads(t, FailureOrdering)
  /\ offer' = AfterLoss(t)
  /\ UNCHANGED <<inner, closures>>

(* The program synchronizes t with u by other means, and coherence then    *)
(* lets u read nothing older than t has read.                              *)
Synchronize(t, u) ==
  /\ InProgram(t) /\ InProgram(u)
  /\ aware' = aware \cup (IF t \in aware THEN {u} ELSE {})
  /\ seen' = seen \cup (IF t \in seen THEN {u} ELSE {})
  /\ UNCHANGED <<inner, closures, offer, known>>
-----------------------------------------------------------------------------
ClosureReturns(t) == ClosureFails(t) \/ \E v \in Values : ClosureSucceeds(t, v)

CompareExchange(t) == Win(t) \/ Lose(t)

Next ==
  \E t \in Threads :
    \/ Get(t) \/ GetUnchecked(t) \/ GetOrTryInit(t) \/ ClosureReturns(t) \/ CompareExchange(t)
    \/ \E v \in Values : Set(t, v)
    \/ \E u \in Threads : Synchronize(t, u)

Spec == Init /\ [][Next]_vars

(* The threads of Live are scheduled, whatever becomes of the others, and  *)
(* each of their closures returns, after any calls of its own.             *)
Fairness ==
  \A t \in Live :
    /\ WF_vars(CompareExchange(t))
    /\ \A d \in 1..MaxDepth : SF_vars(closures[t] = d /\ ClosureReturns(t))

FairSpec == Spec /\ Fairness
-----------------------------------------------------------------------------
\* Every variable has the type of what it models; in particular no offer is the word 0
\* of the empty cell (NonZeroUsize).
TypeOK ==
  /\ inner \in Values \cup {0}
  /\ closures \in [Threads -> 0..MaxDepth]
  /\ offer \in [Threads -> Values \cup {None}]
  /\ known \in [Threads -> Values \cup {0}]
  /\ aware \subseteq Threads
  /\ seen \subseteq Threads \cup {Word}

\* "Any side-effects caused by the setter thread prior to them calling set or
\* get_or_init will be made visible" to a thread that has been told the value, the
\* loser of an exchange included; so get_unchecked does not race with the store either.
EffectsAreVisible == \A t \in Threads : known[t] # 0 => t \in seen

\* A thread that knows the value of the cell is told the same one ever after: get does
\* not go back to None, and no later store replaces what others have read.
AnswersNeverChange == [][\A t \in Threads : known[t] # 0 => known'[t] = known[t]]_vars

\* A call returns although every other thread may have stopped, be it in the middle of a
\* call or of a closure: nothing blocks.
CallsReturn ==
  \A t \in Live : (closures[t] > 0 \/ offer[t] # None) ~> (closures[t] = 0 /\ offer[t] = None)

ValueOf(w) == IF w = 0 THEN None ELSE w

Race ==
  INSTANCE FirstWins WITH
    chosen <- ValueOf(inner),
    known <- [t \in Threads |-> ValueOf(known[t])]

\* One value is chosen among those offered, it stays, and it is what every get, every
\* get_or_try_init and every get_unchecked returns, the losers' included.
IsFirstWins == Race!Spec
=============================================================================
