------------------------------- MODULE ImpCs -------------------------------
(***************************************************************************)
(* sync::OnceCell over src/imp_cs.rs: a flag, and an unsync::OnceCell that *)
(* is initialized inside a critical section.  The section, external, is    *)
(* one lock for all, which the thread that holds it may enter again; so a  *)
(* closure that calls its own cell is stopped by the unsync cell alone.    *)
(*                                                                         *)
(* One action is one access to the flag, or the entry to or exit from the  *)
(* section.  `aware` are those that can no longer load an old flag; `seen` *)
(* are those to whom the last write of the value happens before.           *)
(***************************************************************************)
EXTENDS Naturals, Slot

CONSTANTS
  Threads,   \* the threads that share the cell
  Flag,      \* the message in `initialized`, and
  Section,   \* the lock of the section: what else can carry happens-before
  MaxDepth   \* how deep closures nest (a bound of the model)

ASSUME ThreadsAssumption ==
  /\ {Null, Flag, Section} \cap Threads = {} /\ Flag # Section
  /\ MaxDepth \in Nat /\ Null \notin Threads \X (1..MaxDepth)

VARIABLES
  initialized,  \* OnceCell::initialized
  closures,     \* how many closures the holder of the section is running
  holder,       \* the thread in the section, or Null
  pc,           \* the next step of each thread
  aware, seen

vars == <<initialized, inner, closures, refs, holder, pc, aware, seen>>

(* A value is known by the thread and the depth of the closure that made   *)
(* it.                                                                     *)
Closures == Threads \X (1..MaxDepth)

Unsync == INSTANCE UnsyncOnceCell WITH Values <- Closures
-----------------------------------------------------------------------------
(* Memory orderings: is_initialized, and the store in initialize. *)
WrongFlagLoad == "Relaxed"
FlagLoad == "Acquire"
FlagStore == "Release"

Init ==
  /\ Unsync!Init
  /\ initialized = (inner # Null)
  /\ holder = Null
  /\ pc = [t \in Threads |-> "idle"]
  /\ aware = Threads \cup {Section}
  /\ seen = Threads \cup {Section}

Goto(t, l) == pc' = [pc EXCEPT ![t] = l]

InClosure(t) == holder = t /\ closures > 0

(* Back to the closure that called, or to the program. *)
Home(t) == IF InClosure(t) THEN "closure" ELSE "idle"

InProgram(t) == pc[t] = Home(t)

LoadsTrue(t) ==
  /\ initialized
  /\ aware' = aware \cup {t}
  /\ seen' = seen \cup (IF FlagLoad = "Acquire" /\ Flag \in seen THEN {t} ELSE {})

LoadsFalse(t) ==
  /\ ~initialized \/ t \notin aware
  /\ UNCHANGED <<aware, seen>>

(* get, and the fast path of get_or_try_init. *)
Get(t) ==
  /\ InProgram(t)
  /\ LoadsTrue(t)
  /\ Goto(t, "read")
  /\ UNCHANGED <<initialized, inner, closures, refs, holder>>

GetOrTryInit(t) ==
  /\ InProgram(t)
  /\ InClosure(t) => closures < MaxDepth
  /\ LoadsFalse(t)
  /\ Goto(t, "enter")
  /\ UNCHANGED <<initialized, inner, closures, refs, holder>>

(* critical_section::with, and the get of the unsync cell. *)
Enter(t) ==
  /\ pc[t] = "enter"
  /\ holder \in {Null, t}
  /\ holder' = t
  /\ aware' = aware \cup (IF Section \in aware THEN {t} ELSE {})
  /\ seen' = seen \cup (IF Section \in seen THEN {t} ELSE {})
  /\ \/ Unsync!BeginInit /\ Goto(t, "closure")
     \/ inner # Null /\ Goto(t, "store") /\ UNCHANGED <<inner, closures, refs>>
  /\ UNCHANGED initialized

ClosureSucceeds(t) ==
  /\ pc[t] = "closure"
  /\ \/ Unsync!InitSucceeds(<<t, closures>>) /\ Goto(t, "store") /\ seen' = {t}
     \/ Unsync!ReentrantInit /\ Goto(t, "fail") /\ UNCHANGED seen
  /\ UNCHANGED <<initialized, holder, aware>>

(* Err and a panic pass by the store of the flag. *)
WrongAfterFailure == "store"
AfterFailure == "fail"

ClosureFails(t) ==
  /\ pc[t] = "closure"
  /\ Unsync!InitFails
  /\ Goto(t, AfterFailure)
  /\ UNCHANGED <<initialized, holder, aware, seen>>

(* A second store of the flag leaves those unaware that were. *)
Store(t) ==
  /\ pc[t] = "store"
  /\ initialized' = TRUE
  /\ aware' = IF initialized THEN aware \cup {t} ELSE {t}
  /\ seen' = (seen \ {Flag}) \cup (IF FlagStore = "Release" /\ t \in seen THEN {Flag} ELSE {})
  /\ Goto(t, "leave")
  /\ UNCHANGED <<inner, closures, refs, holder>>

(* Only the outermost call gives the section up. *)
WrongReleased(t) == Null
WrongStillHeld(t) == t
Released(t) == IF closures = 0 THEN Null ELSE t

Leave(t) ==
  /\ pc[t] \in {"leave", "fail"}
  /\ holder' = Released(t)
  /\ aware' = aware \cup (IF t \in aware THEN {Section} ELSE {})
  /\ seen' = seen \cup (IF t \in seen THEN {Section} ELSE {})
  /\ Goto(t, IF pc[t] = "leave" THEN "read" ELSE Home(t))
  /\ UNCHANGED <<initialized, inner, closures, refs>>

(* get_unchecked, outside of any section. *)
GetUnchecked(t) ==
  /\ pc[t] = "read"
  /\ Unsync!Get
  /\ Goto(t, Home(t))
  /\ UNCHANGED <<initialized, holder, aware, seen>>

EndBorrow ==
  /\ Unsync!EndBorrow
  /\ UNCHANGED <<initialized, holder, pc, aware, seen>>

(* take and into_inner: &mut self, so no call is in progress and the       *)
(* program has synchronized its threads.                                   *)
Take ==
  /\ \A t \in Threads : pc[t] = "idle"
  /\ Unsync!Take
  /\ initialized' = FALSE
  /\ aware' = Threads \cup {Section}
  /\ seen' = Threads \cup {Section}
  /\ UNCHANGED <<holder, pc>>
-----------------------------------------------------------------------------
Step(t) == Enter(t) \/ Store(t) \/ Leave(t) \/ GetUnchecked(t)

ClosureReturns(t) == ClosureSucceeds(t) \/ ClosureFails(t)

Next ==
  \/ \E t \in Threads : Get(t) \/ GetOrTryInit(t) \/ ClosureReturns(t) \/ Step(t)
  \/ EndBorrow
  \/ Take

Spec == Init /\ [][Next]_vars

(* Threads are scheduled, and each closure returns, after any calls of its *)
(* own.                                                                    *)
Fairness ==
  \A t \in Threads :
    /\ WF_vars(Step(t))
    /\ \A d \in 1..MaxDepth : SF_vars(closures = d /\ ClosureReturns(t))

FairSpec == Spec /\ Fairness
-----------------------------------------------------------------------------
PCs == {"idle", "read", "enter", "closure", "store", "leave", "fail"}

\* Every variable has the type of what it models.
TypeOK ==
  /\ initialized \in BOOLEAN
  /\ Unsync!TypeOK
  /\ holder \in Threads \cup {Null}
  /\ pc \in [Threads -> PCs]
  /\ aware \subseteq Threads \cup {Section}
  /\ seen \subseteq Threads \cup {Flag, Section}

\* The unsync cell, which is not thread-safe, is used by one thread at a time: only the
\* holder of the section is inside it, also while closures nest.
OneInside ==
  /\ \A t \in Threads : pc[t] \in {"closure", "store", "leave", "fail"} => holder = t
  /\ closures > 0 => holder # Null

\* Whoever goes on to get_unchecked finds a value, in particular after a closure failed.
ReadsAreInitialized == \A t \in Threads : pc[t] \in {"read", "store"} => inner # Null

\* No data race: the write of the value happens before every access to it, those that
\* get_unchecked makes outside of the section included.
NoDataRace == \A t \in Threads : pc[t] \in {"closure", "store", "read"} => t \in seen

(* A thread runs a closure for an empty cell; once the cell is full, by a  *)
(* call from that closure, the closure has only got to end.                *)
Phase(t) ==
  IF pc[t] = "idle" THEN "idle"
  ELSE IF InClosure(t) /\ inner = Null THEN "running"
  ELSE IF pc[t] = "fail" /\ inner = Null THEN "failed"
  ELSE "trying"

OnceCell ==
  INSTANCE OnceCellSpec WITH
    value <- IF inner = Null THEN Null ELSE inner[1],
    phase <- [t \in Threads |-> Phase(t)]

\* imp_cs keeps the promises of OnceCell, with closures that call back, too.
IsOnceCell == OnceCell!Spec

\* ... and everyone who can be answered is, and an empty cell gets initialized: the
\* section does not deadlock, not even on a reentrant closure.
IsFairOnceCell == OnceCell!FairSpec
=============================================================================
