------------------------------- MODULE ImpPl -------------------------------
(***************************************************************************)
(* sync::OnceCell over src/imp_pl.rs: an atomic `state`, and threads that  *)
(* block in parking_lot_core, in the queue it keeps for the address of     *)
(* `state`.  parking_lot_core is external: park validates and enqueues     *)
(* under the lock of a bucket, unpark_all empties the queue under the same *)
(* lock and wakes whom it found, and park returns for no other reason.     *)
(*                                                                         *)
(* One action is one access to `state` or one critical section of the      *)
(* bucket.  A load of `state` may be stale: `behind` counts, up to         *)
(* MaxBehind, the newest stores that a thread need not have seen.          *)
(***************************************************************************)
EXTENDS Naturals

CONSTANTS
  Threads,    \* the threads that share the cell
  Calls,      \* the calls the program of each thread makes
  Reentrant,  \* the threads whose closures call back into the same cell
  Null,       \* "no value"
  State,      \* the message in `state`, and
  Bucket,     \* the lock of the bucket: what else can carry happens-before
  MaxBehind   \* how many stores a load may miss

ASSUME ThreadsAssumption ==
  /\ {Null, State, Bucket} \cap Threads = {}
  /\ State # Bucket
  /\ Reentrant \subseteq Threads
ASSUME CallsAssumption == Calls \in [Threads -> SUBSET {"get", "init", "wait"}]
ASSUME MaxBehindAssumption == MaxBehind \in Nat

VARIABLES
  state,   \* OnceCell::state
  value,   \* OnceCell::value: the thread that stored it, or Null
  parked,  \* the threads in the queue of parking_lot_core
  pc,      \* the next step of each thread
  frame,   \* its locals
  behind,  \* how many of the newest stores a load may miss
  seen     \* to whom the last closure that ran happens before

vars == <<state, value, parked, pc, frame, behind, seen>>
-----------------------------------------------------------------------------
INCOMPLETE == "INCOMPLETE"
RUNNING == "RUNNING"
COMPLETE == "COMPLETE"

States == {INCOMPLETE, RUNNING, COMPLETE}

(* op: the call in progress; outer: it was made from a closure of the same *)
(* thread; guard: Guard::new_state.                                        *)
Frame(op) == [op |-> op, outer |-> FALSE, guard |-> INCOMPLETE]

(* Memory orderings, each at its line. *)
WrongFastLoad == "Relaxed"
FastLoad == "Acquire"      \* is_initialized
Cas == "Acquire"           \* initialize_inner, success and failure
GuardStore == "Release"    \* Guard::drop
WaitLoad == "Acquire"      \* wait, in the loop and in the validation
ParkLoad == "Relaxed"      \* initialize_inner, the validation

Acquires(ord) == ord = "Acquire"
Releases(ord) == ord = "Release"
Validation(op) == IF op = "init" THEN ParkLoad ELSE WaitLoad

Least(m, n) == IF m < n THEN m ELSE n

(* The value of the store that is k stores older than the newest: before a *)
(* COMPLETE the cell was RUNNING, and before that it was by turns.         *)
Older(k) ==
  IF k = 0 THEN state
  ELSE IF (state = RUNNING) = (k % 2 = 0) THEN RUNNING ELSE INCOMPLETE

(* t loads the store that is k stores old; the newest one carries the view *)
(* it was released with.                                                   *)
Loads(t, k, ord) ==
  /\ k \in 0..behind[t]
  /\ behind' = [behind EXCEPT ![t] = k]
  /\ seen' = seen \cup (IF k = 0 /\ Acquires(ord) /\ State \in seen THEN {t} ELSE {})

(* t stores to `state`: all others fall behind. *)
Stores(t) ==
  behind' = [a \in Threads \cup {Bucket} |-> IF a = t THEN 0 ELSE Least(behind[a] + 1, MaxBehind)]

(* t is the next to hold the lock of the bucket: what was known before the *)
(* lock was released last is known to t, and then to the lock.             *)
Lock(t) == Least(behind[t], behind[Bucket])
-----------------------------------------------------------------------------
(* new() and with_value(); sharing the cell synchronizes the threads. *)
Init ==
  /\ value \in Threads \cup {Null}
  /\ state = IF value = Null THEN INCOMPLETE ELSE COMPLETE
  /\ parked = {}
  /\ pc = [t \in Threads |-> "idle"]
  /\ frame = [t \in Threads |-> Frame("none")]
  /\ behind = [a \in Threads \cup {Bucket} |-> 0]
  /\ seen = Threads

Goto(t, l) == pc' = [pc EXCEPT ![t] = l]

(* The call ends: back to the program, or to the closure that made it. *)
Leave(t) ==
  /\ Goto(t, IF frame[t].outer THEN "closure" ELSE "idle")
  /\ frame' = [frame EXCEPT ![t] = Frame(IF @.outer THEN "init" ELSE "none")]

Get(t) ==
  /\ pc[t] = "idle" /\ "get" \in Calls[t]
  /\ \E k \in 0..behind[t] :
       /\ Loads(t, k, FastLoad)
       /\ IF Older(k) = COMPLETE
          THEN Goto(t, "read") /\ frame' = [frame EXCEPT ![t] = Frame("get")]
          ELSE UNCHANGED <<pc, frame>>
  /\ UNCHANGED <<state, value, parked>>

(* Where the loop of initialize_inner, or of wait, begins. *)
Loop(op) == IF op = "init" THEN "cas" ELSE "check"

(* get_or_try_init ("init") or wait, from the program or from a closure    *)
(* that runs for this very cell; the fast path comes first.                *)
Call(t, o) ==
  /\ \/ /\ pc[t] = "idle" /\ o \in Calls[t]
        /\ frame' = [frame EXCEPT ![t] = Frame(o)]
     \/ /\ pc[t] = "closure" /\ t \in Reentrant
        /\ frame' = [frame EXCEPT ![t] = [Frame(o) EXCEPT !.outer = TRUE]]
  /\ \E k \in 0..behind[t] :
       /\ Loads(t, k, FastLoad)
       /\ Goto(t, IF Older(k) = COMPLETE THEN "read" ELSE Loop(o))
  /\ UNCHANGED <<state, value, parked>>

(* compare_exchange_weak succeeds; the store continues the release         *)
(* sequence of the one it replaces.                                        *)
Starts(s) == s = INCOMPLETE

Start(t) ==
  /\ pc[t] = "cas"
  /\ Starts(state)
  /\ state' = RUNNING
  /\ Stores(t)
  /\ seen' = seen \cup (IF Acquires(Cas) /\ State \in seen THEN {t} ELSE {})
  /\ Goto(t, "closure")
  /\ UNCHANGED <<value, parked, frame>>

StartFailed(t) ==
  /\ pc[t] = "cas"
  /\ \E k \in 0..behind[t] :
       /\ Older(k) # INCOMPLETE
       /\ Loads(t, k, Cas)
       /\ Goto(t, IF Older(k) = COMPLETE THEN "read" ELSE "park")
  /\ UNCHANGED <<state, value, parked, frame>>

(* The weak exchange may fail although it finds INCOMPLETE. *)
StartFailedSpuriously(t) ==
  /\ pc[t] = "cas"
  /\ \E k \in 0..behind[t] : Older(k) = INCOMPLETE /\ Loads(t, k, Cas)
  /\ UNCHANGED <<state, value, parked, pc, frame>>

(* wait: the condition of the loop. *)
WrongCheck(s) == "read"
AfterCheck(s) == IF s = COMPLETE THEN "read" ELSE "park"

Check(t) ==
  /\ pc[t] = "check"
  /\ \E k \in 0..behind[t] : Loads(t, k, WaitLoad) /\ Goto(t, AfterCheck(Older(k)))
  /\ UNCHANGED <<state, value, parked, frame>>

(* The closures that park is given to validate with. *)
WrongValid(op, s) == TRUE
Valid(op, s) == IF op = "init" THEN s = RUNNING ELSE s # COMPLETE

(* parking_lot_core::park, up to the point where the thread sleeps. *)
Park(t) ==
  /\ pc[t] = "park"
  /\ \E k \in 0..Lock(t) :
       /\ behind' = [behind EXCEPT ![t] = k, ![Bucket] = k]
       /\ seen' = IF \/ {t, Bucket} \cap seen # {}
                     \/ k = 0 /\ Acquires(Validation(frame[t].op)) /\ State \in seen
                  THEN seen \cup {t, Bucket}
                  ELSE seen
       /\ IF Valid(frame[t].op, Older(k))
          THEN parked' = parked \cup {t} /\ Goto(t, "parked")
          ELSE Goto(t, Loop(frame[t].op)) /\ UNCHANGED parked
  /\ UNCHANGED <<state, value, frame>>

Wake(t) ==
  /\ pc[t] = "parked"
  /\ t \notin parked
  /\ Goto(t, Loop(frame[t].op))
  /\ UNCHANGED <<state, value, parked, frame, behind, seen>>

(* f returned Ok: the slot is written, and then the guard armed. *)
ClosureSucceeds(t) ==
  /\ pc[t] = "closure"
  /\ value' = t
  /\ seen' = {t}
  /\ frame' = [frame EXCEPT ![t].guard = COMPLETE]
  /\ Goto(t, "store")
  /\ UNCHANGED <<state, parked, behind>>

(* f returned Err, or panicked. *)
ClosureFails(t) ==
  /\ pc[t] = "closure"
  /\ seen' = {t}
  /\ Goto(t, "store")
  /\ UNCHANGED <<state, value, parked, frame, behind>>

(* Guard::drop: the store, ... *)
NewState(t) == frame[t].guard

Store(t) ==
  /\ pc[t] = "store"
  /\ state' = NewState(t)
  /\ Stores(t)
  /\ seen' = (seen \ {State}) \cup (IF Releases(GuardStore) /\ t \in seen THEN {State} ELSE {})
  /\ Goto(t, "unpark")
  /\ UNCHANGED <<value, parked, frame>>

(* ... and unpark_all, which synchronizes with the threads it wakes; then  *)
(* Ok goes on to get_unchecked, and Err and a panic leave.                 *)
UnparkAll(t) ==
  /\ pc[t] = "unpark"
  /\ parked' = {}
  /\ behind' = [a \in Threads \cup {Bucket} |->
                  IF a \in parked \cup {t, Bucket} THEN Least(behind[a], Lock(t)) ELSE behind[a]]
  /\ seen' = seen \cup (IF {t, Bucket} \cap seen # {} THEN parked \cup {t, Bucket} ELSE {})
  /\ IF frame[t].guard = COMPLETE
     THEN Goto(t, "read") /\ UNCHANGED frame
     ELSE Leave(t)
  /\ UNCHANGED <<state, value>>

(* get_unchecked, the last step of every call that returns the value. *)
GetUnchecked(t) ==
  /\ pc[t] = "read"
  /\ Leave(t)
  /\ UNCHANGED <<state, value, parked, behind, seen>>

(* take and into_inner: &mut self, so no call is in progress and the       *)
(* program has synchronized its threads.                                   *)
Take ==
  /\ \A t \in Threads : pc[t] = "idle"
  /\ value' = Null
  /\ state' = INCOMPLETE
  /\ behind' = [a \in Threads \cup {Bucket} |-> 0]
  /\ seen' = Threads
  /\ UNCHANGED <<parked, pc, frame>>
-----------------------------------------------------------------------------
(* Steps the scheduler takes for a thread that is inside the cell's code.  *)
Step(t) ==
  \/ Start(t) \/ StartFailed(t) \/ Check(t) \/ Park(t) \/ Wake(t)
  \/ Store(t) \/ UnparkAll(t) \/ GetUnchecked(t)

ClosureReturns(t) == ClosureSucceeds(t) \/ ClosureFails(t)

Next ==
  \/ \E t \in Threads :
       \/ Get(t)
       \/ \E o \in {"init", "wait"} : Call(t, o)
       \/ ClosureReturns(t)
       \/ StartFailedSpuriously(t)
       \/ Step(t)
  \/ Take

Spec == Init /\ [][Next]_vars

(* Threads are scheduled, closures return, and a weak exchange does not    *)
(* fail spuriously for ever.                                               *)
Fairness == \A t \in Threads : WF_vars(Step(t)) /\ WF_vars(ClosureReturns(t))

FairSpec == Spec /\ Fairness
-----------------------------------------------------------------------------
(* Invariants. *)

PCs == {"idle", "read", "cas", "check", "park", "parked", "closure", "store", "unpark"}
Frames == [op : {"none", "get", "init", "wait"}, outer : BOOLEAN, guard : {INCOMPLETE, COMPLETE}]

\* Every variable has the type of what it models.
TypeOK ==
  /\ state \in States
  /\ value \in Threads \cup {Null}
  /\ parked \subseteq Threads
  /\ pc \in [Threads -> PCs]
  /\ frame \in [Threads -> Frames]
  /\ behind \in [Threads \cup {Bucket} -> 0..MaxBehind]
  /\ seen \subseteq Threads \cup {State, Bucket}

(* t is between its INCOMPLETE -> RUNNING exchange and the store of its guard. *)
Owns(t) == pc[t] \in {"closure", "store"} \/ frame[t].outer

\* The cell is RUNNING exactly while one thread owns it, and the slot is empty when its
\* closure returns (the debug_assert of initialize): a closure never overlaps another
\* one, nor runs after one that succeeded.
RunningIsOwned ==
  /\ \A t, u \in Threads : Owns(t) /\ Owns(u) => t = u
  /\ state = RUNNING <=> \E t \in Threads : Owns(t)
  /\ \A t \in Threads : pc[t] = "closure" => value = Null

\* A thread that goes on to get_unchecked finds a value. wait in particular does not
\* return when it is woken by a closure that failed (as it did before 1.21.4).
ReadsAreInitialized ==
  \A t \in Threads : pc[t] = "read" => value # Null /\ state = COMPLETE

\* No data race: the closure that made the value happens before its readers, and a
\* failed closure before the next one, although the validation of park is Relaxed.
NoDataRace == \A t \in Threads : pc[t] \in {"read", "closure"} => t \in seen

\* Whoever sleeps will be woken: what it waits for has not happened yet, or the thread
\* that made it happen has still to call unpark_all, even if a Relaxed load of the
\* validation missed the store.
SleepersWillBeWoken ==
  \A t \in parked :
    \/ state = RUNNING
    \/ state = INCOMPLETE /\ frame[t].op = "wait"
    \/ \E u \in Threads : pc[u] = "unpark"
-----------------------------------------------------------------------------
(* Liveness and refinement. *)

(* As in ImpStd, a call has failed until it has notified all. *)
Phase(t) ==
  IF pc[t] = "idle" THEN "idle"
  ELSE IF Owns(t) THEN "running"
  ELSE IF pc[t] = "unpark" /\ frame[t].guard = INCOMPLETE THEN "failed"
  ELSE IF frame[t].op = "init" THEN "trying"
  ELSE "waiting"

OnceCell ==
  INSTANCE OnceCellSpec WITH
    value <- IF state = COMPLETE THEN value ELSE Null,
    phase <- [t \in Threads |-> Phase(t)]

\* imp_pl keeps the promises of OnceCell: one closure at a time, the first success
\* fixes what every call returns, a failure leaves the cell empty.
IsOnceCell == OnceCell!Spec

\* ... and everyone who can be answered is, and an empty cell gets initialized.
IsFairOnceCell == OnceCell!FairSpec
=============================================================================
