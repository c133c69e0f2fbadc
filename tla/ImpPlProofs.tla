---------------------------- MODULE ImpPlProofs ----------------------------
(* Theorems about ImpPl for any set of threads, any program and however    *)
(* stale the loads of `state` may be.                                      *)
EXTENDS ImpPl, TLAPS
-----------------------------------------------------------------------------
(* Loads. *)

(* Only the newest store can be COMPLETE. *)
LEMMA OlderIsNot ==
  ASSUME NEW k \in Nat, state \in States
  PROVE  /\ Older(k) \in States
         /\ k = 0 => Older(k) = state
         /\ Older(k) = COMPLETE => k = 0 /\ state = COMPLETE
BY DEF Older, States, INCOMPLETE, RUNNING, COMPLETE

LEMMA LeastType ==
  ASSUME NEW m \in Nat, NEW n \in Nat
  PROVE  /\ Least(m, n) \in Nat /\ Least(m, n) <= m /\ Least(m, n) <= n
         /\ (Least(m, n) = 0 <=> m = 0 \/ n = 0)
BY DEF Least

LEMMA LockType ==
  ASSUME TypeOK, NEW t \in Threads
  PROVE  /\ Lock(t) \in Nat /\ Lock(t) <= behind[t] /\ Lock(t) <= behind[Bucket]
         /\ (Lock(t) = 0 <=> behind[t] = 0 \/ behind[Bucket] = 0)
         /\ behind[t] \in 0..MaxBehind /\ behind[Bucket] \in 0..MaxBehind
<1>1. behind[t] \in 0..MaxBehind /\ behind[Bucket] \in 0..MaxBehind
  BY DEF TypeOK
<1>2. behind[t] \in Nat /\ behind[Bucket] \in Nat
  BY <1>1, MaxBehindAssumption
<1>3. Lock(t) = Least(behind[t], behind[Bucket])
  BY DEF Lock
<1>4. QED
  BY <1>1, <1>2, <1>3, LeastType

LEMMA LoadsType ==
  ASSUME TypeOK, NEW t \in Threads, NEW k, NEW ord, Loads(t, k, ord)
  PROVE  /\ k \in Nat /\ k <= behind[t]
         /\ behind' \in [Threads \cup {Bucket} -> 0..MaxBehind]
         /\ behind'[t] <= behind[t]
         /\ \A a \in (Threads \cup {Bucket}) \ {t} : behind'[a] = behind[a]
         /\ seen \subseteq seen' /\ seen' \subseteq Threads \cup {State, Bucket}
<1>1. behind[t] \in 0..MaxBehind
  BY DEF TypeOK
<1>2. k \in 0..MaxBehind /\ k <= behind[t]
  BY <1>1, MaxBehindAssumption DEF Loads
<1>3. QED
  BY <1>1, <1>2, MaxBehindAssumption DEF Loads, TypeOK

LEMMA StoresType ==
  ASSUME TypeOK, NEW t \in Threads, Stores(t)
  PROVE  behind' \in [Threads \cup {Bucket} -> 0..MaxBehind] /\ behind'[t] = 0
<1>1. ASSUME NEW a \in Threads \cup {Bucket}
      PROVE  Least(behind[a] + 1, MaxBehind) \in 0..MaxBehind
  <2>1. behind[a] + 1 \in Nat
    BY MaxBehindAssumption DEF TypeOK
  <2>2. QED
    BY <2>1, MaxBehindAssumption DEF Least
<1>2. QED
  BY <1>1, MaxBehindAssumption DEF Stores
-----------------------------------------------------------------------------
(* Types. *)

LEMMA FrameType ==
  ASSUME NEW o \in {"none", "get", "init", "wait"}
  PROVE  Frame(o) \in Frames /\ [Frame(o) EXCEPT !.outer = TRUE] \in Frames
BY DEF Frame, Frames

LEMMA LeaveType ==
  ASSUME TypeOK, NEW t \in Threads, Leave(t)
  PROVE  pc' \in [Threads -> PCs] /\ frame' \in [Threads -> Frames]
<1>1. pc' \in [Threads -> PCs]
  BY DEF TypeOK, Leave, Goto, PCs
<1>2. Frame(IF frame[t].outer THEN "init" ELSE "none") \in Frames
  BY FrameType
<1>3. QED
  BY <1>1, <1>2 DEF TypeOK, Leave

LEMMA InitType == Init => TypeOK
<1> SUFFICES ASSUME Init
             PROVE  TypeOK
  OBVIOUS
<1>1. frame \in [Threads -> Frames]
  BY FrameType DEF Init
<1>2. QED
  BY <1>1, MaxBehindAssumption DEF Init, TypeOK, States, PCs

LEMMA NextType == TypeOK /\ [Next]_vars => TypeOK'
<1> SUFFICES ASSUME TypeOK, [Next]_vars
             PROVE  TypeOK'
  OBVIOUS
<1> USE DEF TypeOK
<1>1. ASSUME NEW t \in Threads, Get(t)
      PROVE  TypeOK'
  <2>1. PICK k : Loads(t, k, FastLoad)
    BY <1>1 DEF Get
  <2>2. pc' \in [Threads -> PCs] /\ frame' \in [Threads -> Frames]
    BY <1>1, FrameType DEF Get, Goto, PCs
  <2>3. QED
    BY <1>1, <2>1, <2>2, LoadsType DEF Get
<1>2. ASSUME NEW t \in Threads, NEW o \in {"init", "wait"}, Call(t, o)
      PROVE  TypeOK'
  <2>1. PICK k : Loads(t, k, FastLoad)
    BY <1>2 DEF Call
  <2>2. pc' \in [Threads -> PCs]
    BY <1>2 DEF Call, Goto, Loop, PCs
  <2>3. frame' \in [Threads -> Frames]
    BY <1>2, FrameType DEF Call
  <2>4. QED
    BY <1>2, <2>1, <2>2, <2>3, LoadsType DEF Call
<1>3. ASSUME NEW t \in Threads, Start(t)
      PROVE  TypeOK'
  <2>1. behind' \in [Threads \cup {Bucket} -> 0..MaxBehind]
    BY <1>3, StoresType DEF Start
  <2>2. QED
    BY <1>3, <2>1 DEF Start, Goto, PCs, States
<1>4. ASSUME NEW t \in Threads, StartFailed(t) \/ StartFailedSpuriously(t) \/ Check(t)
      PROVE  TypeOK'
  <2>1. PICK k, ord : Loads(t, k, ord)
    BY <1>4 DEF StartFailed, StartFailedSpuriously, Check
  <2>2. pc' \in [Threads -> PCs]
    BY <1>4 DEF StartFailed, StartFailedSpuriously, Check, AfterCheck, Goto, PCs
  <2>3. QED
    BY <1>4, <2>1, <2>2, LoadsType DEF StartFailed, StartFailedSpuriously, Check
<1>5. ASSUME NEW t \in Threads, Park(t)
      PROVE  TypeOK'
  <2>1. PICK k \in 0..Lock(t) : behind' = [behind EXCEPT ![t] = k, ![Bucket] = k]
    BY <1>5 DEF Park
  <2>2. k \in 0..MaxBehind
    BY LockType, MaxBehindAssumption
  <2>3. behind' \in [Threads \cup {Bucket} -> 0..MaxBehind]
    BY <2>1, <2>2
  <2>4. seen' \subseteq Threads \cup {State, Bucket}
    BY <1>5 DEF Park
  <2>5. pc' \in [Threads -> PCs] /\ parked' \subseteq Threads
    BY <1>5 DEF Park, Goto, Loop, PCs
  <2>6. QED
    BY <1>5, <2>3, <2>4, <2>5 DEF Park
<1>6. ASSUME NEW t \in Threads, Wake(t)
      PROVE  TypeOK'
  BY <1>6 DEF Wake, Goto, Loop, PCs
<1>7. ASSUME NEW t \in Threads, ClosureReturns(t)
      PROVE  TypeOK'
  <2>1. frame' \in [Threads -> Frames]
    BY <1>7 DEF ClosureReturns, ClosureSucceeds, ClosureFails, Frames
  <2>2. QED
    BY <1>7, <2>1 DEF ClosureReturns, ClosureSucceeds, ClosureFails, Goto, PCs
<1>8. ASSUME NEW t \in Threads, Store(t)
      PROVE  TypeOK'
  <2>1. behind' \in [Threads \cup {Bucket} -> 0..MaxBehind]
    BY <1>8, StoresType DEF Store
  <2>2. state' \in States
    BY <1>8 DEF Store, NewState, Frames, States
  <2>3. QED
    BY <1>8, <2>1, <2>2 DEF Store, Goto, PCs
<1>9. ASSUME NEW t \in Threads, UnparkAll(t)
      PROVE  TypeOK'
  <2>1. ASSUME NEW a \in Threads \cup {Bucket}
        PROVE  Least(behind[a], Lock(t)) \in 0..MaxBehind
    <3>1. behind[a] \in Nat /\ behind[a] <= MaxBehind
      BY MaxBehindAssumption
    <3>2. Lock(t) \in Nat
      BY LockType
    <3>3. QED
      BY <3>1, <3>2, MaxBehindAssumption DEF Least
  <2>2. behind' \in [Threads \cup {Bucket} -> 0..MaxBehind]
    BY <1>9, <2>1 DEF UnparkAll
  <2>3. pc' \in [Threads -> PCs] /\ frame' \in [Threads -> Frames]
    <3>1. CASE frame[t].guard = COMPLETE
      BY <1>9, <3>1 DEF UnparkAll, Goto, PCs
    <3>2. CASE frame[t].guard # COMPLETE
      BY <1>9, <3>2, LeaveType DEF UnparkAll
    <3>3. QED
      BY <3>1, <3>2
  <2>4. QED
    BY <1>9, <2>2, <2>3 DEF UnparkAll
<1>10. ASSUME NEW t \in Threads, GetUnchecked(t)
       PROVE  TypeOK'
  BY <1>10, LeaveType DEF GetUnchecked
<1>11. CASE Take
  BY <1>11, MaxBehindAssumption DEF Take, States
<1>12. CASE UNCHANGED vars
  BY <1>12 DEF vars
<1>13. QED
  BY <1>1, <1>2, <1>3, <1>4, <1>5, <1>6, <1>7, <1>8, <1>9, <1>10, <1>11, <1>12 DEF Next, Step
-----------------------------------------------------------------------------
(* The life of the cell: who owns it, what its state says of the value,    *)
(* who sleeps, and who knows of the last closure.                          *)

Blocking == {"cas", "check", "park", "parked"}

(* Where the locals of a call are meaningful, and who is in the queue.     *)
FrameOK ==
  \A t \in Threads :
    /\ frame[t].outer => pc[t] \in Blocking
    /\ pc[t] \in {"cas", "closure", "store", "unpark"} => frame[t].op = "init"
    /\ pc[t] = "check" => frame[t].op = "wait"
    /\ pc[t] \in {"park", "parked"} => frame[t].op \in {"init", "wait"}
    /\ frame[t].guard = COMPLETE => pc[t] \in {"store", "unpark", "read"}
    /\ t \in parked => pc[t] = "parked"

(* t completed the cell, or goes on to read it. *)
Completed(t) ==
  \/ pc[t] = "read"
  \/ pc[t] = "unpark" /\ frame[t].guard = COMPLETE

CompleteOK == \A t \in Threads : Completed(t) => state = COMPLETE

Stored(t) == pc[t] = "store" /\ frame[t].guard = COMPLETE

ValueOK ==
  /\ value # Null <=> state = COMPLETE \/ \E t \in Threads : Stored(t)
  /\ \A t \in Threads : Stored(t) => value = t

CellInv ==
  /\ TypeOK
  /\ FrameOK
  /\ RunningIsOwned
  /\ CompleteOK
  /\ ValueOK

LEMMA InitCell == Init => CellInv
<1> SUFFICES ASSUME Init
             PROVE  CellInv
  OBVIOUS
<1>1. TypeOK
  BY InitType
<1>2. \A t \in Threads : /\ pc[t] = "idle" /\ ~frame[t].outer /\ frame[t].guard = INCOMPLETE
                         /\ t \notin parked
  BY DEF Init, Frame
<1>3. FrameOK /\ CompleteOK
  BY <1>2 DEF FrameOK, CompleteOK, Completed, INCOMPLETE, COMPLETE
<1>4. state # RUNNING /\ (value # Null <=> state = COMPLETE)
  BY DEF Init, INCOMPLETE, RUNNING, COMPLETE
<1>5. RunningIsOwned /\ ValueOK
  BY <1>2, <1>4 DEF RunningIsOwned, Owns, ValueOK, Stored
<1>6. QED
  BY <1>1, <1>3, <1>5 DEF CellInv

LEMMA NextCell == CellInv /\ [Next]_vars => CellInv'
<1> SUFFICES ASSUME CellInv, [Next]_vars
             PROVE  CellInv'
  OBVIOUS
<1> USE DEF CellInv, TypeOK, FrameOK, RunningIsOwned, Owns, CompleteOK, Completed, ValueOK,
            Stored, Blocking, INCOMPLETE, RUNNING, COMPLETE
<1>1. TypeOK'
  BY NextType
(* A load that says COMPLETE is right. *)
<1>2. ASSUME NEW t \in Threads, NEW k, NEW ord, Loads(t, k, ord)
      PROVE  Older(k) = COMPLETE => state = COMPLETE
  BY <1>2, LoadsType, OlderIsNot
<1>3. ASSUME NEW t \in Threads, Get(t)
      PROVE  CellInv'
  BY <1>1, <1>2, <1>3 DEF Get, Goto, Frame
<1>4. ASSUME NEW t \in Threads, NEW o \in {"init", "wait"}, Call(t, o)
      PROVE  CellInv'
  <2>1. PICK k : Loads(t, k, FastLoad) /\ Goto(t, IF Older(k) = COMPLETE THEN "read" ELSE Loop(o))
    BY <1>4 DEF Call
  <2>2. /\ pc'[t] = "read" \/ pc'[t] = Loop(o)
        /\ pc'[t] = "read" => state = COMPLETE
        /\ \A u \in Threads \ {t} : pc'[u] = pc[u]
    BY <1>2, <2>1 DEF Goto, Loop
  <2>3. /\ frame'[t].op = o /\ frame'[t].guard = INCOMPLETE
        /\ frame'[t].outer <=> pc[t] = "closure"
        /\ \A u \in Threads \ {t} : frame'[u] = frame[u]
    BY <1>4 DEF Call, Frame
  <2>4. state' = state /\ value' = value /\ parked' = parked /\ pc[t] \in {"idle", "closure"}
    BY <1>4 DEF Call
  <2>5. pc[t] = "idle" => ~frame[t].outer
    OBVIOUS
  <2>6. pc[t] = "closure" => state = RUNNING
    OBVIOUS
  <2>7. FrameOK' /\ CompleteOK' /\ ValueOK'
    BY <2>2, <2>3, <2>4, <2>6 DEF Loop
  <2>8. RunningIsOwned'
    BY <2>2, <2>3, <2>4, <2>5, <2>6 DEF Loop
  <2>9. QED
    BY <1>1, <2>7, <2>8
<1>5. ASSUME NEW t \in Threads, Start(t)
      PROVE  CellInv'
  BY <1>1, <1>5 DEF Start, Starts, Goto
<1>6. ASSUME NEW t \in Threads, StartFailed(t)
      PROVE  CellInv'
  BY <1>1, <1>2, <1>6 DEF StartFailed, Goto
<1>7. ASSUME NEW t \in Threads, StartFailedSpuriously(t)
      PROVE  CellInv'
  BY <1>1, <1>7 DEF StartFailedSpuriously
<1>8. ASSUME NEW t \in Threads, Check(t)
      PROVE  CellInv'
  BY <1>1, <1>2, <1>8 DEF Check, AfterCheck, Goto
<1>9. ASSUME NEW t \in Threads, Park(t)
      PROVE  CellInv'
  <2>1. /\ pc[t] = "park"
        /\ \/ parked' = parked \cup {t} /\ pc'[t] = "parked"
           \/ parked' = parked /\ pc'[t] = Loop(frame[t].op)
        /\ \A u \in Threads \ {t} : pc'[u] = pc[u]
    BY <1>9 DEF Park, Goto
  <2>2. state' = state /\ value' = value /\ frame' = frame
    BY <1>9 DEF Park
  <2>3. QED
    BY <1>1, <2>1, <2>2 DEF Loop
<1>10. ASSUME NEW t \in Threads, Wake(t)
       PROVE  CellInv'
  BY <1>1, <1>10 DEF Wake, Goto, Loop
<1>11. ASSUME NEW t \in Threads, ClosureSucceeds(t)
       PROVE  CellInv'
  <2>1. Stored(t)' /\ \A u \in Threads \ {t} : ~Stored(u)'
    BY <1>11 DEF ClosureSucceeds, Goto, Frames
  <2>2. value' = t /\ t # Null
    BY <1>11, ThreadsAssumption DEF ClosureSucceeds
  <2>3. ValueOK'
    BY <2>1, <2>2
  <2>4. QED
    BY <1>1, <1>11, <2>3 DEF ClosureSucceeds, Goto
<1>12. ASSUME NEW t \in Threads, ClosureFails(t)
       PROVE  CellInv'
  BY <1>1, <1>12 DEF ClosureFails, Goto
<1>13. ASSUME NEW t \in Threads, Store(t)
       PROVE  CellInv'
  <2>1. /\ state = RUNNING /\ ~frame[t].outer /\ frame[t].guard \in {INCOMPLETE, COMPLETE}
        /\ frame[t].op = "init"
    BY <1>13 DEF Store, Frames
  <2>2. state' = frame[t].guard /\ value' = value /\ frame' = frame /\ parked' = parked
    BY <1>13 DEF Store, NewState
  <2>3. \A u \in Threads \ {t} : ~Owns(u) /\ ~Completed(u) /\ ~Stored(u) /\ pc'[u] = pc[u]
    BY <1>13, <2>1 DEF Store, Goto
  <2>4. pc'[t] = "unpark" /\ pc[t] = "store"
    BY <1>13 DEF Store, Goto
  <2>5. QED
    BY <1>1, <2>1, <2>2, <2>3, <2>4
<1>14. ASSUME NEW t \in Threads, UnparkAll(t)
       PROVE  CellInv'
  <2>1. pc[t] = "unpark" /\ ~frame[t].outer /\ state' = state /\ value' = value /\ parked' = {}
    BY <1>14 DEF UnparkAll
  <2>2. \A u \in Threads \ {t} : pc'[u] = pc[u] /\ frame'[u] = frame[u]
    BY <1>14 DEF UnparkAll, Leave, Goto
  <2>3. CASE frame[t].guard = COMPLETE
    BY <1>1, <1>14, <2>1, <2>2, <2>3 DEF UnparkAll, Goto
  <2>4. CASE frame[t].guard # COMPLETE
    <3>1. pc'[t] = "idle" /\ frame'[t] = Frame("none")
      BY <1>14, <2>1, <2>4 DEF UnparkAll, Leave, Goto
    <3>2. QED
      BY <1>1, <2>1, <2>2, <3>1 DEF Frame
  <2>5. QED
    BY <2>3, <2>4
<1>15. ASSUME NEW t \in Threads, GetUnchecked(t)
       PROVE  CellInv'
  BY <1>1, <1>15 DEF GetUnchecked, Leave, Goto, Frame
<1>16. CASE Take
  BY <1>1, <1>16 DEF Take
<1>17. CASE UNCHANGED vars
  BY <1>1, <1>17 DEF vars
<1>18. QED
  BY <1>3, <1>4, <1>5, <1>6, <1>7, <1>8, <1>9, <1>10, <1>11, <1>12, <1>13, <1>14, <1>15,
     <1>16, <1>17 DEF Next, Step, ClosureReturns

THEOREM CellInvariant == Spec => []CellInv
BY InitCell, NextCell, PTL DEF Spec

(* Every variable keeps its type. *)
THEOREM TypeCorrect == Spec => []TypeOK
<1>1. CellInv => TypeOK
  BY DEF CellInv
<1>2. QED
  BY <1>1, CellInvariant, PTL

(* The weak exchange in initialize_inner lets one closure run at a time,   *)
(* and none once the slot is full.                                         *)
THEOREM OneInitializer == Spec => []RunningIsOwned
<1>1. CellInv => RunningIsOwned
  BY DEF CellInv
<1>2. QED
  BY <1>1, CellInvariant, PTL

(* Neither a stale load nor a wake-up makes `initialize` or `wait` return  *)
(* from a cell that is not COMPLETE.                                       *)
THEOREM NoEarlyReturn == Spec => []ReadsAreInitialized
<1>1. CellInv => ReadsAreInitialized
  BY DEF CellInv, CompleteOK, Completed, ValueOK, ReadsAreInitialized
<1>2. QED
  BY <1>1, CellInvariant, PTL
-----------------------------------------------------------------------------
(* Sleepers.  The lock of the bucket knows the state the cell is in,       *)
(* unless the one who changed it has still to take that lock: whoever      *)
(* validates and sleeps before that is woken by it, and whoever comes      *)
(* after it validates with the state as it is.                             *)

BucketOK ==
  \/ state = RUNNING
  \/ behind[Bucket] = 0
  \/ \E u \in Threads : pc[u] = "unpark" /\ behind[u] = 0

WakeInv == BucketOK /\ SleepersWillBeWoken

(* A step that neither stores, nor unparks, nor parks anyone.              *)
Calm ==
  /\ state' = state
  /\ parked' = parked
  /\ \A u \in parked : frame'[u] = frame[u]
  /\ \A u \in Threads : pc[u] = "unpark" => pc'[u] = "unpark" /\ behind'[u] = behind[u]
  /\ behind'[Bucket] = behind[Bucket]

LEMMA CalmKeepsWake == WakeInv /\ Calm => WakeInv'
<1> SUFFICES ASSUME WakeInv, Calm
             PROVE  WakeInv'
  OBVIOUS
<1>1. BucketOK'
  BY DEF WakeInv, Calm, BucketOK
<1>2. SleepersWillBeWoken'
  BY DEF WakeInv, Calm, SleepersWillBeWoken
<1>3. QED
  BY <1>1, <1>2 DEF WakeInv

LEMMA NextWake == CellInv /\ WakeInv /\ [Next]_vars => WakeInv'
<1> SUFFICES ASSUME CellInv, WakeInv, [Next]_vars
             PROVE  WakeInv'
  OBVIOUS
<1> Bucket \notin Threads
  BY ThreadsAssumption
<1>t. /\ TypeOK /\ pc \in [Threads -> PCs] /\ frame \in [Threads -> Frames]
      /\ behind \in [Threads \cup {Bucket} -> 0..MaxBehind]
      /\ parked \subseteq Threads
      /\ \A u \in parked : pc[u] = "parked"
  BY DEF CellInv, TypeOK, FrameOK
<1>1. ASSUME NEW t \in Threads, NEW k, NEW ord, Loads(t, k, ord), pc[t] \notin {"unpark", "parked"},
             \A u \in Threads \ {t} : pc'[u] = pc[u] /\ frame'[u] = frame[u],
             state' = state, parked' = parked
      PROVE  WakeInv'
  <2>1. \A a \in (Threads \cup {Bucket}) \ {t} : behind'[a] = behind[a]
    BY <1>t, <1>1 DEF Loads
  <2>2. Calm
    BY <1>t, <1>1, <2>1 DEF Calm
  <2>3. QED
    BY <2>2, CalmKeepsWake
<1>2. ASSUME NEW t \in Threads, Get(t)
      PROVE  WakeInv'
  <2>1. PICK k : Loads(t, k, FastLoad)
    BY <1>2 DEF Get
  <2>2. \A u \in Threads \ {t} : pc'[u] = pc[u] /\ frame'[u] = frame[u]
    BY <1>t, <1>2 DEF Get, Goto
  <2>3. QED
    BY <1>1, <1>2, <2>1, <2>2 DEF Get
<1>3. ASSUME NEW t \in Threads, NEW o \in {"init", "wait"}, Call(t, o)
      PROVE  WakeInv'
  <2>1. PICK k : Loads(t, k, FastLoad)
    BY <1>3 DEF Call
  <2>2. \A u \in Threads \ {t} : pc'[u] = pc[u] /\ frame'[u] = frame[u]
    BY <1>t, <1>3 DEF Call, Goto
  <2>3. QED
    BY <1>1, <1>3, <2>1, <2>2 DEF Call
<1>4. ASSUME NEW t \in Threads, StartFailed(t) \/ StartFailedSpuriously(t) \/ Check(t)
      PROVE  WakeInv'
  <2>1. PICK k, ord : Loads(t, k, ord)
    BY <1>4 DEF StartFailed, StartFailedSpuriously, Check
  <2>2. \A u \in Threads \ {t} : pc'[u] = pc[u] /\ frame'[u] = frame[u]
    BY <1>t, <1>4 DEF StartFailed, StartFailedSpuriously, Check, Goto
  <2>3. QED
    BY <1>1, <1>4, <2>1, <2>2 DEF StartFailed, StartFailedSpuriously, Check
<1>5. ASSUME NEW t \in Threads, Start(t)
      PROVE  WakeInv'
  BY <1>5 DEF Start, WakeInv, BucketOK, SleepersWillBeWoken
<1>6. ASSUME NEW t \in Threads, Park(t)
      PROVE  WakeInv'
  <2>1. PICK k \in 0..Lock(t) :
          /\ behind' = [behind EXCEPT ![t] = k, ![Bucket] = k]
          /\ IF Valid(frame[t].op, Older(k))
             THEN parked' = parked \cup {t} /\ Goto(t, "parked")
             ELSE Goto(t, Loop(frame[t].op)) /\ UNCHANGED parked
    BY <1>6 DEF Park
  <2>2. k \in Nat /\ (behind[Bucket] = 0 => k = 0)
    BY LockType, <1>t
  <2>3. /\ \A u \in Threads \ {t} : pc'[u] = pc[u] /\ behind'[u] = behind[u]
        /\ behind'[Bucket] = k /\ pc[t] = "park"
        /\ state' = state /\ frame' = frame /\ parked' \subseteq parked \cup {t}
    BY <1>t, <1>6, <2>1 DEF Park, Goto
  <2>4. BucketOK'
    BY <2>2, <2>3 DEF WakeInv, BucketOK
  <2>5. ASSUME t \in parked'
        PROVE  \/ state = RUNNING
               \/ state = INCOMPLETE /\ frame[t].op = "wait"
               \/ \E u \in Threads : pc'[u] = "unpark"
    <3>1. Valid(frame[t].op, Older(k))
      BY <1>t, <2>1, <2>3, <2>5
    <3>2. CASE behind[Bucket] = 0
      <4>1. Older(k) = state /\ state \in States
        BY <2>2, <3>2, <1>t DEF Older, TypeOK
      <4>2. frame[t].op \in {"init", "wait"}
        BY <2>3 DEF CellInv, FrameOK
      <4>3. QED
        BY <3>1, <4>1, <4>2 DEF Valid, States
    <3>3. CASE \E u \in Threads : pc[u] = "unpark"
      BY <2>3, <3>3
    <3>4. QED
      BY <3>2, <3>3 DEF WakeInv, BucketOK
  <2>6. SleepersWillBeWoken'
    BY <2>3, <2>5 DEF WakeInv, SleepersWillBeWoken
  <2>7. QED
    BY <2>4, <2>6 DEF WakeInv
<1>7. ASSUME NEW t \in Threads, Wake(t) \/ ClosureReturns(t) \/ GetUnchecked(t)
      PROVE  WakeInv'
  <2>1. /\ pc[t] # "unpark" /\ t \notin parked
        /\ \A u \in Threads \ {t} : pc'[u] = pc[u] /\ frame'[u] = frame[u]
    BY <1>t, <1>7 DEF Wake, ClosureReturns, ClosureSucceeds, ClosureFails, GetUnchecked,
                      Leave, Goto
  <2>2. Calm
    BY <1>t, <1>7, <2>1 DEF Calm, Wake, ClosureReturns, ClosureSucceeds, ClosureFails,
                            GetUnchecked
  <2>3. QED
    BY <2>2, CalmKeepsWake
(* Whoever stores is the one who will unpark, and it knows what it stored. *)
<1>8. ASSUME NEW t \in Threads, Store(t)
      PROVE  WakeInv'
  <2>1. pc'[t] = "unpark" /\ behind'[t] = 0
    BY <1>t, <1>8 DEF Store, Goto, Stores
  <2>2. QED
    BY <2>1 DEF WakeInv, BucketOK, SleepersWillBeWoken
<1>9. ASSUME NEW t \in Threads, UnparkAll(t)
      PROVE  WakeInv'
  <2>1. /\ parked' = {} /\ state' = state
        /\ \A u \in Threads \ {t} : pc'[u] = pc[u]
    BY <1>t, <1>9 DEF UnparkAll, Leave, Goto
  <2>2. \A a \in Threads \cup {Bucket} : behind[a] \in Nat
    BY <1>t, MaxBehindAssumption
  <2>3. \A a \in Threads \cup {Bucket} :
          behind'[a] = IF a \in parked \cup {t, Bucket} THEN Least(behind[a], Lock(t))
                                                        ELSE behind[a]
    BY <1>9 DEF UnparkAll
  <2>4. Lock(t) \in Nat /\ (Lock(t) = 0 <=> behind[t] = 0 \/ behind[Bucket] = 0)
    BY <1>t, LockType
  <2>5. \A a \in Threads \cup {Bucket} : behind[a] = 0 => behind'[a] = 0
    BY <2>2, <2>3, <2>4, LeastType
  <2>6. behind'[Bucket] = Least(behind[Bucket], Lock(t))
    BY <2>3
  <2>7. behind[t] = 0 => behind'[Bucket] = 0
    BY <2>2, <2>4, <2>6 DEF Least
  <2>8. BucketOK'
    BY <2>1, <2>5, <2>7 DEF WakeInv, BucketOK
  <2>9. QED
    BY <2>1, <2>8 DEF WakeInv, SleepersWillBeWoken
<1>10. CASE Take
  <2>1. parked' = {} /\ behind'[Bucket] = 0
    BY <1>t, <1>10 DEF Take
  <2>2. QED
    BY <2>1 DEF WakeInv, BucketOK, SleepersWillBeWoken
<1>11. CASE UNCHANGED vars
  <2>1. Calm
    BY <1>11 DEF vars, Calm
  <2>2. QED
    BY <2>1, CalmKeepsWake
<1>12. QED
  BY <1>2, <1>3, <1>4, <1>5, <1>6, <1>7, <1>8, <1>9, <1>10, <1>11 DEF Next, Step

(* No sleeper is forgotten, even by a validation whose Relaxed load missed *)
(* the store: parking_lot_core's lock orders it after, or the unpark_all   *)
(* is still to come.                                                       *)
THEOREM SleepersAreWoken == Spec => []SleepersWillBeWoken
<1>1. Init => WakeInv
  BY DEF Init, WakeInv, BucketOK, SleepersWillBeWoken
<1>2. WakeInv => SleepersWillBeWoken
  BY DEF WakeInv
<1>3. QED
  BY <1>1, <1>2, NextWake, CellInvariant, PTL DEF Spec
-----------------------------------------------------------------------------
(* Happens-before.  The last closure is known to the message in `state`,   *)
(* unless it has still to be stored or the program itself synchronized     *)
(* everybody; and it is known to whoever completed the cell with it.       *)

SeenOK ==
  /\ \/ State \in seen
     \/ Threads \subseteq seen
     \/ \E t \in Threads : pc[t] = "store"
  /\ \A t \in Threads : pc[t] \in {"closure", "store"} \/ Completed(t) => t \in seen

LEMMA NextSeen == CellInv /\ SeenOK /\ [Next]_vars => SeenOK'
<1> SUFFICES ASSUME CellInv, SeenOK, [Next]_vars
             PROVE  SeenOK'
  OBVIOUS
<1> State \notin Threads
  BY ThreadsAssumption
<1>t. /\ TypeOK /\ pc \in [Threads -> PCs] /\ frame \in [Threads -> Frames]
      /\ state \in States /\ seen \subseteq Threads \cup {State, Bucket}
      /\ \A u \in Threads : frame[u].outer => pc[u] \in Blocking
  BY DEF CellInv, TypeOK, FrameOK
(* Who acquires `state` while nobody owns the cell learns of the closure.  *)
<1>a. ASSUME NEW t \in Threads, NEW k, NEW ord, Loads(t, k, ord), Acquires(ord)
      PROVE  seen \subseteq seen' /\ (Older(k) = COMPLETE => t \in seen')
  <2>1. k \in Nat /\ seen \subseteq seen'
    BY <1>a, <1>t, LoadsType
  <2>2. ASSUME Older(k) = COMPLETE
        PROVE  t \in seen'
    <3>1. k = 0 /\ state = COMPLETE
      BY <1>t, <2>1, <2>2, OlderIsNot
    <3>2. \A u \in Threads : pc[u] # "store"
      BY <3>1 DEF CellInv, RunningIsOwned, Owns, COMPLETE, RUNNING
    <3>3. State \in seen \/ Threads \subseteq seen
      BY <3>2 DEF SeenOK
    <3>4. QED
      BY <1>a, <3>1, <3>3 DEF Loads
  <2>3. QED
    BY <2>1, <2>2
(* A step that takes nobody's knowledge, and sends only t to read.         *)
<1>b. ASSUME NEW t \in Threads, seen \subseteq seen',
             \A u \in Threads \ {t} : pc'[u] = pc[u] /\ frame'[u] = frame[u],
             pc[t] # "store", pc'[t] \notin {"closure", "store", "unpark"},
             pc'[t] = "read" => t \in seen'
      PROVE  SeenOK'
  BY <1>b DEF SeenOK, Completed
<1>1. ASSUME NEW t \in Threads, Get(t)
      PROVE  SeenOK'
  <2>1. PICK k : /\ Loads(t, k, FastLoad)
                 /\ IF Older(k) = COMPLETE THEN pc'[t] = "read" ELSE pc' = pc
    BY <1>1, <1>t DEF Get, Goto
  <2>2. \A u \in Threads \ {t} : pc'[u] = pc[u] /\ frame'[u] = frame[u]
    BY <1>t, <1>1 DEF Get, Goto
  <2>3. pc[t] = "idle" /\ pc'[t] \in {"idle", "read"} /\ (pc'[t] = "read" => Older(k) = COMPLETE)
    BY <1>t, <1>1, <2>1 DEF Get
  <2>4. seen \subseteq seen' /\ (pc'[t] = "read" => t \in seen')
    BY <1>a, <2>1, <2>3 DEF Acquires, FastLoad
  <2>5. QED
    BY <1>b, <2>2, <2>3, <2>4
<1>2. ASSUME NEW t \in Threads, NEW o \in {"init", "wait"}, Call(t, o)
      PROVE  SeenOK'
  <2>1. PICK k : /\ Loads(t, k, FastLoad)
                 /\ pc'[t] = IF Older(k) = COMPLETE THEN "read" ELSE Loop(o)
    BY <1>2, <1>t DEF Call, Goto
  <2>2. \A u \in Threads \ {t} : pc'[u] = pc[u] /\ frame'[u] = frame[u]
    BY <1>t, <1>2 DEF Call, Goto
  <2>3. pc[t] # "store" /\ pc'[t] \in {"read", "cas", "check"}
    BY <1>2, <2>1 DEF Call, Loop
  <2>4. seen \subseteq seen' /\ (pc'[t] = "read" => t \in seen')
    BY <1>a, <2>1 DEF Acquires, FastLoad, Loop
  <2>5. QED
    BY <1>b, <2>2, <2>3, <2>4
(* The exchange takes over what the last failure released.                 *)
<1>3. ASSUME NEW t \in Threads, Start(t)
      PROVE  SeenOK'
  <2>1. state = INCOMPLETE /\ pc[t] = "cas" /\ pc'[t] = "closure" /\ frame' = frame
    BY <1>3, <1>t DEF Start, Starts, Goto
  <2>2. \A u \in Threads : pc[u] # "store"
    BY <2>1 DEF CellInv, RunningIsOwned, Owns, INCOMPLETE, RUNNING
  <2>3. State \in seen \/ Threads \subseteq seen
    BY <2>2 DEF SeenOK
  <2>4. seen \subseteq seen' /\ t \in seen'
    BY <1>3, <2>3 DEF Start, Acquires, Cas
  <2>5. \A u \in Threads \ {t} : pc'[u] = pc[u]
    BY <1>3, <1>t DEF Start, Goto
  <2>6. QED
    BY <2>1, <2>3, <2>4, <2>5 DEF SeenOK, Completed
<1>4. ASSUME NEW t \in Threads, StartFailed(t)
      PROVE  SeenOK'
  <2>1. PICK k : /\ Loads(t, k, Cas)
                 /\ pc'[t] = IF Older(k) = COMPLETE THEN "read" ELSE "park"
    BY <1>4, <1>t DEF StartFailed, Goto
  <2>2. \A u \in Threads \ {t} : pc'[u] = pc[u] /\ frame'[u] = frame[u]
    BY <1>t, <1>4 DEF StartFailed, Goto
  <2>3. pc[t] = "cas" /\ pc'[t] \in {"read", "park"}
    BY <1>4, <2>1 DEF StartFailed
  <2>4. seen \subseteq seen' /\ (pc'[t] = "read" => t \in seen')
    BY <1>a, <2>1 DEF Acquires, Cas
  <2>5. QED
    BY <1>b, <2>2, <2>3, <2>4
<1>5. ASSUME NEW t \in Threads, StartFailedSpuriously(t)
      PROVE  SeenOK'
  <2>1. seen \subseteq seen' /\ pc' = pc /\ frame' = frame /\ pc[t] = "cas"
    BY <1>5 DEF StartFailedSpuriously, Loads
  <2>2. QED
    BY <1>b, <2>1
<1>6. ASSUME NEW t \in Threads, Check(t)
      PROVE  SeenOK'
  <2>1. PICK k : Loads(t, k, WaitLoad) /\ pc'[t] = AfterCheck(Older(k))
    BY <1>6, <1>t DEF Check, Goto
  <2>2. \A u \in Threads \ {t} : pc'[u] = pc[u] /\ frame'[u] = frame[u]
    BY <1>t, <1>6 DEF Check, Goto
  <2>3. pc[t] = "check" /\ pc'[t] \in {"read", "park"}
    BY <1>6, <2>1 DEF Check, AfterCheck
  <2>4. seen \subseteq seen' /\ (pc'[t] = "read" => t \in seen')
    BY <1>a, <2>1 DEF Acquires, WaitLoad, AfterCheck
  <2>5. QED
    BY <1>b, <2>2, <2>3, <2>4
<1>7. ASSUME NEW t \in Threads, Park(t) \/ Wake(t)
      PROVE  SeenOK'
  <2>1. /\ pc[t] \in {"park", "parked"} /\ pc'[t] \in {"parked", "cas", "check"}
        /\ frame' = frame
        /\ \A u \in Threads \ {t} : pc'[u] = pc[u]
    BY <1>7, <1>t DEF Park, Wake, Goto, Loop
  <2>2. seen \subseteq seen'
    BY <1>7 DEF Park, Wake
  <2>3. QED
    BY <1>b, <2>1, <2>2
(* Only t is near the value when its closure returns.                      *)
<1>8. ASSUME NEW t \in Threads, ClosureReturns(t)
      PROVE  SeenOK'
  <2>1. pc[t] = "closure" /\ pc'[t] = "store" /\ seen' = {t}
    BY <1>8, <1>t DEF ClosureReturns, ClosureSucceeds, ClosureFails, Goto
  <2>2. \A u \in Threads \ {t} : pc'[u] = pc[u] /\ frame'[u] = frame[u]
    BY <1>8, <1>t DEF ClosureReturns, ClosureSucceeds, ClosureFails, Goto
  <2>3. state = RUNNING /\ \A u \in Threads \ {t} : ~Owns(u)
    BY <2>1 DEF CellInv, RunningIsOwned, Owns
  <2>4. \A u \in Threads \ {t} : pc[u] \notin {"closure", "store"} /\ ~Completed(u)
    BY <2>3 DEF CellInv, CompleteOK, Owns, RUNNING, COMPLETE
  <2>5. QED
    BY <2>1, <2>2, <2>4 DEF SeenOK, Completed
<1>9. ASSUME NEW t \in Threads, Store(t)
      PROVE  SeenOK'
  <2>1. t \in seen /\ pc[t] = "store" /\ pc'[t] = "unpark" /\ frame' = frame
    BY <1>9, <1>t DEF Store, Goto, SeenOK
  <2>2. State \in seen' /\ seen \subseteq seen'
    BY <1>9, <2>1 DEF Store, Releases, GuardStore
  <2>3. \A u \in Threads \ {t} : pc'[u] = pc[u]
    BY <1>9, <1>t DEF Store, Goto
  <2>4. QED
    BY <2>1, <2>2, <2>3 DEF SeenOK, Completed
<1>10. ASSUME NEW t \in Threads, UnparkAll(t)
       PROVE  SeenOK'
  <2>1. seen \subseteq seen' /\ pc[t] = "unpark"
    BY <1>10 DEF UnparkAll
  <2>2. \A u \in Threads \ {t} : pc'[u] = pc[u] /\ frame'[u] = frame[u]
    BY <1>10, <1>t DEF UnparkAll, Leave, Goto
  <2>3. CASE frame[t].guard = COMPLETE
    <3>1. pc'[t] = "read" /\ t \in seen
      BY <1>10, <1>t, <2>1, <2>3 DEF UnparkAll, Goto, SeenOK, Completed
    <3>2. QED
      BY <1>b, <2>1, <2>2, <3>1
  <2>4. CASE frame[t].guard # COMPLETE
    <3>1. pc'[t] = "idle"
      BY <1>10, <1>t, <2>1, <2>4 DEF UnparkAll, Leave, Goto, Blocking
    <3>2. QED
      BY <1>b, <2>1, <2>2, <3>1
  <2>5. QED
    BY <2>3, <2>4
<1>11. ASSUME NEW t \in Threads, GetUnchecked(t)
       PROVE  SeenOK'
  <2>1. pc[t] = "read" /\ pc'[t] = "idle" /\ seen' = seen
    BY <1>11, <1>t DEF GetUnchecked, Leave, Goto, Blocking
  <2>2. \A u \in Threads \ {t} : pc'[u] = pc[u] /\ frame'[u] = frame[u]
    BY <1>11, <1>t DEF GetUnchecked, Leave, Goto
  <2>3. QED
    BY <1>b, <2>1, <2>2
<1>12. CASE Take
  BY <1>12 DEF Take, SeenOK
<1>13. CASE UNCHANGED vars
  BY <1>13 DEF vars, SeenOK, Completed
<1>14. QED
  BY <1>1, <1>2, <1>3, <1>4, <1>5, <1>6, <1>7, <1>8, <1>9, <1>10, <1>11, <1>12, <1>13
     DEF Next, Step

(* The Acquire loads and the Release store of imp_pl order the closure     *)
(* before its readers, and a failed closure before the next one; that the  *)
(* validation in initialize_inner is Relaxed takes nothing away.           *)
THEOREM AccessesAreOrdered == Spec => []NoDataRace
<1>1. Init => SeenOK
  BY DEF Init, SeenOK
<1>2. SeenOK => NoDataRace
  BY DEF SeenOK, Completed, NoDataRace
<1>3. QED
  BY <1>1, <1>2, NextSeen, CellInvariant, PTL DEF Spec
-----------------------------------------------------------------------------
(* ImpPl implements OnceCellSpec.  A closure that succeeds is seen to when *)
(* its guard stores COMPLETE, one that fails when it has unparked all.     *)

(* What the refinement mapping makes of the value. *)
Seen == IF state = COMPLETE THEN value ELSE Null

LEMMA InitRefines == Init => OnceCell!Init
<1> SUFFICES ASSUME Init
             PROVE  OnceCell!Init
  OBVIOUS
<1>1. \A t \in Threads : Phase(t) = "idle"
  BY DEF Init, Phase
<1>2. Seen \in Threads \cup {Null}
  BY DEF Init, Seen
<1>3. QED
  BY <1>1, <1>2 DEF OnceCell!Init, Seen

(* A step that changes the phase of at most one thread. *)
LEMMA PhaseOfOne ==
  ASSUME NEW t \in Threads, \A u \in Threads \ {t} : Phase(u)' = Phase(u)
  PROVE  [u \in Threads |-> Phase(u)]' = [[u \in Threads |-> Phase(u)] EXCEPT ![t] = Phase(t)']
OBVIOUS

LEMMA SamePhases ==
  ASSUME \A u \in Threads : Phase(u)' = Phase(u)
  PROVE  [u \in Threads |-> Phase(u)]' = [u \in Threads |-> Phase(u)]
OBVIOUS

(* The phase of a thread is a matter of its own pc and locals. *)
LEMMA PhaseIsLocal ==
  ASSUME NEW t \in Threads, pc'[t] = pc[t], frame'[t] = frame[t]
  PROVE  Phase(t)' = Phase(t)
BY DEF Phase, Owns

LEMMA NextRefines == CellInv /\ [Next]_vars => [OnceCell!Next]_OnceCell!vars
<1> SUFFICES ASSUME CellInv, [Next]_vars
             PROVE  OnceCell!Next \/ UNCHANGED OnceCell!vars
  OBVIOUS
<1> USE DEF INCOMPLETE, RUNNING, COMPLETE, Blocking
<1>t. pc \in [Threads -> PCs] /\ frame \in [Threads -> Frames]
  BY DEF CellInv, TypeOK
<1>1. ASSUME Seen' = Seen, \A u \in Threads : Phase(u)' = Phase(u)
      PROVE  UNCHANGED OnceCell!vars
  BY <1>1, SamePhases DEF OnceCell!vars, Seen
<1>2. ASSUME NEW t \in Threads, Get(t)
      PROVE  OnceCell!Next \/ UNCHANGED OnceCell!vars
  <2>1. \A u \in Threads \ {t} : Phase(u)' = Phase(u)
    BY <1>2, <1>t, PhaseIsLocal DEF Get, Goto
  <2>2. Seen' = Seen
    BY <1>2 DEF Get, Seen
  <2>3. PICK k : IF Older(k) = COMPLETE
                 THEN pc'[t] = "read" /\ frame'[t] = Frame("get")
                 ELSE UNCHANGED <<pc, frame>>
    BY <1>2, <1>t DEF Get, Goto
  <2>4. CASE Older(k) = COMPLETE
    <3>1. Phase(t) = "idle" /\ Phase(t)' = "waiting"
      BY <1>2, <2>3, <2>4 DEF Get, Phase, Owns, Frame
    <3>2. OnceCell!Call(t)
      BY <2>1, <2>2, <3>1, PhaseOfOne DEF OnceCell!Call, Seen
    <3>3. QED
      BY <3>2 DEF OnceCell!Next
  <2>5. CASE Older(k) # COMPLETE
    <3>1. Phase(t)' = Phase(t)
      BY <2>3, <2>5, PhaseIsLocal
    <3>2. QED
      BY <1>1, <2>1, <2>2, <3>1
  <2>6. QED
    BY <2>4, <2>5
<1>3. ASSUME NEW t \in Threads, NEW o \in {"init", "wait"}, Call(t, o)
      PROVE  OnceCell!Next \/ UNCHANGED OnceCell!vars
  <2>1. \A u \in Threads \ {t} : Phase(u)' = Phase(u)
    BY <1>3, <1>t, PhaseIsLocal DEF Call, Goto
  <2>2. Seen' = Seen
    BY <1>3 DEF Call, Seen
  <2>3. pc'[t] \in {"read", "cas", "check"}
    BY <1>3, <1>t DEF Call, Goto, Loop
  <2>4. CASE pc[t] = "idle"
    <3>1. Phase(t) = "idle" /\ Phase(t)' \in {"trying", "waiting"}
      BY <1>3, <1>t, <2>3, <2>4 DEF Call, Phase, Owns, Frame
    <3>2. OnceCell!Call(t)
      BY <2>1, <2>2, <3>1, PhaseOfOne DEF OnceCell!Call, Seen
    <3>3. QED
      BY <3>2 DEF OnceCell!Next
  <2>5. CASE pc[t] = "closure"
    <3>1. Phase(t)' = Phase(t)
      BY <1>3, <1>t, <2>3, <2>5 DEF Call, Phase, Owns, Frame
    <3>2. QED
      BY <1>1, <2>1, <2>2, <3>1
  <2>6. QED
    BY <1>3, <2>4, <2>5 DEF Call
<1>4. ASSUME NEW t \in Threads, Start(t)
      PROVE  OnceCell!Next
  <2>1. \A u \in Threads \ {t} : Phase(u)' = Phase(u)
    BY <1>4, <1>t, PhaseIsLocal DEF Start, Goto
  <2>2. state = INCOMPLETE /\ state' = RUNNING
    BY <1>4 DEF Start, Starts
  <2>3. \A u \in Threads : ~Owns(u)
    BY <2>2 DEF CellInv, RunningIsOwned
  <2>4. \A u \in Threads : Phase(u) # "running"
    BY <2>3 DEF Phase
  <2>5. Phase(t) = "trying"
    BY <1>4, <2>3 DEF Start, Phase, CellInv, FrameOK
  <2>6. Phase(t)' = "running"
    BY <1>4, <1>t DEF Start, Goto, Phase, Owns
  <2>7. OnceCell!Start(t)
    BY <2>1, <2>2, <2>4, <2>5, <2>6, PhaseOfOne DEF OnceCell!Start
  <2>8. QED
    BY <2>7 DEF OnceCell!Next
<1>5. ASSUME NEW t \in Threads,
             \/ StartFailed(t) \/ StartFailedSpuriously(t) \/ Check(t) \/ Park(t) \/ Wake(t)
      PROVE  UNCHANGED OnceCell!vars
  <2>1. \A u \in Threads \ {t} : Phase(u)' = Phase(u)
    BY <1>5, <1>t, PhaseIsLocal
       DEF StartFailed, StartFailedSpuriously, Check, Park, Wake, Goto
  <2>2. Seen' = Seen
    BY <1>5 DEF StartFailed, StartFailedSpuriously, Check, Park, Wake, Seen
  <2>3. frame' = frame /\ {pc[t], pc'[t]} \subseteq Blocking \cup {"read"}
    BY <1>5, <1>t DEF StartFailed, StartFailedSpuriously, Check, AfterCheck, Park, Wake, Goto,
                      Loop
  <2>4. Phase(t)' = Phase(t)
    BY <2>3 DEF Phase, Owns
  <2>5. QED
    BY <1>1, <2>1, <2>2, <2>4
<1>6. ASSUME NEW t \in Threads, ClosureReturns(t)
      PROVE  UNCHANGED OnceCell!vars
  <2>1. \A u \in Threads \ {t} : Phase(u)' = Phase(u)
    BY <1>6, <1>t, PhaseIsLocal DEF ClosureReturns, ClosureSucceeds, ClosureFails, Goto
  <2>2. state = RUNNING /\ state' = state
    BY <1>6 DEF ClosureReturns, ClosureSucceeds, ClosureFails, CellInv, RunningIsOwned, Owns
  <2>3. Phase(t) = "running" /\ Phase(t)' = "running"
    BY <1>6, <1>t DEF ClosureReturns, ClosureSucceeds, ClosureFails, Goto, Phase, Owns
  <2>4. QED
    BY <1>1, <2>1, <2>2, <2>3 DEF Seen
<1>7. ASSUME NEW t \in Threads, Store(t)
      PROVE  OnceCell!Next
  <2>1. \A u \in Threads \ {t} : Phase(u)' = Phase(u)
    BY <1>7, <1>t, PhaseIsLocal DEF Store, Goto
  <2>2. state = RUNNING /\ ~frame[t].outer /\ frame[t].op = "init"
    BY <1>7 DEF Store, CellInv, RunningIsOwned, FrameOK, Owns
  <2>3. state' = frame[t].guard /\ value' = value
    BY <1>7 DEF Store, NewState
  <2>4. pc[t] = "store" /\ pc'[t] = "unpark" /\ frame' = frame
    BY <1>7, <1>t DEF Store, Goto
  <2>5. Phase(t) = "running"
    BY <2>4 DEF Phase, Owns
  <2>6. CASE frame[t].guard = COMPLETE
    <3>1. Phase(t)' = "trying"
      BY <2>2, <2>4, <2>6 DEF Phase, Owns
    <3>2. value = t
      BY <2>4, <2>6 DEF CellInv, ValueOK, Stored
    <3>3. OnceCell!Succeed(t)
      BY <2>1, <2>3, <2>5, <2>6, <3>1, <3>2, PhaseOfOne DEF OnceCell!Succeed
    <3>4. QED
      BY <3>3 DEF OnceCell!Next
  <2>7. CASE frame[t].guard # COMPLETE
    <3>1. Phase(t)' = "failed"
      BY <1>t, <2>2, <2>4, <2>7 DEF Phase, Owns, Frames
    <3>2. OnceCell!Fail(t)
      BY <2>1, <2>2, <2>3, <2>5, <2>7, <3>1, PhaseOfOne DEF OnceCell!Fail
    <3>3. QED
      BY <3>2 DEF OnceCell!Next
  <2>8. QED
    BY <2>6, <2>7
<1>8. ASSUME NEW t \in Threads, UnparkAll(t)
      PROVE  OnceCell!Next \/ UNCHANGED OnceCell!vars
  <2>1. \A u \in Threads \ {t} : Phase(u)' = Phase(u)
    BY <1>8, <1>t, PhaseIsLocal DEF UnparkAll, Leave, Goto
  <2>2. Seen' = Seen
    BY <1>8 DEF UnparkAll, Seen
  <2>3. pc[t] = "unpark" /\ ~frame[t].outer /\ frame[t].op = "init"
    BY <1>8 DEF UnparkAll, CellInv, FrameOK
  <2>4. CASE frame[t].guard = COMPLETE
    <3>1. pc'[t] = "read" /\ frame' = frame
      BY <1>8, <1>t, <2>4 DEF UnparkAll, Goto
    <3>2. Phase(t)' = Phase(t)
      BY <2>3, <2>4, <3>1 DEF Phase, Owns
    <3>3. QED
      BY <1>1, <2>1, <2>2, <3>2
  <2>5. CASE frame[t].guard # COMPLETE
    <3>1. Phase(t) = "failed" /\ Phase(t)' = "idle"
      BY <1>8, <1>t, <2>3, <2>5 DEF UnparkAll, Leave, Goto, Phase, Owns, Frames
    <3>2. OnceCell!Return(t)
      BY <2>1, <2>2, <3>1, PhaseOfOne DEF OnceCell!Return, Seen
    <3>3. QED
      BY <3>2 DEF OnceCell!Next
  <2>6. QED
    BY <2>4, <2>5
<1>9. ASSUME NEW t \in Threads, GetUnchecked(t)
      PROVE  OnceCell!Next
  <2>1. \A u \in Threads \ {t} : Phase(u)' = Phase(u)
    BY <1>9, <1>t, PhaseIsLocal DEF GetUnchecked, Leave, Goto
  <2>2. /\ state = COMPLETE /\ value # Null /\ state' = state /\ value' = value
        /\ pc[t] = "read" /\ ~frame[t].outer
    BY <1>9 DEF GetUnchecked, CellInv, FrameOK, CompleteOK, Completed, ValueOK
  <2>3. Phase(t) \in {"trying", "waiting"} /\ Phase(t)' = "idle"
    BY <1>9, <1>t, <2>2 DEF GetUnchecked, Leave, Goto, Phase, Owns
  <2>4. OnceCell!Return(t)
    BY <2>1, <2>2, <2>3, PhaseOfOne DEF OnceCell!Return
  <2>5. QED
    BY <2>4 DEF OnceCell!Next
<1>10. CASE Take
  <2>1. \A t \in Threads : Phase(t) = "idle" /\ Phase(t)' = "idle"
    BY <1>10 DEF Take, Phase
  <2>2. OnceCell!Take
    BY <1>10, <2>1, SamePhases DEF Take, OnceCell!Take
  <2>3. QED
    BY <2>2 DEF OnceCell!Next
<1>11. CASE UNCHANGED vars
  <2>1. Seen' = Seen /\ \A t \in Threads : Phase(t)' = Phase(t)
    BY <1>11, PhaseIsLocal DEF vars, Seen
  <2>2. QED
    BY <1>1, <2>1
<1>12. QED
  BY <1>2, <1>3, <1>4, <1>5, <1>6, <1>7, <1>8, <1>9, <1>10, <1>11 DEF Next, Step

(* src/imp_pl.rs keeps the promises of OnceCellSpec, although its loads    *)
(* may be stale: one closure at a time, the first success is what every    *)
(* call returns, and only `take` empties the cell.                         *)
THEOREM Refinement == Spec => IsOnceCell
BY InitRefines, NextRefines, CellInvariant, PTL DEF Spec, IsOnceCell, OnceCell!Spec
=============================================================================
