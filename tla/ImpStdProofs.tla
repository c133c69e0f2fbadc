---------------------------- MODULE ImpStdProofs ----------------------------
(* Theorems about ImpStd for any set of threads and any program, and at    *)
(* the end about the words of its queue, for any width of usize.           *)
EXTENDS QueueWords, TLAPS
-----------------------------------------------------------------------------
(* Views. *)

(* The events of a view stay events when a view is extended or trimmed.    *)
LEMMA WithoutType ==
  ASSUME NEW v \in Views, NEW E
  PROVE  Without(v, E) \in Views
BY DEF Without, Views

LEMMA DoesType ==
  ASSUME NEW v \in Views, NEW t \in Threads, NEW e \in Events, NEW E
  PROVE  Does(v, t, e, E) \in Views
<1>1. Without(v, E) \in Views
  BY WithoutType
<1>2. QED
  BY <1>1 DEF Does, Views

LEMMA ReadType ==
  ASSUME NEW v \in Views, NEW t \in Threads, NEW ord, NEW released \in SUBSET Events
  PROVE  Read(v, t, ord, released) \in Views
BY DEF Read, Views

LEMMA ReadWriteType ==
  ASSUME NEW v \in Views, NEW t \in Threads, NEW ord
  PROVE  ReadWrite(v, t, ord) \in Views
<1> DEFINE r == Read(v, t, ord, v.queue)
<1>1. r \in Views
  BY ReadType DEF Views
<1>2. r.thread[t] \in SUBSET Events /\ r.queue \in SUBSET Events
  BY <1>1 DEF Views
<1> HIDE DEF r
<1>3. [r EXCEPT !.queue = @ \cup (IF Releases(ord) THEN r.thread[t] ELSE {})] \in Views
  BY <1>1, <1>2 DEF Views
<1>4. QED
  BY <1>3 DEF ReadWrite, r

LEMMA EventsOfThreads ==
  ASSUME NEW t \in Threads
  PROVE  {Closure, NodeInit(t), Taken(t), Signaled(t)} \subseteq Events
BY DEF Events, NodeEvents

(* The types of what the actions assign. *)
LEMMA FrameType ==
  ASSUME NEW o \in {"none", "get", "init", "wait"}
  PROVE  Frame(o) \in Frames
BY DEF Frame, FrameWith, Frames, Words, Word, INCOMPLETE_PTR, States, Pointers, INCOMPLETE

LEMMA DispatchType ==
  ASSUME NEW o, NEW s
  PROVE  Dispatch(o, s) \in PCs
BY DEF Dispatch, PCs
-----------------------------------------------------------------------------
(* Types.  A thread in the loop of Guard::drop is at a waiter, not at null. *)

CursorOK ==
  \A t \in Threads : pc[t] \in {"take", "signal", "unpark"} => frame[t].at \in Threads

LEMMA InitType == Init => TypeOK
<1> SUFFICES ASSUME Init
             PROVE  TypeOK
  OBVIOUS
<1> USE DEF Init
<1>1. queue \in Words /\ value \in Pointers
  BY DEF Words, Word, INCOMPLETE_PTR, COMPLETE_PTR, States, Pointers
<1>2. node \in [Threads -> Nodes] /\ token \in [Threads -> BOOLEAN]
  BY DEF NoWaiter, Nodes, Pointers
<1>3. pc \in [Threads -> PCs] /\ frame \in [Threads -> Frames]
  BY FrameType DEF PCs
<1>4. view \in Views
  BY DEF Views, Events
<1>5. QED
  BY <1>1, <1>2, <1>3, <1>4 DEF TypeOK

LEMMA LeaveType ==
  ASSUME TypeOK, NEW t \in Threads, Leave(t)
  PROVE  pc' \in [Threads -> PCs] /\ frame' \in [Threads -> Frames]
<1>1. pc' \in [Threads -> PCs]
  BY DEF TypeOK, Leave, Goto, PCs
<1>2. Frame(IF frame[t].outer THEN "init" ELSE "none") \in Frames
  BY FrameType
<1>3. QED
  BY <1>1, <1>2 DEF TypeOK, Leave

LEMMA ForgetType ==
  ASSUME TypeOK, NEW t \in Threads, Forget(t)
  PROVE  frame' \in [Threads -> Frames]
<1>1. INCOMPLETE_PTR \in Words
  BY DEF INCOMPLETE_PTR, Word, Words, States, Pointers
<1>2. QED
  BY <1>1 DEF TypeOK, Forget, Frames

LEMMA DrainedType ==
  ASSUME TypeOK, NEW t \in Threads, Drained(t)
  PROVE  pc' \in [Threads -> PCs] /\ frame' \in [Threads -> Frames]
<1>1. CASE frame[t].guard = COMPLETE
  <2>1. pc' \in [Threads -> PCs]
    BY <1>1 DEF TypeOK, Drained, Goto, PCs
  <2>2. frame' \in [Threads -> Frames]
    BY <1>1 DEF TypeOK, Drained, Frames, Pointers
  <2>3. QED
    BY <2>1, <2>2
<1>2. CASE frame[t].guard # COMPLETE
  BY <1>2, LeaveType DEF Drained
<1>3. QED
  BY <1>1, <1>2

LEMMA NextType == TypeOK /\ CursorOK /\ [Next]_vars => TypeOK'
<1> SUFFICES ASSUME TypeOK, CursorOK, [Next]_vars
             PROVE  TypeOK'
  OBVIOUS
<1> USE DEF TypeOK
<1>a. ASSUME NEW t \in Threads, NEW ord, NEW r \in SUBSET Events
      PROVE  Read(view, t, ord, r) \in Views /\ ReadWrite(view, t, ord) \in Views
  BY ReadType, ReadWriteType
<1>b. ASSUME NEW t \in Threads
      PROVE  /\ view.queue \in SUBSET Events
             /\ view.thread[t] \in SUBSET Events
             /\ view.signal[t] \in SUBSET Events
             /\ view.token[t] \in SUBSET Events
             /\ queue.state \in States /\ queue.head \in Pointers
             /\ frame[t] \in Frames
  BY DEF Views, Words
<1>c. ASSUME NEW t \in Threads, NEW o, NEW s, Goto(t, Dispatch(o, s))
      PROVE  pc' \in [Threads -> PCs]
  BY <1>c, DispatchType DEF Goto
<1>1. ASSUME NEW t \in Threads, Get(t)
      PROVE  TypeOK'
  <2>1. pc' \in [Threads -> PCs] /\ frame' \in [Threads -> Frames]
    BY <1>1, FrameType DEF Get, Goto, PCs
  <2>2. QED
    BY <1>1, <1>a, <1>b, <2>1 DEF Get
<1>2. ASSUME NEW t \in Threads, NEW o \in {"init", "wait"}, Call(t, o)
      PROVE  TypeOK'
  <2>1. Frame(o) \in Frames
    BY FrameType
  <2>2. [Frame(o) EXCEPT !.outer = TRUE] \in Frames
    BY <2>1 DEF Frames
  <2>3. frame' \in [Threads -> Frames]
    BY <1>2, <2>1, <2>2 DEF Call
  <2>4. pc' \in [Threads -> PCs]
    BY <1>2 DEF Call, Goto, PCs
  <2>5. QED
    BY <1>2, <1>a, <1>b, <2>3, <2>4 DEF Call
<1>3. ASSUME NEW t \in Threads, Load(t)
      PROVE  TypeOK'
  <2>1. frame' \in [Threads -> Frames]
    BY <1>3, <1>b DEF Load, Frames
  <2>2. QED
    BY <1>3, <1>a, <1>b, <1>c, <2>1 DEF Load
<1>4. ASSUME NEW t \in Threads, Start(t)
      PROVE  TypeOK'
  <2>1. queue' \in Words
    BY <1>4, <1>b DEF Start, AsRunning, Word, Words, States, Frames
  <2>2. frame' \in [Threads -> Frames]
    BY <1>4, ForgetType DEF Start
  <2>3. QED
    BY <1>4, <1>a, <2>1, <2>2 DEF Start, Goto, PCs
<1>5. ASSUME NEW t \in Threads, StartFailed(t)
      PROVE  TypeOK'
  <2>1. frame' \in [Threads -> Frames]
    BY <1>5, <1>b DEF StartFailed, Frames
  <2>2. QED
    BY <1>5, <1>a, <1>b, <1>c, <2>1 DEF StartFailed
<1>6. ASSUME NEW t \in Threads, ClosureSucceeds(t)
      PROVE  TypeOK'
  <2>1. frame' \in [Threads -> Frames]
    BY <1>6, <1>b DEF ClosureSucceeds, Frames
  <2>2. view' \in Views
    BY <1>6, DoesType, EventsOfThreads DEF ClosureSucceeds
  <2>3. QED
    BY <1>6, <2>1, <2>2 DEF ClosureSucceeds, Goto, PCs, Pointers
<1>7. ASSUME NEW t \in Threads, ClosureFails(t)
      PROVE  TypeOK'
  <2>1. view' \in Views
    BY <1>7, DoesType, EventsOfThreads DEF ClosureFails
  <2>2. QED
    BY <1>7, <2>1 DEF ClosureFails, Goto, PCs
<1>8. ASSUME NEW t \in Threads, Drop(t)
      PROVE  TypeOK'
  <2>1. queue' \in Words
    BY <1>8, <1>b DEF Drop, NewQueue, Word, Words, States, Frames, Pointers
  <2>2. pc' \in [Threads -> PCs] /\ frame' \in [Threads -> Frames]
    <3>1. CASE queue.head = Null
      BY <1>8, <3>1, DrainedType DEF Drop
    <3>2. CASE queue.head # Null
      BY <1>8, <3>2, <1>b DEF Drop, Goto, PCs, Frames
    <3>3. QED
      BY <3>1, <3>2
  <2>3. QED
    BY <1>8, <1>a, <2>1, <2>2 DEF Drop
<1>9. ASSUME NEW t \in Threads, TakeHandle(t)
      PROVE  TypeOK'
  <2> DEFINE w == frame[t].at
  <2>1. w \in Threads
    BY <1>9 DEF TakeHandle, CursorOK
  <2>2. node' \in [Threads -> Nodes]
    BY <1>9 DEF TakeHandle, Nodes
  <2>3. NextWaiter(w) \in Pointers
    BY <2>1 DEF NextWaiter, Nodes
  <2>4. frame' \in [Threads -> Frames]
    BY <1>9, <1>b, <2>3 DEF TakeHandle, Frames
  <2>5. view' \in Views
    BY <1>9, <2>1, DoesType, EventsOfThreads DEF TakeHandle
  <2>6. QED
    BY <1>9, <2>2, <2>4, <2>5 DEF TakeHandle, Goto, PCs
<1>10. ASSUME NEW t \in Threads, Signal(t)
      PROVE  TypeOK'
  <2> DEFINE w == frame[t].at
             v == Does(view, t, Signaled(w), {})
  <2>1. w \in Threads
    BY <1>10 DEF Signal, CursorOK
  <2>2. node' \in [Threads -> Nodes]
    BY <1>10 DEF Signal, Nodes
  <2>3. v \in Views
    BY <2>1, DoesType, EventsOfThreads
  <2>4. view' \in Views
    <3> HIDE DEF v
    <3>1. view' = [v EXCEPT !.signal[w] = IF Releases(SignalStore) THEN v.thread[t] ELSE {}]
      BY <1>10 DEF Signal, v
    <3>2. (IF Releases(SignalStore) THEN v.thread[t] ELSE {}) \in SUBSET Events
      BY <2>3 DEF Views
    <3>3. QED
      BY <2>1, <2>3, <3>1, <3>2 DEF Views
  <2>5. QED
    BY <1>10, <2>2, <2>4 DEF Signal, Goto, PCs
<1>11. ASSUME NEW t \in Threads, Unpark(t)
      PROVE  TypeOK'
  <2>1. token' \in [Threads -> BOOLEAN]
    BY <1>11 DEF Unpark
  <2>2. view' \in Views
    BY <1>11 DEF Unpark, Views
  <2>3. pc' \in [Threads -> PCs] /\ frame' \in [Threads -> Frames]
    <3>1. CASE frame[t].after = Null
      BY <1>11, <3>1, DrainedType DEF Unpark
    <3>2. CASE frame[t].after # Null
      BY <1>11, <3>2, <1>b DEF Unpark, Goto, PCs, Frames, Pointers
    <3>3. QED
      BY <3>1, <3>2
  <2>4. QED
    BY <1>11, <2>1, <2>2, <2>3 DEF Unpark
<1>12. ASSUME NEW t \in Threads, Push(t)
      PROVE  TypeOK'
  <2>1. frame[t].cur \in Words
    BY <1>b DEF Frames
  <2>2. node' \in [Threads -> Nodes]
    BY <1>12, <2>1 DEF Push, Waiter, Nodes, Words
  <2>3. queue' \in Words
    BY <1>12, <2>1 DEF Push, Word, Words, Pointers
  <2>4. frame' \in [Threads -> Frames]
    BY <1>12, ForgetType DEF Push
  <2>5. Does(view, t, NodeInit(t), {}) \in Views
    BY DoesType, EventsOfThreads
  <2>6. view' \in Views
    BY <1>12, <2>5, ReadWriteType DEF Push
  <2>7. QED
    BY <1>12, <2>2, <2>3, <2>4, <2>6 DEF Push, Goto, PCs
<1>13. ASSUME NEW t \in Threads, PushFailed(t)
      PROVE  TypeOK'
  <2>1. pc' \in [Threads -> PCs]
    BY <1>13 DEF PushFailed, Goto, PCs
  <2>2. frame' \in [Threads -> Frames]
    <3>1. CASE queue.state # frame[t].cur.state
      BY <1>13, <3>1, ForgetType DEF PushFailed
    <3>2. CASE queue.state = frame[t].cur.state
      BY <1>13, <3>2, <1>b DEF PushFailed, Frames
    <3>3. QED
      BY <3>1, <3>2
  <2>3. QED
    BY <1>13, <1>a, <1>b, <2>1, <2>2 DEF PushFailed
<1>14. ASSUME NEW t \in Threads, SeeSignal(t)
      PROVE  TypeOK'
  BY <1>14, <1>a, <1>b DEF SeeSignal, Goto, PCs
<1>15. ASSUME NEW t \in Threads, MissSignal(t)
      PROVE  TypeOK'
  BY <1>15 DEF MissSignal, Goto, PCs
<1>16. ASSUME NEW t \in Threads, Park(t)
      PROVE  TypeOK'
  <2>1. view' \in Views
    BY <1>16 DEF Park, Views
  <2>2. QED
    BY <1>16, <2>1 DEF Park, Goto, PCs
<1>17. ASSUME NEW t \in Threads, WakeSpuriously(t)
      PROVE  TypeOK'
  BY <1>17 DEF WakeSpuriously, Goto, PCs
<1>18. ASSUME NEW t \in Threads, Pop(t)
      PROVE  TypeOK'
  <2>1. Without(view, NodeEvents(t)) \in Views
    BY WithoutType
  <2>2. view' \in Views
    BY <1>18, <2>1 DEF Pop, Views
  <2>3. QED
    BY <1>18, <2>2 DEF Pop, NoWaiter, Nodes, Pointers, Goto, PCs
<1>19. ASSUME NEW t \in Threads, GetUnchecked(t)
      PROVE  TypeOK'
  BY <1>19, LeaveType DEF GetUnchecked
<1>20. CASE Take
  BY <1>20 DEF Take, Pointers, Words, Word, INCOMPLETE_PTR, States, Views, Events
<1>21. CASE UNCHANGED vars
  BY <1>21 DEF vars
<1>22. QED
  BY <1>1, <1>2, <1>3, <1>4, <1>5, <1>6, <1>7, <1>8, <1>9, <1>10, <1>11, <1>12, <1>13,
     <1>14, <1>15, <1>16, <1>17, <1>18, <1>19, <1>20, <1>21
     DEF Next, Step, ClosureReturns
-----------------------------------------------------------------------------
(* The life of the cell: who owns it, and what its state says of the value. *)

Notifying == {"take", "signal", "unpark"}
Blocking == {"load", "start", "push", "check", "park", "pop"}

(* Where the locals of a call are meaningful, and what curr_state says. *)
FrameOK ==
  \A t \in Threads :
    /\ frame[t].outer => pc[t] \in Blocking
    /\ pc[t] \in {"start", "closure", "drop"} \cup Notifying => frame[t].op = "init"
    /\ frame[t].guard = COMPLETE => pc[t] \in {"drop", "read"} \cup Notifying
    /\ pc[t] = "start" => frame[t].cur.state = INCOMPLETE
    /\ pc[t] = "push" => frame[t].cur.state # COMPLETE

(* The cell is COMPLETE for those who completed it or go on to read it. *)
CompleteOK ==
  \A t \in Threads :
    \/ pc[t] = "read"
    \/ pc[t] \in Notifying /\ frame[t].guard = COMPLETE
    => queue.state = COMPLETE

Stored(t) == pc[t] = "drop" /\ frame[t].guard = COMPLETE

ValueOK ==
  /\ value # Null <=> queue.state = COMPLETE \/ \E t \in Threads : Stored(t)
  /\ \A t \in Threads : Stored(t) => value = t

CellInv ==
  /\ TypeOK
  /\ CursorOK
  /\ FrameOK
  /\ RunningIsOwned
  /\ CompleteHasNoWaiters
  /\ CompleteOK
  /\ ValueOK

LEMMA InitCell == Init => CellInv
<1> SUFFICES ASSUME Init
             PROVE  CellInv
  OBVIOUS
<1>1. TypeOK
  BY InitType
<1>2. \A t \in Threads : pc[t] = "idle" /\ ~frame[t].outer /\ frame[t].guard = INCOMPLETE
  BY DEF Init, Frame, FrameWith
<1>3. CursorOK /\ FrameOK /\ CompleteOK
  BY <1>2 DEF CursorOK, FrameOK, CompleteOK, Notifying, Blocking, INCOMPLETE, COMPLETE
<1>4. queue.state # RUNNING /\ (value # Null <=> queue.state = COMPLETE) /\ queue.head = Null
  BY DEF Init, INCOMPLETE_PTR, COMPLETE_PTR, Word, INCOMPLETE, RUNNING, COMPLETE
<1>5. RunningIsOwned /\ CompleteHasNoWaiters /\ ValueOK
  BY <1>2, <1>4 DEF RunningIsOwned, Owns, CompleteHasNoWaiters, ValueOK, Stored
<1>6. QED
  BY <1>1, <1>3, <1>5 DEF CellInv
(* Most steps disturb no conjunct of the invariant beyond pc; the swap of  *)
(* Guard::drop and the end of its loop need an argument.                   *)
LEMMA NextCell == CellInv /\ [Next]_vars => CellInv'
<1> SUFFICES ASSUME CellInv, [Next]_vars
             PROVE  CellInv'
  OBVIOUS
<1> USE DEF CellInv, TypeOK, CursorOK, FrameOK, RunningIsOwned, Owns, CompleteHasNoWaiters,
            CompleteOK, ValueOK, Stored, Notifying, Blocking, INCOMPLETE, RUNNING, COMPLETE
<1>1. TypeOK'
  BY NextType
<1>2. ASSUME NEW t \in Threads, Get(t)
      PROVE  CellInv'
  BY <1>1, <1>2 DEF Get, Goto, Frame, FrameWith, IsInitialized, COMPLETE_PTR, Word
<1>3. ASSUME NEW t \in Threads, NEW o \in {"init", "wait"}, Call(t, o)
      PROVE  CellInv'
  BY <1>1, <1>3 DEF Call, Goto, Frame, FrameWith, IsInitialized, COMPLETE_PTR, Word
<1>4. ASSUME NEW t \in Threads, Load(t)
      PROVE  CellInv'
  BY <1>1, <1>4 DEF Load, Goto, Dispatch, Words
<1>5. ASSUME NEW t \in Threads, Start(t)
      PROVE  CellInv'
  BY <1>1, <1>5 DEF Start, Goto, Forget, Exchanges, AsRunning, Word
<1>6. ASSUME NEW t \in Threads, StartFailed(t)
      PROVE  CellInv'
  BY <1>1, <1>6 DEF StartFailed, Goto, Dispatch, Words
<1>7. ASSUME NEW t \in Threads, ClosureSucceeds(t)
      PROVE  CellInv'
  <2>1. Stored(t)' /\ \A u \in Threads \ {t} : ~Stored(u)'
    BY <1>7 DEF ClosureSucceeds, Goto, Frames
  <2>2. value' = t /\ t # Null
    BY <1>7, ThreadsAssumption DEF ClosureSucceeds
  <2>3. ValueOK'
    BY <2>1, <2>2
  <2>4. QED
    BY <1>1, <1>7, <2>3 DEF ClosureSucceeds, Goto
<1>8. ASSUME NEW t \in Threads, ClosureFails(t)
      PROVE  CellInv'
  BY <1>1, <1>8 DEF ClosureFails, Goto
<1>9. ASSUME NEW t \in Threads, Drop(t)
      PROVE  CellInv'
  <2>1. queue.state = RUNNING /\ ~frame[t].outer /\ frame[t].guard \in {INCOMPLETE, COMPLETE}
    BY <1>9 DEF Drop, Frames
  <2>2. queue'.state = frame[t].guard /\ queue'.head = Null /\ value' = value
    BY <1>9 DEF Drop, NewQueue, Word
  <2>3. \A u \in Threads \ {t} :
          /\ ~Owns(u) /\ pc[u] # "read" /\ ~Stored(u)
          /\ pc[u] \in Notifying => frame[u].guard # COMPLETE
    BY <1>9, <2>1 DEF Drop
  <2>4. \A u \in Threads \ {t} : pc'[u] = pc[u] /\ frame'[u] = frame[u]
    BY <1>9 DEF Drop, Drained, Leave, Goto
  <2>5. CASE queue.head = Null /\ frame[t].guard = COMPLETE
    <3>1. pc'[t] = "read" /\ ~frame'[t].outer /\ frame'[t].guard = COMPLETE
      BY <1>9, <2>1, <2>5 DEF Drop, Drained, Goto, Frames
    <3>2. QED
      BY <1>1, <2>1, <2>2, <2>3, <2>4, <2>5, <3>1
  <2>6. CASE queue.head = Null /\ frame[t].guard # COMPLETE
    <3>1. pc'[t] = "idle" /\ frame'[t] = Frame("none")
      BY <1>9, <2>1, <2>6 DEF Drop, Drained, Leave, Goto
    <3>2. QED
      BY <1>1, <2>1, <2>2, <2>3, <2>4, <2>6, <3>1 DEF Frame, FrameWith
  <2>7. CASE queue.head # Null
    <3>1. pc'[t] = "take"
      BY <1>9, <2>7 DEF Drop, Goto
    <3>2. frame'[t].at \in Threads /\ ~frame'[t].outer /\ frame'[t].guard = frame[t].guard
          /\ frame'[t].op = frame[t].op
      BY <1>9, <2>1, <2>7 DEF Drop, Frames, Words, Pointers
    <3>3. QED
      BY <1>1, <1>9, <2>1, <2>2, <2>3, <2>4, <3>1, <3>2 DEF Drop
  <2>8. QED
    BY <2>5, <2>6, <2>7
<1>10. ASSUME NEW t \in Threads, TakeHandle(t)
       PROVE  CellInv'
  BY <1>1, <1>10 DEF TakeHandle, Goto
<1>11. ASSUME NEW t \in Threads, Signal(t)
       PROVE  CellInv'
  BY <1>1, <1>11 DEF Signal, Goto
<1>12. ASSUME NEW t \in Threads, Unpark(t)
       PROVE  CellInv'
  <2>1. ~frame[t].outer /\ queue' = queue /\ value' = value
    BY <1>12 DEF Unpark
  <2>2. \A u \in Threads \ {t} : pc'[u] = pc[u] /\ frame'[u] = frame[u]
    BY <1>12 DEF Unpark, Drained, Leave, Goto
  <2>3. CASE frame[t].after = Null /\ frame[t].guard = COMPLETE
    <3>1. pc'[t] = "read" /\ ~frame'[t].outer /\ frame'[t].guard = COMPLETE
      BY <1>12, <2>1, <2>3 DEF Unpark, Drained, Goto, Frames
    <3>2. QED
      BY <1>1, <1>12, <2>1, <2>2, <2>3, <3>1 DEF Unpark
  <2>4. CASE frame[t].after = Null /\ frame[t].guard # COMPLETE
    <3>1. pc'[t] = "idle" /\ frame'[t] = Frame("none")
      BY <1>12, <2>1, <2>4 DEF Unpark, Drained, Leave, Goto
    <3>2. QED
      BY <1>1, <1>12, <2>1, <2>2, <3>1 DEF Unpark, Frame, FrameWith
  <2>5. CASE frame[t].after # Null
    <3>1. pc'[t] = "take"
      BY <1>12, <2>5 DEF Unpark, Goto
    <3>2. frame'[t].at \in Threads /\ ~frame'[t].outer /\ frame'[t].guard = frame[t].guard
          /\ frame'[t].op = frame[t].op
      BY <1>12, <2>1, <2>5 DEF Unpark, Frames, Pointers
    <3>3. QED
      BY <1>1, <1>12, <2>1, <2>2, <3>1, <3>2 DEF Unpark
  <2>6. QED
    BY <2>3, <2>4, <2>5
<1>13. ASSUME NEW t \in Threads, Push(t)
       PROVE  CellInv'
  BY <1>1, <1>13 DEF Push, Goto, Forget, Exchanges, Word
<1>14. ASSUME NEW t \in Threads, PushFailed(t)
       PROVE  CellInv'
  <2>1. /\ pc[t] = "push" /\ pc'[t] \in {"load", "push"}
        /\ pc'[t] = "push" => frame'[t].cur.state # COMPLETE
    BY <1>14 DEF PushFailed, Goto, Frames
  <2>2. frame'[t].outer = frame[t].outer /\ frame'[t].guard = frame[t].guard
    BY <1>14 DEF PushFailed, Forget, Frames
  <2>3. \A u \in Threads \ {t} : pc'[u] = pc[u] /\ frame'[u] = frame[u]
    BY <1>14 DEF PushFailed, Forget, Goto
  <2>4. queue' = queue /\ value' = value
    BY <1>14 DEF PushFailed
  <2>5. QED
    BY <1>1, <2>1, <2>2, <2>3, <2>4
<1>15. ASSUME NEW t \in Threads, SeeSignal(t)
       PROVE  CellInv'
  BY <1>1, <1>15 DEF SeeSignal, Goto
<1>16. ASSUME NEW t \in Threads, MissSignal(t)
       PROVE  CellInv'
  BY <1>1, <1>16 DEF MissSignal, Goto
<1>17. ASSUME NEW t \in Threads, Park(t)
       PROVE  CellInv'
  BY <1>1, <1>17 DEF Park, Goto
<1>18. ASSUME NEW t \in Threads, WakeSpuriously(t)
       PROVE  CellInv'
  BY <1>1, <1>18 DEF WakeSpuriously, Goto
<1>19. ASSUME NEW t \in Threads, Pop(t)
       PROVE  CellInv'
  BY <1>1, <1>19 DEF Pop, Goto
<1>20. ASSUME NEW t \in Threads, GetUnchecked(t)
       PROVE  CellInv'
  BY <1>1, <1>20 DEF GetUnchecked, Leave, Goto, Frame, FrameWith
<1>21. CASE Take
  BY <1>1, <1>21 DEF Take, INCOMPLETE_PTR, Word
<1>22. CASE UNCHANGED vars
  BY <1>1, <1>22 DEF vars
<1>23. QED
  BY <1>2, <1>3, <1>4, <1>5, <1>6, <1>7, <1>8, <1>9, <1>10, <1>11, <1>12, <1>13, <1>14,
     <1>15, <1>16, <1>17, <1>18, <1>19, <1>20, <1>21, <1>22 DEF Next, Step, ClosureReturns

(* The induction that the theorems below share. *)
THEOREM CellInvariant == Spec => []CellInv
BY InitCell, NextCell, PTL DEF Spec

(* Every variable keeps its type. *)
THEOREM TypeCorrect == Spec => []TypeOK
<1>1. CellInv => TypeOK
  BY DEF CellInv
<1>2. QED
  BY <1>1, CellInvariant, PTL

(* Closures never overlap: the INCOMPLETE -> RUNNING exchange of               *)
(* initialize_or_wait lets one thread in until the swap of its Guard.      *)
THEOREM OneInitializer == Spec => []RunningIsOwned
<1>1. CellInv => RunningIsOwned
  BY DEF CellInv
<1>2. QED
  BY <1>1, CellInvariant, PTL

(* get_unchecked finds a value whenever it is called: `initialize` and     *)
(* `wait` return only when the cell is COMPLETE.                           *)
THEOREM NoEarlyReturn == Spec => []ReadsAreInitialized
<1>1. CellInv => ReadsAreInitialized
  BY DEF CellInv, CompleteOK, ValueOK, ReadsAreInitialized
<1>2. QED
  BY <1>1, CellInvariant, PTL

(* is_initialized may compare the whole pointer with COMPLETE_PTR.         *)
THEOREM CompleteIsCompletePtr == Spec => []CompleteHasNoWaiters
<1>1. CellInv => CompleteHasNoWaiters
  BY DEF CellInv
<1>2. QED
  BY <1>1, CellInvariant, PTL

(* A stored value stays until somebody has exclusive access to the cell.   *)
THEOREM ValueIsWrittenOnce == Spec => WrittenOnce
<1>1. CellInv /\ [Next]_vars => [value' # value => value = Null \/ Take]_vars
  <2> SUFFICES ASSUME CellInv, [Next]_vars, value' # value, value # Null
               PROVE  Take
    OBVIOUS
  <2>1. ASSUME NEW t \in Threads, ClosureSucceeds(t)
        PROVE  FALSE
    <3>1. queue.state = RUNNING /\ \A u \in Threads : ~Stored(u)
      BY <2>1 DEF CellInv, RunningIsOwned, Owns, Stored, ClosureSucceeds
    <3>2. QED
      BY <3>1 DEF CellInv, ValueOK, RUNNING, COMPLETE
  <2>2. QED
    BY <2>1 DEF Next, Step, ClosureReturns, vars, Get, Call, Load, Start, StartFailed,
       ClosureFails, Drop, TakeHandle, Signal, Unpark, Push, PushFailed, SeeSignal,
       MissSignal, Park, WakeSpuriously, Pop, GetUnchecked
<1>2. QED
  BY <1>1, CellInvariant, PTL DEF Spec, WrittenOnce

(* The inner call of a closure that initializes or waits for its own cell  *)
(* never returns.                                                          *)
THEOREM ReentryIsStuck == Spec => ReentryDeadlocks
<1> DEFINE Stuck == \A t \in Threads : frame[t].outer => frame'[t].outer /\ queue'.state = RUNNING
<1>1. CellInv /\ CellInv' /\ [Next]_vars => [Stuck]_vars
  <2> SUFFICES ASSUME CellInv, CellInv', Next, NEW t \in Threads, frame[t].outer
               PROVE  frame'[t].outer /\ queue'.state = RUNNING
    BY DEF vars
  <2>1. pc[t] \in Blocking /\ queue.state = RUNNING /\ frame[t] \in Frames
    BY DEF CellInv, TypeOK, FrameOK, RunningIsOwned, Owns
  <2>2. frame'[t].outer
    <3>1. ASSUME NEW u \in Threads,
                 Load(u) \/ Start(u) \/ StartFailed(u) \/ Push(u) \/ PushFailed(u)
          PROVE  frame'[t].outer
      BY <2>1, <3>1 DEF Load, Start, StartFailed, Push, PushFailed, Forget, Frames,
         CellInv, TypeOK
    <3>2. ASSUME NEW u \in Threads,
                 \/ Get(u) \/ \E o \in {"init", "wait"} : Call(u, o)
                 \/ ClosureSucceeds(u) \/ Drop(u) \/ TakeHandle(u) \/ Unpark(u)
                 \/ GetUnchecked(u)
          PROVE  frame'[t].outer
      <4>1. u # t
        BY <2>1, <3>2 DEF Blocking, Get, Call, ClosureSucceeds, Drop, TakeHandle, Unpark,
           GetUnchecked
      <4>2. frame'[t] = frame[t]
        BY <3>2, <4>1 DEF Get, Call, ClosureSucceeds, Drop, TakeHandle, Unpark,
           GetUnchecked, Drained, Leave, CellInv, TypeOK
      <4>3. QED
        BY <4>2
    <3>3. ASSUME NEW u \in Threads,
                 \/ ClosureFails(u) \/ Signal(u) \/ SeeSignal(u) \/ MissSignal(u) \/ Park(u)
                 \/ WakeSpuriously(u) \/ Pop(u) \/ Take
          PROVE  frame'[t].outer
      BY <3>3 DEF ClosureFails, Signal, SeeSignal, MissSignal, Park, WakeSpuriously, Pop, Take
    <3>4. QED
      BY <3>1, <3>2, <3>3 DEF Next, Step, ClosureReturns
  <2>3. QED
    BY <2>2 DEF CellInv, RunningIsOwned, Owns
<1>2. QED
  BY <1>1, CellInvariant, PTL DEF Spec, ReentryDeadlocks

-----------------------------------------------------------------------------
(* ImpStd implements OnceCellSpec. *)

(* What the refinement mapping makes of the value. *)
Seen == IF queue.state = COMPLETE THEN value ELSE Null

LEMMA InitRefines == Init => OnceCell!Init
<1> SUFFICES ASSUME Init
             PROVE  OnceCell!Init
  OBVIOUS
<1>1. \A t \in Threads : Phase(t) = "idle"
  BY DEF Init, Phase
<1>2. Seen \in Threads \cup {Null}
  BY DEF Init, Pointers, Seen
<1>3. QED
  BY <1>1, <1>2 DEF OnceCell!Init, Seen

(* A step that changes the phase of at most one thread. *)
LEMMA PhaseOfOne ==
  ASSUME NEW t \in Threads, \A u \in Threads \ {t} : Phase(u)' = Phase(u)
  PROVE  [u \in Threads |-> Phase(u)]' = [[u \in Threads |-> Phase(u)] EXCEPT ![t] = Phase(t)']
OBVIOUS

LEMMA SamePhases ==
  ASSUME \A u \in Threads : Phase(u)' = Phase(u)
  PROVE  [u \in Threads |-> Phase(u)]' = [u \in Threads |-> Phase(u)]
OBVIOUS

(* The phase of a thread is a matter of its own pc and locals. *)
LEMMA PhaseIsLocal ==
  ASSUME NEW t \in Threads, pc'[t] = pc[t], frame'[t] = frame[t]
  PROVE  Phase(t)' = Phase(t)
BY DEF Phase, Owns

LEMMA NextRefines == CellInv /\ CellInv' /\ [Next]_vars => [OnceCell!Next]_OnceCell!vars
<1> SUFFICES ASSUME CellInv, CellInv', [Next]_vars
             PROVE  OnceCell!Next \/ UNCHANGED OnceCell!vars
  OBVIOUS
<1> USE DEF INCOMPLETE, RUNNING, COMPLETE, Notifying, Blocking
<1>1. ASSUME Seen' = Seen, \A u \in Threads : Phase(u)' = Phase(u)
      PROVE  UNCHANGED OnceCell!vars
  BY <1>1, SamePhases DEF OnceCell!vars, Seen
<1>3. ASSUME NEW t \in Threads, Get(t)
      PROVE  OnceCell!Next \/ UNCHANGED OnceCell!vars
  <2>1. \A u \in Threads \ {t} : Phase(u)' = Phase(u)
    BY <1>3, PhaseIsLocal DEF Get, Goto, CellInv, TypeOK
  <2>2. Seen' = Seen
    BY <1>3 DEF Get, Seen
  <2>3. CASE IsInitialized(queue)
    <3>1. Phase(t) = "idle" /\ Phase(t)' = "waiting"
      BY <1>3, <2>3 DEF Get, Goto, Phase, Owns, Frame, FrameWith, CellInv, TypeOK
    <3>2. OnceCell!Call(t)
      BY <2>1, <2>2, <3>1, PhaseOfOne DEF OnceCell!Call, Seen
    <3>3. QED
      BY <3>2 DEF OnceCell!Next
  <2>4. CASE ~IsInitialized(queue)
    <3>1. Phase(t)' = Phase(t)
      BY <1>3, <2>4, PhaseIsLocal DEF Get
    <3>2. QED
      BY <1>1, <2>1, <2>2, <3>1
  <2>5. QED
    BY <2>3, <2>4
<1>4. ASSUME NEW t \in Threads, NEW o \in {"init", "wait"}, Call(t, o)
      PROVE  OnceCell!Next \/ UNCHANGED OnceCell!vars
  <2>1. \A u \in Threads \ {t} : Phase(u)' = Phase(u)
    BY <1>4, PhaseIsLocal DEF Call, Goto, CellInv, TypeOK
  <2>2. Seen' = Seen
    BY <1>4 DEF Call, Seen
  <2>3. CASE pc[t] = "idle"
    <3>1. Phase(t) = "idle" /\ Phase(t)' \in {"trying", "waiting"}
      BY <1>4, <2>3 DEF Call, Goto, Phase, Owns, Frame, FrameWith, CellInv, TypeOK
    <3>2. OnceCell!Call(t)
      BY <2>1, <2>2, <3>1, PhaseOfOne DEF OnceCell!Call, Seen
    <3>3. QED
      BY <3>2 DEF OnceCell!Next
  <2>4. CASE pc[t] = "closure"
    <3>1. Phase(t)' = Phase(t)
      BY <1>4, <2>4 DEF Call, Goto, Phase, Owns, Frame, FrameWith, CellInv, TypeOK
    <3>2. QED
      BY <1>1, <2>1, <2>2, <3>1
  <2>5. QED
    BY <1>4, <2>3, <2>4 DEF Call
<1>5. ASSUME NEW t \in Threads, Load(t) \/ StartFailed(t) \/ Push(t) \/ PushFailed(t)
      PROVE  UNCHANGED OnceCell!vars
  <2>1. \A u \in Threads \ {t} : Phase(u)' = Phase(u)
    BY <1>5, PhaseIsLocal
       DEF Load, StartFailed, Push, PushFailed, Goto, Forget, CellInv, TypeOK
  <2>2. Seen' = Seen
    BY <1>5 DEF Load, StartFailed, Push, PushFailed, Exchanges, Word, Seen
  <2>3. frame[t] \in Frames
    BY DEF CellInv, TypeOK
  <2>4. frame'[t].op = frame[t].op /\ frame'[t].outer = frame[t].outer
    BY <1>5, <2>3 DEF Load, StartFailed, Push, PushFailed, Forget, Frames, CellInv, TypeOK
  <2>5. {pc[t], pc'[t]} \subseteq {"load", "start", "push", "check", "read"}
    BY <1>5 DEF Load, StartFailed, Push, PushFailed, Goto, Dispatch, CellInv, TypeOK
  <2>6. Phase(t)' = Phase(t)
    BY <2>4, <2>5 DEF Phase, Owns
  <2>7. QED
    BY <1>1, <2>1, <2>2, <2>6
<1>6. ASSUME NEW t \in Threads, Start(t)
      PROVE  OnceCell!Next
  <2>1. \A u \in Threads \ {t} : Phase(u)' = Phase(u)
    BY <1>6, PhaseIsLocal DEF Start, Goto, Forget, CellInv, TypeOK
  <2>2. queue.state = INCOMPLETE /\ queue'.state = RUNNING
    BY <1>6 DEF Start, Exchanges, AsRunning, Word, CellInv, FrameOK
  <2>3. \A u \in Threads : ~Owns(u)
    BY <2>2 DEF CellInv, RunningIsOwned
  <2>4. \A u \in Threads : Phase(u) # "running"
    BY <2>3 DEF Phase
  <2>5. Phase(t) = "trying"
    BY <1>6, <2>3 DEF Start, Phase, CellInv, FrameOK
  <2>6. Phase(t)' = "running"
    BY <1>6 DEF Start, Goto, Phase, Owns, CellInv, TypeOK
  <2>7. OnceCell!Start(t)
    BY <2>1, <2>2, <2>4, <2>5, <2>6, PhaseOfOne DEF OnceCell!Start
  <2>8. QED
    BY <2>7 DEF OnceCell!Next
<1>7. ASSUME NEW t \in Threads, ClosureSucceeds(t) \/ ClosureFails(t)
      PROVE  UNCHANGED OnceCell!vars
  <2>1. \A u \in Threads \ {t} : Phase(u)' = Phase(u)
    BY <1>7, PhaseIsLocal DEF ClosureSucceeds, ClosureFails, Goto, CellInv, TypeOK
  <2>2. queue.state = RUNNING /\ queue' = queue
    BY <1>7 DEF ClosureSucceeds, ClosureFails, CellInv, RunningIsOwned, Owns
  <2>3. Phase(t) = "running" /\ Phase(t)' = "running"
    BY <1>7 DEF ClosureSucceeds, ClosureFails, Goto, Phase, Owns, CellInv, TypeOK
  <2>4. QED
    BY <1>1, <2>1, <2>2, <2>3 DEF Seen
<1>8. ASSUME NEW t \in Threads, Drop(t)
      PROVE  OnceCell!Next
  <2>1. \A u \in Threads \ {t} : Phase(u)' = Phase(u)
    BY <1>8, PhaseIsLocal DEF Drop, Drained, Leave, Goto, CellInv, TypeOK
  <2>2. queue.state = RUNNING /\ ~frame[t].outer /\ frame[t].op = "init" /\ frame[t] \in Frames
    BY <1>8 DEF Drop, CellInv, TypeOK, RunningIsOwned, FrameOK, Owns
  <2>3. queue'.state = frame[t].guard /\ value' = value
    BY <1>8 DEF Drop, NewQueue, Word
  <2>4. Phase(t) = "running"
    BY <1>8 DEF Drop, Phase, Owns
  <2>5. CASE frame[t].guard = COMPLETE
    <3>1. Phase(t)' = "trying"
      BY <1>8, <2>2, <2>5 DEF Drop, Drained, Goto, Phase, Owns, Frames, CellInv, TypeOK
    <3>2. value = t
      BY <1>8, <2>5 DEF Drop, CellInv, ValueOK, Stored
    <3>3. OnceCell!Succeed(t)
      BY <2>1, <2>3, <2>4, <2>5, <3>1, <3>2, PhaseOfOne DEF OnceCell!Succeed
    <3>4. QED
      BY <3>3 DEF OnceCell!Next
  <2>6. CASE frame[t].guard # COMPLETE
    <3>1. Phase(t)' \in {"idle", "failed"}
      BY <1>8, <2>2, <2>6 DEF Drop, Drained, Leave, Goto, Phase, Owns, Frames, CellInv, TypeOK
    <3>2. OnceCell!Fail(t)
      BY <2>1, <2>2, <2>3, <2>4, <2>6, <3>1, PhaseOfOne DEF OnceCell!Fail
    <3>3. QED
      BY <3>2 DEF OnceCell!Next
  <2>7. QED
    BY <2>5, <2>6
<1>9. ASSUME NEW t \in Threads, TakeHandle(t) \/ Signal(t)
      PROVE  UNCHANGED OnceCell!vars
  <2>1. \A u \in Threads \ {t} : Phase(u)' = Phase(u)
    BY <1>9, PhaseIsLocal DEF TakeHandle, Signal, Goto, CellInv, TypeOK
  <2>2. Seen' = Seen
    BY <1>9 DEF TakeHandle, Signal, Seen
  <2>3. frame'[t].op = frame[t].op /\ frame'[t].outer = frame[t].outer
        /\ frame'[t].guard = frame[t].guard
    BY <1>9 DEF TakeHandle, Signal, CellInv, TypeOK, Frames
  <2>4. {pc[t], pc'[t]} \subseteq Notifying
    BY <1>9 DEF TakeHandle, Signal, Goto, CellInv, TypeOK
  <2>5. Phase(t)' = Phase(t)
    BY <2>3, <2>4 DEF Phase, Owns
  <2>6. QED
    BY <1>1, <2>1, <2>2, <2>5
<1>10. ASSUME NEW t \in Threads, Unpark(t)
       PROVE  OnceCell!Next \/ UNCHANGED OnceCell!vars
  <2>1. \A u \in Threads \ {t} : Phase(u)' = Phase(u)
    BY <1>10, PhaseIsLocal DEF Unpark, Drained, Leave, Goto, CellInv, TypeOK
  <2>2. Seen' = Seen
    BY <1>10 DEF Unpark, Seen
  <2>3. ~frame[t].outer /\ frame[t].op = "init" /\ frame[t] \in Frames
    BY <1>10 DEF Unpark, CellInv, TypeOK, FrameOK
  <2>4. CASE frame[t].after = Null /\ frame[t].guard # COMPLETE
    <3>1. Phase(t) = "failed" /\ Phase(t)' = "idle"
      BY <1>10, <2>3, <2>4
         DEF Unpark, Drained, Leave, Goto, Phase, Owns, Frames, CellInv, TypeOK
    <3>2. OnceCell!Return(t)
      BY <2>1, <2>2, <3>1, PhaseOfOne DEF OnceCell!Return, Seen
    <3>3. QED
      BY <3>2 DEF OnceCell!Next
  <2>5. CASE ~(frame[t].after = Null /\ frame[t].guard # COMPLETE)
    <3>1. frame'[t].op = "init" /\ ~frame'[t].outer /\ frame'[t].guard = frame[t].guard
      BY <1>10, <2>3, <2>5 DEF Unpark, Drained, Frames, CellInv, TypeOK
    <3>2. pc'[t] \in {"take", "read"} /\ (pc'[t] = "read" => frame[t].guard = COMPLETE)
      BY <1>10, <2>5 DEF Unpark, Drained, Goto, CellInv, TypeOK
    <3>3. Phase(t)' = Phase(t)
      BY <1>10, <2>3, <3>1, <3>2 DEF Unpark, Phase, Owns, Frames
    <3>4. QED
      BY <1>1, <2>1, <2>2, <3>3
  <2>6. QED
    BY <2>4, <2>5
<1>11. ASSUME NEW t \in Threads,
              SeeSignal(t) \/ MissSignal(t) \/ Park(t) \/ WakeSpuriously(t) \/ Pop(t)
       PROVE  UNCHANGED OnceCell!vars
  <2>1. \A u \in Threads \ {t} : Phase(u)' = Phase(u)
    BY <1>11, PhaseIsLocal
       DEF SeeSignal, MissSignal, Park, WakeSpuriously, Pop, Goto, CellInv, TypeOK
  <2>2. Seen' = Seen
    BY <1>11 DEF SeeSignal, MissSignal, Park, WakeSpuriously, Pop, Seen
  <2>3. frame' = frame /\ {pc[t], pc'[t]} \subseteq {"check", "park", "pop", "load"}
    BY <1>11 DEF SeeSignal, MissSignal, Park, WakeSpuriously, Pop, Goto, CellInv, TypeOK
  <2>4. Phase(t)' = Phase(t)
    BY <2>3 DEF Phase, Owns
  <2>5. QED
    BY <1>1, <2>1, <2>2, <2>4
<1>12. ASSUME NEW t \in Threads, GetUnchecked(t)
       PROVE  OnceCell!Next
  <2>1. \A u \in Threads \ {t} : Phase(u)' = Phase(u)
    BY <1>12, PhaseIsLocal DEF GetUnchecked, Leave, Goto, CellInv, TypeOK
  <2>2. queue.state = COMPLETE /\ value # Null
    BY <1>12 DEF GetUnchecked, CellInv, CompleteOK, ValueOK
  <2>3. ~frame[t].outer
    BY <2>2 DEF CellInv, RunningIsOwned, Owns
  <2>4. Phase(t) \in {"trying", "waiting"} /\ Phase(t)' = "idle"
    BY <1>12, <2>3 DEF GetUnchecked, Leave, Goto, Phase, Owns, CellInv, TypeOK
  <2>5. OnceCell!Return(t)
    BY <1>12, <2>1, <2>2, <2>4, PhaseOfOne DEF OnceCell!Return, GetUnchecked
  <2>6. QED
    BY <2>5 DEF OnceCell!Next
<1>13. CASE Take
  <2>1. \A t \in Threads : Phase(t) = "idle" /\ Phase(t)' = "idle"
    BY <1>13 DEF Take, Phase
  <2>2. value' = Null
    BY <1>13 DEF Take
  <2>3. OnceCell!Take
    BY <2>1, <2>2, SamePhases DEF OnceCell!Take
  <2>4. QED
    BY <2>3 DEF OnceCell!Next
<1>14. CASE UNCHANGED vars
  <2>1. Seen' = Seen /\ \A t \in Threads : Phase(t)' = Phase(t)
    BY <1>14, PhaseIsLocal DEF vars, Seen
  <2>2. QED
    BY <1>1, <2>1
<1>15. QED
  BY <1>3, <1>4, <1>5, <1>6, <1>7, <1>8, <1>9, <1>10, <1>11, <1>12, <1>13, <1>14
     DEF Next, Step, ClosureReturns

(* src/imp_std.rs keeps the promises of OnceCellSpec. *)
THEOREM Refinement == Spec => IsOnceCell
BY InitRefines, NextRefines, CellInvariant, PTL DEF Spec, IsOnceCell, OnceCell!Spec
-----------------------------------------------------------------------------
(* The lists of waiters. *)

QueueLink == <<"queue", Null>>
NextLink(t) == <<"next", t>>
AtLink(t) == <<"at", t>>
AfterLink(t) == <<"after", t>>

(* ListsAreDisjoint, link by link. *)
ListsOK ==
  /\ \A l \in Links : Target(l) # Null => Target(l) \in Threads /\ Listed(Target(l))
  /\ \A w \in Threads : Listed(w) => \E l \in Links : Target(l) = w
  /\ \A k, l \in Links : Target(k) # Null /\ Target(k) = Target(l) => k = l

(* No waiters are linked in a circle. *)
NoCircle ==
  \A S \in SUBSET {w \in Threads : Listed(w)} :
    S # {} => \E w \in S : \A m \in S : Target(NextLink(m)) # w

(* A Waiter exists as long as its thread is in wait, and leaves signaled.  *)
InWait(t) == pc[t] \in {"check", "park", "pop"}

NodeOK ==
  \A t \in Threads :
    /\ node[t].live <=> InWait(t)
    /\ pc[t] = "pop" => node[t].signaled

(* The handle is in a Waiter until the thread that notifies it takes it.   *)
HandleOK ==
  \A l \in Links :
    Target(l) # Null =>
      (node[Target(l)].thread <=> ~ (l[1] = "at" /\ pc[l[2]] = "signal"))

ListInv ==
  /\ CellInv
  /\ NodeOK
  /\ ListsOK
  /\ HandleOK
  /\ NoCircle

LEMMA ListsOfLinks == ListsOK => ListsAreDisjoint
<1> SUFFICES ASSUME ListsOK
             PROVE  ListsAreDisjoint
  OBVIOUS
<1> DEFINE Used == {l \in Links : Target(l) # Null}
<1>1. {Target(l) : l \in Used} = {w \in Threads : Listed(w)}
  BY ThreadsAssumption DEF ListsOK
<1>2. \A k, l \in Used : Target(k) = Target(l) => k = l
  BY DEF ListsOK
<1>3. QED
  BY <1>1, <1>2 DEF ListsAreDisjoint

(* What is a link, and where it points. *)
LEMMA LinkNames ==
  /\ QueueLink \in Links
  /\ \A t \in Threads : NextLink(t) \in Links /\ AtLink(t) \in Links /\ AfterLink(t) \in Links
  /\ \A l \in Links :
       \/ l = QueueLink
       \/ \E t \in Threads : l \in {NextLink(t), AtLink(t), AfterLink(t)}
BY DEF Links, QueueLink, NextLink, AtLink, AfterLink

LEMMA LinkTargets ==
  /\ Target(QueueLink) = queue.head
  /\ \A t \in Threads :
       /\ Target(NextLink(t)) = IF Listed(t) /\ node[t].thread THEN node[t].next ELSE Null
       /\ Target(AtLink(t)) = IF pc[t] \in {"take", "signal"} THEN frame[t].at ELSE Null
       /\ Target(AfterLink(t)) = IF pc[t] \in {"signal", "unpark"} THEN frame[t].after ELSE Null
BY DEF Target, QueueLink, NextLink, AtLink, AfterLink

LEMMA LinkTargetsNext ==
  /\ Target(QueueLink)' = queue'.head
  /\ \A t \in Threads :
       /\ Target(NextLink(t))' = IF Listed(t)' /\ node'[t].thread THEN node'[t].next ELSE Null
       /\ Target(AtLink(t))' = IF pc'[t] \in {"take", "signal"} THEN frame'[t].at ELSE Null
       /\ Target(AfterLink(t))' = IF pc'[t] \in {"signal", "unpark"} THEN frame'[t].after ELSE Null
BY DEF Target, QueueLink, NextLink, AtLink, AfterLink

LEMMA LinksDiffer ==
  ASSUME NEW t \in Threads, NEW u \in Threads
  PROVE  /\ QueueLink \notin {NextLink(t), AtLink(t), AfterLink(t)}
         /\ NextLink(t) \notin {AtLink(u), AfterLink(u)} /\ AtLink(t) # AfterLink(u)
         /\ NextLink(t) = NextLink(u) => t = u
         /\ AtLink(t) = AtLink(u) => t = u
         /\ AfterLink(t) = AfterLink(u) => t = u
BY DEF QueueLink, NextLink, AtLink, AfterLink
-----------------------------------------------------------------------------
(* What the steps do to the links. *)

(* A pointer is copied to a place that held none, and forgotten where it was. *)
LEMMA LinkMoves ==
  ASSUME ListsOK, NEW k \in Links, NEW l \in Links, k # l,
         Target(l) = Null, Target(l)' = Target(k), Target(k)' = Null,
         \A m \in Links \ {k, l} : Target(m)' = Target(m),
         \A w \in Threads : Listed(w)' <=> Listed(w)
  PROVE  ListsOK'
<1>1. \A m \in Links : Target(m)' # Null => Target(m)' \in Threads /\ Listed(Target(m))'
  BY DEF ListsOK
<1>2. \A w \in Threads : Listed(w)' => \E m \in Links : Target(m)' = w
  BY ThreadsAssumption DEF ListsOK
<1>3. \A m, n \in Links : Target(m)' # Null /\ Target(m)' = Target(n)' => m = n
  BY DEF ListsOK
<1>4. QED
  BY <1>1, <1>2, <1>3 DEF ListsOK

(* The pointer to a waiter is forgotten as the waiter is signaled. *)
LEMMA LinkGoes ==
  ASSUME ListsOK, NEW k \in Links, Target(k) # Null, Target(k)' = Null,
         \A m \in Links \ {k} : Target(m)' = Target(m),
         \A w \in Threads : Listed(w)' <=> Listed(w) /\ w # Target(k)
  PROVE  ListsOK'
<1>1. \A m \in Links : Target(m)' # Null => Target(m)' \in Threads /\ Listed(Target(m))'
  BY DEF ListsOK
<1>2. \A w \in Threads : Listed(w)' => \E m \in Links : Target(m)' = w
  BY DEF ListsOK
<1>3. \A m, n \in Links : Target(m)' # Null /\ Target(m)' = Target(n)' => m = n
  BY DEF ListsOK
<1>4. QED
  BY <1>1, <1>2, <1>3 DEF ListsOK

(* A new waiter is put in front of the list at k. *)
LEMMA LinkGrows ==
  ASSUME ListsOK, NEW t \in Threads, ~Listed(t), NEW k \in Links, NEW l \in Links, k # l,
         Target(l) = Null, Target(l)' = Target(k), Target(k)' = t,
         \A m \in Links \ {k, l} : Target(m)' = Target(m),
         \A w \in Threads : Listed(w)' <=> Listed(w) \/ w = t
  PROVE  ListsOK'
<1>1. \A m \in Links : Target(m)' # Null => Target(m)' \in Threads /\ Listed(Target(m))'
  BY DEF ListsOK
<1>2. \A w \in Threads : Listed(w)' => \E m \in Links : Target(m)' = w
  BY ThreadsAssumption DEF ListsOK
<1>3. \A m, n \in Links : Target(m)' # Null /\ Target(m)' = Target(n)' => m = n
  BY DEF ListsOK
<1>4. QED
  BY <1>1, <1>2, <1>3 DEF ListsOK

LEMMA LinksStay ==
  ASSUME ListsOK,
         \A m \in Links : Target(m)' = Target(m),
         \A w \in Threads : Listed(w)' <=> Listed(w)
  PROVE  ListsOK'
BY DEF ListsOK

(* No circle is closed as links go. *)
LEMMA CirclesStayAway ==
  ASSUME NoCircle,
         \A w \in Threads : Listed(w)' => Listed(w),
         \A w \in Threads : Target(NextLink(w))' \in {Target(NextLink(w)), Null}
  PROVE  NoCircle'
<1> SUFFICES ASSUME NEW S \in SUBSET {w \in Threads : Listed(w)'}, S # {}
             PROVE  \E w \in S : \A m \in S : Target(NextLink(m))' # w
  BY DEF NoCircle, NextLink
<1>1. S \in SUBSET {w \in Threads : Listed(w)}
  OBVIOUS
<1>2. PICK w \in S : \A m \in S : Target(NextLink(m)) # w
  BY <1>1 DEF NoCircle, NextLink
<1>3. QED
  BY <1>2, ThreadsAssumption

(* t does something that leaves the waiters in lists alone. *)
Aside(t) ==
  /\ queue'.head = queue.head
  /\ \A u \in Threads \ {t} : pc'[u] = pc[u] /\ frame'[u] = frame[u] /\ node'[u] = node[u]
  /\ pc[t] \notin Notifying /\ pc'[t] \notin Notifying
  /\ Listed(t)' <=> Listed(t)
  /\ Listed(t) => node'[t] = node[t]

LEMMA AsideLinks ==
  ASSUME NEW t \in Threads, Aside(t)
  PROVE  /\ \A l \in Links : Target(l)' = Target(l)
         /\ \A w \in Threads : Listed(w)' <=> Listed(w)
<1>1. \A w \in Threads : Listed(w)' <=> Listed(w)
  BY DEF Aside, Listed
<1>2. Target(QueueLink)' = Target(QueueLink)
  BY LinkTargets, LinkTargetsNext DEF Aside
<1>3. ASSUME NEW u \in Threads
      PROVE  /\ Target(NextLink(u))' = Target(NextLink(u))
             /\ Target(AtLink(u))' = Target(AtLink(u))
             /\ Target(AfterLink(u))' = Target(AfterLink(u))
  BY <1>1, LinkTargets, LinkTargetsNext DEF Aside, Notifying
<1>4. \A l \in Links : Target(l)' = Target(l)
  BY <1>2, <1>3, LinkNames
<1>5. QED
  BY <1>1, <1>4

LEMMA AsideLists ==
  ASSUME ListInv, NEW t \in Threads, Aside(t)
  PROVE  ListsOK' /\ HandleOK' /\ NoCircle'
<1>1. ListsOK'
  BY AsideLinks, LinksStay DEF ListInv
<1>2. NoCircle'
  BY AsideLinks, CirclesStayAway, LinkNames DEF ListInv
<1>3. HandleOK'
  <2> SUFFICES ASSUME NEW l \in Links, Target(l)' # Null
               PROVE  (node[Target(l)].thread)' <=> ~ (l[1] = "at" /\ pc'[l[2]] = "signal")
    BY DEF HandleOK
  <2> DEFINE w == Target(l)
  <2>1. w' = w /\ w \in Threads /\ Listed(w)
    BY AsideLinks DEF ListInv, ListsOK
  <2>2. node'[w] = node[w]
    BY <2>1 DEF Aside
  <2>3. l[1] = "at" => (pc'[l[2]] = "signal" <=> pc[l[2]] = "signal")
    <3>1. l[1] = "at" => l[2] \in Threads
      BY DEF Links
    <3>2. QED
      BY <3>1 DEF Aside, Notifying
  <2>4. node[w].thread <=> ~ (l[1] = "at" /\ pc[l[2]] = "signal")
    BY <2>1 DEF ListInv, HandleOK
  <2>5. QED
    BY <2>1, <2>2, <2>3, <2>4
<1>4. QED
  BY <1>1, <1>2, <1>3
-----------------------------------------------------------------------------
(* The induction on the steps. *)

LEMMA InitLists == Init => ListInv
<1> SUFFICES ASSUME Init
             PROVE  ListInv
  OBVIOUS
<1>1. \A t \in Threads : pc[t] = "idle" /\ ~node[t].live
  BY DEF Init, NoWaiter
<1>2. \A t \in Threads : ~Listed(t) /\ ~InWait(t)
  BY <1>1 DEF Listed, InWait
<1>3. queue.head = Null
  BY DEF Init, INCOMPLETE_PTR, COMPLETE_PTR, Word
<1>4. \A l \in Links : Target(l) = Null
  BY <1>1, <1>2, <1>3, LinkNames, LinkTargets
<1>5. ListsOK /\ HandleOK /\ NoCircle
  BY <1>2, <1>4, ThreadsAssumption DEF ListsOK, HandleOK, NoCircle
<1>6. NodeOK
  BY <1>1, <1>2 DEF NodeOK
<1>7. QED
  BY <1>5, <1>6, InitCell DEF ListInv

LEMMA NextNode == ListInv /\ [Next]_vars => NodeOK'
<1> SUFFICES ASSUME ListInv, [Next]_vars
             PROVE  NodeOK'
  OBVIOUS
<1> USE DEF ListInv, CellInv, TypeOK, CursorOK, NodeOK, InWait
<1>1. ASSUME NEW t \in Threads,
             \/ Get(t) \/ \E o \in {"init", "wait"} : Call(t, o)
             \/ Load(t) \/ Start(t) \/ StartFailed(t) \/ ClosureReturns(t)
             \/ Drop(t) \/ Unpark(t) \/ PushFailed(t) \/ GetUnchecked(t)
      PROVE  NodeOK'
  <2>1. node' = node /\ pc[t] \notin {"check", "park", "pop"} /\ pc'[t] \notin {"check", "park", "pop"}
    BY <1>1 DEF Get, Call, Load, Start, StartFailed, ClosureReturns, ClosureSucceeds, ClosureFails,
       Drop, Unpark, PushFailed, GetUnchecked, Drained, Leave, Goto, Dispatch
  <2>2. \A u \in Threads \ {t} : pc'[u] = pc[u]
    BY <1>1 DEF Get, Call, Load, Start, StartFailed, ClosureReturns, ClosureSucceeds, ClosureFails,
       Drop, Unpark, PushFailed, GetUnchecked, Drained, Leave, Goto
  <2>3. QED
    BY <2>1, <2>2
<1>2. ASSUME NEW t \in Threads, TakeHandle(t) \/ Signal(t)
      PROVE  NodeOK'
  BY <1>2 DEF TakeHandle, Signal, Goto, Nodes
<1>3. ASSUME NEW t \in Threads, Push(t) \/ Pop(t)
      PROVE  NodeOK'
  BY <1>3 DEF Push, Pop, Goto, Waiter, NoWaiter
<1>4. ASSUME NEW t \in Threads, SeeSignal(t) \/ MissSignal(t) \/ Park(t) \/ WakeSpuriously(t)
      PROVE  NodeOK'
  BY <1>4 DEF SeeSignal, MissSignal, Park, WakeSpuriously, Goto
<1>5. CASE Take \/ UNCHANGED vars
  BY <1>5 DEF Take, vars
<1>6. QED
  BY <1>1, <1>2, <1>3, <1>4, <1>5 DEF Next, Step, ClosureReturns

LEMMA NextLists == ListInv /\ [Next]_vars => ListInv'
<1> SUFFICES ASSUME ListInv, [Next]_vars
             PROVE  ListsOK' /\ HandleOK' /\ NoCircle'
  BY NextCell, NextNode DEF ListInv
<1> USE DEF CellInv, TypeOK, CursorOK
<1>1. ASSUME NEW t \in Threads,
             \/ Get(t) \/ \E o \in {"init", "wait"} : Call(t, o)
             \/ Load(t) \/ Start(t) \/ StartFailed(t) \/ ClosureReturns(t)
             \/ PushFailed(t) \/ GetUnchecked(t)
             \/ Drop(t) /\ queue.head = Null
             \/ SeeSignal(t) \/ MissSignal(t) \/ Park(t) \/ WakeSpuriously(t) \/ Pop(t)
      PROVE  ListsOK' /\ HandleOK' /\ NoCircle'
  <2> USE DEF ListInv
  <2>1. queue'.head = queue.head
    BY <1>1 DEF Get, Call, Load, Start, StartFailed, ClosureReturns, ClosureSucceeds, ClosureFails,
       PushFailed, GetUnchecked, Drop, SeeSignal, MissSignal, Park, WakeSpuriously, Pop,
       AsRunning, Exchanges, NewQueue, Word
  <2>2. \A u \in Threads \ {t} : pc'[u] = pc[u] /\ frame'[u] = frame[u] /\ node'[u] = node[u]
    BY <1>1 DEF Get, Call, Load, Start, StartFailed, ClosureReturns, ClosureSucceeds, ClosureFails,
       PushFailed, GetUnchecked, Drop, SeeSignal, MissSignal, Park, WakeSpuriously, Pop,
       Drained, Leave, Goto, Forget
  <2>3. pc[t] \notin Notifying /\ pc'[t] \notin Notifying
    BY <1>1 DEF Get, Call, Load, Start, StartFailed, ClosureReturns, ClosureSucceeds, ClosureFails,
       PushFailed, GetUnchecked, Drop, SeeSignal, MissSignal, Park, WakeSpuriously, Pop,
       Drained, Leave, Goto, Dispatch, Notifying
  <2>4. (Listed(t)' <=> Listed(t)) /\ (Listed(t) => node'[t] = node[t])
    BY <1>1 DEF Get, Call, Load, Start, StartFailed, ClosureReturns, ClosureSucceeds, ClosureFails,
       PushFailed, GetUnchecked, Drop, SeeSignal, MissSignal, Park, WakeSpuriously, Pop,
       Drained, Leave, Goto, Dispatch, Listed
  <2>5. Aside(t)
    BY <2>1, <2>2, <2>3, <2>4 DEF Aside
  <2>6. QED
    BY <2>5, AsideLists
<1>2. ASSUME NEW t \in Threads, Drop(t), queue.head # Null
      PROVE  ListsOK' /\ HandleOK' /\ NoCircle'
  <2> USE DEF ListInv
  <2>1. /\ pc[t] = "drop" /\ pc'[t] = "take" /\ frame'[t].at = queue.head
        /\ queue'.head = Null /\ node' = node
    BY <1>2 DEF Drop, Goto, NewQueue, Word, Frames
  <2>2. \A u \in Threads \ {t} : pc'[u] = pc[u] /\ frame'[u] = frame[u]
    BY <1>2 DEF Drop, Goto
  <2>3. \A w \in Threads : Listed(w)' <=> Listed(w)
    BY <2>1, <2>2 DEF Listed
  <2>4. /\ Target(AtLink(t)) = Null /\ Target(AtLink(t))' = Target(QueueLink)
        /\ Target(QueueLink)' = Null
    BY <2>1, LinkTargets, LinkTargetsNext
  <2>5. \A u \in Threads : Target(NextLink(u))' = Target(NextLink(u))
    BY <2>1, <2>3, LinkTargets, LinkTargetsNext
  <2>6. \A u \in Threads : Target(AfterLink(u))' = Target(AfterLink(u))
    BY <2>1, <2>2, LinkTargets, LinkTargetsNext
  <2>7. \A u \in Threads \ {t} : Target(AtLink(u))' = Target(AtLink(u))
    BY <2>2, LinkTargets, LinkTargetsNext
  <2>8. \A m \in Links \ {QueueLink, AtLink(t)} : Target(m)' = Target(m)
    BY <2>5, <2>6, <2>7, LinkNames
  <2>9. ListsOK'
    BY <2>3, <2>4, <2>8, LinkMoves, LinkNames, LinksDiffer
  <2>10. NoCircle'
    BY <2>3, <2>5, CirclesStayAway
  <2>11. HandleOK'
    <3> SUFFICES ASSUME NEW l \in Links, Target(l)' # Null
                 PROVE  (node[Target(l)].thread)' <=> ~ (l[1] = "at" /\ pc'[l[2]] = "signal")
      BY DEF HandleOK
    <3>1. CASE l = AtLink(t)
      BY <2>1, <2>4, <3>1, LinkNames DEF HandleOK, QueueLink, AtLink
    <3>2. CASE l # AtLink(t)
      <4>1. Target(l)' = Target(l) /\ (l[1] = "at" => l[2] \in Threads \ {t})
        BY <2>4, <2>8, <3>2 DEF Links, AtLink
      <4>2. QED
        BY <2>1, <2>2, <4>1 DEF HandleOK
    <3>3. QED
      BY <3>1, <3>2
  <2>12. QED
    BY <2>9, <2>10, <2>11
<1>3. ASSUME NEW t \in Threads, TakeHandle(t)
      PROVE  ListsOK' /\ HandleOK' /\ NoCircle'
  <2> USE DEF ListInv
  <2>0. PICK w \in Threads : w = frame[t].at
    BY <1>3 DEF TakeHandle
  <2>1. frame[t].at = w /\ pc[t] = "take" /\ pc'[t] = "signal" /\ queue' = queue
    BY <1>3, <2>0 DEF TakeHandle, Goto
  <2>2. frame'[t].at = w /\ frame'[t].after = node[w].next
    BY <1>3, <2>1 DEF TakeHandle, NextWaiter, Frames
  <2>3. \A u \in Threads \ {t} : pc'[u] = pc[u] /\ frame'[u] = frame[u]
    BY <1>3 DEF TakeHandle, Goto
  <2>4. /\ \A u \in Threads \ {w} : node'[u] = node[u]
        /\ node'[w] = [node[w] EXCEPT !.thread = FALSE]
    BY <1>3, <2>1 DEF TakeHandle
  <2>5. \A u \in Threads : Listed(u)' <=> Listed(u)
    BY <2>1, <2>3, <2>4 DEF Listed, Nodes
  <2>6. Target(AtLink(t)) = w /\ Target(AtLink(t))' = w /\ w # Null
    BY <2>1, <2>2, LinkTargets, LinkTargetsNext, ThreadsAssumption
  <2>7. Listed(w) /\ node[w].thread
    BY <2>1, <2>6, LinkNames DEF ListsOK, HandleOK, AtLink
  <2>8. ~node'[w].thread
    BY <2>1, <2>4 DEF Nodes
  <2>9. /\ Target(AfterLink(t)) = Null /\ Target(AfterLink(t))' = Target(NextLink(w))
        /\ Target(NextLink(w))' = Null
    BY <2>1, <2>2, <2>7, <2>8, LinkTargets, LinkTargetsNext
  <2>10. \A u \in Threads \ {w} : Target(NextLink(u))' = Target(NextLink(u))
    BY <2>4, <2>5, LinkTargets, LinkTargetsNext
  <2>11. \A u \in Threads \ {t} : /\ Target(AtLink(u))' = Target(AtLink(u))
                                  /\ Target(AfterLink(u))' = Target(AfterLink(u))
    BY <2>3, LinkTargets, LinkTargetsNext
  <2>12. Target(QueueLink)' = Target(QueueLink)
    BY <2>1, LinkTargets, LinkTargetsNext
  <2>13. \A m \in Links \ {NextLink(w), AfterLink(t)} : Target(m)' = Target(m)
    BY <2>6, <2>10, <2>11, <2>12, LinkNames
  <2>a. NextLink(w) \in Links /\ AfterLink(t) \in Links /\ NextLink(w) # AfterLink(t)
    BY <2>1, LinkNames, LinksDiffer
  <2>14. ListsOK'
    BY <2>a, <2>5, <2>9, <2>13, LinkMoves
  <2>b. \A u \in Threads : Target(NextLink(u))' \in {Target(NextLink(u)), Null}
    BY <2>9, <2>10
  <2>15. NoCircle'
    BY <2>b, <2>5, CirclesStayAway
  <2>16. HandleOK'
    <3> SUFFICES ASSUME NEW l \in Links, Target(l)' # Null
                 PROVE  (node[Target(l)].thread)' <=> ~ (l[1] = "at" /\ pc'[l[2]] = "signal")
      BY DEF HandleOK
    <3>1. CASE l = AtLink(t)
      BY <2>1, <2>6, <2>8, <3>1 DEF AtLink
    <3>2. CASE l = AfterLink(t)
      <4>1. Target(l)' # w /\ Target(l)' \in Threads
        BY <2>6, <2>14, <3>2, LinkNames, LinksDiffer DEF ListsOK
      <4>2. Target(l)' = Target(NextLink(w))
        BY <2>9, <3>2
      <4>3. node[Target(l)'].thread
        BY <2>1, <4>2, LinkNames DEF HandleOK, NextLink
      <4>4. QED
        BY <2>4, <3>2, <4>1, <4>3 DEF AfterLink
    <3>3. CASE l \notin {AtLink(t), AfterLink(t)}
      <4>1. Target(l)' = Target(l)
        BY <2>9, <2>13, <3>3
      <4>2. Target(l)' # w /\ Target(l)' \in Threads
        BY <2>6, <2>14, <3>3, LinkNames DEF ListsOK
      <4>3. l[1] = "at" => l[2] \in Threads \ {t}
        BY <3>3 DEF Links, AtLink
      <4>4. QED
        BY <2>3, <2>4, <4>1, <4>2, <4>3 DEF HandleOK
    <3>4. QED
      BY <3>1, <3>2, <3>3
  <2>17. QED
    BY <2>14, <2>15, <2>16
<1>4. ASSUME NEW t \in Threads, Signal(t)
      PROVE  ListsOK' /\ HandleOK' /\ NoCircle'
  <2> USE DEF ListInv
  <2> DEFINE w == frame[t].at
  <2>1. w \in Threads /\ pc[t] = "signal" /\ pc'[t] = "unpark" /\ queue' = queue /\ frame' = frame
    BY <1>4 DEF Signal, Goto
  <2>2. \A u \in Threads \ {t} : pc'[u] = pc[u]
    BY <1>4 DEF Signal, Goto
  <2>3. /\ \A u \in Threads \ {w} : node'[u] = node[u]
        /\ node'[w] = [node[w] EXCEPT !.signaled = TRUE]
    BY <1>4, <2>1 DEF Signal
  <2>4. Target(AtLink(t)) = w /\ Target(AtLink(t))' = Null /\ w # Null
    BY <2>1, LinkTargets, LinkTargetsNext, ThreadsAssumption
  <2>5. \A u \in Threads : Listed(u)' <=> Listed(u) /\ u # w
    BY <2>1, <2>2, <2>3 DEF Listed, Nodes
  <2>6. Listed(w) /\ ~node[w].thread /\ ~node'[w].thread
    BY <2>1, <2>3, <2>4, LinkNames DEF ListsOK, HandleOK, AtLink, Nodes
  <2>7. \A u \in Threads : Target(NextLink(u))' = Target(NextLink(u))
    BY <2>3, <2>5, <2>6, LinkTargets, LinkTargetsNext
  <2>8. \A u \in Threads : Target(AfterLink(u))' = Target(AfterLink(u))
    BY <2>1, <2>2, LinkTargets, LinkTargetsNext
  <2>9. \A u \in Threads \ {t} : Target(AtLink(u))' = Target(AtLink(u))
    BY <2>1, <2>2, LinkTargets, LinkTargetsNext
  <2>10. Target(QueueLink)' = Target(QueueLink)
    BY <2>1, LinkTargets, LinkTargetsNext
  <2>11. \A m \in Links \ {AtLink(t)} : Target(m)' = Target(m)
    BY <2>7, <2>8, <2>9, <2>10, LinkNames
  <2>12. ListsOK'
    BY <2>4, <2>5, <2>11, LinkGoes, LinkNames
  <2>13. NoCircle'
    BY <2>5, <2>7, CirclesStayAway
  <2>14. HandleOK'
    <3> SUFFICES ASSUME NEW l \in Links, Target(l)' # Null
                 PROVE  (node[Target(l)].thread)' <=> ~ (l[1] = "at" /\ pc'[l[2]] = "signal")
      BY DEF HandleOK
    <3>1. l # AtLink(t) /\ Target(l)' = Target(l)
      BY <2>4, <2>11
    <3>2. Target(l)' # w /\ Target(l)' \in Threads
      BY <2>4, <3>1, LinkNames DEF ListsOK
    <3>3. l[1] = "at" => l[2] \in Threads \ {t}
      BY <3>1 DEF Links, AtLink
    <3>4. QED
      BY <2>2, <2>3, <3>1, <3>2, <3>3 DEF HandleOK
  <2>15. QED
    BY <2>12, <2>13, <2>14
<1>5. ASSUME NEW t \in Threads, Unpark(t)
      PROVE  ListsOK' /\ HandleOK' /\ NoCircle'
  <2> USE DEF ListInv
  <2>1. pc[t] = "unpark" /\ queue' = queue /\ node' = node
    BY <1>5 DEF Unpark
  <2>2. \A u \in Threads \ {t} : pc'[u] = pc[u] /\ frame'[u] = frame[u]
    BY <1>5 DEF Unpark, Drained, Leave, Goto
  <2>3. pc'[t] \notin {"check", "park", "signal", "unpark"}
    BY <1>5 DEF Unpark, Drained, Leave, Goto
  <2>4. \A w \in Threads : Listed(w)' <=> Listed(w)
    BY <2>1, <2>2, <2>3 DEF Listed
  <2>5. \A u \in Threads : Target(NextLink(u))' = Target(NextLink(u))
    BY <2>1, <2>4, LinkTargets, LinkTargetsNext
  <2>6. \A u \in Threads \ {t} : /\ Target(AtLink(u))' = Target(AtLink(u))
                                 /\ Target(AfterLink(u))' = Target(AfterLink(u))
    BY <2>2, LinkTargets, LinkTargetsNext
  <2>7. Target(QueueLink)' = Target(QueueLink)
    BY <2>1, LinkTargets, LinkTargetsNext
  <2>8. /\ Target(AtLink(t)) = Null /\ Target(AtLink(t))' = Target(AfterLink(t))
        /\ Target(AfterLink(t))' = Null
    <3>1. CASE frame[t].after = Null
      <4>1. pc'[t] # "take"
        BY <1>5, <3>1 DEF Unpark, Drained, Leave, Goto
      <4>2. QED
        BY <2>1, <2>3, <3>1, <4>1, LinkTargets, LinkTargetsNext
    <3>2. CASE frame[t].after # Null
      <4>1. pc'[t] = "take" /\ frame'[t].at = frame[t].after
        BY <1>5, <3>2 DEF Unpark, Goto, Frames
      <4>2. QED
        BY <2>1, <4>1, LinkTargets, LinkTargetsNext
    <3>3. QED
      BY <3>1, <3>2
  <2>9. \A m \in Links \ {AfterLink(t), AtLink(t)} : Target(m)' = Target(m)
    BY <2>5, <2>6, <2>7, LinkNames
  <2>10. ListsOK'
    BY <2>4, <2>8, <2>9, LinkMoves, LinkNames, LinksDiffer
  <2>11. NoCircle'
    BY <2>4, <2>5, CirclesStayAway
  <2>12. HandleOK'
    <3> SUFFICES ASSUME NEW l \in Links, Target(l)' # Null
                 PROVE  (node[Target(l)].thread)' <=> ~ (l[1] = "at" /\ pc'[l[2]] = "signal")
      BY DEF HandleOK
    <3>1. CASE l = AtLink(t)
      BY <2>1, <2>3, <2>8, <3>1, LinkNames DEF HandleOK, AfterLink, AtLink
    <3>2. CASE l # AtLink(t)
      <4>1. Target(l)' = Target(l) /\ (l[1] = "at" => l[2] \in Threads \ {t})
        BY <2>8, <2>9, <3>2 DEF Links, AtLink
      <4>2. QED
        BY <2>1, <2>2, <4>1 DEF HandleOK
    <3>3. QED
      BY <3>1, <3>2
  <2>13. QED
    BY <2>10, <2>11, <2>12
<1>6. ASSUME NEW t \in Threads, Push(t)
      PROVE  ListsOK' /\ HandleOK' /\ NoCircle'
  <2> USE DEF ListInv
  <2>1. pc[t] = "push" /\ pc'[t] = "check" /\ queue'.head = t /\ t # Null
    BY <1>6, ThreadsAssumption DEF Push, Goto, Word
  <2>2. node'[t] = Waiter(queue.head) /\ \A u \in Threads \ {t} : node'[u] = node[u]
    BY <1>6 DEF Push, Exchanges
  <2>3. \A u \in Threads \ {t} : pc'[u] = pc[u] /\ frame'[u] = frame[u]
    BY <1>6 DEF Push, Goto, Forget
  <2>4. ~Listed(t) /\ Listed(t)'
    BY <2>1, <2>2 DEF Listed, Waiter
  <2>5. \A u \in Threads : Listed(u)' <=> Listed(u) \/ u = t
    BY <2>2, <2>3, <2>4 DEF Listed
  <2>6. /\ Target(NextLink(t)) = Null /\ Target(NextLink(t))' = Target(QueueLink)
        /\ Target(QueueLink)' = t
    BY <2>1, <2>2, <2>4, LinkTargets, LinkTargetsNext DEF Waiter
  <2>7. \A u \in Threads \ {t} : Target(NextLink(u))' = Target(NextLink(u))
    BY <2>2, <2>3, LinkTargets, LinkTargetsNext DEF Listed
  <2>8. \A u \in Threads : /\ Target(AtLink(u))' = Target(AtLink(u))
                           /\ Target(AfterLink(u))' = Target(AfterLink(u))
    BY <2>1, <2>3, LinkTargets, LinkTargetsNext
  <2>9. \A m \in Links \ {QueueLink, NextLink(t)} : Target(m)' = Target(m)
    BY <2>7, <2>8, LinkNames
  <2>10. ListsOK'
    BY <2>4, <2>5, <2>6, <2>9, LinkGrows, LinkNames, LinksDiffer
  <2>11. NoCircle'
    <3> SUFFICES ASSUME NEW S \in SUBSET {w \in Threads : Listed(w)'}, S # {}
                 PROVE  \E w \in S : \A m \in S : Target(NextLink(m))' # w
      BY DEF NoCircle, NextLink
    <3>1. CASE t \in S
      <4>1. \A m \in Threads : Target(NextLink(m))' # t
        BY <2>1, <2>6, <2>10, LinkNames, LinksDiffer DEF ListsOK
      <4>2. QED
        BY <3>1, <4>1
    <3>2. CASE t \notin S
      <4>1. S \in SUBSET {w \in Threads : Listed(w)}
        BY <2>5, <3>2
      <4>2. PICK w \in S : \A m \in S : Target(NextLink(m)) # w
        BY <4>1 DEF NoCircle, NextLink
      <4>3. QED
        BY <2>7, <3>2, <4>2
    <3>3. QED
      BY <3>1, <3>2
  <2>12. HandleOK'
    <3> SUFFICES ASSUME NEW l \in Links, Target(l)' # Null
                 PROVE  (node[Target(l)].thread)' <=> ~ (l[1] = "at" /\ pc'[l[2]] = "signal")
      BY DEF HandleOK
    <3>0. l[1] = "at" => l[2] \in Threads /\ (pc'[l[2]] = "signal" <=> pc[l[2]] = "signal")
      <4>1. l[1] = "at" => l[2] \in Threads
        BY DEF Links
      <4>2. QED
        BY <2>1, <2>3, <4>1
    <3>1. CASE l = QueueLink
      BY <2>2, <2>6, <3>1 DEF Waiter, QueueLink
    <3>2. CASE l = NextLink(t)
      <4>1. Target(l)' = Target(QueueLink) /\ Target(QueueLink) # Null
        BY <2>6, <3>2
      <4>2. Target(QueueLink) \in Threads \ {t} /\ node[Target(QueueLink)].thread
        BY <2>4, <4>1, LinkNames DEF ListsOK, HandleOK, QueueLink
      <4>3. QED
        BY <2>2, <3>2, <4>1, <4>2 DEF NextLink
    <3>3. CASE l \notin {QueueLink, NextLink(t)}
      <4>1. Target(l)' = Target(l)
        BY <2>9, <3>3
      <4>2. Target(l) \in Threads \ {t}
        BY <2>4, <4>1 DEF ListsOK
      <4>3. QED
        BY <2>2, <3>0, <4>1, <4>2 DEF HandleOK
    <3>4. QED
      BY <3>1, <3>2, <3>3
  <2>13. QED
    BY <2>10, <2>11, <2>12
<1>7. CASE Take
  <2> USE DEF ListInv
  <2>1. \A w \in Threads : ~Listed(w) /\ ~Listed(w)'
    BY <1>7 DEF Take, Listed
  <2>2. queue'.head = Null
    BY <1>7 DEF Take, INCOMPLETE_PTR, Word
  <2>3. \A l \in Links : Target(l)' = Null
    <3>1. \A u \in Threads : /\ Target(NextLink(u))' = Null
                             /\ Target(AtLink(u))' = Null
                             /\ Target(AfterLink(u))' = Null
      BY <1>7, <2>1, LinkTargetsNext DEF Take
    <3>2. QED
      BY <2>2, <3>1, LinkNames, LinkTargetsNext
  <2>4. QED
    BY <2>1, <2>3, ThreadsAssumption DEF ListsOK, HandleOK, NoCircle
<1>8. CASE UNCHANGED vars
  <2> USE DEF ListInv
  <2>1. \A w \in Threads : Listed(w)' <=> Listed(w)
    BY <1>8 DEF vars, Listed
  <2>2. \A l \in Links : Target(l)' = Target(l)
    BY <1>8, <2>1 DEF vars, Target
  <2>3. ListsOK' /\ NoCircle'
    BY <2>1, <2>2, LinksStay, CirclesStayAway, LinkNames
  <2>4. HandleOK'
    BY <1>8, <2>2 DEF vars, HandleOK
  <2>5. QED
    BY <2>3, <2>4
<1> HIDE DEF CellInv, TypeOK, CursorOK
<1>9. QED
  BY <1>1, <1>2, <1>3, <1>4, <1>5, <1>6, <1>7, <1>8 DEF Next, Step

THEOREM ListInvariant == Spec => []ListInv
BY InitLists, NextLists, PTL DEF Spec

(* Pushes, swaps and the loop of Guard::drop keep every waiter that has not *)
(* been signaled in one list and in one place.                              *)
THEOREM ListsStayDisjoint == Spec => []ListsAreDisjoint
<1>1. ListInv => ListsAreDisjoint
  BY ListsOfLinks DEF ListInv
<1>2. QED
  BY <1>1, ListInvariant, PTL

(* Every waiter is reached by the next swap of a cell that is not COMPLETE, *)
(* or by a thread that has swapped its list out: some waiter of a set that  *)
(* is not in a circle has no predecessor in it, but something points to it. *)
THEOREM WaitersAreReached == Spec => []NoWaiterIsLost
<1>1. ListInv => NoWaiterIsLost
  <2> SUFFICES ASSUME ListInv,
                      NEW S \in SUBSET {w \in Threads : Listed(w)}, S # {}
               PROVE  \E l \in Links : /\ Target(l) \in S
                                       /\ l[1] = "next" => l[2] \notin S
                                       /\ l[1] = "queue" => queue.state # COMPLETE
    BY DEF NoWaiterIsLost
  <2>1. PICK w \in S : \A m \in S : Target(NextLink(m)) # w
    BY DEF ListInv, NoCircle
  <2>2. w # Null
    BY <2>1, ThreadsAssumption
  <2>3. PICK l \in Links : Target(l) = w
    BY <2>1 DEF ListInv, ListsOK
  <2>4. l[1] = "next" => l[2] \notin S
    <3> SUFFICES ASSUME l[1] = "next", l[2] \in S
                 PROVE  FALSE
      OBVIOUS
    <3>1. l = NextLink(l[2])
      BY DEF Links, NextLink
    <3>2. QED
      BY <2>1, <2>3, <3>1
  <2>5. ASSUME l[1] = "queue"
        PROVE  queue.state # COMPLETE
    <3>1. Target(l) = queue.head
      BY <2>5 DEF Target
    <3>2. QED
      BY <2>2, <2>3, <3>1 DEF ListInv, CellInv, CompleteHasNoWaiters
  <2>6. QED
    BY <2>1, <2>3, <2>4, <2>5
<1>2. QED
  BY <1>1, ListInvariant, PTL

(* Guard::drop dereferences Waiters whose thread is still in wait, and the  *)
(* handle it unwraps is there.                                              *)
THEOREM WaitersOutliveUse == Spec => []NoUseAfterReturn
<1>1. ListInv => NoUseAfterReturn
  <2> SUFFICES ASSUME ListInv, NEW t \in Threads, pc[t] \in {"take", "signal"}
               PROVE  /\ node[frame[t].at].live
                      /\ pc[t] = "take" => node[frame[t].at].thread
    BY DEF NoUseAfterReturn
  <2>1. frame[t].at \in Threads /\ Target(AtLink(t)) = frame[t].at
    BY LinkTargets DEF ListInv, CellInv, CursorOK
  <2>2. Listed(frame[t].at) /\ (pc[t] = "take" => node[frame[t].at].thread)
    BY <2>1, LinkNames, ThreadsAssumption DEF ListInv, ListsOK, HandleOK, AtLink
  <2>3. QED
    BY <2>1, <2>2 DEF ListInv, NodeOK, InWait, Listed
<1>2. QED
  BY <1>1, ListInvariant, PTL
-----------------------------------------------------------------------------
(* What the steps do to the views. *)

(* The view of t gains the events S, and that is all. *)
Gains(t, S) ==
  /\ view'.thread[t] = view.thread[t] \cup S
  /\ \A u \in Threads \ {t} : view'.thread[u] = view.thread[u]
  /\ view'.queue = view.queue
  /\ \A u \in Threads : view'.signal[u] = view.signal[u] /\ view'.token[u] = view.token[u]

LEMMA GainsByRead ==
  ASSUME view \in Views, NEW t \in Threads, NEW ord, NEW S, view' = Read(view, t, ord, S)
  PROVE  Gains(t, IF Acquires(ord) THEN S ELSE {})
BY DEF Views, Read, Gains

LEMMA GainsNothing ==
  ASSUME view' = view, NEW t \in Threads
  PROVE  Gains(t, {})
BY DEF Gains

LEMMA GainsQueue ==
  ASSUME view \in Views, NEW t \in Threads,
         \/ Get(t) \/ \E o \in {"init", "wait"} : Call(t, o)
         \/ Load(t) \/ Start(t) \/ StartFailed(t)
  PROVE  Gains(t, view.queue)
<1>1. ASSUME NEW ord \in {FastLoad, SlowLoad, StartCas}, view' = Read(view, t, ord, view.queue)
      PROVE  Gains(t, view.queue)
  BY <1>1, GainsByRead DEF FastLoad, SlowLoad, StartCas, Acquires
<1>2. ASSUME view' = ReadWrite(view, t, StartCas)
      PROVE  Gains(t, view.queue)
  BY <1>2 DEF Views, ReadWrite, Read, StartCas, Acquires, Releases, Gains
<1>3. QED
  BY <1>1, <1>2 DEF Get, Call, Load, Start, StartFailed

LEMMA GainsNone ==
  ASSUME view \in Views, NEW t \in Threads,
         PushFailed(t) \/ MissSignal(t) \/ WakeSpuriously(t) \/ GetUnchecked(t)
  PROVE  Gains(t, {})
<1>1. CASE PushFailed(t)
  BY <1>1, GainsByRead DEF PushFailed, PushCasFailed, Acquires
<1>2. CASE MissSignal(t) \/ WakeSpuriously(t) \/ GetUnchecked(t)
  BY <1>2, GainsNothing DEF MissSignal, WakeSpuriously, GetUnchecked
<1>3. QED
  BY <1>1, <1>2

LEMMA GainsSignal ==
  ASSUME view \in Views, NEW t \in Threads, SeeSignal(t)
  PROVE  Gains(t, view.signal[t])
BY GainsByRead DEF SeeSignal, SignalLoad, Acquires

LEMMA GainsTaken ==
  ASSUME view \in Views, NEW t \in Threads, TakeHandle(t)
  PROVE  Gains(t, {Taken(frame[t].at)})
BY DEF Views, TakeHandle, Does, Without, Gains

LEMMA ParkViews ==
  ASSUME view \in Views, NEW t \in Threads, Park(t)
  PROVE  /\ view'.thread[t] = view.thread[t] \cup view.token[t]
         /\ \A u \in Threads \ {t} : view'.thread[u] = view.thread[u]
         /\ view'.queue = view.queue
         /\ \A u \in Threads : view'.signal[u] = view.signal[u]
         /\ view'.token[t] = {} /\ \A u \in Threads \ {t} : view'.token[u] = view.token[u]
BY DEF Views, Park

LEMMA DropViews ==
  ASSUME view \in Views, NEW t \in Threads, Drop(t)
  PROVE  /\ view'.thread[t] = view.thread[t] \cup view.queue
         /\ \A u \in Threads \ {t} : view'.thread[u] = view.thread[u]
         /\ view'.queue = view.queue \cup view'.thread[t]
         /\ \A u \in Threads : view'.signal[u] = view.signal[u] /\ view'.token[u] = view.token[u]
BY DEF Views, Drop, ReadWrite, Read, DropSwap, Acquires, Releases

LEMMA PushViews ==
  ASSUME view \in Views, NEW t \in Threads, Push(t)
  PROVE  /\ view'.thread[t] = view.thread[t] \cup {NodeInit(t)}
         /\ \A u \in Threads \ {t} : view'.thread[u] = view.thread[u]
         /\ view'.queue = view.queue \cup view'.thread[t]
         /\ \A u \in Threads : view'.signal[u] = view.signal[u] /\ view'.token[u] = view.token[u]
<1> DEFINE v == Does(view, t, NodeInit(t), {})
<1>1. /\ v.thread[t] = view.thread[t] \cup {NodeInit(t)}
      /\ \A u \in Threads \ {t} : v.thread[u] = view.thread[u]
      /\ v.queue = view.queue
      /\ \A u \in Threads : v.signal[u] = view.signal[u] /\ v.token[u] = view.token[u]
  BY DEF Views, Does, Without
<1>2. v \in Views
  BY DoesType, EventsOfThreads
<1>3. view' = ReadWrite(v, t, PushCas)
  BY DEF Push
<1> HIDE DEF v
<1>4. /\ view'.thread[t] = v.thread[t] /\ view'.queue = v.queue \cup v.thread[t]
      /\ \A u \in Threads \ {t} : view'.thread[u] = v.thread[u]
      /\ \A u \in Threads : view'.signal[u] = v.signal[u] /\ view'.token[u] = v.token[u]
  BY <1>2, <1>3 DEF Views, ReadWrite, Read, PushCas, Acquires, Releases
<1>5. QED
  BY <1>1, <1>4

LEMMA SignalViews ==
  ASSUME view \in Views, NEW t \in Threads, NEW w \in Threads, w = frame[t].at, Signal(t)
  PROVE  /\ view'.thread[t] = view.thread[t] \cup {Signaled(w)}
         /\ \A u \in Threads \ {t} : view'.thread[u] = view.thread[u]
         /\ view'.queue = view.queue
         /\ view'.signal[w] = view'.thread[t]
         /\ \A u \in Threads \ {w} : view'.signal[u] = view.signal[u]
         /\ \A u \in Threads : view'.token[u] = view.token[u]
<1> DEFINE v == Does(view, t, Signaled(w), {})
<1>1. /\ v.thread[t] = view.thread[t] \cup {Signaled(w)}
      /\ \A u \in Threads \ {t} : v.thread[u] = view.thread[u]
      /\ v.queue = view.queue
      /\ \A u \in Threads : v.signal[u] = view.signal[u] /\ v.token[u] = view.token[u]
  BY DEF Views, Does, Without
<1>2. v \in Views
  BY DoesType, EventsOfThreads
<1>3. view' = [v EXCEPT !.signal[w] = v.thread[t]]
  BY DEF Signal, SignalStore, Releases
<1> HIDE DEF v
<1>4. QED
  BY <1>1, <1>2, <1>3 DEF Views

LEMMA UnparkViews ==
  ASSUME view \in Views, NEW t \in Threads, NEW w \in Threads, w = frame[t].at, Unpark(t)
  PROVE  /\ view'.thread = view.thread /\ view'.queue = view.queue /\ view'.signal = view.signal
         /\ view'.token[w] = view.token[w] \cup view.thread[t]
         /\ \A u \in Threads \ {w} : view'.token[u] = view.token[u]
BY DEF Views, Unpark

LEMMA ClosureViews ==
  ASSUME view \in Views, NEW t \in Threads, ClosureReturns(t)
  PROVE  /\ view'.thread[t] = view.thread[t] \cup {Closure}
         /\ \A u \in Threads \ {t} : view'.thread[u] = view.thread[u] \ {Closure}
         /\ view'.queue = view.queue \ {Closure}
         /\ \A u \in Threads : /\ view'.signal[u] = view.signal[u] \ {Closure}
                               /\ view'.token[u] = view.token[u] \ {Closure}
<1>1. view' = Does(view, t, Closure, {Closure})
  BY DEF ClosureReturns, ClosureSucceeds, ClosureFails
<1>2. view'.thread[t] = (view.thread[t] \ {Closure}) \cup {Closure}
  BY <1>1 DEF Views, Does, Without
<1>3. \A u \in Threads \ {t} : view'.thread[u] = view.thread[u] \ {Closure}
  BY <1>1 DEF Views, Does, Without
<1>4. QED
  BY <1>1, <1>2, <1>3 DEF Views, Does, Without

LEMMA PopViews ==
  ASSUME view \in Views, NEW t \in Threads, Pop(t)
  PROVE  /\ \A u \in Threads : /\ view'.thread[u] = view.thread[u] \ NodeEvents(t)
                               /\ view'.token[u] = view.token[u] \ NodeEvents(t)
         /\ view'.queue = view.queue \ NodeEvents(t)
         /\ view'.signal[t] = {}
         /\ \A u \in Threads \ {t} : view'.signal[u] = view.signal[u] \ NodeEvents(t)
BY DEF Views, Pop, Without

LEMMA TakeViews ==
  ASSUME view \in Views, Take
  PROVE  /\ \A u \in Threads : view'.thread[u] = {Closure}
         /\ view'.queue = {} /\ view'.signal = view.signal /\ view'.token = view.token
BY DEF Views, Take

(* The events are what their names say. *)
LEMMA EventNames ==
  ASSUME NEW t \in Threads, NEW u \in Threads
  PROVE  /\ Closure \notin NodeEvents(t)
         /\ t # u => NodeEvents(t) \cap NodeEvents(u) = {}
         /\ NodeInit(t) \notin {Taken(u), Signaled(u)} /\ Taken(t) # Signaled(u)
         /\ {NodeInit(t), Taken(t), Signaled(t)} = NodeEvents(t)
BY DEF Closure, NodeEvents, NodeInit, Taken, Signaled
-----------------------------------------------------------------------------
(* The order of the accesses. *)

(* The closure that ran last is in the view of whoever acquires the queue. *)
ClosureOK ==
  /\ \/ Closure \in view.queue
     \/ \A t \in Threads : Closure \in view.thread[t]
     \/ \E t \in Threads : pc[t] = "drop"
  /\ \A t \in Threads :
       \/ pc[t] \in {"read", "closure", "drop"}
       \/ pc[t] \in Notifying /\ frame[t].guard = COMPLETE
       => Closure \in view.thread[t]

(* Nobody has seen anything of a Waiter that does not exist. *)
Known(e) ==
  \/ e \in view.queue
  \/ \E t \in Threads : e \in view.thread[t] \/ e \in view.signal[t] \/ e \in view.token[t]

GoneOK ==
  \A w \in Threads : ~InWait(w) => \A e \in NodeEvents(w) : ~Known(e)

(* Whoever has the initialization of a Waiter from the queue has that of   *)
(* the next one too: all but its owner, who tells nobody while it waits.   *)
Carries(v, w) == NodeInit(w) \in v => NodeInit(Target(NextLink(w))) \in v

InitsOK ==
  /\ \A w \in Threads : InWait(w) => NodeInit(w) \in view.queue
  /\ \A w \in Threads : Target(NextLink(w)) # Null =>
       \A t \in Threads : /\ t # w => Carries(view.thread[t], w)
                          /\ Carries(view.signal[t], w)
                          /\ Carries(view.token[t], w)
  /\ \A t \in Threads :
       /\ pc[t] = "take" => NodeInit(frame[t].at) \in view.thread[t]
       /\ pc[t] \in {"signal", "unpark"} /\ frame[t].after # Null =>
            NodeInit(frame[t].after) \in view.thread[t]

(* The store to `signaled` carries the accesses that came before it.       *)
SignalsOK ==
  \A t \in Threads :
    /\ pc[t] = "signal" => Taken(frame[t].at) \in view.thread[t]
    /\ InWait(t) /\ node[t].signaled => {Taken(t), Signaled(t)} \subseteq view.signal[t]
    /\ pc[t] = "pop" => {Taken(t), Signaled(t)} \subseteq view.thread[t]

OrderInv ==
  /\ ListInv
  /\ ClosureOK
  /\ GoneOK
  /\ InitsOK
  /\ SignalsOK

LEMMA InitOrder == Init => OrderInv
<1> SUFFICES ASSUME Init
             PROVE  OrderInv
  OBVIOUS
<1>1. ListInv
  BY InitLists
<1>2. \A t \in Threads : pc[t] = "idle" /\ ~InWait(t) /\ ~Listed(t)
  BY DEF Init, InWait, Listed
<1>3. /\ view.queue = {}
      /\ \A t \in Threads : view.thread[t] = {Closure} /\ view.signal[t] = {} /\ view.token[t] = {}
  BY DEF Init
<1>4. ClosureOK
  BY <1>2, <1>3 DEF ClosureOK
<1>5. GoneOK
  BY <1>3, EventNames DEF GoneOK, Known
<1>6. InitsOK /\ SignalsOK
  BY <1>2, LinkTargets DEF InitsOK, SignalsOK
<1>7. QED
  BY <1>1, <1>4, <1>5, <1>6 DEF OrderInv

LEMMA NextGone == ListInv /\ GoneOK /\ [Next]_vars => GoneOK'
<1> SUFFICES ASSUME ListInv, GoneOK, [Next]_vars
             PROVE  GoneOK'
  OBVIOUS
<1> USE DEF InWait
<1>t. /\ view \in Views /\ pc \in [Threads -> PCs]
      /\ \A t \in Threads : pc[t] \in Notifying => frame[t].at \in Threads
  BY DEF ListInv, CellInv, TypeOK, CursorOK, Notifying
<1>w. ASSUME NEW t \in Threads, pc[t] \in {"take", "signal"}
      PROVE  InWait(frame[t].at) /\ frame[t].at # t
  BY <1>t, <1>w, LinkNames, LinkTargets, ThreadsAssumption DEF ListInv, ListsOK, Listed, Notifying
<1>1. ASSUME \A w \in Threads : ~InWait(w)' =>
               ~InWait(w) /\ \A e \in NodeEvents(w) : Known(e)' => Known(e)
      PROVE  GoneOK'
  BY <1>1 DEF GoneOK
<1>2. ASSUME NEW t \in Threads, NEW S, Gains(t, S), \A e \in S : Known(e),
             \A w \in Threads : InWait(w)' <=> InWait(w)
      PROVE  GoneOK'
  <2>1. \A e : Known(e)' => Known(e)
    BY <1>2 DEF Gains, Known
  <2>2. QED
    BY <1>1, <1>2, <2>1
<1>3. ASSUME NEW t \in Threads,
             \/ Get(t) \/ \E o \in {"init", "wait"} : Call(t, o)
             \/ Load(t) \/ Start(t) \/ StartFailed(t)
      PROVE  GoneOK'
  <2>1. \A w \in Threads : InWait(w)' <=> InWait(w)
    BY <1>3, <1>t DEF Get, Call, Load, Start, StartFailed, Goto, Dispatch
  <2>2. \A e \in view.queue : Known(e)
    BY DEF Known
  <2>3. QED
    BY <1>2, <1>3, <1>t, <2>1, <2>2, GainsQueue
<1>4. ASSUME NEW t \in Threads,
             PushFailed(t) \/ MissSignal(t) \/ WakeSpuriously(t) \/ GetUnchecked(t)
      PROVE  GoneOK'
  <2>1. \A w \in Threads : InWait(w)' <=> InWait(w)
    BY <1>4, <1>t DEF PushFailed, MissSignal, WakeSpuriously, GetUnchecked, Leave, Goto
  <2>2. QED
    BY <1>2, <1>4, <1>t, <2>1, GainsNone
<1>5. ASSUME NEW t \in Threads, SeeSignal(t)
      PROVE  GoneOK'
  <2>1. \A w \in Threads : InWait(w)' <=> InWait(w)
    BY <1>5, <1>t DEF SeeSignal, Goto
  <2>2. \A e \in view.signal[t] : Known(e)
    BY DEF Known
  <2>3. QED
    BY <1>2, <1>5, <1>t, <2>1, <2>2, GainsSignal
<1>6. ASSUME NEW t \in Threads, TakeHandle(t)
      PROVE  GoneOK'
  <2>0. PICK x \in Threads : x = frame[t].at /\ InWait(x)
    BY <1>6, <1>t, <1>w DEF TakeHandle, Notifying
  <2>1. \A w \in Threads : InWait(w)' <=> InWait(w)
    BY <1>6, <1>t DEF TakeHandle, Goto
  <2>2. \A e : Known(e)' => Known(e) \/ e = Taken(x)
    BY <1>6, <1>t, <2>0, GainsTaken DEF Gains, Known
  <2>3. \A w \in Threads \ {x} : Taken(x) \notin NodeEvents(w)
    BY EventNames
  <2>4. QED
    BY <1>1, <2>0, <2>1, <2>2, <2>3
<1>7. ASSUME NEW t \in Threads, Signal(t)
      PROVE  GoneOK'
  <2>0. PICK x \in Threads : x = frame[t].at /\ InWait(x)
    BY <1>7, <1>t, <1>w DEF Signal, Notifying
  <2>1. \A w \in Threads : InWait(w)' <=> InWait(w)
    BY <1>7, <1>t DEF Signal, Goto
  <2>2. \A e : Known(e)' => Known(e) \/ e = Signaled(x)
    BY <1>7, <1>t, <2>0, SignalViews DEF Known
  <2>3. \A w \in Threads \ {x} : Signaled(x) \notin NodeEvents(w)
    BY EventNames
  <2>4. QED
    BY <1>1, <2>0, <2>1, <2>2, <2>3
<1>8. ASSUME NEW t \in Threads, Unpark(t)
      PROVE  GoneOK'
  <2>0. PICK x \in Threads : x = frame[t].at
    BY <1>8, <1>t DEF Unpark, Notifying
  <2>1. \A w \in Threads : InWait(w)' <=> InWait(w)
    BY <1>8, <1>t DEF Unpark, Drained, Leave, Goto
  <2>2. \A e : Known(e)' => Known(e)
    BY <1>8, <1>t, <2>0, UnparkViews DEF Known
  <2>3. QED
    BY <1>1, <2>1, <2>2
<1>9. ASSUME NEW t \in Threads, Park(t)
      PROVE  GoneOK'
  <2>1. \A w \in Threads : InWait(w)' <=> InWait(w)
    BY <1>9, <1>t DEF Park, Goto
  <2>2. \A e : Known(e)' => Known(e)
    BY <1>9, <1>t, ParkViews DEF Known
  <2>3. QED
    BY <1>1, <2>1, <2>2
<1>10. ASSUME NEW t \in Threads, Drop(t)
       PROVE  GoneOK'
  <2>1. \A w \in Threads : InWait(w)' <=> InWait(w)
    BY <1>10, <1>t DEF Drop, Drained, Leave, Goto
  <2>2. \A e : Known(e)' => Known(e)
    BY <1>10, <1>t, DropViews DEF Known
  <2>3. QED
    BY <1>1, <2>1, <2>2
<1>11. ASSUME NEW t \in Threads, Push(t)
       PROVE  GoneOK'
  <2>1. InWait(t)' /\ \A w \in Threads \ {t} : InWait(w)' <=> InWait(w)
    BY <1>11, <1>t DEF Push, Goto
  <2>2. \A e : Known(e)' => Known(e) \/ e = NodeInit(t)
    BY <1>11, <1>t, PushViews DEF Known
  <2>3. \A w \in Threads \ {t} : NodeInit(t) \notin NodeEvents(w)
    BY EventNames
  <2>4. QED
    BY <1>1, <2>1, <2>2, <2>3
<1>12. ASSUME NEW t \in Threads, ClosureReturns(t)
       PROVE  GoneOK'
  <2>1. \A w \in Threads : InWait(w)' <=> InWait(w)
    BY <1>12, <1>t DEF ClosureReturns, ClosureSucceeds, ClosureFails, Goto
  <2>2. \A e : Known(e)' => Known(e) \/ e = Closure
    BY <1>12, <1>t, ClosureViews DEF Known
  <2>3. QED
    BY <1>1, <2>1, <2>2, EventNames
<1>13. ASSUME NEW t \in Threads, Pop(t)
       PROVE  GoneOK'
  <2>1. ~InWait(t)' /\ \A w \in Threads \ {t} : InWait(w)' <=> InWait(w)
    BY <1>13, <1>t DEF Pop, Goto
  <2>2. \A e : Known(e)' => Known(e) /\ e \notin NodeEvents(t)
    BY <1>13, <1>t, PopViews DEF Known
  <2>3. QED
    BY <2>1, <2>2 DEF GoneOK
<1>14. CASE Take
  <2>1. \A e : Known(e)' => Known(e) \/ e = Closure
    BY <1>14, <1>t, TakeViews DEF Known
  <2>2. QED
    BY <1>1, <1>14, <2>1, EventNames DEF Take
<1>15. CASE UNCHANGED vars
  BY <1>1, <1>15 DEF vars, Known
<1>16. QED
  BY <1>3, <1>4, <1>5, <1>6, <1>7, <1>8, <1>9, <1>10, <1>11, <1>12, <1>13, <1>14, <1>15
     DEF Next, Step

(* A thread reaches get_unchecked or its closure with an Acquire of the    *)
(* queue, which carries the last closure since the swap of its Guard.      *)
LEMMA NextClosure == CellInv /\ ClosureOK /\ [Next]_vars => ClosureOK'
<1> SUFFICES ASSUME CellInv, ClosureOK, [Next]_vars
             PROVE  ClosureOK'
  OBVIOUS
<1>t. /\ view \in Views /\ pc \in [Threads -> PCs] /\ frame \in [Threads -> Frames]
      /\ \A t \in Threads : pc[t] \in Notifying => frame[t].at \in Threads
  BY DEF CellInv, TypeOK, CursorOK, Notifying
<1> DEFINE Needs(t) == \/ pc[t] \in {"read", "closure", "drop"}
                       \/ pc[t] \in Notifying /\ frame[t].guard = COMPLETE
(* A step of t that adds S to its view, and to no need but its own. *)
<1>1. ASSUME NEW t \in Threads,
             \A u \in Threads : \A e : e \in view.thread[u] => e \in view'.thread[u],
             \A e : e \in view.queue => e \in view'.queue,
             pc[t] # "drop",
             \A u \in Threads \ {t} : pc'[u] = pc[u] /\ frame'[u] = frame[u],
             Needs(t)' => Needs(t) \/ Closure \in view'.thread[t]
      PROVE  ClosureOK'
  BY <1>1 DEF ClosureOK
<1>2. ASSUME NEW t \in Threads,
             \/ Get(t) \/ \E o \in {"init", "wait"} : Call(t, o)
             \/ Load(t) \/ Start(t) \/ StartFailed(t)
      PROVE  ClosureOK'
  <2>1. Gains(t, view.queue)
    BY <1>t, <1>2, GainsQueue
  <2>2. /\ pc[t] # "drop" /\ \A u \in Threads \ {t} : pc'[u] = pc[u] /\ frame'[u] = frame[u]
    BY <1>2, <1>t DEF Get, Call, Load, Start, StartFailed, Goto, Forget
  <2>3. Needs(t)' => Needs(t) \/ (pc'[t] = "read" /\ queue.state = COMPLETE)
                              \/ (pc'[t] = "closure" /\ queue.state = INCOMPLETE)
    BY <1>2, <1>t
       DEF Get, Call, Load, Start, StartFailed, Goto, Dispatch, Forget, Exchanges, Notifying,
           IsInitialized, COMPLETE_PTR, Word, INCOMPLETE, COMPLETE, CellInv, FrameOK
  <2>4. queue.state # RUNNING => Closure \in view'.thread[t]
    <3>1. queue.state # RUNNING => \A u \in Threads : pc[u] # "drop"
      BY DEF CellInv, RunningIsOwned, Owns
    <3>2. QED
      BY <2>1, <3>1 DEF ClosureOK, Gains
  <2>5. Needs(t)' => Needs(t) \/ Closure \in view'.thread[t]
    BY <2>3, <2>4 DEF INCOMPLETE, RUNNING, COMPLETE
  <2>6. QED
    BY <1>1, <2>1, <2>2, <2>5 DEF Gains
<1>3. ASSUME NEW t \in Threads,
             \/ PushFailed(t) \/ MissSignal(t) \/ WakeSpuriously(t) \/ GetUnchecked(t)
             \/ SeeSignal(t) \/ TakeHandle(t)
      PROVE  ClosureOK'
  <2>1. PICK S : Gains(t, S)
    BY <1>t, <1>3, GainsNone, GainsSignal, GainsTaken
  <2>2. pc[t] # "drop" /\ \A u \in Threads \ {t} : pc'[u] = pc[u] /\ frame'[u] = frame[u]
    BY <1>3, <1>t DEF PushFailed, MissSignal, WakeSpuriously, GetUnchecked, SeeSignal, TakeHandle,
       Leave, Goto, Forget
  <2>3. Needs(t)' => Needs(t)
    BY <1>3, <1>t DEF PushFailed, MissSignal, WakeSpuriously, GetUnchecked, SeeSignal, TakeHandle,
       Leave, Goto, Forget, Notifying, Frames
  <2>4. QED
    BY <1>1, <2>1, <2>2, <2>3 DEF Gains
<1>4. ASSUME NEW t \in Threads, Signal(t) \/ Unpark(t) \/ Push(t) \/ Park(t)
      PROVE  ClosureOK'
  <2>1. /\ \A u \in Threads : \A e : e \in view.thread[u] => e \in view'.thread[u]
        /\ \A e : e \in view.queue => e \in view'.queue
    <3>1. CASE Signal(t)
      <4>1. PICK w \in Threads : w = frame[t].at
        BY <1>t, <3>1 DEF Signal, Notifying
      <4>2. QED
        BY <1>t, <3>1, <4>1, SignalViews
    <3>2. CASE Unpark(t)
      <4>1. PICK w \in Threads : w = frame[t].at
        BY <1>t, <3>2 DEF Unpark, Notifying
      <4>2. QED
        BY <1>t, <3>2, <4>1, UnparkViews
    <3>3. CASE Push(t) \/ Park(t)
      BY <1>t, <3>3, PushViews, ParkViews
    <3>4. QED
      BY <1>4, <3>1, <3>2, <3>3
  <2>2. pc[t] # "drop" /\ \A u \in Threads \ {t} : pc'[u] = pc[u] /\ frame'[u] = frame[u]
    BY <1>4, <1>t DEF Signal, Unpark, Push, Park, Drained, Leave, Goto, Forget
  <2>3. Needs(t)' => Needs(t)
    <3>1. CASE Unpark(t)
      <4>1. pc[t] = "unpark" /\ ~frame[t].outer
        BY <3>1 DEF Unpark, CellInv, FrameOK, Blocking
      <4>2. CASE frame[t].after = Null /\ frame[t].guard # COMPLETE
        BY <1>t, <3>1, <4>1, <4>2 DEF Unpark, Drained, Leave, Goto, Notifying
      <4>3. CASE frame[t].after # Null /\ frame[t].guard # COMPLETE
        BY <1>t, <3>1, <4>1, <4>3 DEF Unpark, Goto, Notifying, Frames
      <4>4. CASE frame[t].guard = COMPLETE
        BY <4>1, <4>4 DEF Notifying
      <4>5. QED
        BY <4>2, <4>3, <4>4
    <3>2. CASE Signal(t) \/ Push(t) \/ Park(t)
      BY <1>t, <3>2 DEF Signal, Push, Park, Goto, Forget, Notifying
    <3>3. QED
      BY <1>4, <3>1, <3>2
  <2>4. QED
    BY <1>1, <2>1, <2>2, <2>3
<1>5. ASSUME NEW t \in Threads, ClosureReturns(t)
      PROVE  ClosureOK'
  <2>a. Closure \in view'.thread[t]
    BY <1>5, <1>t, ClosureViews
  <2>1. /\ pc'[t] = "drop"
        /\ \A u \in Threads \ {t} : pc'[u] = pc[u] /\ frame'[u] = frame[u]
    BY <1>5, <1>t DEF ClosureReturns, ClosureSucceeds, ClosureFails, Goto
  <2>2. Owns(t) /\ queue.state = RUNNING
    BY <1>5 DEF ClosureReturns, ClosureSucceeds, ClosureFails, Owns, CellInv, RunningIsOwned
  <2>3. \A u \in Threads \ {t} : ~Needs(u)
    BY <2>2 DEF CellInv, RunningIsOwned, Owns, CompleteOK, RUNNING, COMPLETE
  <2>4. QED
    BY <2>a, <2>1, <2>3 DEF ClosureOK
<1>6. ASSUME NEW t \in Threads, Drop(t)
      PROVE  ClosureOK'
  <2>1. Closure \in view.thread[t]
    BY <1>6 DEF Drop, ClosureOK
  <2>2. Closure \in view'.queue /\ Closure \in view'.thread[t]
        /\ \A u \in Threads \ {t} : view'.thread[u] = view.thread[u]
    BY <1>6, <1>t, <2>1, DropViews
  <2>3. \A u \in Threads \ {t} : pc'[u] = pc[u] /\ frame'[u] = frame[u]
    BY <1>6, <1>t DEF Drop, Drained, Leave, Goto
  <2>4. QED
    BY <2>2, <2>3 DEF ClosureOK
<1>7. ASSUME NEW t \in Threads, Pop(t)
      PROVE  ClosureOK'
  <2>1. /\ \A u \in Threads : Closure \in view.thread[u] => Closure \in view'.thread[u]
        /\ Closure \in view.queue => Closure \in view'.queue
    BY <1>7, <1>t, PopViews, EventNames
  <2>2. pc[t] = "pop" /\ pc'[t] = "load" /\ frame' = frame
        /\ \A u \in Threads \ {t} : pc'[u] = pc[u]
    BY <1>7, <1>t DEF Pop, Goto
  <2>3. QED
    BY <2>1, <2>2 DEF ClosureOK, Notifying
<1>8. CASE Take
  BY <1>8, <1>t, TakeViews DEF ClosureOK
<1>9. CASE UNCHANGED vars
  BY <1>9 DEF vars, ClosureOK
<1>10. QED
  BY <1>2, <1>3, <1>4, <1>5, <1>6, <1>7, <1>8, <1>9 DEF Next, Step

(* A Waiter points at the next one from its push until its handle is taken. *)
LEMMA NextLinks ==
  ASSUME ListInv, [Next]_vars, NEW w \in Threads, ~Push(w), Target(NextLink(w))' # Null
  PROVE  Target(NextLink(w))' = Target(NextLink(w))
<1> USE DEF ListInv, CellInv, TypeOK, CursorOK
<1>1. Listed(w)' /\ node'[w].thread /\ Target(NextLink(w))' = node'[w].next
  BY LinkTargetsNext
<1>2. ASSUME Listed(w), node[w].thread, node'[w].next = node[w].next
      PROVE  Target(NextLink(w))' = Target(NextLink(w))
  BY <1>1, <1>2, LinkTargets
<1>3. ASSUME NEW t \in Threads,
             \/ Get(t) \/ \E o \in {"init", "wait"} : Call(t, o)
             \/ Load(t) \/ Start(t) \/ StartFailed(t) \/ ClosureReturns(t)
             \/ Drop(t) \/ Unpark(t) \/ PushFailed(t) \/ GetUnchecked(t)
      PROVE  Listed(w) /\ node'[w] = node[w]
  <2>1. node' = node /\ pc'[t] \notin {"check", "park"} /\ \A u \in Threads \ {t} : pc'[u] = pc[u]
    BY <1>3 DEF Get, Call, Load, Start, StartFailed, ClosureReturns, ClosureSucceeds, ClosureFails,
       Drop, Unpark, PushFailed, GetUnchecked, Drained, Leave, Goto, Dispatch
  <2>2. QED
    BY <1>1, <2>1 DEF Listed
<1>4. ASSUME NEW t \in Threads, TakeHandle(t) \/ Signal(t)
      PROVE  Listed(w) /\ node[w].thread /\ node'[w].next = node[w].next
  BY <1>1, <1>4 DEF TakeHandle, Signal, Goto, Listed, Nodes
<1>5. ASSUME NEW t \in Threads, t # w, Push(t)
      PROVE  Listed(w) /\ node'[w] = node[w]
  BY <1>1, <1>5 DEF Push, Goto, Listed
<1>6. ASSUME NEW t \in Threads, Pop(t)
      PROVE  Listed(w) /\ node'[w] = node[w]
  BY <1>1, <1>6 DEF Pop, Goto, Listed
<1>7. ASSUME NEW t \in Threads, SeeSignal(t) \/ MissSignal(t) \/ Park(t) \/ WakeSpuriously(t)
      PROVE  Listed(w) /\ node'[w] = node[w]
  BY <1>1, <1>7 DEF SeeSignal, MissSignal, Park, WakeSpuriously, Goto, Listed
<1>8. CASE Take \/ UNCHANGED vars
  BY <1>1, <1>2, <1>8 DEF Take, vars, Listed
<1> HIDE DEF ListInv, CellInv, TypeOK, CursorOK
<1>9. QED
  BY <1>1, <1>2, <1>3, <1>4, <1>5, <1>6, <1>7, <1>8 DEF Next, Step

(* Views grow, but for what they say of the last closure, of a Waiter that *)
(* goes, and of a cell that is accessed exclusively.                       *)
LEMMA ViewsGrow ==
  ASSUME ListInv, [Next]_vars, ~Take, NEW e, e # Closure,
         \A t \in Threads : Pop(t) => e \notin NodeEvents(t)
  PROVE  /\ e \in view.queue => e \in view'.queue
         /\ \A t \in Threads : e \in view.thread[t] => e \in view'.thread[t]
<1>t. /\ view \in Views
      /\ \A t \in Threads : pc[t] \in Notifying => frame[t].at \in Threads
  BY DEF ListInv, CellInv, TypeOK, CursorOK, Notifying
<1> DEFINE Grown == /\ e \in view.queue => e \in view'.queue
                    /\ \A t \in Threads : e \in view.thread[t] => e \in view'.thread[t]
<1>1. ASSUME NEW t \in Threads, NEW S, Gains(t, S)
      PROVE  Grown
  BY <1>1 DEF Gains
<1>2. ASSUME NEW t \in Threads,
             \/ Get(t) \/ \E o \in {"init", "wait"} : Call(t, o)
             \/ Load(t) \/ Start(t) \/ StartFailed(t)
      PROVE  Grown
  BY <1>t, <1>1, <1>2, GainsQueue
<1>3. ASSUME NEW t \in Threads,
             PushFailed(t) \/ MissSignal(t) \/ WakeSpuriously(t) \/ GetUnchecked(t)
      PROVE  Grown
  BY <1>t, <1>1, <1>3, GainsNone
<1>4. ASSUME NEW t \in Threads, SeeSignal(t) \/ TakeHandle(t)
      PROVE  Grown
  BY <1>t, <1>1, <1>4, GainsSignal, GainsTaken
<1>5. ASSUME NEW t \in Threads, Signal(t)
      PROVE  Grown
  <2>1. PICK w \in Threads : w = frame[t].at
    BY <1>t, <1>5 DEF Signal, Notifying
  <2>2. QED
    BY <1>t, <1>5, <2>1, SignalViews
<1>6. ASSUME NEW t \in Threads, Unpark(t)
      PROVE  Grown
  <2>1. PICK w \in Threads : w = frame[t].at
    BY <1>t, <1>6 DEF Unpark, Notifying
  <2>2. QED
    BY <1>t, <1>6, <2>1, UnparkViews
<1>7. ASSUME NEW t \in Threads, Park(t) \/ Drop(t) \/ Push(t)
      PROVE  Grown
  BY <1>t, <1>7, ParkViews, DropViews, PushViews
<1>8. ASSUME NEW t \in Threads, ClosureReturns(t)
      PROVE  Grown
  BY <1>t, <1>8, ClosureViews
<1>9. ASSUME NEW t \in Threads, Pop(t)
      PROVE  Grown
  BY <1>t, <1>9, PopViews
<1>10. CASE UNCHANGED vars
  BY <1>10 DEF vars
<1>11. QED
  BY <1>2, <1>3, <1>4, <1>5, <1>6, <1>7, <1>8, <1>9, <1>10 DEF Next, Step

(* A thread comes into wait by its Push, and out of it by its Pop. *)
LEMMA NextInWait ==
  ASSUME ListInv, [Next]_vars, NEW w \in Threads, InWait(w)'
  PROVE  ~Take /\ ~Pop(w) /\ (InWait(w) \/ Push(w))
<1> USE DEF ListInv, CellInv, TypeOK, InWait
<1>1. ~Take /\ ~Pop(w)
  BY DEF Take, Pop, Goto
<1>2. ASSUME NEW t \in Threads,
             \/ Get(t) \/ \E o \in {"init", "wait"} : Call(t, o)
             \/ Load(t) \/ Start(t) \/ StartFailed(t) \/ ClosureReturns(t)
             \/ Drop(t) \/ TakeHandle(t) \/ Signal(t) \/ Unpark(t) \/ PushFailed(t)
             \/ GetUnchecked(t) \/ Pop(t)
      PROVE  InWait(w)
  BY <1>2 DEF Get, Call, Load, Start, StartFailed, ClosureReturns, ClosureSucceeds, ClosureFails,
     Drop, TakeHandle, Signal, Unpark, PushFailed, GetUnchecked, Pop, Drained, Leave, Goto, Dispatch
<1>3. ASSUME NEW t \in Threads, Push(t)
      PROVE  InWait(w) \/ Push(w)
  BY <1>3 DEF Push, Goto
<1>4. ASSUME NEW t \in Threads, SeeSignal(t) \/ MissSignal(t) \/ Park(t) \/ WakeSpuriously(t)
      PROVE  InWait(w)
  BY <1>4 DEF SeeSignal, MissSignal, Park, WakeSpuriously, Goto
<1>5. ASSUME UNCHANGED vars
      PROVE  InWait(w)
  BY <1>5 DEF vars
<1> HIDE DEF ListInv, CellInv, TypeOK, InWait
<1>6. QED
  BY <1>1, <1>2, <1>3, <1>4, <1>5 DEF Next, Step

(* The `next` of a Waiter leads to one whose initialization is known to    *)
(* whoever read that `next`.                                               *)
LEMMA NextCarries ==
  ASSUME ListInv, GoneOK, InitsOK, [Next]_vars,
         NEW w \in Threads, Target(NextLink(w))' # Null, NEW u \in Threads
  PROVE  /\ u # w => Carries(view.thread[u], w)'
         /\ Carries(view.signal[u], w)'
         /\ Carries(view.token[u], w)'
<1>t. /\ view \in Views /\ pc \in [Threads -> PCs]
      /\ \A t \in Threads : pc[t] \in Notifying => frame[t].at \in Threads
  BY DEF ListInv, CellInv, TypeOK, CursorOK, Notifying
<1>1. CASE Push(w)
  <2>1. ~InWait(w)
    BY <1>1 DEF Push, InWait
  <2>2. \A t \in Threads : /\ NodeInit(w) \notin view.thread[t]
                           /\ NodeInit(w) \notin view.signal[t]
                           /\ NodeInit(w) \notin view.token[t]
    BY <2>1 DEF GoneOK, Known, NodeEvents
  <2>3. /\ \A t \in Threads \ {w} : view'.thread[t] = view.thread[t]
        /\ \A t \in Threads : view'.signal[t] = view.signal[t] /\ view'.token[t] = view.token[t]
    BY <1>t, <1>1, PushViews
  <2>4. QED
    BY <2>2, <2>3 DEF Carries
<1>2. CASE ~Push(w)
  <2>0. PICK x : x = Target(NextLink(w)) /\ Target(NextLink(w))' = x
    BY <1>2, NextLinks
  <2>1. x \in Threads /\ Listed(x) /\ Listed(w)
    BY <2>0, LinkNames, LinkTargets DEF ListInv, ListsOK
  <2>2. NodeInit(x) \in view.queue
    BY <2>1 DEF InitsOK, Listed, InWait
  <2> DEFINE e == NodeInit(w)
             f == NodeInit(x)
             Leads(v) == e \in v => f \in v
  <2>3. \A t \in Threads : /\ t # w => Leads(view.thread[t])
                           /\ Leads(view.signal[t])
                           /\ Leads(view.token[t])
    BY <2>0 DEF InitsOK, Carries
  <2>4. SUFFICES /\ u # w => Leads(view'.thread[u])
                 /\ Leads(view'.signal[u])
                 /\ Leads(view'.token[u])
    BY <2>0 DEF Carries
  <2>5. ASSUME NEW t \in Threads, NEW S, Gains(t, S), t # w => Leads(S)
        PROVE  /\ u # w => Leads(view'.thread[u])
               /\ Leads(view'.signal[u])
               /\ Leads(view'.token[u])
    BY <2>3, <2>5 DEF Gains
  <2>6. ASSUME NEW t \in Threads,
               \/ Get(t) \/ \E o \in {"init", "wait"} : Call(t, o)
               \/ Load(t) \/ Start(t) \/ StartFailed(t)
        PROVE  /\ u # w => Leads(view'.thread[u])
               /\ Leads(view'.signal[u])
               /\ Leads(view'.token[u])
    BY <1>t, <2>2, <2>5, <2>6, GainsQueue
  <2>7. ASSUME NEW t \in Threads,
               PushFailed(t) \/ MissSignal(t) \/ WakeSpuriously(t) \/ GetUnchecked(t)
        PROVE  /\ u # w => Leads(view'.thread[u])
               /\ Leads(view'.signal[u])
               /\ Leads(view'.token[u])
    BY <1>t, <2>5, <2>7, GainsNone
  <2>8. ASSUME NEW t \in Threads, SeeSignal(t)
        PROVE  /\ u # w => Leads(view'.thread[u])
               /\ Leads(view'.signal[u])
               /\ Leads(view'.token[u])
    BY <1>t, <2>3, <2>5, <2>8, GainsSignal
  <2>9. ASSUME NEW t \in Threads, TakeHandle(t)
        PROVE  /\ u # w => Leads(view'.thread[u])
               /\ Leads(view'.signal[u])
               /\ Leads(view'.token[u])
    <3>1. PICK y \in Threads : y = frame[t].at
      BY <1>t, <2>9 DEF TakeHandle, Notifying
    <3>2. e # Taken(y)
      BY <3>1, EventNames
    <3>3. QED
      BY <1>t, <2>5, <2>9, <3>1, <3>2, GainsTaken
  <2>10. ASSUME NEW t \in Threads, Signal(t)
         PROVE  /\ u # w => Leads(view'.thread[u])
                /\ Leads(view'.signal[u])
                /\ Leads(view'.token[u])
    <3>1. PICK y \in Threads : y = frame[t].at
      BY <1>t, <2>10 DEF Signal, Notifying
    <3>2. e # Signaled(y) /\ t # w
      BY <2>1, <2>10, <3>1, EventNames DEF Signal, Listed
    <3>3. QED
      BY <1>t, <2>3, <2>10, <3>1, <3>2, SignalViews
  <2>11. ASSUME NEW t \in Threads, Unpark(t)
         PROVE  /\ u # w => Leads(view'.thread[u])
                /\ Leads(view'.signal[u])
                /\ Leads(view'.token[u])
    <3>1. PICK y \in Threads : y = frame[t].at
      BY <1>t, <2>11 DEF Unpark, Notifying
    <3>2. t # w
      BY <2>1, <2>11 DEF Unpark, Listed
    <3>3. QED
      BY <1>t, <2>3, <2>11, <3>1, <3>2, UnparkViews
  <2>12. ASSUME NEW t \in Threads, Park(t)
         PROVE  /\ u # w => Leads(view'.thread[u])
                /\ Leads(view'.signal[u])
                /\ Leads(view'.token[u])
    BY <1>t, <2>3, <2>12, ParkViews
  <2>13. ASSUME NEW t \in Threads, Drop(t)
         PROVE  /\ u # w => Leads(view'.thread[u])
                /\ Leads(view'.signal[u])
                /\ Leads(view'.token[u])
    BY <1>t, <2>2, <2>3, <2>13, DropViews
  <2>14. ASSUME NEW t \in Threads, t # w, Push(t)
         PROVE  /\ u # w => Leads(view'.thread[u])
                /\ Leads(view'.signal[u])
                /\ Leads(view'.token[u])
    <3>1. e # NodeInit(t)
      BY <2>14 DEF NodeInit
    <3>2. QED
      BY <1>t, <2>3, <2>14, <3>1, PushViews
  <2>15. ASSUME NEW t \in Threads, ClosureReturns(t)
         PROVE  /\ u # w => Leads(view'.thread[u])
                /\ Leads(view'.signal[u])
                /\ Leads(view'.token[u])
    <3>1. e # Closure /\ f # Closure
      BY <2>1, EventNames
    <3>2. QED
      BY <1>t, <2>3, <2>15, <3>1, ClosureViews
  <2>16. ASSUME NEW t \in Threads, Pop(t)
         PROVE  /\ u # w => Leads(view'.thread[u])
                /\ Leads(view'.signal[u])
                /\ Leads(view'.token[u])
    <3>1. t # x
      BY <2>1, <2>16 DEF Pop, Listed
    <3>2. f \notin NodeEvents(t)
      BY <2>1, <3>1, EventNames
    <3>3. QED
      BY <1>t, <2>3, <2>16, <3>2, PopViews
  <2>17. ~Take
    BY <2>1 DEF Take, Listed
  <2>18. ASSUME UNCHANGED vars
         PROVE  /\ u # w => Leads(view'.thread[u])
                /\ Leads(view'.signal[u])
                /\ Leads(view'.token[u])
    BY <2>3, <2>18 DEF vars
  <2> HIDE DEF Leads
  <2>19. QED
    BY <1>2, <2>6, <2>7, <2>8, <2>9, <2>10, <2>11, <2>12, <2>13, <2>14, <2>15, <2>16, <2>17, <2>18
       DEF Next, Step
<1>3. QED
  BY <1>1, <1>2

(* The locals of the loop of Guard::drop change in its own steps only. *)
LEMMA CursorsStay ==
  ASSUME CellInv, [Next]_vars, NEW t \in Threads, pc'[t] \in Notifying,
         ~Drop(t), ~TakeHandle(t), ~Signal(t), ~Unpark(t)
  PROVE  pc'[t] = pc[t] /\ frame'[t] = frame[t]
<1>t. pc \in [Threads -> PCs] /\ frame \in [Threads -> Frames]
  BY DEF CellInv, TypeOK
<1>1. ASSUME NEW u \in Threads,
             \/ Get(u) \/ \E o \in {"init", "wait"} : Call(u, o)
             \/ Load(u) \/ Start(u) \/ StartFailed(u) \/ ClosureReturns(u)
             \/ Push(u) \/ PushFailed(u) \/ SeeSignal(u) \/ MissSignal(u) \/ Park(u)
             \/ WakeSpuriously(u) \/ Pop(u) \/ GetUnchecked(u)
      PROVE  pc'[t] = pc[t] /\ frame'[t] = frame[t]
  <2>1. pc'[u] \in Notifying => pc'[u] = pc[u] /\ pc[u] \notin Notifying
    BY <1>t, <1>1 DEF ClosureReturns, Get, Call, Load, Start, StartFailed, ClosureSucceeds,
       ClosureFails, Push, PushFailed, SeeSignal, MissSignal, Park, WakeSpuriously, Pop,
       GetUnchecked, Leave, Goto, Dispatch, Notifying
  <2>2. \A x \in Threads \ {u} : pc'[x] = pc[x] /\ frame'[x] = frame[x]
    BY <1>t, <1>1 DEF ClosureReturns, Get, Call, Load, Start, StartFailed, ClosureSucceeds,
       ClosureFails, Push, PushFailed, SeeSignal, MissSignal, Park, WakeSpuriously, Pop,
       GetUnchecked, Leave, Goto, Forget
  <2>3. QED
    BY <2>1, <2>2
<1>2. ASSUME NEW u \in Threads \ {t}, Drop(u) \/ TakeHandle(u) \/ Signal(u) \/ Unpark(u)
      PROVE  pc'[t] = pc[t] /\ frame'[t] = frame[t]
  BY <1>t, <1>2 DEF Drop, TakeHandle, Signal, Unpark, Drained, Leave, Goto
<1>3. CASE Take \/ UNCHANGED vars
  BY <1>3 DEF Take, vars
<1>4. QED
  BY <1>1, <1>2, <1>3 DEF Next, Step

LEMMA NextInits == ListInv /\ GoneOK /\ InitsOK /\ [Next]_vars => InitsOK'
<1> SUFFICES ASSUME ListInv, GoneOK, InitsOK, [Next]_vars
             PROVE  InitsOK'
  OBVIOUS
<1>t. /\ view \in Views /\ pc \in [Threads -> PCs] /\ frame \in [Threads -> Frames]
      /\ \A t \in Threads : pc[t] \in Notifying => frame[t].at \in Threads
  BY DEF ListInv, CellInv, TypeOK, CursorOK, Notifying
<1>1. ASSUME NEW w \in Threads, InWait(w)'
      PROVE  NodeInit(w) \in view'.queue
  <2>1. CASE Push(w)
    BY <1>t, <2>1, PushViews
  <2>2. CASE ~Push(w)
    <3>1. InWait(w) /\ ~Take /\ ~Pop(w)
      BY <1>1, <2>2, NextInWait
    <3>2. NodeInit(w) \in view.queue /\ NodeInit(w) # Closure
      BY <3>1, EventNames DEF InitsOK
    <3>3. \A t \in Threads : Pop(t) => NodeInit(w) \notin NodeEvents(t)
      BY <3>1, EventNames
    <3>4. QED
      BY <3>1, <3>2, <3>3, ViewsGrow
  <2>3. QED
    BY <2>1, <2>2
(* What a thread in the loop of Guard::drop is about to read stays known to it. *)
<1>2. ASSUME NEW t \in Threads, NEW w \in Threads, Listed(w), pc[t] # "idle",
             NodeInit(w) \in view.thread[t]
      PROVE  NodeInit(w) \in view'.thread[t]
  <2>1. ~Take /\ ~Pop(w) /\ NodeInit(w) # Closure
    BY <1>2, EventNames DEF Take, Pop, Listed
  <2>2. \A u \in Threads : Pop(u) => NodeInit(w) \notin NodeEvents(u)
    BY <2>1, EventNames
  <2>3. QED
    BY <1>2, <2>1, <2>2, ViewsGrow
<1>3. ASSUME NEW t \in Threads, pc[t] \in {"take", "signal"}
      PROVE  Listed(frame[t].at) /\ frame[t].at \in Threads
  BY <1>3, <1>t, LinkNames, LinkTargets, ThreadsAssumption DEF ListInv, ListsOK, Notifying
<1>4. ASSUME NEW t \in Threads, pc[t] \in {"signal", "unpark"}, frame[t].after # Null
      PROVE  Listed(frame[t].after) /\ frame[t].after \in Threads
  BY <1>4, LinkNames, LinkTargets DEF ListInv, ListsOK
<1>5. ASSUME NEW t \in Threads, pc'[t] = "take"
      PROVE  NodeInit(frame'[t].at) \in view'.thread[t]
  <2>1. CASE Drop(t)
    <3>1. frame'[t].at = queue.head /\ queue.head # Null
      BY <1>5, <1>t, <2>1 DEF Drop, Drained, Leave, Goto, Frames
    <3>2. InWait(queue.head) /\ queue.head \in Threads
      BY <3>1, LinkNames, LinkTargets DEF ListInv, ListsOK, Listed, InWait
    <3>3. QED
      BY <1>t, <2>1, <3>1, <3>2, DropViews DEF InitsOK
  <2>2. CASE Unpark(t)
    <3>1. frame'[t].at = frame[t].after /\ frame[t].after # Null /\ pc[t] = "unpark"
      BY <1>5, <1>t, <2>2 DEF Unpark, Drained, Leave, Goto, Frames
    <3>2. QED
      BY <1>2, <1>4, <3>1 DEF InitsOK
  <2>3. CASE ~Drop(t) /\ ~Unpark(t)
    <3>1. pc[t] = "take" /\ frame'[t].at = frame[t].at
      <4>1. ~TakeHandle(t) /\ ~Signal(t)
        BY <1>5, <1>t DEF TakeHandle, Signal, Goto
      <4>2. QED
        BY <1>5, <2>3, <4>1, CursorsStay DEF ListInv, Notifying
    <3>2. QED
      BY <1>2, <1>3, <3>1 DEF InitsOK
  <2>4. QED
    BY <2>1, <2>2, <2>3
<1>6. ASSUME NEW t \in Threads, pc'[t] \in {"signal", "unpark"}, frame'[t].after # Null
      PROVE  NodeInit(frame'[t].after) \in view'.thread[t]
  <2>1. CASE TakeHandle(t)
    <3>0. PICK w \in Threads : w = frame[t].at /\ pc[t] = "take" /\ Listed(w)
      BY <1>3, <2>1 DEF TakeHandle
    <3>1. frame'[t].after = node[w].next
      BY <1>t, <2>1, <3>0 DEF TakeHandle, NextWaiter, Frames
    <3>2. node[w].thread /\ t # w
      BY <3>0, LinkNames, LinkTargets, ThreadsAssumption
         DEF ListInv, HandleOK, AtLink, Listed
    <3>3. Target(NextLink(w)) = frame'[t].after
      BY <3>0, <3>1, <3>2, LinkTargets
    <3>4. NodeInit(frame'[t].after) \in view.thread[t]
      BY <1>6, <3>0, <3>2, <3>3 DEF InitsOK, Carries
    <3>5. Listed(frame'[t].after) /\ frame'[t].after \in Threads
      BY <1>6, <3>3, LinkNames DEF ListInv, ListsOK
    <3>6. QED
      BY <1>2, <3>0, <3>4, <3>5
  <2>2. CASE ~TakeHandle(t)
    <3>1. pc[t] \in {"signal", "unpark"} /\ frame'[t].after = frame[t].after
      <4>1. ~Drop(t) /\ ~Unpark(t)
        BY <1>6, <1>t DEF Drop, Unpark, Drained, Leave, Goto
      <4>2. CASE Signal(t)
        BY <4>2 DEF Signal
      <4>3. CASE ~Signal(t)
        BY <1>6, <2>2, <4>1, <4>3, CursorsStay DEF ListInv, Notifying
      <4>4. QED
        BY <4>2, <4>3
    <3>2. QED
      BY <1>2, <1>4, <1>6, <3>1 DEF InitsOK
  <2>3. QED
    BY <2>1, <2>2
<1>7. QED
  BY <1>1, <1>5, <1>6, NextCarries DEF InitsOK

(* What a thread knows of the Waiter it notifies reaches the owner of the  *)
(* Waiter through the store to `signaled`.                                 *)
LEMMA NextSignals == ListInv /\ SignalsOK /\ [Next]_vars => SignalsOK'
<1> SUFFICES ASSUME ListInv, SignalsOK, [Next]_vars
             PROVE  SignalsOK'
  OBVIOUS
<1>t. /\ view \in Views /\ pc \in [Threads -> PCs] /\ frame \in [Threads -> Frames]
      /\ node \in [Threads -> Nodes]
      /\ \A t \in Threads : pc[t] \in Notifying => frame[t].at \in Threads
  BY DEF ListInv, CellInv, TypeOK, CursorOK, Notifying
<1>1. ASSUME NEW t \in Threads, NEW w \in Threads, NEW e \in {Taken(w), Signaled(w)},
             InWait(w)', ~Push(w), e \in view.thread[t]
      PROVE  e \in view'.thread[t]
  <2>1. ~Take /\ ~Pop(w) /\ e # Closure
    BY <1>1, NextInWait, EventNames
  <2>2. \A u \in Threads : Pop(u) => e \notin NodeEvents(u)
    BY <1>1, <2>1, EventNames
  <2>3. QED
    BY <1>1, <2>1, <2>2, ViewsGrow
<1>2. ASSUME NEW t \in Threads, pc'[t] = "signal"
      PROVE  Taken(frame'[t].at) \in view'.thread[t]
  <2>1. CASE TakeHandle(t)
    <3>1. frame'[t].at = frame[t].at
      BY <1>t, <2>1 DEF TakeHandle, Frames
    <3>2. QED
      BY <1>t, <2>1, <3>1, GainsTaken DEF Gains
  <2>2. CASE ~TakeHandle(t)
    <3>1. ~Drop(t) /\ ~Unpark(t) /\ ~Signal(t)
      BY <1>2, <1>t DEF Drop, Unpark, Signal, Drained, Leave, Goto
    <3>2. pc[t] = "signal" /\ frame'[t] = frame[t]
      BY <1>2, <2>2, <3>1, CursorsStay DEF ListInv, Notifying
    <3>3. PICK w \in Threads : w = frame[t].at /\ Listed(w)
      BY <1>t, <3>2, LinkNames, LinkTargets, ThreadsAssumption DEF ListInv, ListsOK, Notifying
    <3>4. Taken(w) \in view.thread[t] /\ Taken(w) # Closure
      BY <3>2, <3>3, EventNames DEF SignalsOK
    <3>5. ~Take /\ \A u \in Threads : Pop(u) => Taken(w) \notin NodeEvents(u)
      BY <3>2, <3>3, EventNames DEF Take, Pop, Listed
    <3>6. QED
      BY <3>2, <3>3, <3>4, <3>5, ViewsGrow
  <2>3. QED
    BY <2>1, <2>2
<1>3. ASSUME NEW w \in Threads, InWait(w)', node'[w].signaled
      PROVE  {Taken(w), Signaled(w)} \subseteq view'.signal[w]
  <2>1. ~Push(w)
    BY <1>3, <1>t DEF Push, Waiter
  <2>2. InWait(w) /\ ~Take /\ ~Pop(w)
    BY <1>3, <2>1, NextInWait
  <2>3. ASSUME NEW t \in Threads, Signal(t), frame[t].at = w
        PROVE  {Taken(w), Signaled(w)} \subseteq view'.signal[w]
    <3>1. Taken(w) \in view.thread[t]
      BY <2>3 DEF Signal, SignalsOK
    <3>2. QED
      BY <1>t, <2>3, <3>1, SignalViews
  <2>4. ASSUME \A t \in Threads : Signal(t) => frame[t].at # w
        PROVE  /\ node'[w].signaled => node[w].signaled
               /\ \A e \in {Taken(w), Signaled(w)} : e \in view.signal[w] => e \in view'.signal[w]
    <3> DEFINE Kept == /\ node'[w].signaled => node[w].signaled
                       /\ \A e \in {Taken(w), Signaled(w)} : e \in view.signal[w] => e \in view'.signal[w]
    <3>1. ASSUME NEW t \in Threads,
                 \/ Get(t) \/ \E o \in {"init", "wait"} : Call(t, o)
                 \/ Load(t) \/ Start(t) \/ StartFailed(t)
          PROVE  Kept
      <4>1. node' = node
        BY <3>1 DEF Get, Call, Load, Start, StartFailed
      <4>2. QED
        BY <1>t, <3>1, <4>1, GainsQueue DEF Gains
    <3>2. ASSUME NEW t \in Threads,
                 PushFailed(t) \/ MissSignal(t) \/ WakeSpuriously(t) \/ GetUnchecked(t)
          PROVE  Kept
      <4>1. node' = node
        BY <3>2 DEF PushFailed, MissSignal, WakeSpuriously, GetUnchecked
      <4>2. QED
        BY <1>t, <3>2, <4>1, GainsNone DEF Gains
    <3>3. ASSUME NEW t \in Threads, SeeSignal(t)
          PROVE  Kept
      BY <1>t, <3>3, GainsSignal DEF Gains, SeeSignal
    <3>4. ASSUME NEW t \in Threads, TakeHandle(t)
          PROVE  Kept
      <4>1. node'[w].signaled = node[w].signaled
        BY <1>t, <3>4 DEF TakeHandle, Nodes
      <4>2. QED
        BY <1>t, <3>4, <4>1, GainsTaken DEF Gains
    <3>5. ASSUME NEW t \in Threads, Signal(t)
          PROVE  Kept
      <4>1. PICK x \in Threads : x = frame[t].at /\ x # w
        BY <1>t, <2>4, <3>5 DEF Signal, Notifying
      <4>2. node'[w] = node[w]
        BY <3>5, <4>1 DEF Signal
      <4>3. QED
        BY <1>t, <3>5, <4>1, <4>2, SignalViews
    <3>6. ASSUME NEW t \in Threads, Unpark(t)
          PROVE  Kept
      <4>1. PICK x \in Threads : x = frame[t].at
        BY <1>t, <3>6 DEF Unpark, Notifying
      <4>2. node' = node
        BY <3>6 DEF Unpark
      <4>3. QED
        BY <1>t, <3>6, <4>1, <4>2, UnparkViews
    <3>7. ASSUME NEW t \in Threads, Park(t) \/ Drop(t)
          PROVE  Kept
      BY <1>t, <3>7, ParkViews, DropViews DEF Park, Drop
    <3>8. ASSUME NEW t \in Threads, Push(t)
          PROVE  Kept
      <4>1. t # w
        BY <2>1, <3>8
      <4>2. node'[w] = node[w]
        BY <3>8, <4>1 DEF Push
      <4>3. QED
        BY <1>t, <3>8, <4>2, PushViews
    <3>9. ASSUME NEW t \in Threads, ClosureReturns(t)
          PROVE  Kept
      <4>1. node' = node
        BY <3>9 DEF ClosureReturns, ClosureSucceeds, ClosureFails
      <4>2. \A e \in {Taken(w), Signaled(w)} : e # Closure
        BY EventNames
      <4>3. QED
        BY <1>t, <3>9, <4>1, <4>2, ClosureViews
    <3>10. ASSUME NEW t \in Threads, Pop(t)
           PROVE  Kept
      <4>1. t # w
        BY <2>2, <3>10
      <4>2. node'[w] = node[w]
        BY <3>10, <4>1 DEF Pop
      <4>3. \A e \in {Taken(w), Signaled(w)} : e \notin NodeEvents(t)
        BY <4>1, EventNames
      <4>4. QED
        BY <1>t, <3>10, <4>1, <4>2, <4>3, PopViews
    <3>11. ASSUME UNCHANGED vars
           PROVE  Kept
      BY <3>11 DEF vars
    <3> HIDE DEF Kept
    <3>12. Kept
      BY <2>2, <3>1, <3>2, <3>3, <3>4, <3>5, <3>6, <3>7, <3>8, <3>9, <3>10, <3>11 DEF Next, Step
    <3>13. QED
      BY <3>12 DEF Kept
  <2>5. QED
    BY <1>3, <2>2, <2>3, <2>4 DEF SignalsOK
<1>4. ASSUME NEW t \in Threads, pc'[t] = "pop"
      PROVE  {Taken(t), Signaled(t)} \subseteq view'.thread[t]
  <2>1. InWait(t)' /\ ~Push(t)
    BY <1>4, <1>t DEF InWait, Push, Goto
  <2>2. InWait(t) /\ ~Take
    BY <2>1, NextInWait
  <2>3. CASE SeeSignal(t)
    <3>1. {Taken(t), Signaled(t)} \subseteq view.signal[t]
      BY <2>2, <2>3 DEF SeeSignal, SignalsOK
    <3>2. QED
      BY <1>t, <2>3, <3>1, GainsSignal DEF Gains
  <2>4. CASE ~SeeSignal(t)
    <3>1. pc[t] = "pop"
      <4>1. ASSUME NEW u \in Threads,
                   \/ Get(u) \/ \E o \in {"init", "wait"} : Call(u, o)
                   \/ Load(u) \/ Start(u) \/ StartFailed(u) \/ ClosureReturns(u)
                   \/ Drop(u) \/ TakeHandle(u) \/ Signal(u) \/ Unpark(u)
                   \/ PushFailed(u) \/ GetUnchecked(u)
            PROVE  pc[t] = "pop"
        BY <1>4, <1>t, <2>2, <4>1
           DEF InWait, Get, Call, Load, Start, StartFailed, ClosureReturns, ClosureSucceeds,
               ClosureFails, Drop, TakeHandle, Signal, Unpark, PushFailed, GetUnchecked,
               Drained, Leave, Goto
      <4>2. ASSUME NEW u \in Threads,
                   \/ Push(u) \/ SeeSignal(u) \/ MissSignal(u) \/ Park(u)
                   \/ WakeSpuriously(u) \/ Pop(u)
            PROVE  pc[t] = "pop"
        BY <1>4, <1>t, <2>4, <4>2 DEF Push, SeeSignal, MissSignal, Park, WakeSpuriously, Pop, Goto
      <4>3. ASSUME UNCHANGED vars
            PROVE  pc[t] = "pop"
        BY <1>4, <4>3 DEF vars
      <4>4. QED
        BY <2>2, <4>1, <4>2, <4>3 DEF Next, Step
    <3>2. {Taken(t), Signaled(t)} \subseteq view.thread[t]
      BY <3>1 DEF SignalsOK
    <3>3. QED
      BY <1>1, <2>1, <3>2
  <2>5. QED
    BY <2>3, <2>4
<1>5. QED
  BY <1>2, <1>3, <1>4 DEF SignalsOK

LEMMA NextOrder == OrderInv /\ [Next]_vars => OrderInv'
BY NextLists, NextClosure, NextGone, NextInits, NextSignals DEF OrderInv, ListInv

THEOREM OrderInvariant == Spec => []OrderInv
BY InitOrder, NextOrder, PTL DEF Spec

(* The orderings at the lines of src/imp_std.rs are strong enough: what a  *)
(* plain access to the value, to a Waiter or by a closure needs to come    *)
(* after does happen before it.                                            *)
THEOREM AccessesAreOrdered == Spec => []NoDataRace
<1>1. OrderInv => NoDataRace
  <2> SUFFICES ASSUME OrderInv, NEW t \in Threads
               PROVE  MustFollow(t) \subseteq view.thread[t]
    BY DEF NoDataRace
  <2>1. CASE pc[t] \in {"read", "closure"}
    BY <2>1 DEF MustFollow, OrderInv, ClosureOK
  <2>2. CASE pc[t] = "take"
    BY <2>2 DEF MustFollow, OrderInv, InitsOK
  <2>3. CASE pc[t] = "pop"
    BY <2>3 DEF MustFollow, OrderInv, SignalsOK
  <2>4. CASE pc[t] \notin {"read", "closure", "take", "pop"}
    BY <2>4 DEF MustFollow
  <2>5. QED
    BY <2>1, <2>2, <2>3, <2>4
<1>2. QED
  BY <1>1, OrderInvariant, PTL
-----------------------------------------------------------------------------
(* The words of the queue, for any size of usize and any addresses of the  *)
(* Waiters.                                                                *)

(* Arithmetic modulo the number of usizes. *)
LEMMA Modulo ==
  ASSUME NEW x \in Int, -Usizes <= x, x < 2 * Usizes
  PROVE  x % Usizes = IF x < 0 THEN x + Usizes ELSE IF x < Usizes THEN x ELSE x - Usizes
<1>1. CASE x < 0
  BY <1>1, UsizesAssumption
<1>2. CASE x \in 0..(Usizes - 1)
  BY <1>2, UsizesAssumption
<1>3. CASE x >= Usizes
  BY <1>3, UsizesAssumption
<1>4. QED
  BY <1>1, <1>2, <1>3, UsizesAssumption

(* with_addr gives a pointer the address it is asked for, wherever the two *)
(* addresses are.                                                          *)
LEMMA WithAddr ==
  ASSUME NEW p \in Ptr!usize, NEW a \in Ptr!usize
  PROVE  Ptr!with_addr(p, a) = a
<1> DEFINE H == Usizes \div 2
           d == Ptr!as_isize(a) - Ptr!as_isize(p)
           e == d % Usizes
           o == Ptr!as_isize(e)
<1>1. H \in Int /\ 0 <= H /\ H <= Usizes
  BY UsizesAssumption
<1>2. d \in Int /\ d \in {a - p, a - p - Usizes, a - p + Usizes} /\ -Usizes < d /\ d < Usizes
  BY <1>1, UsizesAssumption DEF Ptr!as_isize, Ptr!usize
<1>3. e = IF d < 0 THEN d + Usizes ELSE d
  BY <1>2, Modulo, UsizesAssumption
<1>4. o \in {e, e - Usizes}
  BY DEF Ptr!as_isize
<1>5. /\ p + o \in Int
      /\ -Usizes <= p + o
      /\ p + o < 2 * Usizes
      /\ p + o \in {a, a - Usizes, a + Usizes}
  BY <1>1, <1>2, <1>3, <1>4, UsizesAssumption DEF Ptr!as_isize, Ptr!usize
<1>6. (p + o) % Usizes = a
  BY <1>5, Modulo, UsizesAssumption DEF Ptr!usize
<1>7. QED
  BY <1>6 DEF Ptr!with_addr, Ptr!wrapping_offset, Ptr!wrapping_sub, Ptr!addr
-----------------------------------------------------------------------------
(* Tagging an address of a Waiter, or null, and taking the tag off again.  *)

Tags == {Ptr!INCOMPLETE, Ptr!RUNNING, Ptr!COMPLETE}

IsAligned(a) == a \in Ptr!usize /\ a % 4 = 0

LEMMA AddressIsAligned ==
  ASSUME NEW p \in Pointers
  PROVE  IsAligned(Address(p))
BY SlotAssumption, UsizesAssumption DEF Address, Pointers, Ptr!Align, IsAligned, Ptr!usize

LEMMA AddressIsUnique ==
  ASSUME NEW p \in Pointers, NEW r \in Pointers, Address(p) = Address(r)
  PROVE  p = r
BY SlotAssumption DEF Address, Pointers, Ptr!Align

LEMMA TaggedIsSum ==
  ASSUME NEW a, IsAligned(a), NEW s \in Tags
  PROVE  /\ a + s \in Ptr!usize
         /\ Ptr!Tagged(a, s) = a + s
<1>1. a + s \in Ptr!usize
  BY UsizesAssumption DEF IsAligned, Ptr!usize, Tags, Ptr!INCOMPLETE, Ptr!RUNNING, Ptr!COMPLETE
<1>2. Ptr!WithState(a, s) = a + s
  BY DEF IsAligned, Ptr!usize, Tags, Ptr!INCOMPLETE, Ptr!RUNNING, Ptr!COMPLETE, Ptr!WithState,
         Ptr!OtherBits, Ptr!MaskedBits, Ptr!STATE_MASK, Ptr!OrBit, Ptr!Bit
<1>3. QED
  BY <1>1, <1>2, WithAddr DEF Ptr!Tagged, Ptr!map_addr, Ptr!addr, IsAligned

LEMMA TagRoundTrip ==
  ASSUME NEW a, IsAligned(a), NEW s \in Tags
  PROVE  /\ Ptr!StateOf(a + s) = s
         /\ Ptr!HeadOf(a + s) = a
         /\ Ptr!MadeRunning(a + s) = a + Ptr!RUNNING
<1> USE DEF Ptr!MaskedBits, Ptr!STATE_MASK, Ptr!OtherBits
<1>1. a + s \in Ptr!usize /\ a + Ptr!RUNNING \in Ptr!usize
  BY TaggedIsSum DEF Tags
<1>2. (a + s) % 4 = s
  BY DEF IsAligned, Ptr!usize, Tags, Ptr!INCOMPLETE, Ptr!RUNNING, Ptr!COMPLETE
<1>3. Ptr!StateOf(a + s) = s
  BY <1>2 DEF Ptr!StateOf, Ptr!addr
<1>4. Ptr!OtherBits(a + s) = a
  BY <1>2 DEF IsAligned, Ptr!usize, Tags, Ptr!INCOMPLETE, Ptr!RUNNING, Ptr!COMPLETE
<1>5. Ptr!HeadOf(a + s) = a
  BY <1>1, <1>4, WithAddr DEF Ptr!HeadOf, Ptr!map_addr, Ptr!addr, IsAligned
<1>6. Ptr!WithState(a, Ptr!RUNNING) = a + Ptr!RUNNING
  BY DEF IsAligned, Ptr!usize, Ptr!RUNNING, Ptr!WithState, Ptr!OrBit, Ptr!Bit
<1>7. Ptr!MadeRunning(a + s) = a + Ptr!RUNNING
  BY <1>1, <1>4, <1>6, WithAddr DEF Ptr!MadeRunning, Ptr!map_addr, Ptr!addr
<1>8. QED
  BY <1>3, <1>5, <1>7
-----------------------------------------------------------------------------
(* The words of records. *)

LEMMA BitsAreTags ==
  ASSUME NEW x \in States
  PROVE  Bits(x) \in Tags
BY DEF States, Bits, Tags, INCOMPLETE, RUNNING, COMPLETE

LEMMA BitsAreUnique ==
  ASSUME NEW x \in States, NEW y \in States, Bits(x) = Bits(y)
  PROVE  x = y
BY DEF States, Bits, INCOMPLETE, RUNNING, COMPLETE, Ptr!INCOMPLETE, Ptr!RUNNING, Ptr!COMPLETE

LEMMA EncodeIsSum ==
  ASSUME NEW q \in Words
  PROVE  /\ Encode(q) = Address(q.head) + Bits(q.state)
         /\ Encode(q) \in Ptr!usize
         /\ Ptr!StateOf(Encode(q)) = Bits(q.state)
         /\ Ptr!HeadOf(Encode(q)) = Address(q.head)
         /\ Ptr!MadeRunning(Encode(q)) = Address(q.head) + Ptr!RUNNING
<1>1. IsAligned(Address(q.head)) /\ Bits(q.state) \in Tags
  BY AddressIsAligned, BitsAreTags DEF Words
<1>2. QED
  BY <1>1, TaggedIsSum, TagRoundTrip DEF Encode

LEMMA EncodeIsUnique ==
  ASSUME NEW q \in Words, NEW r \in Words, Encode(q) = Encode(r)
  PROVE  q = r
<1>1. Bits(q.state) = Bits(r.state) /\ Address(q.head) = Address(r.head)
  BY EncodeIsSum
<1>2. q.state = r.state /\ q.head = r.head
  BY <1>1, BitsAreUnique, AddressIsUnique DEF Words
<1>3. QED
  BY <1>2 DEF Words

(* Masking gives back what a word is made of, and comparing words compares *)
(* records.                                                                *)
THEOREM WordsFaithful == Spec => []WordsAreFaithful
<1>1. ASSUME TypeOK, CompleteHasNoWaiters
      PROVE  WordsAreFaithful
  <2>1. queue \in Words /\ COMPLETE_PTR \in Words /\ \A t \in Threads : frame[t].cur \in Words
    BY <1>1 DEF TypeOK, Frames, Words, COMPLETE_PTR, Word, States, Pointers
  <2>2. queue = COMPLETE_PTR <=> queue.state = COMPLETE
    BY <1>1, <2>1 DEF CompleteHasNoWaiters, COMPLETE_PTR, Word, Words
  <2>3. QED
    BY <2>1, <2>2, EncodeIsSum, EncodeIsUnique DEF WordsAreFaithful, Exchanges
<1>2. QED
  BY <1>1, TypeCorrect, CompleteIsCompletePtr, PTL

(* What the code computes from words is the word of the next record.       *)
THEOREM WordsFollowRecords == Spec => WordsFollow
<1>1. ASSUME TypeOK, NEW t \in Threads, Start(t)
      PROVE  Encode(queue') = Ptr!MadeRunning(Encode(frame[t].cur))
  <2>1. frame[t].cur \in Words /\ queue' = Word(RUNNING, frame[t].cur.head)
    BY <1>1 DEF TypeOK, Frames, Start, AsRunning
  <2>2. queue' \in Words /\ queue'.head = frame[t].cur.head /\ queue'.state = RUNNING
    BY <2>1 DEF Words, Word, States
  <2>3. Encode(queue') = Address(frame[t].cur.head) + Bits(RUNNING)
    BY <2>2, EncodeIsSum
  <2>4. QED
    BY <2>1, <2>3, EncodeIsSum DEF Bits, INCOMPLETE, RUNNING, COMPLETE
<1>2. ASSUME TypeOK, NEW t \in Threads, Push(t)
      PROVE  /\ Encode(queue') = Ptr!Tagged(Address(t), Ptr!StateOf(Encode(frame[t].cur)))
             /\ Address(node'[t].next) = Ptr!HeadOf(Encode(frame[t].cur))
  <2>1. frame[t].cur \in Words /\ queue' = Word(frame[t].cur.state, t)
    BY <1>2 DEF TypeOK, Frames, Push
  <2>2. Encode(queue') = Ptr!Tagged(Address(t), Bits(frame[t].cur.state))
    BY <2>1 DEF Encode, Word
  <2>3. node'[t].next = frame[t].cur.head
    BY <1>2 DEF Push, TypeOK, Waiter
  <2>4. QED
    BY <2>1, <2>2, <2>3, EncodeIsSum
<1>3. TypeOK => [\A t \in Threads :
                   LET cur == Encode(frame[t].cur) IN
                   /\ Start(t) => Encode(queue') = Ptr!MadeRunning(cur)
                   /\ Push(t) =>
                        /\ Encode(queue') = Ptr!Tagged(Address(t), Ptr!StateOf(cur))
                        /\ Address(node'[t].next) = Ptr!HeadOf(cur)]_vars
  BY <1>1, <1>2
<1>4. QED
  BY <1>3, TypeCorrect, PTL DEF Spec, WordsFollow
=============================================================================
