------------------------------- MODULE ImpStd -------------------------------
(***************************************************************************)
(* sync::OnceCell over src/imp_std.rs: a tagged pointer `queue` that holds *)
(* both the state of the cell and a lock-free stack of waiting threads,    *)
(* whose nodes live on the stacks of those threads.                        *)
(*                                                                         *)
(* One action is one access to shared memory, with the local computation   *)
(* that follows it.  A thread waits in at most one frame of its stack, so  *)
(* a node is named by its owner: a thread that waits again reuses the name,*)
(* as the code may reuse the address.  Atomics interleave; which accesses  *)
(* happen before which is tracked by `view`, from the memory orderings     *)
(* named below, so that a data race is a missing element of a view.        *)
(*                                                                         *)
(* An operator named Wrong... is a slip this code could have had, kept     *)
(* beside the right one to see a property fail with it; nothing uses it.   *)
(***************************************************************************)
CONSTANTS
  Threads,    \* the threads that share the cell
  Calls,      \* the calls the program of each thread makes
  Reentrant,  \* the threads whose closures call back into the same cell
  Null        \* the null pointer, and "no value"

ASSUME ThreadsAssumption == Null \notin Threads /\ Reentrant \subseteq Threads
ASSUME CallsAssumption == Calls \in [Threads -> SUBSET {"get", "init", "wait"}]

VARIABLES
  queue,      \* OnceCell::queue, decoded into state bits and head pointer
  value,      \* OnceCell::value: the thread that stored it, or Null
  node,       \* the Waiter on the stack of each thread
  token,      \* std's park token of each thread
  pc,         \* the next step of each thread
  frame,      \* its locals
  view        \* what happened before, for threads and released messages

vars == <<queue, value, node, token, pc, frame, view>>
-----------------------------------------------------------------------------
(* The queue word. *)

INCOMPLETE == "INCOMPLETE"
RUNNING == "RUNNING"
COMPLETE == "COMPLETE"

States == {INCOMPLETE, RUNNING, COMPLETE}
Pointers == Threads \cup {Null}

Word(state, head) == [state |-> state, head |-> head]
INCOMPLETE_PTR == Word(INCOMPLETE, Null)
COMPLETE_PTR == Word(COMPLETE, Null)

(* `thread` says that the handle has not been taken out of the node yet.   *)
Waiter(next) == [live |-> TRUE, thread |-> TRUE, signaled |-> FALSE, next |-> next]
NoWaiter == [live |-> FALSE, thread |-> FALSE, signaled |-> FALSE, next |-> Null]

(* op: the call in progress; outer: it was made from a closure of the same *)
(* thread; cur: curr_queue; guard: Guard::new_queue; at, after: `waiter`   *)
(* (later the handle taken from it) and `next` in the loop of Guard::drop. *)
FrameWith(op, guard) ==
  [op |-> op, outer |-> FALSE, cur |-> INCOMPLETE_PTR, guard |-> guard,
   at |-> Null, after |-> Null]
Frame(op) == FrameWith(op, INCOMPLETE)
-----------------------------------------------------------------------------
(* The memory orderings of the accesses, each at its line. *)

WrongFastLoad == "Relaxed"
FastLoad == "Acquire"       \* is_initialized
SlowLoad == "Acquire"       \* queue.load in initialize_or_wait
StartCas == "Acquire"       \* INCOMPLETE -> RUNNING, success and failure
DropSwap == "AcqRel"        \* Guard::drop
PushCas == "Release"        \* wait: pushing the node, success
PushCasFailed == "Relaxed"  \* wait: pushing the node, failure
SignalStore == "Release"    \* Guard::drop
SignalLoad == "Acquire"     \* wait

Acquires(ord) == ord \in {"Acquire", "AcqRel"}
Releases(ord) == ord \in {"Release", "AcqRel"}

(* What a view may contain: the effects of the last closure that ran (the  *)
(* write of the value, if it succeeded), and the accesses to the Waiter    *)
(* of a thread: its initialization, the reads of Guard::drop, and the      *)
(* store to `signaled`.                                                    *)
Closure == <<"closure", Null>>
NodeInit(t) == <<"init", t>>
Taken(t) == <<"taken", t>>
Signaled(t) == <<"signaled", t>>
NodeEvents(t) == {NodeInit(t), Taken(t), Signaled(t)}
Events == {Closure} \cup UNION {NodeEvents(t) : t \in Threads}

(* An event that is superseded, or whose memory is gone, is in no view. *)
Without(v, E) ==
  [thread |-> [t \in Threads |-> v.thread[t] \ E],
   queue  |-> v.queue \ E,
   signal |-> [t \in Threads |-> v.signal[t] \ E],
   token  |-> [t \in Threads |-> v.token[t] \ E]]

(* t does something that supersedes the events E with the event e. *)
Does(v, t, e, E) == [Without(v, E) EXCEPT !.thread[t] = @ \cup {e}]

(* t reads a message that was released with the view `released`. *)
Read(v, t, ord, released) ==
  [v EXCEPT !.thread[t] = @ \cup (IF Acquires(ord) THEN released ELSE {})]

(* t replaces the word with a read-modify-write, which continues the       *)
(* release sequences of the word it replaces.                              *)
ReadWrite(v, t, ord) ==
  LET r == Read(v, t, ord, v.queue)
  IN  [r EXCEPT !.queue = @ \cup (IF Releases(ord) THEN r.thread[t] ELSE {})]
-----------------------------------------------------------------------------
(* new() and with_value(); sharing the cell synchronizes the threads. *)
Init ==
  /\ value \in Pointers
  /\ queue = IF value = Null THEN INCOMPLETE_PTR ELSE COMPLETE_PTR
  /\ node = [t \in Threads |-> NoWaiter]
  /\ token = [t \in Threads |-> FALSE]
  /\ pc = [t \in Threads |-> "idle"]
  /\ frame = [t \in Threads |-> Frame("none")]
  /\ view = [thread |-> [t \in Threads |-> {Closure}],
             queue  |-> {},
             signal |-> [t \in Threads |-> {}],
             token  |-> [t \in Threads |-> {}]]

Goto(t, l) == pc' = [pc EXCEPT ![t] = l]

(* The call ends: back to the program, or to the closure that made it. *)
Leave(t) ==
  /\ Goto(t, IF frame[t].outer THEN "closure" ELSE "idle")
  /\ frame' = [frame EXCEPT ![t] = Frame(IF @.outer THEN "init" ELSE "none")]

IsInitialized(q) == q = COMPLETE_PTR

(* get: never blocks. *)
Get(t) ==
  /\ pc[t] = "idle" /\ "get" \in Calls[t]
  /\ view' = Read(view, t, FastLoad, view.queue)
  /\ IF IsInitialized(queue)
     THEN Goto(t, "read") /\ frame' = [frame EXCEPT ![t] = Frame("get")]
     ELSE UNCHANGED <<pc, frame>>
  /\ UNCHANGED <<queue, value, node, token>>

(* get_or_try_init ("init": with a closure) or wait, from the program or   *)
(* from a closure that runs for this very cell; the fast path comes first. *)
Call(t, o) ==
  /\ \/ /\ pc[t] = "idle" /\ o \in Calls[t]
        /\ frame' = [frame EXCEPT ![t] = Frame(o)]
     \/ /\ pc[t] = "closure" /\ t \in Reentrant
        /\ frame' = [frame EXCEPT ![t] = [Frame(o) EXCEPT !.outer = TRUE]]
  /\ view' = Read(view, t, FastLoad, view.queue)
  /\ Goto(t, IF IsInitialized(queue) THEN "read" ELSE "load")
  /\ UNCHANGED <<queue, value, node, token>>

(* compare_exchange compares the state bits and the pointer. *)
WrongExchanges(t) == queue.state = frame[t].cur.state
Exchanges(t) == queue = frame[t].cur

WrongDispatchOfRunning(o, state) ==
  IF state = COMPLETE THEN "read" ELSE IF o = "init" THEN "start" ELSE "push"
WrongDispatchOfWait(o, state) ==
  CASE state = COMPLETE \/ (state = INCOMPLETE /\ o = "wait") -> "read"
    [] state = INCOMPLETE /\ o = "init" -> "start"
    [] OTHER -> "push"

(* The match on (curr_state, init) in initialize_or_wait. *)
Dispatch(o, state) ==
  CASE state = COMPLETE -> "read"
    [] state = INCOMPLETE /\ o = "init" -> "start"
    [] OTHER -> "push"

Load(t) ==
  /\ pc[t] = "load"
  /\ frame' = [frame EXCEPT ![t].cur = queue]
  /\ view' = Read(view, t, SlowLoad, view.queue)
  /\ Goto(t, Dispatch(frame[t].op, queue.state))
  /\ UNCHANGED <<queue, value, node, token>>

(* cur is not used again: a dead local must not tell states apart. *)
Forget(t) == frame' = [frame EXCEPT ![t].cur = INCOMPLETE_PTR]

(* INCOMPLETE -> RUNNING, keeping the waiters that wait() left in the queue. *)
WrongAsRunning(q) == Word(RUNNING, Null)
AsRunning(q) == Word(RUNNING, q.head)

Start(t) ==
  /\ pc[t] = "start"
  /\ Exchanges(t)
  /\ queue' = AsRunning(frame[t].cur)
  /\ view' = ReadWrite(view, t, StartCas)
  /\ Goto(t, "closure")
  /\ Forget(t)
  /\ UNCHANGED <<value, node, token>>

StartFailed(t) ==
  /\ pc[t] = "start"
  /\ ~Exchanges(t)
  /\ frame' = [frame EXCEPT ![t].cur = queue]
  /\ view' = Read(view, t, StartCas, view.queue)
  /\ Goto(t, Dispatch(frame[t].op, queue.state))
  /\ UNCHANGED <<queue, value, node, token>>

(* f returned Ok: the slot is written, and then the guard armed. *)
ClosureSucceeds(t) ==
  /\ pc[t] = "closure"
  /\ value' = t
  /\ view' = Does(view, t, Closure, {Closure})
  /\ frame' = [frame EXCEPT ![t].guard = COMPLETE]
  /\ Goto(t, "drop")
  /\ UNCHANGED <<queue, node, token>>

(* f returned Err, or panicked: the guard is dropped with INCOMPLETE_PTR. *)
ClosureFails(t) ==
  /\ pc[t] = "closure"
  /\ view' = Does(view, t, Closure, {Closure})
  /\ Goto(t, "drop")
  /\ UNCHANGED <<queue, value, node, token, frame>>

(* The end of the call that ran the closure: Ok goes on to get_unchecked,  *)
(* Err and a panic leave.                                                  *)
Drained(t) ==
  IF frame[t].guard = COMPLETE
  THEN Goto(t, "read") /\ frame' = [frame EXCEPT ![t].at = Null, ![t].after = Null]
  ELSE Leave(t)

WrongNewQueueOnFailure(t) == COMPLETE_PTR
WrongNewQueueStaysRunning(t) == Word(IF frame[t].guard = COMPLETE THEN COMPLETE ELSE RUNNING, Null)

(* Guard::drop: the swap, ... *)
NewQueue(t) == Word(frame[t].guard, Null)

Drop(t) ==
  /\ pc[t] = "drop"
  /\ queue' = NewQueue(t)
  /\ view' = ReadWrite(view, t, DropSwap)
  /\ IF queue.head = Null
     THEN Drained(t)
     ELSE Goto(t, "take") /\ frame' = [frame EXCEPT ![t].at = queue.head]
  /\ UNCHANGED <<value, node, token>>

(* ... and for each waiter: read `next` and take the thread handle, ... *)
WrongNextWaiter(w) == Null
NextWaiter(w) == node[w].next

TakeHandle(t) ==
  LET w == frame[t].at IN
  /\ pc[t] = "take"
  /\ frame' = [frame EXCEPT ![t].after = NextWaiter(w)]
  /\ node' = [node EXCEPT ![w].thread = FALSE]
  /\ view' = Does(view, t, Taken(w), {})
  /\ Goto(t, "signal")
  /\ UNCHANGED <<queue, value, token>>

(* ... store `signaled`, after which the node may be gone, ... *)
Signal(t) ==
  LET w == frame[t].at
      v == Does(view, t, Signaled(w), {}) IN
  /\ pc[t] = "signal"
  /\ node' = [node EXCEPT ![w].signaled = TRUE]
  /\ view' = [v EXCEPT !.signal[w] = IF Releases(SignalStore) THEN v.thread[t] ELSE {}]
  /\ Goto(t, "unpark")
  /\ UNCHANGED <<queue, value, token, frame>>

(* ... and unpark the thread; std makes unpark synchronize with park. *)
Unpark(t) ==
  LET w == frame[t].at IN
  /\ pc[t] = "unpark"
  /\ token' = [token EXCEPT ![w] = TRUE]
  /\ view' = [view EXCEPT !.token[w] = @ \cup view.thread[t]]
  /\ IF frame[t].after = Null
     THEN Drained(t)
     ELSE /\ Goto(t, "take")
          /\ frame' = [frame EXCEPT ![t].at = frame[t].after, ![t].after = Null]
  /\ UNCHANGED <<queue, value, node>>

(* wait: the node is published only when the exchange succeeds. *)
Push(t) ==
  /\ pc[t] = "push"
  /\ Exchanges(t)
  /\ node' = [node EXCEPT ![t] = Waiter(frame[t].cur.head)]
  /\ queue' = Word(frame[t].cur.state, t)
  /\ view' = ReadWrite(Does(view, t, NodeInit(t), {}), t, PushCas)
  /\ Goto(t, "check")
  /\ Forget(t)
  /\ UNCHANGED <<value, token>>

PushFailed(t) ==
  /\ pc[t] = "push"
  /\ ~Exchanges(t)
  /\ view' = Read(view, t, PushCasFailed, view.queue)
  /\ IF queue.state # frame[t].cur.state
     THEN Goto(t, "load") /\ Forget(t)
     ELSE frame' = [frame EXCEPT ![t].cur = queue] /\ UNCHANGED pc
  /\ UNCHANGED <<queue, value, node, token>>

SeeSignal(t) ==
  /\ pc[t] = "check"
  /\ node[t].signaled
  /\ view' = Read(view, t, SignalLoad, view.signal[t])
  /\ Goto(t, "pop")
  /\ UNCHANGED <<queue, value, node, token, frame>>

(* A load may miss a store that does not happen before it. *)
MissSignal(t) ==
  /\ pc[t] = "check"
  /\ Signaled(t) \notin view.thread[t]
  /\ Goto(t, "park")
  /\ UNCHANGED <<queue, value, node, token, frame, view>>

Park(t) ==
  /\ pc[t] = "park"
  /\ token[t]
  /\ token' = [token EXCEPT ![t] = FALSE]
  /\ view' = [view EXCEPT !.thread[t] = @ \cup view.token[t], !.token[t] = {}]
  /\ Goto(t, "check")
  /\ UNCHANGED <<queue, value, node, frame>>

WrongWakeSpuriously(t) ==
  /\ pc[t] = "park"
  /\ ~token[t]
  /\ Goto(t, "pop")
  /\ UNCHANGED <<queue, value, node, token, frame, view>>

(* std lets park return without a token. *)
WakeSpuriously(t) ==
  /\ pc[t] = "park"
  /\ ~token[t]
  /\ Goto(t, "check")
  /\ UNCHANGED <<queue, value, node, token, frame, view>>

(* wait returns: the node is dropped and its stack slot reused. *)
Pop(t) ==
  /\ pc[t] = "pop"
  /\ node' = [node EXCEPT ![t] = NoWaiter]
  /\ view' = [Without(view, NodeEvents(t)) EXCEPT !.signal[t] = {}]
  /\ Goto(t, "load")
  /\ UNCHANGED <<queue, value, token, frame>>

(* get_unchecked, the last step of every call that returns the value. *)
GetUnchecked(t) ==
  /\ pc[t] = "read"
  /\ Leave(t)
  /\ UNCHANGED <<queue, value, node, token, view>>

(* take (also into_inner and an assignment of a new cell): &mut self, so   *)
(* no call is in progress and the program has synchronized its threads.    *)
Take ==
  /\ \A t \in Threads : pc[t] = "idle"
  /\ value' = Null
  /\ queue' = INCOMPLETE_PTR
  /\ view' = [view EXCEPT !.thread = [t \in Threads |-> {Closure}], !.queue = {}]
  /\ UNCHANGED <<node, token, pc, frame>>
-----------------------------------------------------------------------------
(* Steps the scheduler takes for a thread that is inside the cell's code;  *)
(* whether to call, and what a closure does, is up to the program.         *)
Step(t) ==
  \/ Load(t) \/ Start(t) \/ StartFailed(t)
  \/ Drop(t) \/ TakeHandle(t) \/ Signal(t) \/ Unpark(t)
  \/ Push(t) \/ PushFailed(t) \/ SeeSignal(t) \/ MissSignal(t) \/ Park(t) \/ Pop(t)
  \/ GetUnchecked(t)

ClosureReturns(t) == ClosureSucceeds(t) \/ ClosureFails(t)

Next ==
  \/ \E t \in Threads :
       \/ Get(t)
       \/ \E o \in {"init", "wait"} : Call(t, o)
       \/ ClosureReturns(t)
       \/ Step(t)
       \/ WakeSpuriously(t)
  \/ Take

Spec == Init /\ [][Next]_vars

(* Threads are scheduled and closures return; nothing else is promised. *)
Fairness == \A t \in Threads : WF_vars(Step(t)) /\ WF_vars(ClosureReturns(t))

FairSpec == Spec /\ Fairness
-----------------------------------------------------------------------------
(* Invariants. *)

PCs == {"idle", "read", "load", "start", "closure", "drop", "take", "signal", "unpark",
        "push", "check", "park", "pop"}

Words == [state : States, head : Pointers]
Nodes == [live : BOOLEAN, thread : BOOLEAN, signaled : BOOLEAN, next : Pointers]
Frames == [op : {"none", "get", "init", "wait"}, outer : BOOLEAN, cur : Words,
           guard : {INCOMPLETE, COMPLETE}, at : Pointers, after : Pointers]
Views == [thread : [Threads -> SUBSET Events], queue : SUBSET Events,
          signal : [Threads -> SUBSET Events], token : [Threads -> SUBSET Events]]

\* Every variable has the type of the Rust item it models, and views hold events.
TypeOK ==
  /\ queue \in Words
  /\ value \in Pointers
  /\ node \in [Threads -> Nodes]
  /\ token \in [Threads -> BOOLEAN]
  /\ pc \in [Threads -> PCs]
  /\ frame \in [Threads -> Frames]
  /\ view \in Views

(* t is between its INCOMPLETE -> RUNNING exchange and the swap of its guard. *)
Owns(t) == pc[t] \in {"closure", "drop"} \/ frame[t].outer

\* The cell is RUNNING exactly while one thread owns it: two closures never overlap,
\* the swap in Guard::drop always finds RUNNING (its assert_eq!), and a cell that
\* nobody is initializing is never left RUNNING, whatever happened to the closure.
RunningIsOwned ==
  /\ \A t, u \in Threads : Owns(t) /\ Owns(u) => t = u
  /\ queue.state = RUNNING <=> \E t \in Threads : Owns(t)

\* A thread that goes on to get_unchecked finds a value: initialize and wait do not
\* return early, not even to a thread whose initializer lost to one that failed.
ReadsAreInitialized ==
  \A t \in Threads : pc[t] = "read" => value # Null /\ queue.state = COMPLETE

\* The comment on Waiter: the linked list of waiters exists in the RUNNING state. It
\* does not hold, since wait() also queues up on a cell that nobody is initializing.
WaitersOnlyWhileRunning == queue.head # Null => queue.state = RUNNING

\* A COMPLETE cell has no waiters left in its queue, so comparing the whole pointer
\* with COMPLETE_PTR, as is_initialized does, cannot miss a COMPLETE cell.
CompleteHasNoWaiters == queue.state = COMPLETE => queue.head = Null

(* The accesses a thread is about to make that are not atomic, and what has *)
(* to happen before each of them.                                           *)
MustFollow(t) ==
  CASE pc[t] \in {"read", "closure"} -> {Closure}
    [] pc[t] = "take" -> {NodeInit(frame[t].at)}
    [] pc[t] = "pop" -> {Taken(t), Signaled(t)}
    [] OTHER -> {}

\* No data race: the closure that made the value happens before its readers (and a
\* failed closure before the next one, on which Lazy relies), the initialization of a
\* Waiter before the notifying thread reads it, and that thread's accesses before
\* the waiting thread drops the Waiter.
NoDataRace == \A t \in Threads : MustFollow(t) \subseteq view.thread[t]

\* The notifying thread touches only nodes whose owner has not returned from wait,
\* and finds the thread handle it unwraps in each.
NoUseAfterReturn ==
  \A t \in Threads :
    /\ pc[t] \in {"take", "signal"} => node[frame[t].at].live
    /\ pc[t] = "take" => node[frame[t].at].thread

(* t is in a list and has not been signaled. *)
Listed(t) == pc[t] \in {"check", "park"} /\ ~node[t].signaled

(* The pointers to waiters: the head of the queue, the `next` of a waiter  *)
(* that nobody has begun to notify, and the locals of Guard::drop.         *)
Links == {<<"queue", Null>>} \cup ({"next", "at", "after"} \X Threads)

Target(l) ==
  LET t == l[2] IN
  CASE l[1] = "queue" -> queue.head
    [] l[1] = "next" /\ Listed(t) /\ node[t].thread -> node[t].next
    [] l[1] = "at" /\ pc[t] \in {"take", "signal"} -> frame[t].at
    [] l[1] = "after" /\ pc[t] \in {"signal", "unpark"} -> frame[t].after
    [] OTHER -> Null

\* Exactly the waiters that have not been signaled are in a list, each in one list and
\* in one place: pushes and swaps by several threads, with addresses reused while a
\* stale curr_queue still holds them, never corrupt, share or drop a list.
ListsAreDisjoint ==
  LET Used == {l \in Links : Target(l) # Null} IN
  /\ {Target(l) : l \in Used} = {w \in Threads : Listed(w)}
  /\ \A k, l \in Used : Target(k) = Target(l) => k = l

\* Every waiter is reached along the links from the queue of a cell that is not COMPLETE,
\* whose next swap wakes it, or from the locals of a thread in Guard::drop, which is on its
\* way to it: any waiters have a link to one of them that does not start at one of them.
\* None is dropped by an exchange or pushed after the last swap, nor are any linked in a
\* circle by a push that mistakes an old address for the queue it has read.
NoWaiterIsLost ==
  \A S \in SUBSET {w \in Threads : Listed(w)} :
    S # {} => \E l \in Links : /\ Target(l) \in S
                               /\ l[1] = "next" => l[2] \notin S
                               /\ l[1] = "queue" => queue.state # COMPLETE

\* Once stored, the value changes only by exclusive access: references handed out by
\* get never dangle.
WrittenOnce == [][value' # value => value = Null \/ Take]_vars

\* A closure that calls get_or_init or wait on its own cell never gets an answer (the
\* deadlock that lib.rs documents), and the cell stays RUNNING: it neither runs a
\* second closure nor returns from the inner call without a value.
ReentryDeadlocks ==
  [][\A t \in Threads : frame[t].outer => frame'[t].outer /\ queue'.state = RUNNING]_vars
-----------------------------------------------------------------------------
(* Liveness and refinement, under FairSpec. *)

\* Once the cell is COMPLETE every thread that is inside a call returns from it, those
\* that are parked, or about to park, included.
AllReturn ==
  \A t \in Threads : queue.state = COMPLETE /\ pc[t] # "idle" ~> pc[t] = "idle"

\* get_or_try_init returns unless the closures keep failing for ever: a waiter left by
\* a failed closure wakes up and tries its own, and wait()ers do not get in its way.
InitializersReturn ==
  \/ \A t \in Threads : frame[t].op = "init" ~> pc[t] = "idle"
  \/ []<><<\E t \in Threads : ClosureFails(t)>>_vars

(* A call has failed from the swap of its guard until it has notified all. *)
Phase(t) ==
  IF pc[t] = "idle" THEN "idle"
  ELSE IF Owns(t) THEN "running"
  ELSE IF pc[t] \in {"take", "signal", "unpark"} /\ frame[t].guard = INCOMPLETE THEN "failed"
  ELSE IF frame[t].op = "init" THEN "trying"
  ELSE "waiting"

OnceCell ==
  INSTANCE OnceCellSpec WITH
    value <- IF queue.state = COMPLETE THEN value ELSE Null,
    phase <- [t \in Threads |-> Phase(t)]

\* imp_std keeps the promises of OnceCell: one closure at a time, the first success
\* fixes what every call returns, a failure leaves the cell empty.
IsOnceCell == OnceCell!Spec

\* ... and everyone who can be answered is, and an empty cell gets initialized.
IsFairOnceCell == OnceCell!FairSpec
=============================================================================
