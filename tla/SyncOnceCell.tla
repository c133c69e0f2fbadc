---------------------------- MODULE SyncOnceCell ----------------------------
(***************************************************************************)
(* The public methods of sync::OnceCell (src/lib.rs) over the cell that    *)
(* imp_std, imp_pl and imp_cs are each shown to implement: who owns which  *)
(* value of T.  A value is handed to the cell by set, try_insert or the    *)
(* function of get_or_init, borrowed from it by every call that answers    *)
(* with a reference, and taken out again by take, into_inner or get_mut.   *)
(***************************************************************************)
CONSTANTS
  Threads,  \* the threads that share the cell
  Values,   \* the values of T, each of which exists once
  Null      \* "no value": Rust's None

ASSUME NullAssumption == Null \notin Threads \cup Values

VARIABLES
  value,    \* of OnceCellSpec: the thread whose function filled the cell
  phase,    \* of OnceCellSpec: what each thread is doing with the cell
  held,     \* the value of T in the cell, or Null
  call,     \* the method each thread is in, and the value it brought along
  mine,     \* the values each thread owns
  ref,      \* the value each thread borrows from the cell, or Null
  gone,     \* the values that do not exist: dropped, or not made yet
  answer    \* what the last set, try_insert or get_or_try_init returned

cell == <<value, phase>>
vars == <<value, phase, held, call, mine, ref, gone, answer>>

Cell == INSTANCE OnceCellSpec

(* arg is the local `let mut value = Some(value)` of try_insert, or what   *)
(* the function of get_or_try_init has captured; given is what it was when *)
(* the method was called.                                                  *)
Idle == [op |-> "idle", arg |-> Null, given |-> Null]

Init ==
  /\ Cell!Init
  /\ held \in IF value = Null THEN {Null} ELSE Values
  /\ call = [t \in Threads |-> Idle]
  /\ mine = [t \in Threads |-> {}]
  /\ ref = [t \in Threads |-> Null]
  /\ gone = Values \ {held}
  /\ answer = [t \in Threads |-> "none"]

(* External: the program makes a value, or drops one that it owns.         *)
Make(t) ==
  /\ call[t] = Idle
  /\ \/ \E v \in gone :
          /\ mine' = [mine EXCEPT ![t] = @ \cup {v}]
          /\ gone' = gone \ {v}
     \/ \E v \in mine[t] :
          /\ mine' = [mine EXCEPT ![t] = @ \ {v}]
          /\ gone' = gone \cup {v}
  /\ UNCHANGED <<cell, held, call, ref, answer>>

(* set and try_insert, and get_or_init and get_or_try_init: the value is   *)
(* moved into the call.                                                    *)
Bring(t, op) ==
  /\ Cell!Call(t) /\ phase'[t] = "trying"
  /\ \E v \in mine[t] :
       /\ call' = [call EXCEPT ![t] = [op |-> op, arg |-> v, given |-> v]]
       /\ mine' = [mine EXCEPT ![t] = @ \ {v}]
  /\ UNCHANGED <<held, ref, gone, answer>>

TryInsert(t) == Bring(t, "try_insert")

GetOrTryInit(t) == Bring(t, "get_or_try_init")

(* wait, and a get that finds the cell full; one that finds it empty has   *)
(* no effect.                                                              *)
Get(t) ==
  /\ Cell!Call(t) /\ phase'[t] = "waiting"
  /\ call' = [call EXCEPT ![t].op = "get"]
  /\ UNCHANGED <<held, mine, ref, gone, answer>>

(* initialize(f) finds the cell empty and calls f.                         *)
Start(t) ==
  /\ Cell!Start(t)
  /\ UNCHANGED <<held, call, mine, ref, gone, answer>>

(* f is || value.take().unwrap_unchecked(), or returns Ok(captured value). *)
Produce(t) ==
  /\ Cell!Succeed(t)
  /\ held' = call[t].arg
  /\ call' = [call EXCEPT ![t].arg = Null]
  /\ UNCHANGED <<mine, ref, gone, answer>>

(* The function of try_insert is written here and cannot fail; a caller's  *)
(* may return Err or panic, and what it captured is dropped with it.       *)
Fail(t) ==
  /\ call[t].op = "get_or_try_init"
  /\ Cell!Fail(t)
  /\ gone' = gone \cup {call[t].arg}
  /\ call' = [call EXCEPT ![t] = IF phase'[t] = "idle" THEN Idle ELSE [@ EXCEPT !.arg = Null]]
  /\ answer' = [answer EXCEPT ![t] = "err"]
  /\ UNCHANGED <<held, mine, ref>>

(* The mutant that answers for the cell instead of for the value: full is  *)
(* Ok, whoever filled it.                                                  *)
WrongIsOk(t) == held # Null

(* `match value`: None is Ok(res), Some(value) is Err((res, value)).       *)
IsOk(t) == call[t].arg = Null

(* The mutant of InsertReturns that tries again until its own value is in. *)
WrongInsertReturns(t) ==
  /\ IsOk(t)
  /\ call[t].op = "try_insert"
  /\ Cell!Return(t)
  /\ answer' = [answer EXCEPT ![t] = "ok"]
  /\ ref' = [ref EXCEPT ![t] = held]
  /\ call' = [call EXCEPT ![t] = Idle]
  /\ UNCHANGED <<held, mine, gone>>

(* set and try_insert answer from what is left in their local, and give    *)
(* the value back; set does not keep the reference.                        *)
InsertReturns(t) ==
  /\ call[t].op = "try_insert"
  /\ Cell!Return(t)
  /\ answer' = [answer EXCEPT ![t] = IF IsOk(t) THEN "ok" ELSE "err"]
  /\ mine' = [mine EXCEPT ![t] = @ \cup (IF IsOk(t) THEN {} ELSE {call[t].arg})]
  /\ \E keep \in BOOLEAN : ref' = IF keep THEN [ref EXCEPT ![t] = held] ELSE ref
  /\ call' = [call EXCEPT ![t] = Idle]
  /\ UNCHANGED <<held, gone>>

(* get, wait, get_or_init and get_or_try_init; a function that was never   *)
(* called is dropped here, with what it captured.                          *)
GetReturns(t) ==
  /\ call[t].op \in {"get", "get_or_try_init"}
  /\ Cell!Return(t)
  /\ ref' = [ref EXCEPT ![t] = IF phase[t] = "failed" THEN @ ELSE held]
  /\ answer' = [answer EXCEPT ![t] = IF phase[t] = "failed" THEN @ ELSE "ok"]
  /\ gone' = gone \cup ({call[t].arg} \ {Null})
  /\ call' = [call EXCEPT ![t] = Idle]
  /\ UNCHANGED <<held, mine>>

(* External: the borrow of a caller ends.                                  *)
EndBorrow(t) ==
  /\ ref[t] # Null
  /\ ref' = [ref EXCEPT ![t] = Null]
  /\ UNCHANGED <<cell, held, call, mine, gone, answer>>

(* External: the borrow checker allows &mut self and self to nobody else.  *)
Exclusive == \A t \in Threads : call[t] = Idle /\ ref[t] = Null

(* The mutant of Take that marks the cell empty and leaves the value in it. *)
WrongTake(t) ==
  /\ Exclusive
  /\ Cell!Take
  /\ mine' = [mine EXCEPT ![t] = @ \cup ({held} \ {Null})]
  /\ UNCHANGED <<held, call, ref, gone, answer>>

(* take and into_inner: mem::take leaves OnceCell::new() in the place.     *)
Take(t) ==
  /\ Exclusive
  /\ Cell!Take
  /\ held' = Null
  /\ mine' = [mine EXCEPT ![t] = @ \cup ({held} \ {Null})]
  /\ UNCHANGED <<call, ref, gone, answer>>

(* *cell.get_mut().unwrap() = v drops the value that was there.            *)
GetMut(t) ==
  /\ Exclusive
  /\ held # Null
  /\ \E v \in mine[t] :
       /\ held' = v
       /\ mine' = [mine EXCEPT ![t] = @ \ {v}]
       /\ gone' = gone \cup {held}
  /\ UNCHANGED <<cell, call, ref, answer>>

Step(t) == Start(t) \/ Produce(t) \/ Fail(t) \/ InsertReturns(t) \/ GetReturns(t)

Next ==
  \E t \in Threads :
    \/ Step(t)
    \/ TryInsert(t) \/ GetOrTryInit(t) \/ Get(t)
    \/ Make(t) \/ EndBorrow(t) \/ Take(t) \/ GetMut(t)

Spec == Init /\ [][Next]_vars

(* Functions end, a call that can return does, and an empty cell that      *)
(* somebody tries to fill is tried: the fairness of OnceCellSpec, which    *)
(* the three implementations are shown to keep.                            *)
Fairness ==
  /\ \A t \in Threads : WF_vars(Produce(t) \/ Fail(t))
  /\ \A t \in Threads : WF_vars(InsertReturns(t) \/ GetReturns(t))
  /\ WF_vars(\E t \in Threads : Start(t))

FairSpec == Spec /\ Fairness

-----------------------------------------------------------------------------
(* What thread t owns, itself or in the method it is in, and what the cell *)
(* owns.                                                                   *)
OwnedBy(t) == mine[t] \cup ({call[t].arg} \ {Null})

Contents == {held} \ {Null}

(* A value of T has one owner: the cell, or one thread (itself or in its   *)
(* call), or it does not exist.  set hands a refused value back, and       *)
(* nothing is dropped twice or lost.                                       *)
OneOwner ==
  /\ \A v \in Values :
       v \in Contents \cup gone \/ \E t \in Threads : v \in OwnedBy(t)
  /\ Contents \cap gone = {}
  /\ \A t \in Threads :
       call[t].arg \notin mine[t] /\ OwnedBy(t) \cap (Contents \cup gone) = {}
  /\ \A t, u \in Threads : t # u => OwnedBy(t) \cap OwnedBy(u) = {}

(* The fact that unwrap_unchecked and get_unchecked stand on: a function   *)
(* that runs still has its value, the cell is full when a call reads it,   *)
(* and what a thread borrows stays in the cell.                            *)
NothingMissing ==
  /\ value # Null <=> held # Null
  /\ \A t \in Threads :
       /\ phase[t] = "running" => call[t].arg # Null
       /\ ref[t] # Null => held = ref[t]

(* try_insert(v) answers Ok exactly when v is what the cell holds, and     *)
(* otherwise the caller has v again; the answer comes from the local that  *)
(* the function moved out of, several steps of several threads earlier.    *)
SetAnswersForItsValue ==
  [][\A t \in Threads :
       call[t].op = "try_insert" /\ call'[t].op = "idle" =>
         LET v == call[t].given
         IN  /\ answer'[t] = "ok" <=> held' = v
             /\ answer'[t] = "err" <=> v \in mine'[t]]_vars

(* While the functions of others do not go on failing, set returns: it     *)
(* fills the cell or finds it full, and never waits for nobody.            *)
SetReturns ==
  (<>[][~ \E t \in Threads : Fail(t)]_vars) =>
    \A t \in Threads : call[t].op = "try_insert" ~> call[t].op = "idle"

=============================================================================
