------------------------------ MODULE OnceBox ------------------------------
(***************************************************************************)
(* race::OnceBox: an atomic pointer, null while the cell is empty, that    *)
(* owns the box it points to.  The model is about ownership: which code    *)
(* holds each box as a Box, as a raw pointer or in a cell, who may still   *)
(* use a reference into it, and who sees its contents initialized.         *)
(*                                                                         *)
(* A freed address can be allocated again.  Loads are weak as in RaceCell: *)
(* `aware` are the threads that can no longer load an older pointer.       *)
(***************************************************************************)
EXTENDS Naturals, FiniteSets, Sequences, SequencesExt

CONSTANTS
  Threads,
  Cells,       \* the OnceBoxes that may exist at a time
  Boxes,       \* the addresses of the allocator
  Null,        \* ptr::null_mut(), and "no call"
  MaxClosures  \* how many closures run at a time, those of one thread nested

(* The operands of a compare_exchange that set or get_or_try_init makes.   *)
Calls == [op : {"set", "init"}, cell : Cells, box : Boxes]

ASSUME NullAssumption == Null \notin Boxes \cup Calls /\ Threads \cap Cells = {}
ASSUME MaxClosuresAssumption == MaxClosures \in Nat

VARIABLES
  inner,      \* OnceBox::inner of each cell
  cells,      \* the cells that exist
  allocated,  \* the boxes that are not free
  closures,   \* the cells whose closures each thread is running, innermost last
  call,       \* what its compare_exchange is about to store, and where
  owned,      \* the boxes its program holds
  refs,       \* the references it holds: <<cell, box>>
  ready,      \* who sees the contents of each box, the pointer in a cell included
  aware

vars == <<inner, cells, allocated, closures, call, owned, refs, ready, aware>>
-----------------------------------------------------------------------------
(* Memory orderings: get, and compare_exchange, success and failure. *)
WrongGetOrdering == "Relaxed"
GetOrdering == "Acquire"
StoreOrdering == "Release"
FailureOrdering == "Acquire"

Init ==
  /\ inner = [c \in Cells |-> Null]
  /\ cells = {}
  /\ allocated = {}
  /\ closures = [t \in Threads |-> <<>>]
  /\ call = [t \in Threads |-> Null]
  /\ owned = [t \in Threads |-> {}]
  /\ refs = [t \in Threads |-> {}]
  /\ ready = [b \in Boxes |-> {}]
  /\ aware = [c \in Cells |-> {}]

(* t runs code of the program: its own, or that of a closure. *)
InProgram(t) == call[t] = Null

Owns(t, b) == owned' = [owned EXCEPT ![t] = @ \cup {b}]
Disowns(t, b) == owned' = [owned EXCEPT ![t] = @ \ {b}]
Borrows(t, c, b) == refs' = [refs EXCEPT ![t] = @ \cup {<<c, b>>}]

(* The program makes a box, drops one, and lets go of a reference. *)
NewBox(t, b) ==
  /\ InProgram(t) /\ b \notin allocated
  /\ allocated' = allocated \cup {b}
  /\ Owns(t, b)
  /\ ready' = [ready EXCEPT ![b] = {t}]
  /\ UNCHANGED <<inner, cells, closures, call, refs, aware>>

DropBox(t, b) ==
  /\ InProgram(t) /\ b \in owned[t]
  /\ allocated' = allocated \ {b}
  /\ Disowns(t, b)
  /\ UNCHANGED <<inner, cells, closures, call, refs, ready, aware>>

EndBorrow(t, r) ==
  /\ InProgram(t) /\ r \in refs[t]
  /\ refs' = [refs EXCEPT ![t] = @ \ {r}]
  /\ UNCHANGED <<inner, cells, allocated, closures, call, owned, ready, aware>>

(* A cell comes to be; sharing it synchronizes the threads. *)
Creates(c, b) ==
  /\ c \notin cells
  /\ cells' = cells \cup {c}
  /\ inner' = [inner EXCEPT ![c] = b]
  /\ aware' = [aware EXCEPT ![c] = Threads]
  /\ ready' = IF b = Null THEN ready ELSE [ready EXCEPT ![b] = Threads \cup {c}]

New(t, c) ==
  /\ InProgram(t)
  /\ Creates(c, Null)
  /\ UNCHANGED <<allocated, closures, call, owned, refs>>

WithValue(t, c, b) ==
  /\ InProgram(t) /\ b \in owned[t]
  /\ Disowns(t, b)
  /\ Creates(c, b)
  /\ UNCHANGED <<allocated, closures, call, refs>>

(* Drop::drop has &mut self: no call and no reference is left. *)
InUse(c) ==
  \E t \in Threads :
    \/ call[t] # Null /\ call[t].cell = c
    \/ c \in ToSet(closures[t])
    \/ \E r \in refs[t] : r[1] = c

WrongFreed(c) == {}
Freed(c) == {inner[c]}

Drop(c) ==
  /\ c \in cells /\ ~InUse(c)
  /\ cells' = cells \ {c}
  /\ inner' = [inner EXCEPT ![c] = Null]
  /\ allocated' = allocated \ Freed(c)
  /\ UNCHANGED <<closures, call, owned, refs, ready, aware>>
-----------------------------------------------------------------------------
(* t reads the pointer in c, and is done when it is not null. *)
Reads(t, c, ord) ==
  /\ inner[c] # Null
  /\ aware' = [aware EXCEPT ![c] = @ \cup {t}]
  /\ ready' = IF ord = "Acquire" /\ c \in ready[inner[c]]
              THEN [ready EXCEPT ![inner[c]] = @ \cup {t}]
              ELSE ready

Finds(t, c) == Reads(t, c, GetOrdering)

Misses(t, c) == inner[c] = Null \/ t \notin aware[c]

Get(t, c) ==
  /\ InProgram(t) /\ c \in cells
  /\ Finds(t, c)
  /\ Borrows(t, c, inner[c])
  /\ UNCHANGED <<inner, cells, allocated, closures, call, owned>>

(* clone of a cell in which get has found r[2]: the value is cloned into a *)
(* new box b, in a new cell d. The clone of an empty cell is New.          *)
Cloned(r, b) == b

Clone(t, r, d, b) ==
  /\ InProgram(t) /\ r \in refs[t]
  /\ b \notin allocated
  /\ allocated' = allocated \cup {b}
  /\ Creates(d, Cloned(r, b))
  /\ UNCHANGED <<closures, call, owned, refs>>

(* The fast path of get_or_try_init is Get. *)
GetOrTryInit(t, c) ==
  /\ InProgram(t) /\ c \in cells
  /\ FoldFunction(LAMBDA s, n : Len(s) + n, 0, closures) < MaxClosures
  /\ Misses(t, c)
  /\ closures' = [closures EXCEPT ![t] = Append(@, c)]
  /\ UNCHANGED <<inner, cells, allocated, call, owned, refs, ready, aware>>

ClosureFails(t) ==
  /\ InProgram(t) /\ closures[t] # <<>>
  /\ closures' = [closures EXCEPT ![t] = Front(@)]
  /\ UNCHANGED <<inner, cells, allocated, call, owned, refs, ready, aware>>

(* Box::into_raw: from here on t holds a raw pointer. *)
ClosureSucceeds(t, b) ==
  /\ InProgram(t) /\ closures[t] # <<>> /\ b \in owned[t]
  /\ Disowns(t, b)
  /\ call' = [call EXCEPT ![t] = [op |-> "init", cell |-> Last(closures[t]), box |-> b]]
  /\ closures' = [closures EXCEPT ![t] = Front(@)]
  /\ UNCHANGED <<inner, cells, allocated, refs, ready, aware>>

Set(t, c, b) ==
  /\ InProgram(t) /\ c \in cells /\ b \in owned[t]
  /\ Disowns(t, b)
  /\ call' = [call EXCEPT ![t] = [op |-> "set", cell |-> c, box |-> b]]
  /\ UNCHANGED <<inner, cells, allocated, closures, refs, ready, aware>>

(* compare_exchange(null, ..) succeeds. *)
Win(t) ==
  /\ call[t] # Null
  /\ LET c == call[t].cell
         b == call[t].box
     IN  /\ inner[c] = Null
         /\ inner' = [inner EXCEPT ![c] = b]
         /\ aware' = [aware EXCEPT ![c] = {t}]
         /\ ready' = IF StoreOrdering = "Release" /\ t \in ready[b]
                     THEN [ready EXCEPT ![b] = @ \cup {c}]
                     ELSE ready
         /\ IF call[t].op = "init" THEN Borrows(t, c, b) ELSE UNCHANGED refs
  /\ call' = [call EXCEPT ![t] = Null]
  /\ UNCHANGED <<cells, allocated, closures, owned>>

(* It fails: set hands the box back, ... *)
SetLoses(t) ==
  /\ call[t] # Null /\ call[t].op = "set"
  /\ Reads(t, call[t].cell, FailureOrdering)
  /\ Owns(t, call[t].box)
  /\ call' = [call EXCEPT ![t] = Null]
  /\ UNCHANGED <<inner, cells, allocated, closures, refs>>

(* ... init drops its own and returns a reference to the one in the cell. *)
WrongLoser(t) == inner[call[t].cell]
Loser(t) == call[t].box

InitLoses(t) ==
  /\ call[t] # Null /\ call[t].op = "init"
  /\ Reads(t, call[t].cell, FailureOrdering)
  /\ allocated' = allocated \ {Loser(t)}
  /\ Borrows(t, call[t].cell, inner[call[t].cell])
  /\ call' = [call EXCEPT ![t] = Null]
  /\ UNCHANGED <<inner, cells, closures, owned>>
-----------------------------------------------------------------------------
Next ==
  \/ \E t \in Threads :
       \/ \E b \in Boxes : NewBox(t, b) \/ DropBox(t, b) \/ ClosureSucceeds(t, b)
       \/ \E r \in refs[t] :
            EndBorrow(t, r) \/ \E d \in Cells, b \in Boxes : Clone(t, r, d, b)
       \/ \E c \in Cells :
            \/ New(t, c) \/ Get(t, c) \/ GetOrTryInit(t, c)
            \/ \E b \in Boxes : WithValue(t, c, b) \/ Set(t, c, b)
       \/ ClosureFails(t) \/ Win(t) \/ SetLoses(t) \/ InitLoses(t)
  \/ \E c \in Cells : Drop(c)

Spec == Init /\ [][Next]_vars
-----------------------------------------------------------------------------
\* Every variable has the type of what it models, and closures and references are of
\* cells that exist.
TypeOK ==
  /\ inner \in [Cells -> Boxes \cup {Null}]
  /\ cells \subseteq Cells
  /\ allocated \subseteq Boxes
  /\ closures \in [Threads -> Seq(Cells)]
  /\ \A t \in Threads : ToSet(closures[t]) \subseteq cells
  /\ call \in [Threads -> Calls \cup {Null}]
  /\ owned \in [Threads -> SUBSET Boxes]
  /\ refs \in [Threads -> SUBSET (cells \X Boxes)]
  /\ ready \in [Boxes -> SUBSET (Threads \cup Cells)]
  /\ aware \in [Cells -> SUBSET Threads]

Owners(b) ==
  {c \in Cells : inner[c] = b} \cup
  {<<t, "program">> : t \in {u \in Threads : b \in owned[u]}} \cup
  {<<t, "call">> : t \in {u \in Threads : call[u] # Null /\ call[u].box = b}}

\* Every box that is not free has one owner, a free box none: the loser's box is handed
\* back or freed, once, a clone has a box of its own, and no call leaks.
OneOwner ==
  \A b \in Boxes : Cardinality(Owners(b)) = IF b \in allocated THEN 1 ELSE 0

\* A reference points to the box that is in its cell, and that box is not free: no use
\* after free, and all references into a cell agree.
RefsAreAlive ==
  \A t \in Threads : \A r \in refs[t] : r[2] \in allocated /\ inner[r[1]] = r[2]

\* Who holds a reference sees the contents of the box initialized.
ContentsAreInitialized == \A t \in Threads : \A r \in refs[t] : t \in ready[r[2]]
=============================================================================
