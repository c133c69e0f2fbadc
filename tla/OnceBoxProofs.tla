--------------------------- MODULE OnceBoxProofs ---------------------------
(* Theorems about OnceBox for any sets of threads, cells and addresses,    *)
(* and however many closures run.                                          *)
EXTENDS OnceBox, FiniteSetTheorems, TLAPS
-----------------------------------------------------------------------------
(* The closures of a thread. *)

LEMMA AppendsClosure ==
  ASSUME NEW s \in Seq(Cells), NEW c \in Cells
  PROVE  Append(s, c) \in Seq(Cells) /\ ToSet(Append(s, c)) \subseteq ToSet(s) \cup {c}
<1>1. /\ Append(s, c) \in Seq(Cells) /\ DOMAIN Append(s, c) = 1..(Len(s) + 1)
      /\ Append(s, c)[Len(s) + 1] = c
      /\ \A i \in 1..Len(s) : Append(s, c)[i] = s[i]
  OBVIOUS
<1>2. ASSUME NEW i \in 1..(Len(s) + 1), i # Len(s) + 1
      PROVE  i \in DOMAIN s
  BY <1>2
<1>3. QED
  BY <1>1, <1>2 DEF ToSet

LEMMA EndsClosure ==
  ASSUME NEW s \in Seq(Cells), s # <<>>
  PROVE  /\ Front(s) \in Seq(Cells) /\ ToSet(Front(s)) \subseteq ToSet(s)
         /\ Last(s) \in ToSet(s) /\ Last(s) \in Cells
BY DEF ToSet, Front, Last

(* A thread that gets one more box or reference. *)
LEMMA OneMore ==
  ASSUME NEW S, NEW f \in [Threads -> SUBSET S], NEW t \in Threads, NEW x \in S
  PROVE  [f EXCEPT ![t] = @ \cup {x}] \in [Threads -> SUBSET S]
OBVIOUS
-----------------------------------------------------------------------------
(* Types, and that nothing is in a cell that does not exist, or on its way *)
(* there.                                                                  *)

CellsOK ==
  /\ \A c \in Cells : inner[c] # Null => c \in cells
  /\ \A t \in Threads : call[t] # Null => call[t].cell \in cells

Types == TypeOK /\ CellsOK

LEMMA InitTypes == Init => Types
<1> SUFFICES ASSUME Init
             PROVE  Types
  OBVIOUS
<1>1. \A t \in Threads : closures[t] = <<>> /\ ToSet(closures[t]) = {}
  BY DEF Init, ToSet
<1>2. TypeOK
  BY <1>1 DEF Init, TypeOK
<1>3. QED
  BY <1>2 DEF Init, Types, CellsOK

(* What is true of a cell that does not exist yet. *)
LEMMA CreatesTypes ==
  ASSUME Types, NEW c \in Cells, NEW b \in Boxes \cup {Null}, Creates(c, b)
  PROVE  /\ inner' \in [Cells -> Boxes \cup {Null}] /\ cells' \subseteq Cells
         /\ cells \subseteq cells' /\ c \in cells'
         /\ ready' \in [Boxes -> SUBSET (Threads \cup Cells)]
         /\ aware' \in [Cells -> SUBSET Threads]
         /\ inner[c] = Null /\ inner'[c] = b /\ \A d \in Cells \ {c} : inner'[d] = inner[d]
         /\ \A t \in Threads : refs[t] \subseteq cells' \X Boxes
BY DEF Types, TypeOK, CellsOK, Creates

LEMMA ReadsTypes ==
  ASSUME Types, NEW t \in Threads, NEW c \in Cells, NEW ord, Reads(t, c, ord)
  PROVE  /\ inner[c] \in Boxes
         /\ ready' \in [Boxes -> SUBSET (Threads \cup Cells)]
         /\ aware' \in [Cells -> SUBSET Threads]
BY DEF Types, TypeOK, Reads

LEMMA NextTypes == Types /\ [Next]_vars => Types'
<1> SUFFICES ASSUME Types, [Next]_vars
             PROVE  Types'
  OBVIOUS
<1> USE NullAssumption DEF Types, TypeOK, CellsOK
<1>1. ASSUME NEW t \in Threads, NEW b \in Boxes, NewBox(t, b)
      PROVE  Types'
  BY <1>1 DEF NewBox, Owns
<1>2. ASSUME NEW t \in Threads, NEW b \in Boxes, DropBox(t, b)
      PROVE  Types'
  BY <1>2 DEF DropBox, Disowns
<1>3. ASSUME NEW t \in Threads, NEW b \in Boxes, ClosureSucceeds(t, b)
      PROVE  Types'
  <2>1. /\ Front(closures[t]) \in Seq(Cells) /\ ToSet(Front(closures[t])) \subseteq cells
        /\ Last(closures[t]) \in cells
    BY <1>3, EndsClosure DEF ClosureSucceeds
  <2>2. [op |-> "init", cell |-> Last(closures[t]), box |-> b] \in Calls
    BY <2>1 DEF Calls
  <2>3. closures' \in [Threads -> Seq(Cells)] /\ \A u \in Threads : ToSet(closures'[u]) \subseteq cells
    BY <1>3, <2>1 DEF ClosureSucceeds
  <2>4. call' \in [Threads -> Calls \cup {Null}]
    BY <1>3, <2>2 DEF ClosureSucceeds
  <2>5. \A u \in Threads : call'[u] # Null => call'[u].cell \in cells
    BY <1>3, <2>1, <2>2 DEF ClosureSucceeds
  <2>6. QED
    BY <1>3, <2>3, <2>4, <2>5 DEF ClosureSucceeds, Disowns
<1>4. ASSUME NEW t \in Threads, NEW r \in refs[t], EndBorrow(t, r)
      PROVE  Types'
  BY <1>4 DEF EndBorrow
<1>5. ASSUME NEW t \in Threads, NEW r \in refs[t], NEW d \in Cells, NEW b \in Boxes,
             Clone(t, r, d, b)
      PROVE  Types'
  <2>1. Creates(d, b)
    BY <1>5 DEF Clone, Cloned
  <2>2. QED
    BY <1>5, <2>1, CreatesTypes DEF Clone
<1>6. ASSUME NEW t \in Threads, NEW c \in Cells, New(t, c)
      PROVE  Types'
  <2>1. Creates(c, Null)
    BY <1>6 DEF New
  <2>2. QED
    BY <1>6, <2>1, CreatesTypes DEF New
<1>7. ASSUME NEW t \in Threads, NEW c \in Cells, Get(t, c)
      PROVE  Types'
  <2>1. Reads(t, c, GetOrdering) /\ c \in cells
    BY <1>7 DEF Get, Finds
  <2>2. refs' \in [Threads -> SUBSET (cells \X Boxes)]
    BY <1>7, <2>1, ReadsTypes DEF Get, Borrows
  <2>3. QED
    BY <1>7, <2>1, <2>2, ReadsTypes DEF Get
<1>8. ASSUME NEW t \in Threads, NEW c \in Cells, GetOrTryInit(t, c)
      PROVE  Types'
  <2>1. closures' = [closures EXCEPT ![t] = Append(@, c)] /\ c \in cells
        /\ UNCHANGED <<inner, cells, allocated, call, owned, refs, ready, aware>>
    BY <1>8 DEF GetOrTryInit
  <2>2. Append(closures[t], c) \in Seq(Cells) /\ ToSet(Append(closures[t], c)) \subseteq cells
    BY <2>1, AppendsClosure
  <2>3. closures' \in [Threads -> Seq(Cells)] /\ \A u \in Threads : ToSet(closures'[u]) \subseteq cells
    BY <2>1, <2>2
  <2>4. QED
    BY <2>1, <2>3
<1>9. ASSUME NEW t \in Threads, NEW c \in Cells, NEW b \in Boxes, WithValue(t, c, b)
      PROVE  Types'
  <2>1. Creates(c, b)
    BY <1>9 DEF WithValue
  <2>2. QED
    BY <1>9, <2>1, CreatesTypes DEF WithValue, Disowns
<1>10. ASSUME NEW t \in Threads, NEW c \in Cells, NEW b \in Boxes, Set(t, c, b)
       PROVE  Types'
  <2>1. [op |-> "set", cell |-> c, box |-> b] \in Calls
    BY DEF Calls
  <2>2. call' \in [Threads -> Calls \cup {Null}]
    BY <1>10, <2>1 DEF Set
  <2>3. \A u \in Threads : call'[u] # Null => call'[u].cell \in cells
    BY <1>10 DEF Set
  <2>4. QED
    BY <1>10, <2>2, <2>3 DEF Set, Disowns
<1>11. ASSUME NEW t \in Threads, ClosureFails(t)
       PROVE  Types'
  <2>1. Front(closures[t]) \in Seq(Cells) /\ ToSet(Front(closures[t])) \subseteq cells
    BY <1>11, EndsClosure DEF ClosureFails
  <2>2. closures' \in [Threads -> Seq(Cells)] /\ \A u \in Threads : ToSet(closures'[u]) \subseteq cells
    BY <1>11, <2>1 DEF ClosureFails
  <2>3. QED
    BY <1>11, <2>2 DEF ClosureFails
<1>12. ASSUME NEW t \in Threads, Win(t)
       PROVE  Types'
  <2>1. /\ call[t].cell \in cells /\ call[t].box \in Boxes
        /\ inner' = [inner EXCEPT ![call[t].cell] = call[t].box]
        /\ call' = [call EXCEPT ![t] = Null]
    BY <1>12 DEF Win, Calls
  <2>2. inner' \in [Cells -> Boxes \cup {Null}] /\ aware' \in [Cells -> SUBSET Threads]
    BY <1>12, <2>1 DEF Win
  <2>3. ready' \in [Boxes -> SUBSET (Threads \cup Cells)]
    BY <1>12, <2>1 DEF Win
  <2>4. refs' = refs \/ refs' = [refs EXCEPT ![t] = @ \cup {<<call[t].cell, call[t].box>>}]
    BY <1>12 DEF Win, Borrows
  <2>5. refs' \in [Threads -> SUBSET (cells \X Boxes)]
    <3>1. <<call[t].cell, call[t].box>> \in cells \X Boxes
      BY <2>1
    <3>2. QED
      BY <2>4, <3>1, OneMore
  <2>6. \A c \in Cells : inner'[c] # Null => c \in cells
    BY <2>1
  <2>7. UNCHANGED <<cells, allocated, closures, owned>>
    BY <1>12 DEF Win
  <2>8. /\ call' \in [Threads -> Calls \cup {Null}]
        /\ \A u \in Threads : call'[u] # Null => call'[u].cell \in cells
    BY <2>1
  <2>9. QED
    BY <2>2, <2>3, <2>5, <2>6, <2>7, <2>8
<1>13. ASSUME NEW t \in Threads, SetLoses(t)
       PROVE  Types'
  <2>1. call[t].cell \in Cells /\ call[t].box \in Boxes
    BY <1>13 DEF SetLoses, Calls
  <2>2. QED
    BY <1>13, <2>1, ReadsTypes DEF SetLoses, Owns
<1>14. ASSUME NEW t \in Threads, InitLoses(t)
       PROVE  Types'
  <2>1. call[t].cell \in cells /\ call[t].box \in Boxes
    BY <1>14 DEF InitLoses, Calls
  <2>2. inner[call[t].cell] \in Boxes
    BY <1>14, <2>1, ReadsTypes DEF InitLoses
  <2>3. refs' \in [Threads -> SUBSET (cells \X Boxes)]
    BY <1>14, <2>1, <2>2 DEF InitLoses, Borrows
  <2>4. QED
    BY <1>14, <2>1, <2>3, ReadsTypes DEF InitLoses
(* Nothing of a cell that is dropped is in use. *)
<1>15. ASSUME NEW c \in Cells, Drop(c)
       PROVE  Types'
  <2>1. \A t \in Threads : /\ call[t] # Null => call[t].cell \in cells \ {c}
                           /\ ToSet(closures[t]) \subseteq cells \ {c}
                           /\ \A r \in refs[t] : r[1] # c
    BY <1>15 DEF Drop, InUse
  <2>2. refs \in [Threads -> SUBSET ((cells \ {c}) \X Boxes)]
    BY <2>1
  <2>3. QED
    BY <1>15, <2>1, <2>2 DEF Drop
<1>16. CASE UNCHANGED vars
  BY <1>16 DEF vars
<1>17. QED
  BY <1>1, <1>2, <1>3, <1>4, <1>5, <1>6, <1>7, <1>8, <1>9, <1>10, <1>11, <1>12, <1>13, <1>14,
     <1>15, <1>16 DEF Next
-----------------------------------------------------------------------------
(* Ownership.  Besides the cells, the program of a thread may keep a box,  *)
(* or one of its calls may be about to store it.                           *)

Keeps(t, b) == b \in owned[t]
Stores(t, b) == call[t] # Null /\ call[t].box = b

OwnerOK ==
  \A b \in Boxes :
    /\ b \in allocated <=> \/ \E c \in Cells : inner[c] = b
                           \/ \E t \in Threads : Keeps(t, b) \/ Stores(t, b)
    /\ \A c, d \in Cells : inner[c] = b /\ inner[d] = b => c = d
    /\ \A c \in Cells, t \in Threads : ~(inner[c] = b /\ (Keeps(t, b) \/ Stores(t, b)))
    /\ \A t, u \in Threads :
         (Keeps(t, b) \/ Stores(t, b)) /\ (Keeps(u, b) \/ Stores(u, b)) => t = u
    /\ \A t \in Threads : ~(Keeps(t, b) /\ Stores(t, b))

OwnerInv == Types /\ OwnerOK

LEMMA NextOwner == OwnerInv /\ [Next]_vars => OwnerInv'
<1> SUFFICES ASSUME OwnerInv, [Next]_vars
             PROVE  OwnerOK'
  BY NextTypes DEF OwnerInv
<1> USE DEF Keeps, Stores
<1>t. /\ Types /\ OwnerOK /\ Null \notin Boxes /\ Null \notin Calls
      /\ inner \in [Cells -> Boxes \cup {Null}]
      /\ call \in [Threads -> Calls \cup {Null}]
      /\ owned \in [Threads -> SUBSET Boxes]
  BY NullAssumption DEF OwnerInv, Types, TypeOK
<1>1. ASSUME NEW t \in Threads, NEW b \in Boxes, NewBox(t, b)
      PROVE  OwnerOK'
  <2>1. /\ b \notin allocated /\ allocated' = allocated \cup {b}
        /\ \A u \in Threads : owned'[u] = IF u = t THEN owned[t] \cup {b} ELSE owned[u]
        /\ inner' = inner /\ call' = call
    BY <1>1, <1>t DEF NewBox, Owns
  <2>2. QED
    BY <1>t, <2>1 DEF OwnerOK
<1>2. ASSUME NEW t \in Threads, NEW b \in Boxes, DropBox(t, b)
      PROVE  OwnerOK'
  <2>1. /\ b \in owned[t] /\ allocated' = allocated \ {b}
        /\ \A u \in Threads : owned'[u] = IF u = t THEN owned[t] \ {b} ELSE owned[u]
        /\ inner' = inner /\ call' = call
    BY <1>2, <1>t DEF DropBox, Disowns
  <2>2. QED
    BY <1>t, <2>1 DEF OwnerOK
(* The box moves from the program into the call.                           *)
<1>3. ASSUME NEW t \in Threads, NEW b \in Boxes, NEW k \in Calls, k.box = b,
             b \in owned[t], InProgram(t), Disowns(t, b), call' = [call EXCEPT ![t] = k],
             UNCHANGED <<inner, allocated>>
      PROVE  OwnerOK'
  <2>1. /\ k # Null /\ call[t] = Null
        /\ call'[t] = k /\ \A u \in Threads \ {t} : call'[u] = call[u]
        /\ \A u \in Threads : owned'[u] = IF u = t THEN owned[t] \ {b} ELSE owned[u]
    BY <1>3, <1>t DEF InProgram, Disowns
  <2>2. QED
    BY <1>3, <1>t, <2>1 DEF OwnerOK
<1>4. ASSUME NEW t \in Threads, NEW b \in Boxes, ClosureSucceeds(t, b)
      PROVE  OwnerOK'
  <2>1. Last(closures[t]) \in Cells
    BY <1>t, <1>4, EndsClosure DEF ClosureSucceeds, Types, TypeOK
  <2>2. PICK k \in Calls : k = [op |-> "init", cell |-> Last(closures[t]), box |-> b]
    BY <2>1 DEF Calls
  <2>3. QED
    BY <1>3, <1>4, <2>2 DEF ClosureSucceeds
<1>5. ASSUME NEW t \in Threads, NEW c \in Cells, NEW b \in Boxes, Set(t, c, b)
      PROVE  OwnerOK'
  <2>1. PICK k \in Calls : k = [op |-> "set", cell |-> c, box |-> b]
    BY DEF Calls
  <2>2. QED
    BY <1>3, <1>5, <2>1 DEF Set
<1>6. ASSUME NEW t \in Threads, NEW r \in refs[t], NEW d \in Cells, NEW b \in Boxes,
             Clone(t, r, d, b)
      PROVE  OwnerOK'
  <2>1. Creates(d, b)
    BY <1>6 DEF Clone, Cloned
  <2>2. /\ inner[d] = Null /\ inner'[d] = b
        /\ \A c \in Cells \ {d} : inner'[c] = inner[c]
    BY <1>t, <2>1, CreatesTypes
  <2>3. /\ b \notin allocated /\ allocated' = allocated \cup {b}
        /\ call' = call /\ owned' = owned
    BY <1>6 DEF Clone
  <2>4. QED
    BY <1>t, <2>2, <2>3 DEF OwnerOK
<1>7. ASSUME NEW t \in Threads, NEW c \in Cells, New(t, c)
      PROVE  OwnerOK'
  <2>1. Creates(c, Null) /\ UNCHANGED <<allocated, call, owned>>
    BY <1>7 DEF New
  <2>2. inner[c] = Null /\ inner'[c] = Null /\ \A d \in Cells \ {c} : inner'[d] = inner[d]
    BY <1>t, <2>1, CreatesTypes
  <2>3. \A d \in Cells : inner'[d] = inner[d]
    BY <2>2
  <2>4. QED
    BY <1>t, <2>1, <2>3 DEF OwnerOK
<1>8. ASSUME NEW t \in Threads, NEW c \in Cells, NEW b \in Boxes, WithValue(t, c, b)
      PROVE  OwnerOK'
  <2>1. Creates(c, b)
    BY <1>8 DEF WithValue
  <2>2. /\ inner[c] = Null /\ inner'[c] = b
        /\ \A d \in Cells \ {c} : inner'[d] = inner[d]
    BY <1>t, <2>1, CreatesTypes
  <2>3. /\ b \in owned[t] /\ allocated' = allocated /\ call' = call
        /\ \A u \in Threads : owned'[u] = IF u = t THEN owned[t] \ {b} ELSE owned[u]
    BY <1>8, <1>t DEF WithValue, Disowns
  <2>4. QED
    BY <1>t, <2>2, <2>3 DEF OwnerOK
<1>9. ASSUME NEW t \in Threads, Win(t)
      PROVE  OwnerOK'
  <2>1. call[t] # Null /\ call[t].cell \in Cells /\ call[t].box \in Boxes
    BY <1>9, <1>t DEF Win, Calls
  <2>2. inner[call[t].cell] = Null /\ inner' = [inner EXCEPT ![call[t].cell] = call[t].box]
        /\ call' = [call EXCEPT ![t] = Null] /\ owned' = owned /\ allocated' = allocated
    BY <1>9 DEF Win
  <2>3. PICK c \in Cells, b \in Boxes : c = call[t].cell /\ b = call[t].box
    BY <2>1
  <2>4. inner[c] = Null /\ inner'[c] = b /\ \A d \in Cells \ {c} : inner'[d] = inner[d]
    BY <1>t, <2>2, <2>3
  <2>5. call'[t] = Null /\ \A u \in Threads \ {t} : call'[u] = call[u]
    BY <1>t, <2>2
  <2>6. Stores(t, b)
    BY <2>1, <2>3
  <2>7. QED
    BY <1>t, <2>2, <2>4, <2>5, <2>6 DEF OwnerOK
(* ... and back,                                                           *)
<1>10. ASSUME NEW t \in Threads, SetLoses(t)
      PROVE  OwnerOK'
  <2>1. call[t] # Null /\ call[t].box \in Boxes /\ inner' = inner /\ allocated' = allocated
    BY <1>10, <1>t DEF SetLoses, Calls
  <2>2. PICK b \in Boxes : b = call[t].box
    BY <2>1
  <2>3. \A u \in Threads : owned'[u] = IF u = t THEN owned[t] \cup {b} ELSE owned[u]
    BY <1>10, <1>t, <2>2 DEF SetLoses, Owns
  <2>4. call'[t] = Null /\ \A u \in Threads \ {t} : call'[u] = call[u]
    BY <1>10, <1>t DEF SetLoses
  <2>5. Stores(t, b)
    BY <2>1, <2>2
  <2>6. QED
    BY <1>t, <2>1, <2>3, <2>4, <2>5 DEF OwnerOK
(* ... or nowhere: it is freed.                                            *)
<1>11. ASSUME NEW t \in Threads, InitLoses(t)
      PROVE  OwnerOK'
  <2>1. call[t] # Null /\ call[t].box \in Boxes /\ inner' = inner /\ owned' = owned
    BY <1>11, <1>t DEF InitLoses, Calls
  <2>2. PICK b \in Boxes : b = call[t].box
    BY <2>1
  <2>3. allocated' = allocated \ {b}
    BY <1>11, <2>2 DEF InitLoses, Loser
  <2>4. call'[t] = Null /\ \A u \in Threads \ {t} : call'[u] = call[u]
    BY <1>11, <1>t DEF InitLoses
  <2>5. Stores(t, b)
    BY <2>1, <2>2
  <2>6. QED
    BY <1>t, <2>1, <2>3, <2>4, <2>5 DEF OwnerOK
<1>12. ASSUME NEW c \in Cells, Drop(c)
       PROVE  OwnerOK'
  <2>1. allocated' = allocated \ {inner[c]} /\ call' = call /\ owned' = owned
    BY <1>12 DEF Drop, Freed
  <2>2. inner'[c] = Null /\ \A d \in Cells \ {c} : inner'[d] = inner[d]
    BY <1>12, <1>t DEF Drop
  <2>3. QED
    BY <1>t, <2>1, <2>2 DEF OwnerOK
<1>13. ASSUME UNCHANGED <<inner, allocated, call, owned>>
       PROVE  OwnerOK'
  BY <1>t, <1>13 DEF OwnerOK
<1>14. ASSUME NEW t \in Threads, NEW c \in Cells,
              Get(t, c) \/ GetOrTryInit(t, c)
       PROVE  UNCHANGED <<inner, allocated, call, owned>>
  BY <1>14 DEF Get, GetOrTryInit
<1>15. ASSUME NEW t \in Threads, ClosureFails(t) \/ \E r \in refs[t] : EndBorrow(t, r)
       PROVE  UNCHANGED <<inner, allocated, call, owned>>
  BY <1>15 DEF ClosureFails, EndBorrow
<1>16. CASE UNCHANGED vars
  BY <1>13, <1>16 DEF vars
<1>17. QED
  BY <1>1, <1>2, <1>4, <1>5, <1>6, <1>7, <1>8, <1>9, <1>10, <1>11, <1>12, <1>13, <1>14, <1>15, <1>16
     DEF Next

THEOREM OwnerInvariant == Spec => []OwnerInv
<1>1. Init => OwnerInv
  BY InitTypes, NullAssumption DEF Init, OwnerInv, OwnerOK, Keeps, Stores
<1>2. QED
  BY <1>1, NextOwner, PTL DEF Spec

(* Every variable keeps its type, and closures and references are of cells *)
(* that exist.                                                             *)
THEOREM TypeCorrect == Spec => []TypeOK
<1>1. OwnerInv => TypeOK
  BY DEF OwnerInv, Types
<1>2. QED
  BY <1>1, OwnerInvariant, PTL

(* Every box is in one hand, or it is free: into_raw and from_raw are      *)
(* paired, so the loser of a race neither leaks nor frees twice.           *)
THEOREM BoxesHaveOneOwner == Spec => []OneOwner
<1>1. ASSUME OwnerInv, NEW b \in Boxes
      PROVE  Cardinality(Owners(b)) = IF b \in allocated THEN 1 ELSE 0
  <2> USE <1>1 DEF OwnerInv, OwnerOK
  <2>1. \A o : o \in Owners(b) <=> \/ \E c \in Cells : inner[c] = b /\ o = c
                                   \/ \E t \in Threads : Keeps(t, b) /\ o = <<t, "program">>
                                   \/ \E t \in Threads : Stores(t, b) /\ o = <<t, "call">>
    BY DEF Owners, Keeps, Stores
  <2>2. CASE b \in allocated
    <3>1. PICK o : o \in Owners(b)
      BY <2>1, <2>2
    <3>2. \A p \in Owners(b) : p = o
      BY <2>1, <3>1
    <3>3. Owners(b) = {o}
      BY <3>1, <3>2
    <3>4. QED
      BY <2>2, <3>3, FS_Singleton
  <2>3. CASE b \notin allocated
    <3>1. Owners(b) = {}
      BY <2>1, <2>3
    <3>2. QED
      BY <2>3, <3>1, FS_EmptySet
  <2>4. QED
    BY <2>2, <2>3
<1>2. OwnerInv => OneOwner
  BY <1>1 DEF OneOwner
<1>3. QED
  BY <1>2, OwnerInvariant, PTL
-----------------------------------------------------------------------------
(* References. *)

(* A box stays in its cell as long as there are references: compare_exchange *)
(* replaces only null, and drop has the cell to itself.                      *)
LEMMA NextRefs == OwnerInv /\ RefsAreAlive /\ [Next]_vars => RefsAreAlive'
<1> SUFFICES ASSUME OwnerInv, OwnerInv', RefsAreAlive, [Next]_vars
             PROVE  RefsAreAlive'
  BY NextOwner
<1> DEFINE Points == \A t \in Threads : \A r \in refs[t] : inner[r[1]] = r[2]
<1>t. /\ Types /\ Null \notin Boxes
      /\ inner \in [Cells -> Boxes \cup {Null}]
      /\ refs \in [Threads -> SUBSET (cells \X Boxes)] /\ cells \subseteq Cells
  BY NullAssumption DEF OwnerInv, Types, TypeOK
<1>p. Points
  BY DEF RefsAreAlive
(* Whatever a cell points to is allocated.                                 *)
<1>1. ASSUME Points'
      PROVE  RefsAreAlive'
  <2>1. /\ inner' \in [Cells -> Boxes \cup {Null}] /\ cells' \subseteq Cells
        /\ refs' \in [Threads -> SUBSET (cells' \X Boxes)]
    BY DEF OwnerInv, Types, TypeOK
  <2>2. \A c \in Cells, b \in Boxes : inner'[c] = b => b \in allocated'
    BY DEF OwnerInv, OwnerOK
  <2>3. QED
    BY <1>1, <2>1, <2>2 DEF RefsAreAlive
<1>2. ASSUME UNCHANGED <<inner, refs>>
      PROVE  Points'
  BY <1>2, <1>p
<1>3. ASSUME NEW t \in Threads, NEW b \in Boxes,
             NewBox(t, b) \/ DropBox(t, b) \/ ClosureSucceeds(t, b)
      PROVE  Points'
  BY <1>2, <1>3 DEF NewBox, DropBox, ClosureSucceeds
<1>4. ASSUME NEW t \in Threads, NEW r \in refs[t], EndBorrow(t, r)
      PROVE  Points'
  <2>1. inner' = inner /\ \A u \in Threads : refs'[u] \subseteq refs[u]
    BY <1>t, <1>4 DEF EndBorrow
  <2>2. QED
    BY <1>p, <2>1
<1>5. ASSUME NEW c \in Cells, NEW b \in Boxes \cup {Null}, Creates(c, b), refs' = refs
      PROVE  Points'
  <2>1. \A d \in cells : inner'[d] = inner[d]
    BY <1>t, <1>5 DEF Creates
  <2>2. QED
    BY <1>t, <1>5, <1>p, <2>1
<1>6. ASSUME NEW t \in Threads, NEW r \in refs[t], NEW d \in Cells, NEW b \in Boxes,
             Clone(t, r, d, b)
      PROVE  Points'
  BY <1>5, <1>6 DEF Clone, Cloned
<1>7. ASSUME NEW t \in Threads, NEW c \in Cells, New(t, c)
      PROVE  Points'
  BY <1>5, <1>7 DEF New
<1>8. ASSUME NEW t \in Threads, NEW c \in Cells, NEW b \in Boxes, WithValue(t, c, b)
      PROVE  Points'
  BY <1>5, <1>8 DEF WithValue
<1>9. ASSUME NEW t \in Threads, NEW c \in Cells, inner' = inner, Borrows(t, c, inner[c])
      PROVE  Points'
  <2>1. \A u \in Threads : refs'[u] \subseteq refs[u] \cup {<<c, inner[c]>>}
    BY <1>t, <1>9 DEF Borrows
  <2>2. QED
    BY <1>9, <1>p, <2>1
<1>10. ASSUME NEW t \in Threads, NEW c \in Cells, Get(t, c)
       PROVE  Points'
  BY <1>9, <1>10 DEF Get
<1>11. ASSUME NEW t \in Threads, NEW c \in Cells,
              GetOrTryInit(t, c) \/ \E b \in Boxes : Set(t, c, b)
       PROVE  Points'
  BY <1>2, <1>11 DEF GetOrTryInit, Set
<1>12. ASSUME NEW t \in Threads, ClosureFails(t) \/ SetLoses(t)
       PROVE  Points'
  BY <1>2, <1>12 DEF ClosureFails, SetLoses
<1>13. ASSUME NEW t \in Threads, InitLoses(t)
       PROVE  Points'
  <2>1. call[t].cell \in Cells
    BY <1>13 DEF InitLoses, OwnerInv, Types, TypeOK, Calls
  <2>2. QED
    BY <1>9, <1>13, <2>1 DEF InitLoses
<1>14. ASSUME NEW t \in Threads, Win(t)
       PROVE  Points'
  <2>1. PICK c \in Cells, b \in Boxes : c = call[t].cell /\ b = call[t].box
    BY <1>14 DEF Win, OwnerInv, Types, TypeOK, Calls
  <2>2. inner[c] = Null /\ inner' = [inner EXCEPT ![c] = b]
    BY <1>14, <2>1 DEF Win
  <2>3. \A u \in Threads : refs'[u] \subseteq refs[u] \cup {<<c, b>>}
    BY <1>14, <1>t, <2>1 DEF Win, Borrows
  <2>4. ASSUME NEW u \in Threads, NEW r \in refs[u]
        PROVE  inner'[r[1]] = r[2]
    <3>1. inner[r[1]] = r[2] /\ r[2] \in Boxes /\ r[1] \in Cells
      BY <1>t, <1>p
    <3>2. QED
      BY <1>t, <2>2, <3>1
  <2>5. inner'[c] = b
    BY <1>t, <2>2
  <2>6. QED
    BY <2>3, <2>4, <2>5
<1>15. ASSUME NEW c \in Cells, Drop(c)
       PROVE  Points'
  <2>1. \A u \in Threads : \A r \in refs[u] : r[1] # c
    BY <1>15 DEF Drop, InUse
  <2>2. refs' = refs /\ inner' = [inner EXCEPT ![c] = Null]
    BY <1>15 DEF Drop
  <2>3. QED
    BY <1>t, <1>p, <2>1, <2>2
<1>16. ASSUME UNCHANGED vars
       PROVE  Points'
  BY <1>2, <1>16 DEF vars
<1> HIDE DEF Points
<1>17. QED
  BY <1>1, <1>3, <1>4, <1>6, <1>7, <1>8, <1>10, <1>11, <1>12, <1>13, <1>14, <1>15, <1>16
     DEF Next

(* No reference that a OnceBox handed out dangles, and those into one cell *)
(* point to one box.                                                       *)
THEOREM ReferencesStayAlive == Spec => []RefsAreAlive
<1>1. Init => RefsAreAlive
  BY DEF Init, RefsAreAlive
<1>2. QED
  BY <1>1, NextRefs, OwnerInvariant, PTL DEF Spec
-----------------------------------------------------------------------------
(* Contents.  Whoever has a box in hand made it, or got it from somebody   *)
(* who did, and the pointer in a cell was released by who stored it.       *)

ReadyOK ==
  /\ \A t \in Threads, b \in Boxes : Keeps(t, b) \/ Stores(t, b) => t \in ready[b]
  /\ \A c \in Cells : inner[c] # Null => c \in ready[inner[c]]
  /\ ContentsAreInitialized

LEMMA NextReady == OwnerInv /\ RefsAreAlive /\ ReadyOK /\ [Next]_vars => ReadyOK'
<1> SUFFICES ASSUME OwnerInv, RefsAreAlive, ReadyOK, [Next]_vars
             PROVE  ReadyOK'
  OBVIOUS
<1>t. /\ Types /\ OwnerOK /\ Null \notin Boxes /\ Null \notin Calls /\ Threads \cap Cells = {}
      /\ inner \in [Cells -> Boxes \cup {Null}]
      /\ call \in [Threads -> Calls \cup {Null}]
      /\ owned \in [Threads -> SUBSET Boxes]
      /\ refs \in [Threads -> SUBSET (cells \X Boxes)] /\ cells \subseteq Cells
      /\ ready \in [Boxes -> SUBSET (Threads \cup Cells)]
  BY NullAssumption DEF OwnerInv, Types, TypeOK
(* Nobody has anything to do with a free box, only t with one it keeps.    *)
<1>f. ASSUME NEW b \in Boxes, b \notin allocated
      PROVE  /\ \A t \in Threads : ~Keeps(t, b) /\ ~Stores(t, b) /\ \A r \in refs[t] : r[2] # b
             /\ \A c \in Cells : inner[c] # b
  BY <1>f, <1>t DEF OwnerOK, RefsAreAlive
<1>k. ASSUME NEW b \in Boxes, NEW t \in Threads, Keeps(t, b)
      PROVE  \A c \in Cells : inner[c] # b
  BY <1>k, <1>t DEF OwnerOK
(* Who knows more, and who has to: it is enough that those who get a box,  *)
(* or a reference, know of it.                                             *)
<1>m. ASSUME \A b \in Boxes : ready[b] \subseteq ready'[b],
             \A t \in Threads, b \in Boxes :
               Keeps(t, b)' \/ Stores(t, b)' => Keeps(t, b) \/ Stores(t, b),
             \A c \in Cells : inner'[c] # Null => inner'[c] = inner[c],
             \A t \in Threads : \A r \in refs'[t] : r \in refs[t] \/ t \in ready'[r[2]]
      PROVE  ReadyOK'
  <2>1. \A t \in Threads : \A r \in refs[t] : r[2] \in Boxes
    BY <1>t
  <2>2. \A c \in Cells : inner[c] # Null => inner[c] \in Boxes
    BY <1>t
  <2>3. ContentsAreInitialized'
    BY <1>m, <2>1 DEF ReadyOK, ContentsAreInitialized
  <2>4. \A c \in Cells : inner'[c] # Null => c \in ready'[inner'[c]]
    BY <1>m, <2>2 DEF ReadyOK
  <2>5. QED
    BY <1>m, <2>3, <2>4 DEF ReadyOK
<1>1. ASSUME NEW t \in Threads, NEW b \in Boxes, NewBox(t, b)
      PROVE  ReadyOK'
  <2>1. /\ b \notin allocated
        /\ \A u \in Threads : owned'[u] = IF u = t THEN owned[t] \cup {b} ELSE owned[u]
        /\ inner' = inner /\ call' = call /\ refs' = refs
        /\ ready'[b] = {t} /\ \A a \in Boxes \ {b} : ready'[a] = ready[a]
    BY <1>1, <1>t DEF NewBox, Owns
  <2>2. /\ \A u \in Threads : ~Keeps(u, b) /\ ~Stores(u, b) /\ \A r \in refs[u] : r[2] # b
        /\ \A c \in Cells : inner[c] # b
    BY <1>f, <2>1
  <2>3. QED
    BY <1>t, <2>1, <2>2 DEF ReadyOK, ContentsAreInitialized, Keeps, Stores
<1>2. ASSUME NEW t \in Threads, NEW b \in Boxes, DropBox(t, b)
      PROVE  ReadyOK'
  <2>1. \A u \in Threads : owned'[u] \subseteq owned[u]
    BY <1>2, <1>t DEF DropBox, Disowns
  <2>2. QED
    BY <1>2, <1>m, <2>1 DEF DropBox, Keeps, Stores
<1>3. ASSUME NEW t \in Threads, NEW b \in Boxes, NEW k, k.box = b,
             b \in owned[t], Disowns(t, b), call' = [call EXCEPT ![t] = k],
             UNCHANGED <<inner, refs, ready>>
      PROVE  ReadyOK'
  <2>1. /\ \A u \in Threads : owned'[u] \subseteq owned[u]
        /\ call'[t] = k /\ \A u \in Threads \ {t} : call'[u] = call[u]
    BY <1>3, <1>t DEF Disowns
  <2>2. ASSUME NEW u \in Threads, NEW a \in Boxes, Keeps(u, a)' \/ Stores(u, a)'
        PROVE  Keeps(u, a) \/ Stores(u, a)
    BY <1>3, <2>1, <2>2 DEF Keeps, Stores
  <2>3. QED
    BY <1>3, <1>m, <2>2
<1>4. ASSUME NEW t \in Threads, NEW b \in Boxes, ClosureSucceeds(t, b)
      PROVE  ReadyOK'
  BY <1>3, <1>4 DEF ClosureSucceeds
<1>5. ASSUME NEW t \in Threads, NEW c \in Cells, NEW b \in Boxes, Set(t, c, b)
      PROVE  ReadyOK'
  BY <1>3, <1>5 DEF Set
<1>6. ASSUME NEW t \in Threads, NEW r \in refs[t], EndBorrow(t, r)
      PROVE  ReadyOK'
  <2>1. \A u \in Threads : refs'[u] \subseteq refs[u]
    BY <1>t, <1>6 DEF EndBorrow
  <2>2. QED
    BY <1>6, <1>m, <2>1 DEF EndBorrow, Keeps, Stores
(* Sharing a new cell makes its box known to everybody.                    *)
<1>7. ASSUME NEW c \in Cells, NEW b \in Boxes, Creates(c, b),
             \A d \in Cells : inner[d] # b,
             \A u \in Threads : owned'[u] \subseteq owned[u],
             call' = call, refs' = refs
      PROVE  ReadyOK'
  <2>1. inner'[c] = b /\ \A d \in Cells \ {c} : inner'[d] = inner[d]
    BY <1>7, <1>t, CreatesTypes
  <2>2. ready'[b] = Threads \cup {c} /\ \A a \in Boxes \ {b} : ready'[a] = ready[a]
    BY <1>7, <1>t DEF Creates
  <2>3. \A u \in Threads, a \in Boxes : u \in ready[a] => u \in ready'[a]
    BY <2>2
  <2>4. ContentsAreInitialized'
    BY <1>t, <1>7, <2>3 DEF ReadyOK, ContentsAreInitialized
  <2>5. \A u \in Threads, a \in Boxes : Keeps(u, a)' \/ Stores(u, a)' => u \in ready'[a]
    BY <1>7, <2>3 DEF ReadyOK, Keeps, Stores
  <2>6. ASSUME NEW d \in Cells, inner'[d] # Null
        PROVE  d \in ready'[inner'[d]]
    <3>1. CASE d = c
      BY <2>1, <2>2, <3>1
    <3>2. CASE d # c
      <4>1. inner'[d] = inner[d] /\ inner[d] \in Boxes \ {b}
        BY <1>t, <1>7, <2>1, <2>6, <3>2
      <4>2. QED
        BY <1>t, <2>2, <4>1 DEF ReadyOK
    <3>3. QED
      BY <3>1, <3>2
  <2>7. QED
    BY <2>4, <2>5, <2>6 DEF ReadyOK
<1>8. ASSUME NEW t \in Threads, NEW r \in refs[t], NEW d \in Cells, NEW b \in Boxes,
             Clone(t, r, d, b)
      PROVE  ReadyOK'
  BY <1>7, <1>8, <1>f DEF Clone, Cloned
<1>9. ASSUME NEW t \in Threads, NEW c \in Cells, NEW b \in Boxes, WithValue(t, c, b)
      PROVE  ReadyOK'
  <2>1. Keeps(t, b) /\ Creates(c, b) /\ call' = call /\ refs' = refs
        /\ \A u \in Threads : owned'[u] \subseteq owned[u]
    BY <1>9, <1>t DEF WithValue, Disowns, Keeps
  <2>2. QED
    BY <1>7, <1>k, <2>1
<1>10. ASSUME NEW t \in Threads, NEW c \in Cells, New(t, c)
       PROVE  ReadyOK'
  <2>1. Creates(c, Null) /\ ready' = ready /\ UNCHANGED <<call, owned, refs>>
    BY <1>10 DEF New, Creates
  <2>2. inner'[c] = Null /\ \A d \in Cells \ {c} : inner'[d] = inner[d]
    BY <1>t, <2>1, CreatesTypes
  <2>3. QED
    BY <1>m, <2>1, <2>2 DEF Keeps, Stores
(* Who acquires the pointer sees what it points to.                        *)
<1>11. ASSUME NEW t \in Threads, NEW c \in Cells, NEW ord, Reads(t, c, ord), ord = "Acquire"
       PROVE  /\ inner[c] \in Boxes /\ t \in ready'[inner[c]]
              /\ \A b \in Boxes : ready[b] \subseteq ready'[b]
  <2>1. inner[c] # Null /\ inner[c] \in Boxes
    BY <1>t, <1>11 DEF Reads
  <2>2. c \in ready[inner[c]]
    BY <2>1 DEF ReadyOK
  <2>3. ready' = [ready EXCEPT ![inner[c]] = @ \cup {t}]
    BY <1>11, <2>2 DEF Reads
  <2>4. QED
    BY <1>t, <2>1, <2>3
<1>12. ASSUME NEW t \in Threads, NEW c \in Cells, Borrows(t, c, inner[c]), t \in ready'[inner[c]]
       PROVE  \A u \in Threads : \A r \in refs'[u] : r \in refs[u] \/ u \in ready'[r[2]]
  BY <1>t, <1>12 DEF Borrows
<1>13. ASSUME NEW t \in Threads, NEW c \in Cells, Get(t, c)
       PROVE  ReadyOK'
  <2>1. Reads(t, c, "Acquire") /\ Borrows(t, c, inner[c]) /\ UNCHANGED <<inner, call, owned>>
    BY <1>13 DEF Get, Finds, GetOrdering
  <2>2. t \in ready'[inner[c]] /\ \A b \in Boxes : ready[b] \subseteq ready'[b]
    BY <1>11, <2>1
  <2>3. \A u \in Threads : \A r \in refs'[u] : r \in refs[u] \/ u \in ready'[r[2]]
    BY <1>12, <2>1, <2>2
  <2>4. QED
    BY <1>m, <2>1, <2>2, <2>3 DEF Keeps, Stores
<1>14. ASSUME NEW t \in Threads, NEW c \in Cells, GetOrTryInit(t, c)
       PROVE  ReadyOK'
  BY <1>m, <1>14 DEF GetOrTryInit, Keeps, Stores
<1>15. ASSUME NEW t \in Threads, ClosureFails(t)
       PROVE  ReadyOK'
  BY <1>m, <1>15 DEF ClosureFails, Keeps, Stores
(* The store releases what its thread knows of the box.                    *)
<1>16. ASSUME NEW t \in Threads, Win(t)
       PROVE  ReadyOK'
  <2>1. PICK c \in Cells, b \in Boxes : c = call[t].cell /\ b = call[t].box
    BY <1>16, <1>t DEF Win, Calls
  <2>2. Stores(t, b) /\ t \in ready[b]
    BY <1>16, <2>1 DEF Win, Stores, ReadyOK
  <2>3. inner[c] = Null /\ inner' = [inner EXCEPT ![c] = b] /\ owned' = owned
        /\ call' = [call EXCEPT ![t] = Null] /\ ready' = [ready EXCEPT ![b] = @ \cup {c}]
    BY <1>16, <2>1, <2>2 DEF Win, StoreOrdering
  <2>4. ready'[b] = ready[b] \cup {c} /\ \A a \in Boxes : ready[a] \subseteq ready'[a]
    BY <1>t, <2>3
  <2>5. \A u \in Threads : \/ refs'[u] = refs[u]
                           \/ u = t /\ refs'[u] = refs[u] \cup {<<c, b>>}
    BY <1>16, <1>t, <2>1 DEF Win, Borrows
  <2>6. ContentsAreInitialized'
    BY <1>t, <2>2, <2>4, <2>5 DEF ReadyOK, ContentsAreInitialized
  <2>7. \A u \in Threads, a \in Boxes : Keeps(u, a)' \/ Stores(u, a)' => u \in ready'[a]
    BY <1>t, <2>3, <2>4 DEF ReadyOK, Keeps, Stores
  <2>8. \A d \in Cells : inner'[d] # Null => d \in ready'[inner'[d]]
    BY <1>t, <2>3, <2>4 DEF ReadyOK
  <2>9. QED
    BY <2>6, <2>7, <2>8 DEF ReadyOK
<1>17. ASSUME NEW t \in Threads, SetLoses(t)
       PROVE  ReadyOK'
  <2>1. PICK c \in Cells, b \in Boxes : c = call[t].cell /\ b = call[t].box
    BY <1>17, <1>t DEF SetLoses, Calls
  <2>2. Reads(t, c, "Acquire") /\ Stores(t, b) /\ Owns(t, b) /\ refs' = refs /\ inner' = inner
        /\ call' = [call EXCEPT ![t] = Null]
    BY <1>17, <2>1 DEF SetLoses, FailureOrdering, Stores
  <2>3. \A a \in Boxes : ready[a] \subseteq ready'[a]
    BY <1>11, <2>2
  <2>4. \A u \in Threads, a \in Boxes :
          Keeps(u, a)' \/ Stores(u, a)' => Keeps(u, a) \/ Stores(u, a)
    BY <1>t, <2>2 DEF Keeps, Stores, Owns
  <2>5. QED
    BY <1>m, <2>2, <2>3, <2>4
<1>18. ASSUME NEW t \in Threads, InitLoses(t)
       PROVE  ReadyOK'
  <2>1. PICK c \in Cells : c = call[t].cell
    BY <1>18, <1>t DEF InitLoses, Calls
  <2>2. Reads(t, c, "Acquire") /\ Borrows(t, c, inner[c]) /\ inner' = inner /\ owned' = owned
        /\ call' = [call EXCEPT ![t] = Null]
    BY <1>18, <2>1 DEF InitLoses, FailureOrdering
  <2>3. t \in ready'[inner[c]] /\ \A b \in Boxes : ready[b] \subseteq ready'[b]
    BY <1>11, <2>2
  <2>4. \A u \in Threads : \A r \in refs'[u] : r \in refs[u] \/ u \in ready'[r[2]]
    BY <1>12, <2>2, <2>3
  <2>5. \A u \in Threads, a \in Boxes :
          Keeps(u, a)' \/ Stores(u, a)' => Keeps(u, a) \/ Stores(u, a)
    BY <1>t, <2>2 DEF Keeps, Stores
  <2>6. QED
    BY <1>m, <2>2, <2>3, <2>4, <2>5
<1>19. ASSUME NEW c \in Cells, Drop(c)
       PROVE  ReadyOK'
  <2>1. \A d \in Cells : inner'[d] # Null => inner'[d] = inner[d]
    BY <1>19, <1>t DEF Drop
  <2>2. QED
    BY <1>m, <1>19, <2>1 DEF Drop, Keeps, Stores
<1>20. CASE UNCHANGED vars
  BY <1>m, <1>20 DEF vars, Keeps, Stores
<1>21. QED
  BY <1>1, <1>2, <1>4, <1>5, <1>6, <1>8, <1>9, <1>10, <1>13, <1>14, <1>15, <1>16, <1>17, <1>18,
     <1>19, <1>20 DEF Next

(* Whoever holds a reference sees what the box holds: the Acquire of get,  *)
(* and that of a compare_exchange that fails, both are needed.             *)
THEOREM ContentsAreSeen == Spec => []ContentsAreInitialized
<1>1. Init => ReadyOK
  BY DEF Init, ReadyOK, Keeps, Stores, ContentsAreInitialized
<1>2. ReadyOK => ContentsAreInitialized
  BY DEF ReadyOK
<1>3. QED
  BY <1>1, <1>2, NextReady, OwnerInvariant, ReferencesStayAlive, PTL DEF Spec
=============================================================================
