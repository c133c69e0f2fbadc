---------------------------- MODULE ImpCsProofs ----------------------------
(* Theorems about ImpCs for any set of threads and any depth of closures,  *)
(* and about the unsync cell inside, also by itself, for any values.       *)
EXTENDS ImpCs, TLAPS
-----------------------------------------------------------------------------
(* Types. *)

LEMMA InitType == Init => TypeOK
BY ThreadsAssumption DEF Init, TypeOK, PCs, Unsync!Init, Unsync!TypeOK

LEMMA NextType == TypeOK /\ [Next]_vars => TypeOK'
<1> SUFFICES ASSUME TypeOK, [Next]_vars
             PROVE  TypeOK'
  OBVIOUS
<1> USE ThreadsAssumption DEF TypeOK, PCs, Unsync!TypeOK, Goto
<1>1. ASSUME NEW t \in Threads, Get(t) \/ GetOrTryInit(t)
      PROVE  TypeOK'
  BY <1>1 DEF Get, GetOrTryInit, LoadsTrue, LoadsFalse
<1>2. ASSUME NEW t \in Threads, Enter(t)
      PROVE  TypeOK'
  BY <1>2 DEF Enter, Unsync!BeginInit
<1>3. ASSUME NEW t \in Threads, ClosureReturns(t)
      PROVE  TypeOK'
  <2>1. /\ inner' \in Closures \cup {Null} /\ closures' \in 0..MaxDepth /\ refs' = refs
        /\ seen' \subseteq Threads \cup {Flag, Section}
    BY <1>3 DEF ClosureReturns, ClosureSucceeds, ClosureFails, Unsync!InitSucceeds,
       Unsync!TryInsert, Unsync!ReentrantInit, Unsync!InitFails, Closures
  <2>2. pc' \in [Threads -> PCs]
    BY <1>3 DEF ClosureReturns, ClosureSucceeds, ClosureFails, AfterFailure
  <2>3. QED
    BY <1>3, <2>1, <2>2 DEF ClosureReturns, ClosureSucceeds, ClosureFails
<1>4. ASSUME NEW t \in Threads, Store(t)
      PROVE  TypeOK'
  BY <1>4 DEF Store
<1>5. ASSUME NEW t \in Threads, Leave(t)
      PROVE  TypeOK'
  BY <1>5 DEF Leave, Home, Released
<1>6. ASSUME NEW t \in Threads, GetUnchecked(t)
      PROVE  TypeOK'
  BY <1>6 DEF GetUnchecked, Unsync!Get, Home
<1>7. CASE EndBorrow
  BY <1>7 DEF EndBorrow, Unsync!EndBorrow
<1>8. CASE Take
  BY <1>8 DEF Take, Unsync!Take
<1>9. CASE UNCHANGED vars
  BY <1>9 DEF vars
<1>10. QED
  BY <1>1, <1>2, <1>3, <1>4, <1>5, <1>6, <1>7, <1>8, <1>9 DEF Next, Step
-----------------------------------------------------------------------------
(* The invariant.  Between calls, the section is held only on behalf of    *)
(* closures that are running: whoever enters it finds the unsync cell as   *)
(* its own calls, or a thread that has left, have made it.                 *)

Inside == {"closure", "store", "leave", "fail"}

HolderOK ==
  /\ closures > 0 => holder # Null
  /\ \A t \in Threads :
       /\ pc[t] \in Inside => holder = t
       /\ pc[t] = "closure" => closures > 0
       /\ InClosure(t) => pc[t] # "idle"
       /\ holder = t /\ closures = 0 => pc[t] \in Inside

(* Who returns the value, or says that there is one, can find it.          *)
FullOK ==
  /\ initialized => inner # Null
  /\ \A t \in Threads : pc[t] \in {"read", "store", "leave"} => inner # Null

(* The section, while it is free, passes on what its last holder knew; and *)
(* the flag does so once it is set, unless everybody knew already.         *)
SeenOK ==
  /\ holder = Null => Section \in seen
  /\ \A t \in Threads : holder = t \/ pc[t] = "read" => t \in seen
  /\ initialized => Flag \in seen \/ Threads \subseteq seen

CsInv == TypeOK /\ HolderOK /\ FullOK /\ SeenOK

LEMMA InitCs == Init => CsInv
<1> SUFFICES ASSUME Init
             PROVE  CsInv
  OBVIOUS
<1>1. closures = 0 /\ \A t \in Threads : pc[t] = "idle" /\ holder # t
  BY ThreadsAssumption DEF Init, Unsync!Init
<1>2. HolderOK
  BY <1>1 DEF HolderOK, InClosure, Inside
<1>3. FullOK /\ SeenOK
  BY <1>1 DEF Init, FullOK, SeenOK
<1>4. QED
  BY <1>2, <1>3, InitType DEF CsInv

LEMMA NextCs == CsInv /\ [Next]_vars => CsInv'
<1> SUFFICES ASSUME CsInv, [Next]_vars
             PROVE  HolderOK' /\ FullOK' /\ SeenOK'
  BY NextType DEF CsInv
<1> USE DEF Inside, InClosure
<1>t. /\ closures \in Nat /\ pc \in [Threads -> PCs] /\ holder \in Threads \cup {Null}
      /\ Null \notin Threads /\ Flag # Section /\ Flag \notin Threads /\ Section \notin Threads
      /\ \A t \in Threads, n \in 1..MaxDepth : <<t, n>> # Null
      /\ closures <= MaxDepth /\ MaxDepth \in Nat
  BY ThreadsAssumption DEF CsInv, TypeOK, Unsync!TypeOK
<1> USE DEF CsInv, HolderOK, FullOK, SeenOK
<1>1. ASSUME NEW t \in Threads, Get(t) \/ GetOrTryInit(t)
      PROVE  HolderOK' /\ FullOK' /\ SeenOK'
  <2>1. /\ pc[t] = IF InClosure(t) THEN "closure" ELSE "idle"
        /\ \/ pc'[t] = "enter"
           \/ pc'[t] = "read" /\ initialized /\ t \in seen'
        /\ seen \subseteq seen'
        /\ \A u \in Threads \ {t} : pc'[u] = pc[u]
    BY <1>1, <1>t DEF Get, GetOrTryInit, InProgram, Home, LoadsTrue, LoadsFalse, FlagLoad, Goto
  <2>2. UNCHANGED <<initialized, inner, closures, holder>>
    BY <1>1 DEF Get, GetOrTryInit
  <2>3. holder = t => InClosure(t)
    BY <1>t, <2>1
  <2>4. QED
    BY <1>t, <2>1, <2>2, <2>3
<1>2. ASSUME NEW t \in Threads, Enter(t)
      PROVE  HolderOK' /\ FullOK' /\ SeenOK'
  <2>1. /\ pc[t] = "enter" /\ holder \in {Null, t} /\ holder' = t
        /\ \/ inner = Null /\ closures' = closures + 1 /\ pc'[t] = "closure"
           \/ inner # Null /\ closures' = closures /\ pc'[t] = "store"
        /\ \A u \in Threads \ {t} : pc'[u] = pc[u]
        /\ inner' = inner /\ initialized' = initialized
    BY <1>2, <1>t DEF Enter, Goto, Unsync!BeginInit
  <2>2. seen \subseteq seen' /\ t \in seen'
    BY <1>2, <1>t, <2>1 DEF Enter
  <2>3. QED
    BY <1>t, <2>1, <2>2
<1>3. ASSUME NEW t \in Threads, ClosureReturns(t)
      PROVE  HolderOK' /\ FullOK' /\ SeenOK'
  <2>1. /\ pc[t] = "closure" /\ holder = t /\ closures > 0 /\ closures' = closures - 1
        /\ holder' = holder /\ initialized' = initialized
        /\ \A u \in Threads \ {t} : pc'[u] = pc[u]
    BY <1>3, <1>t DEF ClosureReturns, ClosureSucceeds, ClosureFails, Goto,
       Unsync!InitSucceeds, Unsync!ReentrantInit, Unsync!InitFails
  <2>2. \/ inner = Null /\ inner' = <<t, closures>> /\ pc'[t] = "store" /\ seen' = {t}
        \/ inner' = inner /\ pc'[t] = "fail" /\ seen' = seen
    BY <1>3, <1>t DEF ClosureReturns, ClosureSucceeds, ClosureFails, Goto, AfterFailure,
       Unsync!InitSucceeds, Unsync!TryInsert, Unsync!Vacant, Unsync!ReentrantInit,
       Unsync!InitFails
  <2>3. <<t, closures>> # Null /\ closures' \in Nat
    BY <1>t, <2>1
  <2>4. QED
    BY <1>t, <2>1, <2>2, <2>3
<1>4. ASSUME NEW t \in Threads, Store(t)
      PROVE  HolderOK' /\ FullOK' /\ SeenOK'
  <2>1. /\ pc[t] = "store" /\ pc'[t] = "leave" /\ holder = t
        /\ \A u \in Threads \ {t} : pc'[u] = pc[u]
        /\ UNCHANGED <<inner, closures, holder>>
    BY <1>4, <1>t DEF Store, Goto
  <2>2. seen \subseteq seen' /\ Flag \in seen'
    BY <1>4, <1>t, <2>1 DEF Store, FlagStore
  <2>3. QED
    BY <1>t, <2>1, <2>2
<1>5. ASSUME NEW t \in Threads, Leave(t)
      PROVE  HolderOK' /\ FullOK' /\ SeenOK'
  <2>1. /\ pc[t] \in {"leave", "fail"} /\ holder = t
        /\ holder' = IF closures = 0 THEN Null ELSE t
        /\ pc'[t] = IF pc[t] = "leave" THEN "read" ELSE IF closures > 0 THEN "closure" ELSE "idle"
        /\ \A u \in Threads \ {t} : pc'[u] = pc[u]
        /\ UNCHANGED <<initialized, inner, closures>>
    BY <1>5, <1>t DEF Leave, Released, Home, Goto
  <2>2. seen \subseteq seen' /\ t \in seen' /\ Section \in seen'
    BY <1>5, <1>t, <2>1 DEF Leave
  <2>3. QED
    BY <1>t, <2>1, <2>2
<1>6. ASSUME NEW t \in Threads, GetUnchecked(t)
      PROVE  HolderOK' /\ FullOK' /\ SeenOK'
  <2>1. /\ pc[t] = "read" /\ pc'[t] = IF InClosure(t) THEN "closure" ELSE "idle"
        /\ \A u \in Threads \ {t} : pc'[u] = pc[u]
        /\ UNCHANGED <<initialized, inner, closures, holder, seen>>
    BY <1>6, <1>t DEF GetUnchecked, Home, Goto, Unsync!Get
  <2>2. QED
    BY <1>t, <2>1
<1>7. CASE EndBorrow
  BY <1>7 DEF EndBorrow, Unsync!EndBorrow
<1>8. CASE Take
  <2>1. \A t \in Threads : pc[t] = "idle" /\ holder # t
    BY <1>t, <1>8 DEF Take
  <2>2. QED
    BY <1>t, <1>8, <2>1 DEF Take, Unsync!Take
<1>9. CASE UNCHANGED vars
  BY <1>9 DEF vars
<1>10. QED
  BY <1>1, <1>2, <1>3, <1>4, <1>5, <1>6, <1>7, <1>8, <1>9 DEF Next, Step

THEOREM CsInvariant == Spec => []CsInv
BY InitCs, NextCs, PTL DEF Spec

(* Every variable keeps its type. *)
THEOREM TypeCorrect == Spec => []TypeOK
<1>1. CsInv => TypeOK
  BY DEF CsInv
<1>2. QED
  BY <1>1, CsInvariant, PTL

(* The unsync cell has one thread in it at a time, also while closures     *)
(* call back, and nested sections end before the outer one does.           *)
THEOREM OneThreadInside == Spec => []OneInside
<1>1. CsInv => OneInside
  BY DEF CsInv, HolderOK, Inside, OneInside
<1>2. QED
  BY <1>1, CsInvariant, PTL

(* get_unchecked, which is called outside of the section, finds a value:   *)
(* only exclusive access empties the cell.                                 *)
THEOREM NoEarlyRead == Spec => []ReadsAreInitialized
<1>1. CsInv => ReadsAreInitialized
  BY DEF CsInv, FullOK, ReadsAreInitialized
<1>2. QED
  BY <1>1, CsInvariant, PTL

(* The lock of the section, and for those who do not take it the flag,     *)
(* order the write of the value before every access to it.                 *)
THEOREM AccessesAreOrdered == Spec => []NoDataRace
<1>1. CsInv => NoDataRace
  BY DEF CsInv, HolderOK, SeenOK, Inside, NoDataRace
<1>2. QED
  BY <1>1, CsInvariant, PTL
-----------------------------------------------------------------------------
(* The unsync cell, by itself: here over any values, not those of imp_cs.  *)

UnsyncCell(Values) == INSTANCE UnsyncOnceCell

(* That refs point into the cell is inductive with the types: a closure    *)
(* that ends writes only if there is nothing yet to point to.              *)
UnsyncInv(Values) == UnsyncCell(Values)!TypeOK /\ RefsAreValid

(* It holds of new() and with_value().                                     *)
LEMMA UnsyncInit ==
  ASSUME NEW Values, Null \notin Values, MaxDepth \in Nat,
         UnsyncCell(Values)!Init
  PROVE  UnsyncInv(Values)
BY DEF UnsyncCell!Init, UnsyncInv, UnsyncCell!TypeOK, RefsAreValid

(* Each action of the cell keeps the references valid.                     *)
LEMMA UnsyncNext ==
  ASSUME NEW Values, Null \notin Values, MaxDepth \in Nat,
         UnsyncInv(Values), UnsyncCell(Values)!Next \/ UNCHANGED UnsyncCell(Values)!vars
  PROVE  UnsyncInv(Values)'
<1> USE DEF UnsyncInv, UnsyncCell!TypeOK, RefsAreValid
<1>1. CASE UnsyncCell(Values)!Get
  BY <1>1 DEF UnsyncCell!Get
<1>2. CASE UnsyncCell(Values)!EndBorrow
  BY <1>2 DEF UnsyncCell!EndBorrow
<1>3. CASE UnsyncCell(Values)!BeginInit
  BY <1>3 DEF UnsyncCell!BeginInit
<1>4. CASE UnsyncCell(Values)!ReentrantInit \/ UnsyncCell(Values)!InitFails
  BY <1>4 DEF UnsyncCell!ReentrantInit, UnsyncCell!InitFails
<1>5. CASE UnsyncCell(Values)!Take
  BY <1>5 DEF UnsyncCell!Take
<1>6. ASSUME NEW v \in Values, UnsyncCell(Values)!Set(v) \/ UnsyncCell(Values)!InitSucceeds(v)
      PROVE  UnsyncInv(Values)'
  <2>1. inner = Null /\ inner' = v /\ refs' = refs
    BY <1>6 DEF UnsyncCell!Set, UnsyncCell!InitSucceeds, UnsyncCell!TryInsert, UnsyncCell!Vacant
  <2>2. closures' \in 0..MaxDepth
    BY <1>6 DEF UnsyncCell!Set, UnsyncCell!InitSucceeds
  <2> QED
    BY <2>1, <2>2
<1>7. ASSUME NEW v \in Values, UnsyncCell(Values)!GetMut(v)
      PROVE  UnsyncInv(Values)'
  BY <1>7 DEF UnsyncCell!GetMut
<1>8. CASE UNCHANGED UnsyncCell(Values)!vars
  BY <1>8 DEF UnsyncCell!vars
<1> QED
  BY <1>1, <1>2, <1>3, <1>4, <1>5, <1>6, <1>7, <1>8 DEF UnsyncCell!Next

(* No reference to the value of an unsync cell dangles, however closures   *)
(* nest and set the cell that they are initializing.                       *)
THEOREM ReferencesStayValid ==
  ASSUME NEW CONSTANT Values, Null \notin Values, MaxDepth \in Nat
  PROVE  UnsyncCell(Values)!Spec => []RefsAreValid
<1>1. UnsyncCell(Values)!Init => UnsyncInv(Values)
  BY UnsyncInit
<1>2. /\ UnsyncInv(Values)
      /\ [UnsyncCell(Values)!Next]_(UnsyncCell(Values)!vars)
      => UnsyncInv(Values)'
  BY UnsyncNext
<1>3. UnsyncInv(Values) => RefsAreValid
  BY DEF UnsyncInv
<1> QED
  BY <1>1, <1>2, <1>3, PTL DEF UnsyncCell!Spec

(* The invariant of `inner`, that try_insert argues for: an unsync cell is *)
(* written to at most once between two exclusive accesses.                 *)
THEOREM InnerIsWrittenOnce ==
  ASSUME NEW CONSTANT Values, Null \notin Values, MaxDepth \in Nat
  PROVE  UnsyncCell(Values)!Spec => UnsyncCell(Values)!WrittenOnce
<1>1. UnsyncCell(Values)!Init => UnsyncInv(Values)
  BY UnsyncInit
<1>2. /\ UnsyncInv(Values)
      /\ [UnsyncCell(Values)!Next]_(UnsyncCell(Values)!vars)
      => UnsyncInv(Values)'
  BY UnsyncNext
<1>3. /\ UnsyncInv(Values)
      /\ [UnsyncCell(Values)!Next]_(UnsyncCell(Values)!vars)
      => [inner # Null /\ inner' # inner
            => refs = {} /\ closures = 0]_(UnsyncCell(Values)!vars)
  BY DEF UnsyncInv, UnsyncCell!TypeOK, UnsyncCell!Next, UnsyncCell!vars, UnsyncCell!Get,
     UnsyncCell!EndBorrow, UnsyncCell!BeginInit, UnsyncCell!ReentrantInit, UnsyncCell!InitFails,
     UnsyncCell!Take, UnsyncCell!Set, UnsyncCell!InitSucceeds, UnsyncCell!GetMut,
     UnsyncCell!TryInsert, UnsyncCell!Vacant
<1> QED
  BY <1>1, <1>2, <1>3, PTL DEF UnsyncCell!Spec, UnsyncCell!WrittenOnce
-----------------------------------------------------------------------------
(* The unsync cell inside of the section. *)

(* Every step is one that a program of a single thread could make.         *)
LEMMA NextUnsync == CsInv /\ [Next]_vars => [Unsync!Next]_Unsync!vars
<1> SUFFICES ASSUME CsInv, [Next]_vars
             PROVE  Unsync!Next \/ UNCHANGED Unsync!vars
  OBVIOUS
<1>1. ASSUME NEW t \in Threads,
             Get(t) \/ GetOrTryInit(t) \/ Store(t) \/ Leave(t)
      PROVE  UNCHANGED Unsync!vars
  BY <1>1 DEF Get, GetOrTryInit, Store, Leave, Unsync!vars
<1>2. ASSUME NEW t \in Threads, Enter(t)
      PROVE  Unsync!Next \/ UNCHANGED Unsync!vars
  BY <1>2 DEF Enter, Unsync!vars, Unsync!Next
<1>3. ASSUME NEW t \in Threads, ClosureReturns(t)
      PROVE  Unsync!Next
  <2>1. closures \in 1..MaxDepth /\ <<t, closures>> \in Closures
    BY <1>3, ThreadsAssumption DEF ClosureReturns, ClosureSucceeds, ClosureFails, CsInv, HolderOK,
       TypeOK, Unsync!TypeOK, Closures
  <2>2. \/ Unsync!InitSucceeds(<<t, closures>>)
        \/ Unsync!ReentrantInit \/ Unsync!InitFails
    BY <1>3 DEF ClosureReturns, ClosureSucceeds, ClosureFails
  <2>3. QED
    BY <2>1, <2>2 DEF Unsync!Next
<1>4. ASSUME NEW t \in Threads, GetUnchecked(t)
      PROVE  Unsync!Next
  BY <1>4 DEF GetUnchecked, Unsync!Next
<1>5. CASE EndBorrow \/ Take
  BY <1>5 DEF EndBorrow, Take, Unsync!Next
<1>6. CASE UNCHANGED vars
  BY <1>6 DEF vars, Unsync!vars
<1>7. QED
  BY <1>1, <1>2, <1>3, <1>4, <1>5, <1>6 DEF Next, Step, ClosureReturns

(* The threads together use the unsync cell as a single thread does: what  *)
(* UnsyncOnceCell shows of it holds of the cell in imp_cs.                 *)
THEOREM InnerIsUnsync == Spec => Unsync!Spec
<1>1. Init => Unsync!Init
  BY DEF Init
<1>2. QED
  BY <1>1, NextUnsync, CsInvariant, PTL DEF Spec, Unsync!Spec

(* A reference that get_unchecked hands out, outside of the section, stays *)
(* valid whatever the other threads and the closures do.                   *)
THEOREM SharedReferencesStayValid == Spec => []RefsAreValid
<1>1. Null \notin Closures /\ MaxDepth \in Nat
  BY ThreadsAssumption DEF Closures
<1>2. UnsyncCell(Closures)!Spec => []RefsAreValid
  BY <1>1, ReferencesStayValid
<1>3. Unsync!Init => UnsyncCell(Closures)!Init
  BY DEF Unsync!Init, UnsyncCell!Init
<1>4. [Unsync!Next]_Unsync!vars
      => [UnsyncCell(Closures)!Next]_(UnsyncCell(Closures)!vars)
  BY DEF Unsync!Next, Unsync!vars, Unsync!Get, Unsync!EndBorrow, Unsync!BeginInit,
         Unsync!ReentrantInit, Unsync!InitFails, Unsync!Take, Unsync!Set, Unsync!InitSucceeds,
         Unsync!GetMut, Unsync!TryInsert, Unsync!Vacant,
         UnsyncCell!Next, UnsyncCell!vars, UnsyncCell!Get, UnsyncCell!EndBorrow,
         UnsyncCell!BeginInit, UnsyncCell!ReentrantInit, UnsyncCell!InitFails,
         UnsyncCell!Take, UnsyncCell!Set, UnsyncCell!InitSucceeds, UnsyncCell!GetMut,
         UnsyncCell!TryInsert, UnsyncCell!Vacant
<1>5. QED
  BY <1>2, <1>3, <1>4, InnerIsUnsync, PTL DEF Unsync!Spec, UnsyncCell!Spec
-----------------------------------------------------------------------------
(* ImpCs implements OnceCellSpec. *)

(* What the refinement mapping makes of the value. *)
Seen == IF inner = Null THEN Null ELSE inner[1]

LEMMA SeenType ==
  ASSUME TypeOK
  PROVE  /\ inner = Null => Seen = Null
         /\ inner # Null => Seen \in Threads /\ Seen # Null
BY ThreadsAssumption DEF TypeOK, Unsync!TypeOK, Closures, Seen

LEMMA InitRefines == Init => OnceCell!Init
<1> SUFFICES ASSUME Init
             PROVE  OnceCell!Init
  OBVIOUS
<1>1. \A t \in Threads : Phase(t) = "idle"
  BY DEF Init, Phase
<1>2. Seen \in Threads \cup {Null}
  BY InitType, SeenType
<1>3. QED
  BY <1>1, <1>2 DEF OnceCell!Init, Seen

(* A step that changes the phase of at most one thread. *)
LEMMA PhaseOfOne ==
  ASSUME NEW t \in Threads, \A u \in Threads \ {t} : Phase(u)' = Phase(u)
  PROVE  [u \in Threads |-> Phase(u)]' = [[u \in Threads |-> Phase(u)] EXCEPT ![t] = Phase(t)']
OBVIOUS

LEMMA SamePhases ==
  ASSUME \A u \in Threads : Phase(u)' = Phase(u)
  PROVE  [u \in Threads |-> Phase(u)]' = [u \in Threads |-> Phase(u)]
OBVIOUS

(* A thread that is not in the section is idle or it is trying, and stays  *)
(* so when another one moves.                                              *)
LEMMA PhaseOutside ==
  ASSUME CsInv, NEW t \in Threads, holder # t
  PROVE  Phase(t) = IF pc[t] = "idle" THEN "idle" ELSE "trying"
BY DEF CsInv, HolderOK, Inside, InClosure, Phase

LEMMA OthersKeepPhase ==
  ASSUME CsInv, CsInv', NEW t \in Threads, holder \in {Null, t}, holder' \in {Null, t},
         \A u \in Threads \ {t} : pc'[u] = pc[u]
  PROVE  \A u \in Threads \ {t} : Phase(u)' = Phase(u)
<1> SUFFICES ASSUME NEW u \in Threads \ {t}
             PROVE  Phase(u)' = Phase(u)
  OBVIOUS
<1>1. holder # u /\ holder' # u /\ pc'[u] = pc[u]
  BY ThreadsAssumption
<1>2. Phase(u) = IF pc[u] = "idle" THEN "idle" ELSE "trying"
  BY <1>1, PhaseOutside
<1>3. Phase(u)' = IF pc'[u] = "idle" THEN "idle" ELSE "trying"
  BY <1>1 DEF CsInv, HolderOK, Inside, InClosure, Phase
<1>4. QED
  BY <1>1, <1>2, <1>3

LEMMA PhaseIsLocal ==
  ASSUME NEW t \in Threads, pc'[t] = pc[t], UNCHANGED <<inner, closures, holder>>
  PROVE  Phase(t)' = Phase(t)
BY DEF Phase, InClosure

LEMMA NextRefines == CsInv /\ CsInv' /\ [Next]_vars => [OnceCell!Next]_OnceCell!vars
<1> SUFFICES ASSUME CsInv, CsInv', [Next]_vars
             PROVE  OnceCell!Next \/ UNCHANGED OnceCell!vars
  OBVIOUS
<1> DEFINE Goal == OnceCell!Next \/ UNCHANGED OnceCell!vars
<1>t. /\ pc \in [Threads -> PCs] /\ closures \in Nat /\ Null \notin Threads
      /\ inner = Null => Seen = Null
      /\ inner # Null => Seen \in Threads /\ Seen # Null
  BY SeenType, ThreadsAssumption DEF CsInv, TypeOK, Unsync!TypeOK
<1>1. ASSUME Seen' = Seen, \A u \in Threads : Phase(u)' = Phase(u)
      PROVE  Goal
  BY <1>1, SamePhases DEF OnceCell!vars, Seen
(* From the program to the cell, ...                                       *)
<1>2. ASSUME NEW t \in Threads, Get(t) \/ GetOrTryInit(t)
      PROVE  Goal
  <2>1. /\ UNCHANGED <<inner, closures, holder>> /\ Seen' = Seen
        /\ pc[t] = Home(t) /\ pc'[t] \in {"read", "enter"}
        /\ \A u \in Threads \ {t} : pc'[u] = pc[u]
    BY <1>2, <1>t DEF Get, GetOrTryInit, InProgram, Goto, Seen
  <2>2. \A u \in Threads \ {t} : Phase(u)' = Phase(u)
    BY <2>1, PhaseIsLocal
  <2>3. CASE InClosure(t)
    <3>1. Phase(t)' = Phase(t)
      BY <2>1, <2>3 DEF Phase, Home, InClosure
    <3>2. QED
      BY <1>1, <2>1, <2>2, <3>1
  <2>4. CASE ~InClosure(t)
    <3>1. Phase(t) = "idle" /\ Phase(t)' = "trying"
      BY <2>1, <2>4 DEF Phase, Home, InClosure
    <3>2. OnceCell!Call(t)
      BY <2>1, <2>2, <3>1, PhaseOfOne DEF OnceCell!Call, Seen
    <3>3. QED
      BY <3>2 DEF OnceCell!Next
  <2>5. QED
    BY <2>3, <2>4
<1>3. ASSUME NEW t \in Threads, Enter(t)
      PROVE  Goal
  <2>1. /\ pc[t] = "enter" /\ holder \in {Null, t} /\ holder' = t /\ inner' = inner
        /\ \/ inner = Null /\ closures' = closures + 1 /\ pc'[t] = "closure"
           \/ inner # Null /\ pc'[t] = "store"
        /\ \A u \in Threads \ {t} : pc'[u] = pc[u]
    BY <1>3, <1>t DEF Enter, Goto, Unsync!BeginInit
  <2>2. (\A u \in Threads \ {t} : Phase(u)' = Phase(u)) /\ Seen' = Seen
    BY <2>1, OthersKeepPhase DEF Seen
  <2>3. CASE inner # Null
    <3>1. Phase(t) = "trying" /\ Phase(t)' = "trying"
      BY <2>1, <2>3 DEF Phase
    <3>2. QED
      BY <1>1, <2>2, <3>1
  <2>4. CASE inner = Null /\ InClosure(t)
    <3>1. Phase(t) = "running" /\ Phase(t)' = "running"
      BY <1>t, <2>1, <2>4 DEF Phase, InClosure
    <3>2. QED
      BY <1>1, <2>2, <3>1
  <2>5. CASE inner = Null /\ ~InClosure(t)
    <3>1. Phase(t) = "trying" /\ Phase(t)' = "running"
      BY <1>t, <2>1, <2>5 DEF Phase, InClosure
    <3>2. \A u \in Threads : Phase(u) # "running"
      BY <1>t, <2>1, <3>1 DEF Phase, InClosure
    <3>3. OnceCell!Start(t)
      BY <1>t, <2>2, <2>5, <3>1, <3>2, PhaseOfOne DEF OnceCell!Start, Seen
    <3>4. QED
      BY <3>3 DEF OnceCell!Next
  <2>6. QED
    BY <2>3, <2>4, <2>5
(* The first closure that succeeds fills the cell, whichever of the nested *)
(* ones it is; what the outer ones return comes too late.                  *)
<1>4. ASSUME NEW t \in Threads, ClosureReturns(t)
      PROVE  Goal
  <2>1. /\ pc[t] = "closure" /\ holder = t /\ closures > 0 /\ closures' = closures - 1
        /\ holder' = holder
        /\ \A u \in Threads \ {t} : pc'[u] = pc[u]
    BY <1>4, <1>t DEF ClosureReturns, ClosureSucceeds, ClosureFails, Goto, CsInv, HolderOK, Inside,
       Unsync!InitSucceeds, Unsync!ReentrantInit, Unsync!InitFails
  <2>2. \/ inner = Null /\ inner' = <<t, closures>> /\ pc'[t] = "store"
        \/ inner' = inner /\ pc'[t] = "fail"
    BY <1>4, <1>t DEF ClosureReturns, ClosureSucceeds, ClosureFails, Goto, AfterFailure,
       Unsync!InitSucceeds, Unsync!TryInsert, Unsync!Vacant, Unsync!ReentrantInit,
       Unsync!InitFails
  <2>3. \A u \in Threads \ {t} : Phase(u)' = Phase(u)
    BY <2>1, OthersKeepPhase
  <2>4. inner = Null => Phase(t) = "running"
    BY <2>1 DEF Phase, InClosure
  <2>5. CASE inner = Null /\ inner' = <<t, closures>> /\ pc'[t] = "store"
    <3>1. inner' # Null /\ Seen' = t
      BY <2>5 DEF CsInv, FullOK, Seen
    <3>2. Phase(t)' = "trying"
      BY <2>5, <3>1 DEF Phase
    <3>3. OnceCell!Succeed(t)
      BY <2>3, <2>4, <2>5, <3>1, <3>2, PhaseOfOne DEF OnceCell!Succeed, Seen
    <3>4. QED
      BY <3>3 DEF OnceCell!Next
  <2>6. CASE inner' = inner /\ pc'[t] = "fail"
    <3>1. Seen' = Seen
      BY <2>6 DEF Seen
    <3>2. CASE inner = Null /\ closures' = 0
      <4>1. Phase(t)' = "failed"
        BY <2>6, <3>2 DEF Phase, InClosure
      <4>2. OnceCell!Fail(t)
        BY <2>3, <2>4, <3>1, <3>2, <4>1, PhaseOfOne DEF OnceCell!Fail, Seen
      <4>3. QED
        BY <4>2 DEF OnceCell!Next
    <3>3. CASE inner = Null /\ closures' # 0
      <4>1. Phase(t)' = "running"
        BY <1>t, <2>1, <2>6, <3>3 DEF Phase, InClosure
      <4>2. QED
        BY <1>1, <2>3, <2>4, <3>1, <3>3, <4>1
    <3>4. CASE inner # Null
      <4>1. Phase(t) = "trying" /\ Phase(t)' = "trying"
        BY <2>1, <2>6, <3>4 DEF Phase
      <4>2. QED
        BY <1>1, <2>3, <3>1, <4>1
    <3>5. QED
      BY <3>2, <3>3, <3>4
  <2>7. QED
    BY <2>2, <2>5, <2>6
<1>5. ASSUME NEW t \in Threads, Store(t)
      PROVE  Goal
  <2>1. /\ UNCHANGED <<inner, closures, holder>> /\ Seen' = Seen
        /\ pc[t] = "store" /\ pc'[t] = "leave"
        /\ \A u \in Threads \ {t} : pc'[u] = pc[u]
    BY <1>5, <1>t DEF Store, Goto, Seen
  <2>2. \A u \in Threads : Phase(u)' = Phase(u)
    BY <2>1, PhaseIsLocal DEF Phase, InClosure
  <2>3. QED
    BY <1>1, <2>1, <2>2
(* ... and back to the program.                                            *)
<1>6. ASSUME NEW t \in Threads, Leave(t)
      PROVE  Goal
  <2>1. /\ pc[t] \in {"leave", "fail"} /\ holder = t
        /\ holder' = IF closures = 0 THEN Null ELSE t
        /\ pc'[t] = IF pc[t] = "leave" THEN "read" ELSE IF closures > 0 THEN "closure" ELSE "idle"
        /\ \A u \in Threads \ {t} : pc'[u] = pc[u]
        /\ UNCHANGED <<inner, closures>> /\ Seen' = Seen
    BY <1>6, <1>t DEF Leave, Released, Home, InClosure, Goto, CsInv, HolderOK, Inside, Seen
  <2>2. \A u \in Threads \ {t} : Phase(u)' = Phase(u)
    BY <2>1, OthersKeepPhase
  <2>3. CASE pc[t] = "leave"
    <3>1. inner # Null
      BY <2>3 DEF CsInv, FullOK
    <3>2. Phase(t) = "trying" /\ Phase(t)' = "trying"
      BY <2>1, <2>3, <3>1 DEF Phase
    <3>3. QED
      BY <1>1, <2>1, <2>2, <3>2
  <2>4. CASE pc[t] = "fail" /\ closures > 0
    <3>1. Phase(t)' = Phase(t)
      BY <2>1, <2>4 DEF Phase, InClosure
    <3>2. QED
      BY <1>1, <2>1, <2>2, <3>1
  <2>5. CASE pc[t] = "fail" /\ closures = 0
    <3>1. Phase(t)' = "idle" /\ Phase(t) = IF inner = Null THEN "failed" ELSE "trying"
      BY <2>1, <2>5 DEF Phase, InClosure
    <3>2. OnceCell!Return(t)
      BY <1>t, <2>1, <2>2, <3>1, PhaseOfOne DEF OnceCell!Return, Seen
    <3>3. QED
      BY <3>2 DEF OnceCell!Next
  <2>6. QED
    BY <1>t, <2>1, <2>3, <2>4, <2>5
<1>7. ASSUME NEW t \in Threads, GetUnchecked(t)
      PROVE  Goal
  <2>1. /\ UNCHANGED <<inner, closures, holder>> /\ Seen' = Seen
        /\ inner # Null /\ pc[t] = "read" /\ pc'[t] = Home(t)
        /\ \A u \in Threads \ {t} : pc'[u] = pc[u]
    BY <1>7, <1>t DEF GetUnchecked, Unsync!Get, Goto, Seen
  <2>2. \A u \in Threads \ {t} : Phase(u)' = Phase(u)
    BY <2>1, PhaseIsLocal
  <2>3. Phase(t) = "trying" /\ Phase(t)' = IF InClosure(t) THEN "trying" ELSE "idle"
    BY <2>1 DEF Phase, Home, InClosure
  <2>4. CASE InClosure(t)
    BY <1>1, <2>1, <2>2, <2>3, <2>4
  <2>5. CASE ~InClosure(t)
    <3>1. OnceCell!Return(t)
      BY <1>t, <2>1, <2>2, <2>3, <2>5, PhaseOfOne DEF OnceCell!Return, Seen
    <3>2. QED
      BY <3>1 DEF OnceCell!Next
  <2>6. QED
    BY <2>4, <2>5
<1>8. ASSUME EndBorrow \/ UNCHANGED vars
      PROVE  Goal
  <2>1. UNCHANGED <<inner, closures, holder, pc>>
    BY <1>8 DEF EndBorrow, Unsync!EndBorrow, vars
  <2>2. Seen' = Seen /\ \A u \in Threads : Phase(u)' = Phase(u)
    BY <2>1, PhaseIsLocal DEF Seen
  <2>3. QED
    BY <1>1, <2>2
<1>9. ASSUME Take
      PROVE  Goal
  <2>1. \A u \in Threads : Phase(u) = "idle" /\ Phase(u)' = "idle"
    BY <1>9 DEF Take, Phase
  <2>2. Seen' = Null
    BY <1>9 DEF Take, Unsync!Take, Seen
  <2>3. OnceCell!Take
    BY <2>1, <2>2, SamePhases DEF OnceCell!Take, Seen
  <2>4. QED
    BY <2>3 DEF OnceCell!Next
<1> HIDE DEF Goal
<1>10. Goal
  BY <1>2, <1>3, <1>4, <1>5, <1>6, <1>7, <1>8, <1>9 DEF Next, Step
<1>11. QED
  BY <1>10 DEF Goal

(* src/imp_cs.rs keeps the promises of OnceCellSpec, for closures that     *)
(* call the cell they are initializing, too.                               *)
THEOREM Refinement == Spec => IsOnceCell
BY InitRefines, NextRefines, CsInvariant, PTL DEF Spec, IsOnceCell, OnceCell!Spec
=============================================================================
