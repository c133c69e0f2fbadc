------------------------- MODULE SyncOnceCellProofs -------------------------
(***************************************************************************)
(* That every value of T has one owner, that no method finds its value     *)
(* missing, and that set answers for its own value, for any number of      *)
(* threads and values.  All three rest on what a thread in each phase of   *)
(* OnceCellSpec still has of what it brought along.                        *)
(***************************************************************************)
EXTENDS SyncOnceCell, TLAPS

MaybeValue == Values \cup {Null}

Ops == {"idle", "try_insert", "get_or_try_init", "get"}

TypeOK ==
  /\ value \in Threads \cup {Null}
  /\ phase \in [Threads -> Cell!Phases]
  /\ held \in MaybeValue
  /\ call \in [Threads -> [op : Ops, arg : MaybeValue, given : MaybeValue]]
  /\ mine \in [Threads -> SUBSET Values]
  /\ ref \in [Threads -> MaybeValue]
  /\ gone \in SUBSET Values
  /\ answer \in [Threads -> {"none", "ok", "err"}]

(* The method that a thread is in, by its phase.                           *)
CallFits(t) ==
  /\ phase[t] = "idle" <=> call[t] = Idle
  /\ phase[t] = "waiting" => call[t].op = "get" /\ call[t].arg = Null
  /\ phase[t] \in {"trying", "running"} => call[t].op \in {"try_insert", "get_or_try_init"}
  /\ phase[t] = "failed" => call[t].op = "get_or_try_init" /\ call[t].arg = Null

(* The value that it brought is still with it, or is now the cell's.       *)
BroughtIsKept(t) ==
  /\ call[t].arg # Null => call[t].arg = call[t].given
  /\ phase[t] = "running" => call[t].arg # Null /\ value = Null
  /\ phase[t] = "trying" /\ call[t].arg = Null => held = call[t].given /\ held # Null

OneRuns ==
  \A t, u \in Threads : phase[t] = "running" /\ phase[u] = "running" => t = u

Inv ==
  /\ TypeOK
  /\ \A t \in Threads : CallFits(t) /\ BroughtIsKept(t)
  /\ OneRuns
  /\ OneOwner
  /\ NothingMissing

-----------------------------------------------------------------------------
(* A step of one thread passes values between it, the cell and the heap.   *)
LEMMA HandOver ==
  ASSUME OneOwner, NEW t \in Threads,
         \A u \in Threads \ {t} : mine'[u] = mine[u] /\ call'[u] = call[u],
         OwnedBy(t)' \cup Contents' \cup gone' = OwnedBy(t) \cup Contents \cup gone,
         Contents' \cap gone' = {}, OwnedBy(t)' \cap (Contents' \cup gone') = {},
         call'[t].arg \notin mine'[t]
  PROVE  OneOwner'
<1>1. \A u \in Threads \ {t} :
        OwnedBy(u)' = OwnedBy(u) /\ (call[u].arg \notin mine[u])' = (call[u].arg \notin mine[u])
  BY DEF OwnedBy
<1>2. \A u \in Threads \ {t} : OwnedBy(u) \cap (OwnedBy(t) \cup Contents \cup gone) = {}
  BY DEF OneOwner
<1>3. \A u \in Threads \ {t} : OwnedBy(u)' \cap (OwnedBy(t)' \cup Contents' \cup gone') = {}
  BY <1>1, <1>2
<1>4. \A v \in Values :
        v \in Contents' \cup gone' \/ \E u \in Threads : v \in OwnedBy(u)'
  <2> SUFFICES ASSUME NEW v \in Values
               PROVE  v \in Contents' \cup gone' \/ \E u \in Threads : v \in OwnedBy(u)'
    OBVIOUS
  <2>1. v \in Contents \cup gone \/ \E u \in Threads : v \in OwnedBy(u)
    BY DEF OneOwner
  <2>2. CASE v \in OwnedBy(t) \cup Contents \cup gone
    BY <2>2
  <2>3. CASE \E u \in Threads \ {t} : v \in OwnedBy(u)
    BY <2>3, <1>1
  <2> QED BY <2>1, <2>2, <2>3
<1>5. \A u \in Threads :
        call'[u].arg \notin mine'[u] /\ OwnedBy(u)' \cap (Contents' \cup gone') = {}
  BY <1>1, <1>3 DEF OneOwner
<1>6. \A u, w \in Threads : u # w => OwnedBy(u)' \cap OwnedBy(w)' = {}
  <2> SUFFICES ASSUME NEW u \in Threads, NEW w \in Threads, u # w
               PROVE  OwnedBy(u)' \cap OwnedBy(w)' = {}
    OBVIOUS
  <2>1. CASE u # t /\ w # t
    BY <2>1, <1>1 DEF OneOwner
  <2>2. CASE u = t
    BY <2>2, <1>3
  <2>3. CASE w = t
    BY <2>3, <1>3
  <2> QED BY <2>1, <2>2, <2>3
<1> QED BY <1>4, <1>5, <1>6 DEF OneOwner

(* A new cell is empty, or has the value that it was made with.            *)
LEMMA InvInit == Init => Inv
<1> SUFFICES ASSUME Init PROVE Inv
  OBVIOUS
<1> USE NullAssumption
<1>1. value \in Threads \cup {Null} /\ phase = [t \in Threads |-> "idle"]
  BY DEF Init, Cell!Init
<1>2. held \in MaybeValue /\ (value # Null <=> held # Null)
  BY <1>1 DEF Init, MaybeValue
<1>3. TypeOK
  BY <1>1, <1>2 DEF Init, TypeOK, Idle, Ops, MaybeValue, Cell!Phases
<1>4. \A t \in Threads : CallFits(t) /\ BroughtIsKept(t)
  BY <1>1 DEF Init, Idle, CallFits, BroughtIsKept
<1>5. OneRuns
  BY <1>1 DEF OneRuns
<1>6. OneOwner
  BY <1>2 DEF Init, Idle, OneOwner, OwnedBy, Contents, MaybeValue
<1>7. NothingMissing
  BY <1>1, <1>2 DEF Init, NothingMissing
<1> QED BY <1>3, <1>4, <1>5, <1>6, <1>7 DEF Inv

(* What one step leaves of the other threads: nothing that they have       *)
(* brought, borrowed or are doing changes, and unless they are all idle    *)
(* the value in the cell stays once it is there.                           *)
Spares(t) ==
  /\ \A u \in Threads \ {t} :
       phase'[u] = phase[u] /\ call'[u] = call[u] /\ mine'[u] = mine[u] /\ ref'[u] = ref[u]
  /\ held # Null => held' = held
  /\ phase'[t] = "running" => phase[t] = "running" \/ \A u \in Threads : phase[u] # "running"
  /\ value' = value \/ phase[t] = "running"

LEMMA SparedStayRight ==
  ASSUME Inv, NEW t \in Threads, Spares(t), OneOwner', TypeOK',
         CallFits(t)', BroughtIsKept(t)', value' # Null <=> held' # Null,
         ref'[t] # Null => held' = ref'[t]
  PROVE  Inv'
<1>1. OneRuns'
  BY DEF Spares, Inv, OneRuns
<1>2. ASSUME NEW u \in Threads \ {t}
      PROVE  CallFits(u)' /\ BroughtIsKept(u)' /\ (ref'[u] # Null => held' = ref'[u])
  <2>1. CallFits(u) /\ BroughtIsKept(u) /\ (ref[u] # Null => held = ref[u])
    BY DEF Inv, NothingMissing
  <2>2. phase'[u] = phase[u] /\ call'[u] = call[u] /\ ref'[u] = ref[u]
    BY DEF Spares
  <2>3. phase[u] = "running" => value' = value
    BY DEF Spares, Inv, OneRuns
  <2> QED BY <2>1, <2>2, <2>3 DEF CallFits, BroughtIsKept, Spares
<1>3. \A u \in Threads : phase'[u] = "running" => call'[u].arg # Null
  BY <1>2 DEF BroughtIsKept
<1> QED BY <1>1, <1>2, <1>3 DEF Inv, NothingMissing

LEMMA MakeKeepsInv ==
  ASSUME Inv, NEW t \in Threads, Make(t)
  PROVE  Inv'
<1> USE NullAssumption
<1>1. UNCHANGED <<value, phase, held, call, ref, answer>> /\ call[t] = Idle
  BY DEF Make, cell
<1>2. PICK v \in Values :
        \/ /\ v \in gone /\ gone' = gone \ {v}
           /\ mine' = [mine EXCEPT ![t] = @ \cup {v}]
        \/ /\ v \in mine[t] /\ gone' = gone \cup {v}
           /\ mine' = [mine EXCEPT ![t] = @ \ {v}]
  BY DEF Make, Inv, TypeOK
<1>3. TypeOK'
  BY <1>1, <1>2 DEF Inv, TypeOK
<1>4. \A u \in Threads \ {t} : mine'[u] = mine[u]
  BY <1>2 DEF Inv, TypeOK
<1>5. \/ v \in gone /\ gone' = gone \ {v} /\ mine'[t] = mine[t] \cup {v}
      \/ v \in mine[t] /\ gone' = gone \cup {v} /\ mine'[t] = mine[t] \ {v}
  BY <1>2 DEF Inv, TypeOK
<1>6. OwnedBy(t) = mine[t] /\ OwnedBy(t)' = mine'[t]
  BY <1>1 DEF OwnedBy, Idle
<1>7. Contents' = Contents /\ Contents \cap (OwnedBy(t) \cup gone) = {}
      /\ OwnedBy(t) \cap gone = {}
  BY <1>1 DEF Contents, Inv, OneOwner
<1>8. call'[t].arg \notin mine'[t]
  BY <1>1, <1>3 DEF Idle, TypeOK
<1>9. OneOwner'
  BY <1>1, <1>4, <1>5, <1>6, <1>7, <1>8, HandOver DEF Inv
<1> QED BY <1>1, <1>3, <1>9 DEF Inv, CallFits, BroughtIsKept, OneRuns, NothingMissing

(* set, try_insert, get_or_init and get_or_try_init are called.            *)
LEMMA BringKeepsInv ==
  ASSUME Inv, NEW t \in Threads, NEW op \in {"try_insert", "get_or_try_init"}, Bring(t, op)
  PROVE  Inv'
<1> USE NullAssumption
<1>1. PICK v \in mine[t] :
        /\ call' = [call EXCEPT ![t] = [op |-> op, arg |-> v, given |-> v]]
        /\ mine' = [mine EXCEPT ![t] = @ \ {v}]
  BY DEF Bring
<1>2. /\ phase[t] = "idle" /\ phase'[t] = "trying" /\ UNCHANGED <<value, held, ref, gone, answer>>
      /\ \E p \in {"trying", "waiting"} : phase' = [phase EXCEPT ![t] = p]
  BY DEF Bring, Cell!Call
<1>3. v \in Values /\ v # Null /\ call[t] = Idle
  BY <1>2 DEF Inv, TypeOK, CallFits
<1>4. TypeOK'
  BY <1>1, <1>2, <1>3 DEF Inv, TypeOK, Ops, MaybeValue, Cell!Phases
<1>5. /\ call'[t] = [op |-> op, arg |-> v, given |-> v] /\ mine'[t] = mine[t] \ {v}
      /\ \A u \in Threads \ {t} :
           phase'[u] = phase[u] /\ call'[u] = call[u] /\ mine'[u] = mine[u]
  BY <1>1, <1>2 DEF Inv, TypeOK
<1>6. Spares(t)
  BY <1>2, <1>5 DEF Spares
<1>7. OneOwner'
  <2>1. OwnedBy(t) = mine[t] /\ OwnedBy(t)' = mine[t] /\ Contents' = Contents
    BY <1>2, <1>3, <1>5 DEF OwnedBy, Contents, Idle
  <2>2. Contents \cap gone = {} /\ OwnedBy(t) \cap (Contents \cup gone) = {}
    BY DEF Inv, OneOwner
  <2> QED BY <1>2, <1>5, <2>1, <2>2, HandOver DEF Inv
<1>8. CallFits(t)' /\ BroughtIsKept(t)'
  BY <1>2, <1>3, <1>5 DEF CallFits, BroughtIsKept, Idle
<1> QED BY <1>2, <1>4, <1>6, <1>7, <1>8, SparedStayRight DEF Inv, NothingMissing

(* A step of t that changes no owner: neither what t has nor the heap.     *)
LEMMA SameOwners ==
  ASSUME Inv, NEW t \in Threads,
         \A u \in Threads \ {t} : mine'[u] = mine[u] /\ call'[u] = call[u],
         UNCHANGED <<held, gone>>, OwnedBy(t)' = OwnedBy(t), call'[t].arg \notin mine'[t]
  PROVE  OneOwner'
<1>1. Contents' = Contents
  BY DEF Contents
<1>2. Contents \cap gone = {} /\ OwnedBy(t) \cap (Contents \cup gone) = {}
  BY DEF Inv, OneOwner
<1> QED BY <1>1, <1>2, HandOver DEF Inv

LEMMA GetKeepsInv ==
  ASSUME Inv, NEW t \in Threads, Get(t)
  PROVE  Inv'
<1> USE NullAssumption
<1>1. /\ phase[t] = "idle" /\ phase' = [phase EXCEPT ![t] = "waiting"]
      /\ call' = [call EXCEPT ![t].op = "get"]
      /\ UNCHANGED <<value, held, mine, ref, gone, answer>>
  BY DEF Get, Cell!Call, Inv, TypeOK
<1>2. call[t] = Idle
  BY <1>1 DEF Inv, CallFits
<1>3. TypeOK'
  BY <1>1 DEF Inv, TypeOK, Ops, Cell!Phases
<1>4. /\ phase'[t] = "waiting"
      /\ call'[t] = [op |-> "get", arg |-> Null, given |-> Null] /\ mine'[t] = mine[t]
      /\ \A u \in Threads \ {t} :
           phase'[u] = phase[u] /\ call'[u] = call[u] /\ mine'[u] = mine[u]
  BY <1>1, <1>2 DEF Inv, TypeOK, Idle
<1>5. Spares(t)
  BY <1>1, <1>4 DEF Spares
<1>6. OwnedBy(t)' = OwnedBy(t) /\ call'[t].arg \notin mine'[t]
  BY <1>2, <1>3, <1>4 DEF OwnedBy, Idle, TypeOK
<1>7. OneOwner'
  BY <1>1, <1>4, <1>6, SameOwners
<1>8. CallFits(t)' /\ BroughtIsKept(t)'
  BY <1>4 DEF CallFits, BroughtIsKept, Idle
<1> QED BY <1>1, <1>3, <1>5, <1>7, <1>8, SparedStayRight DEF Inv, NothingMissing

(* A function starts with the value it was called with, since its thread   *)
(* could only have lost it to the cell, which is empty.                    *)
LEMMA StartKeepsInv ==
  ASSUME Inv, NEW t \in Threads, Start(t)
  PROVE  Inv'
<1>1. /\ phase[t] = "trying" /\ value = Null /\ \A u \in Threads : phase[u] # "running"
      /\ phase' = [phase EXCEPT ![t] = "running"]
      /\ UNCHANGED <<value, held, call, mine, ref, gone, answer>>
  BY DEF Start, Cell!Start
<1>2. TypeOK'
  BY <1>1 DEF Inv, TypeOK, Cell!Phases
<1>3. phase'[t] = "running" /\ \A u \in Threads \ {t} : phase'[u] = phase[u]
  BY <1>1 DEF Inv, TypeOK
<1>4. Spares(t)
  BY <1>1, <1>3 DEF Spares
<1>5. OneOwner'
  BY <1>1 DEF Inv, OneOwner, OwnedBy, Contents
<1>6. CallFits(t)' /\ BroughtIsKept(t)'
  BY <1>1, <1>3 DEF Inv, NothingMissing, CallFits, BroughtIsKept
<1> QED BY <1>1, <1>2, <1>4, <1>5, <1>6, SparedStayRight DEF Inv, NothingMissing

LEMMA ProduceKeepsInv ==
  ASSUME Inv, NEW t \in Threads, Produce(t)
  PROVE  Inv'
<1> USE NullAssumption
<1>1. /\ phase[t] = "running" /\ value' = t /\ phase' = [phase EXCEPT ![t] = "trying"]
      /\ held' = call[t].arg /\ call' = [call EXCEPT ![t].arg = Null]
      /\ UNCHANGED <<mine, ref, gone, answer>>
  BY DEF Produce, Cell!Succeed
<1>2. call[t].arg \in Values /\ call[t].arg = call[t].given /\ value = Null /\ held = Null
  BY <1>1 DEF Inv, TypeOK, MaybeValue, BroughtIsKept, NothingMissing
<1>3. TypeOK'
  BY <1>1, <1>2 DEF Inv, TypeOK, MaybeValue, Cell!Phases
<1>4. /\ phase'[t] = "trying" /\ call'[t] = [call[t] EXCEPT !.arg = Null] /\ mine'[t] = mine[t]
      /\ \A u \in Threads \ {t} :
           phase'[u] = phase[u] /\ call'[u] = call[u] /\ mine'[u] = mine[u]
  BY <1>1 DEF Inv, TypeOK
<1>5. call'[t].arg = Null /\ call'[t].op = call[t].op /\ call'[t].given = call[t].given
  BY <1>4 DEF Inv, TypeOK
<1>6. Spares(t)
  BY <1>1, <1>2, <1>4 DEF Spares
<1>7. OneOwner'
  <2>1. Contents = {} /\ Contents' = {call[t].arg}
    BY <1>1, <1>2 DEF Contents
  <2>2. OwnedBy(t) = mine[t] \cup {call[t].arg} /\ OwnedBy(t)' = mine[t]
    BY <1>2, <1>4, <1>5 DEF OwnedBy
  <2>3. call[t].arg \notin mine[t] /\ OwnedBy(t) \cap (Contents \cup gone) = {}
    BY DEF Inv, OneOwner
  <2>4. call'[t].arg \notin mine'[t]
    BY <1>3, <1>5 DEF TypeOK
  <2> QED BY <1>1, <1>4, <2>1, <2>2, <2>3, <2>4, HandOver DEF Inv
<1>8. CallFits(t)' /\ BroughtIsKept(t)'
  BY <1>1, <1>2, <1>4, <1>5 DEF Inv, CallFits, BroughtIsKept, Idle
<1>9. ref'[t] # Null => held' = ref'[t]
  BY <1>1, <1>2 DEF Inv, NothingMissing
<1> QED BY <1>1, <1>2, <1>3, <1>6, <1>7, <1>8, <1>9, SparedStayRight

LEMMA FailKeepsInv ==
  ASSUME Inv, NEW t \in Threads, Fail(t)
  PROVE  Inv'
<1> USE NullAssumption
<1>1. PICK p \in {"idle", "failed"} :
        /\ phase[t] = "running" /\ phase' = [phase EXCEPT ![t] = p]
        /\ UNCHANGED <<value, held, mine, ref>>
        /\ gone' = gone \cup {call[t].arg} /\ answer' = [answer EXCEPT ![t] = "err"]
        /\ call[t].op = "get_or_try_init"
  BY DEF Fail, Cell!Fail
<1>2. phase'[t] = p
  BY <1>1 DEF Inv, TypeOK
<1>3. call[t].arg \in Values /\ value = Null /\ held = Null
  BY <1>1 DEF Inv, TypeOK, MaybeValue, BroughtIsKept, NothingMissing
<1>4. /\ call'[t] = IF p = "idle" THEN Idle ELSE [call[t] EXCEPT !.arg = Null]
      /\ \A u \in Threads \ {t} : call'[u] = call[u]
      /\ call' \in [Threads -> [op : Ops, arg : MaybeValue, given : MaybeValue]]
  BY <1>2 DEF Fail, Inv, TypeOK, Idle, Ops, MaybeValue
<1>5. TypeOK'
  BY <1>1, <1>3, <1>4 DEF Inv, TypeOK, Cell!Phases
<1>6. call'[t].arg = Null /\ (p = "failed" => call'[t].op = "get_or_try_init")
  BY <1>1, <1>4 DEF Inv, TypeOK, Idle
<1>7. Spares(t)
  BY <1>1, <1>2, <1>4 DEF Inv, TypeOK, Spares
<1>8. OneOwner'
  <2>1. Contents' = Contents /\ Contents = {}
    BY <1>1, <1>3 DEF Contents
  <2>2. OwnedBy(t) = mine[t] \cup {call[t].arg} /\ OwnedBy(t)' = mine[t]
    BY <1>1, <1>3, <1>6 DEF OwnedBy
  <2>3. call[t].arg \notin mine[t] /\ OwnedBy(t) \cap (Contents \cup gone) = {}
    BY DEF Inv, OneOwner
  <2>4. call'[t].arg \notin mine'[t]
    BY <1>5, <1>6 DEF TypeOK
  <2> QED BY <1>1, <1>4, <2>1, <2>2, <2>3, <2>4, HandOver DEF Inv
<1>9. CallFits(t)' /\ BroughtIsKept(t)'
  BY <1>2, <1>4, <1>6 DEF CallFits, BroughtIsKept, Idle
<1> QED BY <1>1, <1>5, <1>7, <1>8, <1>9, SparedStayRight DEF Inv, NothingMissing

(* What a call that returns knows: the cell is full, and a value that is   *)
(* still with it is another.                                               *)
LEMMA Returning ==
  ASSUME Inv, NEW t \in Threads, Cell!Return(t)
  PROVE  /\ phase' = [phase EXCEPT ![t] = "idle"] /\ value' = value
         /\ phase[t] # "failed" => held # Null
         /\ call[t].op # "idle" /\ phase[t] # "running"
BY DEF Cell!Return, Inv, NothingMissing, CallFits, TypeOK, Idle

LEMMA InsertReturnsKeepsInv ==
  ASSUME Inv, NEW t \in Threads, InsertReturns(t)
  PROVE  Inv'
<1> USE NullAssumption
<1>1. /\ call[t].op = "try_insert" /\ UNCHANGED <<held, gone>>
      /\ answer' = [answer EXCEPT ![t] = IF IsOk(t) THEN "ok" ELSE "err"]
      /\ mine' = [mine EXCEPT ![t] = @ \cup (IF IsOk(t) THEN {} ELSE {call[t].arg})]
      /\ call' = [call EXCEPT ![t] = Idle]
      /\ Cell!Return(t)
  BY DEF InsertReturns
<1>2. PICK keep \in BOOLEAN : ref' = IF keep THEN [ref EXCEPT ![t] = held] ELSE ref
  BY DEF InsertReturns
<1>3. phase' = [phase EXCEPT ![t] = "idle"] /\ value' = value
  BY <1>1, Returning
<1>4. TypeOK'
  BY <1>1, <1>2, <1>3 DEF Inv, TypeOK, IsOk, Idle, Ops, MaybeValue, Cell!Phases
<1>5. /\ phase'[t] = "idle" /\ call'[t] = Idle
      /\ mine'[t] = mine[t] \cup (IF IsOk(t) THEN {} ELSE {call[t].arg})
      /\ ref'[t] \in {ref[t], held}
      /\ \A u \in Threads \ {t} :
           phase'[u] = phase[u] /\ call'[u] = call[u] /\ mine'[u] = mine[u] /\ ref'[u] = ref[u]
  BY <1>1, <1>2, <1>3 DEF Inv, TypeOK
<1>6. Spares(t)
  BY <1>1, <1>3, <1>5 DEF Spares
<1>7. OneOwner'
  <2>1. OwnedBy(t)' = OwnedBy(t)
    BY <1>5 DEF OwnedBy, IsOk, Idle
  <2>2. call'[t].arg \notin mine'[t]
    BY <1>4, <1>5 DEF TypeOK, Idle
  <2> QED BY <1>1, <1>5, <2>1, <2>2, SameOwners
<1>8. CallFits(t)' /\ BroughtIsKept(t)'
  BY <1>5 DEF CallFits, BroughtIsKept, Idle
<1>9. ref'[t] # Null => held' = ref'[t]
  BY <1>1, <1>5 DEF Inv, NothingMissing
<1> QED BY <1>1, <1>3, <1>4, <1>6, <1>7, <1>8, <1>9, SparedStayRight DEF Inv, NothingMissing

LEMMA GetReturnsKeepsInv ==
  ASSUME Inv, NEW t \in Threads, GetReturns(t)
  PROVE  Inv'
<1> USE NullAssumption
<1>1. /\ UNCHANGED <<held, mine>>
      /\ answer' = [answer EXCEPT ![t] = IF phase[t] = "failed" THEN @ ELSE "ok"]
      /\ ref' = [ref EXCEPT ![t] = IF phase[t] = "failed" THEN @ ELSE held]
      /\ gone' = gone \cup ({call[t].arg} \ {Null})
      /\ call' = [call EXCEPT ![t] = Idle]
      /\ Cell!Return(t)
  BY DEF GetReturns
<1>2. phase' = [phase EXCEPT ![t] = "idle"] /\ value' = value
  BY <1>1, Returning
<1>3. TypeOK'
  BY <1>1, <1>2 DEF Inv, TypeOK, Idle, Ops, MaybeValue, Cell!Phases
<1>4. /\ phase'[t] = "idle" /\ call'[t] = Idle /\ mine'[t] = mine[t]
      /\ ref'[t] \in {ref[t], held}
      /\ \A u \in Threads \ {t} :
           phase'[u] = phase[u] /\ call'[u] = call[u] /\ mine'[u] = mine[u] /\ ref'[u] = ref[u]
  BY <1>1, <1>2 DEF Inv, TypeOK
<1>5. Spares(t)
  BY <1>1, <1>2, <1>4 DEF Spares
<1>6. OneOwner'
  <2>1. OwnedBy(t)' = mine[t] /\ Contents' = Contents
    BY <1>1, <1>4 DEF OwnedBy, Contents, Idle
  <2>2. /\ call[t].arg \notin mine[t] /\ OwnedBy(t) \cap (Contents \cup gone) = {}
        /\ Contents \cap gone = {}
    BY DEF Inv, OneOwner
  <2>3. call'[t].arg \notin mine'[t]
    BY <1>3, <1>4 DEF TypeOK, Idle
  <2>4. OwnedBy(t) = mine[t] \cup ({call[t].arg} \ {Null})
    BY DEF OwnedBy
  <2> QED BY <1>1, <1>4, <2>1, <2>2, <2>3, <2>4, HandOver DEF Inv
<1>7. CallFits(t)' /\ BroughtIsKept(t)'
  BY <1>4 DEF CallFits, BroughtIsKept, Idle
<1>8. ref'[t] # Null => held' = ref'[t]
  BY <1>1, <1>4 DEF Inv, NothingMissing
<1> QED BY <1>1, <1>2, <1>3, <1>5, <1>6, <1>7, <1>8, SparedStayRight DEF Inv, NothingMissing

LEMMA EndBorrowKeepsInv ==
  ASSUME Inv, NEW t \in Threads, EndBorrow(t)
  PROVE  Inv'
<1>1. /\ ref' = [ref EXCEPT ![t] = Null]
      /\ UNCHANGED <<value, phase, held, call, mine, gone, answer>>
  BY DEF EndBorrow, cell
<1>2. TypeOK' /\ NothingMissing'
  BY <1>1 DEF Inv, TypeOK, MaybeValue, NothingMissing
<1>3. OneOwner'
  BY <1>1 DEF Inv, OneOwner, OwnedBy, Contents
<1> QED BY <1>1, <1>2, <1>3 DEF Inv, CallFits, BroughtIsKept, OneRuns

(* With exclusive access nobody has brought, borrowed or is doing anything. *)
LEMMA ExclusiveKeepsInv ==
  ASSUME Inv, Exclusive, UNCHANGED <<phase, call, ref, answer>>, TypeOK', OneOwner',
         value' # Null <=> held' # Null
  PROVE  Inv'
BY DEF Inv, Exclusive, CallFits, BroughtIsKept, OneRuns, NothingMissing, Idle

LEMMA TakeKeepsInv ==
  ASSUME Inv, NEW t \in Threads, Take(t)
  PROVE  Inv'
<1> USE NullAssumption
<1>1. /\ Exclusive /\ value' = Null /\ held' = Null
      /\ mine' = [mine EXCEPT ![t] = @ \cup ({held} \ {Null})]
      /\ UNCHANGED <<phase, call, ref, gone, answer>>
  BY DEF Take, Cell!Take
<1>2. TypeOK'
  BY <1>1 DEF Inv, TypeOK, MaybeValue
<1>3. /\ mine'[t] = mine[t] \cup Contents
      /\ \A u \in Threads \ {t} : mine'[u] = mine[u]
  BY <1>1 DEF Inv, TypeOK, Contents
<1>4. OneOwner'
  <2>1. /\ OwnedBy(t) = mine[t] /\ OwnedBy(t)' = mine[t] \cup Contents /\ Contents' = {}
        /\ call'[t].arg \notin mine'[t]
    BY <1>1, <1>2, <1>3 DEF Exclusive, OwnedBy, Contents, Idle, TypeOK
  <2>2. OwnedBy(t) \cap (Contents \cup gone) = {} /\ Contents \cap gone = {}
    BY DEF Inv, OneOwner
  <2> QED BY <1>1, <1>3, <2>1, <2>2, HandOver DEF Inv
<1> QED BY <1>1, <1>2, <1>4, ExclusiveKeepsInv

LEMMA GetMutKeepsInv ==
  ASSUME Inv, NEW t \in Threads, GetMut(t)
  PROVE  Inv'
<1> USE NullAssumption
<1>1. PICK v \in mine[t] :
        /\ Exclusive /\ held # Null /\ held' = v
        /\ mine' = [mine EXCEPT ![t] = @ \ {v}] /\ gone' = gone \cup {held}
        /\ UNCHANGED <<value, phase, call, ref, answer>>
  BY DEF GetMut, cell
<1>2. v \in Values /\ v # Null /\ held \in Values
  BY <1>1 DEF Inv, TypeOK, MaybeValue
<1>3. TypeOK'
  BY <1>1, <1>2 DEF Inv, TypeOK, MaybeValue
<1>4. mine'[t] = mine[t] \ {v} /\ \A u \in Threads \ {t} : mine'[u] = mine[u]
  BY <1>1 DEF Inv, TypeOK
<1>5. OneOwner'
  <2>1. /\ OwnedBy(t) = mine[t] /\ OwnedBy(t)' = mine[t] \ {v}
        /\ Contents = {held} /\ Contents' = {v} /\ call'[t].arg \notin mine'[t]
    BY <1>1, <1>2, <1>3, <1>4 DEF Exclusive, OwnedBy, Contents, Idle, TypeOK
  <2>2. OwnedBy(t) \cap (Contents \cup gone) = {} /\ Contents \cap gone = {}
    BY DEF Inv, OneOwner
  <2> QED BY <1>1, <1>4, <2>1, <2>2, HandOver DEF Inv
<1> QED BY <1>1, <1>2, <1>3, <1>5, ExclusiveKeepsInv DEF Inv, NothingMissing

LEMMA InvNext == Inv /\ [Next]_vars => Inv'
<1> SUFFICES ASSUME Inv, [Next]_vars PROVE Inv'
  OBVIOUS
<1>1. CASE UNCHANGED vars
  BY <1>1 DEF vars, Inv, TypeOK, CallFits, BroughtIsKept, OneRuns, OneOwner, OwnedBy, Contents,
              NothingMissing
<1>2. CASE Next
  <2>1. PICK t \in Threads :
          \/ Step(t) \/ TryInsert(t) \/ GetOrTryInit(t) \/ Get(t)
          \/ Make(t) \/ EndBorrow(t) \/ Take(t) \/ GetMut(t)
    BY <1>2 DEF Next
  <2>2. CASE Step(t)
    BY <2>2, StartKeepsInv, ProduceKeepsInv, FailKeepsInv, InsertReturnsKeepsInv,
       GetReturnsKeepsInv DEF Step
  <2>3. CASE TryInsert(t)
    BY <2>3, BringKeepsInv DEF TryInsert
  <2>4. CASE GetOrTryInit(t)
    BY <2>4, BringKeepsInv DEF GetOrTryInit
  <2> QED BY <2>1, <2>2, <2>3, <2>4, GetKeepsInv, MakeKeepsInv, EndBorrowKeepsInv,
             TakeKeepsInv, GetMutKeepsInv
<1> QED BY <1>1, <1>2

LEMMA AlwaysInv == Spec => []Inv
BY InvInit, InvNext, PTL DEF Spec

-----------------------------------------------------------------------------
(* Every value of T has one owner, whatever the threads call.              *)
THEOREM ValuesHaveOneOwner == Spec => []OneOwner
<1>1. Inv => OneOwner
  BY DEF Inv
<1> QED BY <1>1, AlwaysInv, PTL

(* unwrap_unchecked finds a value, and so does every borrow of the cell's. *)
THEOREM UncheckedReadsFindAValue == Spec => []NothingMissing
<1>1. Inv => NothingMissing
  BY DEF Inv
<1> QED BY <1>1, AlwaysInv, PTL

(* set answers Ok for the value that is in the cell, and only for it.      *)
THEOREM SetTellsTheTruth == Spec => SetAnswersForItsValue
<1> DEFINE Answers ==
      \A t \in Threads :
        call[t].op = "try_insert" /\ call'[t].op = "idle" =>
          LET v == call[t].given
          IN  /\ answer'[t] = "ok" <=> held' = v
              /\ answer'[t] = "err" <=> v \in mine'[t]
<1>1. Inv /\ [Next]_vars => [Answers]_vars
  <2> SUFFICES ASSUME Inv, Next, NEW t \in Threads,
                      call[t].op = "try_insert", call'[t].op = "idle"
               PROVE  LET v == call[t].given
                      IN  /\ answer'[t] = "ok" <=> held' = v
                          /\ answer'[t] = "err" <=> v \in mine'[t]
    OBVIOUS
  <2> DEFINE v == call[t].given
  <2>1. InsertReturns(t)
    BY DEF Next, Step, TryInsert, GetOrTryInit, Bring, Get, Make, EndBorrow, Take, GetMut,
           Start, Produce, Fail, InsertReturns, GetReturns, Inv, TypeOK, Idle
  <2>2. /\ held' = held
        /\ answer'[t] = IF IsOk(t) THEN "ok" ELSE "err"
        /\ mine'[t] = mine[t] \cup (IF IsOk(t) THEN {} ELSE {call[t].arg})
    BY <2>1 DEF InsertReturns, Inv, TypeOK
  <2>3. phase[t] = "trying" /\ held # Null /\ BroughtIsKept(t)
    BY <2>1, Returning DEF InsertReturns, Cell!Return, Inv, CallFits
  <2>4. CASE IsOk(t)
    <3>1. held = v /\ held \in Contents
      BY <2>3, <2>4 DEF IsOk, BroughtIsKept, Contents
    <3>2. v \notin mine[t]
      BY <3>1 DEF Inv, OneOwner, OwnedBy
    <3> QED BY <2>2, <2>4, <3>1, <3>2
  <2>5. CASE ~ IsOk(t)
    <3>1. call[t].arg = v /\ v # Null
      BY <2>3, <2>5 DEF IsOk, BroughtIsKept
    <3>2. held # v
      BY <2>3, <3>1 DEF Inv, OneOwner, OwnedBy, Contents
    <3> QED BY <2>2, <2>5, <3>1, <3>2
  <2> QED BY <2>4, <2>5
<1> QED BY <1>1, AlwaysInv, PTL DEF Spec, SetAnswersForItsValue

=============================================================================
