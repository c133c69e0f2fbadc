----------------------------- MODULE LazyProofs -----------------------------
(* Theorems about Lazy for any set of Lazies, whatever their functions     *)
(* force, and any set of threads.                                          *)
EXTENDS Lazy, SequenceTheorems, TLAPS

(* A thread calls on from a function only: what its innermost call is not, *)
(* is waiting for the next one to return.                                  *)
CallersRunF ==
  \A t \in Threads : \A i \in 1..Len(calls[t]) :
    i < Len(calls[t]) => calls[t][i].at = "f"

(* The function of a Lazy runs in one place.                               *)
OneRunsF ==
  \A t, u \in Threads : \A i \in 1..Len(calls[t]), j \in 1..Len(calls[u]) :
    /\ calls[t][i].lazy = calls[u][j].lazy
    /\ calls[t][i].at = "f" /\ calls[u][j].at = "f"
    => t = u /\ i = j

(* A cell of sync is initialized in one place, and not when it is full.    *)
OneInitializes ==
  \A t, u \in Threads : \A i \in 1..Len(calls[t]), j \in 1..Len(calls[u]) :
    /\ calls[t][i].lazy \notin Unsync
    /\ calls[t][i].lazy = calls[u][j].lazy
    /\ calls[t][i].at # "cell" /\ calls[u][j].at # "cell"
    => t = u /\ i = j

FullIsLeft ==
  \A t \in Threads : \A i \in 1..Len(calls[t]) :
    calls[t][i].lazy \notin Unsync /\ calls[t][i].at # "cell"
      => value[calls[t][i].lazy] = Null

LazyInv ==
  /\ TypeOK /\ FunctionOrValue
  /\ CallersRunF /\ OneRunsF /\ OneInitializes /\ FullIsLeft
-----------------------------------------------------------------------------
(* What the actions do to the calls. *)

LEMMA FrameType ==
  ASSUME TypeOK, NEW t \in Threads
  PROVE  /\ calls[t] \in Seq(Frames) /\ Len(calls[t]) \in Nat
         /\ DOMAIN calls[t] = 1..Len(calls[t])
         /\ \A i \in 1..Len(calls[t]) : calls[t][i] \in Frames
         /\ calls[t] # <<>> => Len(calls[t]) \in 1..Len(calls[t])
<1>1. calls[t] \in Seq(Frames)
  BY DEF TypeOK
<1> QED
  BY <1>1

LEMMA AtTop ==
  ASSUME TypeOK, NEW t \in Threads, NEW p, At(t, p)
  PROVE  /\ Len(calls[t]) \in 1..Len(calls[t])
         /\ calls[t][Len(calls[t])].at = p
         /\ This(t) = calls[t][Len(calls[t])].lazy
         /\ This(t) \in Lazies
BY FrameType DEF At, This, Last, Frames

LEMMA PushFrame ==
  ASSUME TypeOK, NEW t \in Threads, NEW fr \in Frames,
         calls' = [calls EXCEPT ![t] = Append(@, fr)]
  PROVE  /\ calls' \in [Threads -> Seq(Frames)]
         /\ Len(calls'[t]) = Len(calls[t]) + 1
         /\ \A i \in 1..Len(calls[t]) : calls'[t][i] = calls[t][i]
         /\ calls'[t][Len(calls[t]) + 1] = fr
         /\ \A u \in Threads \ {t} : calls'[u] = calls[u]
<1>1. calls[t] \in Seq(Frames) /\ calls'[t] = Append(calls[t], fr)
  BY DEF TypeOK
<1>2. \A u \in Threads \ {t} : calls'[u] = calls[u]
  BY DEF TypeOK
<1>3. Append(calls[t], fr) \in Seq(Frames)
  BY <1>1
<1>4. calls' \in [Threads -> Seq(Frames)]
  BY <1>1, <1>3 DEF TypeOK
<1> QED
  BY <1>1, <1>2, <1>4

LEMMA PopFrame ==
  ASSUME TypeOK, NEW t \in Threads, calls[t] # <<>>, Leave(t)
  PROVE  /\ calls' \in [Threads -> Seq(Frames)]
         /\ Len(calls'[t]) = Len(calls[t]) - 1
         /\ \A i \in 1..Len(calls'[t]) : calls'[t][i] = calls[t][i]
         /\ \A u \in Threads \ {t} : calls'[u] = calls[u]
<1> DEFINE n == Len(calls[t])
<1>1. calls[t] \in Seq(Frames) /\ calls'[t] = SubSeq(calls[t], 1, n - 1) /\ n \in 1..n
  BY FrameType DEF TypeOK, Leave, Front
<1>2. \A u \in Threads \ {t} : calls'[u] = calls[u]
  BY DEF TypeOK, Leave
<1>3. /\ calls'[t] \in Seq(Frames) /\ Len(calls'[t]) = n - 1
      /\ \A i \in 1..(n - 1) : calls'[t][i] = calls[t][i]
  BY <1>1, SubSeqProperties, Z3
<1>4. calls' \in [Threads -> Seq(Frames)]
  BY <1>3 DEF TypeOK, Leave
<1> QED
  BY <1>2, <1>3, <1>4

LEMMA MoveFrame ==
  ASSUME TypeOK, NEW t \in Threads, calls[t] # <<>>,
         NEW p \in {"cell", "closure", "f"}, GotoIn(t, p)
  PROVE  /\ calls' \in [Threads -> Seq(Frames)]
         /\ Len(calls'[t]) = Len(calls[t])
         /\ \A i \in 1..Len(calls[t]) :
              /\ calls'[t][i].lazy = calls[t][i].lazy
              /\ calls'[t][i].of = calls[t][i].of
              /\ calls'[t][i].at = IF i = Len(calls[t]) THEN p ELSE calls[t][i].at
         /\ \A u \in Threads \ {t} : calls'[u] = calls[u]
<1> DEFINE n == Len(calls[t])
           fr == [calls[t][n] EXCEPT !.at = p]
<1>1. calls[t] \in Seq(Frames) /\ n \in 1..n /\ calls[t][n] \in Frames
  BY FrameType DEF TypeOK
<1>2. fr \in Frames /\ fr.lazy = calls[t][n].lazy /\ fr.of = calls[t][n].of /\ fr.at = p
  BY <1>1 DEF Frames
<1> HIDE DEF fr
<1>3. calls' = [calls EXCEPT ![t] = [calls[t] EXCEPT ![n] = fr]]
  BY DEF GotoIn, fr
<1>4. /\ [calls[t] EXCEPT ![n] = fr] \in Seq(Frames)
      /\ Len([calls[t] EXCEPT ![n] = fr]) = n
  BY <1>1, <1>2
<1>5. calls'[t] = [calls[t] EXCEPT ![n] = fr] /\ calls' \in [Threads -> Seq(Frames)]
      /\ \A u \in Threads \ {t} : calls'[u] = calls[u]
  BY <1>3, <1>4 DEF TypeOK
<1>6. DOMAIN calls[t] = 1..n
  BY <1>1
<1>7. \A i \in 1..n : calls'[t][i] = IF i = n THEN fr ELSE calls[t][i]
  BY <1>5, <1>6
<1> QED
  BY <1>2, <1>4, <1>5, <1>7
-----------------------------------------------------------------------------
(* The invariant. *)

LEMMA RunsFIn ==
  ASSUME TypeOK, NEW t \in Threads, NEW l
  PROVE  RunsF(t, l)
           <=> \E i \in 1..Len(calls[t]) : calls[t][i].lazy = l /\ calls[t][i].at = "f"
BY FrameType DEF RunsF

LEMMA RunsFInNext ==
  ASSUME TypeOK', NEW t \in Threads, NEW l
  PROVE  RunsF(t, l)'
           <=> \E i \in 1..Len(calls'[t]) : calls'[t][i].lazy = l /\ calls'[t][i].at = "f"
<1>1. calls'[t] \in Seq(Frames)
  BY DEF TypeOK
<1>2. DOMAIN calls'[t] = 1..Len(calls'[t])
  BY <1>1
<1> QED
  BY <1>2 DEF RunsF

LEMMA InitLazy == Init => LazyInv
<1> SUFFICES ASSUME Init
             PROVE  LazyInv
  OBVIOUS
<1>1. TypeOK
  BY LazyAssumption DEF Init, TypeOK
<1>2. \A t \in Threads : calls[t] = <<>> /\ Len(calls[t]) = 0
  BY DEF Init
<1>3. FunctionOrValue
  BY <1>1, <1>2, RunsFIn DEF Init, FunctionOrValue
<1> QED
  BY <1>1, <1>2, <1>3 DEF LazyInv, CallersRunF, OneRunsF, OneInitializes, FullIsLeft

LEMMA InitializingIn ==
  ASSUME TypeOK, NEW t \in Threads, NEW l
  PROVE  Initializing(t, l)
           <=> \E i \in 1..Len(calls[t]) : calls[t][i].lazy = l /\ calls[t][i].at # "cell"
BY FrameType DEF Initializing

(* A step after which fewer functions run, ...                             *)
LEMMA FewerRunF ==
  ASSUME OneRunsF,
         \A u \in Threads : \A i \in 1..Len(calls'[u]) :
           calls'[u][i].at = "f"
             => /\ i \in 1..Len(calls[u]) /\ calls[u][i].at = "f"
                /\ calls'[u][i].lazy = calls[u][i].lazy
  PROVE  OneRunsF'
<1> SUFFICES ASSUME NEW u \in Threads, NEW v \in Threads,
                    NEW i \in 1..Len(calls'[u]), NEW j \in 1..Len(calls'[v]),
                    calls'[u][i].lazy = calls'[v][j].lazy,
                    calls'[u][i].at = "f", calls'[v][j].at = "f"
             PROVE  u = v /\ i = j
  BY DEF OneRunsF
<1>1. /\ i \in 1..Len(calls[u]) /\ calls[u][i].at = "f"
      /\ j \in 1..Len(calls[v]) /\ calls[v][j].at = "f"
      /\ calls[u][i].lazy = calls[v][j].lazy
  OBVIOUS
<1> QED
  BY <1>1 DEF OneRunsF

(* ... or fewer cells are being initialized, while none gets a value that  *)
(* is being initialized still.                                             *)
LEMMA FewerInitialize ==
  ASSUME OneInitializes, FullIsLeft,
         \A u \in Threads : \A i \in 1..Len(calls'[u]) :
           calls'[u][i].lazy \notin Unsync /\ calls'[u][i].at # "cell"
             => /\ i \in 1..Len(calls[u]) /\ calls[u][i].at # "cell"
                /\ calls'[u][i].lazy = calls[u][i].lazy
                /\ value'[calls[u][i].lazy] = value[calls[u][i].lazy]
  PROVE  OneInitializes' /\ FullIsLeft'
<1>1. OneInitializes'
  <2> SUFFICES ASSUME NEW u \in Threads, NEW v \in Threads,
                      NEW i \in 1..Len(calls'[u]), NEW j \in 1..Len(calls'[v]),
                      calls'[u][i].lazy \notin Unsync,
                      calls'[u][i].lazy = calls'[v][j].lazy,
                      calls'[u][i].at # "cell", calls'[v][j].at # "cell"
               PROVE  u = v /\ i = j
    BY DEF OneInitializes
  <2>1. /\ i \in 1..Len(calls[u]) /\ calls[u][i].at # "cell"
        /\ j \in 1..Len(calls[v]) /\ calls[v][j].at # "cell"
        /\ calls[u][i].lazy = calls[v][j].lazy /\ calls[u][i].lazy \notin Unsync
    OBVIOUS
  <2> QED
    BY <2>1 DEF OneInitializes
<1>2. FullIsLeft'
  BY DEF FullIsLeft
<1> QED
  BY <1>1, <1>2

LEMMA NextCall ==
  ASSUME LazyInv, NEW t \in Threads, NEW l \in Lazies, NEW of \in {"force", "force_mut"},
         Call(t, l, of)
  PROVE  LazyInv'
<1> DEFINE n == Len(calls[t])
           fr == [lazy |-> l, of |-> of, at |-> "cell"]
<1>1. fr \in Frames /\ fr.at = "cell"
  BY DEF Frames
<1>2. TypeOK /\ calls' = [calls EXCEPT ![t] = Append(@, fr)] /\ UNCHANGED <<value, init, fate>>
  BY DEF Call, LazyInv
<1>3. n = 0 \/ (n \in 1..n /\ calls[t][n].at = "f")
  <2>1. CASE calls[t] = <<>>
    <3>1. n = 0
      BY <2>1
    <3> QED
      BY <3>1
  <2>2. CASE At(t, "f")
    BY <1>2, <2>2, AtTop
  <2> QED
    BY <2>1, <2>2 DEF Call
<1> HIDE DEF fr
<1>4. /\ calls' \in [Threads -> Seq(Frames)]
      /\ Len(calls'[t]) = n + 1
      /\ \A i \in 1..n : calls'[t][i] = calls[t][i]
      /\ calls'[t][n + 1] = fr
      /\ \A u \in Threads \ {t} : calls'[u] = calls[u]
  BY <1>1, <1>2, PushFrame
<1>5. TypeOK'
  BY <1>2, <1>4 DEF TypeOK
<1>6. n \in Nat
  BY <1>2, FrameType
<1>7. ASSUME NEW u \in Threads, NEW i \in 1..Len(calls'[u]), calls'[u][i].at # "cell"
      PROVE  i \in 1..Len(calls[u]) /\ calls'[u][i] = calls[u][i]
  BY <1>1, <1>4, <1>6, <1>7
<1>8. ASSUME NEW u \in Threads, NEW i \in 1..Len(calls[u])
      PROVE  i \in 1..Len(calls'[u]) /\ calls'[u][i] = calls[u][i]
  BY <1>4, <1>6
<1>9. \A u \in Threads, k \in Lazies : RunsF(u, k)' <=> RunsF(u, k)
  BY <1>2, <1>5, <1>7, <1>8, RunsFIn, RunsFInNext
<1>10. FunctionOrValue'
  BY <1>2, <1>9 DEF LazyInv, FunctionOrValue
<1>11. CallersRunF'
  BY <1>3, <1>4, <1>6 DEF LazyInv, CallersRunF
<1>12. OneRunsF'
  BY <1>7, FewerRunF DEF LazyInv
<1>13. OneInitializes' /\ FullIsLeft'
  BY <1>2, <1>7, FewerInitialize DEF LazyInv
<1> QED
  BY <1>5, <1>10, <1>11, <1>12, <1>13 DEF LazyInv

LEMMA NextStart ==
  ASSUME LazyInv, NEW t \in Threads, Start(t)
  PROVE  LazyInv'
<1> DEFINE n == Len(calls[t])
<1>1. TypeOK /\ GotoIn(t, "closure") /\ UNCHANGED <<value, init, fate>>
  BY DEF Start, LazyInv
<1>2. n \in 1..n /\ calls[t][n].at = "cell"
  BY <1>1, AtTop DEF Start
<1>3. calls[t] # <<>>
  BY DEF Start, At
<1>l. PICK l \in Lazies : l = This(t) /\ l = calls[t][n].lazy
  BY <1>1, AtTop DEF Start
<1>4. /\ calls' \in [Threads -> Seq(Frames)]
      /\ Len(calls'[t]) = n
      /\ \A i \in 1..n :
           /\ calls'[t][i].lazy = calls[t][i].lazy
           /\ calls'[t][i].at = IF i = n THEN "closure" ELSE calls[t][i].at
      /\ \A u \in Threads \ {t} : calls'[u] = calls[u]
  BY <1>1, <1>3, MoveFrame
<1>5. TypeOK'
  BY <1>1, <1>4 DEF TypeOK
<1>6. /\ value[l] = Null
      /\ \A u \in Threads : \A i \in 1..Len(calls[u]) :
           calls[u][i].lazy = l /\ l \notin Unsync => calls[u][i].at = "cell"
  BY <1>1, <1>l, InitializingIn DEF Start
<1>7. ASSUME NEW u \in Threads
      PROVE  /\ Len(calls'[u]) = Len(calls[u])
             /\ \A i \in 1..Len(calls[u]) :
                  /\ calls'[u][i].lazy = calls[u][i].lazy
                  /\ calls'[u][i].at = IF u = t /\ i = n THEN "closure" ELSE calls[u][i].at
  BY <1>4
<1>8. ASSUME NEW u \in Threads, NEW k \in Lazies
      PROVE  RunsF(u, k)' <=> RunsF(u, k)
  <2>1. /\ Len(calls'[u]) = Len(calls[u])
        /\ \A i \in 1..Len(calls[u]) :
             calls'[u][i].lazy = k /\ calls'[u][i].at = "f"
               <=> calls[u][i].lazy = k /\ calls[u][i].at = "f"
    BY <1>2, <1>7
  <2> QED
    BY <1>1, <1>5, <2>1, RunsFIn, RunsFInNext
<1>9. FunctionOrValue'
  BY <1>1, <1>8 DEF LazyInv, FunctionOrValue
<1>10. CallersRunF'
  BY <1>7 DEF LazyInv, CallersRunF
<1>11. OneRunsF'
  BY <1>2, <1>7, FewerRunF DEF LazyInv
<1>12. OneInitializes'
  <2> SUFFICES ASSUME NEW u \in Threads, NEW v \in Threads,
                      NEW i \in 1..Len(calls'[u]), NEW j \in 1..Len(calls'[v]),
                      calls'[u][i].lazy \notin Unsync,
                      calls'[u][i].lazy = calls'[v][j].lazy,
                      calls'[u][i].at # "cell", calls'[v][j].at # "cell"
               PROVE  u = v /\ i = j
    BY DEF OneInitializes
  <2>0. ASSUME NEW w \in Threads, NEW k \in 1..Len(calls'[w]), calls'[w][k].at # "cell"
        PROVE  /\ k \in 1..Len(calls[w]) /\ calls'[w][k].lazy = calls[w][k].lazy
               /\ calls[w][k].at # "cell" \/ (w = t /\ k = n)
    <3>1. Len(calls'[w]) = Len(calls[w])
      BY <1>7
    <3> QED
      BY <1>7, <2>0, <3>1
  <2>1. /\ i \in 1..Len(calls[u]) /\ j \in 1..Len(calls[v])
        /\ calls[u][i].lazy = calls[v][j].lazy /\ calls[u][i].lazy \notin Unsync
        /\ calls[u][i].at # "cell" \/ (u = t /\ i = n)
        /\ calls[v][j].at # "cell" \/ (v = t /\ j = n)
    BY <2>0
  <2>2. CASE calls[u][i].lazy = l
    BY <1>6, <2>1, <2>2
  <2>3. CASE calls[u][i].lazy # l
    BY <1>l, <2>1, <2>3 DEF LazyInv, OneInitializes
  <2> QED
    BY <2>2, <2>3
<1>13. FullIsLeft'
  BY <1>1, <1>l, <1>6, <1>7 DEF LazyInv, FullIsLeft
<1> QED
  BY <1>5, <1>9, <1>10, <1>11, <1>12, <1>13 DEF LazyInv

LEMMA NextTakeInit ==
  ASSUME LazyInv, NEW t \in Threads, TakeInit(t)
  PROVE  LazyInv'
<1> DEFINE n == Len(calls[t])
<1>1. TypeOK /\ GotoIn(t, "f") /\ value' = value
  BY DEF TakeInit, LazyInv
<1>2. n \in 1..n /\ calls[t][n].at = "closure"
  BY <1>1, AtTop DEF TakeInit
<1>3. calls[t] # <<>>
  BY DEF TakeInit, At
<1>l. PICK l \in Lazies : l = This(t) /\ l = calls[t][n].lazy
  BY <1>1, AtTop DEF TakeInit
<1>4. /\ calls' \in [Threads -> Seq(Frames)]
      /\ Len(calls'[t]) = n
      /\ \A i \in 1..n :
           /\ calls'[t][i].lazy = calls[t][i].lazy
           /\ calls'[t][i].at = IF i = n THEN "f" ELSE calls[t][i].at
      /\ \A u \in Threads \ {t} : calls'[u] = calls[u]
  BY <1>1, <1>3, MoveFrame
<1>5. /\ init[l]
      /\ init' = [init EXCEPT ![l] = FALSE]
      /\ fate' = [fate EXCEPT ![l] = "running"]
  BY <1>l DEF TakeInit, Taken
<1>6. TypeOK'
  BY <1>1, <1>4, <1>5 DEF TypeOK
<1>7. ASSUME NEW u \in Threads
      PROVE  /\ Len(calls'[u]) = Len(calls[u])
             /\ \A i \in 1..Len(calls[u]) :
                  /\ calls'[u][i].lazy = calls[u][i].lazy
                  /\ calls'[u][i].at = IF u = t /\ i = n THEN "f" ELSE calls[u][i].at
  BY <1>4
(* A function that is there was not called, so it runs nowhere else.       *)
<1>8. fate[l] = "new" /\ value[l] = Null /\ \A u \in Threads : ~RunsF(u, l)
  BY <1>5 DEF LazyInv, FunctionOrValue
<1>9. \A u \in Threads : \A i \in 1..Len(calls[u]) :
        calls[u][i].lazy = l => calls[u][i].at # "f"
  BY <1>1, <1>8, RunsFIn
<1>10. ASSUME NEW u \in Threads, NEW k \in Lazies \ {l}
       PROVE  RunsF(u, k)' <=> RunsF(u, k)
  <2>1. \A i \in 1..Len(calls[u]) :
          calls[u][i].lazy = k => (calls'[u][i].at = "f" <=> calls[u][i].at = "f")
    BY <1>2, <1>l, <1>7
  <2> QED
    BY <1>1, <1>6, <1>7, <2>1, RunsFIn, RunsFInNext
<1>11. RunsF(t, l)'
  BY <1>2, <1>l, <1>6, <1>7, RunsFInNext
<1>12. FunctionOrValue'
  <2> SUFFICES ASSUME NEW k \in Lazies
               PROVE  /\ init'[k] <=> fate'[k] = "new"
                      /\ value'[k] # Null <=> fate'[k] = "returned"
                      /\ (\E u \in Threads : RunsF(u, k)') <=> fate'[k] = "running"
    BY DEF FunctionOrValue
  <2>1. CASE k = l
    BY <1>1, <1>5, <1>8, <1>11, <2>1 DEF LazyInv, TypeOK
  <2>2. CASE k # l
    BY <1>1, <1>5, <1>10, <2>2 DEF LazyInv, TypeOK, FunctionOrValue
  <2> QED
    BY <2>1, <2>2
<1>13. CallersRunF'
  BY <1>7 DEF LazyInv, CallersRunF
<1>14. OneRunsF'
  <2> SUFFICES ASSUME NEW u \in Threads, NEW v \in Threads,
                      NEW i \in 1..Len(calls'[u]), NEW j \in 1..Len(calls'[v]),
                      calls'[u][i].lazy = calls'[v][j].lazy,
                      calls'[u][i].at = "f", calls'[v][j].at = "f"
               PROVE  u = v /\ i = j
    BY DEF OneRunsF
  <2>0. ASSUME NEW w \in Threads, NEW k \in 1..Len(calls'[w]), calls'[w][k].at = "f"
        PROVE  /\ k \in 1..Len(calls[w]) /\ calls'[w][k].lazy = calls[w][k].lazy
               /\ calls[w][k].at = "f" \/ (w = t /\ k = n)
    <3>1. Len(calls'[w]) = Len(calls[w])
      BY <1>7
    <3> QED
      BY <1>7, <2>0, <3>1
  <2>1. /\ i \in 1..Len(calls[u]) /\ j \in 1..Len(calls[v])
        /\ calls[u][i].lazy = calls[v][j].lazy
        /\ calls[u][i].at = "f" \/ (u = t /\ i = n)
        /\ calls[v][j].at = "f" \/ (v = t /\ j = n)
    BY <2>0
  <2>2. CASE calls[u][i].lazy = l
    BY <1>9, <2>1, <2>2
  <2>3. CASE calls[u][i].lazy # l
    BY <1>l, <2>1, <2>3 DEF LazyInv, OneRunsF
  <2> QED
    BY <2>2, <2>3
<1>15. OneInitializes' /\ FullIsLeft'
  BY <1>1, <1>2, <1>7, FewerInitialize DEF LazyInv
<1> QED
  BY <1>6, <1>12, <1>13, <1>14, <1>15 DEF LazyInv

(* A call that leaves, not from its function, changes nothing for others.  *)
LEMMA NextLeave ==
  ASSUME LazyInv, NEW t \in Threads, FindNone(t) \/ Get(t)
  PROVE  LazyInv'
<1> DEFINE n == Len(calls[t])
<1>1. TypeOK /\ Leave(t) /\ UNCHANGED <<value, init, fate>>
  BY DEF FindNone, Get, Poisoned, LazyInv
<1>2. n \in 1..n /\ calls[t][n].at # "f"
  BY <1>1, AtTop DEF FindNone, Get
<1>3. calls[t] # <<>>
  BY DEF FindNone, Get, At
<1>4. /\ calls' \in [Threads -> Seq(Frames)]
      /\ Len(calls'[t]) = n - 1
      /\ \A i \in 1..Len(calls'[t]) : calls'[t][i] = calls[t][i]
      /\ \A u \in Threads \ {t} : calls'[u] = calls[u]
  BY <1>1, <1>3, PopFrame
<1>5. TypeOK'
  BY <1>1, <1>4 DEF TypeOK
<1>6. ASSUME NEW u \in Threads, NEW i \in 1..Len(calls'[u])
      PROVE  i \in 1..Len(calls[u]) /\ calls'[u][i] = calls[u][i]
  BY <1>4, <1>2
<1>7. ASSUME NEW u \in Threads, NEW i \in 1..Len(calls[u]), calls[u][i].at = "f"
      PROVE  i \in 1..Len(calls'[u]) /\ calls'[u][i] = calls[u][i]
  <2>1. u = t => i # n
    BY <1>2, <1>7
  <2> QED
    BY <1>2, <1>4, <2>1
<1>8. ASSUME NEW u \in Threads, NEW k \in Lazies
      PROVE  RunsF(u, k)' <=> RunsF(u, k)
  BY <1>1, <1>5, <1>6, <1>7, RunsFIn, RunsFInNext
<1>9. FunctionOrValue'
  BY <1>1, <1>8 DEF LazyInv, FunctionOrValue
<1>10. CallersRunF'
  BY <1>2, <1>4 DEF LazyInv, CallersRunF
<1>11. OneRunsF'
  BY <1>6, FewerRunF DEF LazyInv
<1>12. OneInitializes' /\ FullIsLeft'
  BY <1>1, <1>6, FewerInitialize DEF LazyInv
<1> QED
  BY <1>5, <1>9, <1>10, <1>11, <1>12 DEF LazyInv

(* A function ends: it was running, so there is no value yet, and now it   *)
(* runs nowhere.                                                           *)
LEMMA AtF ==
  ASSUME LazyInv, NEW t \in Threads, At(t, "f")
  PROVE  This(t) \in Lazies /\ fate[This(t)] = "running" /\ value[This(t)] = Null
<1>1. TypeOK
  BY DEF LazyInv
<1>2. This(t) \in Lazies /\ RunsF(t, This(t))
  BY <1>1, AtTop, RunsFIn
<1> QED
  BY <1>2 DEF LazyInv, FunctionOrValue

LEMMA NextReturn ==
  ASSUME LazyInv, NEW t \in Threads, Return(t)
  PROVE  LazyInv'
<1> DEFINE n == Len(calls[t])
<1>1. TypeOK /\ calls[t] # <<>>
  BY DEF Return, LazyInv, At
<1>2. n \in 1..n /\ calls[t][n].at = "f"
  BY <1>1, AtTop DEF Return
<1>l. PICK l \in Lazies : l = This(t) /\ l = calls[t][n].lazy
  BY <1>1, AtTop DEF Return
<1>3. fate[l] = "running" /\ value[l] = Null
  BY <1>l, AtF DEF Return
<1>4. /\ init' = init
      /\ fate' = [fate EXCEPT ![l] = "returned"]
      /\ value' = [value EXCEPT ![l] = t]
      /\ GotoIn(t, "cell")
  BY <1>l, <1>3 DEF Return
<1>5. /\ calls' \in [Threads -> Seq(Frames)]
      /\ Len(calls'[t]) = n
      /\ \A i \in 1..n :
           /\ calls'[t][i].lazy = calls[t][i].lazy
           /\ calls'[t][i].at = IF i = n THEN "cell" ELSE calls[t][i].at
      /\ \A u \in Threads \ {t} : calls'[u] = calls[u]
  BY <1>1, <1>4, MoveFrame
<1>6. TypeOK'
  BY <1>1, <1>4, <1>5 DEF TypeOK
<1>7. ASSUME NEW u \in Threads
      PROVE  /\ Len(calls'[u]) = Len(calls[u])
             /\ \A i \in 1..Len(calls[u]) :
                  /\ calls'[u][i].lazy = calls[u][i].lazy
                  /\ calls'[u][i].at = IF u = t /\ i = n THEN "cell" ELSE calls[u][i].at
  BY <1>5
<1>8. ASSUME NEW u \in Threads, NEW k \in Lazies \ {l}
      PROVE  RunsF(u, k)' <=> RunsF(u, k)
  <2>1. /\ Len(calls'[u]) = Len(calls[u])
        /\ \A i \in 1..Len(calls[u]) :
             calls'[u][i].lazy = k /\ calls'[u][i].at = "f"
               <=> calls[u][i].lazy = k /\ calls[u][i].at = "f"
    BY <1>2, <1>l, <1>7
  <2> QED
    BY <1>1, <1>6, <2>1, RunsFIn, RunsFInNext
<1>9. ASSUME NEW u \in Threads
      PROVE  ~RunsF(u, l)'
  <2>1. \A i \in 1..Len(calls[u]) :
          calls[u][i].lazy = l /\ calls[u][i].at = "f" => u = t /\ i = n
    BY <1>2, <1>l DEF LazyInv, OneRunsF
  <2>2. \A i \in 1..Len(calls'[u]) : ~(calls'[u][i].lazy = l /\ calls'[u][i].at = "f")
    BY <1>2, <1>7, <2>1
  <2> QED
    BY <1>6, <2>2, RunsFInNext
<1>10. FunctionOrValue'
  <2> SUFFICES ASSUME NEW k \in Lazies
               PROVE  /\ init'[k] <=> fate'[k] = "new"
                      /\ value'[k] # Null <=> fate'[k] = "returned"
                      /\ (\E u \in Threads : RunsF(u, k)') <=> fate'[k] = "running"
    BY DEF FunctionOrValue
  <2>1. CASE k = l
    BY <1>1, <1>3, <1>4, <1>9, <2>1, LazyAssumption DEF LazyInv, TypeOK, FunctionOrValue
  <2>2. CASE k # l
    BY <1>1, <1>4, <1>8, <2>2 DEF LazyInv, TypeOK, FunctionOrValue
  <2> QED
    BY <2>1, <2>2
<1>11. CallersRunF'
  BY <1>7 DEF LazyInv, CallersRunF
<1>12. ASSUME NEW u \in Threads, NEW i \in 1..Len(calls'[u]), calls'[u][i].at # "cell"
       PROVE  /\ i \in 1..Len(calls[u]) /\ calls'[u][i].lazy = calls[u][i].lazy
              /\ calls'[u][i].at = calls[u][i].at /\ ~(u = t /\ i = n)
  <2>1. Len(calls'[u]) = Len(calls[u])
    BY <1>7
  <2> QED
    BY <1>7, <1>12, <2>1
<1>13. OneRunsF'
  BY <1>12, FewerRunF DEF LazyInv
<1>14. OneInitializes' /\ FullIsLeft'
  <2>1. ASSUME NEW u \in Threads, NEW i \in 1..Len(calls'[u]), calls'[u][i].at # "cell",
               calls'[u][i].lazy \notin Unsync
        PROVE  value'[calls[u][i].lazy] = value[calls[u][i].lazy]
    <3>1. /\ i \in 1..Len(calls[u]) /\ calls[u][i].at # "cell"
          /\ calls[u][i].lazy \notin Unsync /\ ~(u = t /\ i = n)
      BY <1>12, <2>1
    <3>2. calls[u][i].lazy # l
      BY <1>2, <1>l, <3>1 DEF LazyInv, OneInitializes
    <3> QED
      BY <1>1, <1>4, <3>2 DEF TypeOK
  <2> QED
    BY <1>12, <2>1, FewerInitialize DEF LazyInv
<1> QED
  BY <1>6, <1>10, <1>11, <1>13, <1>14 DEF LazyInv

LEMMA NextPanic ==
  ASSUME LazyInv, NEW t \in Threads, Panic(t)
  PROVE  LazyInv'
<1> DEFINE n == Len(calls[t])
<1>1. TypeOK /\ calls[t] # <<>> /\ Leave(t) /\ UNCHANGED <<value, init>>
  BY DEF Panic, LazyInv, At
<1>2. n \in 1..n /\ calls[t][n].at = "f"
  BY <1>1, AtTop DEF Panic
<1>l. PICK l \in Lazies : l = This(t) /\ l = calls[t][n].lazy
  BY <1>1, AtTop DEF Panic
<1>3. fate[l] = "running" /\ value[l] = Null /\ fate' = [fate EXCEPT ![l] = "panicked"]
  BY <1>l, AtF DEF Panic
<1>4. /\ calls' \in [Threads -> Seq(Frames)]
      /\ Len(calls'[t]) = n - 1
      /\ \A i \in 1..Len(calls'[t]) : calls'[t][i] = calls[t][i]
      /\ \A u \in Threads \ {t} : calls'[u] = calls[u]
  BY <1>1, PopFrame
<1>5. TypeOK'
  BY <1>1, <1>3, <1>4 DEF TypeOK
<1>6. ASSUME NEW u \in Threads, NEW i \in 1..Len(calls'[u])
      PROVE  /\ i \in 1..Len(calls[u]) /\ calls'[u][i] = calls[u][i]
             /\ ~(u = t /\ i = n)
  BY <1>4, <1>2
<1>7. ASSUME NEW u \in Threads, NEW i \in 1..Len(calls[u]), ~(u = t /\ i = n)
      PROVE  i \in 1..Len(calls'[u]) /\ calls'[u][i] = calls[u][i]
  BY <1>2, <1>4, <1>7
<1>8. ASSUME NEW u \in Threads, NEW k \in Lazies \ {l}
      PROVE  RunsF(u, k)' <=> RunsF(u, k)
  BY <1>1, <1>l, <1>5, <1>6, <1>7, RunsFIn, RunsFInNext
<1>9. ASSUME NEW u \in Threads
      PROVE  ~RunsF(u, l)'
  <2>1. \A i \in 1..Len(calls[u]) :
          calls[u][i].lazy = l /\ calls[u][i].at = "f" => u = t /\ i = n
    BY <1>2, <1>l DEF LazyInv, OneRunsF
  <2>2. \A i \in 1..Len(calls'[u]) : ~(calls'[u][i].lazy = l /\ calls'[u][i].at = "f")
    BY <1>6, <2>1
  <2> QED
    BY <1>5, <2>2, RunsFInNext
<1>10. FunctionOrValue'
  <2> SUFFICES ASSUME NEW k \in Lazies
               PROVE  /\ init'[k] <=> fate'[k] = "new"
                      /\ value'[k] # Null <=> fate'[k] = "returned"
                      /\ (\E u \in Threads : RunsF(u, k)') <=> fate'[k] = "running"
    BY DEF FunctionOrValue
  <2>1. CASE k = l
    BY <1>1, <1>3, <1>9, <2>1 DEF LazyInv, TypeOK, FunctionOrValue
  <2>2. CASE k # l
    BY <1>1, <1>3, <1>8, <2>2 DEF LazyInv, TypeOK, FunctionOrValue
  <2> QED
    BY <2>1, <2>2
<1>11. CallersRunF'
  BY <1>2, <1>4 DEF LazyInv, CallersRunF
<1>12. OneRunsF'
  BY <1>6, FewerRunF DEF LazyInv
<1>13. OneInitializes' /\ FullIsLeft'
  BY <1>1, <1>6, FewerInitialize DEF LazyInv
<1> QED
  BY <1>5, <1>10, <1>11, <1>12, <1>13 DEF LazyInv

LEMMA NextIntoValue ==
  ASSUME LazyInv, NEW l \in Lazies, IntoValue(l)
  PROVE  LazyInv'
<1>1. /\ TypeOK /\ calls' = calls
      /\ value' = [value EXCEPT ![l] = Null]
      /\ init' = [init EXCEPT ![l] = TRUE]
      /\ fate' = [fate EXCEPT ![l] = "new"]
  BY DEF IntoValue, LazyInv
<1>2. TypeOK'
  BY <1>1 DEF TypeOK
<1>3. \A u \in Threads : ~RunsF(u, l)
  BY DEF IntoValue, InUse, RunsF
<1>4. \A u \in Threads, k \in Lazies : RunsF(u, k)' <=> RunsF(u, k)
  BY <1>1 DEF RunsF
<1>5. FunctionOrValue'
  BY <1>1, <1>3, <1>4 DEF LazyInv, TypeOK, FunctionOrValue
<1>6. CallersRunF' /\ OneRunsF' /\ OneInitializes'
  BY <1>1 DEF LazyInv, CallersRunF, OneRunsF, OneInitializes
<1>7. FullIsLeft'
  <2> SUFFICES ASSUME NEW u \in Threads, NEW i \in 1..Len(calls[u]),
                      calls[u][i].lazy \notin Unsync, calls[u][i].at # "cell"
               PROVE  value'[calls[u][i].lazy] = Null
    BY <1>1 DEF FullIsLeft
  <2>1. calls[u][i].lazy \in Lazies /\ value[calls[u][i].lazy] = Null
    BY <1>1, FrameType DEF LazyInv, FullIsLeft, Frames
  <2> QED
    BY <1>1, <2>1 DEF TypeOK
<1> QED
  BY <1>2, <1>5, <1>6, <1>7 DEF LazyInv

LEMMA NextLazy == LazyInv /\ [Next]_vars => LazyInv'
<1> SUFFICES ASSUME LazyInv, [Next]_vars
             PROVE  LazyInv'
  OBVIOUS
<1>1. CASE UNCHANGED vars
  BY <1>1 DEF vars, LazyInv, TypeOK, FunctionOrValue, RunsF, CallersRunF, OneRunsF,
     OneInitializes, FullIsLeft
<1> QED
  BY <1>1, NextCall, NextStart, NextTakeInit, NextLeave, NextReturn, NextPanic, NextIntoValue
  DEF Next, InClosure, Ends

THEOREM LazyInvariant == Spec => []LazyInv
BY InitLazy, NextLazy, PTL DEF Spec

(* Every variable keeps its type. *)
THEOREM TypeCorrect == Spec => []TypeOK
<1>1. LazyInv => TypeOK
  BY DEF LazyInv
<1> QED
  BY <1>1, LazyInvariant, PTL

(* A Lazy has its function, or is running it, or has its value, or is      *)
(* poisoned: into_value and force can tell which from the two fields.      *)
THEOREM FunctionXorValue == Spec => []FunctionOrValue
<1>1. LazyInv => FunctionOrValue
  BY DEF LazyInv
<1> QED
  BY <1>1, LazyInvariant, PTL

(* No function of a Lazy is called a second time, not after a panic, and   *)
(* not when it forces its own Lazy.                                        *)
THEOREM FunctionsAreCalledOnce == Spec => CalledOnce
<1>1. LazyInv /\ [Next]_vars
        => [\A l \in Lazies :
              fate'[l] # fate[l] =>
                \/ fate[l] = "new" /\ fate'[l] = "running"
                \/ fate[l] = "running" /\ fate'[l] \in {"returned", "panicked"}
                \/ ~InUse(l) /\ fate'[l] = "new"]_vars
  <2> SUFFICES ASSUME LazyInv, Next, NEW l \in Lazies, fate'[l] # fate[l]
               PROVE  \/ fate[l] = "new" /\ fate'[l] = "running"
                      \/ fate[l] = "running" /\ fate'[l] \in {"returned", "panicked"}
                      \/ ~InUse(l) /\ fate'[l] = "new"
    OBVIOUS
  <2>0. fate \in [Lazies -> {"new", "running", "returned", "panicked"}]
    BY DEF LazyInv, TypeOK
  <2>1. ASSUME NEW t \in Threads, TakeInit(t)
        PROVE  fate[l] = "new" /\ fate'[l] = "running"
    <3>1. fate' = [fate EXCEPT ![This(t)] = "running"] /\ init[This(t)]
      BY <2>1 DEF TakeInit
    <3> QED
      BY <2>0, <3>1 DEF LazyInv, FunctionOrValue
  <2>2. ASSUME NEW t \in Threads, Ends(t)
        PROVE  fate[l] = "running" /\ fate'[l] \in {"returned", "panicked"}
    <3>1. \E r \in {"returned", "panicked"} : fate' = [fate EXCEPT ![This(t)] = r]
      BY <2>2 DEF Ends, Return, Panic
    <3>2. fate[This(t)] = "running"
      BY <2>2, AtF DEF Ends, Return, Panic
    <3> QED
      BY <2>0, <3>1, <3>2
  <2>3. ASSUME NEW k \in Lazies, IntoValue(k)
        PROVE  ~InUse(l) /\ fate'[l] = "new"
    BY <2>0, <2>3 DEF IntoValue
  <2>4. ASSUME NEW t \in Threads, NEW k \in Lazies, NEW of \in {"force", "force_mut"},
               Call(t, k, of) \/ Start(t) \/ FindNone(t) \/ Get(t)
        PROVE  FALSE
    BY <2>4 DEF Call, Start, FindNone, Get
  <2> QED
    BY <2>1, <2>2, <2>3, <2>4 DEF Next, InClosure
<1> QED
  BY <1>1, LazyInvariant, PTL DEF Spec, CalledOnce
-----------------------------------------------------------------------------
(* The cells. *)

HasCall(t, l) == \E i \in 1..Len(calls[t]) : calls[t][i].lazy = l

LEMMA PhaseIs ==
  ASSUME TypeOK, NEW t \in Threads, NEW l
  PROVE  Phase(t, l) = IF Initializing(t, l) THEN "running"
                       ELSE IF HasCall(t, l) THEN "trying" ELSE "idle"
BY FrameType DEF Phase, HasCall

LEMMA PhaseIsNext ==
  ASSUME TypeOK', NEW t \in Threads, NEW l
  PROVE  /\ Phase(t, l)' = IF Initializing(t, l)' THEN "running"
                           ELSE IF HasCall(t, l)' THEN "trying" ELSE "idle"
         /\ Initializing(t, l)'
              <=> \E i \in 1..Len(calls'[t]) : calls'[t][i].lazy = l /\ calls'[t][i].at # "cell"
<1>1. calls'[t] \in Seq(Frames)
  BY DEF TypeOK
<1>2. DOMAIN calls'[t] = 1..Len(calls'[t])
  BY <1>1
<1> QED
  BY <1>2 DEF Phase, HasCall, Initializing

(* A step of t that replaces its calls after the first m, which are on l.  *)
LEMMA OthersKeepPhase ==
  ASSUME TypeOK, TypeOK', NEW t \in Threads, NEW l, NEW m \in Nat,
         m =< Len(calls[t]), m =< Len(calls'[t]),
         \A i \in 1..m : calls'[t][i].lazy = calls[t][i].lazy /\ calls'[t][i].at = calls[t][i].at,
         \A i \in 1..Len(calls[t]) : i > m => calls[t][i].lazy = l,
         \A i \in 1..Len(calls'[t]) : i > m => calls'[t][i].lazy = l,
         \A u \in Threads \ {t} : calls'[u] = calls[u]
  PROVE  \A u \in Threads, k \in Lazies : u # t \/ k # l => Phase(u, k)' = Phase(u, k)
<1> SUFFICES ASSUME NEW u \in Threads, NEW k \in Lazies, u # t \/ k # l
             PROVE  Phase(u, k)' = Phase(u, k)
  OBVIOUS
<1>1. CASE u # t
  BY <1>1 DEF Phase, Initializing
<1>2. CASE u = t /\ k # l
  <2>1. /\ Len(calls[t]) \in Nat
        /\ calls'[t] \in Seq(Frames)
    BY FrameType DEF TypeOK
  <2>2. Len(calls'[t]) \in Nat
    BY <2>1
  <2>3. \A i \in 1..Len(calls[t]) : calls[t][i].lazy = k
          => /\ i \in 1..Len(calls'[t])
             /\ calls'[t][i].lazy = k /\ calls'[t][i].at = calls[t][i].at
    BY <1>2, <2>1, <2>2
  <2>4. \A i \in 1..Len(calls'[t]) : calls'[t][i].lazy = k
          => /\ i \in 1..Len(calls[t])
             /\ calls[t][i].lazy = k /\ calls'[t][i].at = calls[t][i].at
    BY <1>2, <2>1, <2>2
  <2>5. Initializing(t, k)' <=> Initializing(t, k)
    BY <2>3, <2>4, InitializingIn, PhaseIsNext
  <2>6. HasCall(t, k)' <=> HasCall(t, k)
    BY <2>3, <2>4 DEF HasCall
  <2> QED
    BY <1>2, <2>5, <2>6, PhaseIs, PhaseIsNext
<1> QED
  BY <1>1, <1>2

LEMMA PhaseOfOne ==
  ASSUME NEW t \in Threads, NEW l,
         \A u \in Threads \ {t} : Phase(u, l)' = Phase(u, l)
  PROVE  [u \in Threads |-> Phase(u, l)]'
           = [[u \in Threads |-> Phase(u, l)] EXCEPT ![t] = Phase(t, l)']
OBVIOUS

LEMMA SameCell ==
  ASSUME NEW l, value'[l] = value[l], \A u \in Threads : Phase(u, l)' = Phase(u, l)
  PROVE  UNCHANGED Cell(l)!vars
BY DEF Cell!vars

(* The thread whose innermost call is on the cell of a sync::Lazy has no   *)
(* other call on it, once that call has got to initialize, or can leave.   *)
LEMMA OneCallOnCell ==
  ASSUME LazyInv, NEW t \in Threads, NEW i \in 1..Len(calls[t]), i < Len(calls[t]),
         calls[t][i].lazy = This(t), This(t) \notin Unsync, calls[t] # <<>>
  PROVE  At(t, "cell") /\ value[This(t)] = Null
<1> DEFINE n == Len(calls[t])
<1>1. n \in 1..n /\ calls[t][n] \in Frames /\ This(t) = calls[t][n].lazy
  BY FrameType DEF LazyInv, This, Last
<1>2. calls[t][i].at = "f"
  BY DEF LazyInv, CallersRunF
<1>3. value[This(t)] = Null
  BY <1>2 DEF LazyInv, FullIsLeft
<1>4. calls[t][n].at = "cell"
  BY <1>1, <1>2 DEF LazyInv, OneInitializes
<1> QED
  BY <1>3, <1>4 DEF At, Last

CellStep(l) == Cell(l)!Next \/ UNCHANGED Cell(l)!vars

LEMMA CallOnCell ==
  ASSUME LazyInv, LazyInv', NEW t \in Threads, NEW k \in Lazies,
         NEW of \in {"force", "force_mut"}, Call(t, k, of), NEW l \in Lazies \ Unsync
  PROVE  CellStep(l)
<1> DEFINE n == Len(calls[t])
           fr == [lazy |-> k, of |-> of, at |-> "cell"]
<1>1. fr \in Frames /\ fr.lazy = k /\ fr.at = "cell"
  BY DEF Frames
<1>2. /\ TypeOK /\ TypeOK' /\ n \in Nat /\ value' = value
      /\ calls' = [calls EXCEPT ![t] = Append(@, fr)]
  BY FrameType DEF Call, LazyInv
<1> HIDE DEF fr
<1>3. /\ Len(calls'[t]) = n + 1
      /\ \A i \in 1..n : calls'[t][i] = calls[t][i]
      /\ calls'[t][n + 1] = fr
      /\ \A u \in Threads \ {t} : calls'[u] = calls[u]
  BY <1>1, <1>2, PushFrame
<1>4. \A u \in Threads, j \in Lazies : u # t \/ j # k => Phase(u, j)' = Phase(u, j)
  <2>1. PICK m \in Nat : m = n
    BY <1>2
  <2>2. /\ m =< Len(calls[t]) /\ m =< Len(calls'[t])
        /\ \A i \in 1..m : calls'[t][i].lazy = calls[t][i].lazy
                           /\ calls'[t][i].at = calls[t][i].at
        /\ \A i \in 1..Len(calls[t]) : i > m => calls[t][i].lazy = k
        /\ \A i \in 1..Len(calls'[t]) : i > m => calls'[t][i].lazy = k
    BY <1>1, <1>2, <1>3, <2>1
  <2>3. TypeOK /\ TypeOK' /\ \A u \in Threads \ {t} : calls'[u] = calls[u]
    BY <1>2, <1>3
  <2> QED
    BY <2>2, <2>3, OthersKeepPhase
<1>5. CASE l # k
  BY <1>2, <1>4, <1>5, SameCell DEF CellStep
<1>6. CASE l = k /\ HasCall(t, k)
  <2>1. PICK i \in 1..n : calls[t][i].lazy = k
    BY <1>6 DEF HasCall
  <2>2. calls[t][i].at = "f"
    <3>1. calls[t] # <<>>
      BY <1>2, <2>1
    <3>2. calls[t][n].at = "f"
      BY <1>2, <3>1, AtTop DEF Call
    <3> QED
      BY <1>2, <2>1, <3>2 DEF LazyInv, CallersRunF
  <2>3. Initializing(t, k)
    BY <1>2, <2>1, <2>2, InitializingIn
  <2>4. Initializing(t, k)'
    BY <1>2, <1>3, <2>1, <2>2, PhaseIsNext
  <2>5. Phase(t, k)' = Phase(t, k)
    BY <1>2, <2>3, <2>4, PhaseIs, PhaseIsNext
  <2> QED
    BY <1>2, <1>4, <1>6, <2>5, SameCell DEF CellStep
<1>7. CASE l = k /\ ~HasCall(t, k)
  <2>1. ~Initializing(t, k)
    BY <1>2, <1>7, InitializingIn DEF HasCall
  <2>2. ~Initializing(t, k)'
    <3>1. ASSUME NEW i \in 1..Len(calls'[t]), calls'[t][i].lazy = k
          PROVE  calls'[t][i].at = "cell"
      BY <1>1, <1>2, <1>3, <1>7, <3>1 DEF HasCall
    <3> QED
      BY <1>2, <3>1, PhaseIsNext
  <2>3. HasCall(t, k)'
    BY <1>1, <1>2, <1>3 DEF HasCall
  <2>4. Phase(t, k) = "idle" /\ Phase(t, k)' = "trying"
    BY <1>2, <1>7, <2>1, <2>2, <2>3, PhaseIs, PhaseIsNext
  <2>5. Cell(l)!Call(t)
    <3>1. [u \in Threads |-> Phase(u, l)]'
            = [[u \in Threads |-> Phase(u, l)] EXCEPT ![t] = "trying"]
      BY <1>4, <1>7, <2>4, PhaseOfOne
    <3>2. [u \in Threads |-> Phase(u, l)][t] = "idle" /\ value'[l] = value[l]
      BY <1>2, <1>7, <2>4
    <3> QED
      BY <3>1, <3>2 DEF Cell!Call
  <2> QED
    BY <2>5 DEF CellStep, Cell!Next
<1> QED
  BY <1>5, <1>6, <1>7

LEMMA StartOnCell ==
  ASSUME LazyInv, LazyInv', NEW t \in Threads, Start(t), NEW l \in Lazies \ Unsync
  PROVE  CellStep(l)
<1> DEFINE n == Len(calls[t])
<1>1. TypeOK /\ TypeOK' /\ GotoIn(t, "closure") /\ value' = value /\ calls[t] # <<>>
  BY DEF Start, LazyInv, At
<1>2. n \in 1..n /\ calls[t][n].at = "cell"
  BY <1>1, AtTop DEF Start
<1>k. PICK k \in Lazies : k = This(t) /\ k = calls[t][n].lazy
  BY <1>1, AtTop DEF Start
<1>3. /\ Len(calls'[t]) = n
      /\ \A i \in 1..n :
           /\ calls'[t][i].lazy = calls[t][i].lazy
           /\ calls'[t][i].at = IF i = n THEN "closure" ELSE calls[t][i].at
      /\ \A u \in Threads \ {t} : calls'[u] = calls[u]
  BY <1>1, MoveFrame
<1>4. \A u \in Threads, j \in Lazies : u # t \/ j # k => Phase(u, j)' = Phase(u, j)
  <2>1. PICK m \in Nat : m = n - 1
    BY <1>2
  <2>2. /\ m =< Len(calls[t]) /\ m =< Len(calls'[t])
        /\ \A i \in 1..m : calls'[t][i].lazy = calls[t][i].lazy
                           /\ calls'[t][i].at = calls[t][i].at
        /\ \A i \in 1..Len(calls[t]) : i > m => calls[t][i].lazy = k
        /\ \A i \in 1..Len(calls'[t]) : i > m => calls'[t][i].lazy = k
    BY <1>2, <1>k, <1>3, <2>1
  <2>3. \A u \in Threads \ {t} : calls'[u] = calls[u]
    BY <1>3
  <2> QED
    BY <1>1, <2>2, <2>3, OthersKeepPhase
<1>5. CASE l # k
  BY <1>1, <1>4, <1>5, SameCell DEF CellStep
<1>6. CASE l = k
  <2>1. \A u \in Threads : ~Initializing(u, l)
    BY <1>k, <1>6 DEF Start
  <2>2. HasCall(t, l) /\ Initializing(t, l)'
    BY <1>1, <1>2, <1>k, <1>3, <1>6, PhaseIsNext DEF HasCall
  <2>3. Phase(t, l) = "trying" /\ Phase(t, l)' = "running"
    BY <1>1, <2>1, <2>2, PhaseIs, PhaseIsNext
  <2>4. \A u \in Threads : Phase(u, l) # "running"
    BY <1>1, <2>1, PhaseIs
  <2>5. value[l] = Null
    BY <1>k, <1>6 DEF Start
  <2>6. Cell(l)!Start(t)
    BY <1>1, <1>4, <1>6, <2>3, <2>4, <2>5, PhaseOfOne DEF Cell!Start
  <2> QED
    BY <2>6 DEF CellStep, Cell!Next
<1> QED
  BY <1>5, <1>6

LEMMA TakeInitOnCell ==
  ASSUME LazyInv, LazyInv', NEW t \in Threads, TakeInit(t), NEW l \in Lazies \ Unsync
  PROVE  CellStep(l)
<1> DEFINE n == Len(calls[t])
<1>1. TypeOK /\ TypeOK' /\ GotoIn(t, "f") /\ value' = value /\ calls[t] # <<>>
  BY DEF TakeInit, LazyInv, At
<1>2. n \in 1..n /\ calls[t][n].at = "closure"
  BY <1>1, AtTop DEF TakeInit
<1>3. /\ Len(calls'[t]) = n
      /\ \A i \in 1..n :
           /\ calls'[t][i].lazy = calls[t][i].lazy
           /\ calls'[t][i].at = IF i = n THEN "f" ELSE calls[t][i].at
      /\ \A u \in Threads \ {t} : calls'[u] = calls[u]
  BY <1>1, MoveFrame
<1>4. \A i \in 1..n : calls'[t][i].lazy = l /\ calls'[t][i].at # "cell"
                        <=> calls[t][i].lazy = l /\ calls[t][i].at # "cell"
  BY <1>2, <1>3
<1>5. Initializing(t, l)' <=> Initializing(t, l)
  BY <1>1, <1>3, <1>4, InitializingIn, PhaseIsNext
<1>6. HasCall(t, l)' <=> HasCall(t, l)
  BY <1>3 DEF HasCall
<1>7. Phase(t, l)' = Phase(t, l)
  BY <1>1, <1>5, <1>6, PhaseIs, PhaseIsNext
<1>8. \A u \in Threads \ {t} : Phase(u, l)' = Phase(u, l)
  BY <1>3 DEF Phase, Initializing
<1> QED
  BY <1>1, <1>7, <1>8, SameCell DEF CellStep

(* Calls that leave.                                                       *)
LEMMA LeaveCell ==
  ASSUME LazyInv, LazyInv', NEW t \in Threads, calls[t] # <<>>, Leave(t), value' = value,
         NEW p \in {"cell", "closure", "f"}, At(t, p),
         p = "cell" => value[This(t)] # Null, NEW l \in Lazies \ Unsync
  PROVE  CellStep(l)
<1> DEFINE n == Len(calls[t])
<1>1. TypeOK /\ TypeOK'
  BY DEF LazyInv
<1>2. n \in 1..n /\ calls[t][n].at = p
  BY <1>1, AtTop
<1>k. PICK k \in Lazies : k = This(t) /\ k = calls[t][n].lazy
  BY <1>1, AtTop
<1>3. /\ Len(calls'[t]) = n - 1
      /\ \A i \in 1..Len(calls'[t]) : calls'[t][i] = calls[t][i]
      /\ \A u \in Threads \ {t} : calls'[u] = calls[u]
  BY <1>1, PopFrame
<1>4. \A u \in Threads, j \in Lazies : u # t \/ j # k => Phase(u, j)' = Phase(u, j)
  <2>1. PICK m \in Nat : m = n - 1
    BY <1>2
  <2>2. /\ m =< Len(calls[t]) /\ m =< Len(calls'[t])
        /\ \A i \in 1..m : calls'[t][i].lazy = calls[t][i].lazy
                           /\ calls'[t][i].at = calls[t][i].at
        /\ \A i \in 1..Len(calls[t]) : i > m => calls[t][i].lazy = k
        /\ \A i \in 1..Len(calls'[t]) : i > m => calls'[t][i].lazy = k
    BY <1>2, <1>k, <1>3, <2>1
  <2>3. \A u \in Threads \ {t} : calls'[u] = calls[u]
    BY <1>3
  <2> QED
    BY <1>1, <2>2, <2>3, OthersKeepPhase
<1>5. CASE l # k
  BY <1>4, <1>5, SameCell DEF CellStep
<1>6. CASE l = k
  <2>1. \A i \in 1..(n - 1) : calls[t][i].lazy # l
    <3> SUFFICES ASSUME NEW i \in 1..(n - 1), calls[t][i].lazy = l
                 PROVE  FALSE
      OBVIOUS
    <3>1. i \in 1..n /\ i < n
      BY <1>2
    <3>2. At(t, "cell") /\ value[This(t)] = Null
      BY <1>k, <1>6, <3>1, OneCallOnCell
    <3> QED
      BY <3>2 DEF At
  <2>2. ~HasCall(t, l)' /\ ~Initializing(t, l)'
    BY <1>1, <1>3, <2>1, PhaseIsNext DEF HasCall
  <2>3. Phase(t, l)' = "idle"
    BY <1>1, <2>2, PhaseIsNext
  <2>4. HasCall(t, l)
    BY <1>2, <1>k, <1>6 DEF HasCall
  <2>5. CASE p = "cell"
    <3>1. value[l] # Null
      BY <1>k, <1>6, <2>5
    <3>2. ~Initializing(t, l)
      BY <1>1, <3>1, InitializingIn DEF LazyInv, FullIsLeft
    <3>3. Phase(t, l) = "trying"
      BY <1>1, <2>4, <3>2, PhaseIs
    <3>4. Cell(l)!Return(t)
      BY <1>4, <1>6, <2>3, <3>1, <3>3, PhaseOfOne DEF Cell!Return
    <3> QED
      BY <3>4 DEF CellStep, Cell!Next
  <2>6. CASE p # "cell"
    <3>1. Initializing(t, l)
      BY <1>1, <1>2, <1>k, <1>6, <2>6, InitializingIn
    <3>2. Phase(t, l) = "running"
      BY <1>1, <3>1, PhaseIs
    <3>3. Cell(l)!Fail(t)
      BY <1>4, <1>6, <2>3, <3>2, PhaseOfOne DEF Cell!Fail
    <3> QED
      BY <3>3 DEF CellStep, Cell!Next
  <2> QED
    BY <2>5, <2>6
<1> QED
  BY <1>5, <1>6

LEMMA ReturnOnCell ==
  ASSUME LazyInv, LazyInv', NEW t \in Threads, Return(t), NEW l \in Lazies \ Unsync
  PROVE  CellStep(l)
<1> DEFINE n == Len(calls[t])
<1>1. TypeOK /\ TypeOK' /\ calls[t] # <<>>
  BY DEF Return, LazyInv, At
<1>2. n \in 1..n /\ calls[t][n].at = "f"
  BY <1>1, AtTop DEF Return
<1>k. PICK k \in Lazies : k = This(t) /\ k = calls[t][n].lazy
  BY <1>1, AtTop DEF Return
<1>3. value[k] = Null
  BY <1>k, AtF DEF Return
<1>4. value' = [value EXCEPT ![k] = t] /\ GotoIn(t, "cell")
  BY <1>k, <1>3 DEF Return
<1>5. /\ Len(calls'[t]) = n
      /\ \A i \in 1..n :
           /\ calls'[t][i].lazy = calls[t][i].lazy
           /\ calls'[t][i].at = IF i = n THEN "cell" ELSE calls[t][i].at
      /\ \A u \in Threads \ {t} : calls'[u] = calls[u]
  BY <1>1, <1>4, MoveFrame
<1>6. \A u \in Threads, j \in Lazies : u # t \/ j # k => Phase(u, j)' = Phase(u, j)
  <2>1. PICK m \in Nat : m = n - 1
    BY <1>2
  <2>2. /\ m =< Len(calls[t]) /\ m =< Len(calls'[t])
        /\ \A i \in 1..m : calls'[t][i].lazy = calls[t][i].lazy
                           /\ calls'[t][i].at = calls[t][i].at
        /\ \A i \in 1..Len(calls[t]) : i > m => calls[t][i].lazy = k
        /\ \A i \in 1..Len(calls'[t]) : i > m => calls'[t][i].lazy = k
    BY <1>2, <1>k, <1>5, <2>1
  <2> QED
    BY <1>1, <1>5, <2>2, OthersKeepPhase
<1>7. CASE l # k
  <2>1. value'[l] = value[l]
    BY <1>1, <1>4, <1>7 DEF TypeOK
  <2> QED
    BY <1>6, <1>7, <2>1, SameCell DEF CellStep
<1>8. CASE l = k
  <2>1. Initializing(t, l)
    BY <1>1, <1>2, <1>k, <1>8, InitializingIn
  <2>2. ~Initializing(t, l)'
    <3>1. \A i \in 1..n : calls[t][i].lazy = l /\ calls[t][i].at # "cell" => i = n
      BY <1>2, <1>k, <1>8 DEF LazyInv, OneInitializes
    <3> QED
      BY <1>1, <1>2, <1>5, <3>1, PhaseIsNext
  <2>3. HasCall(t, l)'
    BY <1>2, <1>k, <1>5, <1>8 DEF HasCall
  <2>4. Phase(t, l) = "running" /\ Phase(t, l)' = "trying"
    BY <1>1, <2>1, <2>2, <2>3, PhaseIs, PhaseIsNext
  <2>5. value'[l] = t
    BY <1>1, <1>4, <1>8 DEF TypeOK
  <2>6. Cell(l)!Succeed(t)
    BY <1>6, <1>8, <2>4, <2>5, PhaseOfOne DEF Cell!Succeed
  <2> QED
    BY <2>6 DEF CellStep, Cell!Next
<1> QED
  BY <1>7, <1>8

LEMMA IntoValueOnCell ==
  ASSUME LazyInv, NEW k \in Lazies, IntoValue(k), NEW l \in Lazies \ Unsync
  PROVE  CellStep(l)
<1>1. TypeOK /\ calls' = calls /\ value' = [value EXCEPT ![k] = Null]
  BY DEF IntoValue, LazyInv
<1>2. \A u \in Threads : Phase(u, l)' = Phase(u, l)
  BY <1>1 DEF Phase, Initializing
<1>3. CASE l # k
  <2>1. value'[l] = value[l]
    BY <1>1, <1>3 DEF TypeOK
  <2> QED
    BY <1>2, <2>1, SameCell DEF CellStep
<1>4. CASE l = k
  <2>1. \A u \in Threads : Phase(u, l) = "idle"
    BY <1>4 DEF IntoValue, InUse, Phase, Initializing
  <2>2. value'[l] = Null
    BY <1>1, <1>4 DEF TypeOK
  <2>3. Cell(l)!Take
    BY <1>2, <2>1, <2>2 DEF Cell!Take
  <2> QED
    BY <2>3 DEF CellStep, Cell!Next
<1> QED
  BY <1>3, <1>4

(* Every cell of sync goes through what OnceCellSpec lets it, whatever the *)
(* functions force, in a cycle (where they block for ever) or not.         *)
THEOREM CellsAreOnceCells == Spec => AreOnceCells
<1>1. LazyInv /\ LazyInv' /\ [Next]_vars
        => [\A l \in Lazies \ Unsync : Cell(l)!Next \/ UNCHANGED Cell(l)!vars]_vars
  <2> SUFFICES ASSUME LazyInv, LazyInv', Next, NEW l \in Lazies \ Unsync
               PROVE  CellStep(l)
    BY DEF CellStep
  <2>1. ASSUME NEW t \in Threads, FindNone(t)
        PROVE  CellStep(l)
    <3>1. At(t, "closure") /\ Leave(t) /\ value' = value /\ calls[t] # <<>>
      BY <2>1 DEF FindNone, Poisoned, At
    <3> QED
      BY <3>1, LeaveCell
  <2>2. ASSUME NEW t \in Threads, Get(t)
        PROVE  CellStep(l)
    <3>1. At(t, "cell") /\ Leave(t) /\ value' = value /\ value[This(t)] # Null /\ calls[t] # <<>>
      BY <2>2 DEF Get, At
    <3> QED
      BY <3>1, LeaveCell
  <2>3. ASSUME NEW t \in Threads, Panic(t)
        PROVE  CellStep(l)
    <3>1. At(t, "f") /\ Leave(t) /\ value' = value /\ calls[t] # <<>>
      BY <2>3 DEF Panic, At
    <3> QED
      BY <3>1, LeaveCell
  <2> QED
    BY <2>1, <2>2, <2>3, CallOnCell, StartOnCell, TakeInitOnCell, ReturnOnCell, IntoValueOnCell
    DEF Next, InClosure, Ends
<1> QED
  BY <1>1, LazyInvariant, PTL DEF Spec, AreOnceCells
=============================================================================
