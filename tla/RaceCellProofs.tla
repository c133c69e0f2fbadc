--------------------------- MODULE RaceCellProofs ---------------------------
(* Theorems about RaceCell for any threads, values and depth of closures,  *)
(* and about OnceBool, where the values are the words of the bools.        *)
EXTENDS OnceBool, TLAPS
-----------------------------------------------------------------------------
(* The inductive invariant.  Who can no longer load the empty word has the *)
(* winner's effects, for it knows of the store only by reading it, which   *)
(* acquires, or from somebody who had them; and the message in a full cell *)
(* was released.                                                           *)

KnownIsStored ==
  \A t \in Threads : known[t] # 0 => known[t] = inner /\ t \in aware

AwareHaveSeen ==
  inner # 0 => Word \in seen /\ aware \subseteq seen

RaceInv == TypeOK /\ KnownIsStored /\ AwareHaveSeen

LEMMA InitRace ==
  ASSUME Init
  PROVE  RaceInv
BY MaxDepthAssumption DEF Init, RaceInv, TypeOK, KnownIsStored, AwareHaveSeen

(* What a load does to the invariant, and to what t knows.                 *)
LEMMA ReadsKeeps ==
  ASSUME RaceInv, NEW t \in Threads, NEW ord, ord = "Acquire", inner # 0,
         Reads(t, ord), inner' = inner
  PROVE  /\ known' \in [Threads -> Values \cup {0}]
         /\ aware' \subseteq Threads
         /\ seen' \subseteq Threads \cup {Word}
         /\ KnownIsStored'
         /\ AwareHaveSeen'
BY DEF RaceInv, TypeOK, KnownIsStored, AwareHaveSeen, Reads, Answer

LEMMA MissesKeeps ==
  ASSUME RaceInv, NEW t \in Threads, Misses(t), inner' = inner
  PROVE  /\ known' = known
         /\ KnownIsStored'
         /\ AwareHaveSeen'
BY DEF RaceInv, TypeOK, KnownIsStored, AwareHaveSeen, Misses

LEMMA NextRace ==
  ASSUME RaceInv, [Next]_vars
  PROVE  RaceInv'
<1> USE ValuesAssumption, NoneAssumption, MaxDepthAssumption
<1>1. ASSUME NEW t \in Threads, Get(t)
      PROVE  RaceInv'
  <2>1. CASE Finds(t)
    BY <1>1, <2>1, ReadsKeeps DEF Get, Finds, GetOrdering, RaceInv, TypeOK
  <2>2. CASE Misses(t)
    BY <1>1, <2>2, MissesKeeps DEF Get, Misses, RaceInv, TypeOK
  <2>3. QED
    BY <1>1, <2>1, <2>2 DEF Get
<1>2. ASSUME NEW t \in Threads, GetOrTryInit(t)
      PROVE  RaceInv'
  <2>1. CASE Finds(t) /\ UNCHANGED closures
    BY <1>2, <2>1, ReadsKeeps DEF GetOrTryInit, Finds, GetOrdering, RaceInv, TypeOK
  <2>2. CASE closures[t] < MaxDepth /\ Misses(t) /\ closures' = [closures EXCEPT ![t] = @ + 1]
    <3>1. closures' \in [Threads -> 0..MaxDepth]
      BY <2>2 DEF RaceInv, TypeOK
    <3>2. QED
      BY <1>2, <2>2, <3>1, MissesKeeps DEF GetOrTryInit, Misses, RaceInv, TypeOK
  <2>3. QED
    BY <1>2, <2>1, <2>2 DEF GetOrTryInit
<1>3. ASSUME NEW t \in Threads, NEW v \in Values, Set(t, v)
      PROVE  RaceInv'
  BY <1>3 DEF Set, RaceInv, TypeOK, KnownIsStored, AwareHaveSeen
<1>4. ASSUME NEW t \in Threads, ClosureReturns(t)
      PROVE  RaceInv'
  <2>1. closures' \in [Threads -> 0..MaxDepth]
    BY <1>4 DEF ClosureReturns, ClosureFails, ClosureSucceeds, RaceInv, TypeOK
  <2>2. offer' \in [Threads -> Values \cup {None}]
    BY <1>4 DEF ClosureReturns, ClosureFails, ClosureSucceeds, OfferOfFailed, RaceInv, TypeOK
  <2>3. UNCHANGED <<inner, known, aware, seen>>
    BY <1>4 DEF ClosureReturns, ClosureFails, ClosureSucceeds
  <2>4. QED
    BY <2>1, <2>2, <2>3 DEF RaceInv, TypeOK, KnownIsStored, AwareHaveSeen
<1>5. ASSUME NEW t \in Threads, Win(t)
      PROVE  RaceInv'
  <2>1. inner = 0 /\ offer[t] \in Values
    BY <1>5 DEF Win, Expected, RaceInv, TypeOK
  <2>2. TypeOK'
    BY <1>5, <2>1 DEF Win, RaceInv, TypeOK
  <2>3. \A u \in Threads : known[u] = 0
    BY <2>1 DEF RaceInv, KnownIsStored
  <2>4. KnownIsStored'
    BY <1>5, <2>3 DEF Win, KnownIsStored, RaceInv, TypeOK
  <2>5. AwareHaveSeen'
    BY <1>5 DEF Win, AwareHaveSeen, StoreOrdering
  <2>6. QED
    BY <2>2, <2>4, <2>5 DEF RaceInv
<1>6. ASSUME NEW t \in Threads, Lose(t)
      PROVE  RaceInv'
  BY <1>6, ReadsKeeps DEF Lose, Expected, FailureOrdering, AfterLoss, RaceInv, TypeOK
<1>7. ASSUME NEW t \in Threads, NEW u \in Threads, Synchronize(t, u)
      PROVE  RaceInv'
  BY <1>7 DEF Synchronize, RaceInv, TypeOK, KnownIsStored, AwareHaveSeen
<1>8. ASSUME NEW t \in Threads, GetUnchecked(t)
      PROVE  RaceInv'
  BY <1>8 DEF GetUnchecked, RaceInv, TypeOK, KnownIsStored, AwareHaveSeen
<1>9. CASE UNCHANGED vars
  BY <1>9 DEF vars, RaceInv, TypeOK, KnownIsStored, AwareHaveSeen
<1>10. QED
  BY <1>1, <1>2, <1>3, <1>4, <1>5, <1>6, <1>7, <1>8, <1>9 DEF Next, CompareExchange
-----------------------------------------------------------------------------
(* In every behaviour of a race cell: its types, and what its threads know *)
(* and see of the value in it.                                             *)
THEOREM RaceInvariant == Spec => []RaceInv
BY InitRace, NextRace, PTL DEF Spec

(* Every variable keeps its type; no offer is the word of the empty cell.  *)
THEOREM RaceTypeCorrect == Spec => []TypeOK
<1>1. RaceInv => TypeOK
  BY DEF RaceInv
<1>2. QED
  BY <1>1, RaceInvariant, PTL

(* Whoever has been told the value sees what the winner did before.        *)
THEOREM SideEffectsAreVisible == Spec => []EffectsAreVisible
<1>1. RaceInv => EffectsAreVisible
  BY ValuesAssumption DEF RaceInv, TypeOK, KnownIsStored, AwareHaveSeen, EffectsAreVisible
<1>2. QED
  BY <1>1, RaceInvariant, PTL

(* A thread that knows the value is told the same one ever after.          *)
THEOREM OneAnswer == Spec => AnswersNeverChange
<1>1. ASSUME RaceInv, RaceInv', [Next]_vars, NEW t \in Threads, known[t] # 0
      PROVE  known'[t] = known[t]
  <2>1. known[t] = inner /\ inner # 0
    BY <1>1 DEF RaceInv, KnownIsStored
  <2>2. inner' = inner
    BY <1>1, <2>1 DEF Next, vars, Get, GetUnchecked, GetOrTryInit, Set, ClosureReturns, ClosureFails,
                      ClosureSucceeds, CompareExchange, Win, Lose, Expected, Synchronize
  <2>3. known'[t] # 0
    BY <1>1, <2>1 DEF Next, vars, Get, GetUnchecked, GetOrTryInit, Finds, Misses, Reads, Answer, Set,
                      ClosureReturns, ClosureFails, ClosureSucceeds, CompareExchange, Win,
                      Lose, Expected, Synchronize, RaceInv, TypeOK, KnownIsStored
  <2>4. QED
    BY <1>1, <2>1, <2>2, <2>3 DEF RaceInv, KnownIsStored
<1>2. RaceInv /\ RaceInv' /\ [Next]_vars
        => [\A t \in Threads : known[t] # 0 => known'[t] = known[t]]_vars
  BY <1>1
<1>3. QED
  BY <1>2, RaceInvariant, PTL DEF Spec, AnswersNeverChange
-----------------------------------------------------------------------------
(* Refinement of FirstWins.                                                *)

Told == [t \in Threads |-> ValueOf(known[t])]

(* When t has been told what is in the cell, the others what they knew.    *)
LEMMA ToldOne ==
  ASSUME RaceInv, NEW t \in Threads, NEW w,
         known' = [known EXCEPT ![t] = w]
  PROVE  Told' = [Told EXCEPT ![t] = ValueOf(w)]
BY DEF RaceInv, TypeOK, Told, ValueOf

LEMMA InitRaceRefines ==
  ASSUME Init
  PROVE  Race!Init
BY DEF Init, Race!Init, ValueOf

LEMMA NextRaceRefines ==
  ASSUME RaceInv, [Next]_vars
  PROVE  [Race!Next]_Race!vars
<1> USE DEF Told
<1>1. ASSUME NEW t \in Threads, NEW ord, Reads(t, ord), inner # 0, UNCHANGED inner
      PROVE  ValueOf(inner) # None /\ Told' = [Told EXCEPT ![t] = ValueOf(inner)]
  <2>1. ValueOf(inner) # None
    BY <1>1, NoneAssumption, ValuesAssumption DEF ValueOf, RaceInv, TypeOK
  <2>2. QED
    BY <1>1, <2>1, ToldOne DEF Reads, Answer
<1>2. ASSUME NEW t \in Threads, Finds(t), UNCHANGED <<inner, offer>>
      PROVE  Race!Next
  BY <1>1, <1>2 DEF Finds, Race!Next, Race!Learn
<1>3. ASSUME NEW t \in Threads, Misses(t), UNCHANGED <<inner, offer>>
      PROVE  UNCHANGED Race!vars
  BY <1>3, MissesKeeps DEF Race!vars
<1>4. ASSUME NEW t \in Threads, NEW v \in Values, offer[t] = None,
             offer' = [offer EXCEPT ![t] = v], UNCHANGED <<inner, known>>
      PROVE  Race!Next
  BY <1>4 DEF Race!Next, Race!Offer
<1>5. ASSUME NEW t \in Threads, Win(t)
      PROVE  Race!Next
  <2>1. ValueOf(inner) = None /\ ValueOf(inner') = offer[t] /\ ValueOf(offer[t]) = offer[t]
    BY <1>5, ValuesAssumption, NoneAssumption DEF Win, Expected, ValueOf, RaceInv, TypeOK
  <2>2. Told' = [Told EXCEPT ![t] = offer[t]]
    BY <1>5, <2>1, ToldOne DEF Win
  <2>3. Race!Win(t)
    BY <1>5, <2>1, <2>2 DEF Win, Race!Win
  <2>4. QED
    BY <2>3 DEF Race!Next
<1>6. ASSUME NEW t \in Threads, Lose(t)
      PROVE  Race!Next
  <2>1. Race!Lose(t)
    BY <1>1, <1>6 DEF Lose, Expected, AfterLoss, Race!Lose
  <2>2. QED
    BY <2>1 DEF Race!Next
<1>7. ASSUME NEW t \in Threads, ClosureFails(t)
      PROVE  UNCHANGED Race!vars
  BY <1>7 DEF ClosureFails, InProgram, OfferOfFailed, Race!vars, RaceInv, TypeOK
<1>8. ASSUME UNCHANGED <<inner, offer, known>>
      PROVE  UNCHANGED Race!vars
  BY <1>8 DEF Race!vars
<1>9. ASSUME NEW t \in Threads, GetUnchecked(t)
      PROVE  Race!Next
  <2>1. ValueOf(inner) # None
    BY <1>9, NoneAssumption, ValuesAssumption DEF GetUnchecked, ValueOf, RaceInv, TypeOK
  <2>2. Told' = [Told EXCEPT ![t] = ValueOf(inner)]
    BY <1>9, ToldOne DEF GetUnchecked
  <2>3. QED
    BY <1>9, <2>1, <2>2 DEF GetUnchecked, Race!Next, Race!Learn
<1>10. QED
  BY <1>2, <1>3, <1>4, <1>5, <1>6, <1>7, <1>8, <1>9
     DEF Next, vars, Get, GetOrTryInit, Set, InProgram, ClosureReturns, ClosureSucceeds,
         CompareExchange, Synchronize

(* A race cell chooses one value and tells it to everybody.                *)
THEOREM FirstOneWins == Spec => IsFirstWins
BY InitRaceRefines, NextRaceRefines, RaceInvariant, PTL DEF Spec, IsFirstWins, Race!Spec
-----------------------------------------------------------------------------
(* OnceBool.                                                               *)

(* from_usize undoes to_usize, and no bool has the word of the empty cell. *)
LEMMA BoolsRoundTrip ==
  /\ \A b \in BOOLEAN : to_usize(b) \in Nat \ {0} /\ from_usize(to_usize(b)) = b
  /\ \A w \in Words : w # 0 /\ from_usize(w) \in BOOLEAN /\ to_usize(from_usize(w)) = w
BY DEF Words, to_usize, from_usize

LEMMA GivenIsRead ==
  ASSUME NEW w \in Words
  PROVE  Given(w) = from_usize(w)
<1>1. \A b \in BOOLEAN : to_usize(b) = w <=> b = from_usize(w)
  BY BoolsRoundTrip
<1>2. from_usize(w) \in BOOLEAN
  BY BoolsRoundTrip
<1>3. QED
  BY <1>1, <1>2 DEF Given

(* What the refinement mapping makes of the cell, the offers and the       *)
(* answers.                                                                *)
Chosen == IF inner = 0 THEN None ELSE Given(inner)
OfferOf(t) == IF offer[t] = None THEN None ELSE Given(offer[t])
AnswerOf(t) == IF known[t] = 0 THEN None ELSE from_usize(known[t])
Offers == [t \in Threads |-> OfferOf(t)]
Answers == [t \in Threads |-> AnswerOf(t)]

LEMMA BoolTypes ==
  ASSUME RaceInv
  PROVE  /\ inner # 0 => inner \in Words /\ Chosen = from_usize(inner) /\ Chosen \in BOOLEAN
         /\ inner = 0 => Chosen = None
         /\ \A t \in Threads :
              /\ offer[t] # None => /\ offer[t] \in Words /\ OfferOf(t) = from_usize(offer[t])
                                    /\ OfferOf(t) \in BOOLEAN
              /\ offer[t] = None => OfferOf(t) = None
<1>1. /\ inner # 0 => inner \in Words
      /\ \A t \in Threads : offer[t] # None => offer[t] \in Words
  BY BoolAssumption DEF RaceInv, TypeOK
<1>2. QED
  BY <1>1, GivenIsRead, BoolsRoundTrip DEF Chosen, OfferOf

(* A step that changes the answer, or the offer, of one thread.            *)
LEMMA OneAnswered ==
  ASSUME RaceInv, NEW t \in Threads, NEW w, known' = [known EXCEPT ![t] = w], w # 0
  PROVE  Answers' = [Answers EXCEPT ![t] = from_usize(w)]
BY DEF RaceInv, TypeOK, Answers, AnswerOf

LEMMA OneOffered ==
  ASSUME RaceInv, NEW t \in Threads, NEW w, offer' = [offer EXCEPT ![t] = w]
  PROVE  Offers' = [Offers EXCEPT ![t] = IF w = None THEN None ELSE Given(w)]
BY DEF RaceInv, TypeOK, Offers, OfferOf

LEMMA NextBoolRefines ==
  ASSUME RaceInv, [Next]_vars
  PROVE  [Bools!Next]_Bools!vars
<1> USE DEF Chosen, Offers, Answers, OfferOf, AnswerOf
<1>n. None \notin BOOLEAN
  BY BoolAssumption
<1>1. ASSUME UNCHANGED <<inner, offer, known>>
      PROVE  UNCHANGED Bools!vars
  BY <1>1 DEF Bools!vars
<1> HIDE DEF Chosen, Offers, Answers, OfferOf, AnswerOf
<1>2. ASSUME NEW t \in Threads, inner # 0, known' = [known EXCEPT ![t] = inner]
      PROVE  Chosen # None /\ Answers' = [Answers EXCEPT ![t] = Chosen]
  BY <1>2, <1>n, BoolTypes, OneAnswered
<1>3. ASSUME NEW t \in Threads, inner # 0, known' = [known EXCEPT ![t] = inner],
             UNCHANGED <<inner, offer>>
      PROVE  Bools!Next
  <2>1. Chosen' = Chosen /\ Offers' = Offers
    BY <1>3 DEF Chosen, Offers, OfferOf
  <2>2. Bools!Learn(t)
    BY <1>2, <1>3, <2>1 DEF Bools!Learn, Chosen, Offers, OfferOf, Answers, AnswerOf
  <2>3. QED
    BY <2>2 DEF Bools!Next
<1>4. ASSUME NEW t \in Threads, Finds(t), UNCHANGED <<inner, offer>>
      PROVE  Bools!Next
  BY <1>3, <1>4 DEF Finds, Reads, Answer
<1>5. ASSUME NEW t \in Threads, Misses(t), UNCHANGED <<inner, offer>>
      PROVE  UNCHANGED Bools!vars
  BY <1>1, <1>5, MissesKeeps
(* The program offers a bool, whose word the call takes along.             *)
<1>6. ASSUME NEW t \in Threads, NEW v \in Values, offer[t] = None,
             offer' = [offer EXCEPT ![t] = v], UNCHANGED <<inner, known>>
      PROVE  Bools!Next
  <2>1. v \in Words /\ v # None /\ Given(v) \in BOOLEAN
    BY BoolAssumption, NoneAssumption, ValuesAssumption, GivenIsRead, BoolsRoundTrip
  <2>2. Offers' = [Offers EXCEPT ![t] = Given(v)]
    BY <1>6, <2>1, OneOffered
  <2>3. Chosen' = Chosen /\ Answers' = Answers /\ OfferOf(t) = None
    BY <1>6 DEF Chosen, Answers, AnswerOf, OfferOf
  <2>4. Bools!Offer(t)
    BY <2>1, <2>2, <2>3 DEF Bools!Offer, Chosen, Offers, OfferOf, Answers, AnswerOf
  <2>5. QED
    BY <2>4 DEF Bools!Next
<1>7. ASSUME NEW t \in Threads, Win(t)
      PROVE  Bools!Next
  <2>1. /\ inner = 0 /\ inner' = offer[t] /\ offer[t] # None /\ offer[t] \in Words
        /\ offer[t] # 0 /\ known' = [known EXCEPT ![t] = offer[t]]
        /\ offer' = [offer EXCEPT ![t] = None]
    BY <1>7, BoolTypes, BoolsRoundTrip DEF Win, Expected
  <2>2. Chosen = None /\ Chosen' = Given(offer[t]) /\ OfferOf(t) = Given(offer[t])
    BY <2>1 DEF Chosen, OfferOf
  <2>3. Given(offer[t]) \in BOOLEAN /\ Given(offer[t]) = from_usize(offer[t])
    BY <2>1, GivenIsRead, BoolsRoundTrip
  <2>4. Offers' = [Offers EXCEPT ![t] = None]
    BY <2>1, OneOffered
  <2>5. Answers' = [Answers EXCEPT ![t] = from_usize(offer[t])]
    BY <2>1, OneAnswered
  <2>6. Bools!Win(t)
    BY <1>n, <2>2, <2>3, <2>4, <2>5 DEF Bools!Win, Chosen, Offers, OfferOf, Answers, AnswerOf
  <2>7. QED
    BY <2>6 DEF Bools!Next
<1>8. ASSUME NEW t \in Threads, Lose(t)
      PROVE  Bools!Next
  <2>1. /\ inner # 0 /\ inner' = inner /\ offer[t] # None
        /\ known' = [known EXCEPT ![t] = inner] /\ offer' = [offer EXCEPT ![t] = None]
    BY <1>8 DEF Lose, Expected, Reads, Answer, AfterLoss
  <2>2. /\ Chosen # None /\ Chosen' = Chosen /\ OfferOf(t) \in BOOLEAN
        /\ Answers' = [Answers EXCEPT ![t] = Chosen] /\ Offers' = [Offers EXCEPT ![t] = None]
    BY <1>2, <2>1, OneOffered, BoolTypes DEF Chosen
  <2>3. Bools!Lose(t)
    BY <1>n, <2>2 DEF Bools!Lose, Chosen, Offers, OfferOf, Answers, AnswerOf
  <2>4. QED
    BY <2>3 DEF Bools!Next
<1>9. ASSUME NEW t \in Threads, ClosureFails(t)
      PROVE  UNCHANGED Bools!vars
  BY <1>1, <1>9 DEF ClosureFails, InProgram, OfferOfFailed, RaceInv, TypeOK
<1>10. ASSUME NEW t \in Threads, GetUnchecked(t)
       PROVE  Bools!Next
  BY <1>3, <1>10 DEF GetUnchecked
<1>11. QED
  BY <1>1, <1>4, <1>5, <1>6, <1>7, <1>8, <1>9, <1>10
     DEF Next, vars, Get, GetOrTryInit, Set, InProgram, ClosureReturns, ClosureSucceeds,
         CompareExchange, Synchronize

(* OnceBool chooses one of the bools it was offered and tells that one to  *)
(* everybody: neither true nor false is mistaken for an empty cell, or for *)
(* the other one, on the way through the word.                             *)
THEOREM FirstBoolWins == Spec => IsFirstBool
<1>1. Init => Bools!Init
  BY DEF Init, Bools!Init
<1>2. QED
  BY <1>1, NextBoolRefines, RaceInvariant, PTL DEF Spec, IsFirstBool, Bools!Spec
=============================================================================
