SPECIFICATION FairSpec
CONSTANTS
  t1 = t1
  t2 = t2
  t3 = t3
  None = None
  Word = Word
  Threads = {t1, t2, t3}
  Values <- Words
  MaxDepth = 2
  Live = {t1}
INVARIANTS
  EffectsAreVisible
PROPERTIES
  IsFirstWins
  IsFirstBool
  CallsReturn
