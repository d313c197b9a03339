SPECIFICATION FairSpec
CONSTANTS
  Members = {m1, m2, m3}
  FirstSpace = 2
  MakTries = 2
  AckRoom = 1
INVARIANTS
  TypeOK
  Directory
  LoopsEnd
  TriesAreSilence
PROPERTIES
  EveryoneAcked
CHECK_DEADLOCK FALSE
