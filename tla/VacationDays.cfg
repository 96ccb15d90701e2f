\* Two requests of one worker, two overlapping calls of any kind, a two-day calendar on
\* which records are also created, moved and removed by hand.
SPECIFICATION FairSpec
CONSTANTS
  Requests = {r1, r2}
  Callers  = {c1, c2}
  LastDay  = 2
  HandDays = {1, 2}
  Spans   <- SomeSpans
  Manual   = Manual
  NoRecord = NoRecord
  NoDay    = NoDay
  NoCaller = NoCaller
  NoCall   = NoCall
INVARIANTS
  TypeOK
  NoOrphanDays
  CoveredUnlessFreed
  NoCircularWait
PROPERTIES
  NeverClobbers
  AtomicDays
  EveryDecisionEnds
