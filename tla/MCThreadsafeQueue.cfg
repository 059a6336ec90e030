SPECIFICATION FairSpec
CONSTANTS
  Workers = {w1, w2}
  Producers = {p1, p2}
  Pollers = {t1}
  Closer = closer
  PerProducer = 2
INVARIANTS FirstInFirstOut WakeupsCoverQueue StopsDrained EveryJobProcessed
PROPERTIES AllWorkersStop QueuedIsTaken
