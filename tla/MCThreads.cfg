SPECIFICATION MCSpec
CONSTANTS
  Threads = {t1, t2, t3}
  Keys = {k1, k2}
  Values = {v1, v2}
  Buckets = {b1, b2}
  Absent = absent
  Idle = idle
  Workers = {w1, w2}
  Producers = {p1, p2}
  PerProducer = 2
  MaxLength = 9
  MaxHardwareThreads = 4
  MinPerThread = 2
  Iterations = 2
  Timers = {timer1, timer2}
  Limit = 4
INVARIANTS CountsExact
PROPERTIES ImplementsMap EveryDomainCached
