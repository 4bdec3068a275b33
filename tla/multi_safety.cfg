CONSTANTS
  t1 = t1
  t2 = t2
  t3 = t3
  Tasks = {t1, t2}
  Delays <- MCTwoDelays
  worker_size_ = 2
  NoTask = NoTask
SPECIFICATION Spec
SYMMETRY TaskSymmetry
INVARIANTS NoDuplicates NoWorkMissed StartAwaitsAll OneMoreTask CalmIsSafe
PROPERTIES ImplementsExecutor
