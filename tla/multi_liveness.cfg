CONSTANTS
  t1 = t1
  t2 = t2
  t3 = t3
  Tasks = {t1}
  Delays <- MCTwoDelays
  worker_size_ = 2
  NoTask = NoTask
SPECIFICATION FairSpec
PROPERTY Progress
