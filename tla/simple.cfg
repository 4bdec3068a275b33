CONSTANTS
  t1 = t1
  t2 = t2
  t3 = t3
  Tasks = {t1, t2, t3}
  IoTasks = {t2}
  Delays <- MCTwoDelays
  IdleWait <- MCIdleWait
  NoTask = NoTask
SPECIFICATION FairSpec
INVARIANTS NoDuplicates OneNap PostEndsSleep
PROPERTIES PostOrder ImplementsExecutor Progress
