CONSTANTS
  t1 = t1
  t2 = t2
  t3 = t3
  Tasks = {t1, t2}
  IoTasks = {t2}
  Delays <- MCDelays
  IdleWait <- MCIdleWait
  NoTask = NoTask
SPECIFICATION Spec
INVARIANT IoTaskOnExecutor
