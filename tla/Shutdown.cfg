CONSTANTS
  t1 = t1
  w1 = w1
  l1 = l1
  Tasks = {t1}
  Workers = {w1}
  Listeners = {l1}
  NotifyCap = 1
  MaxCids = 2
SPECIFICATION DaemonFairSpec
 
PROPERTIES  ListenEnds
CHECK_DEADLOCK FALSE
