CONSTANTS
  t1 = t1
  t2 = t2
  t3 = t3
  Tasks = {t1, t2, t3}
  Verbs = {1, 2}
  MaxQueue = 2
  MaxLosses = 1
SPECIFICATION QueueSpec
PROPERTY QueueIsDurable
