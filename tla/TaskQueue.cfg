\* Three tasks, two workers and a queue of one: submissions find it full, and both
\* workers can be busy. The server stops and rests then.
CONSTANTS
  Tasks = {t1, t2, t3}
  Workers = {w1, w2}
  Cap = 1
  NoTask = NoTask
SPECIFICATION FairSpec
INVARIANTS
  TypeOK
  RefusedNeverRuns
  IdsConserved
  RunningHoldsWorker
  StoppedIsQuiet
PROPERTIES
  LifecycleSpec
  EveryTaskEnds
  CallsReturn
CHECK_DEADLOCK FALSE
