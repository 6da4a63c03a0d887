CONSTANTS
  Actor = {a1, a2}
  Submitter = {s1, s2}
  Worker = {w1, w2}
  Nobody = Nobody
  MaxTasks = 3
SPECIFICATION Spec
INVARIANTS
  TypeOK
  OneTaskPerActor
  NoStrandedTask
PROPERTY
  ImplementsSerial
\* once every task has run and no client sends more the pool rests
CHECK_DEADLOCK FALSE
