\* Three strategies, one of which may have no tick, two workers, three time steps.
SPECIFICATION Spec
CONSTANTS
  Strategies = {s1, s2, s3}
  Workers = {w1, w2}
  None = None
  Silent = {s1}
  FromTs = 1
  ToTs = 3
  Timestep = 1
SYMMETRY WorkerSymmetry
\* The program ends.
CHECK_DEADLOCK FALSE
INVARIANTS OneWorkerEach FreedIdle
PROPERTY RefinesRounds
