\* The market of one of the strategies may have no tick in a time step.
SPECIFICATION FairSpec
CONSTANTS
  Strategies = {s1, s2}
  Workers = {w1, w2}
  None = None
  Silent = {s1}
  FromTs = 1
  ToTs = 3
  Timestep = 1
\* The program ends.
CHECK_DEADLOCK FALSE
PROPERTY RoundEnds
