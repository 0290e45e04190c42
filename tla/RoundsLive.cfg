\* Every strategy always has ticks: the rounds end, and so does the program.
SPECIFICATION FairSpec
CONSTANTS
  Strategies = {s1, s2}
  Workers = {w1, w2}
  None = None
  Silent = {}
  FromTs = 1
  ToTs = 3
  Timestep = 1
\* The program ends.
CHECK_DEADLOCK FALSE
PROPERTIES RoundEnds Ends
