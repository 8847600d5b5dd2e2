SPECIFICATION FairSpec
CONSTANTS
  Jobs = {j1, j2}
  Workers = {w1, w2}
  NoJob = nojob
  Modes = {"external", "pool", "inline"}
  OnceWorkers = {}
  Stoppable = {w1}
  MaxFaults = 0
PROPERTIES
  JobsEnd
