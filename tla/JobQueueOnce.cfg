SPECIFICATION Spec
CONSTANTS
  Jobs = {j1, j2}
  Workers = {w1, w2}
  NoJob = nojob
  Modes = {"external"}
  OnceWorkers = {w1, w2}
  Stoppable = {}
  MaxFaults = 0
PROPERTIES
  OnceDrains
