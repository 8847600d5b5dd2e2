SPECIFICATION Spec
CONSTANTS
  Jobs = {j1, j2, j3}
  Workers = {w1, w2}
  NoJob = nojob
  Modes = {"external", "pool", "inline"}
  OnceWorkers = {w2}
  Stoppable = {w1}
  MaxFaults = 1
INVARIANTS
  RunsOnce
  StrandedByFaults
PROPERTIES
  ClaimedInOrder
SYMMETRY JobSymmetry
