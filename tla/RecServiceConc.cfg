SPECIFICATION Spec
CONSTANTS
  ann = ann
  bob = bob
  cy = cy
  dee = dee
  root = root
  Users <- MCUsers
  Scoped <- MCScoped
  Principals <- Staff
  Workload <- Racing
  Recs = {r1}
  NoRow = NoRow
  NoRec = NoRec
  Threads = {t1, t2}
  MaxRequests = 6
  MaxFaults = 0
INVARIANTS
  RowConsistent
  AuditComplete
  EvaluationsCounted
  TargetsNameApprover
SYMMETRY ThreadSymmetry
