SPECIFICATION Spec
CONSTANTS
  ann = ann
  bob = bob
  cy = cy
  dee = dee
  root = root
  Users <- MCUsers
  Scoped <- MCScoped
  Principals <- Staff
  Workload <- Everything
  Recs = {r1}
  NoRow = NoRow
  NoRec = NoRec
  Threads = {t1, t2}
  MaxRequests = 4
  MaxFaults = 0
INVARIANTS
  ApprovalNotUndone
