SPECIFICATION Spec
CONSTANTS
  ann = ann
  bob = bob
  cy = cy
  dee = dee
  root = root
  Users <- MCUsers
  Scoped <- MCScoped
  Principals <- Staff
  Workload <- Everything
  Recs = {r1}
  NoRow = NoRow
  NoRec = NoRec
  Threads = {t1}
  MaxRequests = 3
  MaxFaults = 1
INVARIANTS
  ApprovalLogged
