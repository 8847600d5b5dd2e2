SPECIFICATION Spec
CONSTANTS
  ann = ann
  bob = bob
  cy = cy
  dee = dee
  root = root
  Users <- MCUsers
  Scoped <- MCScoped
  Principals <- Management
  Workload <- Administered
  Recs = {r1}
  NoRow = NoRow
  NoRec = NoRec
  Threads = {t1}
  MaxRequests = 6
  MaxFaults = 1
INVARIANTS
  TablesTraceable
  NotifiedIsCommitted
PROPERTIES
  SeparationEnforced
  ImplementsLifecycle
