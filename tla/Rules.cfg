SPECIFICATION MCSpec
CONSTANTS
  Histories <- MCHistories
  ReservoirRows <- MCReservoirRows
  Forms <- MCForms
  Sources <- MCSources
  TableRows <- MCTableRows
  Timelines <- MCTimelines
  Flows <- MCFlows
  Stretches <- MCStretches
  Tabulated <- MCTabulated
  RateSeries <- MCRateSeries
  Gauges <- MCGauges
  Fields <- MCFields
  Runs <- MCRuns
  Fits <- MCFitted
  Sites <- MCSites
  Trials <- MCTrials
  Ensembles <- MCTwoMembers
  Contests <- MCContests
  Refits <- MCRefits
  Allocations <- MCAllocations
  Plans <- MCPlans
  Problems <- MCProblems
  Inquiries <- MCInquiries
  Economics <- MCEconomics
  Ramps <- MCRamps
  Implemented <- MCImplemented
  Months <- MCMonths
  Cuts <- MCCuts
  Records <- MCRecords
  Layers <- MCLayers
  Reports <- MCReports
  Processes = {p1, p2}
  People = {u1}
  Posts = {"admin", "engineer"}
  MaxStarts = 4
  MaxChanges = 1
  Hooks = {h1, h2}
  Happenings = {"run_finished", "state_changed"}
  MaxDispatches = 2
  MaxHookFaults = 1
  Handlers = {t1, t2}
  Keys = {k1, k2}
  MaxUnits = 3
  MaxBreaks = 1
  MaxCommands = 4
  MaxWork = 1
  MaxDamages = 1
  ann = ann
  bob = bob
  cy = cy
  Users = {ann, bob, cy}
  Principals <- MCPrincipals
  Recs = {r1}
  NoRow = NoRow
  Times = {1, 2}
INVARIANTS
  RolesExplained
  LoadSound
  WindowsUsable
  GridSound
  SectorsPartition
  ConversionsCut
  MembersBounded
  EnsembleSound
  ShiftSound
  ForecastContinues
  PlanSound
  ScenariosComparable
  RampSafe
  
  SettingsLayered
  ShownAsComputed
  SessionsHold
  NoticesAccounted
  UnitsAtomic
  RestoreSound
PROPERTIES
  SnapshotImmutable
CHECK_DEADLOCK FALSE
