SPECIFICATION BackupSpec
CONSTANTS
  Runs = {r1, r2}
  NoRun = NoRun
  Executors = {e1, e2}
  InApi = {e1}
  Hashes = {h1, h2}
  NoHash = NoHash
  Tables = {rates, wells}
  Sectors = {s1}
  MaxFaults = 1
SYMMETRY BackupSymmetry
INVARIANTS
  CatalogueComplete
  RunsUsable
  ArchiveConsistent
