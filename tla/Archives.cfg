SPECIFICATION ArchivesSpec
CONSTANTS
  MaxCommands = 3
  MaxWork = 1
  MaxDamages = 1
INVARIANTS
  IntactVerifies
CHECK_DEADLOCK FALSE
