SPECIFICATION Spec
CONSTANTS
  root = root
  u1 = u1
  u2 = u2
  admin = admin
  ann = ann
  p1 = p1
  p2 = p2
  k1 = k1
  Threads = {t1, t2}
  Ids = {root, u1, u2}
  Names = {admin, ann}
  Profiles <- MCProfiles
  Root = root
  RootName = admin
  Projects = {p1, p2}
  Global = Global
  Keys = {k1, k2}
  Values = {v1}
  Unset = Unset
  Conns = {c1, c2}
  None = None
  Offered <- MCOffered
  MaxFaults = 1
CHECK_DEADLOCK FALSE
SYMMETRY AdministrationSymmetry
INVARIANTS
  UniqueNames
  PatchesKept
  SecretsKept
  MappingUsable
