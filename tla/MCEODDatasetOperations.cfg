SPECIFICATION RecordSpec
CONSTANTS
  g1 = g1  g2 = g2  g3 = g3
  b1 = b1  b2 = b2
  p1 = p1  p2 = p2
  m1 = m1  m2 = m2
  GenerationIds = {g1, g2, g3}
  Contents = {b1, b2}
  Publishers = {p1, p2}
  Readers = {}
  Maintainers = {m1, m2}
  NoGeneration = NoGeneration
  NoContent = NoContent
  NoThread = NoThread
  MaxStale = 2
  MaxArtifacts = 5
  MaxLineage = 2
SYMMETRY Symmetry
VIEW WithoutTold
PROPERTIES
  UpdatesBuildOnCurrent
  MaintenanceSparesPublications
  MaintenanceToldTruly
