SPECIFICATION Spec
CONSTANTS
  g1 = g1  g2 = g2  g3 = g3
  b1 = b1  b2 = b2
  p1 = p1  p2 = p2
  c1 = c1
  GenerationIds = {g1, g2, g3}
  Contents = {b1, b2}
  Publishers = {p1, p2}
  Readers = {c1}
  NoGeneration = NoGeneration
  NoContent = NoContent
  MaxStale = 1
SYMMETRY Symmetry
INVARIANTS
  EveryGenerationComplete
  ReadsSucceed
PROPERTIES
  ImplementsStore
