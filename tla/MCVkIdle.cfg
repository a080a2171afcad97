SPECIFICATION Spec
CONSTANTS
  Slots = 3
  RingSize = 8
  UniformAlign = 2
  VertexAlign = 1
  PoolSets = 2
  Textures = {target, source}
  Uploads = {5}
  Draws <- DrawsMC
  ReadsBack = TRUE
  MaxImages = 3
INVARIANTS NoUseAfterFree
