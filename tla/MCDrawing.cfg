SPECIFICATION SpecAll
CONSTANTS
  Textures = {output, sprite, layer}
  NoTexture = NoTexture
  Layers = {2}
  Engines = {0}
  Tiles = {0, 1}
  Maps = {5}
  Sizes = {1, 2}
  Modes = {0, 2, 5, 6}
  Lines = 3
  Versions = {0, 1}
  MaxWrites = 4
  SpriteLines = 24
  Around = 32
  Heights = {1, 2, 4, 8, 16}
  Width = 4
  MaxFrames = 2
  Columns = 2
  Rows = 3
  ScaleFactor = 2
  Vertices <- MCVertices
  MaxCorners = 5
  Textures3D <- MCTextures3D
  NoTexture3D <- MCNoTexture3D
  Blends = {0, 4}
  MaxPolygons = 3
  MaxScale = 16
INVARIANTS SampledIsReadable ScissorKept
INVARIANTS ReadsAreWatched PictureIsCurrent LinesAreTheirOwn SpriteOnItsLines WindowIsExact
INVARIANTS CaptureIsSound LinesAreBounded VariantIsOwn
INVARIANTS PassesInOrder TilesCoverScreen
PROPERTIES FrameIsCurrent
CHECK_DEADLOCK FALSE
