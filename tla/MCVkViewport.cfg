SPECIFICATION Spec
CONSTANTS
  Textures = {capture, output, layer}
  NoTexture = NoTexture
INVARIANTS ViewportKept
