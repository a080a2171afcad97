------------------------------ MODULE MCDrawing ------------------------------
(* Small screens, one layer of engine A, few vertices and textures of polygons. *)
EXTENDS Drawing

\* A vertex at a position of the scaled screen, in that position's pixel.
Vertex(x, y1) == [x |-> x, y |-> y1, column |-> x \div 2, row |-> y1 \div 2]

\* Some share a line or a pixel's row; the lowest is below the screen's last line, and the
\* pixel of the last one listed is not that of its position.
MCVertices ==
  {Vertex(0, 0), Vertex(3, 0), Vertex(2, 1), Vertex(0, 2), Vertex(3, 3), Vertex(1, 4), Vertex(3, 6),
   [x |-> 2, y |-> 4, column |-> 1, row |-> 1]}

Texture(kind, entry, array, place, offset, height, wrap) ==
  [kind |-> kind, entry |-> entry, array |-> array, layer |-> place, offset |-> offset, width |-> 128, height |-> height,
   wrap |-> wrap]

\* Two textures of one array, one of them also repeated, and captures of two heights.
MCTextures3D ==
  {Texture("cached", 1, "small", 0, -1, 128, "clamp"), Texture("cached", 2, "small", 1, -1, 128, "repeat"),
   Texture("cached", 1, "small", 0, -1, 128, "repeat"),
   Texture("capture", 0, "narrow", 0, 0, 128, "clamp"), Texture("capture", 0, "narrow", 0, 0, 64, "clamp")}
MCNoTexture3D == [kind |-> "none", width |-> 8, height |-> 8]
=============================================================================
