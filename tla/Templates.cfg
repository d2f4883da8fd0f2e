\* Two updates in flight on one of two templates while an exhibition comes,
\* hangs artworks and changes its scene.
SPECIFICATION Spec
CONSTANTS
    None = None
    Templates = {t1, t2}
    Exhibitions = {e1}
    Colors = {c1, c2}
    Textures = {x1}
    Shapes = {q1, q2}
    Requests = {r1, r2}
SYMMETRY RoomSymmetry
INVARIANTS
    TypeOK
    ThemeInStep
PROPERTY
    WallsStay
