\* Any two requests at work, over the artworks of one exhibition.
SPECIFICATION Spec
CONSTANTS
    None = None
    Artworks = {a1, a2}
    Shows = {e1}
    Removable = {e1}
    Tickets = {}
    Requests = {r1, r2}
    Caps = {1, 2}
SYMMETRY WallSymmetry
INVARIANTS
    TypeOK
PROPERTIES
    WithinCap
    EndedIsTerminal
    
    
