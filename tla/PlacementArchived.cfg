\* The artist archives an artwork while a curator places it.
SPECIFICATION Spec
CONSTANTS
    None = None
    Artworks = {a1}
    Shows = {e1}
    Removable = {e1}
    Tickets = {t1}
    Requests = {r1, r2}
    Caps = {1}
SYMMETRY RowSymmetry
INVARIANT
    ArchivedHangsNowhere
