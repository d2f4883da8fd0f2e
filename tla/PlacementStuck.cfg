\* One request at a time: a removed draft is published.
SPECIFICATION Spec
CONSTANTS
    None = None
    Artworks = {a1}
    Shows = {e1}
    Removable = {e1}
    Tickets = {t1}
    Requests = {r1}
    Caps = {1}
SYMMETRY RowSymmetry
INVARIANT
    NotStuck
