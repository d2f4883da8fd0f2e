\* Any two requests at work, over one artwork, two exhibitions and removal requests.
SPECIFICATION Spec
CONSTANTS
    None = None
    Artworks = {a1}
    Shows = {e1, e2}
    Removable = {}
    Tickets = {t1, t2}
    Requests = {r1, r2}
    Caps = {1}
SYMMETRY RowSymmetry
PROPERTIES
    OnePlacement
    OnePendingTicket
    VerdictStands
    ApprovalTakesDown
    
