\* One user, one organization, two requests in flight at once, of which one
\* may die; two codes, two wrong guesses allowed for each.
SPECIFICATION Spec
CONSTANTS
    None = None
    Users = {u1}
    Organizations = {g1}
    Requests = {r1, r2}
    MAX_ATTEMPTS = 2
    MaxCodes = 2
    MaxAborts = 1
SYMMETRY AccountSymmetry
CHECK_DEADLOCK FALSE
INVARIANTS
    TypeOK
    NewestOnly
    OneTokenPerCode
    GuessesBounded
    AdminHasOrg
PROPERTY
    ActsOnTheRow
