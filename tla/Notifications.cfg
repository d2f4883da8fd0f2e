\* An offer; admins come and go, inserts fail, the process stops, and two tabs
\* connect, fetch and drop out.
SPECIFICATION FairSpec
CONSTANTS
    None = None
    artist = artist
    curator = curator
    k1 = k1
    k2 = k2
    Users = {artist, curator}
    Events = {offer}
    Clients = {k1, k2}
    UserOf <- TabOf
    PartyOf <- PartyIsArtist
    RecentLimit = 1
INVARIANTS
    TypeOK
    ShownIsStored
    NothingMissed
PROPERTY
    EveryoneIsTold
