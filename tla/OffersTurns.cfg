\* The parties take turns on each offer; two offers compete for one artwork and
\* one request may die in flight.
SPECIFICATION FairSpec
CONSTANTS
    o1 = o1
    o2 = o2
    a1 = a1
    artist = artist
    buyer = buyer
    NoOffer = NoOffer
    Users = {artist, buyer}
    Artworks = {a1}
    ArtworkOf <- OneArtworkOf
    BuyerOf <- OneBuyerOf
    SellerOf <- OneSellerOf
    Offers <- TwoOffers
    Requests = {r1, r2}
    MayOverlap = FALSE
    MaxAborts = 1
    MaxCalls = 3
PROPERTIES
    EveryRequestEnds
    PartiesAreTold
