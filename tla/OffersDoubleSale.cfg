\* The double sale that accept() locks the artwork row against, with
\* requests that overlap on one offer.
SPECIFICATION Spec
CONSTANTS
    o1 = o1
    o2 = o2
    a1 = a1
    artist = artist
    buyer = buyer
    NoOffer = NoOffer
    Users = {artist, buyer}
    Artworks = {a1}
    ArtworkOf <- OneArtworkOf
    BuyerOf <- OneBuyerOf
    SellerOf <- OneSellerOf
    Offers <- TwoOffers
    Requests = {r1, r2}
    MayOverlap = TRUE
    MaxAborts = 0
    MaxCalls = 4
INVARIANT
    AtMostOneSale
