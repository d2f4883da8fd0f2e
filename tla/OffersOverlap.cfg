\* Any two requests may overlap, on one offer too.
SPECIFICATION Spec
CONSTANTS
    o1 = o1
    o2 = o2
    a1 = a1
    artist = artist
    buyer = buyer
    NoOffer = NoOffer
    Users = {artist, buyer}
    Artworks = {a1}
    ArtworkOf <- OneArtworkOf
    BuyerOf <- OneBuyerOf
    SellerOf <- OneSellerOf
    Offers <- TwoOffers
    Requests = {r1, r2}
    MayOverlap = TRUE
    MaxAborts = 1
    MaxCalls = 4
SYMMETRY SlotAndOfferSymmetry
INVARIANTS
    TypeOK
    OneAccepted
    Ledger
    SoldIsPaid
    SoldOnce
    ChargedOnce
PROPERTIES
    DecisionFinal
    SaleRefined
