------------------------------ MODULE MCOffers ------------------------------
(***************************************************************************)
(* Instances of Offers for TLC: one artwork, offers that compete for it,   *)
(* one artist and one buyer (two offers of one buyer may be open at once). *)
(***************************************************************************)
EXTENDS Offers, TLC

CONSTANTS o1, o2, a1, artist, buyer

TwoOffers == {o1, o2}

OneArtworkOf == [o \in Offers |-> a1]
OneBuyerOf == [o \in Offers |-> buyer]
OneSellerOf == [a \in Artworks |-> artist]

\* Slots are interchangeable, and so are the offers: all are for a1 and made by
\* the same buyer.  Only for runs without liveness properties.
SlotAndOfferSymmetry == Permutations(Requests) \cup Permutations(Offers)

=============================================================================
