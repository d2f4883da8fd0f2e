---------------------------- MODULE SaleProtocol ----------------------------
(***************************************************************************)
(* What the offers component promises about the sale of an artwork, free   *)
(* of requests, database statements and locks.  An offer is placed, then   *)
(* either closed (rejected by the artist, withdrawn by the buyer, or made  *)
(* moot by another offer's acceptance) or accepted, paid into escrow,      *)
(* delivered and released.  At most one offer on an artwork is ever on the *)
(* second path.                                                            *)
(*                                                                         *)
(* The promise is made artwork by artwork.  It ends where the users contest *)
(* an artwork, pursuing one of its offers in two different ways at once.   *)
(*                                                                         *)
(* The stages are those of OffersService's ALLOWED_TRANSITIONS, REJECTED   *)
(* and CANCELLED being one stage here: which of the two a closed offer     *)
(* shows depends on the order in which two late writes land.               *)
(***************************************************************************)
CONSTANTS
    Offers,     \* offers that may ever be placed
    ArtworkOf   \* the artwork an offer is for, a function on Offers

VARIABLES
    stage,      \* stage[o]: how far offer o has come
    escrow,     \* escrow[o]: the buyer's money for offer o
    contested   \* artworks of which nothing is promised any more

saleVars == <<stage, escrow, contested>>

SaleStages == {"none", "open", "closed", "accepted", "paid", "delivered", "released"}

Committed == {"accepted", "paid", "delivered", "released"}

Rivals(o) == {p \in Offers \ {o} : ArtworkOf[p] = ArtworkOf[o]}

SaleInit ==
    /\ stage = [o \in Offers |-> "none"]
    /\ escrow = [o \in Offers |-> "empty"]
    /\ contested = {}

Move(o, from, to) ==
    /\ stage[o] = from
    /\ stage' = [stage EXCEPT ![o] = to]

\* A buyer makes an offer.  Nothing is promised about rivals: a placed offer
\* may turn out to be hopeless.
Place(o) ==
    /\ Move(o, "none", "open")
    /\ UNCHANGED <<escrow, contested>>

Close(o) ==
    /\ Move(o, "open", "closed")
    /\ UNCHANGED <<escrow, contested>>

\* The artist accepts o: possible only while no rival is committed, and every
\* rival that is still open closes in the same step.
Agree(o) ==
    /\ stage[o] = "open"
    /\ \A p \in Rivals(o) : stage[p] \notin Committed
    /\ stage' = [p \in Offers |->
                    IF p = o THEN "accepted"
                    ELSE IF p \in Rivals(o) /\ stage[p] = "open" THEN "closed"
                    ELSE stage[p]]
    /\ UNCHANGED <<escrow, contested>>

PayIn(o) ==
    /\ Move(o, "accepted", "paid")
    /\ escrow[o] = "empty"
    /\ escrow' = [escrow EXCEPT ![o] = "held"]
    /\ UNCHANGED contested

Deliver(o) ==
    /\ Move(o, "paid", "delivered")
    /\ UNCHANGED <<escrow, contested>>

PayOut(o) ==
    /\ Move(o, "delivered", "released")
    /\ escrow[o] = "held"
    /\ escrow' = [escrow EXCEPT ![o] = "released"]
    /\ UNCHANGED contested

Contest(o) ==
    /\ contested' = contested \cup {ArtworkOf[o]}
    /\ UNCHANGED <<stage, escrow>>

\* The offers on a contested artwork move in any way; the others stay.
Stray ==
    /\ \A p \in Offers :
          ArtworkOf[p] \notin contested => stage'[p] = stage[p] /\ escrow'[p] = escrow[p]
    /\ UNCHANGED contested

SaleNext ==
    \/ \E o \in Offers :
         \/ Place(o) \/ Close(o) \/ Agree(o) \/ PayIn(o) \/ Deliver(o) \/ PayOut(o)
         \/ Contest(o)
    \/ Stray

SaleSpec == SaleInit /\ [][SaleNext]_saleVars

=============================================================================
