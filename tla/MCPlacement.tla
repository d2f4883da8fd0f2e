---------------------------- MODULE MCPlacement ----------------------------
(***************************************************************************)
(* Instances of Placement for TLC.                                         *)
(***************************************************************************)
EXTENDS Placement, TLC

\* No property names an artwork, a show, a ticket or a slot.
WallSymmetry ==
    Permutations(Artworks) \cup Permutations(Shows) \cup Permutations(Requests)

RowSymmetry == WallSymmetry \cup Permutations(Tickets)

=============================================================================
