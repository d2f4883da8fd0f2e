---------------------------- MODULE MCTemplates ----------------------------
(***************************************************************************)
(* Instances of Templates for TLC.                                         *)
(***************************************************************************)
EXTENDS Templates, TLC

\* No property names any of these values.
RoomSymmetry ==
    Permutations(Templates) \cup Permutations(Exhibitions) \cup Permutations(Colors)
        \cup Permutations(Textures) \cup Permutations(Shapes) \cup Permutations(Requests)

=============================================================================
