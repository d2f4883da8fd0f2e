-------------------------- MODULE MCNotifications --------------------------
(***************************************************************************)
(* Instances of Notifications for TLC: an artist and a curator with a      *)
(* browser tab each; either may become an admin.                           *)
(***************************************************************************)
EXTENDS Notifications

CONSTANTS artist, curator, k1, k2

TabOf == [k \in Clients |-> IF k = k1 THEN curator ELSE artist]
PartyIsArtist == [n \in Events |-> artist]

=============================================================================
