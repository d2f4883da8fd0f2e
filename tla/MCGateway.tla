----------------------------- MODULE MCGateway -----------------------------
(***************************************************************************)
(* Instances of Gateway for TLC: visitors of one API process, or spread    *)
(* over two.                                                               *)
(***************************************************************************)
EXTENDS Gateway, TLC

CONSTANTS i1, i2, s1, s2, e1, e2

OneInstanceOf == [s \in Sockets |-> i1]
TwoInstancesOf == [s \in Sockets |-> IF s = s1 THEN i1 ELSE i2]

\* Both clients visit e1, which s2 also watches; s1 switches to e2 and back.
MeetAndSwitch == {<<s1, e1>>, <<s1, e2>>, <<s2, e1>>}
WatchMeeting == {<<s2, e1>>}

AllPairs == Sockets \X Exhibitions

\* No property names a slot.
SlotSymmetry == Permutations(Handlers)

=============================================================================
