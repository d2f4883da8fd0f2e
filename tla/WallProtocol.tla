---------------------------- MODULE WallProtocol ----------------------------
(***************************************************************************)
(* What exhibitions and removal requests promise, free of the statements a *)
(* request is made of: every operation is one atomic step, and a rule is   *)
(* looked at in the very step that relies on it.  Soft removal only shows  *)
(* in what it does to the artworks on the wall.                            *)
(*                                                                         *)
(* Rules have exceptions, for what some actor saw before another one       *)
(* changed it: late holds what the rule is about and the place it is       *)
(* applied to.  An exception lifts its rule for that place; the step that  *)
(* is taken is the same.                                                   *)
(*                                                                         *)
(* Nothing is promised about the status the artist or a sale gives an      *)
(* artwork: those writes do not depend on the artwork's place.             *)
(***************************************************************************)
EXTENDS Naturals, FiniteSets

CONSTANTS Artworks, Shows, Tickets, Caps, None

VARIABLES
    hung,    \* pairs <<exhibition, artwork>>: what hangs where
    status,  \* status[a]: what artwork a is labelled as
    show,    \* show[e]: how far exhibition e has come
    room,    \* room[e]: how many artworks e may hold
    asked,   \* pairs <<removal request, place>> still to be answered
    late     \* triples <<rule, exhibition, artwork>>: rules acted on too late

walls == <<hung, status, show, room, asked>>
wallVars == <<hung, status, show, room, asked, late>>

Rules == {"room", "artwork", "status", "pending", "verdict"}

Hung(e) == {a \in Artworks : <<e, a>> \in hung}

Relabel(arts, from, to) ==
    status' = [a \in Artworks |-> IF a \in arts /\ status[a] = from THEN to ELSE status[a]]

WallInit ==
    /\ hung = {}
    /\ status = [a \in Artworks |-> "DRAFT"]
    /\ show = [e \in Shows |-> "none"]
    /\ room \in [Shows -> Caps]
    /\ asked = {}
    /\ late = {}

\* The artist or a sale labels the artwork, whatever it is at the moment.
Label(a, s) ==
    /\ status' = [status EXCEPT ![a] = s]
    /\ UNCHANGED <<hung, show, room, asked>>

Plan(e, n) ==
    /\ show[e] = "none"
    /\ show' = [show EXCEPT ![e] = "DRAFT"]
    /\ room' = [room EXCEPT ![e] = n]
    /\ UNCHANGED <<hung, status, asked>>

Resize(e, n) ==
    /\ show[e] # "none"
    /\ room' = [room EXCEPT ![e] = n]
    /\ UNCHANGED <<hung, status, show, asked>>

Publish(e) ==
    /\ show[e] = "DRAFT" \/ <<"status", e, None>> \in late
    /\ show' = [show EXCEPT ![e] = "ACTIVE"]
    /\ Relabel(Hung(e), "LISTED", "IN_EXHIBITION")
    /\ UNCHANGED <<hung, room, asked>>

Withdraw(e, s) ==
    /\ show[e] = "ACTIVE" \/ <<"status", e, None>> \in late
    /\ show' = [show EXCEPT ![e] = s]
    /\ Relabel(Hung(e), "IN_EXHIBITION", "LISTED")
    /\ UNCHANGED <<hung, room, asked>>

Hide(e) ==
    /\ show[e] # "none"
    /\ Relabel(Hung(e), "IN_EXHIBITION", "LISTED")
    /\ UNCHANGED <<hung, show, room, asked>>

Hang(e, a) ==
    /\ show[e] # "none"
    /\ (\A f \in Shows : <<f, a>> \notin hung) \/ <<"artwork", e, a>> \in late
    /\ Cardinality(Hung(e)) < room[e] \/ <<"room", e, a>> \in late
    /\ hung' = hung \cup {<<e, a>>}
    /\ UNCHANGED <<status, show, room, asked>>

\* An artwork that leaves a public wall is listed again; one that leaves too late
\* may keep its label, or be listed although the wall is public no more.
TakeDown(e, a) ==
    /\ <<e, a>> \in hung
    /\ hung' = hung \ {<<e, a>>}
    /\ \E open \in BOOLEAN :
         /\ (open <=> show[e] = "ACTIVE") \/ <<"status", e, a>> \in late
         /\ IF open THEN Relabel({a}, "IN_EXHIBITION", "LISTED") ELSE UNCHANGED status
    /\ UNCHANGED <<show, room, asked>>

Ask(t, e, a) ==
    /\ (\A u \in Tickets : <<u, <<e, a>>>> \notin asked) \/ <<"pending", e, a>> \in late
    /\ asked' = asked \cup {<<t, <<e, a>>>>}
    /\ UNCHANGED <<hung, status, show, room>>

Refuse(t, e, a) ==
    /\ <<t, <<e, a>>>> \in asked
    /\ asked' = asked \ {<<t, <<e, a>>>>}
    /\ UNCHANGED <<hung, status, show, room>>

\* Only what was asked for is granted, and the artwork goes with the verdict.
Grant(t, e, a) ==
    /\ <<t, <<e, a>>>> \in asked \/ <<"verdict", e, a>> \in late
    /\ <<e, a>> \in hung
    /\ asked' = asked \ {<<t, <<e, a>>>>}
    /\ hung' = hung \ {<<e, a>>}
    /\ status' = [status EXCEPT ![a] = "ARCHIVED"]
    /\ UNCHANGED <<show, room>>

WallStep ==
    \/ \E a \in Artworks, s \in {"DRAFT", "LISTED", "ARCHIVED", "SOLD"} : Label(a, s)
    \/ \E e \in Shows, a \in Artworks :
         \/ Hang(e, a) \/ TakeDown(e, a)
         \/ \E t \in Tickets : Ask(t, e, a) \/ Refuse(t, e, a) \/ Grant(t, e, a)
    \/ \E e \in Shows :
         \/ \E n \in Caps : Plan(e, n) \/ Resize(e, n)
         \/ Publish(e) \/ Hide(e)
         \/ \E s \in {"DRAFT", "ENDED"} : Withdraw(e, s)

\* Actors come to be late, and stop being it, at any time.
WallNext ==
    /\ WallStep \/ UNCHANGED walls
    /\ late' \subseteq Rules \X Shows \X (Artworks \cup {None})

WallSpec == WallInit /\ [][WallNext]_wallVars

=============================================================================
