----------------------------- MODULE Placement -----------------------------
(***************************************************************************)
(* Where artworks hang: ExhibitionsService (shows, links, publishing, soft *)
(* removal), the handlers of ArtworksService that write Artwork.status, and *)
(* ArtworkRemovalRequestsService, over one database.                       *)
(*                                                                         *)
(* As in Offers, a request is a program counter that names its next        *)
(* awaited statement; a check that fails ends the request without a write, *)
(* and a first statement whose check fails is no step.  An interactive     *)
(* transaction that only writes is one step, its commit.                   *)
(***************************************************************************)
EXTENDS Naturals, FiniteSets

CONSTANTS
    Artworks,
    Shows,       \* exhibition ids
    Tickets,     \* ids of removal requests
    Requests,    \* slots for requests in flight
    Caps,        \* values of Exhibition.maxArtworks a curator may choose; one
                 \* of at least Cardinality(Artworks) stands for "no maximum"
    Removable,   \* exhibitions that remove() is called for: all of them in the
                 \* code, a bound on a run
    None         \* an absent field

ASSUME PlacementAssumption ==
    /\ None \notin Artworks \cup Shows \cup Tickets
    /\ Caps \subseteq Nat /\ Caps # {}
    /\ Removable \subseteq Shows

VARIABLES
    artStatus,   \* Artwork.status
    showStatus,  \* Exhibition.status, "none" before the row exists
    removed,     \* exhibitions with deletedAt set
    cap,         \* Exhibition.maxArtworks
    links,       \* ExhibitionArtwork rows, as pairs <<exhibition, artwork>>
    ticketOn,    \* the pair <<exhibition, artwork>> a removal request is about
    ticket,      \* ArtworkRemovalRequest.status, "none" before the row exists
    pc,          \* the statement each request will execute next
    job,         \* what each request is about and what it has read
    overtaken    \* history: pairs <<request, what>>, a request in flight and
                 \* what another one has written after this one had read it

artworkRows == <<artStatus>>
showRows == <<showStatus, removed, cap>>
ticketRows == <<ticketOn, ticket>>
requests == <<pc, job, overtaken>>
vars == <<artStatus, showStatus, removed, cap, links, ticketOn, ticket, pc, job, overtaken>>

ArtworkStatus == {"DRAFT", "LISTED", "IN_EXHIBITION", "SOLD", "ARCHIVED"}
OwnerSettable == {"DRAFT", "LISTED"}
ExhibitionStatus == {"DRAFT", "ACTIVE", "ENDED"}
TicketStatus == {"PENDING", "APPROVED", "REJECTED"}

\* An absent field is no status.
ASSUME NoneAssumption == None \notin ArtworkStatus \cup ExhibitionStatus \cup TicketStatus

AllowedTransitions == [DRAFT |-> {"ACTIVE"}, ACTIVE |-> {"ENDED", "DRAFT"}, ENDED |-> {}]

PlaceLabels == {"place.artwork", "place.count", "place.existing", "place.insert"}
UnplaceLabels == {"unplace.link", "unplace.commit"}
Labels == {"idle", "artwork.write", "status.commit", "remove.commit", "restore.write",
           "decide.commit"} \cup PlaceLabels \cup UnplaceLabels \cup
          {"ask.pending", "ask.insert"}

Jobs == [show : Shows \cup {None}, art : Artworks \cup {None},
         ticket : Tickets \cup {None},
         seen : ExhibitionStatus \cup {None},   \* Exhibition.status as read
         room : Caps \cup {None},               \* Exhibition.maxArtworks as read
         to : ArtworkStatus \cup ExhibitionStatus \cup TicketStatus \cup {None}]

\* What a request may be overtaken on, by the handler that relies on it: the room
\* of the exhibition and the places of the artwork (addArtwork), the exhibition's
\* status (setStatus, removeArtwork), the place's open removal requests (create)
\* and a removal request's verdict (decide).
Matters == {"room", "artwork", "status", "pending", "verdict"}

NoJob == [show |-> None, art |-> None, ticket |-> None, seen |-> None,
          room |-> None, to |-> None]

Exists(e) == showStatus[e] # "none"
PlacedIn(e) == {a \in Artworks : <<e, a>> \in links}
PlacesOf(a) == {e \in Shows : <<e, a>> \in links}

\* What the public queries return.
OnView(e) == showStatus[e] \in {"ACTIVE", "ENDED"} /\ e \notin removed

-----------------------------------------------------------------------------
(* The life of a request.                                                   *)

At(r, label) == pc[r] = label

\* Nothing in the code keeps requests apart: any number of them may be about
\* the same rows.
Begin(r, label, j) ==
    /\ At(r, "idle")
    /\ pc' = [pc EXCEPT ![r] = label]
    /\ job' = [job EXCEPT ![r] = j]
    /\ UNCHANGED <<artworkRows, showRows, links, ticketRows, overtaken>>

Goto(r, label) ==
    /\ pc' = [pc EXCEPT ![r] = label]
    /\ UNCHANGED <<job, overtaken>>

\* The requests with one of the labels that are about exhibition e.
InShow(labels, e) == {q \in Requests : pc[q] \in labels /\ job[q].show = e}

\* What a write overtakes, as pairs of overtaken: the requests that have read
\* what it changes.
PassedByPlace(e, a) ==
    {<<q, "room">> : q \in InShow({"place.existing", "place.insert"}, e)} \cup
    {<<q, "artwork">> : q \in {p \in Requests : At(p, "place.insert") /\ job[p].art = a}}

PassedByStatus(e) == {<<q, "status">> : q \in InShow({"status.commit"} \cup UnplaceLabels, e)}

PassedByAsk(e, a) == {<<q, "pending">> : q \in {p \in InShow({"ask.insert"}, e) : job[p].art = a}}

PassedByVerdict(t) ==
    {<<q, "verdict">> : q \in {p \in Requests : At(p, "decide.commit") /\ job[p].ticket = t}}

\* Request r is over; its last statement overtakes the given pairs.
Finish(r, passed) ==
    /\ pc' = [pc EXCEPT ![r] = "idle"]
    /\ job' = [job EXCEPT ![r] = NoJob]
    /\ overtaken' = {p \in overtaken \cup passed : p[1] # r}

End(r) == Finish(r, {})

\* The process stops or the connection or transaction is lost: a request that
\* dies leaves what it has committed and nothing of an open transaction.
Abort(r) ==
    /\ ~At(r, "idle")
    /\ End(r)
    /\ UNCHANGED <<artworkRows, showRows, links, ticketRows>>

GoOnIf(r, check, label) ==
    /\ IF check THEN Goto(r, label) ELSE End(r)
    /\ UNCHANGED <<artworkRows, showRows, links, ticketRows>>

\* updateMany({where: {status: from, link to the exhibition}, data: {status: to}})
Flip(arts, from, to) ==
    artStatus' = [a \in Artworks |->
                    IF a \in arts /\ artStatus[a] = from THEN to ELSE artStatus[a]]

-----------------------------------------------------------------------------
(* The artist: setStatus, archive, unarchive of ArtworksService.  All three  *)
(* read, check and then write the artwork by id.                             *)

StartSetStatus(r, a, s) ==
    /\ artStatus[a] \in OwnerSettable
    /\ s \in OwnerSettable
    /\ Begin(r, "artwork.write", [NoJob EXCEPT !.art = a, !.to = s])

\* archive() checks the links only: a SOLD artwork may be archived too.
StartArchive(r, a) ==
    /\ PlacesOf(a) = {}
    /\ Begin(r, "artwork.write", [NoJob EXCEPT !.art = a, !.to = "ARCHIVED"])

StartUnarchive(r, a) ==
    /\ artStatus[a] = "ARCHIVED"
    /\ Begin(r, "artwork.write", [NoJob EXCEPT !.art = a, !.to = "LISTED"])

ArtworkWrite(r) ==
    /\ At(r, "artwork.write")
    /\ artStatus' = [artStatus EXCEPT ![job[r].art] = job[r].to]
    /\ End(r)
    /\ UNCHANGED <<showRows, links, ticketRows>>

\* The sale flow (OffersService.release) sets SOLD from whatever the status is.
Sell(a) ==
    /\ artStatus' = [artStatus EXCEPT ![a] = "SOLD"]
    /\ UNCHANGED <<showRows, links, ticketRows, requests>>

-----------------------------------------------------------------------------
(* The curators: ExhibitionsService.                                         *)

\* create() inserts a DRAFT row, update() writes maxArtworks among columns that
\* no property tells apart; neither depends on what it read of the exhibition.
Create(e, c) ==
    /\ showStatus[e] = "none"
    /\ showStatus' = [showStatus EXCEPT ![e] = "DRAFT"]
    /\ cap' = [cap EXCEPT ![e] = c]
    /\ UNCHANGED <<removed, artworkRows, links, ticketRows, requests>>

\* fault: the minimum of maxArtworks is not enforced
UpdateUnchecked(e, c) ==
    /\ Exists(e)
    /\ \E n \in 0 .. c : cap' = [cap EXCEPT ![e] = n]
    /\ UNCHANGED <<showStatus, removed, artworkRows, links, ticketRows, requests>>

Update(e, c) ==
    /\ Exists(e)
    /\ cap' = [cap EXCEPT ![e] = c]
    /\ overtaken' = overtaken \cup {<<q, "room">> : q \in InShow(PlaceLabels, e)}
    /\ UNCHANGED <<showStatus, removed, artworkRows, links, ticketRows, pc, job>>

\* fault: an ended show may be published again
StartShowStatusBack(r, e, s) ==
    /\ Exists(e)
    /\ s \in AllowedTransitions[showStatus[e]] \/ (showStatus[e] = "ENDED" /\ s = "ACTIVE")
    /\ Begin(r, "status.commit", [NoJob EXCEPT !.show = e, !.to = s])

\* setStatus(): deletedAt is not looked at.
StartShowStatus(r, e, s) ==
    /\ Exists(e)
    /\ s \in AllowedTransitions[showStatus[e]]
    /\ Begin(r, "status.commit", [NoJob EXCEPT !.show = e, !.to = s])

\* fault: the artworks of a show that goes back to DRAFT stay as they are
ShowStatusKeepsDraft(r) ==
    /\ At(r, "status.commit")
    /\ CASE job[r].to = "ACTIVE" -> Flip(PlacedIn(job[r].show), "LISTED", "IN_EXHIBITION")
         [] job[r].to = "ENDED" -> Flip(PlacedIn(job[r].show), "IN_EXHIBITION", "LISTED")
         [] OTHER -> UNCHANGED artStatus
    /\ showStatus' = [showStatus EXCEPT ![job[r].show] = job[r].to]
    /\ Finish(r, PassedByStatus(job[r].show))
    /\ UNCHANGED <<removed, cap, links, ticketRows>>

ShowStatusCommit(r) ==
    /\ At(r, "status.commit")
    /\ IF job[r].to = "ACTIVE"
       THEN Flip(PlacedIn(job[r].show), "LISTED", "IN_EXHIBITION")
       ELSE Flip(PlacedIn(job[r].show), "IN_EXHIBITION", "LISTED")
    /\ showStatus' = [showStatus EXCEPT ![job[r].show] = job[r].to]
    /\ Finish(r, PassedByStatus(job[r].show))
    /\ UNCHANGED <<removed, cap, links, ticketRows>>

StartRemove(r, e) ==
    /\ e \in Removable
    /\ Exists(e) /\ e \notin removed
    /\ Begin(r, "remove.commit", [NoJob EXCEPT !.show = e])

RemoveCommit(r) ==
    /\ At(r, "remove.commit")
    /\ Flip(PlacedIn(job[r].show), "IN_EXHIBITION", "LISTED")
    /\ removed' = removed \cup {job[r].show}
    /\ End(r)
    /\ UNCHANGED <<showStatus, cap, links, ticketRows>>

StartRestore(r, e) ==
    /\ e \in removed
    /\ Begin(r, "restore.write", [NoJob EXCEPT !.show = e])

\* restore() does not publish the artworks of an ACTIVE show again.
RestoreWrite(r) ==
    /\ At(r, "restore.write")
    /\ removed' = removed \ {job[r].show}
    /\ End(r)
    /\ UNCHANGED <<showStatus, cap, artworkRows, links, ticketRows>>

\* addArtwork(): read the exhibition, the artwork, the number of its places and
\* any place of the artwork, then insert.  The artwork's status is not synced
\* with the show it enters.
StartPlace(r, e, a) ==
    /\ Exists(e)
    /\ Begin(r, "place.artwork",
             [NoJob EXCEPT !.show = e, !.art = a, !.room = cap[e]])

PlaceReadArtwork(r) ==
    /\ At(r, "place.artwork")
    /\ GoOnIf(r, artStatus[job[r].art] \notin {"ARCHIVED", "SOLD"}, "place.count")

\* fault: one artwork too many
PlaceCountOffByOne(r) ==
    /\ At(r, "place.count")
    /\ GoOnIf(r, Cardinality(PlacedIn(job[r].show)) <= job[r].room, "place.existing")

PlaceCount(r) ==
    /\ At(r, "place.count")
    /\ GoOnIf(r, Cardinality(PlacedIn(job[r].show)) < job[r].room, "place.existing")

\* fault: only places in the same exhibition are looked for
PlaceReadSameShow(r) ==
    /\ At(r, "place.existing")
    /\ GoOnIf(r, <<job[r].show, job[r].art>> \notin links, "place.insert")

PlaceReadExisting(r) ==
    /\ At(r, "place.existing")
    /\ GoOnIf(r, PlacesOf(job[r].art) = {}, "place.insert")

\* The pair is unique: a second insert fails and changes nothing.
PlaceInsert(r) ==
    LET place == <<job[r].show, job[r].art>> IN
    /\ At(r, "place.insert")
    /\ links' = links \cup {place}
    /\ Finish(r, IF place \in links THEN {} ELSE PassedByPlace(job[r].show, job[r].art))
    /\ UNCHANGED <<artworkRows, showRows, ticketRows>>

\* removeArtworkLink(): the delete fails, and with it the transaction, when the
\* link is gone; the artwork is synced by the exhibition status READ BEFORE,
\* unless the same transaction gives it another status.
Unlink(e, a, seen, rest) ==
    /\ <<e, a>> \in links
    /\ links' = links \ {<<e, a>>}
    /\ artStatus' = [artStatus EXCEPT ![a] =
                        IF rest # None THEN rest
                        ELSE IF seen = "ACTIVE" /\ @ = "IN_EXHIBITION" THEN "LISTED"
                        ELSE @]

StartUnplace(r, e, a) ==
    /\ Exists(e)
    /\ Begin(r, "unplace.link",
             [NoJob EXCEPT !.show = e, !.art = a, !.seen = showStatus[e]])

UnplaceReadLink(r) ==
    /\ At(r, "unplace.link")
    /\ GoOnIf(r, <<job[r].show, job[r].art>> \in links, "unplace.commit")

\* fault: an artwork that leaves a public wall is not listed again
UnplaceKeepsStatus(r) ==
    /\ At(r, "unplace.commit")
    /\ links' = links \ {<<job[r].show, job[r].art>>}
    /\ End(r)
    /\ UNCHANGED <<artworkRows, showRows, ticketRows>>

UnplaceCommit(r) ==
    /\ At(r, "unplace.commit")
    /\ \/ Unlink(job[r].show, job[r].art, job[r].seen, None)
       \/ /\ <<job[r].show, job[r].art>> \notin links
          /\ UNCHANGED <<links, artStatus>>
    /\ End(r)
    /\ UNCHANGED <<showRows, ticketRows>>

-----------------------------------------------------------------------------
(* Removal requests: create() by the artist, decide() by a curator.           *)

StartAsk(r, t, e, a) ==
    /\ ticket[t] = "none" /\ \A q \in Requests : job[q].ticket # t
    /\ <<e, a>> \in links
    /\ Begin(r, "ask.pending",
             [NoJob EXCEPT !.show = e, !.art = a, !.ticket = t])

\* fault: requests that are still pending are not looked for
AskUnchecked(r) ==
    /\ At(r, "ask.pending")
    /\ GoOnIf(r, TRUE, "ask.insert")

AskReadPending(r) ==
    /\ At(r, "ask.pending")
    /\ GoOnIf(r,
              \A t \in Tickets :
                 ~(ticket[t] = "PENDING" /\ ticketOn[t] = <<job[r].show, job[r].art>>),
              "ask.insert")

AskInsert(r) ==
    /\ At(r, "ask.insert")
    /\ ticket' = [ticket EXCEPT ![job[r].ticket] = "PENDING"]
    /\ ticketOn' = [ticketOn EXCEPT ![job[r].ticket] = <<job[r].show, job[r].art>>]
    /\ Finish(r, PassedByAsk(job[r].show, job[r].art))
    /\ UNCHANGED <<artworkRows, showRows, links>>

\* fault: a decided request may be decided again
StartDecideAgain(r, t, d) ==
    /\ ticket[t] # "none" /\ d \in {"APPROVED", "REJECTED"}
    /\ Begin(r, "decide.commit",
             [NoJob EXCEPT !.show = ticketOn[t][1], !.art = ticketOn[t][2], !.ticket = t,
                           !.to = d])

StartDecide(r, t, d) ==
    /\ ticket[t] = "PENDING" /\ d \in {"APPROVED", "REJECTED"}
    /\ Begin(r, "decide.commit",
             [NoJob EXCEPT !.show = ticketOn[t][1], !.art = ticketOn[t][2], !.ticket = t,
                           !.to = d])

\* fault: an approval whose link is gone is recorded all the same
DecideAnyway(r) ==
    /\ At(r, "decide.commit")
    /\ \/ /\ job[r].to = "APPROVED"
          /\ Unlink(job[r].show, job[r].art, None, "ARCHIVED")
       \/ /\ job[r].to = "REJECTED" \/ <<job[r].show, job[r].art>> \notin links
          /\ UNCHANGED <<links, artStatus>>
    /\ ticket' = [ticket EXCEPT ![job[r].ticket] = job[r].to]
    /\ Finish(r, IF ticket' = ticket THEN {} ELSE PassedByVerdict(job[r].ticket))
    /\ UNCHANGED <<ticketOn, showRows>>

\* One transaction: the verdict, and for an approval the link's deletion and
\* archiveForRemoval.  Without the link nothing of it is committed.
DecideCommit(r) ==
    /\ At(r, "decide.commit")
    /\ \/ /\ job[r].to = "APPROVED"
          /\ Unlink(job[r].show, job[r].art, None, "ARCHIVED")
          /\ ticket' = [ticket EXCEPT ![job[r].ticket] = "APPROVED"]
       \/ /\ job[r].to = "APPROVED" /\ <<job[r].show, job[r].art>> \notin links
          /\ UNCHANGED <<links, artStatus, ticket>>
       \/ /\ job[r].to = "REJECTED"
          /\ ticket' = [ticket EXCEPT ![job[r].ticket] = "REJECTED"]
          /\ UNCHANGED <<links, artStatus>>
    /\ Finish(r, IF ticket' = ticket THEN {} ELSE PassedByVerdict(job[r].ticket))
    /\ UNCHANGED <<ticketOn, showRows>>

-----------------------------------------------------------------------------
Init ==
    /\ artStatus = [a \in Artworks |-> "DRAFT"]
    /\ showStatus = [e \in Shows |-> "none"]
    /\ removed = {}
    /\ cap \in [Shows -> Caps]
    /\ links = {}
    /\ ticket = [t \in Tickets |-> "none"]
    /\ ticketOn = [t \in Tickets |-> <<None, None>>]
    /\ pc = [r \in Requests |-> "idle"]
    /\ job = [r \in Requests |-> NoJob]
    /\ overtaken = {}

ArtistStep(r) ==
    \/ \E a \in Artworks :
         \/ \E s \in ArtworkStatus : StartSetStatus(r, a, s)
         \/ StartArchive(r, a) \/ StartUnarchive(r, a)
    \/ ArtworkWrite(r)

CuratorStep(r) ==
    \/ \E e \in Shows :
         \/ \E s \in ExhibitionStatus : StartShowStatus(r, e, s)
         \/ StartRemove(r, e) \/ StartRestore(r, e)
         \/ \E a \in Artworks : StartPlace(r, e, a) \/ StartUnplace(r, e, a)
    \/ ShowStatusCommit(r) \/ RemoveCommit(r) \/ RestoreWrite(r)
    \/ PlaceReadArtwork(r) \/ PlaceCount(r) \/ PlaceReadExisting(r) \/ PlaceInsert(r)
    \/ UnplaceReadLink(r) \/ UnplaceCommit(r)

TicketStep(r) ==
    \/ \E t \in Tickets, e \in Shows, a \in Artworks : StartAsk(r, t, e, a)
    \/ \E t \in Tickets, d \in TicketStatus : StartDecide(r, t, d)
    \/ AskReadPending(r) \/ AskInsert(r) \/ DecideCommit(r)

Next ==
    \/ \E r \in Requests : ArtistStep(r) \/ CuratorStep(r) \/ TicketStep(r) \/ Abort(r)
    \/ \E e \in Shows, c \in Caps : Create(e, c) \/ Update(e, c)
    \/ \E a \in Artworks : Sell(a)

Spec == Init /\ [][Next]_vars

-----------------------------------------------------------------------------
(* What the handlers guarantee whoever else is at work.  They look first and  *)
(* write later, with nothing to hold the rows in between; so a rule can only  *)
(* break by the write of a request that was overtaken on the very row the     *)
(* rule is about, and every other interleaving keeps it.                      *)

Late(r, label, what) == At(r, label) /\ <<r, what>> \in overtaken

\* Every variable has its type, and an idle slot has no job and is overtaken by
\* nobody.
TypeOK ==
    /\ artStatus \in [Artworks -> ArtworkStatus]
    /\ showStatus \in [Shows -> ExhibitionStatus \cup {"none"}]
    /\ removed \subseteq Shows
    /\ cap \in [Shows -> Caps]
    /\ links \subseteq Shows \X Artworks
    /\ ticket \in [Tickets -> TicketStatus \cup {"none"}]
    /\ ticketOn \in [Tickets -> (Shows \X Artworks) \cup {<<None, None>>}]
    /\ pc \in [Requests -> Labels]
    /\ job \in [Requests -> Jobs]
    /\ \A r \in Requests : pc[r] = "idle" <=> job[r] = NoJob
    /\ overtaken \subseteq {r \in Requests : ~At(r, "idle")} \X Matters

\* An artwork that hangs in an exhibition, a draft included, is given a second
\* place only by an addArtwork that another addArtwork of the same artwork has
\* overtaken, and then only the one place that request is about.
OnePlacement ==
    [][\A a \in Artworks :
        PlacesOf(a) # {} /\ ~(PlacesOf(a)' \subseteq PlacesOf(a)) =>
            \E r \in Requests :
                /\ Late(r, "place.insert", "artwork") /\ job[r].art = a
                /\ PlacesOf(a)' = PlacesOf(a) \cup {job[r].show}]_vars

\* A placement takes an exhibition beyond the maximum it has at that moment only
\* if another placement into it, or an update of the maximum, has overtaken it,
\* and then by one artwork (update() may lower the maximum below what hangs).
WithinCap ==
    [][\A e \in Shows :
        \/ PlacedIn(e)' \subseteq PlacedIn(e)
        \/ Cardinality(PlacedIn(e)') <= cap[e]
        \/ \E r \in Requests :
             /\ Late(r, "place.insert", "room") /\ job[r].show = e
             /\ PlacedIn(e)' = PlacedIn(e) \cup {job[r].art}]_vars

InStep(a) ==
    artStatus[a] = "IN_EXHIBITION" => \E e \in PlacesOf(a) : showStatus[e] = "ACTIVE"

\* An artwork is IN_EXHIBITION only while a show it hangs in is ACTIVE:
\* publishing, ending, unpublishing, removing, placing and unlinking keep the two
\* tables in step, whatever the artist and other curators do meanwhile, even for
\* an artwork that hangs twice.  The one thing that puts them out of step is a
\* removeArtwork overtaken by a change of its exhibition's status.
InExhibitionHangs ==
    [][\A a \in Artworks :
        InStep(a) /\ ~InStep(a)' =>
            \E r \in Requests :
                Late(r, "unplace.commit", "status") /\ job[r].art = a]_vars

\* A show that has ended is published or drafted again only by a setStatus that
\* another setStatus of the show has overtaken.
EndedIsTerminal ==
    [][\A e \in Shows :
        showStatus[e] = "ENDED" /\ showStatus'[e] # "ENDED" =>
            \E r \in Requests : Late(r, "status.commit", "status") /\ job[r].show = e]_vars

\* A removal request is decided once, unless a decision was overtaken by another
\* on the same removal request.
VerdictStands ==
    [][\A t \in Tickets :
        ticket[t] \in {"APPROVED", "REJECTED"} /\ ticket'[t] # ticket[t] =>
            \E r \in Requests : Late(r, "decide.commit", "verdict") /\ job[r].ticket = t]_vars

\* An approval takes effect as a whole, whoever else is at work: the artwork
\* leaves the wall it was asked to leave and is archived in the same step, and no
\* other artwork and no other wall changes.
ApprovalTakesDown ==
    [][\A t \in Tickets :
        ticket[t] # "APPROVED" /\ ticket'[t] = "APPROVED" =>
            /\ ticketOn[t] \in links /\ links' = links \ {ticketOn[t]}
            /\ artStatus' = [artStatus EXCEPT ![ticketOn[t][2]] = "ARCHIVED"]]_vars

Pending(e, a) == {t \in Tickets : ticket[t] = "PENDING" /\ ticketOn[t] = <<e, a>>}

\* A place with an open removal request gets another one only by a create() that
\* another create() for the place has overtaken.
OnePendingTicket ==
    [][\A e \in Shows, a \in Artworks :
        Pending(e, a) # {} /\ ~(Pending(e, a)' \subseteq Pending(e, a)) =>
            \E r \in Requests :
                /\ Late(r, "ask.insert", "pending")
                /\ job[r].show = e /\ job[r].art = a]_vars

-----------------------------------------------------------------------------
(* Every request acts as one step: Placement implements WallProtocol.         *)

Walls == INSTANCE WallProtocol WITH
    hung <- links,
    status <- artStatus,
    show <- showStatus,
    room <- cap,
    asked <- {<<t, ticketOn[t]>> : t \in {u \in Tickets : ticket[u] = "PENDING"}},
    late <- {<<p[2], job[p[1]].show, job[p[1]].art>> : p \in overtaken}

\* Although every handler reads and checks before it writes, each of its writes
\* is an atomic step of the walls, whoever overlaps it: room and status as they
\* are at that moment, statuses of artworks moved together with the show's, and
\* approvals only of what is still asked for.  A request that was overtaken may
\* act on what it saw, but does nothing else than the step it stands for.
WallsRefined == Walls!WallSpec

-----------------------------------------------------------------------------
(* What comments of the code say of it.                                       *)

\* artworks.service.ts:234: an ARCHIVED artwork can never have a live link.
ArchivedHangsNowhere ==
    \A a \in Artworks : artStatus[a] = "ARCHIVED" => PlacesOf(a) = {}

\* exhibitions.service.ts:278: a show out of public view leaves no artwork stuck
\* "in exhibition" with nowhere to be seen.
NotStuck ==
    \A a \in Artworks :
        artStatus[a] = "IN_EXHIBITION" =>
            \E e \in PlacesOf(a) : showStatus[e] = "ACTIVE" /\ OnView(e)

=============================================================================
