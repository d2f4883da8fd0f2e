--------------------------- MODULE PlacementProofs ---------------------------
(***************************************************************************)
(* Machine-checked proofs about Placement, for every set of artworks,      *)
(* exhibitions, removal requests and slots, and every overlap of requests. *)
(*                                                                         *)
(* The argument is that of the history variable overtaken: as long as      *)
(* nobody has overtaken a request on something it has read, what it read is *)
(* still so (Knows).  It is inductive because each write names exactly the *)
(* requests in flight that have read what it changes.                      *)
(***************************************************************************)
EXTENDS Placement, FiniteSetTheorems, TLAPS

(***************************************************************************)
(* Type correctness.                                                       *)
(***************************************************************************)

RowsTyped ==
    /\ artStatus \in [Artworks -> ArtworkStatus]
    /\ showStatus \in [Shows -> ExhibitionStatus \cup {"none"}]
    /\ removed \subseteq Shows
    /\ cap \in [Shows -> Caps]
    /\ links \subseteq Shows \X Artworks
    /\ ticket \in [Tickets -> TicketStatus \cup {"none"}]
    /\ ticketOn \in [Tickets -> (Shows \X Artworks) \cup {<<None, None>>}]

\* The requests that somebody may overtake.
Busy == {r \in Requests : pc[r] \notin {"idle", "artwork.write"}}

SlotsTyped ==
    /\ pc \in [Requests -> Labels]
    /\ job \in [Requests -> Jobs]
    /\ \A r \in Requests : pc[r] = "idle" <=> job[r] = NoJob
    /\ overtaken \subseteq Busy \X Matters

\* What the job of a request holds at each statement: a show that exists, the
\* artwork, the request it decides, the status it is to write.
JobFits(label, j) ==
    /\ label \notin {"idle", "artwork.write"} => j.show \in Shows /\ Exists(j.show)
    /\ label \notin {"idle", "status.commit", "remove.commit", "restore.write"} =>
           j.art \in Artworks
    /\ label = "artwork.write" => j.to \in {"DRAFT", "LISTED", "ARCHIVED"}
    /\ label = "status.commit" => j.to \in ExhibitionStatus /\ j.art = None
    /\ label \in PlaceLabels => j.room \in Caps
    /\ label \in {"ask.pending", "ask.insert", "decide.commit"} => j.ticket \in Tickets
    /\ label = "decide.commit" =>
           j.to \in {"APPROVED", "REJECTED"} /\ ticket[j.ticket] # "none"

JobsFit == \A r \in Requests : JobFits(pc[r], job[r])

\* Soft removal, links and removal requests are about exhibitions that exist.
RefsExist ==
    /\ \A e \in removed : Exists(e)
    /\ \A p \in links : Exists(p[1])
    /\ \A t \in Tickets :
          ticket[t] # "none" => ticketOn[t] \in Shows \X Artworks /\ Exists(ticketOn[t][1])

Typed == RowsTyped /\ SlotsTyped /\ JobsFit /\ RefsExist

-----------------------------------------------------------------------------
(***************************************************************************)
(* How a step moves the slots: it begins a request, executes a statement   *)
(* that only reads, or ends one.                                           *)
(***************************************************************************)

Starting(r) ==
    \/ \E a \in Artworks :
         \/ \E s \in ArtworkStatus : StartSetStatus(r, a, s)
         \/ StartArchive(r, a) \/ StartUnarchive(r, a)
    \/ \E e \in Shows :
         \/ \E s \in ExhibitionStatus : StartShowStatus(r, e, s)
         \/ StartRemove(r, e) \/ StartRestore(r, e)
         \/ \E a \in Artworks : StartPlace(r, e, a) \/ StartUnplace(r, e, a)
    \/ \E t \in Tickets, e \in Shows, a \in Artworks : StartAsk(r, t, e, a)
    \/ \E t \in Tickets, d \in TicketStatus : StartDecide(r, t, d)

Reading(r) ==
    \/ PlaceReadArtwork(r) \/ PlaceCount(r) \/ PlaceReadExisting(r)
    \/ UnplaceReadLink(r) \/ AskReadPending(r)

Writing(r) ==
    \/ ArtworkWrite(r) \/ ShowStatusCommit(r) \/ RemoveCommit(r) \/ RestoreWrite(r)
    \/ PlaceInsert(r) \/ UnplaceCommit(r) \/ AskInsert(r) \/ DecideCommit(r)

LEMMA NextKinds ==
  Next <=>
    \/ \E r \in Requests : Starting(r) \/ Reading(r) \/ Writing(r) \/ Abort(r)
    \/ \E e \in Shows, c \in Caps : Create(e, c) \/ Update(e, c)
    \/ \E a \in Artworks : Sell(a)
  BY DEF Next, ArtistStep, CuratorStep, TicketStep, Starting, Reading, Writing

allRows == <<artStatus, showStatus, removed, cap, links, ticketOn, ticket>>

LEMMA NoJobTyped == NoJob \in Jobs
  BY DEF NoJob, Jobs

\* A request that begins does so with a job that fits its first statement.
LEMMA StartFits ==
  ASSUME Typed, NEW r \in Requests, Starting(r)
  PROVE  \E label \in Labels \ {"idle"}, j \in Jobs :
            Begin(r, label, j) /\ JobFits(label, j) /\ UNCHANGED allRows
  <1> USE PlacementAssumption, NoneAssumption DEF allRows, artworkRows, showRows,
          ticketRows, Begin, JobFits, Jobs, NoJob, Labels, PlaceLabels, UnplaceLabels
  <1>1. ASSUME NEW a \in Artworks, NEW s \in ArtworkStatus, StartSetStatus(r, a, s)
        PROVE  \E j \in Jobs : Begin(r, "artwork.write", j)
                                  /\ JobFits("artwork.write", j)
    BY <1>1 DEF StartSetStatus, OwnerSettable, ArtworkStatus
  <1>2. ASSUME NEW a \in Artworks, StartArchive(r, a) \/ StartUnarchive(r, a)
        PROVE  \E j \in Jobs : Begin(r, "artwork.write", j)
                                  /\ JobFits("artwork.write", j)
    BY <1>2 DEF StartArchive, StartUnarchive, ArtworkStatus
  <1>3. ASSUME NEW e \in Shows, NEW s \in ExhibitionStatus, StartShowStatus(r, e, s)
        PROVE  \E j \in Jobs : Begin(r, "status.commit", j)
                                  /\ JobFits("status.commit", j)
    BY <1>3 DEF StartShowStatus
  <1>4. ASSUME NEW e \in Shows, StartRemove(r, e)
        PROVE  \E j \in Jobs : Begin(r, "remove.commit", j)
                                  /\ JobFits("remove.commit", j)
    BY <1>4 DEF StartRemove
  <1>5. ASSUME NEW e \in Shows, StartRestore(r, e)
        PROVE  \E j \in Jobs : Begin(r, "restore.write", j)
                                  /\ JobFits("restore.write", j)
    BY <1>5 DEF StartRestore, Typed, RefsExist, RowsTyped
  <1>6. ASSUME NEW e \in Shows, NEW a \in Artworks, StartPlace(r, e, a)
        PROVE  \E j \in Jobs : Begin(r, "place.artwork", j)
                                  /\ JobFits("place.artwork", j)
    BY <1>6 DEF StartPlace, Typed, RowsTyped
  <1>7. ASSUME NEW e \in Shows, NEW a \in Artworks, StartUnplace(r, e, a)
        PROVE  \E j \in Jobs : Begin(r, "unplace.link", j)
                                  /\ JobFits("unplace.link", j)
    BY <1>7 DEF StartUnplace, Typed, RowsTyped, Exists
  <1>8. ASSUME NEW t \in Tickets, NEW e \in Shows, NEW a \in Artworks,
               StartAsk(r, t, e, a)
        PROVE  \E j \in Jobs : Begin(r, "ask.pending", j)
                                  /\ JobFits("ask.pending", j)
    BY <1>8 DEF StartAsk, Typed, RefsExist
  <1>9. ASSUME NEW t \in Tickets, NEW d \in TicketStatus, StartDecide(r, t, d)
        PROVE  \E j \in Jobs : Begin(r, "decide.commit", j)
                                  /\ JobFits("decide.commit", j)
    <2>1. PICK e \in Shows, a \in Artworks : ticketOn[t] = <<e, a>> /\ Exists(e)
      BY <1>9 DEF StartDecide, Typed, RefsExist
    <2> DEFINE j == [NoJob EXCEPT !.show = e, !.art = a, !.ticket = t, !.to = d]
    <2>3. Begin(r, "decide.commit", j)
      BY <1>9, <2>1 DEF StartDecide
    <2>4. j \in Jobs /\ JobFits("decide.commit", j)
      BY <1>9, <2>1 DEF StartDecide, TicketStatus
    <2> QED
      BY <2>3, <2>4
  <1> QED
    BY <1>1, <1>2, <1>3, <1>4, <1>5, <1>6, <1>7, <1>8, <1>9 DEF Starting

\* The statements that only read go on to the handler's next one, or end it.
Hops ==
    {<<"place.artwork", "place.count">>, <<"place.count", "place.existing">>,
     <<"place.existing", "place.insert">>, <<"unplace.link", "unplace.commit">>,
     <<"ask.pending", "ask.insert">>}

LEMMA ReadMoves ==
  ASSUME NEW r \in Requests, Reading(r)
  PROVE  /\ UNCHANGED allRows
         /\ End(r) \/ \E hop \in Hops : pc[r] = hop[1] /\ Goto(r, hop[2])
  BY DEF Reading, PlaceReadArtwork, PlaceCount, PlaceReadExisting, UnplaceReadLink,
         AskReadPending, GoOnIf, At, Hops, allRows, artworkRows, showRows, ticketRows

Passed == SUBSET (Busy \X Matters)

LEMMA PassedTyped ==
  /\ {} \in Passed
  /\ \A e \in Shows, a \in Artworks :
        /\ PassedByPlace(e, a) \in Passed
        /\ PassedByAsk(e, a) \in Passed
  /\ \A e \in Shows : PassedByStatus(e) \in Passed
  /\ \A e \in Shows : {<<q, "room">> : q \in InShow(PlaceLabels, e)} \in Passed
  /\ \A t \in Tickets : PassedByVerdict(t) \in Passed
  BY DEF Passed, PassedByPlace, PassedByAsk, PassedByStatus, PassedByVerdict, InShow,
         Busy, Matters, At, PlaceLabels, UnplaceLabels

LEMMA WriteMoves ==
  ASSUME Typed, NEW r \in Requests, Writing(r)
  PROVE  pc[r] # "idle" /\ \E passed \in Passed : Finish(r, passed)
  <1>1. CASE ArtworkWrite(r) \/ RemoveCommit(r) \/ RestoreWrite(r) \/ UnplaceCommit(r)
    BY <1>1, PassedTyped
    DEF ArtworkWrite, RemoveCommit, RestoreWrite, UnplaceCommit, End, At
  <1>f. JobFits(pc[r], job[r])
    BY DEF Typed, JobsFit
  <1>2. CASE ShowStatusCommit(r)
    BY <1>2, <1>f, PassedTyped DEF ShowStatusCommit, At, JobFits
  <1>3. CASE PlaceInsert(r)
    BY <1>3, <1>f, PassedTyped DEF PlaceInsert, At, JobFits
  <1>4. CASE AskInsert(r)
    BY <1>4, <1>f, PassedTyped DEF AskInsert, At, JobFits
  <1>5. CASE DecideCommit(r)
    BY <1>5, <1>f, PassedTyped DEF DecideCommit, At, JobFits
  <1> QED
    BY <1>1, <1>2, <1>3, <1>4, <1>5 DEF Writing

\* Exhibitions and removal requests never cease to exist.
RefsStay ==
    /\ \A e \in Shows : Exists(e) => Exists(e)'
    /\ \A t \in Tickets : ticket[t] # "none" => ticket'[t] # "none"

LEMMA BeginSlots ==
  ASSUME Typed, NEW r \in Requests, NEW label \in Labels \ {"idle"}, NEW j \in Jobs,
         Begin(r, label, j), JobFits(label, j), RefsStay
  PROVE  SlotsTyped' /\ JobsFit'
  <1>2. j # NoJob
    BY PlacementAssumption
    DEF JobFits, NoJob, Labels, PlaceLabels, UnplaceLabels
  <1>3. /\ pc' = [pc EXCEPT ![r] = label] /\ job' = [job EXCEPT ![r] = j]
        /\ overtaken' = overtaken /\ pc[r] = "idle"
    BY DEF Begin, At
  <1>4. SlotsTyped'
    <2>1. overtaken \subseteq Busy' \X Matters
      BY <1>3 DEF Typed, SlotsTyped, Busy
    <2> QED
      BY <1>2, <1>3, <2>1 DEF Typed, SlotsTyped
  <1>5. JobsFit'
    <2> SUFFICES ASSUME NEW q \in Requests
                 PROVE  JobFits(pc[q], job[q])'
      BY DEF JobsFit
    <2>1. CASE q = r
      BY <2>1, <1>3 DEF Typed, SlotsTyped, JobFits, RefsStay
    <2>2. CASE q # r
      BY <2>2, <1>3 DEF Typed, SlotsTyped, JobsFit, JobFits, RefsStay
    <2> QED
      BY <2>1, <2>2
  <1> QED
    BY <1>4, <1>5

LEMMA HopSlots ==
  ASSUME Typed, NEW r \in Requests, NEW hop \in Hops, pc[r] = hop[1],
         Goto(r, hop[2]), RefsStay
  PROVE  SlotsTyped' /\ JobsFit'
  <1>1. /\ pc[r] # "idle" /\ hop[2] \in Labels \ {"idle", "artwork.write"}
    BY DEF Hops, Labels, PlaceLabels, UnplaceLabels
  <1>2. pc' = [pc EXCEPT ![r] = hop[2]] /\ job' = job /\ overtaken' = overtaken
    BY DEF Goto
  <1>3. SlotsTyped'
    <2>1. overtaken \subseteq Busy' \X Matters
      BY <1>1, <1>2 DEF Typed, SlotsTyped, Busy
    <2> QED
      BY <1>1, <1>2, <2>1 DEF Typed, SlotsTyped
  <1>4. JobFits(pc[r], job[r]) => JobFits(hop[2], job[r])
    BY DEF Hops, JobFits, PlaceLabels
  <1>5. JobsFit'
    BY <1>2, <1>4 DEF Typed, SlotsTyped, JobsFit, JobFits, RefsStay
  <1> QED
    BY <1>3, <1>5

LEMMA EndSlots ==
  ASSUME Typed, NEW r \in Requests, NEW passed \in Passed, Finish(r, passed), RefsStay
  PROVE  SlotsTyped' /\ JobsFit'
  <1>1. /\ pc' = [pc EXCEPT ![r] = "idle"] /\ job' = [job EXCEPT ![r] = NoJob]
        /\ overtaken' = {p \in overtaken \cup passed : p[1] # r}
    BY DEF Finish
  <1>2. SlotsTyped'
    <2>1. overtaken' \subseteq Busy' \X Matters
      BY <1>1 DEF Typed, SlotsTyped, Busy, Passed
    <2> QED
      BY <1>1, <2>1, NoJobTyped DEF Typed, SlotsTyped, Labels
  <1>3. JobFits("idle", NoJob)'
    BY DEF JobFits, PlaceLabels
  <1>4. JobsFit'
    BY <1>1, <1>3 DEF Typed, SlotsTyped, JobsFit, JobFits, RefsStay
  <1> QED
    BY <1>2, <1>4

\* The rows after each statement that writes.
LEMMA WriteRows ==
  ASSUME Typed, NEW r \in Requests, Writing(r)
  PROVE  RowsTyped' /\ RefsExist' /\ RefsStay
  <1> DEFINE j == job[r]
  <1> USE DEF At, artworkRows, showRows, ticketRows
  <1>t. RowsTyped /\ RefsExist /\ JobFits(pc[r], j)
    BY DEF Typed, JobsFit
  <1>1. CASE ArtworkWrite(r)
    <2>1. /\ artStatus' = [artStatus EXCEPT ![j.art] = j.to]
          /\ UNCHANGED <<showStatus, removed, cap, links, ticketOn, ticket>>
          /\ j.art \in Artworks /\ j.to \in ArtworkStatus
      BY <1>1, <1>t DEF ArtworkWrite, JobFits, ArtworkStatus
    <2> QED
      BY <2>1, <1>t DEF RowsTyped, RefsExist, RefsStay, Exists
  <1>2. CASE ShowStatusCommit(r)
    <2>1. /\ showStatus' = [showStatus EXCEPT ![j.show] = j.to]
          /\ UNCHANGED <<removed, cap, links, ticketOn, ticket>>
          /\ j.show \in Shows /\ j.to \in ExhibitionStatus
      BY <1>2, <1>t DEF ShowStatusCommit, JobFits
    <2>2. artStatus' \in [Artworks -> ArtworkStatus]
      BY <1>2, <1>t DEF ShowStatusCommit, Flip, RowsTyped, ArtworkStatus
    <2>3. RefsStay
      BY <2>1, <1>t DEF RowsTyped, RefsStay, Exists, ExhibitionStatus
    <2>4. RefsExist'
      BY <2>1, <2>3, <1>t DEF RefsExist, RefsStay, RowsTyped
    <2> QED
      BY <2>1, <2>2, <2>3, <2>4, <1>t DEF RowsTyped
  <1>3. CASE RemoveCommit(r)
    <2>1. /\ removed' = removed \cup {j.show} /\ j.show \in Shows /\ Exists(j.show)
          /\ UNCHANGED <<showStatus, cap, links, ticketOn, ticket>>
      BY <1>3, <1>t DEF RemoveCommit, JobFits
    <2>2. artStatus' \in [Artworks -> ArtworkStatus]
      BY <1>3, <1>t DEF RemoveCommit, Flip, RowsTyped, ArtworkStatus
    <2> QED
      BY <2>1, <2>2, <1>t DEF RowsTyped, RefsExist, RefsStay, Exists
  <1>4. CASE RestoreWrite(r)
    BY <1>4, <1>t DEF RestoreWrite, RowsTyped, RefsExist, RefsStay, Exists
  <1>5. CASE PlaceInsert(r)
    <2>1. /\ links' = links \cup {<<j.show, j.art>>} /\ j.show \in Shows
          /\ Exists(j.show) /\ j.art \in Artworks
          /\ UNCHANGED <<artStatus, showStatus, removed, cap, ticketOn, ticket>>
      BY <1>5, <1>t DEF PlaceInsert, JobFits
    <2> QED
      BY <2>1, <1>t DEF RowsTyped, RefsExist, RefsStay, Exists
  <1>6. CASE UnplaceCommit(r)
    <2>1. /\ links' \subseteq links /\ j.art \in Artworks
          /\ UNCHANGED <<showStatus, removed, cap, ticketOn, ticket>>
      BY <1>6, <1>t DEF UnplaceCommit, Unlink, JobFits
    <2>2. artStatus' \in [Artworks -> ArtworkStatus]
      BY <1>6, <2>1, <1>t DEF UnplaceCommit, Unlink, RowsTyped, ArtworkStatus
    <2> QED
      BY <2>1, <2>2, <1>t DEF RowsTyped, RefsExist, RefsStay, Exists
  <1>7. CASE AskInsert(r)
    <2>1. /\ j.ticket \in Tickets /\ j.show \in Shows /\ j.art \in Artworks
          /\ Exists(j.show)
          /\ ticket' = [ticket EXCEPT ![j.ticket] = "PENDING"]
          /\ ticketOn' = [ticketOn EXCEPT ![j.ticket] = <<j.show, j.art>>]
          /\ UNCHANGED <<artStatus, showStatus, removed, cap, links>>
      BY <1>7, <1>t DEF AskInsert, JobFits
    <2>2. RefsExist'
      BY <2>1, <1>t DEF RowsTyped, RefsExist, Exists
    <2> QED
      BY <2>1, <2>2, <1>t DEF RowsTyped, RefsStay, Exists, TicketStatus
  <1>8. CASE DecideCommit(r)
    <2>1. /\ links' \subseteq links /\ j.art \in Artworks /\ j.ticket \in Tickets
          /\ \/ ticket' = ticket
             \/ \E d \in {"APPROVED", "REJECTED"} : ticket' = [ticket EXCEPT ![j.ticket] = d]
          /\ UNCHANGED <<showStatus, removed, cap, ticketOn>>
      BY <1>8, <1>t DEF DecideCommit, Unlink, JobFits
    <2>2. artStatus' \in [Artworks -> ArtworkStatus]
      BY <1>8, <2>1, <1>t DEF DecideCommit, Unlink, RowsTyped, ArtworkStatus
    <2>3. ticket[j.ticket] # "none"
      BY <1>8, <1>t DEF DecideCommit, JobFits
    <2> QED
      BY <2>1, <2>2, <2>3, <1>t
      DEF RowsTyped, RefsExist, RefsStay, Exists, TicketStatus
  <1> QED
    BY <1>1, <1>2, <1>3, <1>4, <1>5, <1>6, <1>7, <1>8 DEF Writing

LEMMA CreateRows ==
  ASSUME Typed, NEW e \in Shows, NEW c \in Caps, Create(e, c) \/ Update(e, c)
  PROVE  /\ RowsTyped' /\ RefsExist' /\ RefsStay /\ UNCHANGED <<pc, job>>
         /\ \E passed \in Passed : overtaken' = overtaken \cup passed
  <1>1. CASE Create(e, c)
    <2>1. overtaken' = overtaken \cup {}
      BY <1>1 DEF Create, requests
    <2> QED
      BY <1>1, <2>1, PassedTyped
      DEF Create, Typed, RowsTyped, RefsExist, RefsStay, Exists, ExhibitionStatus,
          artworkRows, ticketRows, requests
  <1>2. CASE Update(e, c)
    BY <1>2, PassedTyped
    DEF Update, Typed, RowsTyped, RefsExist, RefsStay, Exists, artworkRows, ticketRows
  <1> QED
    BY <1>1, <1>2

LEMMA SellRows ==
  ASSUME Typed, NEW a \in Artworks, Sell(a)
  PROVE  RowsTyped' /\ RefsExist' /\ RefsStay /\ UNCHANGED <<pc, job, overtaken>>
  BY DEF Sell, Typed, RowsTyped, RefsExist, RefsStay, Exists, ArtworkStatus,
         showRows, ticketRows, requests

\* Slots that stay as they are stay well-typed.
LEMMA SameSlots ==
  ASSUME Typed, UNCHANGED <<pc, job>>, RefsStay, NEW passed \in Passed,
         overtaken' = overtaken \cup passed
  PROVE  SlotsTyped' /\ JobsFit'
  BY DEF Typed, SlotsTyped, JobsFit, JobFits, RefsStay, Passed, Busy

LEMMA SameRows ==
  ASSUME Typed, UNCHANGED allRows
  PROVE  RowsTyped' /\ RefsExist' /\ RefsStay
  BY DEF allRows, Typed, RowsTyped, RefsExist, RefsStay, Exists

LEMMA TypedInductive == Typed /\ [Next]_vars => Typed'
  <1> SUFFICES ASSUME Typed, [Next]_vars
               PROVE  RowsTyped' /\ RefsExist' /\ SlotsTyped' /\ JobsFit'
    BY DEF Typed
  <1>1. ASSUME NEW r \in Requests, Starting(r)
        PROVE  RowsTyped' /\ RefsExist' /\ SlotsTyped' /\ JobsFit'
    <2>1. UNCHANGED allRows
      BY <1>1, StartFits
    <2>2. RowsTyped' /\ RefsExist' /\ RefsStay
      BY <2>1, SameRows
    <2> QED
      BY <1>1, <2>2, StartFits, BeginSlots
  <1>2. ASSUME NEW r \in Requests, Reading(r)
        PROVE  RowsTyped' /\ RefsExist' /\ SlotsTyped' /\ JobsFit'
    <2>1. RowsTyped' /\ RefsExist' /\ RefsStay
      BY <1>2, ReadMoves, SameRows
    <2> QED
      BY <1>2, <2>1, ReadMoves, HopSlots, EndSlots, PassedTyped DEF End
  <1>3. ASSUME NEW r \in Requests, Writing(r)
        PROVE  RowsTyped' /\ RefsExist' /\ SlotsTyped' /\ JobsFit'
    BY <1>3, WriteRows, WriteMoves, EndSlots
  <1>4. ASSUME NEW r \in Requests, Abort(r)
        PROVE  RowsTyped' /\ RefsExist' /\ SlotsTyped' /\ JobsFit'
    <2>1. Finish(r, {}) /\ UNCHANGED allRows
      BY <1>4 DEF Abort, End, allRows, artworkRows, showRows, ticketRows
    <2> QED
      BY <2>1, SameRows, EndSlots, PassedTyped
  <1>5. CASE \E e \in Shows, c \in Caps : Create(e, c) \/ Update(e, c)
    BY <1>5, CreateRows, SameSlots
  <1>6. CASE \E a \in Artworks : Sell(a)
    <2>1. overtaken' = overtaken \cup {}
      BY <1>6, SellRows
    <2> QED
      BY <1>6, <2>1, SellRows, SameSlots, PassedTyped
  <1>7. CASE UNCHANGED vars
    <2>1. UNCHANGED allRows /\ UNCHANGED <<pc, job>> /\ overtaken' = overtaken \cup {}
      BY <1>7 DEF vars, allRows
    <2> QED
      BY <2>1, SameRows, SameSlots, PassedTyped
  <1> QED
    BY <1>1, <1>2, <1>3, <1>4, <1>5, <1>6, <1>7, NextKinds

LEMMA TypedInit == Init => Typed
  BY NoJobTyped
  DEF Init, Typed, RowsTyped, SlotsTyped, JobsFit, JobFits, RefsExist, ArtworkStatus,
      Labels, PlaceLabels

\* Every reachable state is well-typed, whatever overlaps: what a request writes
\* is a status of the table it writes to, and links, removal requests and
\* requests in flight only name exhibitions that exist.
THEOREM TypeCorrect == Spec => []TypeOK
  <1>1. Typed => TypeOK
    BY DEF Typed, RowsTyped, SlotsTyped, TypeOK, Busy, At
  <1> QED
    BY <1>1, TypedInit, TypedInductive, PTL DEF Spec

-----------------------------------------------------------------------------
(***************************************************************************)
(* Removal requests and the requests about them.                           *)
(***************************************************************************)

AskLabels == {"ask.pending", "ask.insert"}

\* A removal request that is being stored has no row yet and nobody else stores
\* it; one that is being decided is about the place its decision acts on.
TicketFits(r) ==
    /\ pc[r] \in AskLabels => ticket[job[r].ticket] = "none"
    /\ pc[r] = "decide.commit" => ticketOn[job[r].ticket] = <<job[r].show, job[r].art>>

AsksApart ==
    \A q, r \in Requests :
        pc[q] \in AskLabels /\ pc[r] \in AskLabels /\ job[q].ticket = job[r].ticket
            => q = r

TicketsFit == AsksApart /\ \A r \in Requests : TicketFits(r)

\* Who writes removal requests: the insert of the artist and the commit of a
\* decision.
LEMMA TicketsStep ==
  ASSUME Typed, [Next]_vars
  PROVE  \/ UNCHANGED <<ticket, ticketOn>>
         \/ \E r \in Requests : AskInsert(r) \/ DecideCommit(r)
  <1>1. CASE \E r \in Requests : Starting(r)
    BY <1>1, StartFits DEF allRows
  <1>2. CASE \E r \in Requests : Reading(r)
    BY <1>2, ReadMoves DEF allRows
  <1>3. CASE \E r \in Requests : Writing(r)
    BY <1>3
    DEF Writing, ArtworkWrite, ShowStatusCommit, RemoveCommit, RestoreWrite,
        PlaceInsert, UnplaceCommit, ticketRows
  <1>4. CASE \E r \in Requests : Abort(r)
    BY <1>4 DEF Abort, ticketRows
  <1>5. CASE \E e \in Shows, c \in Caps : Create(e, c) \/ Update(e, c)
    BY <1>5 DEF Create, Update, ticketRows
  <1>6. CASE \E a \in Artworks : Sell(a)
    BY <1>6 DEF Sell, ticketRows
  <1>7. CASE UNCHANGED vars
    BY <1>7 DEF vars
  <1> QED
    BY <1>1, <1>2, <1>3, <1>4, <1>5, <1>6, <1>7, NextKinds

\* The insert stores the request it was given an id for, which was not there.
LEMMA AskStores ==
  ASSUME Typed, TicketsFit, NEW r \in Requests, AskInsert(r)
  PROVE  \E t \in Tickets, e \in Shows, a \in Artworks :
            /\ t = job[r].ticket /\ e = job[r].show /\ a = job[r].art
            /\ pc[r] = "ask.insert" /\ ticket[t] = "none"
            /\ ticket' = [ticket EXCEPT ![t] = "PENDING"]
            /\ ticketOn' = [ticketOn EXCEPT ![t] = <<e, a>>]
            /\ UNCHANGED <<artStatus, showStatus, removed, cap, links>>
  <1>1. pc[r] = "ask.insert" /\ JobFits(pc[r], job[r]) /\ TicketFits(r)
    BY DEF AskInsert, At, Typed, JobsFit, TicketsFit
  <1>2. PICK t \in Tickets, e \in Shows, a \in Artworks :
           job[r].ticket = t /\ job[r].show = e /\ job[r].art = a
    BY <1>1 DEF JobFits
  <1>3. ticket[t] = "none"
    BY <1>1, <1>2 DEF TicketFits, AskLabels
  <1>4. /\ ticket' = [ticket EXCEPT ![t] = "PENDING"]
        /\ ticketOn' = [ticketOn EXCEPT ![t] = <<e, a>>]
        /\ UNCHANGED <<artStatus, showStatus, removed, cap, links>>
    BY <1>2 DEF AskInsert, artworkRows, showRows
  <1> QED
    BY <1>1, <1>2, <1>3, <1>4

\* The commit of a decision: nothing when the link to take down is gone, else
\* the verdict and what an approval does.
LEMMA DecideStores ==
  ASSUME Typed, TicketsFit, NEW r \in Requests, DecideCommit(r)
  PROVE  \E t \in Tickets, e \in Shows, a \in Artworks :
            /\ t = job[r].ticket /\ e = job[r].show /\ a = job[r].art
            /\ pc[r] = "decide.commit" /\ ticket[t] # "none" /\ ticketOn[t] = <<e, a>>
            /\ UNCHANGED <<showStatus, removed, cap, ticketOn>>
            /\ \/ UNCHANGED <<links, artStatus, ticket>>
               \/ /\ ticket' = [ticket EXCEPT ![t] = "REJECTED"]
                  /\ UNCHANGED <<links, artStatus>>
               \/ /\ ticket' = [ticket EXCEPT ![t] = "APPROVED"]
                  /\ <<e, a>> \in links /\ links' = links \ {<<e, a>>}
                  /\ artStatus' = [artStatus EXCEPT ![a] = "ARCHIVED"]
  <1>1. pc[r] = "decide.commit" /\ JobFits(pc[r], job[r]) /\ TicketFits(r)
    BY DEF DecideCommit, At, Typed, JobsFit, TicketsFit
  <1>2. PICK t \in Tickets, e \in Shows, a \in Artworks :
           job[r].ticket = t /\ job[r].show = e /\ job[r].art = a
    BY <1>1 DEF JobFits
  <1>3. ticket[t] # "none" /\ ticketOn[t] = <<e, a>>
    BY <1>1, <1>2 DEF JobFits, TicketFits
  <1>4. UNCHANGED <<showStatus, removed, cap, ticketOn>>
    BY DEF DecideCommit, showRows
  <1>5. \/ UNCHANGED <<links, artStatus, ticket>>
        \/ /\ ticket' = [ticket EXCEPT ![t] = "REJECTED"]
           /\ UNCHANGED <<links, artStatus>>
        \/ /\ ticket' = [ticket EXCEPT ![t] = "APPROVED"]
           /\ <<e, a>> \in links /\ links' = links \ {<<e, a>>}
           /\ artStatus' = [artStatus EXCEPT ![a] = "ARCHIVED"]
    BY <1>2, NoneAssumption DEF DecideCommit, Unlink, ArtworkStatus
  <1> QED
    BY <1>1, <1>2, <1>3, <1>4, <1>5

LEMMA TicketsFitInit == Init => TicketsFit
  BY DEF Init, TicketsFit, AsksApart, TicketFits, AskLabels

\* How the slot of a request moves that takes no step itself.
Waits(q) ==
    /\ pc'[q] = pc[q] /\ job'[q] = job[q]
    /\ \A what \in Matters : <<q, what>> \in overtaken => <<q, what>> \in overtaken'

LEMMA OthersWait ==
  ASSUME Typed, NEW r \in Requests, NEW q \in Requests, q # r,
         Starting(r) \/ Reading(r) \/ Writing(r) \/ Abort(r)
  PROVE  Waits(q)
  <1>t. pc \in [Requests -> Labels] /\ job \in [Requests -> Jobs]
    BY DEF Typed, SlotsTyped
  <1>f. ASSUME NEW passed \in Passed, Finish(r, passed)
        PROVE  Waits(q)
    BY <1>t, <1>f DEF Finish, Waits
  <1>1. CASE Starting(r)
    BY <1>t, <1>1, StartFits DEF Begin, Waits
  <1>2. CASE Reading(r)
    BY <1>t, <1>2, <1>f, ReadMoves, PassedTyped DEF Goto, End, Waits
  <1>3. CASE Writing(r)
    BY <1>3, <1>f, WriteMoves
  <1>4. CASE Abort(r)
    BY <1>4, <1>f, PassedTyped DEF Abort, End
  <1> QED
    BY <1>1, <1>2, <1>3, <1>4

LEMMA AllWait ==
  ASSUME Typed, NEW q \in Requests,
         \/ \E e \in Shows, c \in Caps : Create(e, c) \/ Update(e, c)
         \/ \E a \in Artworks : Sell(a)
         \/ UNCHANGED vars
  PROVE  Waits(q)
  BY DEF Create, Update, Sell, requests, vars, Waits

\* What a request's own step makes of its slot.
LEMMA OwnTicket ==
  ASSUME Typed, TicketsFit, NEW r \in Requests,
         Starting(r) \/ Reading(r) \/ Writing(r) \/ Abort(r)
  PROVE  /\ TicketFits(r)'
         /\ pc'[r] \in AskLabels =>
               \/ pc[r] \in AskLabels /\ job'[r] = job[r]
               \/ \A q \in Requests : job[q].ticket # job'[r].ticket
  <1> USE DEF TicketFits, AskLabels
  <1>t. pc \in [Requests -> Labels] /\ job \in [Requests -> Jobs]
    BY DEF Typed, SlotsTyped
  <1>k. TicketFits(r)
    BY DEF TicketsFit
  <1>e. ASSUME pc'[r] = "idle"
        PROVE  /\ TicketFits(r)'
               /\ pc'[r] \notin AskLabels
    BY <1>e
  <1>1. CASE Starting(r)
    <2>1. CASE \E t \in Tickets, e \in Shows, a \in Artworks : StartAsk(r, t, e, a)
      BY <1>t, <2>1 DEF StartAsk, Begin, ticketRows, NoJob
    <2>2. ASSUME NEW t \in Tickets, NEW d \in TicketStatus, StartDecide(r, t, d)
          PROVE  TicketFits(r)' /\ pc'[r] \notin AskLabels
      <3>1. PICK e \in Shows, a \in Artworks : ticketOn[t] = <<e, a>>
        BY <2>2 DEF StartDecide, Typed, RefsExist
      <3> QED
        BY <1>t, <2>2, <3>1 DEF StartDecide, Begin, ticketRows, NoJob
    <2>3. ASSUME \/ \E a \in Artworks :
                      \/ \E s \in ArtworkStatus : StartSetStatus(r, a, s)
                      \/ StartArchive(r, a) \/ StartUnarchive(r, a)
                 \/ \E e \in Shows :
                      \/ \E s \in ExhibitionStatus : StartShowStatus(r, e, s)
                      \/ StartRemove(r, e) \/ StartRestore(r, e)
                      \/ \E a \in Artworks : StartPlace(r, e, a) \/ StartUnplace(r, e, a)
          PROVE  TicketFits(r)' /\ pc'[r] \notin AskLabels
      BY <1>t, <2>3
      DEF StartSetStatus, StartArchive, StartUnarchive, StartShowStatus, StartRemove,
          StartRestore, StartPlace, StartUnplace, Begin
    <2> QED
      BY <1>1, <2>1, <2>2, <2>3 DEF Starting
  <1>2. CASE Reading(r)
    <2>1. UNCHANGED <<ticket, ticketOn>>
      BY <1>2, ReadMoves DEF allRows
    <2>2. CASE End(r)
      BY <1>e, <1>t, <2>2 DEF End, Finish
    <2>3. ASSUME NEW hop \in Hops, pc[r] = hop[1], Goto(r, hop[2])
          PROVE  /\ TicketFits(r)'
                 /\ pc'[r] \in AskLabels => pc[r] \in AskLabels /\ job'[r] = job[r]
      BY <1>t, <1>k, <2>1, <2>3 DEF Goto, Hops
    <2> QED
      BY <1>2, <2>2, <2>3, ReadMoves, <1>e, <1>t DEF End, Finish
  <1>3. CASE Writing(r)
    BY <1>3, <1>e, <1>t, WriteMoves DEF Finish
  <1>4. CASE Abort(r)
    BY <1>4, <1>e, <1>t DEF Abort, End, Finish
  <1> QED
    BY <1>1, <1>2, <1>3, <1>4

LEMMA WaitingTicket ==
  ASSUME Typed, TicketsFit, [Next]_vars, NEW q \in Requests, Waits(q),
         \A r \in Requests : AskInsert(r) => r # q
  PROVE  TicketFits(q)'
  <1>k. TicketFits(q) /\ JobFits(pc[q], job[q])
    BY DEF TicketsFit, Typed, JobsFit
  <1>1. CASE UNCHANGED <<ticket, ticketOn>>
    BY <1>1, <1>k DEF TicketFits, Waits
  <1>2. ASSUME NEW r \in Requests, AskInsert(r)
        PROVE  TicketFits(q)'
    <2>1. PICK t \in Tickets, e \in Shows, a \in Artworks :
             /\ t = job[r].ticket /\ pc[r] = "ask.insert" /\ ticket[t] = "none"
             /\ ticket' = [ticket EXCEPT ![t] = "PENDING"]
             /\ ticketOn' = [ticketOn EXCEPT ![t] = <<e, a>>]
      BY <1>2, AskStores
    <2>2. pc[q] \in AskLabels => job[q].ticket # t
      BY <1>2, <2>1 DEF TicketsFit, AsksApart, AskLabels
    <2>3. pc[q] = "decide.commit" => job[q].ticket # t
      BY <2>1, <1>k DEF JobFits
    <2> QED
      BY <2>1, <2>2, <2>3, <1>k DEF TicketFits, Waits, Typed, RowsTyped, JobFits, AskLabels
  <1>3. ASSUME NEW r \in Requests, DecideCommit(r)
        PROVE  TicketFits(q)'
    <2>1. PICK t \in Tickets :
             /\ ticket[t] # "none" /\ ticketOn' = ticketOn
             /\ \/ ticket' = ticket
                \/ \E d \in {"APPROVED", "REJECTED"} : ticket' = [ticket EXCEPT ![t] = d]
      BY <1>3, DecideStores
    <2> QED
      BY <2>1, <1>k DEF TicketFits, Waits, Typed, RowsTyped, JobFits, AskLabels
  <1> QED
    BY <1>1, <1>2, <1>3, TicketsStep

LEMMA TicketsFitInductive ==
  ASSUME Typed, TicketsFit, [Next]_vars
  PROVE  TicketsFit'
  <1>1. ASSUME NEW r \in Requests, Starting(r) \/ Reading(r) \/ Writing(r) \/ Abort(r)
        PROVE  TicketsFit'
    <2>w. \A q \in Requests : q # r => Waits(q)
      BY <1>1, OthersWait
    <2>a. \A q \in Requests : AskInsert(q) => q = r
      <3> SUFFICES ASSUME NEW q \in Requests, AskInsert(q), q # r
                   PROVE  FALSE
        OBVIOUS
      <3>1. pc'[q] = pc[q]
        BY <2>w DEF Waits
      <3> QED
        BY <3>1 DEF AskInsert, Finish, At, Typed, SlotsTyped
    <2>1. \A q \in Requests : TicketFits(q)'
      <3> SUFFICES ASSUME NEW q \in Requests
                   PROVE  TicketFits(q)'
        OBVIOUS
      <3>1. CASE q = r
        BY <1>1, <3>1, OwnTicket
      <3>2. CASE q # r
        BY <2>w, <2>a, <3>2, WaitingTicket
      <3> QED
        BY <3>1, <3>2
    <2>2. AsksApart'
      <3>1. pc'[r] \in AskLabels =>
               \/ pc[r] \in AskLabels /\ job'[r] = job[r]
               \/ \A q \in Requests : job[q].ticket # job'[r].ticket
        BY <1>1, OwnTicket
      <3>2. AsksApart
        BY DEF TicketsFit
      <3> QED
        BY <3>1, <3>2, <2>w DEF AsksApart, Waits
    <2> QED
      BY <2>1, <2>2 DEF TicketsFit
  <1>2. ASSUME \/ \E e \in Shows, c \in Caps : Create(e, c) \/ Update(e, c)
               \/ \E a \in Artworks : Sell(a)
               \/ UNCHANGED vars
        PROVE  TicketsFit'
    BY <1>2
    DEF Create, Update, Sell, requests, ticketRows, vars, TicketsFit, AsksApart,
        TicketFits
  <1> QED
    BY <1>1, <1>2, NextKinds

-----------------------------------------------------------------------------
(***************************************************************************)
(* What a request knows.                                                   *)
(***************************************************************************)

Marked(r, what) == <<r, what>> \in overtaken

StatusKnown(r) ==
    /\ pc[r] = "status.commit" =>
          Marked(r, "status") \/ job[r].to \in AllowedTransitions[showStatus[job[r].show]]
    /\ pc[r] \in UnplaceLabels =>
          Marked(r, "status") \/ job[r].seen = showStatus[job[r].show]

RoomKnown(r) ==
    /\ pc[r] \in PlaceLabels => Marked(r, "room") \/ job[r].room = cap[job[r].show]
    /\ pc[r] \in {"place.existing", "place.insert"} =>
          Marked(r, "room") \/ Cardinality(PlacedIn(job[r].show)) < job[r].room

PlaceKnown(r) ==
    pc[r] = "place.insert" => Marked(r, "artwork") \/ PlacesOf(job[r].art) = {}

AskKnown(r) ==
    pc[r] = "ask.insert" => Marked(r, "pending") \/ Pending(job[r].show, job[r].art) = {}

VerdictKnown(r) ==
    pc[r] = "decide.commit" => Marked(r, "verdict") \/ ticket[job[r].ticket] = "PENDING"

\* What a request has read is still so, unless it has been overtaken on it.
Knows(r) ==
    StatusKnown(r) /\ RoomKnown(r) /\ PlaceKnown(r) /\ AskKnown(r) /\ VerdictKnown(r)

WallsFinite == \A e \in Shows : IsFiniteSet(PlacedIn(e))

Inv == Typed /\ TicketsFit /\ WallsFinite /\ \A r \in Requests : Knows(r)

readRows == <<showStatus, cap, links, ticket, ticketOn>>

LEMMA KnowsNothing ==
  ASSUME NEW r \in Requests, pc[r] \in {"idle", "artwork.write", "remove.commit", "restore.write"}
  PROVE  Knows(r)
  BY DEF Knows, StatusKnown, RoomKnown, PlaceKnown, AskKnown, VerdictKnown, PlaceLabels,
         UnplaceLabels

\* A waiting request knows what it knew while the rows it reads stay the same.
LEMMA WaitsStatus ==
  ASSUME NEW q \in Requests, Waits(q), StatusKnown(q), showStatus' = showStatus
  PROVE  StatusKnown(q)'
  BY DEF Waits, StatusKnown, Marked, Matters

LEMMA WaitsRoom ==
  ASSUME NEW q \in Requests, Waits(q), RoomKnown(q), UNCHANGED <<cap, links>>
  PROVE  RoomKnown(q)'
  BY DEF Waits, RoomKnown, Marked, Matters, PlacedIn

LEMMA WaitsPlace ==
  ASSUME NEW q \in Requests, Waits(q), PlaceKnown(q), links' \subseteq links
  PROVE  PlaceKnown(q)'
  BY DEF Waits, PlaceKnown, Marked, Matters, PlacesOf

LEMMA WaitsAsk ==
  ASSUME NEW q \in Requests, Waits(q), AskKnown(q), UNCHANGED <<ticket, ticketOn>>
  PROVE  AskKnown(q)'
  BY DEF Waits, AskKnown, Marked, Matters, Pending

LEMMA WaitsVerdict ==
  ASSUME NEW q \in Requests, Waits(q), VerdictKnown(q), ticket' = ticket
  PROVE  VerdictKnown(q)'
  BY DEF Waits, VerdictKnown, Marked, Matters

LEMMA WaitsKnows ==
  ASSUME NEW q \in Requests, Waits(q), Knows(q), UNCHANGED readRows
  PROVE  Knows(q)'
  BY WaitsStatus, WaitsRoom, WaitsPlace, WaitsAsk, WaitsVerdict DEF Knows, readRows

\* Links that go leave room.
LEMMA RoomGrows ==
  ASSUME Typed, WallsFinite, NEW q \in Requests, Waits(q), RoomKnown(q), cap' = cap,
         links' \subseteq links
  PROVE  RoomKnown(q)'
  <1>1. JobFits(pc[q], job[q])
    BY DEF Typed, JobsFit
  <1>2. CASE pc[q] \in {"place.existing", "place.insert"}
    <2>1. PICK e \in Shows : job[q].show = e
      BY <1>1, <1>2 DEF JobFits
    <2>2. IsFiniteSet(PlacedIn(e)) /\ PlacedIn(e)' \subseteq PlacedIn(e)
      BY DEF WallsFinite, PlacedIn
    <2>3. /\ Cardinality(PlacedIn(e)') <= Cardinality(PlacedIn(e))
          /\ IsFiniteSet(PlacedIn(e)')
      BY <2>2, FS_Subset
    <2>4. Cardinality(PlacedIn(e)') \in Nat /\ Cardinality(PlacedIn(e)) \in Nat
      BY <2>2, <2>3, FS_CardinalityType
    <2>5. job[q].room \in Nat
      BY <1>1, <1>2, PlacementAssumption DEF JobFits, PlaceLabels
    <2> QED
      BY <1>2, <2>1, <2>3, <2>4, <2>5 DEF RoomKnown, Waits, Marked, Matters
  <1>3. CASE pc[q] \notin {"place.existing", "place.insert"}
    BY <1>3 DEF RoomKnown, Waits, Marked, Matters
  <1> QED
    BY <1>2, <1>3

\* The same while somebody else writes.
LEMMA OthersKnow ==
  ASSUME Inv, NEW r \in Requests, Writing(r), NEW q \in Requests, q # r
  PROVE  Knows(q)'
  <1>t. Typed /\ TicketsFit /\ WallsFinite
    BY DEF Inv
  <1>k. /\ StatusKnown(q) /\ RoomKnown(q) /\ PlaceKnown(q) /\ AskKnown(q)
        /\ VerdictKnown(q)
    BY DEF Inv, Knows
  <1>w. Waits(q)
    BY <1>t, OthersWait
  <1>f. JobFits(pc[r], job[r]) /\ JobFits(pc[q], job[q]) /\ RowsTyped
    BY <1>t DEF Typed, JobsFit
  <1>1. CASE ArtworkWrite(r) \/ RemoveCommit(r) \/ RestoreWrite(r)
    <2>1. UNCHANGED readRows
      BY <1>1
      DEF ArtworkWrite, RemoveCommit, RestoreWrite, showRows, ticketRows, artworkRows, readRows
    <2> QED
      BY <2>1, <1>w, WaitsKnows DEF Inv
  <1>2. CASE ShowStatusCommit(r)
    <2>1. /\ showStatus' = [showStatus EXCEPT ![job[r].show] = job[r].to]
          /\ UNCHANGED <<cap, links, ticket, ticketOn>>
          /\ Finish(r, PassedByStatus(job[r].show))
      BY <1>2 DEF ShowStatusCommit, ticketRows
    <2>2. StatusKnown(q)'
      <3>1. CASE pc[q] \in {"status.commit"} \cup UnplaceLabels /\ job[q].show = job[r].show
        <4>1. Marked(q, "status")'
          BY <2>1, <3>1 DEF Finish, PassedByStatus, InShow, Marked
        <4> QED
          BY <4>1 DEF StatusKnown
      <3>2. CASE pc[q] \in {"status.commit"} \cup UnplaceLabels /\ job[q].show # job[r].show
        <4>1. showStatus'[job[q].show] = showStatus[job[q].show]
          BY <1>f, <2>1, <3>2 DEF JobFits, RowsTyped, UnplaceLabels
        <4> QED
          BY <4>1, <1>k, <1>w DEF StatusKnown, Waits, Marked, Matters
      <3>3. CASE pc[q] \notin {"status.commit"} \cup UnplaceLabels
        BY <3>3, <1>w DEF StatusKnown, Waits
      <3> QED
        BY <3>1, <3>2, <3>3
    <2> QED
      BY <2>1, <2>2, <1>k, <1>w, WaitsRoom, WaitsPlace, WaitsAsk, WaitsVerdict DEF Knows
  <1>3. CASE PlaceInsert(r)
    <2> DEFINE e == job[r].show
               a == job[r].art
    <2>1. /\ links' = links \cup {<<e, a>>}
          /\ UNCHANGED <<showStatus, cap, ticket, ticketOn>>
          /\ Finish(r, IF <<e, a>> \in links THEN {} ELSE PassedByPlace(e, a))
      BY <1>3 DEF PlaceInsert, showRows, ticketRows
    <2>2. CASE <<e, a>> \in links
      <3>1. UNCHANGED readRows
        BY <2>1, <2>2 DEF readRows
      <3> QED
        BY <3>1, <1>w, WaitsKnows DEF Inv
    <2>3. CASE <<e, a>> \notin links
      <3>1. RoomKnown(q)'
        <4>1. CASE pc[q] \in {"place.existing", "place.insert"} /\ job[q].show = e
          <5>1. Marked(q, "room")'
            BY <2>1, <2>3, <4>1 DEF Finish, PassedByPlace, InShow, Marked
          <5> QED
            BY <5>1 DEF RoomKnown
        <4>2. CASE pc[q] \in {"place.existing", "place.insert"} /\ job[q].show # e
          <5>1. PlacedIn(job[q].show)' = PlacedIn(job[q].show)
            BY <2>1, <4>2, <1>w DEF PlacedIn, Waits
          <5> QED
            BY <5>1, <2>1, <1>k, <1>w DEF RoomKnown, Waits, Marked, Matters
        <4>3. CASE pc[q] \notin {"place.existing", "place.insert"}
          BY <4>3, <2>1, <1>k, <1>w DEF RoomKnown, Waits, Marked, Matters
        <4> QED
          BY <4>1, <4>2, <4>3
      <3>2. PlaceKnown(q)'
        <4>1. CASE pc[q] = "place.insert" /\ job[q].art = a
          <5>1. Marked(q, "artwork")'
            BY <2>1, <2>3, <4>1 DEF Finish, PassedByPlace, At, Marked
          <5> QED
            BY <5>1 DEF PlaceKnown
        <4>2. CASE pc[q] = "place.insert" /\ job[q].art # a
          <5>1. PlacesOf(job[q].art)' = PlacesOf(job[q].art)
            BY <2>1, <4>2, <1>w DEF PlacesOf, Waits
          <5> QED
            BY <5>1, <1>k, <1>w DEF PlaceKnown, Waits, Marked, Matters
        <4>3. CASE pc[q] # "place.insert"
          BY <4>3, <1>w DEF PlaceKnown, Waits
        <4> QED
          BY <4>1, <4>2, <4>3
      <3> QED
        BY <2>1, <3>1, <3>2, <1>k, <1>w, WaitsStatus, WaitsAsk, WaitsVerdict DEF Knows
    <2> QED
      BY <2>2, <2>3
  <1>4. CASE UnplaceCommit(r)
    <2>1. links' \subseteq links /\ UNCHANGED <<showStatus, cap, ticket, ticketOn>>
      BY <1>4 DEF UnplaceCommit, Unlink, showRows, ticketRows
    <2> QED
      BY <2>1, <1>k, <1>w, <1>t, WaitsStatus, RoomGrows, WaitsPlace, WaitsAsk, WaitsVerdict
      DEF Knows
  <1>5. CASE AskInsert(r)
    <2>1. PICK t \in Tickets, e \in Shows, a \in Artworks :
             /\ e = job[r].show /\ a = job[r].art /\ ticket[t] = "none"
             /\ ticket' = [ticket EXCEPT ![t] = "PENDING"]
             /\ ticketOn' = [ticketOn EXCEPT ![t] = <<e, a>>]
             /\ UNCHANGED <<artStatus, showStatus, removed, cap, links>>
      BY <1>5, <1>t, AskStores
    <2>2. AskKnown(q)'
      <3>1. CASE pc[q] = "ask.insert" /\ job[q].show = e /\ job[q].art = a
        <4>1. Marked(q, "pending")'
          BY <1>5, <2>1, <3>1 DEF AskInsert, Finish, PassedByAsk, InShow, Marked
        <4> QED
          BY <4>1 DEF AskKnown
      <3>2. CASE pc[q] = "ask.insert" /\ ~(job[q].show = e /\ job[q].art = a)
        <4>1. Pending(job[q].show, job[q].art)' \subseteq Pending(job[q].show, job[q].art)
          BY <1>f, <1>w, <2>1, <3>2 DEF Pending, RowsTyped, Waits
        <4> QED
          BY <4>1, <1>k, <1>w DEF AskKnown, Waits, Marked, Matters
      <3>3. CASE pc[q] # "ask.insert"
        BY <3>3, <1>w DEF AskKnown, Waits
      <3> QED
        BY <3>1, <3>2, <3>3
    <2>3. VerdictKnown(q)'
      BY <2>1, <1>f, <1>k, <1>w DEF VerdictKnown, Waits, Marked, Matters, JobFits, RowsTyped
    <2> QED
      BY <2>1, <2>2, <2>3, <1>k, <1>w, WaitsStatus, WaitsRoom, WaitsPlace DEF Knows
  <1>6. CASE DecideCommit(r)
    <2>1. PICK t \in Tickets :
             /\ t = job[r].ticket /\ links' \subseteq links
             /\ UNCHANGED <<showStatus, removed, cap, ticketOn>>
             /\ \/ ticket' = ticket
                \/ \E d \in {"APPROVED", "REJECTED"} : ticket' = [ticket EXCEPT ![t] = d]
      BY <1>6, <1>t, DecideStores
    <2>2. AskKnown(q)'
      <3>1. Pending(job[q].show, job[q].art)' \subseteq Pending(job[q].show, job[q].art)
        BY <1>f, <1>w, <2>1 DEF Pending, RowsTyped, Waits
      <3> QED
        BY <3>1, <1>k, <1>w DEF AskKnown, Waits, Marked, Matters
    <2>3. VerdictKnown(q)'
      <3>1. CASE pc[q] = "decide.commit" /\ job[q].ticket = t /\ ticket' # ticket
        <4>1. Marked(q, "verdict")'
          BY <1>6, <2>1, <3>1 DEF DecideCommit, Finish, PassedByVerdict, At, Marked
        <4> QED
          BY <4>1 DEF VerdictKnown
      <3>2. CASE pc[q] = "decide.commit" /\ (job[q].ticket # t \/ ticket' = ticket)
        <4>1. ticket'[job[q].ticket] = ticket[job[q].ticket]
          BY <1>f, <2>1, <3>2 DEF JobFits, RowsTyped
        <4> QED
          BY <4>1, <1>k, <1>w DEF VerdictKnown, Waits, Marked, Matters
      <3>3. CASE pc[q] # "decide.commit"
        BY <3>3, <1>w DEF VerdictKnown, Waits
      <3> QED
        BY <3>1, <3>2, <3>3
    <2> QED
      BY <2>1, <2>2, <2>3, <1>k, <1>w, <1>t, WaitsStatus, RoomGrows, WaitsPlace DEF Knows
  <1> QED
    BY <1>1, <1>2, <1>3, <1>4, <1>5, <1>6 DEF Writing

\* A request that begins knows what it has just read.
LEMMA StartKnows ==
  ASSUME Typed, NEW r \in Requests, Starting(r)
  PROVE  Knows(r)'
  <1>t. pc \in [Requests -> Labels] /\ job \in [Requests -> Jobs]
    BY DEF Typed, SlotsTyped
  <1> USE DEF Begin, Jobs, NoJob, showRows, ticketRows, artworkRows, Knows, StatusKnown,
          RoomKnown, PlaceKnown, AskKnown, VerdictKnown, PlaceLabels, UnplaceLabels
  <1>1. CASE \/ \E a \in Artworks :
                  \/ \E s \in ArtworkStatus : StartSetStatus(r, a, s)
                  \/ StartArchive(r, a) \/ StartUnarchive(r, a)
             \/ \E e \in Shows : StartRemove(r, e) \/ StartRestore(r, e)
    BY <1>1, <1>t DEF StartSetStatus, StartArchive, StartUnarchive, StartRemove, StartRestore
  <1>2. ASSUME NEW e \in Shows, NEW s \in ExhibitionStatus, StartShowStatus(r, e, s)
        PROVE  Knows(r)'
    BY <1>2, <1>t DEF StartShowStatus
  <1>3. ASSUME NEW e \in Shows, NEW a \in Artworks, StartPlace(r, e, a)
        PROVE  Knows(r)'
    BY <1>3, <1>t DEF StartPlace
  <1>4. ASSUME NEW e \in Shows, NEW a \in Artworks, StartUnplace(r, e, a)
        PROVE  Knows(r)'
    BY <1>4, <1>t DEF StartUnplace
  <1>5. ASSUME NEW t \in Tickets, NEW e \in Shows, NEW a \in Artworks,
               StartAsk(r, t, e, a)
        PROVE  Knows(r)'
    BY <1>5, <1>t DEF StartAsk
  <1>6. ASSUME NEW t \in Tickets, NEW d \in TicketStatus, StartDecide(r, t, d)
        PROVE  Knows(r)'
    BY <1>6, <1>t DEF StartDecide
  <1> QED
    BY <1>1, <1>2, <1>3, <1>4, <1>5, <1>6 DEF Starting

\* A statement that reads adds what it has read.
LEMMA ReadKnows ==
  ASSUME Typed, NEW r \in Requests, Knows(r), Reading(r)
  PROVE  Knows(r)'
  <1>t. pc \in [Requests -> Labels]
    BY DEF Typed, SlotsTyped
  <1>1. CASE End(r)
    <2>1. pc'[r] = "idle"
      BY <1>1, <1>t DEF End, Finish
    <2> QED
      BY <2>1
      DEF Knows, StatusKnown, RoomKnown, PlaceKnown, AskKnown, VerdictKnown, PlaceLabels,
          UnplaceLabels
  <1>2. CASE ~End(r)
    <2>1. UNCHANGED <<job, overtaken>> /\ UNCHANGED readRows
      BY <1>2, ReadMoves DEF Goto, allRows, readRows
    <2> USE <1>2, <1>t, <2>1
        DEF GoOnIf, Goto, At, readRows, Knows, StatusKnown, RoomKnown, PlaceKnown,
            AskKnown, VerdictKnown, Marked, PlaceLabels, UnplaceLabels
    <2>2. CASE PlaceReadArtwork(r)
      BY <2>2 DEF PlaceReadArtwork
    <2>3. CASE UnplaceReadLink(r)
      BY <2>3 DEF UnplaceReadLink
    <2>4. CASE PlaceCount(r)
      BY <2>4 DEF PlaceCount, PlacedIn
    <2>5. CASE PlaceReadExisting(r)
      BY <2>5 DEF PlaceReadExisting, PlacedIn, PlacesOf
    <2>6. CASE AskReadPending(r)
      BY <2>6 DEF AskReadPending, Pending
    <2> QED
      BY <2>2, <2>3, <2>4, <2>5, <2>6 DEF Reading
  <1> QED
    BY <1>1, <1>2

\* A new exhibition and a new maximum: no request in flight is about an exhibition
\* that did not exist, and those that have read the maximum are overtaken.
LEMMA CreateKnows ==
  ASSUME Inv, NEW e \in Shows, NEW c \in Caps, Create(e, c) \/ Update(e, c),
         NEW q \in Requests
  PROVE  Knows(q)'
  <1>w. Waits(q) /\ links' = links /\ UNCHANGED <<ticket, ticketOn, pc, job>>
    BY AllWait DEF Create, Update, ticketRows, requests, Inv
  <1>f. JobFits(pc[q], job[q]) /\ RowsTyped
    BY DEF Inv, Typed, JobsFit
  <1>k. /\ StatusKnown(q) /\ RoomKnown(q) /\ PlaceKnown(q) /\ AskKnown(q)
        /\ VerdictKnown(q)
    BY DEF Inv, Knows
  <1>p. PlacedIn(job[q].show)' = PlacedIn(job[q].show)
    BY <1>w DEF PlacedIn
  <1>1. CASE Create(e, c)
    <2>1. /\ showStatus[e] = "none"
          /\ showStatus' = [showStatus EXCEPT ![e] = "DRAFT"]
          /\ cap' = [cap EXCEPT ![e] = c]
      BY <1>1 DEF Create
    <2>2. pc[q] \notin {"idle", "artwork.write"} => job[q].show \in Shows \ {e}
      BY <1>f, <2>1 DEF JobFits, Exists
    <2>3. pc[q] \notin {"idle", "artwork.write"} =>
             showStatus'[job[q].show] = showStatus[job[q].show]
             /\ cap'[job[q].show] = cap[job[q].show]
      BY <1>f, <2>1, <2>2 DEF RowsTyped
    <2>4. StatusKnown(q)'
      BY <2>3, <1>k, <1>w DEF StatusKnown, Waits, Marked, Matters, UnplaceLabels
    <2>5. RoomKnown(q)'
      BY <2>3, <1>k, <1>w, <1>p DEF RoomKnown, Waits, Marked, Matters, PlaceLabels
    <2> QED
      BY <2>4, <2>5, <1>k, <1>w, WaitsPlace, WaitsAsk, WaitsVerdict DEF Knows
  <1>2. CASE Update(e, c)
    <2>1. /\ cap' = [cap EXCEPT ![e] = c] /\ showStatus' = showStatus
          /\ overtaken' = overtaken \cup {<<p, "room">> : p \in InShow(PlaceLabels, e)}
      BY <1>2 DEF Update
    <2>2. RoomKnown(q)'
      <3>1. CASE pc[q] \in PlaceLabels /\ job[q].show = e
        <4>1. Marked(q, "room")'
          BY <2>1, <3>1 DEF InShow, Marked
        <4> QED
          BY <4>1 DEF RoomKnown
      <3>2. CASE pc[q] \in PlaceLabels /\ job[q].show # e
        <4>1. cap'[job[q].show] = cap[job[q].show]
          BY <1>f, <2>1, <3>2 DEF RowsTyped, JobFits, PlaceLabels
        <4> QED
          BY <4>1, <1>k, <1>w, <1>p DEF RoomKnown, Waits, Marked, Matters
      <3>3. CASE pc[q] \notin PlaceLabels
        BY <3>3, <1>w DEF RoomKnown, Waits, PlaceLabels
      <3> QED
        BY <3>1, <3>2, <3>3
    <2> QED
      BY <2>1, <2>2, <1>k, <1>w, WaitsStatus, WaitsPlace, WaitsAsk, WaitsVerdict DEF Knows
  <1> QED
    BY <1>1, <1>2

\* Links come in one at a time, by the commit of a placement.
LEMMA LinksStep ==
  ASSUME [Next]_vars
  PROVE  links' \subseteq links \/ \E r \in Requests : PlaceInsert(r)
  <1>1. CASE \E r \in Requests : Starting(r) \/ Reading(r)
    <2>1. UNCHANGED links
      BY <1>1, ReadMoves
      DEF allRows, Starting, StartSetStatus, StartArchive, StartUnarchive,
          StartShowStatus, StartRemove, StartRestore, StartPlace, StartUnplace,
          StartAsk, StartDecide, Begin
    <2> QED
      BY <2>1
  <1>2. CASE \E r \in Requests : Writing(r)
    BY <1>2
    DEF Writing, ArtworkWrite, ShowStatusCommit, RemoveCommit, RestoreWrite,
        UnplaceCommit, AskInsert, DecideCommit, Unlink
  <1>3. CASE \E r \in Requests : Abort(r)
    BY <1>3 DEF Abort
  <1>4. CASE \E e \in Shows, c \in Caps : Create(e, c) \/ Update(e, c)
    BY <1>4 DEF Create, Update
  <1>5. CASE \E a \in Artworks : Sell(a)
    BY <1>5 DEF Sell
  <1>6. CASE UNCHANGED vars
    BY <1>6 DEF vars
  <1> QED
    BY <1>1, <1>2, <1>3, <1>4, <1>5, <1>6, NextKinds

\* The insert of a placement hangs one artwork in one exhibition.
LEMMA InsertLinks ==
  ASSUME Inv, NEW r \in Requests, PlaceInsert(r)
  PROVE  \E e \in Shows, a \in Artworks :
            /\ e = job[r].show /\ a = job[r].art /\ pc[r] = "place.insert"
            /\ Exists(e) /\ links' = links \cup {<<e, a>>}
            /\ UNCHANGED <<artStatus, showStatus, removed, cap, ticket, ticketOn>>
            /\ Marked(r, "artwork") \/ PlacesOf(a) = {}
            /\ Marked(r, "room") \/ Cardinality(PlacedIn(e)) < cap[e]
  <1>1. pc[r] = "place.insert" /\ JobFits(pc[r], job[r]) /\ PlaceKnown(r) /\ RoomKnown(r)
    BY DEF PlaceInsert, At, Inv, Knows, Typed, JobsFit
  <1>2. PICK e \in Shows, a \in Artworks : e = job[r].show /\ a = job[r].art
    BY <1>1 DEF JobFits
  <1>3. /\ Exists(e) /\ links' = links \cup {<<e, a>>}
        /\ UNCHANGED <<artStatus, showStatus, removed, cap, ticket, ticketOn>>
    BY <1>1, <1>2 DEF PlaceInsert, JobFits, artworkRows, showRows, ticketRows
  <1>4. /\ Marked(r, "artwork") \/ PlacesOf(a) = {}
        /\ Marked(r, "room") \/ Cardinality(PlacedIn(e)) < cap[e]
    BY <1>1, <1>2 DEF PlaceKnown, RoomKnown, PlaceLabels
  <1> QED
    BY <1>1, <1>2, <1>3, <1>4

LEMMA WallsFiniteInductive ==
  ASSUME Inv, [Next]_vars
  PROVE  WallsFinite'
  <1> SUFFICES ASSUME NEW e \in Shows
               PROVE  IsFiniteSet(PlacedIn(e)')
    BY DEF WallsFinite
  <1>1. IsFiniteSet(PlacedIn(e))
    BY DEF Inv, WallsFinite
  <1>2. \A a : IsFiniteSet(PlacedIn(e) \cup {a})
    BY <1>1, FS_AddElement, Zenon
  <1>3. CASE links' \subseteq links
    <2>1. PlacedIn(e)' \subseteq PlacedIn(e)
      BY <1>3 DEF PlacedIn
    <2> QED
      BY <1>1, <2>1, FS_Subset
  <1>4. CASE \E r \in Requests : PlaceInsert(r)
    <2>1. \E a : PlacedIn(e)' \subseteq PlacedIn(e) \cup {a}
      BY <1>4, InsertLinks DEF PlacedIn
    <2> QED
      BY <1>2, <2>1, FS_Subset
  <1> QED
    BY <1>3, <1>4, LinksStep

LEMMA InvInductive ==
  ASSUME Inv, [Next]_vars
  PROVE  Inv'
  <1>1. Typed' /\ TicketsFit' /\ WallsFinite'
    BY TypedInductive, TicketsFitInductive, WallsFiniteInductive DEF Inv
  <1> SUFFICES ASSUME NEW q \in Requests
               PROVE  Knows(q)'
    BY <1>1 DEF Inv
  <1>t. Typed /\ Knows(q)
    BY DEF Inv
  <1>2. ASSUME NEW r \in Requests, Starting(r)
        PROVE  Knows(q)'
    <2>1. CASE q = r
      BY <1>2, <2>1, <1>t, StartKnows
    <2>2. CASE q # r
      <3>1. UNCHANGED readRows
        BY <1>2, <1>t, StartFits DEF allRows, readRows
      <3> QED
        BY <1>2, <2>2, <3>1, <1>t, OthersWait, WaitsKnows
    <2> QED
      BY <2>1, <2>2
  <1>3. ASSUME NEW r \in Requests, Reading(r)
        PROVE  Knows(q)'
    <2>1. CASE q = r
      BY <1>3, <2>1, <1>t, ReadKnows
    <2>2. CASE q # r
      <3>1. UNCHANGED readRows
        BY <1>3, ReadMoves DEF allRows, readRows
      <3> QED
        BY <1>3, <2>2, <3>1, <1>t, OthersWait, WaitsKnows
    <2> QED
      BY <2>1, <2>2
  <1>4. ASSUME NEW r \in Requests, Writing(r) \/ Abort(r)
        PROVE  Knows(q)'
    <2>1. CASE q = r
      <3>1. pc'[q] = "idle"
        BY <1>4, <2>1, <1>t, WriteMoves DEF Abort, End, Finish, Typed, SlotsTyped
      <3> QED
        BY <3>1
        DEF Knows, StatusKnown, RoomKnown, PlaceKnown, AskKnown, VerdictKnown, PlaceLabels,
            UnplaceLabels
    <2>2. CASE q # r /\ Writing(r)
      BY <2>2, OthersKnow
    <2>3. CASE q # r /\ Abort(r)
      <3>1. UNCHANGED readRows
        BY <2>3 DEF Abort, showRows, ticketRows, readRows
      <3> QED
        BY <2>3, <3>1, <1>t, OthersWait, WaitsKnows
    <2> QED
      BY <1>4, <2>1, <2>2, <2>3
  <1>5. CASE \E e \in Shows, c \in Caps : Create(e, c) \/ Update(e, c)
    BY <1>5, CreateKnows
  <1>6. CASE (\E a \in Artworks : Sell(a)) \/ UNCHANGED vars
    <2>1. UNCHANGED readRows
      BY <1>6 DEF Sell, showRows, ticketRows, vars, readRows
    <2> QED
      BY <1>6, <2>1, <1>t, AllWait, WaitsKnows
  <1> QED
    BY <1>2, <1>3, <1>4, <1>5, <1>6, NextKinds

LEMMA InvInit == Init => Inv
  BY TypedInit, TicketsFitInit, FS_EmptySet
  DEF Init, Inv, WallsFinite, PlacedIn, Knows, StatusKnown, RoomKnown, PlaceKnown,
      AskKnown, VerdictKnown, PlaceLabels, UnplaceLabels

-----------------------------------------------------------------------------
(***************************************************************************)
(* The walls.                                                              *)
(***************************************************************************)

LEMMA OnePlaceStep ==
  ASSUME Inv, [Next]_vars, NEW a \in Artworks, PlacesOf(a) # {},
         ~(PlacesOf(a)' \subseteq PlacesOf(a))
  PROVE  \E r \in Requests :
            /\ Late(r, "place.insert", "artwork") /\ job[r].art = a
            /\ PlacesOf(a)' = PlacesOf(a) \cup {job[r].show}
  <1>1. ~(links' \subseteq links)
    BY DEF PlacesOf
  <1>2. PICK r \in Requests : PlaceInsert(r)
    BY <1>1, LinksStep
  <1>3. PICK e \in Shows, b \in Artworks :
           /\ e = job[r].show /\ b = job[r].art /\ pc[r] = "place.insert"
           /\ links' = links \cup {<<e, b>>}
           /\ Marked(r, "artwork") \/ PlacesOf(b) = {}
    BY <1>2, InsertLinks
  <1>4. b = a /\ PlacesOf(a)' = PlacesOf(a) \cup {e}
    BY <1>3 DEF PlacesOf
  <1> QED
    BY <1>3, <1>4 DEF Late, At, Marked

\* Whatever overlaps: an artwork that hangs somewhere is hung once more only by
\* an addArtwork() that another one for the same artwork has overtaken between
\* its check and its insert, and it is hung in that request's exhibition only.
THEOREM HangsOnce == Spec => OnePlacement
  <1> DEFINE Kept ==
        \A a \in Artworks :
           PlacesOf(a) # {} /\ ~(PlacesOf(a)' \subseteq PlacesOf(a)) =>
               \E r \in Requests :
                   /\ Late(r, "place.insert", "artwork") /\ job[r].art = a
                   /\ PlacesOf(a)' = PlacesOf(a) \cup {job[r].show}
  <1>1. Inv /\ [Next]_vars => Inv'
    BY InvInductive
  <1>2. Inv /\ [Next]_vars => [Kept]_vars
    BY OnePlaceStep
  <1> QED
    BY <1>1, <1>2, InvInit, PTL DEF Spec, OnePlacement

LEMMA CapStep ==
  ASSUME Inv, [Next]_vars, NEW e \in Shows
  PROVE  \/ PlacedIn(e)' \subseteq PlacedIn(e)
         \/ Cardinality(PlacedIn(e)') <= cap[e]
         \/ \E r \in Requests :
              /\ Late(r, "place.insert", "room") /\ job[r].show = e
              /\ PlacedIn(e)' = PlacedIn(e) \cup {job[r].art}
  <1> SUFFICES ASSUME ~(PlacedIn(e)' \subseteq PlacedIn(e))
               PROVE  \/ Cardinality(PlacedIn(e)') <= cap[e]
                      \/ \E r \in Requests :
                           /\ Late(r, "place.insert", "room") /\ job[r].show = e
                           /\ PlacedIn(e)' = PlacedIn(e) \cup {job[r].art}
    OBVIOUS
  <1>1. ~(links' \subseteq links)
    BY DEF PlacedIn
  <1>2. PICK r \in Requests : PlaceInsert(r)
    BY <1>1, LinksStep
  <1>3. PICK f \in Shows, a \in Artworks :
           /\ f = job[r].show /\ a = job[r].art /\ pc[r] = "place.insert"
           /\ links' = links \cup {<<f, a>>}
           /\ Marked(r, "room") \/ Cardinality(PlacedIn(f)) < cap[f]
    BY <1>2, InsertLinks
  <1>4. f = e /\ PlacedIn(e)' = PlacedIn(e) \cup {a}
    BY <1>3 DEF PlacedIn
  <1>5. CASE Marked(r, "room")
    BY <1>3, <1>4, <1>5 DEF Late, At, Marked
  <1>6. CASE Cardinality(PlacedIn(e)) < cap[e]
    <2> DEFINE W == PlacedIn(e) \cup {a}
    <2>1. IsFiniteSet(PlacedIn(e))
      BY DEF Inv, WallsFinite
    <2>2. Cardinality(W) = IF a \in PlacedIn(e) THEN Cardinality(PlacedIn(e))
                                                 ELSE Cardinality(PlacedIn(e)) + 1
      BY <2>1, FS_AddElement, Zenon
    <2>3. Cardinality(PlacedIn(e)) \in Nat /\ cap[e] \in Nat
      BY <2>1, FS_CardinalityType, PlacementAssumption DEF Inv, Typed, RowsTyped
    <2>4. Cardinality(W) <= cap[e]
      BY <1>6, <2>2, <2>3
    <2> QED
      BY <1>4, <2>4
  <1> QED
    BY <1>3, <1>4, <1>5, <1>6

\* Whatever overlaps: addArtwork() takes an exhibition past its maximum only if
\* another placement into it or a change of the maximum has overtaken it, and by
\* no more than the artwork it is about.
THEOREM CapHolds == Spec => WithinCap
  <1> DEFINE Kept ==
        \A e \in Shows :
           \/ PlacedIn(e)' \subseteq PlacedIn(e)
           \/ Cardinality(PlacedIn(e)') <= cap[e]
           \/ \E r \in Requests :
                /\ Late(r, "place.insert", "room") /\ job[r].show = e
                /\ PlacedIn(e)' = PlacedIn(e) \cup {job[r].art}
  <1>1. Inv /\ [Next]_vars => Inv'
    BY InvInductive
  <1>2. Inv /\ [Next]_vars => [Kept]_vars
    BY CapStep
  <1> QED
    BY <1>1, <1>2, InvInit, PTL DEF Spec, WithinCap

(***************************************************************************)
(* The exhibitions.                                                        *)
(***************************************************************************)

LEMMA EndedStep ==
  ASSUME Inv, [Next]_vars, NEW e \in Shows, showStatus[e] = "ENDED",
         showStatus'[e] # "ENDED"
  PROVE  \E r \in Requests : Late(r, "status.commit", "status") /\ job[r].show = e
  <1>1. CASE \E r \in Requests : Starting(r)
    BY <1>1, StartFits DEF allRows, Inv
  <1>2. CASE \E r \in Requests : Reading(r)
    BY <1>2, ReadMoves DEF allRows
  <1>3. ASSUME NEW r \in Requests, Writing(r)
        PROVE  Late(r, "status.commit", "status") /\ job[r].show = e
    <2>1. ShowStatusCommit(r)
      BY <1>3
      DEF Writing, ArtworkWrite, RemoveCommit, RestoreWrite, PlaceInsert,
          UnplaceCommit, AskInsert, DecideCommit, showRows
    <2>2. pc[r] = "status.commit" /\ job[r].show = e
      BY <2>1 DEF ShowStatusCommit, At, Inv, Typed, RowsTyped
    <2>3. job[r].to \notin AllowedTransitions[showStatus[job[r].show]]
      BY <2>2 DEF AllowedTransitions
    <2> QED
      BY <2>2, <2>3 DEF Inv, Knows, StatusKnown, Marked, Late, At
  <1>4. CASE \E r \in Requests : Abort(r)
    BY <1>4 DEF Abort, showRows
  <1>5. CASE \E f \in Shows, c \in Caps : Create(f, c) \/ Update(f, c)
    BY <1>5 DEF Create, Update, Inv, Typed, RowsTyped
  <1>6. CASE \E a \in Artworks : Sell(a)
    BY <1>6 DEF Sell, showRows
  <1>7. CASE UNCHANGED vars
    BY <1>7 DEF vars
  <1> QED
    BY <1>1, <1>2, <1>3, <1>4, <1>5, <1>6, <1>7, NextKinds

\* Whatever overlaps: an exhibition that has ended is revived only by a
\* setStatus() that another one has overtaken between its check and its commit.
THEOREM EndedStaysEnded == Spec => EndedIsTerminal
  <1> DEFINE Kept ==
        \A e \in Shows :
           showStatus[e] = "ENDED" /\ showStatus'[e] # "ENDED" =>
               \E r \in Requests : Late(r, "status.commit", "status") /\ job[r].show = e
  <1>1. Inv /\ [Next]_vars => Inv'
    BY InvInductive
  <1>2. Inv /\ [Next]_vars => [Kept]_vars
    BY EndedStep
  <1> QED
    BY <1>1, <1>2, InvInit, PTL DEF Spec, EndedIsTerminal

(***************************************************************************)
(* Artworks in exhibition.                                                 *)
(***************************************************************************)

\* A step that leaves links and exhibitions alone and hangs up nothing new.
LEMMA InStepQuiet ==
  ASSUME UNCHANGED <<links, showStatus>>, NEW a \in Artworks, InStep(a),
         artStatus'[a] = "IN_EXHIBITION" => artStatus[a] = "IN_EXHIBITION"
  PROVE  InStep(a)'
  BY DEF InStep, PlacesOf

LEMMA InStepStatus ==
  ASSUME Inv, NEW r \in Requests, ShowStatusCommit(r), NEW a \in Artworks, InStep(a)
  PROVE  InStep(a)'
  <1> DEFINE j == job[r]
  <1>1. /\ j.show \in Shows /\ showStatus' = [showStatus EXCEPT ![j.show] = j.to]
        /\ links' = links /\ showStatus \in [Shows -> ExhibitionStatus \cup {"none"}]
    BY DEF ShowStatusCommit, At, JobFits, Inv, Typed, JobsFit, RowsTyped
  <1> SUFFICES ASSUME artStatus'[a] = "IN_EXHIBITION"
               PROVE  \E e \in Shows : <<e, a>> \in links /\ showStatus'[e] = "ACTIVE"
    BY <1>1 DEF InStep, PlacesOf
  <1>2. CASE j.to = "ACTIVE"
    <2>1. <<j.show, a>> \in links \/ artStatus[a] = "IN_EXHIBITION"
      BY <1>2 DEF ShowStatusCommit, Flip, PlacedIn
    <2>2. CASE <<j.show, a>> \in links
      BY <1>1, <1>2, <2>2
    <2>3. CASE artStatus[a] = "IN_EXHIBITION"
      <3>1. PICK f \in Shows : <<f, a>> \in links /\ showStatus[f] = "ACTIVE"
        BY <2>3 DEF InStep, PlacesOf
      <3> QED
        BY <1>1, <1>2, <3>1
    <2> QED
      BY <2>1, <2>2, <2>3
  <1>3. CASE j.to # "ACTIVE"
    <2>1. <<j.show, a>> \notin links /\ artStatus[a] = "IN_EXHIBITION"
      BY <1>3 DEF ShowStatusCommit, Flip, PlacedIn
    <2>2. PICK f \in Shows : <<f, a>> \in links /\ showStatus[f] = "ACTIVE"
      BY <2>1 DEF InStep, PlacesOf
    <2> QED
      BY <1>1, <2>1, <2>2
  <1> QED
    BY <1>2, <1>3

\* Taking a link down keeps the two tables in step if the status of the show
\* that was read before is still the status of the show.
LEMMA InStepUnplace ==
  ASSUME Inv, NEW r \in Requests, UnplaceCommit(r), NEW a \in Artworks, InStep(a),
         ~InStep(a)'
  PROVE  Late(r, "unplace.commit", "status") /\ job[r].art = a
  <1>1. PICK e \in Shows, b \in Artworks : e = job[r].show /\ b = job[r].art
    BY DEF UnplaceCommit, At, Inv, Typed, JobsFit, JobFits
  <1>2. /\ pc[r] = "unplace.commit" /\ showStatus' = showStatus
        /\ artStatus \in [Artworks -> ArtworkStatus]
    BY DEF UnplaceCommit, At, showRows, Inv, Typed, RowsTyped
  <1>3. /\ artStatus'[a] = "IN_EXHIBITION"
        /\ \A f \in Shows : ~(<<f, a>> \in links' /\ showStatus[f] = "ACTIVE")
    BY <1>2 DEF InStep, PlacesOf
  <1>4. CASE UNCHANGED <<links, artStatus>>
    BY <1>2, <1>4, InStepQuiet
  <1>5. CASE Unlink(e, b, job[r].seen, None)
    <2>1. /\ links' = links \ {<<e, b>>}
          /\ artStatus' = [artStatus EXCEPT ![b] =
                              IF job[r].seen = "ACTIVE" /\ @ = "IN_EXHIBITION"
                              THEN "LISTED" ELSE @]
      BY <1>5 DEF Unlink
    <2>2. artStatus[a] = "IN_EXHIBITION" /\ (a = b => job[r].seen # "ACTIVE")
      BY <1>2, <1>3, <2>1
    <2>3. PICK f \in Shows : <<f, a>> \in links /\ showStatus[f] = "ACTIVE"
      BY <2>2 DEF InStep, PlacesOf
    <2>4. f = e /\ a = b
      BY <1>3, <2>1, <2>3
    <2>5. job[r].seen # showStatus[e]
      BY <2>2, <2>3, <2>4
    <2>6. Marked(r, "status")
      BY <1>1, <1>2, <2>5 DEF Inv, Knows, StatusKnown, UnplaceLabels
    <2> QED
      BY <1>1, <1>2, <2>4, <2>6 DEF Late, At, Marked
  <1> QED
    BY <1>1, <1>4, <1>5 DEF UnplaceCommit

LEMMA InStepStep ==
  ASSUME Inv, [Next]_vars, NEW a \in Artworks, InStep(a), ~InStep(a)'
  PROVE  \E r \in Requests : Late(r, "unplace.commit", "status") /\ job[r].art = a
  <1>r. RowsTyped
    BY DEF Inv, Typed
  <1>1. CASE \E r \in Requests : Starting(r)
    BY <1>1, StartFits, InStepQuiet DEF allRows, Inv
  <1>2. CASE \E r \in Requests : Reading(r)
    BY <1>2, ReadMoves, InStepQuiet DEF allRows
  <1>3. ASSUME NEW r \in Requests, Writing(r), ~UnplaceCommit(r)
        PROVE  FALSE
    <2>f. JobFits(pc[r], job[r])
      BY DEF Inv, Typed, JobsFit
    <2>1. CASE ArtworkWrite(r)
      <3>1. /\ artStatus' = [artStatus EXCEPT ![job[r].art] = job[r].to]
            /\ job[r].to # "IN_EXHIBITION" /\ UNCHANGED <<links, showStatus>>
        BY <2>1, <2>f DEF ArtworkWrite, At, JobFits, showRows
      <3> QED
        BY <3>1, <1>r, InStepQuiet DEF RowsTyped
    <2>2. CASE ShowStatusCommit(r)
      BY <2>2, InStepStatus
    <2>3. CASE RemoveCommit(r)
      BY <2>3, InStepQuiet DEF RemoveCommit, Flip
    <2>4. CASE RestoreWrite(r)
      BY <2>4, InStepQuiet DEF RestoreWrite, artworkRows
    <2>5. CASE PlaceInsert(r)
      BY <2>5 DEF PlaceInsert, artworkRows, showRows, InStep, PlacesOf
    <2>6. CASE AskInsert(r)
      BY <2>6, InStepQuiet DEF AskInsert, artworkRows, showRows
    <2>7. CASE DecideCommit(r)
      <3>1. PICK e \in Shows, b \in Artworks :
               /\ showStatus' = showStatus
               /\ \/ UNCHANGED <<links, artStatus>>
                  \/ /\ links' = links \ {<<e, b>>}
                     /\ artStatus' = [artStatus EXCEPT ![b] = "ARCHIVED"]
        BY <2>7, DecideStores DEF Inv
      <3>2. CASE UNCHANGED <<links, artStatus>>
        BY <3>1, <3>2, InStepQuiet
      <3>3. CASE /\ links' = links \ {<<e, b>>}
                 /\ artStatus' = [artStatus EXCEPT ![b] = "ARCHIVED"]
        BY <3>1, <3>3, <1>r DEF InStep, PlacesOf, RowsTyped
      <3> QED
        BY <3>1, <3>2, <3>3
    <2> QED
      BY <1>3, <2>1, <2>2, <2>3, <2>4, <2>5, <2>6, <2>7 DEF Writing
  <1>4. CASE \E r \in Requests : Abort(r)
    BY <1>4, InStepQuiet DEF Abort, artworkRows, showRows
  <1>5. ASSUME NEW e \in Shows, NEW c \in Caps, Create(e, c)
        PROVE  FALSE
    BY <1>5, <1>r DEF Create, artworkRows, RowsTyped, InStep, PlacesOf
  <1>6. CASE \E e \in Shows, c \in Caps : Update(e, c)
    BY <1>6, InStepQuiet DEF Update, artworkRows
  <1>7. CASE \E b \in Artworks : Sell(b)
    BY <1>7, <1>r, InStepQuiet DEF Sell, showRows, RowsTyped
  <1>8. CASE UNCHANGED vars
    BY <1>8, InStepQuiet DEF vars
  <1>9. CASE \E r \in Requests : UnplaceCommit(r)
    BY <1>9, InStepUnplace
  <1> QED
    BY <1>1, <1>2, <1>3, <1>4, <1>5, <1>6, <1>7, <1>8, <1>9, NextKinds

\* Whatever the artist, the sale flow and other curators do meanwhile: an artwork
\* comes to be IN_EXHIBITION without hanging in an ACTIVE show only when a
\* removeArtwork() commits by a status of the show that has been changed since.
THEOREM InExhibitionIsHung == Spec => InExhibitionHangs
  <1> DEFINE Kept ==
        \A a \in Artworks :
           InStep(a) /\ ~InStep(a)' =>
               \E r \in Requests :
                   Late(r, "unplace.commit", "status") /\ job[r].art = a
  <1>1. Inv /\ [Next]_vars => Inv'
    BY InvInductive
  <1>2. Inv /\ [Next]_vars => [Kept]_vars
    BY InStepStep
  <1> QED
    BY <1>1, <1>2, InvInit, PTL DEF Spec, InExhibitionHangs

(***************************************************************************)
(* Removal requests.                                                       *)
(***************************************************************************)

LEMMA PendingStep ==
  ASSUME Inv, [Next]_vars, NEW e \in Shows, NEW a \in Artworks, Pending(e, a) # {},
         ~(Pending(e, a)' \subseteq Pending(e, a))
  PROVE  \E r \in Requests :
            Late(r, "ask.insert", "pending") /\ job[r].show = e /\ job[r].art = a
  <1>r. RowsTyped /\ TicketsFit /\ Typed
    BY DEF Inv, Typed
  <1>1. CASE UNCHANGED <<ticket, ticketOn>>
    BY <1>1 DEF Pending
  <1>2. ASSUME NEW r \in Requests, AskInsert(r)
        PROVE  Late(r, "ask.insert", "pending") /\ job[r].show = e /\ job[r].art = a
    <2>1. PICK t \in Tickets, f \in Shows, b \in Artworks :
             /\ f = job[r].show /\ b = job[r].art /\ pc[r] = "ask.insert"
             /\ ticket' = [ticket EXCEPT ![t] = "PENDING"]
             /\ ticketOn' = [ticketOn EXCEPT ![t] = <<f, b>>]
      BY <1>2, <1>r, AskStores
    <2>2. f = e /\ b = a
      BY <2>1, <1>r DEF Pending, RowsTyped
    <2> QED
      BY <2>1, <2>2 DEF Inv, Knows, AskKnown, Marked, Late, At
  <1>3. ASSUME NEW r \in Requests, DecideCommit(r)
        PROVE  FALSE
    <2>1. PICK t \in Tickets :
             /\ ticketOn' = ticketOn
             /\ \/ ticket' = ticket
                \/ \E d \in {"APPROVED", "REJECTED"} : ticket' = [ticket EXCEPT ![t] = d]
      BY <1>3, <1>r, DecideStores
    <2> QED
      BY <2>1, <1>r DEF Pending, RowsTyped
  <1> QED
    BY <1>1, <1>2, <1>3, <1>r, TicketsStep

\* Whatever overlaps: a place with an open removal request gets another one only
\* by a create() that another create() for the place has overtaken between its
\* check and its insert.
THEOREM OnePending == Spec => OnePendingTicket
  <1> DEFINE Kept ==
        \A e \in Shows, a \in Artworks :
           Pending(e, a) # {} /\ ~(Pending(e, a)' \subseteq Pending(e, a)) =>
               \E r \in Requests :
                   /\ Late(r, "ask.insert", "pending")
                   /\ job[r].show = e /\ job[r].art = a
  <1>1. Inv /\ [Next]_vars => Inv'
    BY InvInductive
  <1>2. Inv /\ [Next]_vars => [Kept]_vars
    BY PendingStep
  <1> QED
    BY <1>1, <1>2, InvInit, PTL DEF Spec, OnePendingTicket

LEMMA VerdictStep ==
  ASSUME Inv, [Next]_vars, NEW t \in Tickets,
         ticket[t] \in {"APPROVED", "REJECTED"}, ticket'[t] # ticket[t]
  PROVE  \E r \in Requests : Late(r, "decide.commit", "verdict") /\ job[r].ticket = t
  <1>r. RowsTyped /\ TicketsFit /\ Typed
    BY DEF Inv, Typed
  <1>1. ASSUME NEW r \in Requests, AskInsert(r)
        PROVE  FALSE
    <2>1. PICK u \in Tickets :
             ticket[u] = "none" /\ ticket' = [ticket EXCEPT ![u] = "PENDING"]
      BY <1>1, <1>r, AskStores
    <2> QED
      BY <2>1, <1>r DEF RowsTyped
  <1>2. ASSUME NEW r \in Requests, DecideCommit(r)
        PROVE  Late(r, "decide.commit", "verdict") /\ job[r].ticket = t
    <2>1. PICK u \in Tickets :
             /\ u = job[r].ticket /\ pc[r] = "decide.commit"
             /\ \/ ticket' = ticket
                \/ \E d \in {"APPROVED", "REJECTED"} : ticket' = [ticket EXCEPT ![u] = d]
      BY <1>2, <1>r, DecideStores
    <2>2. u = t
      BY <2>1, <1>r DEF RowsTyped
    <2> QED
      BY <2>1, <2>2 DEF Inv, Knows, VerdictKnown, Marked, Late, At
  <1> QED
    BY <1>1, <1>2, <1>r, TicketsStep

\* Whatever overlaps: a verdict on a removal request is changed only by a
\* decide() that another decide() on it has overtaken.
THEOREM VerdictIsFinal == Spec => VerdictStands
  <1> DEFINE Kept ==
        \A t \in Tickets :
           ticket[t] \in {"APPROVED", "REJECTED"} /\ ticket'[t] # ticket[t] =>
               \E r \in Requests : Late(r, "decide.commit", "verdict") /\ job[r].ticket = t
  <1>1. Inv /\ [Next]_vars => Inv'
    BY InvInductive
  <1>2. Inv /\ [Next]_vars => [Kept]_vars
    BY VerdictStep
  <1> QED
    BY <1>1, <1>2, InvInit, PTL DEF Spec, VerdictStands

LEMMA ApprovalStep ==
  ASSUME Inv, [Next]_vars, NEW t \in Tickets,
         ticket[t] # "APPROVED", ticket'[t] = "APPROVED"
  PROVE  /\ ticketOn[t] \in links /\ links' = links \ {ticketOn[t]}
         /\ artStatus' = [artStatus EXCEPT ![ticketOn[t][2]] = "ARCHIVED"]
  <1>r. RowsTyped /\ TicketsFit /\ Typed
    BY DEF Inv, Typed
  <1>1. ASSUME NEW r \in Requests, AskInsert(r)
        PROVE  FALSE
    <2>1. PICK u \in Tickets : ticket' = [ticket EXCEPT ![u] = "PENDING"]
      BY <1>1, <1>r, AskStores
    <2> QED
      BY <2>1, <1>r DEF RowsTyped
  <1>2. ASSUME NEW r \in Requests, DecideCommit(r)
        PROVE  /\ ticketOn[t] \in links /\ links' = links \ {ticketOn[t]}
               /\ artStatus' = [artStatus EXCEPT ![ticketOn[t][2]] = "ARCHIVED"]
    <2>1. PICK u \in Tickets, e \in Shows, a \in Artworks :
             /\ u = job[r].ticket /\ e = job[r].show /\ a = job[r].art
             /\ pc[r] = "decide.commit" /\ ticket[u] # "none" /\ ticketOn[u] = <<e, a>>
             /\ UNCHANGED <<showStatus, removed, cap, ticketOn>>
             /\ \/ UNCHANGED <<links, artStatus, ticket>>
                \/ /\ ticket' = [ticket EXCEPT ![u] = "REJECTED"]
                   /\ UNCHANGED <<links, artStatus>>
                \/ /\ ticket' = [ticket EXCEPT ![u] = "APPROVED"]
                   /\ <<e, a>> \in links /\ links' = links \ {<<e, a>>}
                   /\ artStatus' = [artStatus EXCEPT ![a] = "ARCHIVED"]
      BY <1>2, DecideStores DEF Inv
    <2>2. u = t /\ ticket' = [ticket EXCEPT ![u] = "APPROVED"]
      BY <2>1, <1>r DEF RowsTyped
    <2>3. ticket' # ticket /\ ticket' # [ticket EXCEPT ![u] = "REJECTED"]
      BY <2>2, <1>r DEF RowsTyped
    <2> QED
      BY <2>1, <2>2, <2>3
  <1> QED
    BY <1>1, <1>2, <1>r, TicketsStep

\* Whatever overlaps, two decisions of one removal request included: an approval
\* takes effect as a whole.  The link the artist asked about is there to be
\* deleted, it goes, the artwork is archived in the same commit, and no other
\* artwork or wall changes.
THEOREM ApprovalIsWhole == Spec => ApprovalTakesDown
  <1> DEFINE Whole ==
        \A t \in Tickets :
           ticket[t] # "APPROVED" /\ ticket'[t] = "APPROVED" =>
               /\ ticketOn[t] \in links /\ links' = links \ {ticketOn[t]}
               /\ artStatus' = [artStatus EXCEPT ![ticketOn[t][2]] = "ARCHIVED"]
  <1>1. Inv /\ [Next]_vars => Inv'
    BY InvInductive
  <1>2. Inv /\ [Next]_vars => [Whole]_vars
    BY ApprovalStep
  <1> QED
    BY <1>1, <1>2, InvInit, PTL DEF Spec, ApprovalTakesDown

-----------------------------------------------------------------------------
(***************************************************************************)
(* Every request acts as one step.                                         *)
(***************************************************************************)

askedNow == {<<t, ticketOn[t]>> : t \in {u \in Tickets : ticket[u] = "PENDING"}}
lateNow == {<<p[2], job[p[1]].show, job[p[1]].art>> : p \in overtaken}

LEMMA LateNow ==
  ASSUME NEW r \in Requests, NEW what, Marked(r, what)
  PROVE  <<what, job[r].show, job[r].art>> \in lateNow
  BY DEF Marked, lateNow

LEMMA LateTyped ==
  ASSUME Typed'
  PROVE  lateNow' \subseteq Walls!Rules \X Shows \X (Artworks \cup {None})
  <1>1. ASSUME NEW p \in overtaken'
        PROVE  /\ p[2] \in Walls!Rules /\ job'[p[1]].show \in Shows
               /\ job'[p[1]].art \in Artworks \cup {None}
    BY <1>1 DEF Typed, SlotsTyped, Busy, JobsFit, JobFits, Jobs, Matters, Walls!Rules
  <1> QED
    BY <1>1 DEF lateNow

LEMMA AskedStays ==
  ASSUME UNCHANGED <<ticket, ticketOn>>
  PROVE  askedNow' = askedNow
  BY DEF askedNow

\* Removal requests that come, and that are decided.
LEMMA AskComes ==
  ASSUME RowsTyped, NEW t \in Tickets, NEW p, ticket[t] = "none",
         ticket' = [ticket EXCEPT ![t] = "PENDING"],
         ticketOn' = [ticketOn EXCEPT ![t] = p]
  PROVE  askedNow' = askedNow \cup {<<t, p>>}
  <1>1. \A u \in Tickets :
           /\ ticket'[u] = IF u = t THEN "PENDING" ELSE ticket[u]
           /\ ticketOn'[u] = IF u = t THEN p ELSE ticketOn[u]
    BY DEF RowsTyped
  <1> QED
    BY <1>1 DEF askedNow

LEMMA AskGoes ==
  ASSUME RowsTyped, NEW t \in Tickets, NEW d \in {"APPROVED", "REJECTED"},
         ticket' = [ticket EXCEPT ![t] = d], ticketOn' = ticketOn
  PROVE  askedNow' = askedNow \ {<<t, ticketOn[t]>>}
  <1>1. \A u \in Tickets : ticket'[u] = "PENDING" <=> u # t /\ ticket[u] = "PENDING"
    BY DEF RowsTyped
  <1> QED
    BY <1>1 DEF askedNow

LEMMA StatusIsStep ==
  ASSUME Inv, NEW r \in Requests, ShowStatusCommit(r)
  PROVE  Walls!WallStep
  <1>1. PICK e \in Shows, s \in ExhibitionStatus :
           /\ job[r].show = e /\ job[r].to = s /\ pc[r] = "status.commit" /\ Exists(e)
           /\ showStatus' = [showStatus EXCEPT ![e] = s]
           /\ UNCHANGED <<cap, links, ticketOn, ticket>>
           /\ IF s = "ACTIVE" THEN Flip(PlacedIn(e), "LISTED", "IN_EXHIBITION")
                              ELSE Flip(PlacedIn(e), "IN_EXHIBITION", "LISTED")
    BY DEF ShowStatusCommit, At, Inv, Typed, JobsFit, JobFits, ticketRows
  <1>2. <<"status", e, None>> \in lateNow \/ s \in AllowedTransitions[showStatus[e]]
    <2>1. Marked(r, "status") \/ s \in AllowedTransitions[showStatus[e]]
      BY <1>1 DEF Inv, Knows, StatusKnown
    <2>2. CASE Marked(r, "status")
      <3>1. job[r].art = None
        BY <1>1 DEF Inv, Typed, JobsFit, JobFits
      <3> QED
        BY <1>1, <2>2, <3>1, LateNow
    <2> QED
      BY <2>1, <2>2
  <1>3. showStatus[e] \in ExhibitionStatus
    BY <1>1 DEF Exists, Inv, Typed, RowsTyped
  <1>4. \/ s = "ACTIVE" /\ (showStatus[e] = "DRAFT" \/ <<"status", e, None>> \in lateNow)
        \/ /\ s \in {"DRAFT", "ENDED"}
           /\ showStatus[e] = "ACTIVE" \/ <<"status", e, None>> \in lateNow
    BY <1>1, <1>2, <1>3 DEF AllowedTransitions, ExhibitionStatus
  <1>5. askedNow' = askedNow /\ Walls!Hung(e) = PlacedIn(e)
    BY <1>1, AskedStays DEF Walls!Hung, PlacedIn
  <1>6. CASE s = "ACTIVE"
    <2>1. Walls!Publish(e)
      BY <1>1, <1>4, <1>5, <1>6
      DEF Walls!Publish, Walls!Relabel, Flip, askedNow, lateNow
    <2> QED
      BY <2>1 DEF Walls!WallStep
  <1>7. CASE s # "ACTIVE"
    <2>1. Walls!Withdraw(e, s) /\ s \in {"DRAFT", "ENDED"}
      BY <1>1, <1>4, <1>5, <1>7
      DEF Walls!Withdraw, Walls!Relabel, Flip, askedNow, lateNow
    <2> QED
      BY <2>1 DEF Walls!WallStep
  <1> QED
    BY <1>6, <1>7

LEMMA InsertIsStep ==
  ASSUME Inv, NEW r \in Requests, PlaceInsert(r)
  PROVE  Walls!WallStep
  <1>1. PICK e \in Shows, a \in Artworks :
           /\ e = job[r].show /\ a = job[r].art
           /\ Exists(e) /\ links' = links \cup {<<e, a>>}
           /\ UNCHANGED <<artStatus, showStatus, cap, ticket, ticketOn>>
           /\ Marked(r, "artwork") \/ PlacesOf(a) = {}
           /\ Marked(r, "room") \/ Cardinality(PlacedIn(e)) < cap[e]
    BY InsertLinks
  <1>2. (\A f \in Shows : <<f, a>> \notin links) \/ <<"artwork", e, a>> \in lateNow
    BY <1>1, LateNow DEF PlacesOf
  <1>3. Walls!Hung(e) = PlacedIn(e) /\ askedNow' = askedNow
    BY <1>1, AskedStays DEF Walls!Hung, PlacedIn
  <1>4. Walls!Cardinality(Walls!Hung(e)) < cap[e] \/ <<"room", e, a>> \in lateNow
    BY <1>1, <1>3, LateNow DEF Walls!Cardinality, Cardinality
  <1>5. Walls!Hang(e, a)
    BY <1>1, <1>2, <1>3, <1>4 DEF Walls!Hang, Exists, askedNow, lateNow
  <1> QED
    BY <1>5 DEF Walls!WallStep

LEMMA UnplaceIsStep ==
  ASSUME Inv, NEW r \in Requests, UnplaceCommit(r)
  PROVE  Walls!WallStep \/ UNCHANGED Walls!walls
  <1>1. PICK e \in Shows, a \in Artworks :
           /\ e = job[r].show /\ a = job[r].art /\ pc[r] = "unplace.commit"
           /\ Unlink(e, a, job[r].seen, None) \/ UNCHANGED <<links, artStatus>>
           /\ UNCHANGED <<showStatus, cap, ticketOn, ticket>>
    BY DEF UnplaceCommit, At, Inv, Typed, JobsFit, JobFits, showRows, ticketRows
  <1>2. askedNow' = askedNow
    BY <1>1, AskedStays
  <1>3. CASE Unlink(e, a, job[r].seen, None)
    <2> DEFINE open == job[r].seen = "ACTIVE"
    <2>1. (open <=> showStatus[e] = "ACTIVE") \/ <<"status", e, a>> \in lateNow
      <3>1. Marked(r, "status") \/ job[r].seen = showStatus[e]
        BY <1>1 DEF Inv, Knows, StatusKnown, UnplaceLabels
      <3> QED
        BY <1>1, <3>1, LateNow
    <2>2. artStatus' = [artStatus EXCEPT ![a] =
                          IF open /\ @ = "IN_EXHIBITION" THEN "LISTED" ELSE @]
      BY <1>3 DEF Unlink
    <2>3. artStatus \in [Artworks -> ArtworkStatus]
      BY DEF Inv, Typed, RowsTyped
    <2>4. CASE open
      <3>1. Walls!Relabel({a}, "IN_EXHIBITION", "LISTED")
        BY <2>2, <2>3, <2>4 DEF Walls!Relabel
      <3>2. Walls!TakeDown(e, a)
        BY <1>1, <1>2, <1>3, <2>1, <2>4, <3>1 DEF Walls!TakeDown, Unlink, askedNow, lateNow
      <3> QED
        BY <3>2 DEF Walls!WallStep
    <2>5. CASE ~open
      <3>1. artStatus' = artStatus
        BY <2>2, <2>3, <2>5
      <3>2. Walls!TakeDown(e, a)
        BY <1>1, <1>2, <1>3, <2>1, <2>5, <3>1 DEF Walls!TakeDown, Unlink, askedNow, lateNow
      <3> QED
        BY <3>2 DEF Walls!WallStep
    <2> QED
      BY <2>4, <2>5
  <1>4. CASE UNCHANGED <<links, artStatus>>
    BY <1>1, <1>2, <1>4 DEF Walls!walls, askedNow
  <1> QED
    BY <1>1, <1>3, <1>4

LEMMA AskIsStep ==
  ASSUME Inv, NEW r \in Requests, AskInsert(r)
  PROVE  Walls!WallStep
  <1>1. PICK t \in Tickets, e \in Shows, a \in Artworks :
           /\ e = job[r].show /\ a = job[r].art
           /\ pc[r] = "ask.insert" /\ ticket[t] = "none"
           /\ ticket' = [ticket EXCEPT ![t] = "PENDING"]
           /\ ticketOn' = [ticketOn EXCEPT ![t] = <<e, a>>]
           /\ UNCHANGED <<artStatus, showStatus, removed, cap, links>>
    BY AskStores DEF Inv
  <1>2. askedNow' = askedNow \cup {<<t, <<e, a>>>>}
    BY <1>1, AskComes DEF Inv, Typed
  <1>3. (\A u \in Tickets : <<u, <<e, a>>>> \notin askedNow) \/ <<"pending", e, a>> \in lateNow
    <2>1. Marked(r, "pending") \/ Pending(e, a) = {}
      BY <1>1 DEF Inv, Knows, AskKnown
    <2>2. CASE Pending(e, a) = {}
      BY <2>2 DEF Pending, askedNow
    <2>3. CASE Marked(r, "pending")
      BY <1>1, <2>3, LateNow
    <2> QED
      BY <2>1, <2>2, <2>3
  <1>4. Walls!Ask(t, e, a)
    BY <1>1, <1>2, <1>3 DEF Walls!Ask, askedNow, lateNow
  <1> QED
    BY <1>4 DEF Walls!WallStep

LEMMA DecideIsStep ==
  ASSUME Inv, NEW r \in Requests, DecideCommit(r)
  PROVE  Walls!WallStep \/ UNCHANGED Walls!walls
  <1>1. PICK t \in Tickets, e \in Shows, a \in Artworks :
            /\ t = job[r].ticket /\ e = job[r].show /\ a = job[r].art
            /\ pc[r] = "decide.commit" /\ ticket[t] # "none" /\ ticketOn[t] = <<e, a>>
            /\ UNCHANGED <<showStatus, removed, cap, ticketOn>>
            /\ \/ UNCHANGED <<links, artStatus, ticket>>
               \/ /\ ticket' = [ticket EXCEPT ![t] = "REJECTED"]
                  /\ UNCHANGED <<links, artStatus>>
               \/ /\ ticket' = [ticket EXCEPT ![t] = "APPROVED"]
                  /\ <<e, a>> \in links /\ links' = links \ {<<e, a>>}
                  /\ artStatus' = [artStatus EXCEPT ![a] = "ARCHIVED"]
    BY DecideStores DEF Inv
  <1>r. RowsTyped
    BY DEF Inv, Typed
  <1>2. CASE UNCHANGED <<links, artStatus, ticket>>
    BY <1>1, <1>2, AskedStays DEF Walls!walls, askedNow
  <1>3. CASE /\ ticket' = [ticket EXCEPT ![t] = "REJECTED"]
             /\ UNCHANGED <<links, artStatus>>
    <2>1. askedNow' = askedNow \ {<<t, <<e, a>>>>}
      BY <1>1, <1>3, <1>r, AskGoes
    <2>2. CASE <<t, <<e, a>>>> \in askedNow
      <3>1. Walls!Refuse(t, e, a)
        BY <1>1, <1>3, <2>1, <2>2 DEF Walls!Refuse, askedNow
      <3> QED
        BY <3>1 DEF Walls!WallStep
    <2>3. CASE <<t, <<e, a>>>> \notin askedNow
      <3>1. askedNow' = askedNow
        BY <2>1, <2>3
      <3> QED
        BY <1>1, <1>3, <3>1 DEF Walls!walls, askedNow
    <2> QED
      BY <2>2, <2>3
  <1>4. CASE /\ ticket' = [ticket EXCEPT ![t] = "APPROVED"]
             /\ <<e, a>> \in links /\ links' = links \ {<<e, a>>}
             /\ artStatus' = [artStatus EXCEPT ![a] = "ARCHIVED"]
    <2>1. askedNow' = askedNow \ {<<t, <<e, a>>>>}
      BY <1>1, <1>4, <1>r, AskGoes
    <2>2. <<t, <<e, a>>>> \in askedNow \/ <<"verdict", e, a>> \in lateNow
      <3>1. Marked(r, "verdict") \/ ticket[t] = "PENDING"
        BY <1>1 DEF Inv, Knows, VerdictKnown
      <3>2. CASE ticket[t] = "PENDING"
        BY <1>1, <3>2 DEF askedNow
      <3>3. CASE Marked(r, "verdict")
        BY <1>1, <3>3, LateNow
      <3> QED
        BY <3>1, <3>2, <3>3
    <2>3. Walls!Grant(t, e, a)
      BY <1>1, <1>4, <2>1, <2>2 DEF Walls!Grant, askedNow, lateNow
    <2> QED
      BY <2>3 DEF Walls!WallStep
  <1> QED
    BY <1>1, <1>2, <1>3, <1>4

\* The statements that write, one by one.
LEMMA WriteIsStep ==
  ASSUME Inv, NEW r \in Requests, Writing(r)
  PROVE  Walls!WallStep \/ UNCHANGED Walls!walls
  <1>f. JobFits(pc[r], job[r])
    BY DEF Inv, Typed, JobsFit
  <1>1. CASE ArtworkWrite(r)
    <2>1. PICK a \in Artworks, s \in {"DRAFT", "LISTED", "ARCHIVED"} :
             /\ artStatus' = [artStatus EXCEPT ![a] = s]
             /\ UNCHANGED <<showStatus, cap, links, ticketOn, ticket>>
      BY <1>1, <1>f DEF ArtworkWrite, At, JobFits, showRows, ticketRows
    <2>2. Walls!Label(a, s)
      BY <2>1, AskedStays DEF Walls!Label, askedNow
    <2> QED
      BY <2>2 DEF Walls!WallStep
  <1>2. CASE RemoveCommit(r)
    <2>1. PICK e \in Shows :
             /\ Exists(e) /\ Flip(PlacedIn(e), "IN_EXHIBITION", "LISTED")
             /\ UNCHANGED <<showStatus, cap, links, ticketOn, ticket>>
      BY <1>2, <1>f DEF RemoveCommit, At, JobFits, ticketRows
    <2>2. askedNow' = askedNow /\ Walls!Hung(e) = PlacedIn(e)
      BY <2>1, AskedStays DEF Walls!Hung, PlacedIn
    <2>3. Walls!Hide(e)
      BY <2>1, <2>2 DEF Walls!Hide, Walls!Relabel, Flip, Exists, askedNow
    <2> QED
      BY <2>3 DEF Walls!WallStep
  <1>3. CASE RestoreWrite(r)
    <2>1. UNCHANGED <<artStatus, showStatus, cap, links, ticketOn, ticket>>
      BY <1>3 DEF RestoreWrite, artworkRows, ticketRows
    <2> QED
      BY <2>1, AskedStays DEF Walls!walls, askedNow
  <1> QED
    BY <1>1, <1>2, <1>3, StatusIsStep, InsertIsStep, UnplaceIsStep, AskIsStep, DecideIsStep
    DEF Writing

LEMMA StepIsStep ==
  ASSUME Inv, Inv', [Next]_vars
  PROVE  [Walls!WallNext]_(Walls!wallVars)
  <1>quiet. ASSUME UNCHANGED <<artStatus, showStatus, cap, links, ticketOn, ticket>>
            PROVE  UNCHANGED Walls!walls
    BY <1>quiet, AskedStays DEF Walls!walls, askedNow
  <1>1. CASE \E r \in Requests : Starting(r) \/ Reading(r) \/ Abort(r)
    <2>1. UNCHANGED Walls!walls
      BY <1>1, <1>quiet, StartFits, ReadMoves
      DEF Inv, allRows, Abort, artworkRows, showRows, ticketRows
    <2> QED
      BY <2>1, LateTyped DEF Inv, Walls!WallNext, lateNow
  <1>2. CASE \E r \in Requests : Writing(r)
    <2>1. Walls!WallStep \/ UNCHANGED Walls!walls
      BY <1>2, WriteIsStep
    <2> QED
      BY <2>1, LateTyped DEF Inv, Walls!WallNext, lateNow
  <1>3. ASSUME NEW e \in Shows, NEW c \in Caps, Create(e, c) \/ Update(e, c)
        PROVE  [Walls!WallNext]_(Walls!wallVars)
    <2>1. askedNow' = askedNow
      BY <1>3, AskedStays DEF Create, Update, ticketRows
    <2>2. Walls!Plan(e, c) \/ Walls!Resize(e, c)
      BY <1>3, <2>1
      DEF Create, Update, Exists, artworkRows, Walls!Plan, Walls!Resize, askedNow
    <2>3. Walls!WallStep
      BY <2>2 DEF Walls!WallStep
    <2> QED
      BY <2>3, LateTyped DEF Inv, Walls!WallNext, lateNow
  <1>4. ASSUME NEW a \in Artworks, Sell(a)
        PROVE  [Walls!WallNext]_(Walls!wallVars)
    <2>1. Walls!Label(a, "SOLD")
      BY <1>4, AskedStays DEF Sell, showRows, ticketRows, Walls!Label, askedNow
    <2>2. Walls!WallStep
      BY <2>1 DEF Walls!WallStep
    <2> QED
      BY <2>2, LateTyped DEF Inv, Walls!WallNext, lateNow
  <1>5. CASE UNCHANGED vars
    <2>1. UNCHANGED Walls!walls
      BY <1>5, <1>quiet DEF vars
    <2> QED
      BY <2>1, LateTyped DEF Inv, Walls!WallNext, lateNow
  <1> QED
    BY <1>1, <1>2, <1>3, <1>4, <1>5, NextKinds

\* Whatever overlaps: every handler acts as one atomic step of WallProtocol or
\* not at all.  What it checked of exhibitions, places, room and open removal
\* requests still holds when it writes, except for what it has been overtaken on,
\* and what it writes is in any case the one step it stands for.
THEOREM HandlersImplementWalls == Spec => WallsRefined
  <1>1. Init => Walls!WallInit
    BY DEF Init, Walls!WallInit
  <1>2. Inv /\ [Next]_vars => Inv' /\ [Walls!WallNext]_(Walls!wallVars)
    BY InvInductive, StepIsStep
  <1> QED
    BY <1>1, <1>2, InvInit, PTL DEF Spec, WallsRefined, Walls!WallSpec

=============================================================================
