# vea-api in TLA+

vea-api is the backend of a virtual exhibition platform: artists register
artworks, curators of an organization hang them in exhibitions, visitors walk
through and make offers, and an accepted offer is paid through an escrow
provider. It is a NestJS application in TypeScript over PostgreSQL (Prisma) with
a Socket.IO gateway. This directory holds TLA+ models of it, the TLC
configurations that check them and TLAPS proofs about them.

All paths below are relative to the application's source, `src/src/`.

## 1. Inventory

| component | state | operations | what makes it correct |
|---|---|---|---|
| offers (`offers/`) | `Offer.status`, `Offer.artistDecision`, one `Transaction` row per offer | create, setArtistDecision, reject, cancel, accept, pay, markDelivered, release | an artwork is sold to one buyer; a buyer is charged and a seller paid once; statuses only move forward; a decision locks; every party is told |
| payments (`payments/`) | none in this process; the provider's | holdFunds, releaseFunds (a stub today) | every stored transaction row is backed by a provider call |
| artworks (`artworks/`) | `Artwork.status` | create, update, setStatus, archive, unarchive, archiveForRemoval | status agrees with where the artwork hangs and whether it was sold |
| exhibitions (`exhibitions/`) | `Exhibition.status`, `deletedAt`, `maxArtworks`, `ExhibitionArtwork` links | create, update, setStatus, remove, restore, addArtwork, updateArtworkLink, removeArtwork | one place per artwork, no show over its maximum, ENDED is terminal, artworks IN_EXHIBITION are on view |
| removal requests (`artwork-removal-requests/`) | `ArtworkRemovalRequest.status` | create, decide | one open request per place, decided once, an approval takes effect whole |
| visitor gateway (`realtime/`) | Socket.IO rooms, per-socket data, `VisitEvent` rows | join, leave, watch, unwatch, disconnect | a visitor is in at most one room, counts agree with the rooms |
| auth (`auth/`) | `VerificationCode` rows, JWTs | requestCode, verifyCode, guards | a code is used once, five attempts, only the newest code counts |
| notifications (`notifications/`) | `Notification` rows, live sockets | create, createForMany, findMine, markRead, markAllRead, connection and push | stored before pushed, everyone concerned told, never lost to an offline user |
| organizations, users | membership, role | create, update, addAdmin, removeAdmin, addArtist, removeArtist | a role lasts as long as the membership |
| exhibition templates | room shape, colors and textures, derived theme | create, update | the room shape of a used template is frozen, the theme follows the columns |
| artist profiles, files, mail, bootstrap | rows of one owner, object store, log | CRUD, upload | no protocol |

**Interactions.** Controllers call services; services call each other directly
and share the database. The tables are the only shared state: `Artwork.status`
has four writers (artworks, exhibitions, removal requests, and
`OffersService.release`), the links have two. `accept`, `pay`, `release`,
`setStatus`, `remove`, `removeArtwork` and `decide` use an interactive
transaction; only `accept` takes an explicit row lock (`SELECT ... FOR UPDATE` on
the artwork). Notifications are inserted after a handler's write and outside its
transaction.

**Hard behaviours.** A Node process runs one statement at a time but switches
requests at every `await`, and several processes may share the database, which
runs at READ COMMITTED. Nearly every handler reads a row, checks it in memory
and updates it *by id*, so another request may change the row between check and
write. Requests may die between two statements: a provider call made and not
recorded, a row stored and nobody told. Counts and uniqueness are checked by a
query before an insert. `PROJECT.json` lists each of these hazards at its line
with the properties that cover it.

The gateway has the same pattern in memory: a join awaits the database three
times, and other events and disconnects run in between.

## 2. Plan

Written:

1. `SaleProtocol`: the abstract specification of a sale.
2. `Offers`: offers and payments; implements `SaleProtocol`. `MCOffers`
   instantiates it. `OffersProofs` proves types, row lock and escrow ledger;
   `OffersSaleProofs` the sale and the refinement.
3. `WallProtocol`: the abstract specification of exhibitions and removal requests.
4. `Placement`: exhibitions, artworks and removal requests over one database;
   implements `WallProtocol` (`MCPlacement`, `PlacementProofs`).
5. `Gateway`: the live visitor counter over one or more API processes
   (`MCGateway`, `GatewayProofs`).
6. `Accounts`: one-time codes, tokens, roles and memberships (`MCAccounts`, `AccountsProofs`).
7. `Templates`: room presets against the exhibitions that use them
   (`MCTemplates`, `TemplatesProofs`).
8. `Notifications`: who is told of an event, and which client sees it
   (`MCNotifications`, `NotificationsProofs`).

The modules meet where one component calls another, and each side models the
other by what it may do: `Sell` in `Placement` and `Reshelve` in `Offers` are the
other writers of `Artwork.status`; `Raise` in `Notifications` is the write an
offer or removal request has just made, `ChangeAdmins` there is what `Accounts`
has in detail; `Hang` and `TakeDown` in `Templates` are the link operations of
`Placement` as far as walls go.

No theorem and no safety run assumes that users take turns. Where the code's
check and its write are separate statements and a rule can therefore break, the
model records in a history variable *who was overtaken on what*, and the property
says that the rule breaks in no other way. Each section names its history
variables; none is read by an action's guard.

Every safety property that a passing run checks is also a theorem. What could be
added next: an abstract specification of the visitor counter with `Gateway` shown
to implement it, and a model of the statistics' append-only events.

## 3. Offers

### Correspondence

A request in flight is a slot `r` with `pc[r]`, the label of the next awaited
statement of its handler, and `target[r]`, the offer it is about. `StartX` is the
first read of handler X with all checks made on that row; the other actions of X
are its later statements, in order. What a handler remembers of its first read is
implied by the label it reached, so nothing else is kept.

| model | code |
|---|---|
| `status`, `decision`, `txn` | `Offer.status`, `Offer.artistDecision`, `Transaction.status` ("none": no row, or null) |
| `shelf` | `Artwork.status`; LISTED and IN_EXHIBITION are "shown", DRAFT and ARCHIVED "hidden" |
| `holds`, `payouts` | calls of `holdFunds` and `releaseFunds` that reached the provider |
| `announced`, `answered` | offers whose creation or decision notifications are stored |
| `contested` (history) | artworks with an offer on which requests of two *different* sale handlers were in flight together |
| `peak` (history) | how many decisions, payments or releases of an offer were in flight together |
| `StartCreate` ... `CreateNotify` | `create()`: artwork, reserving offers, approved offers, insert, notifications |
| `StartDecide`, `DecideWrite`, `DecideNotify` | `setArtistDecision()` |
| `StartReject`/`RejectWrite`, `StartCancel`/`CancelWrite`, `StartDeliver`/`DeliverWrite` | `reject()`, `cancel()`, `markDelivered()`: check, then update by id |
| `StartAccept`, `AcceptLock`, `AcceptCheck`, `AcceptCommit` | `accept()` and its transaction |
| `StartPay`, `PayHold`, `PayCommit` | `pay()`; the unique `Transaction.offerId` makes a second commit fail |
| `StartRelease`, `ReleaseRead`, `ReleasePayout`, `ReleaseCommit` | `release()` |
| `Abort` | a request that dies between two statements |
| `Reshelve` | every other writer of `Artwork.status` |

The row lock of `accept()` is held by the requests whose label lies between the
lock and the end of the transaction (`Locked`). Statements that need a conflicting
lock on the artwork row wait for it: another `accept`, the update in `release`,
any other update of the artwork, and the insert of an offer, whose foreign key
check takes a key-share lock on that row. The writes of a transaction become
visible at its commit, so a transaction that only writes is one action.

Abstracted: amounts (the asking price and the discount floor only decide whether
`create` goes on; the commission only fills columns), the recipients and payloads
of notifications, and the queries. `CreateNotify` and `DecideNotify` are one step
where the code has a query of the recipients and one insert each: nothing an offer
depends on is read or written there, and section 8 takes that step apart.
`Reshelve` allows more than the code: any value, at any time.

Nothing in the code keeps two requests on one offer apart. Two requests of the
*same* handler (a double click) are harmless for the sale: both write the same
status, and a second transaction row is refused. Two of *different* handlers are not: the artist rejects what the
buyer is paying for, both checks having passed. `contested` remembers the artworks
this has happened on; on all others the properties below hold.

### Properties and runs

| run | what it asks |
|---|---|
| `offers_overlap` (`OffersOverlap.cfg`) | any overlap: `TypeOK`; `OneAccepted` (what the row lock is for), `Ledger`, `SoldIsPaid`, which hold without exception; `SoldOnce` (a double sale needs a contested artwork), `ChargedOnce` (a repeated charge needs overlapping payments or a death), `DecisionFinal` (a decision is overwritten only by one that overlapped), `SaleRefined` (the handlers implement `SaleProtocol`, whose `Stray` lets a contested artwork go its way and no other) |
| `offers_turns` (`OffersTurns.cfg`) | liveness, one request in flight per offer: `EveryRequestEnds`, `PartiesAreTold` |
| `offers_double_sale` | any overlap: `AtMostOneSale`, without the exception of `SoldOnce`, is refuted, see Findings |

**Bounds.** Two offers compete for one artwork, made by one buyer to one artist,
with two requests in flight. The artwork is the unit of competition and offers on
different artworks touch no common row, so one artwork with two offers shows the
races; two requests are enough for every check-then-write race, each of which has
one reader and one intervening writer. `MaxAborts = 1` is one death at any
statement. `MaxCalls` caps the provider calls per offer: 3 in `offers_turns`, where
only a death causes a repetition (it never binds, so it does not block a request in
the liveness check), and 4 when repetitions also come from overlap. `MayOverlap =
FALSE` is a bound of `offers_turns` only, which keeps its behaviour graph small
enough for liveness; no theorem mentions it. The symmetry of `offers_overlap` (1.6
million states) permutes the slots and the two offers, which are alike;
`offers_turns` (88 000 states) uses none, because it checks liveness.

**Fairness.** `SF_vars(Continue(r))` for each slot: an event loop that is running
executes the continuation of a settled await, and PostgreSQL queues the waiters of
a row lock, so a request that can take its next statement again and again takes
it. Weak fairness would not do for a lock waiter, whose statement is disabled each
time a competitor holds the lock. Nothing is assumed about users sending requests:
an accepted offer may stay unpaid for ever.

### Proofs (`OffersProofs.tla`, `OffersSaleProofs.tla`)

For every set of offers, artworks and users, every finite set of requests and every
value of the bounds, from `OffersAssumption` only (the functions have their types,
`NoOffer` is no offer, the slots are finitely many). None assumes anything about
overlap.

`OffersProofs.tla`:

* `TypeCorrect`: `Spec => []TypeOK`. The rows and the slots are treated apart
  (`RowsOK`, `SlotsOK`), as most actions disturb one of the two.
* `NoDoubleAccept`: `Spec => []OneAccepted`. The inductive invariant `LockInv` adds
  that one request at most is inside the critical section of an artwork
  (`LockHeldOnce`) and that while a request is about to commit its acceptance no
  offer on the artwork is ACCEPTED (`CommitClear`). The second survives because the
  only write of ACCEPTED is the commit itself.
* `LedgerSound` and `SoldMeansPaid`: `Spec => []Ledger` and `Spec => []SoldIsPaid`.
  `LedgerInv` adds `PaidFor`, what a request between two statements of `pay` or
  `release` has already achieved at the provider or in the transaction row. It is
  stable because calls are never undone and transaction rows never removed.

`OffersSaleProofs.tla`:

* `NoDoubleSale`: `Spec => []SoldOnce`. `SaleInv` joins `LockInv` with what holds of
  an uncontested artwork: the requests that work on one of its offers are all in one
  handler (`OneHandler`), a request that creates an offer is alone on it
  (`CreateAlone`), so a handler finds at its write the status it checked, the one it
  writes itself, or the cancellation by another offer's acceptance (`Snapshot`,
  `Finds`), and no offer on the artwork is reserving while an acceptance is about to
  commit (`AcceptClear`). `EscrowInStep`
  ties the transaction row to the status. `contested` is exactly the exception this
  argument needs, which is why the theorem says what the double sale of the first
  finding takes.
* `DecisionLocks`: `Spec => DecisionFinal`. `PeakOK` (no more requests of a counted
  handler are in flight than `peak` says) and `Undecided`: the check of
  `setArtistDecision` still holds at its write, unless two overlapped.
* `ChargedOncePerOffer`: `Spec => []ChargedOnce`. `HoldsAccounted` and
  `PayoutsAccounted` assign each provider call to the row that records it, to a
  request between the call and its commit, or to a request that died.
* `HandlersImplementSale`: `Spec => SaleRefined`, that is, `Init` implies the
  abstract `SaleInit` and every step is a step of `SaleProtocol` or leaves its
  variables alone. A write by id maps to the abstract action of its handler because
  `Snapshot` gives the status the abstract guard asks for and `EscrowInStep` the
  escrow; a second write of the same status is a stutter; `AcceptClear` gives the
  guard of `Agree` about the other offers. On a contested artwork the write is
  `Stray`, which moves no other artwork.

The liveness properties `EveryRequestEnds` and `PartiesAreTold` are model-checked
only; they are out of the prover's reach.

## 4. Placement

### Correspondence

`links` are the `ExhibitionArtwork` rows, `artStatus`, `showStatus`, `removed` and
`cap` the columns of `Artwork` and `Exhibition`, `ticket` and `ticketOn` the
removal requests. A request is again a slot with a label; `job[r]` is what it is
about and what it has read and still uses (`seen`, the exhibition status that
`removeArtworkLink` goes by; `room`, the maximum that `addArtwork` compares with).

`overtaken` (history) holds pairs `<<request, what>>`: another request has written
what this one had read and relies on. `what` is the room of the exhibition
(`addArtwork`), the places of the artwork (`addArtwork`), the exhibition's status
(`setStatus`, `removeArtwork`), the place's open removal requests (`create`) or the
verdict (`decide`).

| model | code |
|---|---|
| `StartSetStatus`, `StartArchive`, `StartUnarchive`, `ArtworkWrite` | the artist's `ArtworksService` handlers |
| `Create`, `Update` | exhibition `create()`, `update()`, as far as `maxArtworks` goes |
| `StartShowStatus`, `ShowStatusCommit` | `setStatus()`: artworks and exhibition in one transaction |
| `StartRemove`/`RemoveCommit`, `StartRestore`/`RestoreWrite` | `remove()`, `restore()` |
| `StartPlace`, `PlaceReadArtwork`, `PlaceCount`, `PlaceReadExisting`, `PlaceInsert` | `addArtwork()`, its four reads and the insert |
| `StartUnplace`, `UnplaceReadLink`, `UnplaceCommit` | `removeArtwork()` |
| `Unlink` | `removeArtworkLink()`, with `archiveForRemoval()` for an approval |
| `StartAsk`, `AskReadPending`, `AskInsert` | removal request `create()` |
| `StartDecide`, `DecideCommit` | removal request `decide()`; the transaction fails as a whole when the link is gone |
| `OnView` | what `findPublic` and `findOneForView` return |
| `ArtistStep`, `CuratorStep`, `TicketStep` | the routes of the three controllers |
| `Sell` | the write of SOLD by `OffersService.release`, at any time |
| `Abort` | a request that dies; an open transaction leaves nothing |

`WallProtocol` is the same system without requests: `hung`, the statuses, `room`
and the removal requests still `asked`, and `Hang`, `TakeDown`, `Publish`,
`Withdraw`, `Hide`, `Ask`, `Refuse` and `Grant` look at them in the step that relies
on them. `late` lifts a rule (`"room"`, `"artwork"`, `"status"`, `"pending"`,
`"verdict"`) for one exhibition and artwork; the step itself stays the same. `Walls`
in `Placement` maps `late` to `overtaken`, so a rule is lifted exactly where a
request in flight was overtaken on it. The protocol promises nothing where the code
promises nothing: `Label` lets the artist or a sale set any of the statuses they may
write at any time, since those writes are not conditional on what was read, and
`Hang` does not repeat `addArtwork`'s refusal of ARCHIVED and SOLD artworks, which
may be stale by the insert.

An exhibition without a maximum is one whose `cap` is at least the number of
artworks. The curator and artist checks (`assertOwnership`) depend on columns that
never change and are satisfied by the actors of the model.

### Properties and runs

Any two requests may overlap in every run. The code has no lock and no conditional
update here, so two placements of one artwork *can* hang it twice
(`exhibitions.service.ts:326` means to rule that out), two placements can take the
last place together, a late status change can revive an ended exhibition, and so on.
Each property therefore is an action property that says exactly which overtaken
request breaks its rule, and how far.

| run | what it asks |
|---|---|
| `placement_walls` | two artworks, one exhibition that may be removed, maximum 1 or 2: `TypeOK`, `WithinCap`, `EndedIsTerminal`, `InExhibitionHangs` (only a `removeArtwork` overtaken by a status change puts the tables out of step; the artist, sales and every other overlap do not), `WallsRefined` (the handlers implement `WallProtocol`) |
| `placement_tickets` | one artwork, two exhibitions, two removal requests: `OnePlacement`, `OnePendingTicket`, `VerdictStands`, `ApprovalTakesDown` (no exception: the transaction is whole whoever overlaps), and `WallsRefined` again, whose `Ask`, `Refuse` and `Grant` only happen here |
| `placement_archived` | `ArchivedHangsNowhere` is refuted |
| `placement_stuck` | a single request slot: `NotStuck` is refuted |

**Bounds.** Two exhibitions are what a double placement needs, two artworks what a
maximum of one needs to be reached and exceeded, and two removal requests on one
place are what a duplicate needs. Two requests in flight are enough for one to
overtake the other. Publishing treats each artwork of an exhibition alike and
artworks share no row but the exhibition's, so a third adds nothing. `Removable`
bounds which exhibitions `remove()` is called for: soft removal is checked in
`placement_walls`, and left out of `placement_tickets`, where the two exhibitions
make the state space large (590 000 and 1.7 million states). Nothing is counted, so
no other bound is needed. The symmetry permutes artworks, exhibitions, removal
requests and slots, none of which a property names; there is no liveness to check.
Deadlock is checked in every run.

`InExhibitionHangs` is deliberately about the status ACTIVE only: an exhibition that
was removed while ACTIVE and whose artworks went back to LISTED keeps that status,
and what a removed exhibition should do to it is the subject of `NotStuck`.

### Proofs (`PlacementProofs.tla`)

For every set of artworks, exhibitions, removal requests and slots, from
`PlacementAssumption` and `NoneAssumption` (`None` is no status), for any overlap and
with requests dying at any statement.

| theorem | states | rests on |
|---|---|---|
| `TypeCorrect` | `TypeOK` | `Typed` |
| `HangsOnce` | `OnePlacement` | `Knows` |
| `CapHolds` | `WithinCap` | `Knows`, `WallsFinite` |
| `EndedStaysEnded` | `EndedIsTerminal` | `Knows` |
| `InExhibitionIsHung` | `InExhibitionHangs` | `Knows` |
| `OnePending` | `OnePendingTicket` | `Knows` |
| `VerdictIsFinal` | `VerdictStands` | `Knows` |
| `ApprovalIsWhole` | `ApprovalTakesDown` | `TicketsFit` |
| `HandlersImplementWalls` | `WallsRefined` | all of them |

`Typed` adds to `TypeOK` what each label says of its job (a placement names an
exhibition and an artwork) and that links, removal requests and requests in flight
only name exhibitions that exist. `TicketsFit` says that a decision in flight is
about the place its removal request names and that nobody else stores a removal
request that is being stored, `WallsFinite` that walls hold finitely many artworks. `Knows(r)` is the heart
of it: whatever request `r` has read is still true at its next statement *unless* `r`
is in `overtaken` for it: a status change is still allowed, the status and the
maximum read at the start still stand, a counted place is still free, the artwork to
be placed still hangs nowhere, no request for the place is pending, the removal
request to be decided is still PENDING. It is inductive because each write that
could falsify it puts the pair into `overtaken` in the same step; that the pairs
recorded are no more than these writes is what makes the properties say something.
None of this is assumed of `Artwork.status`, which artist, curators and the sale
write: `InExhibitionHangs` holds because no handler of the artist writes
IN_EXHIBITION and the transactions move it together with the exhibition and the
link. `Cardinality` enters twice, in `WithinCap` and in the guard of `Hang`, and both
need only that an inserted link adds one.

In the refinement proof every writing statement is one action of `WallProtocol`, the
lifted rules taken from `overtaken`, and everything else leaves the walls alone.

## 5. Gateway

### Correspondence

`rooms` and `watchers` are the two Socket.IO rooms of each exhibition as sets of
pairs, `data` is `client.data.exhibitionId`, `shown` the count each client was last
sent. A handler in flight is a slot with a label; the labels are the awaits.

| model | code |
|---|---|
| `StartJoin`, `JoinPrevious`, `JoinLeft`, `JoinEnter`, `JoinData`, `JoinInsert` | `handleJoin`, from await to await; `JoinPrevious` and `JoinLeft` are `leaveRoom` inside it |
| `JoinInsertFails` | the visit event cannot be stored: the exception skips the broadcast |
| `StartLeave`, `LeaveLeft` | `handleLeave` |
| `StartWatch`, `WatchCount`, `Unwatch` | `handleWatch`, `handleUnwatch` |
| `Disconnect` | Socket.IO empties the socket's rooms, then `handleDisconnect` broadcasts |
| `Broadcast`, `LocalSize` | `broadcastCount`: the size of the room *in this process*, sent to all sockets within reach |
| `Linked`, `ReachOf` | which processes reached Redis at boot (`RedisIoAdapter`), and so which sockets an emit reaches |

Left out: whether the exhibition is ACTIVE (its status may change at any time, so
any join may pass the check) and the visit events themselves. Connecting, the
rooms and the order of messages to one client are Socket.IO's and are modelled
from how the gateway uses them. A join of a socket that has disconnected enters
no room.

A client may send any event at any time, also while its last one is being handled,
and a socket's handlers then overlap. `overtaken` (history) holds the handlers whose
`client.data` another handler of the same socket has written since they read or
wrote it; `owed` (history) the entries and departures that the socket's process has
broadcast no count after.

### Properties and runs

| run | what it asks |
|---|---|
| `gateway_rooms` | one process: `TypeOK`, `OneRoom` (a socket's room and `client.data` come apart only by a step of an overtaken handler), `CountTrue` (once the handlers are done everybody has been shown the true number, up to `owed`) |
| `gateway_instances` | two linked processes: `CountShared` is refuted, see Findings |

`OneRoom` names what the code permits against its own comment
(`exhibition.gateway.ts:86`, "A socket only ever represents one visitor in one
exhibition at a time"): two joins of one socket that both read that it was in no room
enter both, and the socket stays counted in a room that `client.data` does not name
until it disconnects. Its departure is then broadcast to the other room only, which
is why `owed` holds departures as well as entries whose insert failed. `CountTrue` is about
any number of processes: the number shown is that of *a* process whose broadcasts
reach the client, which with one process is everybody's.

**Bounds.** Two sockets and two exhibitions: both clients visit e1, s2 watches it as
well, and s1 also visits e2, so a switch is seen by another visitor, and two handlers
overlap for one socket or for both. `Visits` and `Watches` bound which client joins
and watches what; 2 million states remain, and 5 million for the same question on
two processes, which was checked once and is not a run. Socket ids are never
reused, so a client that reconnects is another socket, and a run ends when all are
gone: `CHECK_DEADLOCK FALSE`. The symmetry permutes the slots, which no property
names; the run with two processes uses none.

### Proofs (`GatewayProofs.tla`)

From `GatewayAssumption` (the sockets are finitely many and `None` is no socket,
exhibition or count), for every value of the constants, any number of processes,
linked or not, and clients that send anything at any time:

* `TypeCorrect`: `Spec => []TypeOK`.
* `RoomIsOne`: `Spec => OneRoom`. The invariant `Rooms` is `Typed` with `SocketsFit`
  (what each label of a handler says of its socket) and `DataKnown`: unless it was
  overtaken, a handler's view of `client.data` is what `client.data` says.
* `CountIsTrue`: `Spec => []CountTrue`. While handlers run, the count a client was
  last sent need not be the number of visitors. `CountsFit` says that it is the size
  of a set of sockets of one process that differs from that process's visitors only
  in sockets whose coming or going a handler is about to broadcast or nobody
  broadcast (`owed`), unless the client is itself about to be told. When all handlers
  have ended only `owed` is left, which is `CountTrue`.

## 6. Accounts

### Correspondence

`member` holds role and organization of a `User` row, `codes` the
`VerificationCode` rows in the order of `createdAt`, `tokens` the claims that were
signed. A token is never revoked and is modelled as valid for ever. `stale`
(history) holds the requests in flight whose user's row changed since they read it.

| model | code |
|---|---|
| `StartRequestCode`, `CodeConsume`, `CodeInsert` | `requestCode`: upsert the user, consume the usable codes, insert a new one |
| `StartVerify`, `VerifyFind`, `VerifyExhaust`, `VerifyCount`, `VerifyConsume`, `VerifySign` | `verifyCode`: the user, the newest code, then one of its four ends |
| `Expire` | `expiresAt` goes by |
| `CreateOrganization`, `AddAdmin`, `AddMyArtist` | one upsert each; the latter for a curator whose token says so (`ActsFor`: `RolesGuard` and `requireOrg`) |
| `RemoveAdmin`, `RemoveMyArtist`, `RemoveWrite` | `removeFromOrganization`: check, then update by id |
| `Abort` | a request that dies |

A guess matches or does not (`VerifyFind(r, matches)`); the code's digits, hashing
and mail are left out.

### Properties and runs

The run `accounts` assumes nothing about overlap. Its properties say what overlap
can cost: `peak[u]` remembers how many code requests and verifications of a user
were ever in flight together, so that `peak[u] = 1` is a user who takes turns.

* `NewestOnly`: as many usable codes as requests overlapped; one for a user who
  takes turns.
* `OneTokenPerCode`: likewise for the tokens a code buys, since two verifications
  may read the same unconsumed code.
* `GuessesBounded`: a code survives `MAX_ATTEMPTS` wrong guesses plus one for each
  that overlapped, and one for each that died before it was counted.
* `AdminHasOrg`: in every row *and every token* a curator (ADMIN in the documents,
  GALLERY_ADMIN in the code) has an organization that exists
  (`organizations.controller.ts:83`, `exhibitions.service.ts:39`), and a visitor or
  superadmin has none (`schema.prisma:99`), though a token may outlive a membership.
* `ActsOnTheRow`: a token is signed with what its user's row says, and a removal ends
  the membership it was asked to end and no other. Only a `stale` request does
  otherwise: it signs a role that has been taken away, or, writing by id, takes a
  membership that was given since.

The same comment, `schema.prisma:98`, says that an ARTIST never has an organization
either. The code does the contrary: `setArtistForOrganization`
(`users.service.ts:49`) gives a SELLER one, `removeFromOrganization` takes it back,
and the model's `AddMyArtist` does as the code does. `AdminHasOrg` therefore says
nothing of artists.

**Bounds.** One user (rows of different users are independent, and codes are found
by user), one organization, two requests, two codes, two wrong guesses and one
death (2.3 million states); `MaxCodes` ends a behaviour, hence `CHECK_DEADLOCK
FALSE`. With one organization a user can still be removed and given the membership
again while another removal is in flight, which is the lost update of
`users.service.ts:64`. The user may be a superadmin at the start, a row no endpoint
makes; the superadmin who creates organizations is another one, always signed in.

### Proofs (`AccountsProofs.tla`)

All six properties are proved for every value of the constants, from
`AccountsAssumption` (`None` is no user or organization, the bounds are naturals,
the slots are finitely many) and `NoneAssumption` (`None` is no record of claims):

* `TypeCorrect`: `Typed` adds `JobsOK`, what each label says of its job (a
  verification past its first query has a code of its own user), and `PeakOK`, that
  the requests in flight do not exceed `peak`. That the newest of some codes exists
  is `LargestExists`, from the well-foundedness of `<` on the naturals.
* `RolesAgree` (`AdminHasOrg`): `ClaimsIInv` says the same of the claims a
  verification carries from the row it read to the token it signs.
* `RowsRespected` (`ActsOnTheRow`): `RowRelied` says that what a request has read of
  its user's row is still what the row says, unless the request is `stale`.
* `NewestCodeOnly` (`NewestOnly`): `UsableOK` counts a code about to be inserted like
  one in use. It holds because the step that prepares an insert has just consumed
  every code before it.
* `TokensPerCode` (`OneTokenPerCode`): `BoughtOK` counts the verifications that will
  still buy, and says that no code already sold can be found unconsumed; the buyers
  of the first sale were all in flight together.
* `GuessesPerCode` (`GuessesBounded`): `GuessedOK` says that a wrong guess is
  counted, on its way to be, or lost with its request.

The last three argue about cardinalities; `StepsOfOne` (a step changes the label of
one request only) reduces each to whether that request enters or leaves the set.

## 7. Templates

### Correspondence

`flat` are the color and texture columns (one of each stands for three), `theme`
and `shape` the JSON columns, `scene` is `Exhibition.exhibitionTemplateId`, and
`hung` the room shapes whose walls the `positionData` of an exhibition's artworks
name. An update in flight is `job[r]`: what it has merged from the row it read.

| model | code |
|---|---|
| `Create`, `DeriveTheme` | template `create()`, `deriveTheme()` |
| `StartUpdate`, `UpdateWrite` | `update()`: row and usage count in one read, then the write; a column left `undefined` is not written |
| `CreateExhibition`, `UpdateExhibition`, `Point` | exhibition `create()` and `update()` with `resolveTemplateId()` |
| `Hang`, `Rehang`, `TakeDown` | the artwork links, as far as walls go |

`Hang` and `Rehang` store whatever `positionData` the client sends, as `addArtwork`
and `updateArtworkLink` do: a wall of any shape, whatever room the exhibition has by
then. No two shapes share a wall, which is the worst case for `WallsStay`.

### Properties and runs

The run `templates` assumes nothing about overlap or about the walls clients name;
history variables name the exceptions. `ThemeInStep`: the theme's colors always equal
the columns; its textures do unless two updates of the template overlapped (`mixed`),
because a texture absent from a stale row is left out of the theme and not written to
the column (`exhibition-templates.service.ts:98` says the two never drift).
`WallsStay`, a property of steps: an artwork that hangs on a wall of its room
(`InView`) stays on one until it is moved, taken down, or the curator gives the
exhibition another scene, which `update()` permits. The wall goes under it only by
the write of an update whose look for exhibitions came before this one took the
template (`taken`), the one window the usage check of
`exhibition-templates.service.ts:62` leaves. Artworks hung on walls the room does not
have are out of view from the start and not its subject.

**Bounds.** Two templates (to switch between), one exhibition, two updates in
flight, two colors, a texture or none, two shapes. Several exhibitions of one
template only enter as "there is one".

### Proofs (`TemplatesProofs.tla`)

`TypeCorrect`, `ThemeFollows` (`ThemeInStep`) and `WallsKept` (`WallsStay`) are
proved for every value of the constants, from `TemplatesAssumption` and
`NoneAssumption` (`None` and "none" differ from every value they are told apart
from). The invariants add what an update in flight may still rely on: its template
exists; unless another update was in flight with it (`AloneOrMixed`), the row still
has no texture if the merged look has none (`TextureFresh`); if it is to change the
shape, every exhibition that uses the template by now has taken it since the look
(`ShapeFresh`). `StepKeepsWalls` draws `WallsStay` from the last: only an update that
changes the shape moves a wall, and it moves those of `taken` exhibitions only.

## 8. Notifications

### Correspondence

| model | code |
|---|---|
| `Raise` | a caller has stored its event (`OffersService.create`, `setArtistDecision`, removal request `create`) |
| `ReadRecipients` | `getOrgAdminUserIds`, then `createForMany` starts all inserts |
| `Insert`, `InsertFails`, `Push` | `create()`: one insert per recipient, then `emitToUser` |
| `Abort` | the process stops: what was not inserted or pushed stays undone |
| `Connect`, `JoinUserRoom`, `Disconnect` | `handleConnection`: token verified, room joined; lost connections |
| `Fetch`, `MarkRead`, `MarkAllRead` | `findMine`, `markRead`, `markAllRead` |
| `ChangeAdmins` | memberships change (module `Accounts`) |

A push reaches the sockets that are in the user's room at that moment and is kept
for nobody. `stamp` is `createdAt`: rows are counted as they are inserted, no two
alike (rows of one millisecond, whose order the database chooses, are not modelled).
`Recent` is what `findMine` returns, the newest `RecentLimit` rows of the user (50 in
the code). `asOf` (history) is how many rows were stored when a client last fetched
after it joined its room. The decision on a removal request is told to one user,
which is `create()` alone.

### Properties and runs

The run `notifications` checks `ShownIsStored` (a client is never told of a row
it could not mark read), `NothingMissed` (a client that fetches *after* it joined
the room misses nothing that was stored but what `RecentLimit` newer rows hid from
that fetch, unless the process stopped; in the other order it may miss a push), and,
under fairness, `EveryoneIsTold` (the party and everyone who was an admin at the
event and stays one gets a row, whichever other inserts fail). `MarkAllRead` marks
every row of the user, also the hidden ones, as the code does; no property objects.

**Fairness.** `WF_vars(ReadRecipients(n))` and `WF_vars(Deliver(d))`: a live
process continues what it has started and the database answers. Clients owe
nothing. A delivery once enabled stays enabled until it is taken or the process
stops, so weak fairness is enough.

**Bounds.** One event with a party, two users of which either may be an admin, one
tab each. A user who is both party and admin is told twice, as in the code, and
`RecentLimit = 1` makes the second row hide the first, so the limit binds (410 000
states). A second event was checked once for one user and one client (1.2 million
states).

### Proofs (`NotificationsProofs.tla`)

`TypeCorrect`, `OnlyStoredIsShown` (`ShownIsStored`) and `JoinThenFetch`
(`NothingMissed`) are proved for every value of the constants, the limit among them,
from `NotificationsAssumption`. `IInv` adds `FreshJoined` (a client counts as fresh
only while it is in its room, which is why a push after its fetch reaches it),
`OneInsert` (no row is inserted twice and none before its caller sent it) and
`Counted` (no more rows were stored at a fetch than are now, so a later row is newer
than all the fetch could show, and hides nothing from it).

## 9. Findings

Disagreements between the code and its own comments, each with a run in which TLC
finds the violation:

1. `AtMostOneSale` (`offers_double_sale`): a `reject` that read PENDING writes
   REJECTED over ACCEPTED after the buyer's `pay` read ACCEPTED; a second offer is
   accepted and the first is then recorded as paid. `offers.service.ts:36` and
   `:270` say this cannot happen.
2. `ArchivedHangsNowhere` (`placement_archived`): `archive` and `addArtwork`
   overlap and an ARCHIVED artwork has a live link, against
   `artworks.service.ts:234`.
3. `NotStuck` (`placement_stuck`): a removed draft can be published, which marks
   its artworks IN_EXHIBITION in a show nobody can see, against
   `exhibitions.service.ts:278`. No overlap is needed.
4. `CountShared` (`gateway_instances`): each process counts its own sockets and
   sends that number to the sockets of all, so two visitors on two processes are
   both told 1, against `redis-io.adapter.ts:9`. No overlap is needed.

The first two are one pattern, a check and a write by id in separate statements, and
so is everything the history variables excuse: a second placement, a maximum
exceeded, an ended exhibition revived, a verdict or decision overwritten, a socket in
a room its data does not name. The theorems bound the pattern: it takes two requests
that overlap on the very row, and the damage is the one write of the overtaken
request. A conditional update (`updateMany` with the expected status in `where`)
would remove the exceptions. Section 6 names a further disagreement, of
`schema.prisma:98` with `setArtistForOrganization`, that has no run of its own.

## 10. Not modelled

* Commission and discount floor: arithmetic on floats that only fills columns or
  decides whether `create` goes on. A faithful model would have to be one of IEEE
  rounding.
* Visit events and statistics (`recordArtworkView`, `getStatsForOwner`,
  `getStatsForArtist`): rows are appended under a unique key and counted.
* Artist profiles, files, mail, health and the bootstrap code, which keep no
  protocol of their own; the list queries; the validation of inputs (DTOs).
* The contents of payloads, positions and scenes, beyond what section 7 says.

Liveness, and with it `EveryRequestEnds`, `PartiesAreTold` and `EveryoneIsTold`, is
model-checked only: it is out of the prover's reach. Everything else that the
passing runs check is also proved.

## 11. Running

    tlc -config OffersOverlap.cfg MCOffers.tla
    tlc -config PlacementWalls.cfg MCPlacement.tla
    tlc -config GatewayRooms.cfg MCGateway.tla
    tlapm OffersProofs.tla
    tlapm OffersSaleProofs.tla
    tlapm PlacementProofs.tla
    tlapm GatewayProofs.tla

and likewise `tlapm` for `AccountsProofs`, `TemplatesProofs` and
`NotificationsProofs`.

The modules use the standard modules Naturals, Sequences, FiniteSets and TLC, and the
proof modules TLAPS and the theorem libraries that come with it. Operators marked "fault" are single plausible
mistakes in the code, each the counterpart of the definition after it: replacing
that definition by the fault breaks the property `PROJECT.json` names for it,
which shows that the property depends on the code.
