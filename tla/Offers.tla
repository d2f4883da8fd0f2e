------------------------------- MODULE Offers -------------------------------
(***************************************************************************)
(* OffersService (offers/offers.service.ts) with PaymentService as its     *)
(* escrow provider: every handler that changes an offer, one action per    *)
(* awaited database statement or provider call.                            *)
(*                                                                         *)
(* The API is a set of Node processes over one PostgreSQL database, at its *)
(* default isolation READ COMMITTED.  Between two awaits of a handler any  *)
(* step of any other request may happen, so a request is a program counter *)
(* pc[r] that names its next statement; what it read earlier is known only *)
(* through the fact that it got there.  Most handlers read the offer,      *)
(* check its status in memory and then update the row BY ID, whatever its  *)
(* status is by then.                                                      *)
(*                                                                         *)
(* A request whose check fails ends without a write, so a failed check of  *)
(* a first statement is no step at all.  Storing the notifications of an   *)
(* offer, the read of its recipients and one insert for each, is a single  *)
(* step here, as nothing an offer depends on is read or written by it;     *)
(* Notifications takes it apart.                                           *)
(***************************************************************************)
EXTENDS Naturals, FiniteSets

CONSTANTS
    Offers,      \* offer ids; a row exists once its status is not "none"
    Artworks,
    Users,
    Requests,    \* slots for requests in flight, over all API processes
    NoOffer,     \* the target of an idle slot
    ArtworkOf,   \* Offer.artworkId, fixed when the row is inserted
    BuyerOf,     \* Offer.buyerId, fixed likewise
    SellerOf,    \* the user behind the artwork's artist profile
    MayOverlap,  \* TRUE: two requests on one offer may be in flight together, as
                 \* the code allows; FALSE bounds a run to one request per offer
    MaxAborts,   \* bound on requests that die between two statements
    MaxCalls     \* bound on provider calls of one kind per offer

ASSUME OffersAssumption ==
    /\ IsFiniteSet(Requests)
    /\ NoOffer \notin Offers
    /\ ArtworkOf \in [Offers -> Artworks]
    /\ BuyerOf \in [Offers -> Users]
    /\ SellerOf \in [Artworks -> Users]
    /\ MayOverlap \in BOOLEAN
    /\ MaxAborts \in Nat
    /\ MaxCalls \in Nat

VARIABLES
    status,     \* Offer.status, "none" before the row exists
    decision,   \* Offer.artistDecision
    txn,        \* Transaction.status of the offer's only transaction row
    shelf,      \* Artwork.status, as far as offers tell the values apart
    holds,      \* holdFunds calls that reached the provider, per offer
    payouts,    \* releaseFunds calls that reached the provider, per offer
    announced,  \* offers whose OFFER_CREATED notifications are stored
    answered,   \* offers whose OFFER_DECISION notifications are stored
    pc,         \* the statement each request will execute next
    target,     \* the offer each request is about
    aborts,     \* requests that died in flight
    contested,  \* history: artworks with an offer on which requests of two
                \* different handlers were ever in flight together
    peak        \* history: how many requests of one handler on an offer were
                \* ever in flight together, 1 at least

rows == <<status, decision, txn, shelf>>
provider == <<holds, payouts>>
notices == <<announced, answered>>
history == <<contested, peak>>
vars == <<status, decision, txn, shelf, holds, payouts,
          announced, answered, pc, target, aborts, contested, peak>>

OfferStatus == {"PENDING", "ACCEPTED", "REJECTED", "CANCELLED",
                "PAYMENT_HELD", "DELIVERED", "RELEASED"}

ArtistDecision == {"APPROVED", "REJECTED"}

\* LISTED and IN_EXHIBITION are "shown", DRAFT and ARCHIVED "hidden".
Shelf == {"shown", "hidden", "sold"}

Labels ==
    {"idle", "create.reserved", "create.approved", "create.insert",
     "create.notify", "decide.write", "decide.notify", "reject.write",
     "cancel.write", "accept.lock", "accept.check", "accept.commit",
     "pay.hold", "pay.commit", "deliver.write", "release.read",
     "release.payout", "release.commit"}

AllowedTransitions ==
    [s \in OfferStatus |->
        CASE s = "PENDING"      -> {"ACCEPTED", "REJECTED", "CANCELLED"}
          [] s = "ACCEPTED"     -> {"PAYMENT_HELD"}
          [] s = "PAYMENT_HELD" -> {"DELIVERED"}
          [] s = "DELIVERED"    -> {"RELEASED"}
          [] OTHER              -> {}]

Reserving == {"ACCEPTED", "PAYMENT_HELD", "DELIVERED", "RELEASED"}

OffersOn(a) == {o \in Offers : ArtworkOf[o] = a}

\* The two queries of create() and accept() on an artwork's offers.
Reserved(a) == \E o \in OffersOn(a) : status[o] \in Reserving
Approved(a) == \E o \in OffersOn(a) : decision[o] = "APPROVED"

\* The row lock of accept()'s SELECT ... FOR UPDATE, held from that statement
\* to the end of the transaction.
Locked(a) ==
    \E r \in Requests :
        /\ pc[r] \in {"accept.check", "accept.commit"}
        /\ ArtworkOf[target[r]] = a

\* The handler a request is in until its last write to the offer.
HandlerOf ==
    [l \in Labels |->
        CASE l = "decide.write"                                       -> "decide"
          [] l = "reject.write"                                       -> "reject"
          [] l = "cancel.write"                                       -> "cancel"
          [] l \in {"accept.lock", "accept.check", "accept.commit"}   -> "accept"
          [] l \in {"pay.hold", "pay.commit"}                         -> "pay"
          [] l = "deliver.write"                                      -> "deliver"
          [] l \in {"release.read", "release.payout", "release.commit"} -> "release"
          [] OTHER                                                    -> "other"]

SaleHandlers == {"reject", "cancel", "accept", "pay", "deliver", "release"}

\* The handlers of which peak counts the requests in flight together.
Counted == {"decide", "pay", "release"}

Working(o, h) == {r \in Requests : target[r] = o /\ HandlerOf[pc[r]] = h}

-----------------------------------------------------------------------------
(* The life of a request.                                                  *)

At(r, label) == pc[r] = label

Goto(r, label) ==
    /\ pc' = [pc EXCEPT ![r] = label]
    /\ UNCHANGED <<target, aborts, history>>

End(r) ==
    /\ pc' = [pc EXCEPT ![r] = "idle"]
    /\ target' = [target EXCEPT ![r] = NoOffer]
    /\ UNCHANGED <<aborts, history>>

Busy(o) == \E r \in Requests : target[r] = o

\* A request of handler h on o is about to join those in flight.
Meet(o, h) ==
    /\ contested' = IF /\ h \in SaleHandlers
                       /\ \E g \in SaleHandlers \ {h} : Working(o, g) # {}
                    THEN contested \cup {ArtworkOf[o]}
                    ELSE contested
    /\ peak' = [k \in Offers \X Counted |->
                   IF k = <<o, h>> /\ Cardinality(Working(o, h)) >= peak[k]
                   THEN Cardinality(Working(o, h)) + 1
                   ELSE peak[k]]

\* Nothing in the code keeps two requests on one offer apart.
Begin(r, o, label) ==
    /\ At(r, "idle")
    /\ MayOverlap \/ ~Busy(o)
    /\ pc' = [pc EXCEPT ![r] = label]
    /\ target' = [target EXCEPT ![r] = o]
    /\ Meet(o, HandlerOf[label])
    /\ UNCHANGED <<rows, provider, notices, aborts>>

Seller(o) == SellerOf[ArtworkOf[o]]

\* getWithParticipants, then the participant check and assertTransition.
AssertSeller(o, u) == status[o] # "none" /\ u = Seller(o)
AssertBuyer(o, u) == status[o] # "none" /\ u = BuyerOf[o]
AssertTransition(o, next) ==
    status[o] \in OfferStatus /\ next \in AllowedTransitions[status[o]]

\* offer.update({where: {id}, data: {status}}): by id, no check of the row
\* it overwrites.
SetStatus(o, s) == status' = [status EXCEPT ![o] = s]

-----------------------------------------------------------------------------
(* create(): read the artwork, read its reserving offers, read its approved *)
(* offers, insert, notify.  The amount is one the artwork's discount limit  *)
(* allows: a lower one ends the request.  The id o is fresh.                *)

StartCreate(r, o, u) ==
    /\ status[o] = "none" /\ ~Busy(o)
    /\ u = BuyerOf[o]
    /\ shelf[ArtworkOf[o]] = "shown"
    /\ u # Seller(o)
    /\ Begin(r, o, "create.reserved")

CreateReadReserved(r) ==
    /\ At(r, "create.reserved")
    /\ IF Reserved(ArtworkOf[target[r]])
       THEN End(r)
       ELSE Goto(r, "create.approved")
    /\ UNCHANGED <<rows, provider, notices>>

CreateReadApproved(r) ==
    /\ At(r, "create.approved")
    /\ IF Approved(ArtworkOf[target[r]])
       THEN End(r)
       ELSE Goto(r, "create.insert")
    /\ UNCHANGED <<rows, provider, notices>>

\* fault: the notifications are forgotten
CreateInsertSilent(r) ==
    /\ At(r, "create.insert")
    /\ ~Locked(ArtworkOf[target[r]])
    /\ SetStatus(target[r], "PENDING")
    /\ End(r)
    /\ UNCHANGED <<decision, txn, shelf, provider, notices>>

\* The foreign key check of the insert takes a key-share lock on the artwork
\* row, so it waits while an accept holds that row FOR UPDATE.
CreateInsert(r) ==
    /\ At(r, "create.insert")
    /\ ~Locked(ArtworkOf[target[r]])
    /\ SetStatus(target[r], "PENDING")
    /\ Goto(r, "create.notify")
    /\ UNCHANGED <<decision, txn, shelf, provider, notices>>

CreateNotify(r) ==
    /\ At(r, "create.notify")
    /\ announced' = announced \cup {target[r]}
    /\ End(r)
    /\ UNCHANGED <<rows, provider, answered>>

-----------------------------------------------------------------------------
(* setArtistDecision(): one-time per the check of the row read first.       *)

\* fault: the recorded decision is not looked at
StartDecideAgain(r, o, u) ==
    /\ AssertSeller(o, u)
    /\ status[o] = "PENDING"
    /\ Begin(r, o, "decide.write")

StartDecide(r, o, u) ==
    /\ AssertSeller(o, u)
    /\ decision[o] = "none"
    /\ status[o] = "PENDING"
    /\ Begin(r, o, "decide.write")

\* fault: the decision is written to the status column
DecideIntoStatus(r, d) ==
    /\ At(r, "decide.write")
    /\ SetStatus(target[r], d)
    /\ Goto(r, "decide.notify")
    /\ UNCHANGED <<decision, txn, shelf, provider, notices>>

DecideWrite(r, d) ==
    /\ At(r, "decide.write")
    /\ decision' = [decision EXCEPT ![target[r]] = d]
    /\ Goto(r, "decide.notify")
    /\ UNCHANGED <<status, txn, shelf, provider, notices>>

DecideNotify(r) ==
    /\ At(r, "decide.notify")
    /\ answered' = answered \cup {target[r]}
    /\ End(r)
    /\ UNCHANGED <<rows, provider, announced>>

-----------------------------------------------------------------------------
(* reject() by the seller, cancel() by the buyer, markDelivered() by the    *)
(* seller: read and check, then update by id.                               *)

StartReject(r, o, u) ==
    /\ AssertSeller(o, u)
    /\ AssertTransition(o, "REJECTED")
    /\ Begin(r, o, "reject.write")

StartCancel(r, o, u) ==
    /\ AssertBuyer(o, u)
    /\ AssertTransition(o, "CANCELLED")
    /\ Begin(r, o, "cancel.write")

\* fault: delivery may be marked before the payment is held
StartDeliverEarly(r, o, u) ==
    /\ AssertSeller(o, u)
    /\ AssertTransition(o, "DELIVERED") \/ status[o] = "ACCEPTED"
    /\ Begin(r, o, "deliver.write")

StartDeliver(r, o, u) ==
    /\ AssertSeller(o, u)
    /\ AssertTransition(o, "DELIVERED")
    /\ Begin(r, o, "deliver.write")

Write(r, label, s) ==
    /\ At(r, label)
    /\ SetStatus(target[r], s)
    /\ End(r)
    /\ UNCHANGED <<decision, txn, shelf, provider, notices>>

RejectWrite(r) == Write(r, "reject.write", "REJECTED")
CancelWrite(r) == Write(r, "cancel.write", "CANCELLED")
DeliverWrite(r) == Write(r, "deliver.write", "DELIVERED")

-----------------------------------------------------------------------------
(* accept(): one database transaction.  Its own writes show when it commits. *)

StartAccept(r, o, u) ==
    /\ AssertSeller(o, u)
    /\ AssertTransition(o, "ACCEPTED")
    /\ Begin(r, o, "accept.lock")

\* fault: the artwork row is read without FOR UPDATE
AcceptNoLock(r) ==
    /\ At(r, "accept.lock")
    /\ Goto(r, "accept.check")
    /\ UNCHANGED <<rows, provider, notices>>

AcceptLock(r) ==
    /\ At(r, "accept.lock")
    /\ ~Locked(ArtworkOf[target[r]])
    /\ Goto(r, "accept.check")
    /\ UNCHANGED <<rows, provider, notices>>

\* fault: the transaction stays open, with its lock, when the check fails
AcceptCheckHangs(r) ==
    /\ At(r, "accept.check")
    /\ ~Reserved(ArtworkOf[target[r]])
    /\ Goto(r, "accept.commit")
    /\ UNCHANGED <<rows, provider, notices>>

\* fault: only offers in state ACCEPTED count as reserving
AcceptCheckAcceptedOnly(r) ==
    /\ At(r, "accept.check")
    /\ IF \E o \in OffersOn(ArtworkOf[target[r]]) : status[o] = "ACCEPTED"
       THEN End(r)
       ELSE Goto(r, "accept.commit")
    /\ UNCHANGED <<rows, provider, notices>>

\* A reserving offer, this one included, rolls the transaction back.
AcceptCheck(r) ==
    /\ At(r, "accept.check")
    /\ IF Reserved(ArtworkOf[target[r]])
       THEN End(r)
       ELSE Goto(r, "accept.commit")
    /\ UNCHANGED <<rows, provider, notices>>

\* fault: the other offers are left open
AcceptCommitAlone(r) ==
    /\ At(r, "accept.commit")
    /\ SetStatus(target[r], "ACCEPTED")
    /\ End(r)
    /\ UNCHANGED <<decision, txn, shelf, provider, notices>>

\* The offer is updated by id; the other PENDING offers on the artwork are
\* cancelled.  Row locks make the two updates one step for everybody else.
AcceptCommit(r) ==
    /\ At(r, "accept.commit")
    /\ LET o == target[r] IN
       status' = [p \in Offers |->
                    IF p = o THEN "ACCEPTED"
                    ELSE IF p \in OffersOn(ArtworkOf[o]) /\ status[p] = "PENDING"
                         THEN "CANCELLED"
                    ELSE status[p]]
    /\ End(r)
    /\ UNCHANGED <<decision, txn, shelf, provider, notices>>

-----------------------------------------------------------------------------
(* pay() by the buyer: read and check, holdFunds at the provider, then one   *)
(* database transaction.                                                     *)

StartPay(r, o, u) ==
    /\ AssertBuyer(o, u)
    /\ AssertTransition(o, "PAYMENT_HELD")
    /\ Begin(r, o, "pay.hold")

PayHold(r) ==
    /\ At(r, "pay.hold")
    /\ holds[target[r]] < MaxCalls
    /\ holds' = [holds EXCEPT ![target[r]] = @ + 1]
    /\ Goto(r, "pay.commit")
    /\ UNCHANGED <<rows, payouts, notices>>

\* fault: the transaction row is inserted without the offer update, so the
\* buyer is asked to pay again
PayCommitHalf(r) ==
    /\ At(r, "pay.commit")
    /\ txn' = [txn EXCEPT ![target[r]] = "HELD"]
    /\ End(r)
    /\ UNCHANGED <<status, decision, shelf, provider, notices>>

\* Transaction.offerId is unique: a second row for the offer aborts the
\* database transaction, and the offer keeps its status.
PayCommit(r) ==
    /\ At(r, "pay.commit")
    /\ IF txn[target[r]] = "none"
       THEN /\ txn' = [txn EXCEPT ![target[r]] = "HELD"]
            /\ SetStatus(target[r], "PAYMENT_HELD")
       ELSE UNCHANGED <<txn, status>>
    /\ End(r)
    /\ UNCHANGED <<decision, shelf, provider, notices>>

-----------------------------------------------------------------------------
(* release() by the seller: read and check the offer, read its transaction   *)
(* row, releaseFunds at the provider, then one database transaction.         *)

StartRelease(r, o, u) ==
    /\ AssertSeller(o, u)
    /\ AssertTransition(o, "RELEASED")
    /\ Begin(r, o, "release.read")

\* Only the existence of the row is checked, not that it is still HELD.
\* pay() always stores a providerRef.
ReleaseRead(r) ==
    /\ At(r, "release.read")
    /\ IF txn[target[r]] = "none"
       THEN End(r)
       ELSE Goto(r, "release.payout")
    /\ UNCHANGED <<rows, provider, notices>>

ReleasePayout(r) ==
    /\ At(r, "release.payout")
    /\ payouts[target[r]] < MaxCalls
    /\ payouts' = [payouts EXCEPT ![target[r]] = @ + 1]
    /\ Goto(r, "release.commit")
    /\ UNCHANGED <<rows, holds, notices>>

\* fault: the artwork is marked sold but the transaction row is not closed
ReleaseCommitKeepsTxn(r) ==
    /\ At(r, "release.commit")
    /\ ~Locked(ArtworkOf[target[r]])
    /\ shelf' = [shelf EXCEPT ![ArtworkOf[target[r]]] = "sold"]
    /\ SetStatus(target[r], "RELEASED")
    /\ End(r)
    /\ UNCHANGED <<decision, txn, provider, notices>>

ReleaseCommit(r) ==
    /\ At(r, "release.commit")
    /\ ~Locked(ArtworkOf[target[r]])
    /\ txn' = [txn EXCEPT ![target[r]] = "RELEASED"]
    /\ shelf' = [shelf EXCEPT ![ArtworkOf[target[r]]] = "sold"]
    /\ SetStatus(target[r], "RELEASED")
    /\ End(r)
    /\ UNCHANGED <<decision, provider, notices>>

-----------------------------------------------------------------------------
(* What happens around the handlers.                                         *)

\* A request dies between two statements: its process stops, the database
\* connection is lost, or the 5 s limit of an interactive transaction passes.
\* What it committed stays; an open transaction is rolled back.
Abort(r) ==
    /\ ~At(r, "idle")
    /\ aborts < MaxAborts
    /\ aborts' = aborts + 1
    /\ pc' = [pc EXCEPT ![r] = "idle"]
    /\ target' = [target EXCEPT ![r] = NoOffer]
    /\ UNCHANGED <<rows, provider, notices, history>>

\* Every other writer of Artwork.status (setStatus, archive, unarchive,
\* archiveForRemoval and the exhibitions): none of them writes SOLD, and a
\* late one may overwrite it.
Reshelve(a, s) ==
    /\ ~Locked(a)
    /\ shelf' = [shelf EXCEPT ![a] = s]
    /\ UNCHANGED <<status, decision, txn, provider, notices, pc, target, aborts, history>>

Init ==
    /\ status = [o \in Offers |-> "none"]
    /\ decision = [o \in Offers |-> "none"]
    /\ txn = [o \in Offers |-> "none"]
    /\ shelf \in [Artworks -> {"shown", "hidden"}]
    /\ holds = [o \in Offers |-> 0]
    /\ payouts = [o \in Offers |-> 0]
    /\ announced = {}
    /\ answered = {}
    /\ pc = [r \in Requests |-> "idle"]
    /\ target = [r \in Requests |-> NoOffer]
    /\ aborts = 0
    /\ contested = {}
    /\ peak = [k \in Offers \X Counted |-> 1]

\* A user sends a request: the first statement of a handler.
Start(r) ==
    \E o \in Offers, u \in Users :
        \/ StartCreate(r, o, u)
        \/ StartDecide(r, o, u)
        \/ StartReject(r, o, u)
        \/ StartCancel(r, o, u)
        \/ StartAccept(r, o, u)
        \/ StartPay(r, o, u)
        \/ StartDeliver(r, o, u)
        \/ StartRelease(r, o, u)

\* A request in flight executes its next statement.
Continue(r) ==
    \/ CreateReadReserved(r) \/ CreateReadApproved(r)
    \/ CreateInsert(r) \/ CreateNotify(r)
    \/ \E d \in ArtistDecision : DecideWrite(r, d)
    \/ DecideNotify(r)
    \/ RejectWrite(r) \/ CancelWrite(r) \/ DeliverWrite(r)
    \/ AcceptLock(r) \/ AcceptCheck(r) \/ AcceptCommit(r)
    \/ PayHold(r) \/ PayCommit(r)
    \/ ReleaseRead(r) \/ ReleasePayout(r) \/ ReleaseCommit(r)

Next ==
    \/ \E r \in Requests : Start(r) \/ Continue(r) \/ Abort(r)
    \/ \E a \in Artworks, s \in {"shown", "hidden"} : Reshelve(a, s)

Spec == Init /\ [][Next]_vars

\* Node and the database keep executing a request that is in flight, and
\* PostgreSQL grants a row lock to its waiters in turn, so a statement that
\* waits for a row again and again is executed in the end.
Fairness == \A r \in Requests : SF_vars(Continue(r))

FairSpec == Spec /\ Fairness

-----------------------------------------------------------------------------
(* Properties of every interleaving.                                         *)

\* Every variable has its type, and a slot points at an offer exactly while a
\* request occupies it.
TypeOK ==
    /\ status \in [Offers -> OfferStatus \cup {"none"}]
    /\ decision \in [Offers -> ArtistDecision \cup {"none"}]
    /\ txn \in [Offers -> {"none", "HELD", "RELEASED"}]
    /\ shelf \in [Artworks -> Shelf]
    /\ holds \in [Offers -> Nat] /\ payouts \in [Offers -> Nat]
    /\ announced \subseteq Offers /\ answered \subseteq Offers
    /\ pc \in [Requests -> Labels]
    /\ target \in [Requests -> Offers \cup {NoOffer}]
    /\ \A r \in Requests : pc[r] = "idle" <=> target[r] = NoOffer
    /\ aborts \in Nat
    /\ contested \subseteq Artworks
    /\ peak \in [Offers \X Counted -> Nat]

\* The race accept() takes its row lock for: however requests interleave, two
\* offers on one artwork are never in state ACCEPTED together.
OneAccepted ==
    \A o, p \in Offers :
        status[o] = "ACCEPTED" /\ status[p] = "ACCEPTED"
            /\ ArtworkOf[o] = ArtworkOf[p] => o = p

\* The transaction rows never claim what the provider did not do, and an
\* offer's status never runs ahead of its transaction row: pay() holds before
\* it records, release() pays out before it records, even when late writes
\* have moved the status elsewhere in between.
Ledger ==
    \A o \in Offers :
        /\ txn[o] # "none" => holds[o] > 0
        /\ payouts[o] > 0 => txn[o] # "none"
        /\ txn[o] = "RELEASED" => payouts[o] > 0
        /\ status[o] \in {"PAYMENT_HELD", "DELIVERED", "RELEASED"} => txn[o] # "none"
        /\ status[o] = "RELEASED" => txn[o] = "RELEASED"

\* An artwork shows SOLD only if a buyer's money for it was released.
SoldIsPaid ==
    \A a \in Artworks :
        shelf[a] = "sold" => \E o \in OffersOn(a) : txn[o] = "RELEASED"

\* No request waits for ever: not on the row lock of an accept that was
\* refused or died, and not on another waiter.
EveryRequestEnds == \A r \in Requests : ~At(r, "idle") ~> At(r, "idle")

\* The artist and the gallery hear of every offer that was stored, and the
\* buyer of every decision, unless the request died between the write and the
\* notifications: nothing repeats them then.
PartiesAreTold ==
    \A o \in Offers :
        /\ status[o] # "none" ~> (o \in announced \/ aborts > 0)
        /\ decision[o] # "none" ~> (o \in answered \/ aborts > 0)

-----------------------------------------------------------------------------
(* What overlapping requests can cost.  Two requests of one handler on one    *)
(* offer (a double click) never endanger the sale; two of different handlers  *)
(* (the artist rejects what the buyer is paying for) do, on that artwork.     *)

\* No artwork is sold twice: once an offer is accepted no other one on the
\* artwork is accepted, paid, delivered or released.
AtMostOneSale ==
    \A o, p \in Offers :
        status[o] \in Reserving /\ status[p] \in Reserving
            /\ ArtworkOf[o] = ArtworkOf[p] => o = p

\* An artwork is sold twice only after requests of two different handlers were
\* in flight together on one of its offers: acceptances of rival offers, double
\* clicks, and requests that die never do it.
SoldOnce ==
    \A o, p \in Offers :
        /\ status[o] \in Reserving /\ status[p] \in Reserving
        /\ ArtworkOf[o] = ArtworkOf[p] /\ ArtworkOf[o] \notin contested
        => o = p

\* A buyer is charged for an offer at most as often as payments of it were in
\* flight together, so once if the buyer waits, and once more for each request
\* that died; likewise for what the seller is paid.
ChargedOnce ==
    \A o \in Offers :
        ArtworkOf[o] \notin contested =>
            /\ holds[o] <= peak[<<o, "pay">>] + aborts
            /\ payouts[o] <= peak[<<o, "release">>] + aborts

\* The artist's decision is recorded once and locks, unless two decisions on
\* the offer were in flight together.
DecisionFinal ==
    [][\A o \in Offers :
        decision[o] # "none" /\ peak[<<o, "decide">>] = 1 => decision'[o] = decision[o]]_vars

\* The handlers implement the sale protocol on every artwork whose offers are
\* not contested: REJECTED and CANCELLED are both its stage "closed", and its
\* escrow is the transaction row.
StageOf ==
    [s \in OfferStatus \cup {"none"} |->
        CASE s = "none"         -> "none"
          [] s = "PENDING"      -> "open"
          [] s = "ACCEPTED"     -> "accepted"
          [] s = "PAYMENT_HELD" -> "paid"
          [] s = "DELIVERED"    -> "delivered"
          [] s = "RELEASED"     -> "released"
          [] OTHER              -> "closed"]

EscrowOf == [none |-> "empty", HELD |-> "held", RELEASED |-> "released"]

Sale == INSTANCE SaleProtocol WITH
    stage <- [o \in Offers |-> StageOf[status[o]]],
    escrow <- [o \in Offers |-> EscrowOf[txn[o]]]

SaleRefined == Sale!SaleSpec

=============================================================================
