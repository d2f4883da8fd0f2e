-------------------------- MODULE OffersSaleProofs --------------------------
(***************************************************************************)
(* Machine-checked proofs about the sale that Offers implements: no        *)
(* artwork is sold twice, the decision locks, the buyer is charged once,   *)
(* the handlers implement SaleProtocol.  Any requests may be in flight     *)
(* together and any of them may die; what overlap costs is in the          *)
(* statements, by way of the history variables contested and peak.         *)
(***************************************************************************)
EXTENDS OffersProofs

\* Two requests in flight on an offer of a calm artwork are of one handler.
Calm(o) == ArtworkOf[o] \notin contested

Selling(r) == HandlerOf[pc[r]] \in SaleHandlers

OneHandler ==
    \A r, q \in Requests :
        /\ target[r] = target[q] /\ Selling(r) /\ Selling(q) /\ Calm(target[r])
        => HandlerOf[pc[r]] = HandlerOf[pc[q]]

\* Until its row is inserted an offer is known to the request that creates it.
Creating(r) == pc[r] \in {"create.reserved", "create.approved", "create.insert"}

CreateAlone ==
    \A r \in Requests :
        Creating(r) =>
            /\ status[target[r]] = "none"
            /\ \A q \in Requests : target[q] = target[r] => q = r

\* No more requests of a handler are in flight than the history says.
PeakOK ==
    \A o \in Offers, h \in Counted :
        peak[<<o, h>>] >= 1 /\ Cardinality(Working(o, h)) <= peak[<<o, h>>]

\* The statuses that a handler may find when it writes: the one it read, the one
\* it writes, and the cancellation by another offer's acceptance.
Finds ==
    [h \in SaleHandlers |->
        CASE h = "reject"  -> {"PENDING", "CANCELLED", "REJECTED"}
          [] h = "cancel"  -> {"PENDING", "CANCELLED"}
          [] h = "accept"  -> {"PENDING", "CANCELLED", "ACCEPTED"}
          [] h = "pay"     -> {"ACCEPTED", "PAYMENT_HELD"}
          [] h = "deliver" -> {"PAYMENT_HELD", "DELIVERED"}
          [] h = "release" -> {"DELIVERED", "RELEASED"}]

Snapshot ==
    \A r \in Requests :
        Selling(r) /\ Calm(target[r]) => status[target[r]] \in Finds[HandlerOf[pc[r]]]

Accepting(r) == pc[r] \in {"accept.lock", "accept.check", "accept.commit"}

\* An accept() whose offer is no longer open finds the reserving offer that
\* closed it, and past its check an accept() has the artwork free.
AcceptClear ==
    \A r \in Requests :
        Accepting(r) /\ Calm(target[r]) =>
            /\ status[target[r]] # "PENDING" => Reserved(ArtworkOf[target[r]])
            /\ pc[r] = "accept.commit" => ~Reserved(ArtworkOf[target[r]])

EscrowInStep ==
    \A o \in Offers :
        Calm(o) =>
            /\ txn[o] = "HELD" <=> status[o] \in {"PAYMENT_HELD", "DELIVERED"}
            /\ txn[o] = "RELEASED" <=> status[o] = "RELEASED"

SaleInv ==
    /\ LockInv /\ OneHandler /\ CreateAlone /\ Snapshot
    /\ AcceptClear /\ SoldOnce /\ EscrowInStep

(***************************************************************************)
(* Requests in flight on one offer.                                        *)
(***************************************************************************)

LEMMA HandlerFacts ==
  /\ HandlerOf["idle"] = "other"
  /\ HandlerOf["create.reserved"] = "other" /\ HandlerOf["create.approved"] = "other"
  /\ HandlerOf["create.insert"] = "other" /\ HandlerOf["create.notify"] = "other"
  /\ HandlerOf["decide.write"] = "decide" /\ HandlerOf["decide.notify"] = "other"
  /\ HandlerOf["reject.write"] = "reject" /\ HandlerOf["cancel.write"] = "cancel"
  /\ HandlerOf["accept.lock"] = "accept" /\ HandlerOf["accept.check"] = "accept"
  /\ HandlerOf["accept.commit"] = "accept"
  /\ HandlerOf["pay.hold"] = "pay" /\ HandlerOf["pay.commit"] = "pay"
  /\ HandlerOf["deliver.write"] = "deliver"
  /\ HandlerOf["release.read"] = "release" /\ HandlerOf["release.payout"] = "release"
  /\ HandlerOf["release.commit"] = "release"
  BY DEF HandlerOf, Labels

LEMMA FindsFacts ==
  /\ Finds["reject"] = {"PENDING", "CANCELLED", "REJECTED"}
  /\ Finds["cancel"] = {"PENDING", "CANCELLED"}
  /\ Finds["accept"] = {"PENDING", "CANCELLED", "ACCEPTED"}
  /\ Finds["pay"] = {"ACCEPTED", "PAYMENT_HELD"}
  /\ Finds["deliver"] = {"PAYMENT_HELD", "DELIVERED"}
  /\ Finds["release"] = {"DELIVERED", "RELEASED"}
  BY DEF Finds, SaleHandlers

\* What a handler has read of its offer when its request begins.
Reads(o, label) ==
    \/ label = "create.reserved" /\ status[o] = "none" /\ ~Busy(o)
    \/ /\ label \in {"decide.write", "reject.write", "cancel.write", "accept.lock"}
       /\ status[o] = "PENDING"
    \/ label = "pay.hold" /\ status[o] = "ACCEPTED"
    \/ label = "deliver.write" /\ status[o] = "PAYMENT_HELD"
    \/ label = "release.read" /\ status[o] = "DELIVERED"

LEMMA StartBegins ==
  ASSUME NEW r \in Requests, Start(r)
  PROVE  \E o \in Offers, label \in Labels :
            /\ Begin(r, o, label) /\ Reads(o, label)
            /\ label = "decide.write" => decision[o] = "none"
  BY DEF Start, StartCreate, StartDecide, StartReject, StartCancel, StartAccept,
         StartPay, StartDeliver, StartRelease, AssertTransition, AllowedTransitions,
         OfferStatus, Reads, Labels

\* How a step of r moves its own slot on: to idle or the notifications, or to the
\* handler's next label while its offer's row keeps its status.
LEMMA ContinueSlot ==
  ASSUME TypeOK, NEW r \in Requests, Continue(r)
  PROVE  /\ \A q \in Requests \ {r} : pc'[q] = pc[q] /\ target'[q] = target[q]
         /\ \/ pc'[r] \in {"idle", "create.notify", "decide.notify"}
            \/ /\ UNCHANGED <<status, target>>
               /\ <<pc[r], pc'[r]>> \in
                    {<<"create.reserved", "create.approved">>,
                     <<"create.approved", "create.insert">>,
                     <<"accept.lock", "accept.check">>,
                     <<"accept.check", "accept.commit">>,
                     <<"pay.hold", "pay.commit">>,
                     <<"release.read", "release.payout">>,
                     <<"release.payout", "release.commit">>}
               /\ pc'[r] = "accept.commit" => ~Reserved(ArtworkOf[target[r]])
  <1> USE DEF At, Goto, End, TypeOK
  <1>1. CASE CreateReadReserved(r) \/ CreateReadApproved(r) \/ CreateInsert(r)
    BY <1>1 DEF CreateReadReserved, CreateReadApproved, CreateInsert, rows
  <1>2. CASE CreateNotify(r) \/ DecideNotify(r) \/ \E d \in ArtistDecision : DecideWrite(r, d)
    BY <1>2 DEF CreateNotify, DecideNotify, DecideWrite
  <1>3. CASE RejectWrite(r) \/ CancelWrite(r) \/ DeliverWrite(r)
    BY <1>3 DEF RejectWrite, CancelWrite, DeliverWrite, Write
  <1>4. CASE AcceptLock(r) \/ AcceptCheck(r) \/ AcceptCommit(r)
    BY <1>4 DEF AcceptLock, AcceptCheck, AcceptCommit, rows
  <1>5. CASE PayHold(r) \/ PayCommit(r)
    BY <1>5 DEF PayHold, PayCommit, rows
  <1>6. CASE ReleaseRead(r) \/ ReleasePayout(r) \/ ReleaseCommit(r)
    BY <1>6 DEF ReleaseRead, ReleasePayout, ReleaseCommit, rows
  <1> QED
    BY <1>1, <1>2, <1>3, <1>4, <1>5, <1>6 DEF Continue

\* A request that is still in flight after a step was in it before, in the same
\* handler and on the same offer, unless the step began it.
Remain(r) ==
    \A q \in Requests :
        /\ q # r => pc'[q] = pc[q] /\ target'[q] = target[q]
        /\ pc'[q] \notin {"idle", "create.notify", "decide.notify"} =>
              /\ target'[q] = target[q] /\ target[q] \in Offers
              /\ HandlerOf[pc'[q]] = HandlerOf[pc[q]]
              /\ Creating(q)' => Creating(q)
        /\ target'[q] = target[q] \/ target'[q] = NoOffer

LEMMA ContinueRemain ==
  ASSUME TypeOK, NEW r \in Requests, Continue(r)
  PROVE  Remain(r)
  <1>1. target'[r] = target[r] \/ target'[r] = NoOffer
    BY DEF TypeOK, Continue, CreateReadReserved, CreateReadApproved, CreateInsert,
           CreateNotify, DecideWrite, DecideNotify, RejectWrite, CancelWrite,
           DeliverWrite, Write, AcceptLock, AcceptCheck, AcceptCommit, PayHold,
           PayCommit, ReleaseRead, ReleasePayout, ReleaseCommit, Goto, End
  <1>2. pc'[r] \notin {"idle", "create.notify", "decide.notify"} =>
              /\ target'[r] = target[r] /\ target[r] \in Offers
              /\ HandlerOf[pc'[r]] = HandlerOf[pc[r]]
              /\ Creating(r)' => Creating(r)
    BY ContinueSlot, HandlerFacts DEF TypeOK, Creating
  <1>3. \A q \in Requests \ {r} : pc'[q] = pc[q] /\ target'[q] = target[q]
    BY ContinueSlot
  <1>4. \A q \in Requests \ {r} :
            pc'[q] # "idle" => target[q] \in Offers /\ (Creating(q)' => Creating(q))
    BY <1>3 DEF TypeOK, Creating
  <1> QED
    BY <1>1, <1>2, <1>3, <1>4 DEF Remain


(***************************************************************************)
(* What a step does to the statuses.                                       *)
(***************************************************************************)

\* Another offer is at most cancelled, by an acceptance on the same artwork.
OthersEffect(r) ==
    \A p \in Offers \ {target[r]} :
        \/ status'[p] = status[p]
        \/ /\ pc[r] = "accept.commit" /\ ArtworkOf[p] = ArtworkOf[target[r]]
           /\ status[p] = "PENDING" /\ status'[p] = "CANCELLED"

\* On a calm artwork r finds its own offer where its handler may find it and
\* leaves it there; the offer becomes reserving only by an acceptance.
OwnEffect(r) ==
    LET o == target[r] IN
    /\ Selling(r) => status'[o] \in Finds[HandlerOf[pc[r]]]
    /\ ~Selling(r) => status'[o] = status[o] \/ (Creating(r) /\ status'[o] = "PENDING")
    /\ status[o] \in Reserving => status'[o] \in Reserving
    /\ status'[o] \in Reserving => status[o] \in Reserving \/ pc[r] = "accept.commit"
    /\ pc[r] = "accept.commit" => status'[o] = "ACCEPTED"

LEMMA ContinueOthers ==
  ASSUME TypeOK, NEW r \in Requests, Continue(r)
  PROVE  OthersEffect(r) /\ target[r] \in Offers
  <1> USE DEF At
  <1>1. CASE \/ CreateReadReserved(r) \/ CreateReadApproved(r) \/ CreateNotify(r)
             \/ DecideNotify(r) \/ AcceptLock(r) \/ AcceptCheck(r) \/ PayHold(r)
             \/ ReleaseRead(r) \/ ReleasePayout(r)
    BY <1>1
    DEF CreateReadReserved, CreateReadApproved, CreateNotify, DecideNotify,
        AcceptLock, AcceptCheck, PayHold, ReleaseRead, ReleasePayout, rows, TypeOK,
        OthersEffect
  <1>2. CASE \E d \in ArtistDecision : DecideWrite(r, d)
    BY <1>2 DEF DecideWrite, TypeOK, OthersEffect
  <1>3. CASE \/ CreateInsert(r) \/ RejectWrite(r) \/ CancelWrite(r) \/ DeliverWrite(r)
             \/ PayCommit(r) \/ ReleaseCommit(r)
    BY <1>3
    DEF CreateInsert, RejectWrite, CancelWrite, DeliverWrite, Write, PayCommit,
        ReleaseCommit, SetStatus, TypeOK, OthersEffect
  <1>4. CASE AcceptCommit(r)
    <2>1. target[r] \in Offers /\ pc[r] = "accept.commit"
      BY <1>4 DEF AcceptCommit, TypeOK
    <2> QED
      BY <1>4, <2>1 DEF AcceptCommit, OffersOn, OthersEffect
  <1> QED
    BY <1>1, <1>2, <1>3, <1>4 DEF Continue

LEMMA ContinueOwn ==
  ASSUME TypeOK, Snapshot, CreateAlone, NEW r \in Requests, Continue(r), Calm(target[r])
  PROVE  OwnEffect(r)
  <1> USE DEF At
  <1>o. target[r] \in Offers
    BY ContinueOthers
  <1>s. Selling(r) => status[target[r]] \in Finds[HandlerOf[pc[r]]]
    BY DEF Snapshot
  <1>1. CASE \/ CreateReadReserved(r) \/ CreateReadApproved(r) \/ CreateNotify(r)
             \/ DecideNotify(r) \/ AcceptLock(r) \/ AcceptCheck(r) \/ PayHold(r)
             \/ ReleaseRead(r) \/ ReleasePayout(r)
             \/ \E d \in ArtistDecision : DecideWrite(r, d)
    <2>1. status' = status /\ pc[r] # "accept.commit"
      BY <1>1
      DEF CreateReadReserved, CreateReadApproved, CreateNotify, DecideNotify,
          AcceptLock, AcceptCheck, PayHold, ReleaseRead, ReleasePayout, DecideWrite, rows
    <2> QED
      BY <2>1, <1>s DEF OwnEffect
  <1>4. CASE CreateInsert(r)
    <2>1. pc[r] = "create.insert" /\ status[target[r]] = "none"
          /\ status'[target[r]] = "PENDING"
      BY <1>4, <1>o DEF CreateInsert, SetStatus, TypeOK, CreateAlone, Creating
    <2> QED
      BY <2>1, HandlerFacts DEF OwnEffect, Creating, Reserving, Selling, SaleHandlers
  <1>5. CASE RejectWrite(r) \/ CancelWrite(r) \/ DeliverWrite(r)
    BY <1>5, <1>o, <1>s, HandlerFacts, FindsFacts
    DEF RejectWrite, CancelWrite, DeliverWrite, Write, SetStatus, TypeOK, OwnEffect,
        Reserving, Selling, SaleHandlers
  <1>6. CASE AcceptCommit(r)
    <2>1. pc[r] = "accept.commit" /\ status'[target[r]] = "ACCEPTED"
      BY <1>6, <1>o DEF AcceptCommit
    <2> QED
      BY <2>1, HandlerFacts, FindsFacts DEF OwnEffect, Reserving, Selling, SaleHandlers
  <1>7. CASE PayCommit(r)
    BY <1>7, <1>o, <1>s, HandlerFacts, FindsFacts
    DEF PayCommit, SetStatus, TypeOK, OwnEffect, Reserving, Selling, SaleHandlers
  <1>8. CASE ReleaseCommit(r)
    BY <1>8, <1>o, <1>s, HandlerFacts, FindsFacts
    DEF ReleaseCommit, SetStatus, TypeOK, OwnEffect, Reserving, Selling, SaleHandlers
  <1> QED
    BY <1>1, <1>4, <1>5, <1>6, <1>7, <1>8 DEF Continue

(***************************************************************************)
(* SaleInv is inductive.                                                   *)
(***************************************************************************)

LEMMA SaleInvTyped == SaleInv => TypeOK
  BY DEF SaleInv, LockInv

LEMMA ContinueOneHandler ==
  ASSUME SaleInv, NEW r \in Requests, Continue(r)
  PROVE  OneHandler' /\ CreateAlone'
  <1> USE SaleInvTyped
  <1>1. Remain(r) /\ UNCHANGED history
    BY ContinueRemain, ContinueHistory
  <1>2. ASSUME NEW q \in Requests, Selling(q)'
        PROVE  /\ target'[q] = target[q]
               /\ HandlerOf[pc'[q]] = HandlerOf[pc[q]] /\ Selling(q)
    BY <1>1, <1>2, HandlerFacts DEF Remain, Selling, SaleHandlers
  <1>3. OneHandler'
    BY <1>1, <1>2 DEF OneHandler, SaleInv, Calm, history
  <1>4. ASSUME NEW q \in Requests, Creating(q)'
        PROVE  /\ status'[target'[q]] = "none"
               /\ \A p \in Requests : target'[p] = target'[q] => p = q
    <2>1. Creating(q) /\ target'[q] = target[q] /\ target[q] \in Offers
      BY <1>1, <1>4 DEF Remain, Creating
    <2>2. /\ status[target[q]] = "none"
          /\ \A p \in Requests : target[p] = target[q] => p = q
      BY <2>1 DEF SaleInv, CreateAlone
    <2>3. \A p \in Requests : target'[p] = target'[q] => p = q
      BY <1>1, <2>1, <2>2, OffersAssumption DEF Remain
    <2>4. status'[target[q]] = "none"
      <3>1. CASE q = r
        BY <3>1, <1>4, <2>2, ContinueSlot DEF Creating
      <3>2. CASE q # r
        BY <3>2, <2>1, <2>2, ContinueOthers DEF OthersEffect
      <3> QED
        BY <3>1, <3>2
    <2> QED
      BY <2>1, <2>3, <2>4
  <1> QED
    BY <1>3, <1>4 DEF CreateAlone

LEMMA ContinueSnapshot ==
  ASSUME SaleInv, NEW r \in Requests, Continue(r)
  PROVE  Snapshot'
  <1> USE SaleInvTyped
  <1>1. Remain(r) /\ UNCHANGED history
    BY ContinueRemain, ContinueHistory
  <1> SUFFICES ASSUME NEW q \in Requests, Selling(q)', Calm(target[q])
               PROVE  /\ target'[q] = target[q]
                      /\ status'[target[q]] \in Finds[HandlerOf[pc'[q]]]
    <2>1. \A q \in Requests : Selling(q)' => target'[q] = target[q]
      BY <1>1, HandlerFacts DEF Remain, Selling, SaleHandlers
    <2> QED
      BY <1>1, <2>1 DEF Snapshot, Calm, history
  <1>2. /\ target'[q] = target[q] /\ target[q] \in Offers
        /\ HandlerOf[pc'[q]] = HandlerOf[pc[q]] /\ Selling(q)
    BY <1>1, HandlerFacts DEF Remain, Selling, SaleHandlers
  <1> DEFINE h == HandlerOf[pc[q]]
  <1>3. status[target[q]] \in Finds[h]
    BY <1>2 DEF SaleInv, Snapshot
  <1>4. CASE target[r] # target[q]
    <2>1. \/ status'[target[q]] = status[target[q]]
          \/ status[target[q]] = "PENDING" /\ status'[target[q]] = "CANCELLED"
      BY <1>2, <1>4, ContinueOthers DEF OthersEffect
    <2>2. "PENDING" \in Finds[h] => "CANCELLED" \in Finds[h]
      BY <1>2, FindsFacts DEF Selling, SaleHandlers
    <2> QED
      BY <1>2, <1>3, <2>1, <2>2
  <1>5. CASE target[r] = target[q]
    <2>1. OwnEffect(r)
      BY <1>5, ContinueOwn DEF SaleInv
    <2>2. CASE Selling(r)
      <3>1. HandlerOf[pc[r]] = h
        BY <1>2, <1>5, <2>2 DEF SaleInv, OneHandler
      <3> QED
        BY <1>2, <1>5, <2>1, <2>2, <3>1 DEF OwnEffect
    <2>3. CASE ~Selling(r)
      <3>1. ~Creating(r)
        BY <1>2, <1>5, <2>3 DEF SaleInv, CreateAlone
      <3> QED
        BY <1>2, <1>3, <1>5, <2>1, <2>3, <3>1 DEF OwnEffect
    <2> QED
      BY <2>2, <2>3
  <1> QED
    BY <1>4, <1>5

\* A calm artwork that is reserved stays so, and becomes reserved only when an
\* acceptance on it commits.
LEMMA ContinueReserved ==
  ASSUME SaleInv, NEW r \in Requests, Continue(r),
         NEW a \in Artworks, a \notin contested
  PROVE  /\ Reserved(a) => Reserved(a)'
         /\ Reserved(a)' => Reserved(a) \/ (pc[r] = "accept.commit" /\ ArtworkOf[target[r]] = a)
  <1>1. OthersEffect(r) /\ target[r] \in Offers
    BY SaleInvTyped, ContinueOthers
  <1>2. ArtworkOf[target[r]] = a => OwnEffect(r)
    BY SaleInvTyped, ContinueOwn DEF SaleInv, Calm
  <1>3. ASSUME NEW p \in OffersOn(a)
        PROVE  /\ status[p] \in Reserving => status'[p] \in Reserving
               /\ status'[p] \in Reserving =>
                     status[p] \in Reserving \/ (p = target[r] /\ pc[r] = "accept.commit")
    BY <1>1, <1>2 DEF OthersEffect, OwnEffect, OffersOn, Reserving
  <1> QED
    BY <1>3 DEF Reserved, OffersOn

LEMMA ContinueAcceptClear ==
  ASSUME SaleInv, NEW r \in Requests, Continue(r)
  PROVE  AcceptClear'
  <1> USE SaleInvTyped
  <1>1. Remain(r) /\ UNCHANGED history
    BY ContinueRemain, ContinueHistory
  <1> SUFFICES ASSUME NEW q \in Requests, Accepting(q)', Calm(target[q]),
                      NEW a \in Artworks, a = ArtworkOf[target[q]]
               PROVE  /\ status'[target[q]] # "PENDING" => Reserved(a)'
                      /\ pc'[q] = "accept.commit" => ~Reserved(a)'
    <2>1. \A q \in Requests :
             Accepting(q)' => target'[q] = target[q] /\ ArtworkOf[target[q]] \in Artworks
      BY <1>1, OffersAssumption DEF Remain, Accepting
    <2> QED
      BY <1>1, <2>1 DEF AcceptClear, Calm, history, Reserved, OffersOn
  <1>2. /\ target'[q] = target[q] /\ target[q] \in Offers
        /\ HandlerOf[pc[q]] = "accept" /\ Selling(q) /\ Accepting(q)
    <2>1. target'[q] = target[q] /\ target[q] \in Offers /\ HandlerOf[pc'[q]] = HandlerOf[pc[q]]
      BY <1>1 DEF Remain, Accepting
    <2>2. HandlerOf[pc[q]] = "accept" /\ pc[q] \in Labels
      BY <2>1, HandlerFacts DEF Accepting, TypeOK
    <2>3. Accepting(q)
      BY <2>2, HandlerFacts DEF Accepting, Labels
    <2> QED
      BY <2>1, <2>2, <2>3 DEF Selling, SaleHandlers
  <1> DEFINE t == target[q]
  <1>a. a \notin contested
    BY DEF Calm
  <1>3. /\ status[t] # "PENDING" => Reserved(a)
        /\ pc[q] = "accept.commit" => ~Reserved(a)
    BY <1>2 DEF SaleInv, AcceptClear
  <1>4. CASE q = r
    <2>1. UNCHANGED <<status, target>>
      BY <1>4, ContinueSlot DEF Accepting
    <2>2. pc'[r] = "accept.commit" => ~Reserved(a)
      BY <1>4, <2>1, ContinueSlot DEF Accepting
    <2>3. Reserved(a)' <=> Reserved(a)
      BY <2>1 DEF Reserved
    <2> QED
      BY <1>2, <1>3, <1>4, <2>1, <2>2, <2>3
  <1>5. CASE q # r
    <2>0. pc'[q] = pc[q]
      BY <1>1, <1>5 DEF Remain
    <2>1. ASSUME status'[t] # "PENDING"
          PROVE  Reserved(a)'
      <3>1. CASE status[t] # "PENDING"
        BY <3>1, <1>a, <1>3, ContinueReserved
      <3>2. CASE status[t] = "PENDING" /\ target[r] # t
        \* The acceptance of r's offer closed it, and reserves the artwork.
        <4>1. pc[r] = "accept.commit" /\ ArtworkOf[target[r]] = a /\ target[r] \in Offers
          BY <2>1, <3>2, <1>2, ContinueOthers DEF OthersEffect
        <4>2. status'[target[r]] = "ACCEPTED"
          BY <4>1, <1>a, ContinueOwn DEF SaleInv, Calm, OwnEffect
        <4> QED
          BY <4>1, <4>2 DEF Reserved, OffersOn, Reserving
      <3>3. CASE status[t] = "PENDING" /\ target[r] = t
        \* r accepts the same offer, and has just committed.
        <4>1. OwnEffect(r)
          BY <3>3, <1>a, ContinueOwn DEF SaleInv, Calm
        <4>2. ~Creating(r)
          BY <3>3, <1>5 DEF SaleInv, CreateAlone
        <4>3. Selling(r)
          BY <2>1, <3>3, <4>1, <4>2 DEF OwnEffect
        <4>4. HandlerOf[pc[r]] = "accept"
          BY <3>3, <4>3, <1>2, <1>a DEF SaleInv, OneHandler, Calm
        <4>5. status'[t] \in {"CANCELLED", "ACCEPTED"}
          BY <2>1, <3>3, <4>1, <4>3, <4>4, FindsFacts DEF OwnEffect
        <4>6. AcceptCommit(r)
          BY <4>4, <4>5, <3>3, HandlerFacts
          DEF Continue, At, CreateReadReserved, CreateReadApproved, CreateInsert,
              CreateNotify, DecideWrite, DecideNotify, RejectWrite, CancelWrite,
              DeliverWrite, Write, AcceptLock, AcceptCheck, PayHold, PayCommit,
              ReleaseRead, ReleasePayout, ReleaseCommit, rows
        <4>7. pc[r] = "accept.commit"
          BY <4>6 DEF AcceptCommit, At
        <4>8. status'[t] = "ACCEPTED"
          BY <4>1, <4>7, <3>3 DEF OwnEffect
        <4> QED
          BY <4>8, <1>2 DEF Reserved, OffersOn, Reserving
      <3> QED
        BY <3>1, <3>2, <3>3
    <2>2. ASSUME pc[q] = "accept.commit"
          PROVE  ~Reserved(a)'
      <3>1. pc[r] = "accept.commit" => ArtworkOf[target[r]] # a
        BY <2>2, <1>5 DEF SaleInv, LockInv, LockHeldOnce, Holder
      <3> QED
        BY <2>2, <3>1, <1>a, <1>3, ContinueReserved
    <2> QED
      BY <1>2, <2>0, <2>1, <2>2
  <1> QED
    BY <1>4, <1>5

LEMMA ContinueSoldOnce ==
  ASSUME SaleInv, NEW r \in Requests, Continue(r)
  PROVE  SoldOnce'
  <1> SUFFICES ASSUME NEW o \in Offers, NEW p \in Offers,
                      status'[o] \in Reserving, status'[p] \in Reserving,
                      ArtworkOf[o] = ArtworkOf[p], ArtworkOf[o] \notin contested
               PROVE  o = p
    BY ContinueHistory DEF SoldOnce, history
  <1>1. OthersEffect(r) /\ target[r] \in Offers
    BY SaleInvTyped, ContinueOthers
  <1>2. ArtworkOf[target[r]] = ArtworkOf[o] => OwnEffect(r)
    BY SaleInvTyped, ContinueOwn DEF SaleInv, Calm
  <1>3. \A x \in {o, p} :
            status[x] \in Reserving \/ (x = target[r] /\ pc[r] = "accept.commit")
    BY <1>1, <1>2 DEF OthersEffect, OwnEffect, Reserving
  <1>4. CASE pc[r] = "accept.commit" /\ ArtworkOf[target[r]] = ArtworkOf[o]
    <2>1. ~Reserved(ArtworkOf[o])
      BY <1>4 DEF SaleInv, AcceptClear, Accepting, Calm
    <2> QED
      BY <1>3, <2>1 DEF Reserved, OffersOn
  <1>5. CASE ~(pc[r] = "accept.commit" /\ ArtworkOf[target[r]] = ArtworkOf[o])
    BY <1>3, <1>5 DEF SaleInv, SoldOnce
  <1> QED
    BY <1>4, <1>5

LEMMA ContinueEscrow ==
  ASSUME SaleInv, NEW r \in Requests, Continue(r)
  PROVE  EscrowInStep'
  <1> DEFINE o == target[r]
  <1> USE SaleInvTyped, HandlerFacts, FindsFacts DEF At, Selling, SaleHandlers
  <1>t. TypeOK /\ o \in Offers
    BY ContinueOthers
  <1>c. contested' = contested
    BY ContinueHistory DEF history
  <1>s. Selling(r) /\ Calm(o) => status[o] \in Finds[HandlerOf[pc[r]]]
    BY DEF SaleInv, Snapshot
  <1>e. \A p \in Offers :
           Calm(p) => /\ txn[p] = "HELD" <=> status[p] \in {"PAYMENT_HELD", "DELIVERED"}
                      /\ txn[p] = "RELEASED" <=> status[p] = "RELEASED"
    BY DEF SaleInv, EscrowInStep
  <1>1. CASE \/ CreateReadReserved(r) \/ CreateReadApproved(r) \/ CreateNotify(r)
             \/ DecideNotify(r) \/ AcceptLock(r) \/ AcceptCheck(r) \/ PayHold(r)
             \/ ReleaseRead(r) \/ ReleasePayout(r)
             \/ \E d \in ArtistDecision : DecideWrite(r, d)
    <2>1. UNCHANGED <<status, txn>>
      BY <1>1
      DEF CreateReadReserved, CreateReadApproved, CreateNotify, DecideNotify,
          AcceptLock, AcceptCheck, PayHold, ReleaseRead, ReleasePayout, DecideWrite, rows
    <2> QED
      BY <2>1, <1>c, <1>e DEF EscrowInStep, Calm
  <1>2. CASE CreateInsert(r)
    <2>1. status[o] = "none"
      BY <1>2 DEF CreateInsert, SaleInv, CreateAlone, Creating
    <2> QED
      BY <1>2, <2>1, <1>t, <1>c, <1>e DEF CreateInsert, SetStatus, TypeOK, EscrowInStep, Calm
  <1>3. CASE RejectWrite(r) \/ CancelWrite(r) \/ DeliverWrite(r)
    BY <1>3, <1>t, <1>c, <1>e, <1>s
    DEF RejectWrite, CancelWrite, DeliverWrite, Write, SetStatus, TypeOK, EscrowInStep, Calm
  <1>4. CASE AcceptCommit(r)
    <2>1. status'[o] = "ACCEPTED" /\ txn' = txn
      BY <1>4, <1>t DEF AcceptCommit
    <2>3. OthersEffect(r)
      BY ContinueOthers
    <2>2. Calm(o) => status[o] \in {"PENDING", "CANCELLED", "ACCEPTED"}
      BY <1>4, <1>s DEF AcceptCommit
    <2> QED
      BY <2>1, <2>2, <2>3, <1>t, <1>c, <1>e DEF OthersEffect, EscrowInStep, Calm
  <1>5. CASE PayCommit(r)
    BY <1>5, <1>t, <1>c, <1>e, <1>s DEF PayCommit, SetStatus, TypeOK, EscrowInStep, Calm
  <1>6. CASE ReleaseCommit(r)
    BY <1>6, <1>t, <1>c, <1>e, <1>s DEF ReleaseCommit, SetStatus, TypeOK, EscrowInStep, Calm
  <1> QED
    BY <1>1, <1>2, <1>3, <1>4, <1>5, <1>6 DEF Continue

\* A request begins: no row changes, the history records whom it meets.
LEMMA StartEffect ==
  ASSUME TypeOK, NEW r \in Requests, NEW o \in Offers, NEW label \in Labels,
         Begin(r, o, label)
  PROVE  /\ UNCHANGED <<rows, provider, notices, aborts>>
         /\ \A q \in Requests \ {r} : pc'[q] = pc[q] /\ target'[q] = target[q]
         /\ pc[r] = "idle" /\ pc'[r] = label /\ target'[r] = o
         /\ contested \subseteq contested'
         /\ \A q \in Requests :
               /\ target[q] = o /\ Selling(q) /\ HandlerOf[label] \in SaleHandlers
               /\ HandlerOf[pc[q]] # HandlerOf[label]
               => ArtworkOf[o] \in contested'
  BY DEF Begin, At, Meet, TypeOK, Working, Selling

LEMMA StartSale ==
  ASSUME SaleInv, NEW r \in Requests, Start(r), LockInv'
  PROVE  SaleInv'
  <1> USE SaleInvTyped
  <1>1. PICK o \in Offers, label \in Labels : Begin(r, o, label) /\ Reads(o, label)
    BY StartBegins
  <1>2. /\ UNCHANGED <<rows, provider, notices, aborts>>
        /\ \A q \in Requests \ {r} : pc'[q] = pc[q] /\ target'[q] = target[q]
        /\ pc[r] = "idle" /\ pc'[r] = label /\ target'[r] = o
        /\ contested \subseteq contested'
        /\ \A q \in Requests :
              /\ target[q] = o /\ Selling(q) /\ HandlerOf[label] \in SaleHandlers
              /\ HandlerOf[pc[q]] # HandlerOf[label]
              => ArtworkOf[o] \in contested'
    BY <1>1, StartEffect
  <1>3. OneHandler'
    BY <1>2 DEF SaleInv, OneHandler, Selling, Calm
  <1>4. CreateAlone'
    BY <1>1, <1>2 DEF SaleInv, CreateAlone, Creating, Reads, Busy, rows
  <1>5. Snapshot'
    BY <1>1, <1>2, HandlerFacts, FindsFacts
    DEF SaleInv, Snapshot, Selling, SaleHandlers, Calm, Reads, rows
  <1>6. AcceptClear'
    BY <1>1, <1>2
    DEF SaleInv, AcceptClear, Accepting, Calm, Reads, Reserved, OffersOn, rows
  <1>7. SoldOnce' /\ EscrowInStep'
    BY <1>2 DEF SaleInv, SoldOnce, EscrowInStep, Calm, rows
  <1> QED
    BY <1>3, <1>4, <1>5, <1>6, <1>7 DEF SaleInv

\* Steps that only drop a request, or leave requests and offers alone.
LEMMA OtherSale ==
  ASSUME SaleInv, LockInv', UNCHANGED <<status, txn, contested>>,
         \A q \in Requests :
            \/ pc'[q] = "idle" /\ target'[q] = NoOffer
            \/ pc'[q] = pc[q] /\ target'[q] = target[q]
  PROVE  SaleInv'
  <1> USE SaleInvTyped, HandlerFacts
  <1>1. OneHandler'
    BY DEF SaleInv, OneHandler, Selling, SaleHandlers, Calm
  <1>2. CreateAlone'
    BY OffersAssumption DEF SaleInv, CreateAlone, Creating, TypeOK
  <1>3. Snapshot'
    BY DEF SaleInv, Snapshot, Selling, SaleHandlers, Calm
  <1>4. AcceptClear'
    BY DEF SaleInv, AcceptClear, Accepting, Calm, Reserved, OffersOn
  <1>5. SoldOnce' /\ EscrowInStep'
    BY DEF SaleInv, SoldOnce, EscrowInStep, Calm
  <1> QED
    BY <1>1, <1>2, <1>3, <1>4, <1>5 DEF SaleInv

LEMMA AbortSlots ==
  ASSUME TypeOK, NEW r \in Requests, Abort(r)
  PROVE  /\ \A q \in Requests \ {r} : pc'[q] = pc[q] /\ target'[q] = target[q]
         /\ pc'[r] = "idle" /\ target'[r] = NoOffer
         /\ UNCHANGED <<rows, provider, notices, history>> /\ aborts' = aborts + 1
  BY DEF Abort, TypeOK

LEMMA SaleInductive == SaleInv /\ [Next]_vars => SaleInv'
  <1> SUFFICES ASSUME SaleInv, [Next]_vars
               PROVE  SaleInv'
    OBVIOUS
  <1>t. TypeOK /\ LockInv'
    BY LockInductive, SaleInvTyped DEF SaleInv
  <1>1. CASE \E r \in Requests : Start(r)
    BY <1>1, <1>t, StartSale
  <1>2. ASSUME NEW r \in Requests, Continue(r)
        PROVE  SaleInv'
    BY <1>2, <1>t, ContinueOneHandler, ContinueSnapshot, ContinueAcceptClear,
       ContinueSoldOnce, ContinueEscrow
    DEF SaleInv
  <1>3. CASE \E r \in Requests : Abort(r)
    BY <1>3, <1>t, AbortSlots, OtherSale DEF rows, history
  <1>4. CASE \E a \in Artworks, s \in {"shown", "hidden"} : Reshelve(a, s)
    BY <1>4, <1>t, OtherSale DEF Reshelve, history
  <1>5. CASE UNCHANGED vars
    BY <1>5, <1>t, OtherSale DEF vars
  <1> QED
    BY <1>1, <1>2, <1>3, <1>4, <1>5 DEF Next

LEMMA SaleInit == Init => SaleInv
  BY OffersAssumption, HandlerFacts
  DEF Init, SaleInv, LockInv, TypeOK, Shelf, Labels, LockHeldOnce, Holder,
      CommitClear, OneAccepted, OneHandler, CreateAlone, Creating, Selling,
      SaleHandlers, Snapshot, AcceptClear, Accepting, SoldOnce, Reserving, EscrowInStep

\* However requests interleave, overlap and die, an artwork on whose offers no
\* two different handlers ever overlapped is not sold twice.
THEOREM NoDoubleSale == Spec => []SoldOnce
  <1>1. SaleInv => SoldOnce
    BY DEF SaleInv
  <1> QED
    BY <1>1, SaleInit, SaleInductive, PTL DEF Spec

(***************************************************************************)
(* How many requests are in flight together.                               *)
(***************************************************************************)

\* When only r moves, a set of requests gains r, loses r, or stays.
LEMMA SetMove ==
  ASSUME NEW r \in Requests, NEW S \in SUBSET Requests, NEW T \in SUBSET Requests,
         \A q \in Requests \ {r} : q \in S <=> q \in T
  PROVE  /\ Cardinality(S) \in Nat /\ Cardinality(T) \in Nat
         /\ (r \in S <=> r \in T) => Cardinality(T) = Cardinality(S)
         /\ r \notin S /\ r \in T => Cardinality(T) = Cardinality(S) + 1
         /\ r \in S /\ r \notin T => Cardinality(S) = Cardinality(T) + 1
  <1>1. IsFiniteSet(S) /\ IsFiniteSet(T)
    BY OffersAssumption, FS_Subset
  <1>2. Cardinality(S) \in Nat /\ Cardinality(T) \in Nat
    BY <1>1, FS_CardinalityType
  <1>3. (r \in S <=> r \in T) => S = T
    OBVIOUS
  <1>4. r \notin S /\ r \in T => T = S \cup {r}
    OBVIOUS
  <1>5. r \in S /\ r \notin T => S = T \cup {r}
    OBVIOUS
  <1> QED
    BY <1>1, <1>2, <1>3, <1>4, <1>5, FS_AddElement

\* Two requests that are both at work are counted as two.
LEMMA Together ==
  ASSUME NEW o, NEW h, NEW r \in Working(o, h), NEW q \in Working(o, h), r # q
  PROVE  Cardinality(Working(o, h)) >= 2
  <1> DEFINE S == Working(o, h)
  <1>1. IsFiniteSet(S) /\ Cardinality(S) \in Nat
    BY WorkingCount
  <1>2. IsFiniteSet(S \ {r}) /\ Cardinality(S \ {r}) = Cardinality(S) - 1
    BY <1>1, FS_RemoveElement
  <1>3. S \ {r} # {}
    OBVIOUS
  <1>4. Cardinality(S \ {r}) # 0
    BY <1>2, <1>3, FS_EmptySet
  <1>5. Cardinality(S) # 0
    BY <1>1, <1>3, FS_EmptySet
  <1> QED
    BY <1>1, <1>2, <1>4, <1>5

LEMMA PeakStart ==
  ASSUME TypeOK, PeakOK, NEW r \in Requests, Start(r)
  PROVE  PeakOK' /\ \A k \in Offers \X Counted : peak'[k] >= peak[k]
  <1>1. PICK o \in Offers, label \in Labels : Begin(r, o, label)
    BY StartBegins
  <1>2. /\ \A q \in Requests \ {r} : pc'[q] = pc[q] /\ target'[q] = target[q]
        /\ pc[r] = "idle" /\ pc'[r] = label /\ target'[r] = o
    BY <1>1, StartEffect
  <1>3. peak' = [k \in Offers \X Counted |->
                   IF /\ k = <<o, HandlerOf[label]>>
                      /\ Cardinality(Working(o, HandlerOf[label])) >= peak[k]
                   THEN Cardinality(Working(o, HandlerOf[label])) + 1
                   ELSE peak[k]]
    BY <1>1 DEF Begin, Meet
  <1>4. ASSUME NEW p \in Offers, NEW h \in Counted
        PROVE  /\ peak'[<<p, h>>] >= peak[<<p, h>>] /\ peak'[<<p, h>>] >= 1
               /\ Cardinality(Working(p, h)') <= peak'[<<p, h>>]
    <2>0. peak[<<p, h>>] \in Nat /\ peak[<<p, h>>] >= 1
          /\ Cardinality(Working(p, h)) \in Nat
          /\ Cardinality(Working(p, h)) <= peak[<<p, h>>]
      BY WorkingCount DEF PeakOK, TypeOK
    <2>1. CASE p = o /\ h = HandlerOf[label]
      <3>1. Working(p, h)' = Working(p, h) \cup {r}
        BY <2>1, <1>2 DEF Working
      <3>2. r \notin Working(p, h)
        BY <2>1, <1>2, HandlerFacts DEF Working, Counted
      <3>3. Cardinality(Working(p, h)') = Cardinality(Working(p, h)) + 1
        BY <3>1, <3>2, WorkingCount, FS_AddElement
      <3>4. peak'[<<p, h>>] = IF Cardinality(Working(p, h)) >= peak[<<p, h>>]
                              THEN Cardinality(Working(p, h)) + 1 ELSE peak[<<p, h>>]
        BY <2>1, <1>3
      <3> QED
        BY <2>0, <3>3, <3>4
    <2>2. CASE ~(p = o /\ h = HandlerOf[label])
      <3>1. Working(p, h)' = Working(p, h)
        BY <2>2, <1>2, HandlerFacts DEF Working, Counted
      <3>2. peak'[<<p, h>>] = peak[<<p, h>>]
        BY <2>2, <1>3
      <3> QED
        BY <2>0, <3>1, <3>2
    <2> QED
      BY <2>1, <2>2
  <1> QED
    BY <1>4 DEF PeakOK

\* Fewer requests are in flight after a step that begins none.
LEMMA PeakShrink ==
  ASSUME TypeOK, PeakOK, UNCHANGED peak,
         \A o \in Offers, h \in Counted : Working(o, h)' \subseteq Working(o, h)
  PROVE  PeakOK'
  <1> SUFFICES ASSUME NEW o \in Offers, NEW h \in Counted
               PROVE  /\ peak[<<o, h>>] >= 1
                      /\ Cardinality(Working(o, h)') <= peak[<<o, h>>]
    BY DEF PeakOK
  <1>1. /\ peak[<<o, h>>] \in Nat /\ peak[<<o, h>>] >= 1
        /\ Cardinality(Working(o, h)) <= peak[<<o, h>>]
        /\ IsFiniteSet(Working(o, h)) /\ Cardinality(Working(o, h)) \in Nat
    BY WorkingCount DEF TypeOK, PeakOK
  <1>2. /\ IsFiniteSet(Working(o, h)')
        /\ Cardinality(Working(o, h)') <= Cardinality(Working(o, h))
    BY <1>1, FS_Subset
  <1>3. Cardinality(Working(o, h)') \in Nat
    BY <1>2, FS_CardinalityType
  <1> QED
    BY <1>1, <1>2, <1>3

LEMMA PeakInductive ==
  ASSUME TypeOK, PeakOK, [Next]_vars
  PROVE  PeakOK' /\ \A k \in Offers \X Counted : peak'[k] >= peak[k]
  <1>0. \A k \in Offers \X Counted : peak[k] \in Nat
    BY DEF TypeOK
  <1>1. CASE \E r \in Requests : Start(r)
    BY <1>1, PeakStart
  <1>2. ASSUME NEW r \in Requests, Continue(r)
        PROVE  PeakOK' /\ \A k \in Offers \X Counted : peak'[k] >= peak[k]
    <2>1. Remain(r) /\ peak' = peak
      BY <1>2, ContinueRemain, ContinueHistory DEF history
    <2>2. \A o \in Offers, h \in Counted : Working(o, h)' \subseteq Working(o, h)
      BY <2>1, HandlerFacts DEF Remain, Working, Counted
    <2> QED
      BY <2>1, <2>2, <1>0, PeakShrink
  <1>3. ASSUME NEW r \in Requests, Abort(r)
        PROVE  PeakOK' /\ \A k \in Offers \X Counted : peak'[k] >= peak[k]
    <2>1. peak' = peak
      BY <1>3, AbortSlots DEF history
    <2>2. \A o \in Offers, h \in Counted : Working(o, h)' \subseteq Working(o, h)
      BY <1>3, AbortSlots, HandlerFacts DEF Working, Counted
    <2> QED
      BY <2>1, <2>2, <1>0, PeakShrink
  <1>4. CASE \E a \in Artworks, s \in {"shown", "hidden"} : Reshelve(a, s)
    BY <1>4, <1>0 DEF Reshelve, history, PeakOK, Working
  <1>5. CASE UNCHANGED vars
    BY <1>5, <1>0 DEF vars, PeakOK, Working
  <1> QED
    BY <1>1, <1>2, <1>3, <1>4, <1>5 DEF Next

LEMMA PeakInit == Init => PeakOK
  <1> SUFFICES ASSUME Init, NEW o \in Offers, NEW h \in Counted
               PROVE  peak[<<o, h>>] >= 1 /\ Cardinality(Working(o, h)) <= peak[<<o, h>>]
    BY DEF PeakOK
  <1>1. Working(o, h) = {}
    BY HandlerFacts DEF Init, Working, Counted
  <1> QED
    BY <1>1, FS_EmptySet DEF Init

(***************************************************************************)
(* The artist's decision.                                                  *)
(***************************************************************************)

\* A request about to store the artist's decision finds none stored, if it never
\* had company.
Undecided ==
    \A r \in Requests :
        pc[r] = "decide.write" /\ peak[<<target[r], "decide">>] = 1
            => decision[target[r]] = "none"

DecisionInv == TypeOK /\ PeakOK /\ Undecided

DecisionKept ==
    \A o \in Offers :
        decision[o] # "none" /\ peak[<<o, "decide">>] = 1 => decision'[o] = decision[o]

\* The only step that writes a decision.
LEMMA DecisionUntouched ==
  ASSUME [Next]_vars, ~\E r \in Requests, d \in ArtistDecision : DecideWrite(r, d)
  PROVE  UNCHANGED decision
  BY StartRows
  DEF Next, vars, rows, Abort, Reshelve, Continue, CreateReadReserved,
      CreateReadApproved, CreateInsert, CreateNotify, DecideNotify, RejectWrite,
      CancelWrite, DeliverWrite, Write, AcceptLock, AcceptCheck, AcceptCommit,
      PayHold, PayCommit, ReleaseRead, ReleasePayout, ReleaseCommit

LEMMA DecisionStep ==
  ASSUME DecisionInv, [Next]_vars
  PROVE  DecisionKept
  <1>1. ASSUME NEW r \in Requests, NEW d \in ArtistDecision, DecideWrite(r, d)
        PROVE  DecisionKept
    BY <1>1 DEF DecideWrite, At, DecisionInv, TypeOK, Undecided, DecisionKept
  <1>2. CASE ~\E r \in Requests, d \in ArtistDecision : DecideWrite(r, d)
    BY <1>2, DecisionUntouched DEF DecisionKept
  <1> QED
    BY <1>1, <1>2

LEMMA UndecidedStart ==
  ASSUME DecisionInv, NEW r \in Requests, Start(r), PeakOK',
         \A k \in Offers \X Counted : peak'[k] >= peak[k]
  PROVE  Undecided'
  <1>1. PICK o \in Offers, label \in Labels :
          Begin(r, o, label) /\ (label = "decide.write" => decision[o] = "none")
    BY StartBegins
  <1>2. /\ UNCHANGED rows
        /\ \A q \in Requests \ {r} : pc'[q] = pc[q] /\ target'[q] = target[q]
        /\ pc'[r] = label /\ target'[r] = o
    BY <1>1, StartEffect DEF DecisionInv
  <1>3. \A p \in Offers : peak'[<<p, "decide">>] = 1 => peak[<<p, "decide">>] = 1
    <2> SUFFICES ASSUME NEW p \in Offers, peak'[<<p, "decide">>] = 1
                 PROVE  peak[<<p, "decide">>] = 1
      OBVIOUS
    <2>1. <<p, "decide">> \in Offers \X Counted
      BY DEF Counted
    <2>2. peak[<<p, "decide">>] \in Nat /\ peak[<<p, "decide">>] >= 1
      BY <2>1 DEF DecisionInv, PeakOK, TypeOK, Counted
    <2>3. peak'[<<p, "decide">>] >= peak[<<p, "decide">>]
      BY <2>1
    <2> QED
      BY <2>2, <2>3
  <1>4. \A q \in Requests : pc[q] = "decide.write" => target[q] \in Offers
    BY DEF DecisionInv, TypeOK
  <1> QED
    BY <1>1, <1>2, <1>3, <1>4 DEF DecisionInv, Undecided, rows

LEMMA UndecidedContinue ==
  ASSUME DecisionInv, NEW r \in Requests, Continue(r)
  PROVE  Undecided'
  <1>t. TypeOK /\ peak' = peak
    BY ContinueHistory DEF DecisionInv, history
  <1> SUFFICES ASSUME NEW q \in Requests, pc'[q] = "decide.write",
                      peak[<<target'[q], "decide">>] = 1
               PROVE  decision'[target'[q]] = "none"
    BY <1>t DEF Undecided
  <1>1. /\ q # r /\ pc[q] = "decide.write" /\ target'[q] = target[q]
        /\ target[q] \in Offers
    BY <1>t, ContinueSlot DEF TypeOK
  <1>2. decision[target[q]] = "none"
    BY <1>1 DEF DecisionInv, Undecided
  <1>3. ASSUME NEW d \in ArtistDecision, DecideWrite(r, d)
        PROVE  target[r] # target[q]
    <2>1. CASE target[r] = target[q]
      <3>1. r \in Working(target[q], "decide") /\ q \in Working(target[q], "decide")
        BY <1>1, <1>3, <2>1, HandlerFacts DEF DecideWrite, At, Working
      <3>2. Cardinality(Working(target[q], "decide")) >= 2
        BY <3>1, <1>1, Together
      <3>3. Cardinality(Working(target[q], "decide")) <= 1
        BY <1>1 DEF DecisionInv, PeakOK, Counted
      <3> QED
        BY <3>2, <3>3, WorkingCount
    <2> QED
      BY <2>1
  <1>4. CASE \E d \in ArtistDecision : DecideWrite(r, d)
    <2>1. PICK d \in ArtistDecision : DecideWrite(r, d)
      BY <1>4
    <2>2. target[r] # target[q]
      BY <2>1, <1>3
    <2> QED
      BY <1>1, <1>2, <2>1, <2>2, <1>t DEF DecideWrite, TypeOK
  <1>5. CASE ~\E d \in ArtistDecision : DecideWrite(r, d)
    <2>1. UNCHANGED decision
      BY <1>5
      DEF rows, Continue, CreateReadReserved, CreateReadApproved, CreateInsert,
          CreateNotify, DecideNotify, RejectWrite, CancelWrite, DeliverWrite, Write,
          AcceptLock, AcceptCheck, AcceptCommit, PayHold, PayCommit, ReleaseRead,
          ReleasePayout, ReleaseCommit
    <2> QED
      BY <2>1, <1>1, <1>2
  <1> QED
    BY <1>4, <1>5

LEMMA DecisionInductive == DecisionInv /\ [Next]_vars => DecisionInv'
  <1> SUFFICES ASSUME DecisionInv, [Next]_vars
               PROVE  DecisionInv'
    OBVIOUS
  <1>t. /\ TypeOK /\ TypeOK' /\ PeakOK'
        /\ \A k \in Offers \X Counted : peak'[k] >= peak[k]
    BY TypeInductive, PeakInductive DEF DecisionInv
  <1>1. CASE \E r \in Requests : Start(r)
    BY <1>1, <1>t, UndecidedStart DEF DecisionInv
  <1>2. CASE \E r \in Requests : Continue(r)
    BY <1>2, <1>t, UndecidedContinue DEF DecisionInv
  <1>3. CASE \E r \in Requests : Abort(r)
    BY <1>3, <1>t, AbortSlots DEF DecisionInv, Undecided, rows, history
  <1>4. CASE \E a \in Artworks, s \in {"shown", "hidden"} : Reshelve(a, s)
    BY <1>4, <1>t DEF Reshelve, history, DecisionInv, Undecided
  <1>5. CASE UNCHANGED vars
    BY <1>5, <1>t DEF vars, DecisionInv, Undecided
  <1> QED
    BY <1>1, <1>2, <1>3, <1>4, <1>5 DEF Next

LEMMA HistoryInit == Init => TypeOK /\ PeakOK
  BY OffersAssumption, PeakInit DEF Init, TypeOK, Shelf, Labels

\* The artist's decision on an offer is recorded once and locks, although
\* DecideWrite overwrites whatever it finds, unless two decisions on that offer
\* were in flight together.
THEOREM DecisionLocks == Spec => DecisionFinal
  <1>1. Init => DecisionInv
    BY HistoryInit DEF Init, DecisionInv, Undecided
  <1>2. DecisionInv /\ [Next]_vars => [DecisionKept]_vars
    BY DecisionStep
  <1> QED
    BY <1>1, <1>2, DecisionInductive, PTL DEF Spec, DecisionFinal, DecisionKept

(***************************************************************************)
(* What the buyer is charged and the seller paid.                          *)
(***************************************************************************)

\* The requests at one statement of a handler on o.
Waiting(o, label) == {r \in Requests : target[r] = o /\ pc[r] = label}

\* A provider call is owed to a request whose commit is still to come or to one
\* that died, until a commit succeeds.  From then on no request starts, and every
\* call still to come is of a request that was in flight at that moment.
HoldsAccounted ==
    \A o \in Offers :
        Calm(o) =>
            /\ txn[o] = "none" =>
                  holds[o] <= Cardinality(Waiting(o, "pay.commit")) + aborts
            /\ txn[o] # "none" =>
                  holds[o] + Cardinality(Waiting(o, "pay.hold"))
                     <= peak[<<o, "pay">>] + aborts

PayoutsAccounted ==
    \A o \in Offers :
        Calm(o) =>
            /\ txn[o] # "RELEASED" =>
                  payouts[o] <= Cardinality(Waiting(o, "release.commit")) + aborts
            /\ txn[o] = "RELEASED" =>
                  payouts[o] + Cardinality(Waiting(o, "release.read"))
                     + Cardinality(Waiting(o, "release.payout"))
                     <= peak[<<o, "release">>] + aborts

ChargesInv == SaleInv /\ PeakOK /\ HoldsAccounted /\ PayoutsAccounted

LEMMA WaitingMove ==
  ASSUME NEW r \in Requests, NEW o, NEW label,
         \A q \in Requests \ {r} : pc'[q] = pc[q] /\ target'[q] = target[q]
  PROVE  /\ Cardinality(Waiting(o, label)) \in Nat /\ Cardinality(Waiting(o, label)') \in Nat
         /\ (target[r] = o /\ pc[r] = label) <=> (target'[r] = o /\ pc'[r] = label) =>
               Cardinality(Waiting(o, label)') = Cardinality(Waiting(o, label))
         /\ ~(target[r] = o /\ pc[r] = label) /\ (target'[r] = o /\ pc'[r] = label) =>
               Cardinality(Waiting(o, label)') = Cardinality(Waiting(o, label)) + 1
         /\ (target[r] = o /\ pc[r] = label) /\ ~(target'[r] = o /\ pc'[r] = label) =>
               Cardinality(Waiting(o, label)) = Cardinality(Waiting(o, label)') + 1
  <1>1. Waiting(o, label) \in SUBSET Requests /\ Waiting(o, label)' \in SUBSET Requests
    BY DEF Waiting
  <1>2. \A q \in Requests \ {r} : q \in Waiting(o, label) <=> q \in Waiting(o, label)'
    BY DEF Waiting
  <1>3. /\ r \in Waiting(o, label) <=> target[r] = o /\ pc[r] = label
        /\ r \in Waiting(o, label)' <=> target'[r] = o /\ pc'[r] = label
    BY DEF Waiting
  <1> QED
    BY <1>1, <1>2, <1>3, SetMove

\* The requests of a handler are those at its statements.
LEMMA PayingCount ==
  ASSUME TypeOK, PeakOK, NEW o \in Offers
  PROVE  /\ Cardinality(Waiting(o, "pay.hold")) + Cardinality(Waiting(o, "pay.commit"))
               <= peak[<<o, "pay">>]
         /\ peak[<<o, "pay">>] \in Nat
  <1> DEFINE H == Waiting(o, "pay.hold")
             C == Waiting(o, "pay.commit")
             Both == H \cup C
  <1>1. IsFiniteSet(H) /\ IsFiniteSet(C)
    BY OffersAssumption, FS_Subset DEF Waiting
  <1>2. H \cap C = {}
    BY DEF Waiting
  <1>3. Working(o, "pay") = Both
    BY HandlerFacts DEF Working, Waiting, TypeOK, Labels
  <1>4. Cardinality(Both) = Cardinality(H) + Cardinality(C) - Cardinality({})
    BY <1>1, <1>2, FS_Union
  <1>5. Cardinality(H) \in Nat /\ Cardinality(C) \in Nat /\ Cardinality({}) = 0
    BY <1>1, FS_CardinalityType, FS_EmptySet
  <1>6. Cardinality(Working(o, "pay")) <= peak[<<o, "pay">>] /\ peak[<<o, "pay">>] \in Nat
    BY DEF PeakOK, TypeOK, Counted
  <1> HIDE DEF H, C, Both
  <1>7. Cardinality(Working(o, "pay")) = Cardinality(H) + Cardinality(C)
    BY <1>3, <1>4, <1>5
  <1>8. Cardinality(H) + Cardinality(C) <= peak[<<o, "pay">>]
    BY <1>6, <1>7
  <1> QED
    BY <1>6, <1>8 DEF H, C

LEMMA ReleasingCount ==
  ASSUME TypeOK, PeakOK, NEW o \in Offers
  PROVE  /\ Cardinality(Waiting(o, "release.read")) + Cardinality(Waiting(o, "release.payout"))
               + Cardinality(Waiting(o, "release.commit")) <= peak[<<o, "release">>]
         /\ peak[<<o, "release">>] \in Nat
  <1> DEFINE R == Waiting(o, "release.read")
             P == Waiting(o, "release.payout")
             C == Waiting(o, "release.commit")
             All == (R \cup P) \cup C
  <1>1. IsFiniteSet(R) /\ IsFiniteSet(P) /\ IsFiniteSet(C)
    BY OffersAssumption, FS_Subset DEF Waiting
  <1>2. R \cap P = {} /\ (R \cup P) \cap C = {}
    BY DEF Waiting
  <1>3. Working(o, "release") = All
    BY HandlerFacts DEF Working, Waiting, TypeOK, Labels
  <1>4. /\ Cardinality(R \cup P) = Cardinality(R) + Cardinality(P) - Cardinality({})
        /\ IsFiniteSet(R \cup P)
    BY <1>1, <1>2, FS_Union
  <1>5. Cardinality(All) = Cardinality(R \cup P) + Cardinality(C) - Cardinality({})
    BY <1>1, <1>2, <1>4, FS_Union
  <1>6. /\ Cardinality(R) \in Nat /\ Cardinality(P) \in Nat /\ Cardinality(C) \in Nat
        /\ Cardinality({}) = 0
    BY <1>1, FS_CardinalityType, FS_EmptySet
  <1>7. /\ Cardinality(Working(o, "release")) <= peak[<<o, "release">>]
        /\ peak[<<o, "release">>] \in Nat
    BY DEF PeakOK, TypeOK, Counted
  <1> HIDE DEF R, P, C, All
  <1>8. Cardinality(Working(o, "release")) = Cardinality(R) + Cardinality(P) + Cardinality(C)
    BY <1>3, <1>4, <1>5, <1>6
  <1>9. Cardinality(R) + Cardinality(P) + Cardinality(C) <= peak[<<o, "release">>]
    BY <1>7, <1>8
  <1> QED
    BY <1>7, <1>9 DEF R, P, C

\* A step that calls no provider and commits no payment keeps the accounts.
LEMMA ChargesQuiet ==
  ASSUME ChargesInv, TypeOK', UNCHANGED <<txn, holds, payouts, aborts, contested, peak>>,
         NEW r \in Requests,
         \A q \in Requests \ {r} : pc'[q] = pc[q] /\ target'[q] = target[q],
         pc[r] \notin {"pay.hold", "pay.commit", "release.read", "release.payout",
                       "release.commit"},
         pc'[r] \notin {"pay.hold", "pay.commit", "release.read", "release.payout",
                        "release.commit"}
  PROVE  HoldsAccounted' /\ PayoutsAccounted'
  <1>1. \A o \in Offers,
            label \in {"pay.hold", "pay.commit", "release.read", "release.payout",
                       "release.commit"} :
            Waiting(o, label)' = Waiting(o, label)
    BY DEF Waiting
  <1> QED
    BY <1>1 DEF ChargesInv, HoldsAccounted, PayoutsAccounted, Calm

\* The ways in which the accounts of one offer move.
LEMMA HoldsContinue ==
  ASSUME ChargesInv, NEW r \in Requests, PayHold(r) \/ PayCommit(r)
  PROVE  HoldsAccounted' /\ PayoutsAccounted'
  <1>t. TypeOK /\ PeakOK /\ Continue(r)
    BY SaleInvTyped DEF ChargesInv, Continue
  <1>r. PICK o \in Offers : o = target[r]
    BY <1>t, ContinueOthers
  <1>h. UNCHANGED <<contested, peak>>
    BY <1>t, ContinueHistory DEF history
  <1>q. \A q \in Requests \ {r} : pc'[q] = pc[q] /\ target'[q] = target[q]
    BY <1>t, ContinueSlot
  <1>n. /\ \A p \in Offers :
             holds[p] \in Nat /\ payouts[p] \in Nat /\ peak[<<p, "pay">>] \in Nat
        /\ aborts \in Nat
    BY <1>t DEF TypeOK, Counted
  <1>p. PayoutsAccounted'
    <2>1. \A p \in Offers, label \in {"release.read", "release.payout", "release.commit"} :
             Waiting(p, label)' = Waiting(p, label)
      BY <1>q, <1>t DEF PayHold, PayCommit, At, Goto, End, Waiting, TypeOK
    <2>2. UNCHANGED <<payouts, aborts>>
      BY DEF PayHold, PayCommit, Goto, End, provider
    <2>3. \A p \in Offers :
             /\ txn'[p] = "RELEASED" <=> txn[p] = "RELEASED"
      BY <1>t DEF PayHold, PayCommit, rows, TypeOK
    <2> QED
      BY <2>1, <2>2, <2>3, <1>h DEF ChargesInv, PayoutsAccounted, Calm
  <1>1. ASSUME NEW p \in Offers, p # o
        PROVE  /\ Waiting(p, "pay.hold")' = Waiting(p, "pay.hold")
               /\ Waiting(p, "pay.commit")' = Waiting(p, "pay.commit")
               /\ holds'[p] = holds[p] /\ txn'[p] = txn[p] /\ aborts' = aborts
    BY <1>1, <1>q, <1>r, <1>t, OffersAssumption
    DEF PayHold, PayCommit, At, Goto, End, Waiting, TypeOK, rows, provider
  <1>2. \A p \in Offers \ {o} :
           Calm(p) => /\ txn'[p] = "none" =>
                            holds'[p] <= Cardinality(Waiting(p, "pay.commit")') + aborts'
                      /\ txn'[p] # "none" =>
                            holds'[p] + Cardinality(Waiting(p, "pay.hold")')
                               <= peak'[<<p, "pay">>] + aborts'
    BY <1>1, <1>h DEF ChargesInv, HoldsAccounted
  <1> DEFINE H == Cardinality(Waiting(o, "pay.hold"))
             C == Cardinality(Waiting(o, "pay.commit"))
  <1>3. H \in Nat /\ C \in Nat /\ H' \in Nat /\ C' \in Nat /\ H + C <= peak[<<o, "pay">>]
    BY <1>q, <1>t, WaitingMove, PayingCount
  <1>4. Calm(o) => /\ txn[o] = "none" => holds[o] <= C + aborts
                   /\ txn[o] # "none" => holds[o] + H <= peak[<<o, "pay">>] + aborts
    BY DEF ChargesInv, HoldsAccounted
  <1>5. Calm(o) => /\ txn'[o] = "none" => holds'[o] <= C' + aborts'
                   /\ txn'[o] # "none" => holds'[o] + H' <= peak'[<<o, "pay">>] + aborts'
    <2>1. CASE PayHold(r)
      <3>1. /\ pc[r] = "pay.hold" /\ pc'[r] = "pay.commit" /\ target'[r] = o
            /\ UNCHANGED <<txn, aborts>> /\ holds'[o] = holds[o] + 1
        BY <2>1, <1>t, <1>r DEF PayHold, At, Goto, rows, TypeOK
      <3>2. H = H' + 1 /\ C' = C + 1
        BY <3>1, <1>q, <1>r, WaitingMove
      <3> HIDE DEF H, C
      <3> QED
        BY <3>1, <3>2, <1>3, <1>4, <1>h, <1>n
    <2>2. CASE PayCommit(r)
      <3>1. /\ pc[r] = "pay.commit" /\ pc'[r] = "idle"
            /\ UNCHANGED <<aborts, holds>>
            /\ txn'[o] = IF txn[o] = "none" THEN "HELD" ELSE txn[o]
        BY <2>2, <1>t, <1>r DEF PayCommit, At, End, provider, TypeOK
      <3>2. H' = H /\ C = C' + 1
        BY <3>1, <1>q, <1>r, WaitingMove
      <3> HIDE DEF H, C
      <3> QED
        BY <3>1, <3>2, <1>3, <1>4, <1>h, <1>n
    <2> QED
      BY <2>1, <2>2
  <1>6. HoldsAccounted'
    BY <1>2, <1>5, <1>h DEF HoldsAccounted, Calm
  <1> QED
    BY <1>p, <1>6

LEMMA PayoutsContinue ==
  ASSUME ChargesInv, NEW r \in Requests,
         ReleaseRead(r) \/ ReleasePayout(r) \/ ReleaseCommit(r)
  PROVE  HoldsAccounted' /\ PayoutsAccounted'
  <1>t. TypeOK /\ PeakOK /\ Continue(r)
    BY SaleInvTyped DEF ChargesInv, Continue
  <1>r. PICK o \in Offers : o = target[r]
    BY <1>t, ContinueOthers
  <1>h. UNCHANGED <<contested, peak>>
    BY <1>t, ContinueHistory DEF history
  <1>q. \A q \in Requests \ {r} : pc'[q] = pc[q] /\ target'[q] = target[q]
    BY <1>t, ContinueSlot
  <1>e. Calm(o) => txn[o] # "none"
    \* In flight to release, r finds the offer delivered or already released.
    <2>1. Selling(r) /\ HandlerOf[pc[r]] = "release"
      BY HandlerFacts DEF ReleaseRead, ReleasePayout, ReleaseCommit, At, Selling, SaleHandlers
    <2>2. Calm(o) => status[o] \in {"DELIVERED", "RELEASED"}
      BY <2>1, <1>r, FindsFacts DEF ChargesInv, SaleInv, Snapshot
    <2> QED
      BY <2>2, <1>t DEF ChargesInv, SaleInv, EscrowInStep, TypeOK
  <1>n. /\ \A p \in Offers :
             holds[p] \in Nat /\ payouts[p] \in Nat /\ peak[<<p, "release">>] \in Nat
        /\ aborts \in Nat
    BY <1>t DEF TypeOK, Counted
  <1>p. HoldsAccounted'
    <2>1. \A p \in Offers, label \in {"pay.hold", "pay.commit"} :
             Waiting(p, label)' = Waiting(p, label)
      BY <1>q, <1>t DEF ReleaseRead, ReleasePayout, ReleaseCommit, At, Goto, End, Waiting, TypeOK
    <2>2. UNCHANGED <<holds, aborts>>
      BY DEF ReleaseRead, ReleasePayout, ReleaseCommit, Goto, End, provider
    <2>3. \A p \in Offers : Calm(p) => (txn'[p] = "none" <=> txn[p] = "none")
      BY <1>t, <1>e, <1>r DEF ReleaseRead, ReleasePayout, ReleaseCommit, rows, TypeOK
    <2> QED
      BY <2>1, <2>2, <2>3, <1>h DEF ChargesInv, HoldsAccounted, Calm
  <1>1. ASSUME NEW p \in Offers, p # o
        PROVE  /\ Waiting(p, "release.read")' = Waiting(p, "release.read")
               /\ Waiting(p, "release.payout")' = Waiting(p, "release.payout")
               /\ Waiting(p, "release.commit")' = Waiting(p, "release.commit")
               /\ payouts'[p] = payouts[p] /\ txn'[p] = txn[p] /\ aborts' = aborts
    BY <1>1, <1>q, <1>r, <1>t, OffersAssumption
    DEF ReleaseRead, ReleasePayout, ReleaseCommit, At, Goto, End, Waiting, TypeOK, rows,
        provider
  <1>2. \A p \in Offers \ {o} :
           Calm(p) => /\ txn'[p] # "RELEASED" =>
                            payouts'[p] <= Cardinality(Waiting(p, "release.commit")') + aborts'
                      /\ txn'[p] = "RELEASED" =>
                            payouts'[p] + Cardinality(Waiting(p, "release.read")')
                               + Cardinality(Waiting(p, "release.payout")')
                               <= peak'[<<p, "release">>] + aborts'
    BY <1>1, <1>h DEF ChargesInv, PayoutsAccounted
  <1> DEFINE R == Cardinality(Waiting(o, "release.read"))
             P == Cardinality(Waiting(o, "release.payout"))
             C == Cardinality(Waiting(o, "release.commit"))
  <1>3. /\ R \in Nat /\ P \in Nat /\ C \in Nat /\ R' \in Nat /\ P' \in Nat /\ C' \in Nat
        /\ R + P + C <= peak[<<o, "release">>]
    BY <1>q, <1>t, WaitingMove, ReleasingCount
  <1>4. Calm(o) => /\ txn[o] # "RELEASED" => payouts[o] <= C + aborts
                   /\ txn[o] = "RELEASED" =>
                         payouts[o] + R + P <= peak[<<o, "release">>] + aborts
    BY DEF ChargesInv, PayoutsAccounted
  <1>5. Calm(o) => /\ txn'[o] # "RELEASED" => payouts'[o] <= C' + aborts'
                   /\ txn'[o] = "RELEASED" =>
                         payouts'[o] + R' + P' <= peak'[<<o, "release">>] + aborts'
    <2>1. CASE ReleaseRead(r)
      <3>1. /\ pc[r] = "release.read" /\ pc'[r] # "release.read"
            /\ UNCHANGED <<txn, aborts, payouts>>
            /\ Calm(o) => pc'[r] = "release.payout" /\ target'[r] = o
        BY <2>1, <1>t, <1>r, <1>e DEF ReleaseRead, At, Goto, End, rows, provider, TypeOK
      <3>2. Calm(o) => R = R' + 1 /\ P' = P + 1 /\ C' = C
        BY <3>1, <2>1, <1>q, <1>r, WaitingMove DEF ReleaseRead, At
      <3> HIDE DEF R, P, C
      <3> QED
        BY <3>1, <3>2, <1>3, <1>4, <1>h, <1>n
    <2>2. CASE ReleasePayout(r)
      <3>1. /\ pc[r] = "release.payout" /\ pc'[r] = "release.commit" /\ target'[r] = o
            /\ UNCHANGED <<txn, aborts>> /\ payouts'[o] = payouts[o] + 1
        BY <2>2, <1>t, <1>r DEF ReleasePayout, At, Goto, rows, TypeOK
      <3>2. R' = R /\ P = P' + 1 /\ C' = C + 1
        BY <3>1, <1>q, <1>r, WaitingMove
      <3> HIDE DEF R, P, C
      <3> QED
        BY <3>1, <3>2, <1>3, <1>4, <1>h, <1>n
    <2>3. CASE ReleaseCommit(r)
      <3>1. /\ pc[r] = "release.commit" /\ pc'[r] = "idle"
            /\ UNCHANGED <<aborts, payouts>> /\ txn'[o] = "RELEASED"
        BY <2>3, <1>t, <1>r DEF ReleaseCommit, At, End, provider, TypeOK
      <3>2. R' = R /\ P' = P /\ C = C' + 1
        BY <3>1, <1>q, <1>r, WaitingMove
      <3> HIDE DEF R, P, C
      <3> QED
        BY <3>1, <3>2, <1>3, <1>4, <1>h, <1>n
    <2> QED
      BY <2>1, <2>2, <2>3
  <1>6. PayoutsAccounted'
    BY <1>2, <1>5, <1>h DEF PayoutsAccounted, Calm
  <1> QED
    BY <1>p, <1>6

LEMMA ChargesStart ==
  ASSUME ChargesInv, NEW r \in Requests, Start(r), TypeOK', PeakOK',
         \A k \in Offers \X Counted : peak'[k] >= peak[k]
  PROVE  HoldsAccounted' /\ PayoutsAccounted'
  <1>t. TypeOK
    BY SaleInvTyped DEF ChargesInv
  <1>1. PICK o \in Offers, label \in Labels : Begin(r, o, label) /\ Reads(o, label)
    BY StartBegins
  <1>2. /\ UNCHANGED <<rows, provider, notices, aborts>>
        /\ \A q \in Requests \ {r} : pc'[q] = pc[q] /\ target'[q] = target[q]
        /\ pc[r] = "idle" /\ pc'[r] = label /\ target'[r] = o
        /\ contested \subseteq contested'
    BY <1>1, <1>t, StartEffect
  <1> SUFFICES ASSUME NEW p \in Offers, ArtworkOf[p] \notin contested'
               PROVE  /\ txn'[p] = "none" =>
                            holds'[p] <= Cardinality(Waiting(p, "pay.commit")') + aborts'
                      /\ txn'[p] # "none" =>
                            holds'[p] + Cardinality(Waiting(p, "pay.hold")')
                               <= peak'[<<p, "pay">>] + aborts'
                      /\ txn'[p] # "RELEASED" =>
                            payouts'[p] <= Cardinality(Waiting(p, "release.commit")') + aborts'
                      /\ txn'[p] = "RELEASED" =>
                            payouts'[p] + Cardinality(Waiting(p, "release.read")')
                               + Cardinality(Waiting(p, "release.payout")')
                               <= peak'[<<p, "release">>] + aborts'
    BY DEF HoldsAccounted, PayoutsAccounted, Calm
  <1>3. Calm(p)
    BY <1>2 DEF Calm
  <1>4. /\ txn[p] = "HELD" <=> status[p] \in {"PAYMENT_HELD", "DELIVERED"}
        /\ txn[p] = "RELEASED" <=> status[p] = "RELEASED"
    BY <1>3 DEF ChargesInv, SaleInv, EscrowInStep
  <1>5. /\ Waiting(p, "pay.commit")' = Waiting(p, "pay.commit")
        /\ Waiting(p, "release.payout")' = Waiting(p, "release.payout")
        /\ Waiting(p, "release.commit")' = Waiting(p, "release.commit")
    BY <1>1, <1>2 DEF Waiting, Reads
  <1>6. txn[p] # "none" => Waiting(p, "pay.hold")' = Waiting(p, "pay.hold")
    BY <1>1, <1>2, <1>4, <1>t DEF Waiting, Reads, TypeOK
  <1>7. txn[p] = "RELEASED" => Waiting(p, "release.read")' = Waiting(p, "release.read")
    BY <1>1, <1>2, <1>4, <1>t DEF Waiting, Reads, TypeOK
  <1>8. /\ peak[<<p, "pay">>] \in Nat /\ peak'[<<p, "pay">>] \in Nat
        /\ peak[<<p, "release">>] \in Nat /\ peak'[<<p, "release">>] \in Nat
        /\ peak'[<<p, "pay">>] >= peak[<<p, "pay">>]
        /\ peak'[<<p, "release">>] >= peak[<<p, "release">>]
        /\ holds[p] \in Nat /\ payouts[p] \in Nat /\ aborts \in Nat
    BY <1>t DEF TypeOK, Counted
  <1>9. \A label2 \in Labels : Cardinality(Waiting(p, label2)) \in Nat
    BY <1>2, WaitingMove
  <1>10. /\ txn[p] = "none" => holds[p] <= Cardinality(Waiting(p, "pay.commit")) + aborts
         /\ txn[p] # "none" => holds[p] + Cardinality(Waiting(p, "pay.hold"))
                                  <= peak[<<p, "pay">>] + aborts
         /\ txn[p] # "RELEASED" =>
               payouts[p] <= Cardinality(Waiting(p, "release.commit")) + aborts
         /\ txn[p] = "RELEASED" =>
               payouts[p] + Cardinality(Waiting(p, "release.read"))
                  + Cardinality(Waiting(p, "release.payout")) <= peak[<<p, "release">>] + aborts
    BY <1>3 DEF ChargesInv, HoldsAccounted, PayoutsAccounted
  <1> QED
    BY <1>2, <1>5, <1>6, <1>7, <1>8, <1>9, <1>10 DEF rows, provider, Labels

\* A request that dies is one fewer at its statement, and one more dead.
LEMMA ChargesAbort ==
  ASSUME ChargesInv, NEW r \in Requests, Abort(r)
  PROVE  HoldsAccounted' /\ PayoutsAccounted'
  <1>t. TypeOK
    BY SaleInvTyped DEF ChargesInv
  <1>1. /\ \A q \in Requests \ {r} : pc'[q] = pc[q] /\ target'[q] = target[q]
        /\ pc'[r] = "idle" /\ target'[r] = NoOffer
        /\ UNCHANGED <<txn, holds, payouts, contested, peak>> /\ aborts' = aborts + 1
    BY <1>t, AbortSlots DEF rows, provider, history
  <1>2. ASSUME NEW p \in Offers, NEW label \in Labels \ {"idle"}
        PROVE  /\ Cardinality(Waiting(p, label)) \in Nat
               /\ Cardinality(Waiting(p, label)') \in Nat
               /\ Cardinality(Waiting(p, label)') <= Cardinality(Waiting(p, label))
               /\ Cardinality(Waiting(p, label)) <= Cardinality(Waiting(p, label)') + 1
    <2>1. ~(target'[r] = p /\ pc'[r] = label)
      BY <1>1, OffersAssumption
    <2> QED
      BY <2>1, <1>1, WaitingMove
  <1> SUFFICES ASSUME NEW p \in Offers, Calm(p)
               PROVE  /\ txn'[p] = "none" =>
                            holds'[p] <= Cardinality(Waiting(p, "pay.commit")') + aborts'
                      /\ txn'[p] # "none" =>
                            holds'[p] + Cardinality(Waiting(p, "pay.hold")')
                               <= peak'[<<p, "pay">>] + aborts'
                      /\ txn'[p] # "RELEASED" =>
                            payouts'[p] <= Cardinality(Waiting(p, "release.commit")') + aborts'
                      /\ txn'[p] = "RELEASED" =>
                            payouts'[p] + Cardinality(Waiting(p, "release.read")')
                               + Cardinality(Waiting(p, "release.payout")')
                               <= peak'[<<p, "release">>] + aborts'
    BY <1>1 DEF HoldsAccounted, PayoutsAccounted, Calm
  <1>3. /\ peak[<<p, "pay">>] \in Nat /\ peak[<<p, "release">>] \in Nat
        /\ holds[p] \in Nat /\ payouts[p] \in Nat /\ aborts \in Nat
    BY <1>t DEF TypeOK, Counted
  <1>4. /\ txn[p] = "none" => holds[p] <= Cardinality(Waiting(p, "pay.commit")) + aborts
        /\ txn[p] # "none" => holds[p] + Cardinality(Waiting(p, "pay.hold"))
                                 <= peak[<<p, "pay">>] + aborts
        /\ txn[p] # "RELEASED" =>
              payouts[p] <= Cardinality(Waiting(p, "release.commit")) + aborts
        /\ txn[p] = "RELEASED" =>
              payouts[p] + Cardinality(Waiting(p, "release.read"))
                 + Cardinality(Waiting(p, "release.payout")) <= peak[<<p, "release">>] + aborts
    BY DEF ChargesInv, HoldsAccounted, PayoutsAccounted
  <1> QED
    BY <1>1, <1>2, <1>3, <1>4 DEF Labels

LEMMA ChargesInductive == ChargesInv /\ [Next]_vars => ChargesInv'
  <1> SUFFICES ASSUME ChargesInv, [Next]_vars
               PROVE  ChargesInv'
    OBVIOUS
  <1>t. /\ TypeOK /\ TypeOK' /\ SaleInv' /\ PeakOK'
        /\ \A k \in Offers \X Counted : peak'[k] >= peak[k]
    BY TypeInductive, PeakInductive, SaleInductive, SaleInvTyped DEF ChargesInv
  <1> SUFFICES HoldsAccounted' /\ PayoutsAccounted'
    BY <1>t DEF ChargesInv
  <1>1. CASE \E r \in Requests : Start(r)
    BY <1>1, <1>t, ChargesStart
  <1>2. ASSUME NEW r \in Requests, Continue(r)
        PROVE  HoldsAccounted' /\ PayoutsAccounted'
    <2>1. CASE PayHold(r) \/ PayCommit(r)
      BY <2>1, HoldsContinue
    <2>2. CASE ReleaseRead(r) \/ ReleasePayout(r) \/ ReleaseCommit(r)
      BY <2>2, PayoutsContinue
    <2>3. CASE /\ ~PayHold(r) /\ ~PayCommit(r) /\ ~ReleaseRead(r)
               /\ ~ReleasePayout(r) /\ ~ReleaseCommit(r)
      <3>1. UNCHANGED <<txn, holds, payouts, aborts>>
        BY <1>2, <2>3
        DEF Continue, CreateReadReserved, CreateReadApproved, CreateInsert,
            CreateNotify, DecideWrite, DecideNotify, RejectWrite, CancelWrite,
            DeliverWrite, Write, AcceptLock, AcceptCheck, AcceptCommit, Goto, End,
            rows, provider
      <3>2. /\ pc[r] \notin {"pay.hold", "pay.commit", "release.read", "release.payout",
                             "release.commit"}
            /\ pc'[r] \notin {"pay.hold", "pay.commit", "release.read", "release.payout",
                              "release.commit"}
        BY <1>2, <2>3, <1>t
        DEF Continue, At, CreateReadReserved, CreateReadApproved, CreateInsert,
            CreateNotify, DecideWrite, DecideNotify, RejectWrite, CancelWrite,
            DeliverWrite, Write, AcceptLock, AcceptCheck, AcceptCommit, Goto, End, TypeOK
      <3>3. \A q \in Requests \ {r} : pc'[q] = pc[q] /\ target'[q] = target[q]
        BY <1>2, <1>t, ContinueSlot
      <3>4. UNCHANGED <<contested, peak>>
        BY <1>2, ContinueHistory DEF history
      <3> QED
        BY <3>1, <3>2, <3>3, <3>4, <1>t, ChargesQuiet
    <2> QED
      BY <2>1, <2>2, <2>3
  <1>3. CASE \E r \in Requests : Abort(r)
    BY <1>3, ChargesAbort
  <1>4. CASE \E a \in Artworks, s \in {"shown", "hidden"} : Reshelve(a, s)
    <2>1. UNCHANGED <<txn, holds, payouts, aborts, contested, peak, pc, target>>
      BY <1>4 DEF Reshelve, history, provider
    <2> QED
      BY <2>1 DEF ChargesInv, HoldsAccounted, PayoutsAccounted, Waiting, Calm
  <1>5. CASE UNCHANGED vars
    BY <1>5 DEF vars, ChargesInv, HoldsAccounted, PayoutsAccounted, Waiting, Calm
  <1> QED
    BY <1>1, <1>2, <1>3, <1>4, <1>5 DEF Next

LEMMA ChargesInit == Init => ChargesInv
  <1> SUFFICES ASSUME Init
               PROVE  HoldsAccounted /\ PayoutsAccounted
    BY SaleInit, PeakInit DEF ChargesInv
  <1>1. \A o \in Offers : Waiting(o, "pay.commit") = {} /\ Waiting(o, "release.commit") = {}
    BY DEF Init, Waiting
  <1>2. \A o \in Offers : /\ Cardinality(Waiting(o, "pay.commit")) = 0
                           /\ Cardinality(Waiting(o, "release.commit")) = 0
    BY <1>1, FS_EmptySet
  <1> QED
    BY <1>2 DEF Init, HoldsAccounted, PayoutsAccounted

LEMMA AccountedFor == ChargesInv => ChargedOnce
  <1> SUFFICES ASSUME ChargesInv, NEW o \in Offers, Calm(o)
               PROVE  /\ holds[o] <= peak[<<o, "pay">>] + aborts
                      /\ payouts[o] <= peak[<<o, "release">>] + aborts
    BY DEF ChargedOnce, Calm
  <1>t. TypeOK /\ PeakOK
    BY SaleInvTyped DEF ChargesInv
  <1>1. /\ Cardinality(Waiting(o, "pay.hold")) \in Nat
        /\ Cardinality(Waiting(o, "pay.commit")) \in Nat
        /\ Cardinality(Waiting(o, "release.read")) \in Nat
        /\ Cardinality(Waiting(o, "release.payout")) \in Nat
        /\ Cardinality(Waiting(o, "release.commit")) \in Nat
    BY OffersAssumption, FS_Subset, FS_CardinalityType DEF Waiting
  <1>2. holds[o] \in Nat /\ payouts[o] \in Nat /\ aborts \in Nat
    BY <1>t DEF TypeOK
  <1>3. /\ txn[o] = "none" => holds[o] <= Cardinality(Waiting(o, "pay.commit")) + aborts
        /\ txn[o] # "none" => holds[o] + Cardinality(Waiting(o, "pay.hold"))
                                 <= peak[<<o, "pay">>] + aborts
        /\ txn[o] # "RELEASED" =>
              payouts[o] <= Cardinality(Waiting(o, "release.commit")) + aborts
        /\ txn[o] = "RELEASED" =>
              payouts[o] + Cardinality(Waiting(o, "release.read"))
                 + Cardinality(Waiting(o, "release.payout")) <= peak[<<o, "release">>] + aborts
    BY DEF ChargesInv, HoldsAccounted, PayoutsAccounted
  <1> QED
    BY <1>t, <1>1, <1>2, <1>3, PayingCount, ReleasingCount

\* On an uncontested artwork a buyer is charged for an offer at most as often as
\* payments of it were in flight together, plus once for every request that died;
\* the same holds of what the seller is paid.
THEOREM ChargedOncePerOffer == Spec => []ChargedOnce
  BY ChargesInit, ChargesInductive, AccountedFor, PTL DEF Spec

(***************************************************************************)
(* The handlers implement the sale protocol.                               *)
(***************************************************************************)

LEMMA EscrowValues ==
  EscrowOf["none"] = "empty" /\ EscrowOf["HELD"] = "held" /\ EscrowOf["RELEASED"] = "released"
  BY DEF EscrowOf

LEMMA SaleInitial == Init => Sale!SaleInit
  BY DEF Init, Sale!SaleInit, StageOf, EscrowOf

\* The stage and the escrow of an offer, read off its rows.
StageNow == [o \in Offers |-> StageOf[status[o]]]
EscrowNow == [o \in Offers |-> EscrowOf[txn[o]]]

\* On a contested artwork the protocol lets its offers move in any way.
LEMMA SaleStray ==
  ASSUME TypeOK, NEW r \in Requests, Continue(r), ~Calm(target[r])
  PROVE  Sale!SaleNext
  <1>1. OthersEffect(r) /\ target[r] \in Offers
    BY ContinueOthers
  <1>2. contested' = contested
    BY ContinueHistory DEF history
  <1>3. \A p \in Offers \ {target[r]} : txn'[p] = txn[p]
    BY <1>1
    DEF TypeOK, Continue, CreateReadReserved, CreateReadApproved, CreateInsert,
        CreateNotify, DecideWrite, DecideNotify, RejectWrite, CancelWrite,
        DeliverWrite, Write, AcceptLock, AcceptCheck, AcceptCommit, PayHold,
        PayCommit, ReleaseRead, ReleasePayout, ReleaseCommit, rows
  <1>4. ASSUME NEW p \in Offers, ArtworkOf[p] \notin contested
        PROVE  status'[p] = status[p] /\ txn'[p] = txn[p]
    BY <1>1, <1>3, <1>4 DEF OthersEffect, Calm
  <1>5. Sale!Stray
    BY <1>2, <1>4 DEF Sale!Stray
  <1> QED
    BY <1>5 DEF Sale!SaleNext

\* The step of the protocol that each step of a handler takes, if any.
LEMMA SaleContinue ==
  ASSUME SaleInv, NEW r \in Requests, Continue(r), Calm(target[r])
  PROVE  Sale!SaleNext \/ UNCHANGED <<StageNow, EscrowNow>>
  <1>t. TypeOK
    BY SaleInvTyped
  <1>c. contested' = contested
    BY ContinueHistory DEF history
  <1>r. PICK o \in Offers : o = target[r]
    BY <1>t, ContinueOthers
  <1>s. Selling(r) => status[o] \in Finds[HandlerOf[pc[r]]]
    BY <1>r DEF SaleInv, Snapshot
  <1>e. /\ txn[o] = "HELD" <=> status[o] \in {"PAYMENT_HELD", "DELIVERED"}
        /\ txn[o] = "RELEASED" <=> status[o] = "RELEASED"
    BY <1>r DEF SaleInv, EscrowInStep
  <1>1. CASE \/ CreateReadReserved(r) \/ CreateReadApproved(r) \/ CreateNotify(r)
             \/ DecideNotify(r) \/ AcceptLock(r) \/ AcceptCheck(r) \/ PayHold(r)
             \/ ReleaseRead(r) \/ ReleasePayout(r)
             \/ \E d \in ArtistDecision : DecideWrite(r, d)
    BY <1>1
    DEF CreateReadReserved, CreateReadApproved, CreateNotify, DecideNotify,
        AcceptLock, AcceptCheck, PayHold, ReleaseRead, ReleasePayout, DecideWrite,
        rows, StageNow, EscrowNow
  <1>2. CASE CreateInsert(r)
    <2>1. status[o] = "none" /\ txn' = txn
          /\ status' = [status EXCEPT ![o] = "PENDING"]
      BY <1>2, <1>t, <1>r
      DEF CreateInsert, At, SetStatus, TypeOK, SaleInv, CreateAlone, Creating
    <2>2. Sale!Place(o)
      BY <2>1, <1>t, <1>r, <1>c
      DEF Sale!Place, Sale!Move, StageOf, EscrowOf, OfferStatus, TypeOK
    <2> QED
      BY <2>1, <2>2 DEF Sale!SaleNext
  <1>3. CASE RejectWrite(r) \/ CancelWrite(r)
    <2>0. PICK s \in {"REJECTED", "CANCELLED"} :
             /\ pc[r] \in {"reject.write", "cancel.write"} /\ txn' = txn
             /\ status' = [status EXCEPT ![o] = s]
      BY <1>3, <1>r DEF RejectWrite, CancelWrite, Write, At, SetStatus
    <2>1. status[o] \in {"PENDING", "CANCELLED", "REJECTED"}
      BY <2>0, <1>s, HandlerFacts, FindsFacts DEF Selling, SaleHandlers
    <2>2. CASE status[o] = "PENDING"
      <3>1. Sale!Close(o)
        BY <2>0, <2>2, <1>t, <1>r, <1>c
        DEF Sale!Close, Sale!Move, StageOf, EscrowOf, OfferStatus, TypeOK
      <3> QED
        BY <2>0, <3>1 DEF Sale!SaleNext
    <2>3. CASE status[o] \in {"CANCELLED", "REJECTED"}
      \* A late write on an offer that is closed already: closed it stays.
      BY <2>0, <2>3, <1>t, <1>r DEF StageNow, EscrowNow, StageOf, OfferStatus, TypeOK
    <2> QED
      BY <2>1, <2>2, <2>3
  <1>4. CASE DeliverWrite(r)
    <2>0. pc[r] = "deliver.write" /\ txn' = txn
          /\ status' = [status EXCEPT ![o] = "DELIVERED"]
      BY <1>4, <1>r DEF DeliverWrite, Write, At, SetStatus
    <2>1. status[o] \in {"PAYMENT_HELD", "DELIVERED"}
      BY <2>0, <1>s, HandlerFacts, FindsFacts DEF Selling, SaleHandlers
    <2>2. CASE status[o] = "PAYMENT_HELD"
      <3>1. Sale!Deliver(o)
        BY <2>0, <2>2, <1>t, <1>r, <1>c
        DEF Sale!Deliver, Sale!Move, StageOf, EscrowOf, OfferStatus, TypeOK
      <3> QED
        BY <3>1 DEF Sale!SaleNext
    <2>3. CASE status[o] = "DELIVERED"
      BY <2>0, <2>3, <1>t, <1>r DEF StageNow, EscrowNow, TypeOK
    <2> QED
      BY <2>1, <2>2, <2>3
  <1>5. CASE AcceptCommit(r)
    <2>1. /\ pc[r] = "accept.commit" /\ txn' = txn
          /\ status' = [p \in Offers |->
                          IF p = o THEN "ACCEPTED"
                          ELSE IF p \in OffersOn(ArtworkOf[o]) /\ status[p] = "PENDING"
                               THEN "CANCELLED"
                          ELSE status[p]]
      BY <1>5, <1>t, <1>r DEF AcceptCommit, At, TypeOK
    \* Were o no longer open, the offer that closed it would be reserving.
    <2>2. ~Reserved(ArtworkOf[o]) /\ status[o] = "PENDING"
      BY <2>1, <1>r DEF SaleInv, AcceptClear, Accepting
    <2>4. \A p \in Sale!Rivals(o) : StageOf[status[p]] \notin Sale!Committed
      BY <2>1, <2>2, <1>t, <1>r
      DEF Sale!Rivals, Sale!Committed, Reserved, Reserving, OffersOn, StageOf,
          OfferStatus, TypeOK
    <2>5. \A p \in Offers : StageOf[status[p]] = "open" <=> status[p] = "PENDING"
      BY <1>t, <1>r DEF StageOf, OfferStatus, TypeOK
    <2>6. \A p \in Offers :
             StageOf[status'[p]] =
                IF p = o THEN "accepted"
                ELSE IF p \in Sale!Rivals(o) /\ StageOf[status[p]] = "open" THEN "closed"
                ELSE StageOf[status[p]]
      BY <2>1, <2>5, <1>t, <1>r DEF Sale!Rivals, OffersOn, StageOf, OfferStatus
    <2>7. Sale!Agree(o)
      BY <2>1, <2>2, <2>4, <2>5, <2>6, <1>c DEF Sale!Agree, Sale!Rivals
    <2> QED
      BY <2>1, <2>7 DEF Sale!SaleNext
  <1>6. CASE PayCommit(r)
    <2>0. status[o] \in {"ACCEPTED", "PAYMENT_HELD"}
      BY <1>6, <1>s, HandlerFacts, FindsFacts DEF PayCommit, At, Selling, SaleHandlers
    <2>1. CASE txn[o] = "none"
      <3>1. status[o] = "ACCEPTED"
        BY <2>0, <2>1, <1>e
      <3>2. /\ status' = [status EXCEPT ![o] = "PAYMENT_HELD"]
            /\ txn' = [txn EXCEPT ![o] = "HELD"]
        BY <1>6, <2>1, <1>r DEF PayCommit, SetStatus
      <3>3. Sale!PayIn(o)
        BY <2>1, <3>1, <3>2, <1>t, <1>r, <1>c, EscrowValues
        DEF Sale!PayIn, Sale!Move, StageOf, OfferStatus, TypeOK
      <3> QED
        BY <3>3 DEF Sale!SaleNext
    <2>2. CASE txn[o] # "none"
      BY <1>6, <2>2, <1>r DEF PayCommit, StageNow, EscrowNow
    <2> QED
      BY <2>1, <2>2
  <1>7. CASE ReleaseCommit(r)
    <2>0. status[o] \in {"DELIVERED", "RELEASED"}
      BY <1>7, <1>s, HandlerFacts, FindsFacts DEF ReleaseCommit, At, Selling, SaleHandlers
    <2>2. /\ status' = [status EXCEPT ![o] = "RELEASED"]
          /\ txn' = [txn EXCEPT ![o] = "RELEASED"]
      BY <1>7, <1>r DEF ReleaseCommit, SetStatus
    <2>3. CASE status[o] = "DELIVERED"
      <3>1. txn[o] = "HELD"
        BY <2>3, <1>e
      <3>2. Sale!PayOut(o)
        BY <2>2, <2>3, <3>1, <1>t, <1>r, <1>c, EscrowValues
        DEF Sale!PayOut, Sale!Move, StageOf, OfferStatus, TypeOK
      <3> QED
        BY <3>2 DEF Sale!SaleNext
    <2>4. CASE status[o] = "RELEASED"
      <3>1. txn[o] = "RELEASED"
        BY <2>4, <1>e
      <3> QED
        BY <2>2, <2>4, <3>1, <1>t, <1>r DEF StageNow, EscrowNow, TypeOK
    <2> QED
      BY <2>0, <2>3, <2>4
  <1> QED
    BY <1>1, <1>2, <1>3, <1>4, <1>5, <1>6, <1>7 DEF Continue

\* A request that begins may contest an artwork, and does no more.
LEMMA SaleStart ==
  ASSUME TypeOK, NEW r \in Requests, Start(r)
  PROVE  \/ Sale!SaleNext
         \/ UNCHANGED <<StageNow, EscrowNow, contested>>
  <1>1. PICK o \in Offers, label \in Labels : Begin(r, o, label)
    BY StartBegins
  <1>2. UNCHANGED <<status, txn>>
    BY StartRows DEF rows
  <1>3. contested' = contested \/ contested' = contested \cup {ArtworkOf[o]}
    BY <1>1 DEF Begin, Meet
  <1>4. CASE contested' = contested
    BY <1>2, <1>4 DEF StageNow, EscrowNow
  <1>5. CASE contested' = contested \cup {ArtworkOf[o]}
    BY <1>2, <1>5 DEF Sale!Contest, Sale!SaleNext
  <1> QED
    BY <1>3, <1>4, <1>5

LEMMA SaleStep ==
  ASSUME SaleInv, [Next]_vars
  PROVE  [Sale!SaleNext]_Sale!saleVars
  <1> SUFFICES \/ Sale!SaleNext
               \/ UNCHANGED <<StageNow, EscrowNow, contested>>
    BY DEF Sale!saleVars, StageNow, EscrowNow
  <1>1. CASE \E r \in Requests : Start(r)
    BY <1>1, SaleInvTyped, SaleStart
  <1>2. ASSUME NEW r \in Requests, Continue(r)
        PROVE  \/ Sale!SaleNext
               \/ UNCHANGED <<StageNow, EscrowNow, contested>>
    <2>1. contested' = contested
      BY <1>2, ContinueHistory DEF history
    <2>2. CASE Calm(target[r])
      BY <1>2, <2>1, <2>2, SaleContinue
    <2>3. CASE ~Calm(target[r])
      BY <1>2, <2>3, SaleInvTyped, SaleStray
    <2> QED
      BY <2>2, <2>3
  <1>3. CASE ~\E r \in Requests : Start(r) \/ Continue(r)
    <2>1. UNCHANGED <<status, txn, contested>>
      BY <1>3 DEF Next, vars, rows, history, Abort, Reshelve
    <2> QED
      BY <2>1 DEF StageNow, EscrowNow
  <1> QED
    BY <1>1, <1>2, <1>3

\* Everything the handlers do to an artwork's offers is a run of the sale
\* protocol, late writes, double clicks, locks, and requests that die included,
\* up to the moment when two different handlers overlap on one of its offers.
THEOREM HandlersImplementSale == Spec => SaleRefined
  <1>1. SaleInv /\ [Next]_vars => [Sale!SaleNext]_Sale!saleVars
    BY SaleStep
  <1> QED
    BY <1>1, SaleInit, SaleInductive, SaleInitial, PTL DEF Spec, SaleRefined, Sale!SaleSpec

=============================================================================
