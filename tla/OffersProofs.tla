---------------------------- MODULE OffersProofs ----------------------------
(***************************************************************************)
(* Machine-checked proofs about Offers, for every set of offers, artworks, *)
(* users and requests and every value of the bounds.                       *)
(***************************************************************************)
EXTENDS Offers, FiniteSetTheorems, TLAPS

(***************************************************************************)
(* Type correctness.                                                       *)
(***************************************************************************)

\* The typing of the rows and of the provider's counters, apart from that of
\* the requests: most actions disturb one of the two only.
RowsOK ==
    /\ status \in [Offers -> OfferStatus \cup {"none"}]
    /\ decision \in [Offers -> ArtistDecision \cup {"none"}]
    /\ txn \in [Offers -> {"none", "HELD", "RELEASED"}]
    /\ shelf \in [Artworks -> Shelf]
    /\ holds \in [Offers -> Nat] /\ payouts \in [Offers -> Nat]
    /\ announced \subseteq Offers /\ answered \subseteq Offers

SlotsOK ==
    /\ pc \in [Requests -> Labels]
    /\ target \in [Requests -> Offers \cup {NoOffer}]
    /\ \A r \in Requests : pc[r] = "idle" <=> target[r] = NoOffer
    /\ aborts \in Nat

HistoryOK ==
    /\ contested \subseteq Artworks
    /\ peak \in [Offers \X Counted -> Nat]

LEMMA TypeSplit == TypeOK <=> RowsOK /\ SlotsOK /\ HistoryOK
  BY DEF TypeOK, RowsOK, SlotsOK, HistoryOK

\* What a request in flight is about.
LEMMA InFlightTarget ==
  ASSUME SlotsOK, NEW r \in Requests, pc[r] # "idle"
  PROVE  target[r] \in Offers
  BY DEF SlotsOK

\* The three ways a slot changes keep the slots well-typed.
LEMMA BeginSlots ==
  ASSUME SlotsOK, NEW r \in Requests, NEW o \in Offers,
         NEW label \in Labels \ {"idle"}, Begin(r, o, label)
  PROVE  SlotsOK'
  BY OffersAssumption DEF SlotsOK, Begin, At

LEMMA GotoSlots ==
  ASSUME SlotsOK, NEW r \in Requests, pc[r] # "idle",
         NEW label \in Labels \ {"idle"}, Goto(r, label)
  PROVE  SlotsOK'
  BY DEF SlotsOK, Goto

LEMMA EndSlots ==
  ASSUME SlotsOK, NEW r \in Requests, End(r)
  PROVE  SlotsOK'
  BY OffersAssumption DEF SlotsOK, End, Labels

\* Requests of one handler on one offer are finitely many.
LEMMA WorkingCount ==
  ASSUME NEW o, NEW h
  PROVE  IsFiniteSet(Working(o, h)) /\ Cardinality(Working(o, h)) \in Nat
  <1>1. IsFiniteSet(Working(o, h))
    BY OffersAssumption, FS_Subset DEF Working
  <1> QED
    BY <1>1, FS_CardinalityType

LEMMA MeetHistory ==
  ASSUME HistoryOK, NEW o \in Offers, NEW h, Meet(o, h)
  PROVE  HistoryOK'
  <1>1. contested' \subseteq Artworks
    BY OffersAssumption DEF HistoryOK, Meet
  <1>2. \A k \in Offers \X Counted : peak'[k] \in Nat
    BY WorkingCount DEF HistoryOK, Meet
  <1>3. peak' \in [Offers \X Counted -> Nat]
    BY <1>2 DEF Meet
  <1> QED
    BY <1>1, <1>3 DEF HistoryOK

LEMMA StartHistory ==
  ASSUME HistoryOK, NEW r \in Requests, Start(r)
  PROVE  HistoryOK'
  <1>1. PICK o \in Offers, label \in Labels : Begin(r, o, label)
    BY DEF Start, StartCreate, StartDecide, StartReject, StartCancel, StartAccept,
           StartPay, StartDeliver, StartRelease, Labels
  <1> QED
    BY <1>1, MeetHistory DEF Begin

LEMMA ContinueHistory ==
  ASSUME NEW r \in Requests, Continue(r)
  PROVE  UNCHANGED history
  BY DEF Continue, CreateReadReserved, CreateReadApproved, CreateInsert,
         CreateNotify, DecideWrite, DecideNotify, RejectWrite, CancelWrite,
         DeliverWrite, Write, AcceptLock, AcceptCheck, AcceptCommit, PayHold,
         PayCommit, ReleaseRead, ReleasePayout, ReleaseCommit, Goto, End

LEMMA StartSlots ==
  ASSUME SlotsOK, NEW r \in Requests, Start(r)
  PROVE  SlotsOK'
  <1>1. PICK o \in Offers, label \in Labels \ {"idle"} : Begin(r, o, label)
    BY DEF Start, StartCreate, StartDecide, StartReject, StartCancel, StartAccept,
           StartPay, StartDeliver, StartRelease, Labels
  <1> QED
    BY <1>1, BeginSlots

LEMMA StartRows ==
  ASSUME NEW r \in Requests, Start(r)
  PROVE  UNCHANGED <<rows, provider, notices>>
  BY DEF Start, StartCreate, StartDecide, StartReject, StartCancel, StartAccept,
         StartPay, StartDeliver, StartRelease, Begin

LEMMA ContinueSlots ==
  ASSUME SlotsOK, NEW r \in Requests, Continue(r)
  PROVE  SlotsOK'
  <1>1. pc[r] # "idle"
    BY DEF Continue, At, CreateReadReserved, CreateReadApproved, CreateInsert,
           CreateNotify, DecideWrite, DecideNotify, RejectWrite, CancelWrite,
           DeliverWrite, Write, AcceptLock, AcceptCheck, AcceptCommit, PayHold,
           PayCommit, ReleaseRead, ReleasePayout, ReleaseCommit
  <1>2. End(r) \/ \E label \in Labels \ {"idle"} : Goto(r, label)
    BY DEF Continue, CreateReadReserved, CreateReadApproved, CreateInsert,
           CreateNotify, DecideWrite, DecideNotify, RejectWrite, CancelWrite,
           DeliverWrite, Write, AcceptLock, AcceptCheck, AcceptCommit, PayHold,
           PayCommit, ReleaseRead, ReleasePayout, ReleaseCommit, Labels
  <1> QED
    BY <1>1, <1>2, GotoSlots, EndSlots

LEMMA SetStatusRows ==
  ASSUME status \in [Offers -> OfferStatus \cup {"none"}],
         NEW o \in Offers, NEW s \in OfferStatus, SetStatus(o, s)
  PROVE  status' \in [Offers -> OfferStatus \cup {"none"}]
  BY DEF SetStatus

LEMMA ContinueRows ==
  ASSUME RowsOK, SlotsOK, NEW r \in Requests, Continue(r)
  PROVE  RowsOK'
  <1> USE DEF At
  <1>1. CASE CreateReadReserved(r) \/ CreateReadApproved(r) \/ AcceptLock(r)
               \/ AcceptCheck(r) \/ ReleaseRead(r)
    BY <1>1 DEF CreateReadReserved, CreateReadApproved, AcceptLock, AcceptCheck,
                ReleaseRead, RowsOK, rows, provider, notices
  <1>2. CASE CreateInsert(r)
    BY <1>2, InFlightTarget
    DEF CreateInsert, SetStatus, RowsOK, provider, notices, OfferStatus
  <1>3. CASE CreateNotify(r) \/ DecideNotify(r)
    BY <1>3, InFlightTarget DEF CreateNotify, DecideNotify, RowsOK, rows, provider
  <1>4. CASE \E d \in ArtistDecision : DecideWrite(r, d)
    BY <1>4, InFlightTarget DEF DecideWrite, RowsOK, provider, notices
  <1>5. CASE RejectWrite(r) \/ CancelWrite(r) \/ DeliverWrite(r)
    BY <1>5, InFlightTarget
    DEF RejectWrite, CancelWrite, DeliverWrite, Write, SetStatus, RowsOK, provider,
        notices, OfferStatus
  <1>6. CASE AcceptCommit(r)
    BY <1>6 DEF AcceptCommit, RowsOK, provider, notices, OfferStatus
  <1>7. CASE PayHold(r)
    BY <1>7, InFlightTarget DEF PayHold, RowsOK, rows, notices
  <1>8. CASE PayCommit(r)
    BY <1>8, InFlightTarget
    DEF PayCommit, SetStatus, RowsOK, provider, notices, OfferStatus
  <1>9. CASE ReleasePayout(r)
    BY <1>9, InFlightTarget DEF ReleasePayout, RowsOK, rows, notices
  <1>10. CASE ReleaseCommit(r)
    BY <1>10, InFlightTarget
    DEF ReleaseCommit, SetStatus, RowsOK, provider, notices, OfferStatus, Shelf
  <1> QED
    BY <1>1, <1>2, <1>3, <1>4, <1>5, <1>6, <1>7, <1>8, <1>9, <1>10 DEF Continue

LEMMA TypeInductive == TypeOK /\ [Next]_vars => TypeOK'
  <1> SUFFICES ASSUME RowsOK, SlotsOK, HistoryOK, [Next]_vars
               PROVE  RowsOK' /\ SlotsOK' /\ HistoryOK'
    BY TypeSplit DEF TypeOK, RowsOK, SlotsOK, HistoryOK
  <1>1. CASE \E r \in Requests : Start(r)
    BY <1>1, StartSlots, StartRows, StartHistory DEF RowsOK, rows, provider, notices
  <1>2. CASE \E r \in Requests : Continue(r)
    BY <1>2, ContinueSlots, ContinueRows, ContinueHistory DEF HistoryOK, history
  <1>3. CASE \E r \in Requests : Abort(r)
    BY <1>3, OffersAssumption
    DEF Abort, At, RowsOK, SlotsOK, HistoryOK, Labels, rows, provider, notices, history
  <1>4. CASE \E a \in Artworks, s \in {"shown", "hidden"} : Reshelve(a, s)
    BY <1>4 DEF Reshelve, RowsOK, SlotsOK, HistoryOK, Shelf, provider, notices, history
  <1>5. CASE UNCHANGED vars
    BY <1>5 DEF vars, RowsOK, SlotsOK, HistoryOK
  <1> QED
    BY <1>1, <1>2, <1>3, <1>4, <1>5 DEF Next

\* Every reachable state is well-typed.
THEOREM TypeCorrect == Spec => []TypeOK
  <1>1. Init => TypeOK
    BY OffersAssumption DEF Init, TypeOK, Shelf, Labels
  <1> QED
    BY <1>1, TypeInductive, PTL DEF Spec

(***************************************************************************)
(* The artwork lock of accept(), for any overlap of requests.              *)
(***************************************************************************)

Holder(r) == pc[r] \in {"accept.check", "accept.commit"}

\* One accept() at a time holds an artwork's row.
LockHeldOnce ==
    \A r, q \in Requests :
        Holder(r) /\ Holder(q) /\ ArtworkOf[target[r]] = ArtworkOf[target[q]]
            => r = q

\* Past its check, an accept() knows that no offer on the artwork is ACCEPTED.
CommitClear ==
    \A r \in Requests :
        pc[r] = "accept.commit" =>
            \A o \in OffersOn(ArtworkOf[target[r]]) : status[o] # "ACCEPTED"

LockInv == TypeOK /\ LockHeldOnce /\ CommitClear /\ OneAccepted

\* What every step but those of accept() leaves alone.
NoNewHolder ==
    \A q \in Requests : Holder(q)' => pc'[q] = pc[q] /\ target'[q] = target[q]
NoNewAccepted ==
    \A o \in Offers : status'[o] = "ACCEPTED" => status[o] = "ACCEPTED"

LEMMA QuietStep ==
  ASSUME LockInv, TypeOK', NoNewHolder, NoNewAccepted
  PROVE  LockInv'
  <1>1. LockHeldOnce'
    BY DEF LockInv, LockHeldOnce, NoNewHolder, Holder
  <1>2. CommitClear'
    BY DEF LockInv, CommitClear, NoNewHolder, NoNewAccepted, OffersOn, Holder
  <1>3. OneAccepted'
    BY DEF LockInv, OneAccepted, NoNewAccepted
  <1> QED
    BY <1>1, <1>2, <1>3 DEF LockInv

LEMMA StartQuiet ==
  ASSUME TypeOK, NEW r \in Requests, Start(r)
  PROVE  NoNewHolder /\ NoNewAccepted
  <1>1. PICK o \in Offers,
             label \in Labels \ {"idle", "accept.check", "accept.commit"} :
                Begin(r, o, label)
    BY DEF Start, StartCreate, StartDecide, StartReject, StartCancel, StartAccept,
           StartPay, StartDeliver, StartRelease, Labels
  <1> QED
    BY <1>1 DEF Begin, TypeOK, NoNewHolder, NoNewAccepted, Holder, rows

LEMMA ContinueQuiet ==
  ASSUME TypeOK, NEW r \in Requests, Continue(r),
         ~AcceptLock(r), ~AcceptCheck(r), ~AcceptCommit(r)
  PROVE  NoNewHolder /\ NoNewAccepted
  <1>1. NoNewHolder
    BY DEF Continue, CreateReadReserved, CreateReadApproved, CreateInsert,
           CreateNotify, DecideWrite, DecideNotify, RejectWrite, CancelWrite,
           DeliverWrite, Write, PayHold, PayCommit, ReleaseRead, ReleasePayout,
           ReleaseCommit, Goto, End, TypeOK, NoNewHolder, Holder
  <1>2. NoNewAccepted
    BY DEF Continue, CreateReadReserved, CreateReadApproved, CreateInsert,
           CreateNotify, DecideWrite, DecideNotify, RejectWrite, CancelWrite,
           DeliverWrite, Write, PayHold, PayCommit, ReleaseRead, ReleasePayout,
           ReleaseCommit, SetStatus, TypeOK, NoNewAccepted, rows
  <1> QED
    BY <1>1, <1>2

LEMMA LockInductive == LockInv /\ [Next]_vars => LockInv'
  <1> SUFFICES ASSUME LockInv, [Next]_vars
               PROVE  LockInv'
    OBVIOUS
  <1>t. TypeOK /\ TypeOK'
    BY TypeInductive DEF LockInv
  <1>1. CASE \E r \in Requests : Start(r)
    BY <1>1, <1>t, StartQuiet, QuietStep
  <1>2. ASSUME NEW r \in Requests, Continue(r)
        PROVE  LockInv'
    <2>1. CASE AcceptLock(r)
      \* Nobody held the artwork of r before, and only r's counter moves.
      <3>1. LockHeldOnce'
        BY <2>1, <1>t DEF AcceptLock, Goto, Locked, TypeOK, LockInv, LockHeldOnce, Holder
      <3>2. CommitClear' /\ OneAccepted'
        BY <2>1, <1>t
        DEF AcceptLock, Goto, rows, TypeOK, LockInv, CommitClear, OneAccepted, OffersOn
      <3> QED
        BY <3>1, <3>2, <1>t DEF LockInv
    <2>2. CASE AcceptCheck(r)
      \* r was a holder; it goes on only if no offer is reserving.
      <3>1. LockHeldOnce'
        BY <2>2, <1>t
        DEF AcceptCheck, At, Goto, End, TypeOK, LockInv, LockHeldOnce, Holder
      <3>2. CommitClear'
        BY <2>2, <1>t
        DEF AcceptCheck, Goto, End, Reserved, Reserving, rows, TypeOK, LockInv,
            CommitClear, OffersOn
      <3>3. OneAccepted'
        BY <2>2 DEF AcceptCheck, rows, LockInv, OneAccepted
      <3> QED
        BY <3>1, <3>2, <3>3, <1>t DEF LockInv
    <2>3. CASE AcceptCommit(r)
      <3> DEFINE o == target[r]
      <3>o. o \in Offers /\ pc[r] = "accept.commit"
        BY <2>3, <1>t DEF AcceptCommit, At, TypeOK
      <3>1. LockHeldOnce'
        BY <2>3, <1>t DEF AcceptCommit, End, TypeOK, LockInv, LockHeldOnce, Holder
      \* The only offer that becomes ACCEPTED is r's own, and no offer on its
      \* artwork was.
      <3>2. \A p \in Offers :
               status'[p] = "ACCEPTED" =>
                   p = o \/ (status[p] = "ACCEPTED" /\ ArtworkOf[p] # ArtworkOf[o])
        BY <2>3, <3>o DEF AcceptCommit, LockInv, CommitClear, OffersOn
      <3>3. OneAccepted'
        BY <3>2, <3>o DEF LockInv, OneAccepted
      <3>4. CommitClear'
        <4> SUFFICES ASSUME NEW q \in Requests, pc'[q] = "accept.commit",
                            NEW p \in OffersOn(ArtworkOf[target'[q]])
                     PROVE  status'[p] # "ACCEPTED"
          BY DEF CommitClear, OffersOn
        <4>1. q # r /\ pc[q] = "accept.commit" /\ target'[q] = target[q]
          BY <2>3, <1>t DEF AcceptCommit, End, TypeOK
        <4>2. ArtworkOf[target[q]] # ArtworkOf[o]
          BY <4>1, <3>o DEF LockInv, LockHeldOnce, Holder
        <4> QED
          BY <4>1, <4>2, <3>2, <3>o DEF LockInv, CommitClear, OffersOn
      <3> QED
        BY <3>1, <3>3, <3>4, <1>t DEF LockInv
    <2> QED
      BY <2>1, <2>2, <2>3, <1>2, <1>t, ContinueQuiet, QuietStep
  <1>3. CASE \E r \in Requests : Abort(r)
    <2>1. NoNewHolder /\ NoNewAccepted
      BY <1>3, <1>t DEF Abort, rows, TypeOK, NoNewHolder, NoNewAccepted, Holder
    <2> QED
      BY <2>1, <1>t, QuietStep
  <1>4. CASE \E a \in Artworks, s \in {"shown", "hidden"} : Reshelve(a, s)
    <2>1. NoNewHolder /\ NoNewAccepted
      BY <1>4 DEF Reshelve, NoNewHolder, NoNewAccepted, Holder
    <2> QED
      BY <2>1, <1>t, QuietStep
  <1>5. CASE UNCHANGED vars
    <2>1. NoNewHolder /\ NoNewAccepted
      BY <1>5 DEF vars, NoNewHolder, NoNewAccepted, Holder
    <2> QED
      BY <2>1, <1>t, QuietStep
  <1> QED
    BY <1>1, <1>2, <1>3, <1>4, <1>5 DEF Next

\* The row lock does what accept()'s comment says: however requests overlap,
\* no two offers on one artwork are ever ACCEPTED together.
THEOREM NoDoubleAccept == Spec => []OneAccepted
  <1>1. Init => LockInv
    BY OffersAssumption
    DEF Init, LockInv, TypeOK, Shelf, Labels, LockHeldOnce, Holder, CommitClear, OneAccepted
  <1>2. LockInv => OneAccepted
    BY DEF LockInv
  <1> QED
    BY <1>1, <1>2, LockInductive, PTL DEF Spec

(***************************************************************************)
(* The escrow ledger, for any overlap of requests.                         *)
(***************************************************************************)

\* What a request in flight knows of the money for its offer.
PaidFor ==
    \A r \in Requests :
        /\ pc[r] = "pay.commit" => holds[target[r]] > 0
        /\ pc[r] \in {"deliver.write", "release.payout", "release.commit"} =>
               txn[target[r]] # "none"
        /\ pc[r] = "release.commit" => payouts[target[r]] > 0

LedgerInv == TypeOK /\ Ledger /\ SoldIsPaid /\ PaidFor

\* Money facts are never taken back: neither the provider nor the transaction
\* table loses what it has seen.
MoneyGrows ==
    \A o \in Offers :
        /\ holds'[o] >= holds[o] /\ payouts'[o] >= payouts[o]
        /\ txn[o] # "none" => txn'[o] # "none"
        /\ txn[o] = "RELEASED" => txn'[o] = "RELEASED"

LEMMA MoneyStep ==
  ASSUME TypeOK, [Next]_vars
  PROVE  MoneyGrows
  <1>1. CASE \E r \in Requests : Start(r)
    BY <1>1, StartRows DEF TypeOK, MoneyGrows, rows, provider
  <1>2. ASSUME NEW r \in Requests, Continue(r)
        PROVE  MoneyGrows
    <2>1. CASE PayHold(r) \/ ReleasePayout(r)
      BY <2>1 DEF PayHold, ReleasePayout, rows, TypeOK, MoneyGrows
    <2>2. CASE PayCommit(r) \/ ReleaseCommit(r)
      BY <2>2 DEF PayCommit, ReleaseCommit, provider, TypeOK, MoneyGrows
    <2>3. CASE ~PayHold(r) /\ ~ReleasePayout(r) /\ ~PayCommit(r) /\ ~ReleaseCommit(r)
      <3>1. UNCHANGED <<txn, holds, payouts>>
        BY <1>2, <2>3
        DEF Continue, CreateReadReserved, CreateReadApproved, CreateInsert,
            CreateNotify, DecideWrite, DecideNotify, RejectWrite, CancelWrite,
            DeliverWrite, Write, AcceptLock, AcceptCheck, AcceptCommit,
            ReleaseRead, rows, provider
      <3> QED
        BY <3>1 DEF TypeOK, MoneyGrows
    <2> QED
      BY <2>1, <2>2, <2>3
  <1>3. CASE \E r \in Requests : Abort(r)
    BY <1>3 DEF Abort, rows, provider, TypeOK, MoneyGrows
  <1>4. CASE \E a \in Artworks, s \in {"shown", "hidden"} : Reshelve(a, s)
    BY <1>4 DEF Reshelve, provider, TypeOK, MoneyGrows
  <1>5. CASE UNCHANGED vars
    BY <1>5 DEF vars, TypeOK, MoneyGrows
  <1> QED
    BY <1>1, <1>2, <1>3, <1>4, <1>5 DEF Next

\* A step that moves no counter into the paying part of a handler and moves no
\* row of the ledger keeps the invariant, whatever else it does.
NoNewPaying ==
    \A q \in Requests :
        pc'[q] \in {"pay.commit", "deliver.write", "release.payout", "release.commit"} =>
            pc'[q] = pc[q] /\ target'[q] = target[q]
LedgerRowsQuiet ==
    /\ \A o \in Offers :
         /\ txn'[o] = txn[o] /\ payouts'[o] = payouts[o]
         /\ status'[o] \in {"PAYMENT_HELD", "DELIVERED", "RELEASED"} =>
                status'[o] = status[o]
    /\ \A a \in Artworks : shelf'[a] = "sold" => shelf[a] = "sold"

LEMMA PaidForStable ==
  ASSUME LedgerInv, TypeOK', MoneyGrows, NoNewPaying
  PROVE  PaidFor'
  <1> SUFFICES ASSUME NEW q \in Requests,
                      pc'[q] \in {"pay.commit", "deliver.write",
                                  "release.payout", "release.commit"}
               PROVE  /\ pc'[q] = "pay.commit" => holds'[target'[q]] > 0
                      /\ pc'[q] # "pay.commit" => txn'[target'[q]] # "none"
                      /\ pc'[q] = "release.commit" => payouts'[target'[q]] > 0
    BY DEF PaidFor
  <1>1. pc'[q] = pc[q] /\ target'[q] = target[q]
    BY DEF NoNewPaying
  <1>2. target[q] \in Offers
    BY <1>1 DEF LedgerInv, TypeOK
  <1> QED
    BY <1>1, <1>2 DEF LedgerInv, PaidFor, MoneyGrows, TypeOK

LEMMA LedgerQuiet ==
  ASSUME LedgerInv, TypeOK', MoneyGrows, NoNewPaying, LedgerRowsQuiet
  PROVE  LedgerInv'
  <1>1. Ledger'
    BY DEF LedgerInv, Ledger, MoneyGrows, LedgerRowsQuiet, TypeOK
  <1>2. SoldIsPaid'
    BY DEF LedgerInv, SoldIsPaid, LedgerRowsQuiet, OffersOn
  <1> QED
    BY <1>1, <1>2, PaidForStable DEF LedgerInv

LEMMA LedgerInductive == LedgerInv /\ [Next]_vars => LedgerInv'
  <1> SUFFICES ASSUME LedgerInv, [Next]_vars
               PROVE  LedgerInv'
    OBVIOUS
  <1>t. TypeOK /\ TypeOK' /\ MoneyGrows
    BY TypeInductive, MoneyStep DEF LedgerInv
  <1>1. ASSUME NEW r \in Requests, Start(r)
        PROVE  LedgerInv'
    <2>1. LedgerRowsQuiet
      BY <1>1, StartRows DEF rows, provider, LedgerRowsQuiet
    <2>2. CASE \E o \in Offers, u \in Users : StartDeliver(r, o, u)
      \* The offer was read as PAYMENT_HELD, so its transaction row exists.
      <3>1. PICK o \in Offers : status[o] = "PAYMENT_HELD" /\ Begin(r, o, "deliver.write")
        BY <2>2 DEF StartDeliver, AssertTransition, AllowedTransitions, OfferStatus
      <3>2. PaidFor'
        BY <3>1, <1>t DEF Begin, rows, provider, LedgerInv, Ledger, PaidFor, TypeOK
      <3>3. Ledger' /\ SoldIsPaid'
        BY <3>1 DEF Begin, rows, provider, LedgerInv, Ledger, SoldIsPaid, OffersOn
      <3> QED
        BY <3>2, <3>3, <1>t DEF LedgerInv
    <2>3. CASE ~\E o \in Offers, u \in Users : StartDeliver(r, o, u)
      <3>1. PICK o \in Offers,
                 label \in Labels \ {"idle", "pay.commit", "deliver.write",
                                     "release.payout", "release.commit"} :
                    Begin(r, o, label)
        BY <1>1, <2>3
        DEF Start, StartCreate, StartDecide, StartReject, StartCancel, StartAccept,
            StartPay, StartRelease, Labels
      <3>2. NoNewPaying
        BY <3>1, <1>t DEF Begin, TypeOK, NoNewPaying
      <3> QED
        BY <2>1, <3>2, <1>t, LedgerQuiet
    <2> QED
      BY <2>2, <2>3
  <1>2. ASSUME NEW r \in Requests, Continue(r)
        PROVE  LedgerInv'
    <2> DEFINE o == target[r]
    <2>1. CASE DeliverWrite(r)
      <3>o. o \in Offers /\ txn[o] # "none"
        BY <2>1, <1>t DEF DeliverWrite, Write, At, TypeOK, LedgerInv, PaidFor
      <3>1. NoNewPaying
        BY <2>1, <1>t DEF DeliverWrite, Write, End, TypeOK, NoNewPaying
      <3>2. Ledger' /\ SoldIsPaid'
        BY <2>1, <3>o, <1>t
        DEF DeliverWrite, Write, SetStatus, provider, TypeOK, LedgerInv, Ledger,
            SoldIsPaid, OffersOn
      <3> QED
        BY <3>1, <3>2, <1>t, PaidForStable DEF LedgerInv
    <2>2. CASE PayHold(r)
      <3>o. o \in Offers
        BY <2>2, <1>t DEF PayHold, At, TypeOK
      <3>1. Ledger' /\ SoldIsPaid'
        BY <2>2, <1>t, <3>o
        DEF PayHold, rows, TypeOK, LedgerInv, Ledger, SoldIsPaid, OffersOn
      <3>2. PaidFor'
        BY <2>2, <1>t, <3>o DEF PayHold, Goto, rows, TypeOK, LedgerInv, PaidFor
      <3> QED
        BY <3>1, <3>2, <1>t DEF LedgerInv
    <2>3. CASE PayCommit(r)
      <3>o. o \in Offers /\ holds[o] > 0
        BY <2>3, <1>t DEF PayCommit, At, TypeOK, LedgerInv, PaidFor
      <3>1. NoNewPaying
        BY <2>3, <1>t DEF PayCommit, End, TypeOK, NoNewPaying
      <3>2. Ledger'
        BY <2>3, <3>o, <1>t DEF PayCommit, SetStatus, provider, TypeOK, LedgerInv, Ledger
      <3>3. SoldIsPaid'
        BY <2>3, <1>t DEF PayCommit, LedgerInv, SoldIsPaid, MoneyGrows, OffersOn
      <3> QED
        BY <3>1, <3>2, <3>3, <1>t, PaidForStable DEF LedgerInv
    <2>4. CASE ReleaseRead(r)
      <3>1. Ledger' /\ SoldIsPaid'
        BY <2>4 DEF ReleaseRead, rows, provider, LedgerInv, Ledger, SoldIsPaid, OffersOn
      <3>2. PaidFor'
        BY <2>4, <1>t
        DEF ReleaseRead, At, Goto, End, rows, provider, TypeOK, LedgerInv, PaidFor
      <3> QED
        BY <3>1, <3>2, <1>t DEF LedgerInv
    <2>5. CASE ReleasePayout(r)
      <3>o. o \in Offers /\ txn[o] # "none"
        BY <2>5, <1>t DEF ReleasePayout, At, TypeOK, LedgerInv, PaidFor
      <3>1. Ledger' /\ SoldIsPaid'
        BY <2>5, <3>o, <1>t
        DEF ReleasePayout, rows, TypeOK, LedgerInv, Ledger, SoldIsPaid, OffersOn
      <3>2. PaidFor'
        BY <2>5, <3>o, <1>t DEF ReleasePayout, Goto, rows, TypeOK, LedgerInv, PaidFor
      <3> QED
        BY <3>1, <3>2, <1>t DEF LedgerInv
    <2>6. CASE ReleaseCommit(r)
      <3>o. o \in Offers /\ holds[o] > 0 /\ payouts[o] > 0
        BY <2>6, <1>t DEF ReleaseCommit, At, TypeOK, LedgerInv, PaidFor, Ledger
      <3>1. NoNewPaying
        BY <2>6, <1>t DEF ReleaseCommit, End, TypeOK, NoNewPaying
      <3>2. Ledger'
        BY <2>6, <3>o, <1>t
        DEF ReleaseCommit, SetStatus, provider, TypeOK, LedgerInv, Ledger
      <3>3. SoldIsPaid'
        <4> SUFFICES ASSUME NEW a \in Artworks, shelf'[a] = "sold"
                     PROVE  \E p \in OffersOn(a) : txn'[p] = "RELEASED"
          BY DEF SoldIsPaid
        <4>1. CASE a = ArtworkOf[o]
          BY <4>1, <2>6, <3>o, <1>t DEF ReleaseCommit, OffersOn, TypeOK
        <4>2. CASE a # ArtworkOf[o]
          BY <4>2, <2>6, <1>t
          DEF ReleaseCommit, OffersOn, TypeOK, LedgerInv, SoldIsPaid, MoneyGrows
        <4> QED
          BY <4>1, <4>2
      <3> QED
        BY <3>1, <3>2, <3>3, <1>t, PaidForStable DEF LedgerInv
    <2>7. CASE /\ ~DeliverWrite(r) /\ ~PayHold(r) /\ ~PayCommit(r)
               /\ ~ReleaseRead(r) /\ ~ReleasePayout(r) /\ ~ReleaseCommit(r)
      <3>1. NoNewPaying
        BY <1>2, <2>7, <1>t
        DEF Continue, CreateReadReserved, CreateReadApproved, CreateInsert,
            CreateNotify, DecideWrite, DecideNotify, RejectWrite, CancelWrite,
            Write, AcceptLock, AcceptCheck, AcceptCommit, Goto, End, TypeOK,
            NoNewPaying
      <3>2. LedgerRowsQuiet
        BY <1>2, <2>7, <1>t
        DEF Continue, CreateReadReserved, CreateReadApproved, CreateInsert,
            CreateNotify, DecideWrite, DecideNotify, RejectWrite, CancelWrite,
            Write, AcceptLock, AcceptCheck, AcceptCommit, SetStatus, rows, provider,
            TypeOK, LedgerRowsQuiet
      <3> QED
        BY <3>1, <3>2, <1>t, LedgerQuiet
    <2> QED
      BY <2>1, <2>2, <2>3, <2>4, <2>5, <2>6, <2>7
  <1>3. CASE \E r \in Requests : Abort(r)
    <2>1. NoNewPaying /\ LedgerRowsQuiet
      BY <1>3, <1>t
      DEF Abort, rows, provider, TypeOK, NoNewPaying, LedgerRowsQuiet
    <2> QED
      BY <2>1, <1>t, LedgerQuiet
  <1>4. CASE \E a \in Artworks, s \in {"shown", "hidden"} : Reshelve(a, s)
    <2>1. NoNewPaying /\ LedgerRowsQuiet
      BY <1>4, <1>t DEF Reshelve, provider, TypeOK, NoNewPaying, LedgerRowsQuiet
    <2> QED
      BY <2>1, <1>t, LedgerQuiet
  <1>5. CASE UNCHANGED vars
    <2>1. NoNewPaying /\ LedgerRowsQuiet
      BY <1>5 DEF vars, NoNewPaying, LedgerRowsQuiet
    <2> QED
      BY <2>1, <1>t, LedgerQuiet
  <1> QED
    BY <1>1, <1>2, <1>3, <1>4, <1>5 DEF Next

LEMMA LedgerInit == Init => LedgerInv
  BY OffersAssumption
  DEF Init, LedgerInv, TypeOK, Shelf, Labels, Ledger, SoldIsPaid, PaidFor

\* However requests overlap and die, a transaction row is backed by a call to
\* the provider and an offer's status by a transaction row.
THEOREM LedgerSound == Spec => []Ledger
  <1>1. LedgerInv => Ledger
    BY DEF LedgerInv
  <1> QED
    BY <1>1, LedgerInit, LedgerInductive, PTL DEF Spec

\* However requests overlap and die, an artwork that shows SOLD has an offer
\* whose payment was released.
THEOREM SoldMeansPaid == Spec => []SoldIsPaid
  <1>1. LedgerInv => SoldIsPaid
    BY DEF LedgerInv
  <1> QED
    BY <1>1, LedgerInit, LedgerInductive, PTL DEF Spec

=============================================================================
