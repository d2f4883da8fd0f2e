------------------------ MODULE NotificationsProofs ------------------------
(***************************************************************************)
(* Machine-checked proofs about Notifications, for every set of users,     *)
(* events and clients.                                                     *)
(***************************************************************************)
EXTENDS Notifications, FiniteSetTheorems, TLAPS

(***************************************************************************)
(* The inductive invariant.  Besides the properties of the runs it says:   *)
(* a delivery is in flight or stored only once its caller has sent it, and *)
(* no row is inserted twice; the rows are finitely many, and no more were  *)
(* stored when a client fetched than are now, so that a row inserted since *)
(* is newer than all that its fetch could show; and a client counts as     *)
(* fresh only while it is in its user's room, which is why a push reaches  *)
(* it.                                                                     *)
(***************************************************************************)

FreshJoined == \A k \in Fresh : link[k] = "joined"

OneInsert ==
    /\ due \cap stored = {}
    /\ \A d \in due \cup stored : phase[d.event] \notin {"none", "raised"}

Counted ==
    /\ IsFiniteSet(stored)
    /\ \A k \in Fresh : asOf[k] <= Cardinality(stored)

IInv == TypeOK /\ ShownIsStored /\ NothingMissed /\ FreshJoined /\ OneInsert /\ Counted

\* What NothingMissed says of one row of one client.
Reaches(k, d) ==
    \/ d \in shown[k] \/ d \in toPush \/ phase[d.event] = "dead"
    \/ Cardinality(NewerThan(d, asOf[k])) >= RecentLimit

LEMMA Missed == NothingMissed <=> \A k \in Fresh : \A d \in RowsOf(UserOf[k]) : Reaches(k, d)
  BY DEF NothingMissed, Reaches

LEMMA CountIsNat == IInv => Cardinality(stored) \in Nat
  BY FS_CardinalityType DEF IInv, Counted

LEMMA InitIInv == Init => IInv
  <1> SUFFICES ASSUME Init PROVE IInv
    OBVIOUS
  <1>1. Fresh = {} /\ stored = {} /\ due = {}
    BY DEF Init, Fresh
  <1>2. TypeOK /\ ShownIsStored
    BY NotificationsAssumption DEF Init, TypeOK, ShownIsStored, RowsOf, Phases
  <1>3. NothingMissed /\ FreshJoined /\ OneInsert
    BY <1>1 DEF NothingMissed, FreshJoined, OneInsert
  <1>4. Counted
    BY <1>1, FS_EmptySet DEF Counted
  <1>. QED  BY <1>2, <1>3, <1>4 DEF IInv

\* A step that stores nothing and takes nothing from what clients were told keeps
\* all but the types, if what it takes from toPush is shown or its caller dead.
LEMMA NothingStored ==
  ASSUME IInv, UNCHANGED <<stored, stamp>>,
         \A k \in Fresh' : k \in Fresh /\ asOf'[k] = asOf[k],
         \A k \in Clients : shown[k] \subseteq shown'[k] /\ shown'[k] \subseteq RowsOf(UserOf[k]),
         \A n \in Events : phase[n] = "dead" => phase'[n] = "dead",
         \A k \in Fresh' : \A d \in toPush : d.user = UserOf[k] =>
             d \in toPush' \/ d \in shown'[k] \/ phase'[d.event] = "dead"
  PROVE  ShownIsStored' /\ NothingMissed' /\ Counted'
  <1>1. ShownIsStored'
    BY DEF ShownIsStored, RowsOf
  <1>2. NothingMissed'
    <2> SUFFICES ASSUME NEW k \in Fresh', NEW d \in RowsOf(UserOf[k])
                 PROVE  \/ d \in shown'[k] \/ d \in toPush' \/ phase'[d.event] = "dead"
                        \/ Cardinality(NewerThan(d, asOf[k])) >= RecentLimit
      BY DEF NothingMissed, RowsOf, NewerThan
    <2>1. /\ k \in Fresh /\ k \in Clients /\ d.user = UserOf[k]
          /\ d \in Deliveries /\ d.event \in Events
      BY DEF IInv, TypeOK, RowsOf, Deliveries, Fresh
    <2>2. Reaches(k, d)
      BY <2>1, Missed DEF IInv
    <2>. QED  BY <2>1, <2>2 DEF Reaches
  <1>3. Counted'
    BY DEF IInv, Counted
  <1>. QED  BY <1>1, <1>2, <1>3

\* The caller of an event: nothing that is shown or stored changes, and what an
\* Abort takes from toPush is excused by the phase it leaves.
LEMMA CallerIInv ==
  ASSUME IInv, NEW n \in Events, Raise(n) \/ ReadRecipients(n) \/ Abort(n) PROVE IInv'
  <1>. USE DEF IInv, rows, clients
  <1>0. \A d \in Deliveries : d.event \in Events
    BY DEF Deliveries
  <1>1. TypeOK' /\ FreshJoined'
    BY DEF TypeOK, FreshJoined, Fresh, Phases, Raise, ReadRecipients, Abort
  <1>2. OneInsert'
    BY <1>0 DEF TypeOK, OneInsert, Raise, ReadRecipients, Abort
  <1>3. ShownIsStored' /\ NothingMissed' /\ Counted'
    <2>1. /\ UNCHANGED <<stored, stamp, clients>>
          /\ \A m \in Events : phase[m] = "dead" => phase'[m] = "dead"
          /\ \A d \in toPush : d \in toPush' \/ phase'[d.event] = "dead"
      BY <1>0 DEF TypeOK, Raise, ReadRecipients, Abort
    <2>. QED  BY <2>1, NothingStored DEF ShownIsStored, Fresh
  <1>. QED  BY <1>1, <1>2, <1>3

\* One delivery: a row is due a push from the moment it is stored, and is newer
\* than whatever a client has fetched.
LEMMA InsertIInv ==
  ASSUME IInv, NEW d \in Deliveries, Insert(d) PROVE IInv'
  <1>. USE DEF IInv
  <1>1. /\ d \in due /\ d \notin stored
        /\ stored' = stored \cup {d} /\ toPush' = toPush \cup {d} /\ due' = due \ {d}
        /\ stamp' = [stamp EXCEPT ![d] = Cardinality(stored) + 1]
        /\ UNCHANGED <<phase, clients>>
    BY DEF Insert, OneInsert
  <1>2. /\ Cardinality(stored) \in Nat /\ IsFiniteSet(stored')
        /\ Cardinality(stored') = Cardinality(stored) + 1
    BY <1>1, CountIsNat, FS_AddElement DEF Counted
  <1>3. TypeOK'
    BY <1>1, <1>2 DEF TypeOK, Insert, clients
  <1>4. FreshJoined' /\ OneInsert' /\ Fresh' = Fresh
    BY <1>1 DEF FreshJoined, OneInsert, Fresh, clients
  <1>5. ShownIsStored'
    BY <1>1 DEF ShownIsStored, RowsOf, clients
  <1>6. Counted'
    <2>1. \A k \in Fresh : asOf[k] \in Nat
      BY DEF TypeOK, Fresh
    <2>2. ASSUME NEW k \in Fresh PROVE asOf[k] <= Cardinality(stored')
      <3>1. asOf[k] <= Cardinality(stored)
        BY DEF Counted
      <3>. QED  BY <1>2, <2>1, <3>1
    <2>3. asOf' = asOf
      BY <1>1 DEF clients
    <2>. QED  BY <1>2, <1>4, <2>2, <2>3 DEF Counted
  <1>7. NothingMissed'
    <2> SUFFICES ASSUME NEW k \in Fresh, NEW x \in RowsOf(UserOf[k])'
                 PROVE  \/ x \in shown[k] \/ x \in toPush' \/ phase[x.event] = "dead"
                        \/ Cardinality(NewerThan(x, asOf[k])') >= RecentLimit
      BY <1>1, <1>4 DEF NothingMissed, NewerThan, RowsOf, clients
    <2>1. CASE x = d
      BY <1>1, <2>1
    <2>2. CASE x # d
      <3>1. x \in RowsOf(UserOf[k]) /\ x \in Deliveries
        BY <1>1, <2>2 DEF RowsOf, TypeOK
      <3>2. Reaches(k, x)
        BY <3>1, Missed
      <3>3. NewerThan(x, asOf[k])' = NewerThan(x, asOf[k])
        <4>1. asOf[k] \in Nat /\ asOf[k] <= Cardinality(stored) /\ asOf' = asOf
          BY <1>1 DEF TypeOK, Fresh, Counted, clients
        <4>2. ~(stamp'[d] <= asOf[k]) /\ stamp'[x] = stamp[x]
          BY <1>1, <1>2, <2>2, <3>1, <4>1 DEF TypeOK
        <4>3. \A y \in stored : stamp'[y] = stamp[y]
          BY <1>1 DEF TypeOK
        <4>. QED  BY <1>1, <4>1, <4>2, <4>3 DEF NewerThan, RowsOf
      <3>. QED  BY <1>1, <3>2, <3>3 DEF Reaches
    <2>. QED  BY <2>1, <2>2
  <1>. QED  BY <1>3, <1>4, <1>5, <1>6, <1>7

LEMMA InsertFailsIInv ==
  ASSUME IInv, NEW d \in Deliveries, InsertFails(d) PROVE IInv'
  <1>. USE DEF IInv, InsertFails, clients
  <1>1. TypeOK' /\ FreshJoined' /\ OneInsert'
    BY DEF TypeOK, FreshJoined, OneInsert, Fresh
  <1>2. ShownIsStored' /\ NothingMissed' /\ Counted'
    BY NothingStored DEF ShownIsStored, Fresh
  <1>. QED  BY <1>1, <1>2

LEMMA PushIInv ==
  ASSUME IInv, NEW d \in Deliveries, Push(d) PROVE IInv'
  <1>. USE DEF IInv, Push
  <1>1. TypeOK' /\ FreshJoined' /\ OneInsert'
    BY DEF TypeOK, FreshJoined, OneInsert, Fresh
  <1>2. d \in stored /\ d \in RowsOf(d.user)
    BY DEF TypeOK, RowsOf
  <1>3. \A k \in Clients : shown[k] \subseteq shown'[k] /\ shown'[k] \subseteq RowsOf(UserOf[k])
    BY <1>2 DEF TypeOK, ShownIsStored
  <1>4. \A k \in Fresh : \A x \in toPush : x.user = UserOf[k] =>
            x \in toPush' \/ x \in shown'[k]
    BY DEF FreshJoined, Fresh
  <1>5. ShownIsStored' /\ NothingMissed' /\ Counted'
    BY <1>3, <1>4, NothingStored DEF Fresh
  <1>. QED  BY <1>1, <1>5

\* A client's socket, and what it asks for over HTTP.
LEMMA LinkIInv ==
  ASSUME IInv, NEW k \in Clients, Connect(k) \/ JoinUserRoom(k) \/ Disconnect(k)
  PROVE  IInv'
  <1>. USE DEF IInv, rows
  <1>1. TypeOK' /\ OneInsert'
    BY DEF TypeOK, OneInsert, Connect, JoinUserRoom, Disconnect
  <1>2. FreshJoined' /\ \A l \in Fresh' : l \in Fresh /\ asOf'[l] = asOf[l]
    BY DEF TypeOK, Fresh, FreshJoined, Connect, JoinUserRoom, Disconnect
  <1>3. ShownIsStored' /\ NothingMissed' /\ Counted'
    <2>1. UNCHANGED <<stored, stamp, toPush, phase, shown>>
      BY DEF Connect, JoinUserRoom, Disconnect
    <2>. QED  BY <1>2, <2>1, NothingStored DEF ShownIsStored
  <1>. QED  BY <1>1, <1>2, <1>3

\* What a fetch does not show has RecentLimit newer rows among those stored.
LEMMA FetchIInv ==
  ASSUME IInv, NEW k \in Clients, Fetch(k) PROVE IInv'
  <1>. USE DEF IInv
  <1>0. /\ UNCHANGED <<phase, rows, link>>
        /\ shown' = [shown EXCEPT ![k] = @ \cup Recent(UserOf[k])]
        /\ asOf' = [asOf EXCEPT ![k] = IF link[k] = "joined" THEN Cardinality(stored) ELSE @]
    BY DEF Fetch
  <1>1. Recent(UserOf[k]) \subseteq RowsOf(UserOf[k]) /\ RowsOf(UserOf[k]) \subseteq Deliveries
    BY DEF Recent, RowsOf, TypeOK
  <1>2. TypeOK'
    BY <1>0, <1>1, CountIsNat DEF TypeOK, Fetch, rows
  <1>3. FreshJoined' /\ OneInsert'
    BY <1>0, NotificationsAssumption DEF TypeOK, FreshJoined, OneInsert, Fresh, rows
  <1>4. ShownIsStored'
    BY <1>0, <1>1 DEF ShownIsStored, TypeOK, RowsOf, rows
  <1>5. Counted'
    BY <1>0, CountIsNat DEF Counted, Fresh, TypeOK, rows
  <1>6. NothingMissed'
    <2> SUFFICES ASSUME NEW l \in Fresh', NEW d \in RowsOf(UserOf[l])
                 PROVE  \/ d \in shown'[l] \/ d \in toPush \/ phase[d.event] = "dead"
                        \/ Cardinality(NewerThan(d, asOf'[l])) >= RecentLimit
      BY <1>0 DEF NothingMissed, RowsOf, NewerThan, rows
    <2>1. l \in Clients /\ shown[l] \subseteq shown'[l]
      BY <1>0 DEF TypeOK, Fresh
    <2>2. CASE l = k /\ link[k] = "joined"
      <3>1. asOf'[l] = Cardinality(stored)
        BY <1>0, <2>2 DEF TypeOK
      <3>2. CASE d \in Recent(UserOf[k])
        BY <1>0, <2>2, <3>2 DEF TypeOK
      <3>3. CASE d \notin Recent(UserOf[k])
        <4>1. ~(Cardinality(NewerThan(d, Cardinality(stored))) < RecentLimit)
          BY <2>2, <3>3 DEF Recent
        <4>2. /\ NewerThan(d, Cardinality(stored)) \subseteq stored
          BY DEF NewerThan, RowsOf
        <4>3. Cardinality(NewerThan(d, Cardinality(stored))) \in Nat
          BY <4>2, FS_Subset, FS_CardinalityType DEF Counted
        <4>. QED  BY <3>1, <4>1, <4>3, NotificationsAssumption
      <3>. QED  BY <3>2, <3>3
    <2>3. CASE ~(l = k /\ link[k] = "joined")
      <3>1. asOf'[l] = asOf[l] /\ l \in Fresh
        BY <1>0, <2>1, <2>3 DEF TypeOK, Fresh
      <3>2. Reaches(l, d)
        BY <3>1, Missed
      <3>. QED  BY <2>1, <3>1, <3>2 DEF Reaches
    <2>. QED  BY <2>2, <2>3
  <1>. QED  BY <1>2, <1>3, <1>4, <1>5, <1>6

LEMMA ReadIInv ==
  ASSUME IInv,
         \/ \E k \in Clients, d \in Deliveries : MarkRead(k, d)
         \/ \E u \in Users : MarkAllRead(u) \/ ChangeAdmins(u)
  PROVE  IInv'
  <1>. USE DEF IInv
  <1>1. UNCHANGED <<phase, due, stored, stamp, toPush, failed, clients>>
    BY DEF MarkRead, MarkAllRead, ChangeAdmins, rows
  <1>2. TypeOK'
    <2>1. read' \subseteq stored /\ admins' \subseteq Users
      BY DEF TypeOK, MarkRead, MarkAllRead, ChangeAdmins, RowsOf, rows
    <2>. QED  BY <1>1, <2>1 DEF TypeOK, clients
  <1>3. FreshJoined' /\ OneInsert'
    BY <1>1 DEF FreshJoined, Fresh, OneInsert, clients
  <1>4. ShownIsStored' /\ NothingMissed' /\ Counted'
    BY <1>1, NothingStored DEF ShownIsStored, Fresh, clients
  <1>. QED  BY <1>2, <1>3, <1>4

LEMMA NextIInv == IInv /\ [Next]_vars => IInv'
  <1> SUFFICES ASSUME IInv, [Next]_vars PROVE IInv'
    OBVIOUS
  <1>1. CASE UNCHANGED vars
    BY <1>1
    DEF IInv, TypeOK, ShownIsStored, NothingMissed, NewerThan, FreshJoined, Fresh, OneInsert,
        Counted, RowsOf, vars
  <1>2. CASE Next
    BY <1>2, CallerIInv, InsertIInv, InsertFailsIInv, PushIInv, LinkIInv, FetchIInv,
       ReadIInv DEF Next, Deliver
  <1>. QED  BY <1>1, <1>2

(***************************************************************************)
(* The theorems.                                                           *)
(***************************************************************************)

\* Every variable keeps its type, and only a stored row is pushed or read.
THEOREM TypeCorrect == Spec => []TypeOK
  <1>1. IInv => TypeOK
    BY DEF IInv
  <1>. QED  BY InitIInv, NextIInv, <1>1, PTL DEF Spec

\* A client is told of nothing but rows of its user: the push waits for the
\* insert (NotificationsService.create) and goes to the user's room only.
THEOREM OnlyStoredIsShown == Spec => []ShownIsStored
  <1>1. IInv => ShownIsStored
    BY DEF IInv
  <1>. QED  BY InitIInv, NextIInv, <1>1, PTL DEF Spec

\* Join the room, then fetch, and no notification is missed but those that
\* RECENT_LIMIT newer ones hid from the fetch, unless the process that stored it
\* stopped, whatever connections, pushes and inserts do meanwhile
\* (notifications.service.ts:34).
THEOREM JoinThenFetch == Spec => []NothingMissed
  <1>1. IInv => NothingMissed
    BY DEF IInv
  <1>. QED  BY InitIInv, NextIInv, <1>1, PTL DEF Spec

=============================================================================
