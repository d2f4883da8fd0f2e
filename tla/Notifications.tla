--------------------------- MODULE Notifications ---------------------------
(***************************************************************************)
(* Who hears of an event: NotificationsService, NotificationsGateway and   *)
(* OrganizationsService.getOrgAdminUserIds, as offers and removal requests *)
(* call them, against clients that connect, fetch and drop out.             *)
(*                                                                         *)
(* The caller stores its event, reads the recipients, and createForMany    *)
(* starts one insert per recipient at once; each insert that succeeds is   *)
(* followed by a push to the user's room.  A push is delivered, in order,  *)
(* to the sockets in the room at that moment and kept for nobody.           *)
(***************************************************************************)
EXTENDS Naturals, FiniteSets

CONSTANTS
    Users,
    Events,     \* offers, decisions and removal requests of one organization
    Clients,    \* browser tabs, each signed in as one user
    UserOf,     \* the user of a client
    PartyOf,    \* the user an event is told besides the admins, or None
    RecentLimit,
    None

ASSUME NotificationsAssumption ==
    /\ None \notin Users \cup Nat
    /\ UserOf \in [Clients -> Users]
    /\ PartyOf \in [Events -> Users \cup {None}]
    /\ RecentLimit \in Nat

VARIABLES
    admins,   \* users with role GALLERY_ADMIN in the organization
    phase,    \* how far the caller is with an event
    due,      \* inserts in flight
    stored,   \* Notification rows
    stamp,    \* their createdAt: the rows are counted as they are inserted
    toPush,   \* rows whose insert returned and whose push is still to come
    read,     \* rows with readAt set
    failed,   \* inserts that failed (history)
    link,     \* a client's socket: "off", "verifying" its token, or "joined"
    shown,    \* the rows a client has been told of
    asOf      \* how many rows were stored when a client last fetched after it
              \* joined the user's room, None if it did not (history)

rows == <<due, stored, stamp, toPush, read, failed>>
clients == <<link, shown, asOf>>
vars == <<admins, phase, due, stored, stamp, toPush, read, failed, link, shown, asOf>>

Phases == {"none", "raised", "sent", "dead"}

\* One create() of createForMany: the list of recipients is the party followed
\* by the admins, so a user who is both has two.
Deliveries == [event : Events, user : Users, as : {"party", "admin"}]

RowsOf(u) == {d \in stored : d.user = u}

\* The rows of d's user that are newer than d, among the first n rows stored.
NewerThan(d, n) == {x \in RowsOf(d.user) : stamp[d] < stamp[x] /\ stamp[x] <= n}

\* fault: the oldest come first
RecentAscending(u) ==
    {d \in RowsOf(u) : Cardinality({x \in RowsOf(u) : stamp[x] < stamp[d]}) < RecentLimit}

\* findMany with orderBy createdAt desc and take RECENT_LIMIT.
Recent(u) ==
    {d \in RowsOf(u) : Cardinality(NewerThan(d, Cardinality(stored))) < RecentLimit}

Fresh == {k \in Clients : asOf[k] # None}

-----------------------------------------------------------------------------
(* The caller, and createForMany.                                             *)

\* create() or setArtistDecision() of an offer, or create() of a removal
\* request, has stored its row.
Raise(n) ==
    /\ phase[n] = "none"
    /\ phase' = [phase EXCEPT ![n] = "raised"]
    /\ UNCHANGED <<admins, rows, clients>>

\* getOrgAdminUserIds, and the start of all inserts.
ReadRecipients(n) ==
    /\ phase[n] = "raised"
    /\ due' = due \cup {d \in Deliveries :
                  /\ d.event = n
                  /\ \/ d.as = "party" /\ d.user = PartyOf[n]
                     \/ d.as = "admin" /\ d.user \in admins}
    /\ phase' = [phase EXCEPT ![n] = "sent"]
    /\ UNCHANGED <<admins, stored, stamp, toPush, read, failed, clients>>

\* The process stops, or the request dies before its inserts: nothing takes up
\* what was left.
Abort(n) ==
    /\ phase[n] \in {"raised", "sent"}
    /\ phase' = [phase EXCEPT ![n] = "dead"]
    /\ due' = {d \in due : d.event # n}
    /\ toPush' = {d \in toPush : d.event # n}
    /\ UNCHANGED <<admins, stored, stamp, read, failed, clients>>

Insert(d) ==
    /\ d \in due
    /\ due' = due \ {d}
    /\ stored' = stored \cup {d}
    /\ stamp' = [stamp EXCEPT ![d] = Cardinality(stored) + 1]
    /\ toPush' = toPush \cup {d}
    /\ UNCHANGED <<admins, phase, read, failed, clients>>

\* fault: one failed insert gives up the others of the event
InsertFailsAll(d) ==
    /\ d \in due
    /\ due' = {x \in due : x.event # d.event}
    /\ failed' = failed \cup {d}
    /\ UNCHANGED <<admins, phase, stored, stamp, toPush, read, clients>>

\* fault: a failed insert is pushed like the others
InsertFailsPushed(d) ==
    /\ d \in due
    /\ due' = due \ {d}
    /\ failed' = failed \cup {d}
    /\ toPush' = toPush \cup {d}
    /\ UNCHANGED <<admins, phase, stored, stamp, read, clients>>

\* Promise.all rejects, and the caller answers with an error, but the other
\* inserts were started and go on.
InsertFails(d) ==
    /\ d \in due
    /\ due' = due \ {d}
    /\ failed' = failed \cup {d}
    /\ UNCHANGED <<admins, phase, stored, stamp, toPush, read, clients>>

\* fault: the push does not wait for the insert
PushEarly(d) ==
    /\ d \in toPush \cup due
    /\ toPush' = toPush \ {d}
    /\ shown' = [k \in Clients |->
                    IF UserOf[k] = d.user /\ link[k] = "joined"
                    THEN shown[k] \cup {d} ELSE shown[k]]
    /\ UNCHANGED <<admins, phase, due, stored, stamp, read, failed, link, asOf>>

\* emitToUser
Push(d) ==
    /\ d \in toPush
    /\ toPush' = toPush \ {d}
    /\ shown' = [k \in Clients |->
                    IF UserOf[k] = d.user /\ link[k] = "joined"
                    THEN shown[k] \cup {d} ELSE shown[k]]
    /\ UNCHANGED <<admins, phase, due, stored, stamp, read, failed, link, asOf>>

-----------------------------------------------------------------------------
(* Clients.  The user reads and marks notifications over HTTP, and is pushed  *)
(* new ones once the token of the socket is verified and the room joined; an  *)
(* anonymous socket never is.                                                 *)

Connect(k) ==
    /\ link[k] = "off"
    /\ link' = [link EXCEPT ![k] = "verifying"]
    /\ UNCHANGED <<admins, phase, rows, shown, asOf>>

JoinUserRoom(k) ==
    /\ link[k] = "verifying"
    /\ link' = [link EXCEPT ![k] = "joined"]
    /\ UNCHANGED <<admins, phase, rows, shown, asOf>>

\* The connection is lost, or the token turns out to be invalid.
Disconnect(k) ==
    /\ link[k] # "off"
    /\ link' = [link EXCEPT ![k] = "off"]
    /\ asOf' = [asOf EXCEPT ![k] = None]
    /\ UNCHANGED <<admins, phase, rows, shown>>

\* findMine()
Fetch(k) ==
    /\ shown' = [shown EXCEPT ![k] = @ \cup Recent(UserOf[k])]
    /\ asOf' = [asOf EXCEPT ![k] = IF link[k] = "joined" THEN Cardinality(stored) ELSE @]
    /\ UNCHANGED <<admins, phase, rows, link>>

\* The row is read first, but no row ever changes its owner or is unread again.
MarkRead(k, d) ==
    /\ d \in (shown[k] \cap stored) \ read
    /\ read' = read \cup {d}
    /\ UNCHANGED <<admins, phase, due, stored, stamp, toPush, failed, clients>>

MarkAllRead(u) ==
    /\ ~(RowsOf(u) \subseteq read)
    /\ read' = read \cup RowsOf(u)
    /\ UNCHANGED <<admins, phase, due, stored, stamp, toPush, failed, clients>>

\* Module Accounts has the details.
ChangeAdmins(u) ==
    /\ admins' = IF u \in admins THEN admins \ {u} ELSE admins \cup {u}
    /\ UNCHANGED <<phase, rows, clients>>

-----------------------------------------------------------------------------
Init ==
    /\ admins \in SUBSET Users
    /\ phase = [n \in Events |-> "none"]
    /\ stamp = [d \in Deliveries |-> 0]
    /\ due = {} /\ stored = {} /\ toPush = {} /\ read = {} /\ failed = {}
    /\ link = [k \in Clients |-> "off"]
    /\ shown = [k \in Clients |-> {}]
    /\ asOf = [k \in Clients |-> None]

Deliver(d) == Insert(d) \/ InsertFails(d) \/ Push(d)

Next ==
    \/ \E n \in Events : Raise(n) \/ ReadRecipients(n) \/ Abort(n)
    \/ \E d \in Deliveries : Deliver(d)
    \/ \E k \in Clients :
        \/ Connect(k) \/ JoinUserRoom(k) \/ Disconnect(k) \/ Fetch(k)
        \/ \E d \in Deliveries : MarkRead(k, d)
    \/ \E u \in Users : MarkAllRead(u) \/ ChangeAdmins(u)

Spec == Init /\ [][Next]_vars

\* Node and the database go on with what a live process has started; nobody has
\* to connect, fetch or read.
Fairness ==
    /\ \A n \in Events : WF_vars(ReadRecipients(n))
    /\ \A d \in Deliveries : WF_vars(Deliver(d))

FairSpec == Spec /\ Fairness

-----------------------------------------------------------------------------
(* Properties of every interleaving.                                          *)

\* Every variable has its type; only a row is pushed or read.
TypeOK ==
    /\ admins \subseteq Users
    /\ phase \in [Events -> Phases]
    /\ due \subseteq Deliveries /\ stored \subseteq Deliveries
    /\ failed \subseteq Deliveries /\ stamp \in [Deliveries -> Nat]
    /\ toPush \subseteq stored /\ read \subseteq stored
    /\ link \in [Clients -> {"off", "verifying", "joined"}]
    /\ shown \in [Clients -> SUBSET Deliveries]
    /\ asOf \in [Clients -> Nat \cup {None}]

\* A client that is told of a notification can mark it read: the row exists and
\* is its user's, whether it came by push or by fetch, and also when the push
\* arrived before the request that caused it was answered.
ShownIsStored == \A k \in Clients : shown[k] \subseteq RowsOf(UserOf[k])

\* A client that joined its user's room and then fetched misses nothing but what
\* RECENT_LIMIT newer notifications hid from that fetch: any other it has been
\* told, or will be, unless the process that stored it stopped.  What the user is
\* told afterwards comes by push, however many there are.
NothingMissed ==
    \A k \in Fresh : \A d \in RowsOf(UserOf[k]) :
        \/ d \in shown[k] \/ d \in toPush \/ phase[d.event] = "dead"
        \/ Cardinality(NewerThan(d, asOf[k])) >= RecentLimit

\* Every event is told to its party and to each user who was an admin when it
\* happened and stays one, unless the user's own insert failed or the process
\* stopped: one failed insert takes nothing from the others.
EveryoneIsTold ==
    \A n \in Events, u \in Users :
        phase[n] = "raised" /\ (u \in admins \/ u = PartyOf[n]) ~>
            \/ \E d \in stored \cup failed : d.event = n /\ d.user = u
            \/ phase[n] = "dead"
            \/ u \notin admins /\ u # PartyOf[n]

=============================================================================
