------------------------------ MODULE Gateway ------------------------------
(***************************************************************************)
(* The live visitor counter: ExhibitionGateway                             *)
(* (realtime/exhibition.gateway.ts) over the Socket.IO rooms of one or more *)
(* API instances, linked by RedisIoAdapter or not.                         *)
(*                                                                         *)
(* Every await of a handler is a yield: handlers of other sockets, and     *)
(* disconnects, run in between.  Joining and leaving a Socket.IO room takes *)
(* effect at once.  Disconnecting empties the socket's rooms BEFORE the    *)
(* gateway hears of it, and makes a later join a no-op.  Messages to one   *)
(* client arrive in order, so an emit is delivered in the step that sends it *)
(* (between instances this is the best case).                              *)
(***************************************************************************)
EXTENDS Naturals, FiniteSets

CONSTANTS
    Sockets,      \* ids of client sockets; an id is never used again
    Exhibitions,
    Instances,    \* API processes
    Handlers,     \* slots for handlers in flight
    InstanceOf,   \* the process a socket is connected to
    Linked,       \* instances that reached Redis when they booted
    Visits,       \* pairs <<socket, exhibition>>: who joins what (bounds a run)
    Watches,      \* likewise: who watches what
    None          \* an absent field

ASSUME GatewayAssumption ==
    /\ InstanceOf \in [Sockets -> Instances]
    /\ Linked \subseteq Instances
    /\ Visits \cup Watches \subseteq Sockets \X Exhibitions
    /\ None \notin Sockets \cup Exhibitions
    /\ IsFiniteSet(Sockets)
    /\ None \notin 0 .. Cardinality(Sockets)   \* no count is absent

VARIABLES
    conn,      \* "new", "open" or "gone"
    data,      \* client.data.exhibitionId
    rooms,     \* pairs <<socket, exhibition>>: members of roomName(exhibition)
    watchers,  \* likewise for watcherRoomName(exhibition)
    shown,     \* the count a client was last sent per exhibition, or None
    owed,      \* pairs <<socket, exhibition>>: entries and departures that the
               \* socket's instance has broadcast no count after (history)
    overtaken, \* handlers in flight whose socket's data another handler has
               \* written since they read or wrote it (history)
    pc,        \* what each handler executes next
    job        \* the socket and exhibition of a handler, and the previous room

rest == <<pc, job>>
vars == <<conn, data, rooms, watchers, shown, owed, overtaken, pc, job>>

Labels == {"idle", "join.previous", "join.left", "join.enter", "join.data",
           "join.insert", "leave.left", "watch.count"}

\* Statements at which a handler acts by what it has read of client.data.
Relying == {"join.left", "join.enter", "join.data", "leave.left"}

Jobs == [sock : Sockets \cup {None}, ex : Exhibitions \cup {None},
         prev : Exhibitions \cup {None}]
NoJob == [sock |-> None, ex |-> None, prev |-> None]

VisitorsOf(e) == {s \in Sockets : <<s, e>> \in rooms}
WatchersOf(e) == {s \in Sockets : <<s, e>> \in watchers}

\* server.sockets.adapter.rooms holds the sockets of this instance only.
LocalSize(i, e) == Cardinality({s \in VisitorsOf(e) : InstanceOf[s] = i})

\* The sockets an emit of instance i reaches: its own, and those of the others
\* when both have the Redis adapter.
ReachOf(i) == {s \in Sockets : InstanceOf[s] = i \/ {i, InstanceOf[s]} \subseteq Linked}

-----------------------------------------------------------------------------
(* The life of a handler.                                                    *)

At(h, label) == pc[h] = label

Begin(h, label, s, e, prev) ==
    /\ At(h, "idle") /\ conn[s] = "open"
    /\ pc' = [pc EXCEPT ![h] = label]
    /\ job' = [job EXCEPT ![h] = [sock |-> s, ex |-> e, prev |-> prev]]

Goto(h, label) == pc' = [pc EXCEPT ![h] = label] /\ UNCHANGED job

End(h) ==
    /\ pc' = [pc EXCEPT ![h] = "idle"]
    /\ job' = [job EXCEPT ![h] = NoJob]

EnterRoom(s, e) ==
    rooms' = IF conn[s] = "open" THEN rooms \cup {<<s, e>>} ELSE rooms

\* Handler h writes its socket's data under the other handlers of the socket.
Overtake(h) ==
    overtaken' = (overtaken \ {h}) \cup
        {g \in Handlers \ {h} : job[g].sock = job[h].sock /\ pc[g] \in Relying}

\* fault: watchers are counted
BroadcastAll(i, e) ==
    shown' = [s \in Sockets |->
                 IF s \in ReachOf(i) /\ (<<s, e>> \in rooms' \/ <<s, e>> \in watchers')
                 THEN [shown[s] EXCEPT ![e] =
                          Cardinality({t \in Sockets : <<t, e>> \in rooms'})
                          + Cardinality({t \in Sockets : <<t, e>> \in watchers'})]
                 ELSE shown[s]]

\* broadcastCount(e) by instance i: the size of the room as the step leaves it,
\* sent to its visitors and watchers.
Broadcast(i, e) ==
    shown' = [s \in Sockets |->
                 IF s \in ReachOf(i) /\ (<<s, e>> \in rooms' \/ <<s, e>> \in watchers')
                 THEN [shown[s] EXCEPT ![e] =
                          Cardinality({t \in Sockets : <<t, e>> \in rooms' /\ InstanceOf[t] = i})]
                 ELSE shown[s]]

\* Of some entries and departures, those a broadcast about e by i does not cover.
Uncovered(changes, i, e) == {p \in changes : InstanceOf[p[1]] # i \/ p[2] # e}

-----------------------------------------------------------------------------
(* exhibition:join.  A missing or inactive exhibition ends the handler; the  *)
(* status may change at any time, so any join may pass the check.            *)

StartJoin(h, s, e) ==
    /\ <<s, e>> \in Visits
    /\ Begin(h, "join.previous", s, e, None)
    /\ UNCHANGED <<conn, data, rooms, watchers, shown, owed, overtaken>>

\* fault: the old room is not left
JoinStays(h) ==
    /\ At(h, "join.previous")
    /\ EnterRoom(job[h].sock, job[h].ex)
    /\ Goto(h, "join.data")
    /\ UNCHANGED <<conn, data, watchers, shown, owed, overtaken>>

\* Leave the room the socket was in, if it is another one.
JoinPrevious(h) ==
    LET s == job[h].sock
        e == job[h].ex
    IN /\ At(h, "join.previous")
       /\ \/ /\ data[s] \in {None, e}
             /\ EnterRoom(s, e)
             /\ Goto(h, "join.data")
          \/ /\ data[s] \notin {None, e}
             /\ rooms' = rooms \ {<<s, data[s]>>}
             /\ pc' = [pc EXCEPT ![h] = "join.left"]
             /\ job' = [job EXCEPT ![h].prev = data[s]]
       /\ UNCHANGED <<conn, data, watchers, shown, owed, overtaken>>

\* The end of leaveRoom(): forget the room, tell its visitors and watchers.
LeaveRoomRest(h, s, e) ==
    /\ data' = [data EXCEPT ![s] = None]
    /\ UNCHANGED <<conn, rooms, watchers>>
    /\ Broadcast(InstanceOf[s], e)
    /\ owed' = Uncovered(owed, InstanceOf[s], e)
    /\ Overtake(h)

JoinLeft(h) ==
    /\ At(h, "join.left")
    /\ LeaveRoomRest(h, job[h].sock, job[h].prev)
    /\ Goto(h, "join.enter")

JoinEnter(h) ==
    /\ At(h, "join.enter")
    /\ EnterRoom(job[h].sock, job[h].ex)
    /\ Goto(h, "join.data")
    /\ UNCHANGED <<conn, data, watchers, shown, owed, overtaken>>

JoinData(h) ==
    /\ At(h, "join.data")
    /\ data' = [data EXCEPT ![job[h].sock] = job[h].ex]
    /\ Overtake(h)
    /\ Goto(h, "join.insert")
    /\ UNCHANGED <<conn, rooms, watchers, shown, owed>>

\* The EXHIBITION_ENTER row is stored and the new count broadcast.
JoinInsert(h) ==
    /\ At(h, "join.insert")
    /\ UNCHANGED <<conn, data, rooms, watchers, overtaken>>
    /\ Broadcast(InstanceOf[job[h].sock], job[h].ex)
    /\ owed' = Uncovered(owed, InstanceOf[job[h].sock], job[h].ex)
    /\ End(h)

\* The insert fails: the exception skips the broadcast, the socket stays.
JoinInsertFails(h) ==
    /\ At(h, "join.insert")
    /\ owed' = owed \cup {<<job[h].sock, job[h].ex>>}
    /\ End(h)
    /\ UNCHANGED <<conn, data, rooms, watchers, shown, overtaken>>

-----------------------------------------------------------------------------
(* exhibition:leave, exhibition:watch, exhibition:unwatch and disconnects.    *)

StartLeave(h, s) ==
    /\ data[s] # None
    /\ Begin(h, "leave.left", s, None, data[s])
    /\ rooms' = rooms \ {<<s, data[s]>>}
    /\ UNCHANGED <<conn, data, watchers, shown, owed, overtaken>>

LeaveLeft(h) ==
    /\ At(h, "leave.left")
    /\ LeaveRoomRest(h, job[h].sock, job[h].prev)
    /\ End(h)

StartWatch(h, s, e) ==
    /\ <<s, e>> \in Watches
    /\ Begin(h, "watch.count", s, e, None)
    /\ watchers' = watchers \cup {<<s, e>>}
    /\ UNCHANGED <<conn, data, rooms, shown, owed, overtaken>>

\* The count goes to the new watcher alone.
WatchCount(h) ==
    LET s == job[h].sock
        e == job[h].ex
    IN /\ At(h, "watch.count")
       /\ shown' = IF conn[s] = "open"
                   THEN [shown EXCEPT ![s][e] = LocalSize(InstanceOf[s], e)]
                   ELSE shown
       /\ End(h)
       /\ UNCHANGED <<conn, data, rooms, watchers, owed, overtaken>>

Unwatch(s, e) ==
    /\ conn[s] = "open"
    /\ <<s, e>> \in watchers
    /\ watchers' = watchers \ {<<s, e>>}
    /\ UNCHANGED <<conn, data, rooms, shown, owed, overtaken, rest>>

Connect(s) ==
    /\ conn[s] = "new"
    /\ conn' = [conn EXCEPT ![s] = "open"]
    /\ UNCHANGED <<data, rooms, watchers, shown, owed, overtaken, rest>>

\* fault: the remaining visitors are not told
DisconnectSilent(s) ==
    /\ conn[s] = "open"
    /\ conn' = [conn EXCEPT ![s] = "gone"]
    /\ rooms' = {p \in rooms : p[1] # s}
    /\ watchers' = {p \in watchers : p[1] # s}
    /\ UNCHANGED <<data, shown, owed, overtaken, rest>>

Disconnect(s) ==
    /\ conn[s] = "open"
    /\ conn' = [conn EXCEPT ![s] = "gone"]
    /\ rooms' = {p \in rooms : p[1] # s}
    /\ watchers' = {p \in watchers : p[1] # s}
    /\ IF data[s] = None THEN UNCHANGED shown ELSE Broadcast(InstanceOf[s], data[s])
    /\ owed' = Uncovered(owed \cup (rooms \ rooms'), InstanceOf[s], data[s])
    /\ UNCHANGED <<data, overtaken, rest>>

-----------------------------------------------------------------------------
Init ==
    /\ conn = [s \in Sockets |-> "new"]
    /\ data = [s \in Sockets |-> None]
    /\ rooms = {}
    /\ watchers = {}
    /\ shown = [s \in Sockets |-> [e \in Exhibitions |-> None]]
    /\ owed = {}
    /\ overtaken = {}
    /\ pc = [h \in Handlers |-> "idle"]
    /\ job = [h \in Handlers |-> NoJob]

Continue(h) ==
    \/ JoinPrevious(h) \/ JoinLeft(h) \/ JoinEnter(h) \/ JoinData(h)
    \/ JoinInsert(h) \/ JoinInsertFails(h)
    \/ LeaveLeft(h) \/ WatchCount(h)

Next ==
    \/ \E s \in Sockets :
        \/ Connect(s) \/ Disconnect(s)
        \/ \E e \in Exhibitions : Unwatch(s, e)
        \/ \E h \in Handlers :
            \/ StartLeave(h, s)
            \/ \E e \in Exhibitions : StartJoin(h, s, e) \/ StartWatch(h, s, e)
    \/ \E h \in Handlers : Continue(h)

Spec == Init /\ [][Next]_vars

-----------------------------------------------------------------------------
(* Properties, of clients that send any events at any time.                   *)

\* Every variable has its type; a slot names a socket exactly while a handler
\* occupies it, and only handlers that rely on client.data are overtaken.
TypeOK ==
    /\ conn \in [Sockets -> {"new", "open", "gone"}]
    /\ data \in [Sockets -> Exhibitions \cup {None}]
    /\ rooms \subseteq Sockets \X Exhibitions
    /\ watchers \subseteq Sockets \X Exhibitions
    /\ shown \in [Sockets -> [Exhibitions -> 0 .. Cardinality(Sockets) \cup {None}]]
    /\ owed \subseteq Sockets \X Exhibitions
    /\ overtaken \subseteq {h \in Handlers : pc[h] \in Relying}
    /\ pc \in [Handlers -> Labels]
    /\ job \in [Handlers -> Jobs]
    /\ \A h \in Handlers : pc[h] = "idle" <=> job[h] = NoJob

\* A join of s is between entering the room of e and naming it in client.data.
Joining(s, e) ==
    \E h \in Handlers : At(h, "join.data") /\ job[h].sock = s /\ job[h].ex = e

\* leaveRoom() of s is between leaving the room of e and forgetting it.
Leaving(s, e) ==
    \E h \in Handlers :
        pc[h] \in {"join.left", "leave.left"} /\ job[h].sock = s /\ job[h].prev = e

\* The room of e and client.data agree on s, up to handlers in flight.
InStep(s, e) ==
    /\ <<s, e>> \in rooms => data[s] = e \/ Joining(s, e)
    /\ data[s] = e => <<s, e>> \in rooms \/ Leaving(s, e)

\* A socket is one visitor of one exhibition at a time
\* (exhibition.gateway.ts:86): it is in the room that client.data names, or on
\* its way there.  It comes to stand in a room that client.data does not name,
\* or to name one it is not in, only by a handler that another handler of the
\* same socket has overtaken: client.data was written between this handler's
\* read and its own write.
OneRoom ==
    [][\A s \in Sockets, e \in Exhibitions :
          InStep(s, e) /\ conn'[s] = "open" /\ ~InStep(s, e)' =>
              \E h \in overtaken : job[h].sock = s /\ pc'[h] # pc[h]]_vars

\* Once every handler has ended, each visitor and watcher has been shown the
\* number of visitors, watchers not counted, that one API process has, one whose
\* broadcasts reach the client: all of them when there is one process.  The
\* number is off by at most the entries and departures of that process that no
\* broadcast has followed: entries whose visit event could not be stored, and
\* departures from a room client.data did not name.  Only the client of such an
\* entry may have been shown nothing.
CountTrue ==
    (\A h \in Handlers : At(h, "idle")) =>
        \A e \in Exhibitions : \A s \in VisitorsOf(e) \cup WatchersOf(e) :
            <<s, e>> \notin owed =>
                /\ shown[s][e] # None
                /\ \E i \in Instances :
                      LET slack == Cardinality({p \in owed : p[2] = e /\ InstanceOf[p[1]] = i})
                      IN /\ s \in ReachOf(i)
                         /\ LocalSize(i, e) <= shown[s][e] + slack
                         /\ shown[s][e] <= LocalSize(i, e) + slack

-----------------------------------------------------------------------------
(* What comments of the code say of it.                                       *)

\* redis-io.adapter.ts:9: through Redis, instances share room membership and
\* thus visitor counts: every visitor and watcher is shown how many visitors
\* there are, up to the entries and departures that no broadcast has followed.
CountShared ==
    Linked = Instances /\ (\A h \in Handlers : At(h, "idle")) =>
        \A e \in Exhibitions : \A s \in VisitorsOf(e) \cup WatchersOf(e) :
            LET size == Cardinality(VisitorsOf(e))
                slack == Cardinality({p \in owed : p[2] = e})
            IN <<s, e>> \notin owed =>
                  /\ size <= shown[s][e] + slack
                  /\ shown[s][e] <= size + slack

=============================================================================
