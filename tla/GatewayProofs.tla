---------------------------- MODULE GatewayProofs ----------------------------
(***************************************************************************)
(* Machine-checked proofs about Gateway, for every set of exhibitions,     *)
(* handlers and API processes and every finite set of clients, which send  *)
(* any events at any time, also while an earlier one is being handled.     *)
(***************************************************************************)
EXTENDS Gateway, FiniteSetTheorems, TLAPS

JoinLabels == {"join.previous", "join.left", "join.enter", "join.data", "join.insert"}

\* What the job of a handler names at each statement.
JobFits(h) ==
    /\ pc[h] # "idle" => job[h].sock \in Sockets
    /\ pc[h] \in JoinLabels \cup {"watch.count"} => job[h].ex \in Exhibitions
    /\ pc[h] \in {"join.left", "leave.left"} => job[h].prev \in Exhibitions

Typed == TypeOK /\ \A h \in Handlers : JobFits(h)

(***************************************************************************)
(* A socket and its room.                                                  *)
(***************************************************************************)

\* A socket holds nothing before it connects and after it disconnects.
SocketFits(s) ==
    /\ conn[s] # "open" =>
          \A e \in Exhibitions : <<s, e>> \notin rooms /\ <<s, e>> \notin watchers
    /\ conn[s] = "new" => \A h \in Handlers : job[h].sock # s

SocketsFit == \A s \in Sockets : SocketFits(s)

Entered(s, e) == <<s, e>> \in rooms \/ Leaving(s, e)

\* What a handler that relies on client.data knows of it and of the room,
\* unless it has been overtaken.
Relies(h) ==
    LET s == job[h].sock IN
    h \notin overtaken =>
        /\ pc[h] \in {"join.left", "leave.left"} =>
              /\ data[s] = job[h].prev
              /\ <<s, job[h].prev>> \in rooms => Joining(s, job[h].prev)
        /\ pc[h] = "join.enter" => data[s] = None
        /\ pc[h] = "join.data" =>
              /\ data[s] \in {None, job[h].ex}
              /\ conn[s] = "open" => Entered(s, job[h].ex)

DataKnown == \A h \in Handlers : Relies(h)

(***************************************************************************)
(* What the clients have been shown.                                       *)
(***************************************************************************)

\* A handler has changed, or is about to have changed, the room of e and will
\* tell its visitors and watchers.
Pending(s, e) ==
    \E h \in Handlers :
        /\ job[h].sock = s
        /\ \/ pc[h] \in {"join.data", "join.insert"} /\ job[h].ex = e
           \/ pc[h] \in {"join.left", "leave.left"} /\ job[h].prev = e

\* Sockets whose coming or going the last count sent for e may not reflect.
Unsure(e) == {s \in Sockets : <<s, e>> \in owed \/ Pending(s, e)}

\* Clients who may not have been sent a count for e yet.
Untold(s, e) ==
    \/ <<s, e>> \in owed
    \/ \E h \in Handlers : /\ job[h].sock = s /\ job[h].ex = e
                           /\ pc[h] \in {"join.data", "join.insert", "watch.count"}

On(i) == {s \in Sockets : InstanceOf[s] = i}

\* n counts the visitors of e on process i, the unsure sockets left open.
Counts(n, i, e) ==
    \E X \in SUBSET On(i) :
        n = Cardinality(X) /\ X \ Unsure(e) = (On(i) \cap VisitorsOf(e)) \ Unsure(e)

ShownTo(s, e) ==
    Untold(s, e) \/ \E i \in Instances : s \in ReachOf(i) /\ Counts(shown[s][e], i, e)

ShownFor(e) == \A s \in VisitorsOf(e) \cup WatchersOf(e) : ShownTo(s, e)

CountsFit == \A e \in Exhibitions : ShownFor(e)

-----------------------------------------------------------------------------
(***************************************************************************)
(* Type correctness.                                                       *)
(***************************************************************************)

RowsTyped ==
    /\ conn \in [Sockets -> {"new", "open", "gone"}]
    /\ data \in [Sockets -> Exhibitions \cup {None}]
    /\ rooms \subseteq Sockets \X Exhibitions
    /\ watchers \subseteq Sockets \X Exhibitions
    /\ shown \in [Sockets -> [Exhibitions -> 0 .. Cardinality(Sockets) \cup {None}]]
    /\ owed \subseteq Sockets \X Exhibitions

SlotsTyped ==
    /\ pc \in [Handlers -> Labels]
    /\ job \in [Handlers -> Jobs]
    /\ \A h \in Handlers : (pc[h] = "idle" <=> job[h] = NoJob) /\ JobFits(h)

OvertakenTyped == overtaken \subseteq {h \in Handlers : pc[h] \in Relying}

LEMMA TypedParts == Typed <=> RowsTyped /\ SlotsTyped /\ OvertakenTyped
  BY DEF Typed, TypeOK, RowsTyped, SlotsTyped, OvertakenTyped

LEMMA NoJobTyped == NoJob \in Jobs
  BY DEF NoJob, Jobs

\* Any number of sockets can be shown as a count.
LEMMA CountTyped ==
  ASSUME NEW X \in SUBSET Sockets
  PROVE  Cardinality(X) \in 0 .. Cardinality(Sockets)
  <1>1. IsFiniteSet(Sockets)
    BY GatewayAssumption
  <1>2. /\ IsFiniteSet(X)
        /\ Cardinality(X) <= Cardinality(Sockets)
        /\ Cardinality(Sockets) = Cardinality(X) => Sockets = X
    BY <1>1, FS_Subset, Zenon
  <1>3. Cardinality(X) \in Nat /\ Cardinality(Sockets) \in Nat
    BY <1>1, <1>2, FS_CardinalityType, Zenon
  <1> QED
    BY <1>2, <1>3

LEMMA BroadcastTyped ==
  ASSUME RowsTyped, NEW i, NEW e \in Exhibitions, Broadcast(i, e)
  PROVE  shown' \in [Sockets -> [Exhibitions -> 0 .. Cardinality(Sockets) \cup {None}]]
  <1> DEFINE X == {t \in Sockets : <<t, e>> \in rooms' /\ InstanceOf[t] = i}
  <1>1. Cardinality(X) \in 0 .. Cardinality(Sockets)
    BY CountTyped
  <1> DEFINE N == 0 .. Cardinality(Sockets) \cup {None}
  <1>2. PICK n \in N :
           shown' = [s \in Sockets |->
                       IF s \in ReachOf(i) /\ (<<s, e>> \in rooms' \/ <<s, e>> \in watchers')
                       THEN [shown[s] EXCEPT ![e] = n] ELSE shown[s]]
    BY <1>1 DEF Broadcast
  <1>3. shown \in [Sockets -> [Exhibitions -> N]]
    BY DEF RowsTyped
  <1> HIDE DEF N
  <1>4. \A s \in Sockets : [shown[s] EXCEPT ![e] = n] \in [Exhibitions -> N]
    BY <1>2, <1>3
  <1>5. shown' \in [Sockets -> [Exhibitions -> N]]
    BY <1>2, <1>3, <1>4
  <1> QED
    BY <1>5 DEF N

\* How a handler moves: it begins, goes on, remembers the room it leaves, or ends.
BeginsTyped(h) ==
    \E label \in Labels \ {"idle", "join.left"}, s \in Sockets,
       e \in Exhibitions \cup {None}, p \in Exhibitions \cup {None} :
        /\ Begin(h, label, s, e, p)
        /\ label \in JoinLabels \cup {"watch.count"} => e \in Exhibitions
        /\ label = "leave.left" => p \in Exhibitions

Moves(h) ==
    \/ BeginsTyped(h)
    \/ End(h)
    \/ /\ pc[h] \in JoinLabels
       /\ \E label \in JoinLabels \ {"join.left"} : Goto(h, label)
    \/ /\ pc[h] \in JoinLabels
       /\ \E p \in Exhibitions :
            /\ pc' = [pc EXCEPT ![h] = "join.left"]
            /\ job' = [job EXCEPT ![h].prev = p]

LEMMA MovesTyped ==
  ASSUME SlotsTyped, NEW h \in Handlers, Moves(h)
  PROVE  SlotsTyped'
  <1> USE DEF SlotsTyped, JobFits, JoinLabels
  <1>1. CASE End(h)
    BY <1>1, NoJobTyped DEF End, Labels
  <1>2. CASE BeginsTyped(h)
    <2>1. PICK label \in Labels \ {"idle", "join.left"}, s \in Sockets,
               e \in Exhibitions \cup {None}, p \in Exhibitions \cup {None} :
             /\ Begin(h, label, s, e, p)
             /\ label \in JoinLabels \cup {"watch.count"} => e \in Exhibitions
             /\ label = "leave.left" => p \in Exhibitions
      BY <1>2 DEF BeginsTyped
    <2> DEFINE j == [sock |-> s, ex |-> e, prev |-> p]
    <2>2. j \in Jobs /\ j # NoJob
      BY GatewayAssumption DEF Jobs, NoJob
    <2>3. pc' = [pc EXCEPT ![h] = label] /\ job' = [job EXCEPT ![h] = j]
      BY <2>1 DEF Begin
    <2>4. j.sock \in Sockets /\ j.ex = e /\ j.prev = p
      OBVIOUS
    <2> HIDE DEF j
    <2> QED
      BY <2>1, <2>2, <2>3, <2>4
  <1>3. CASE /\ pc[h] \in JoinLabels
             /\ \E label \in JoinLabels \ {"join.left"} : Goto(h, label)
    BY <1>3 DEF Goto, Labels
  <1>4. ASSUME NEW p \in Exhibitions, pc[h] \in JoinLabels,
               pc' = [pc EXCEPT ![h] = "join.left"], job' = [job EXCEPT ![h].prev = p]
        PROVE  SlotsTyped'
    <2>1. /\ job'[h] \in Jobs /\ job'[h].sock = job[h].sock /\ job'[h].ex = job[h].ex
          /\ job'[h].prev = p /\ job[h].sock \in Sockets
      BY <1>4 DEF Jobs
    <2>2. job'[h] # NoJob
      BY <2>1, GatewayAssumption DEF NoJob
    <2> QED
      BY <1>4, <2>1, <2>2 DEF Labels
  <1> QED
    BY <1>1, <1>2, <1>3, <1>4 DEF Moves

\* The steps of the handlers, in one list.
Steps(h) ==
    \/ \E s \in Sockets :
         \/ StartLeave(h, s)
         \/ \E e \in Exhibitions : StartJoin(h, s, e) \/ StartWatch(h, s, e)
    \/ Continue(h)

LEMMA NextKinds ==
  Next <=>
    \/ \E h \in Handlers : Steps(h)
    \/ \E s \in Sockets : Connect(s) \/ Disconnect(s)
    \/ \E s \in Sockets, e \in Exhibitions : Unwatch(s, e)
  BY DEF Next, Steps

LEMMA StepsMove ==
  ASSUME Typed, NEW h \in Handlers, Steps(h)
  PROVE  Moves(h)
  <1> USE DEF Moves, BeginsTyped, JoinLabels, Labels, At
  <1>1. ASSUME NEW s \in Sockets, StartLeave(h, s)
        PROVE  Moves(h)
    BY <1>1, TypedParts DEF StartLeave, RowsTyped
  <1>2. ASSUME NEW s \in Sockets, NEW e \in Exhibitions, StartJoin(h, s, e) \/ StartWatch(h, s, e)
        PROVE  Moves(h)
    BY <1>2 DEF StartJoin, StartWatch
  <1>3. CASE JoinPrevious(h)
    BY <1>3, TypedParts DEF JoinPrevious, RowsTyped, SlotsTyped, JobFits
  <1>4. CASE JoinLeft(h) \/ JoinEnter(h) \/ JoinData(h)
    BY <1>4 DEF JoinLeft, JoinEnter, JoinData
  <1>5. CASE JoinInsert(h) \/ JoinInsertFails(h) \/ LeaveLeft(h) \/ WatchCount(h)
    BY <1>5 DEF JoinInsert, JoinInsertFails, LeaveLeft, WatchCount
  <1> QED
    BY <1>1, <1>2, <1>3, <1>4, <1>5 DEF Steps, Continue

LEMMA StepsRows ==
  ASSUME Typed, NEW h \in Handlers, Steps(h)
  PROVE  RowsTyped'
  <1>t. RowsTyped /\ JobFits(h) /\ job[h] \in Jobs
    BY TypedParts DEF SlotsTyped
  <1> USE DEF At, JobFits, JoinLabels
  <1>1. ASSUME NEW s \in Sockets, StartLeave(h, s)
        PROVE  RowsTyped'
    BY <1>1, <1>t DEF StartLeave, RowsTyped
  <1>2. ASSUME NEW s \in Sockets, NEW e \in Exhibitions, StartJoin(h, s, e) \/ StartWatch(h, s, e)
        PROVE  RowsTyped'
    BY <1>2, <1>t DEF StartJoin, StartWatch, RowsTyped
  <1>3. CASE JoinPrevious(h) \/ JoinEnter(h)
    BY <1>3, <1>t DEF JoinPrevious, JoinEnter, EnterRoom, RowsTyped
  <1>4. CASE JoinLeft(h) \/ LeaveLeft(h)
    <2>1. job[h].sock \in Sockets /\ job[h].prev \in Exhibitions
      BY <1>4, <1>t DEF JoinLeft, LeaveLeft
    <2>2. LeaveRoomRest(h, job[h].sock, job[h].prev)
      BY <1>4 DEF JoinLeft, LeaveLeft
    <2> QED
      BY <2>1, <2>2, <1>t, BroadcastTyped DEF LeaveRoomRest, Uncovered, RowsTyped
  <1>5. CASE JoinData(h)
    BY <1>5, <1>t DEF JoinData, RowsTyped
  <1>6. CASE JoinInsert(h)
    <2>1. job[h].sock \in Sockets /\ job[h].ex \in Exhibitions
      BY <1>6, <1>t DEF JoinInsert
    <2> QED
      BY <2>1, <1>6, <1>t, BroadcastTyped DEF JoinInsert, Uncovered, RowsTyped
  <1>7. CASE JoinInsertFails(h)
    BY <1>7, <1>t DEF JoinInsertFails, RowsTyped
  <1>8. CASE WatchCount(h)
    <2>1. PICK s \in Sockets, e \in Exhibitions : job[h].sock = s /\ job[h].ex = e
      BY <1>8, <1>t DEF WatchCount
    <2>2. LocalSize(InstanceOf[s], e) \in 0 .. Cardinality(Sockets)
      BY CountTyped DEF LocalSize, VisitorsOf
    <2> QED
      BY <2>1, <2>2, <1>8, <1>t DEF WatchCount, RowsTyped
  <1> QED
    BY <1>1, <1>2, <1>3, <1>4, <1>5, <1>6, <1>7, <1>8 DEF Steps, Continue

\* Only handlers that rely on client.data are marked.
LEMMA MarksTyped ==
  ASSUME Typed, NEW h \in Handlers, Steps(h)
  PROVE  OvertakenTyped'
  <1>t. /\ pc \in [Handlers -> Labels] /\ overtaken \subseteq {g \in Handlers : pc[g] \in Relying}
    BY DEF Typed, TypeOK
  <1> USE <1>t DEF OvertakenTyped, At, Goto, End, Begin, Relying
  <1>1. CASE \E s \in Sockets :
               StartLeave(h, s) \/ \E e \in Exhibitions : StartJoin(h, s, e) \/ StartWatch(h, s, e)
    BY <1>1 DEF StartLeave, StartJoin, StartWatch
  <1>2. CASE JoinPrevious(h) \/ JoinEnter(h)
    BY <1>2 DEF JoinPrevious, JoinEnter
  <1>3. CASE JoinLeft(h) \/ LeaveLeft(h) \/ JoinData(h)
    BY <1>3 DEF JoinLeft, LeaveLeft, JoinData, LeaveRoomRest, Overtake
  <1>4. CASE JoinInsert(h) \/ JoinInsertFails(h) \/ WatchCount(h)
    BY <1>4 DEF JoinInsert, JoinInsertFails, WatchCount
  <1> QED
    BY <1>1, <1>2, <1>3, <1>4 DEF Steps, Continue

LEMMA TypedInductive == Typed /\ [Next]_vars => Typed'
  <1> SUFFICES ASSUME Typed, [Next]_vars
               PROVE  RowsTyped' /\ SlotsTyped' /\ OvertakenTyped'
    BY TypedParts, PTL
  <1>t. RowsTyped /\ SlotsTyped /\ OvertakenTyped
    BY TypedParts
  <1>1. ASSUME NEW h \in Handlers, Steps(h)
        PROVE  RowsTyped' /\ SlotsTyped' /\ OvertakenTyped'
    BY <1>1, <1>t, StepsMove, MovesTyped, StepsRows, MarksTyped
  <1>2. ASSUME NEW s \in Sockets, Connect(s)
        PROVE  RowsTyped' /\ SlotsTyped' /\ OvertakenTyped'
    BY <1>2, <1>t DEF Connect, rest, RowsTyped, SlotsTyped, OvertakenTyped, JobFits
  <1>3. ASSUME NEW s \in Sockets, Disconnect(s)
        PROVE  RowsTyped' /\ SlotsTyped' /\ OvertakenTyped'
    <2>1. /\ SlotsTyped' /\ OvertakenTyped' /\ data' = data
          /\ conn' \in [Sockets -> {"new", "open", "gone"}]
          /\ rooms' \subseteq rooms /\ watchers' \subseteq watchers
      BY <1>3, <1>t DEF Disconnect, rest, RowsTyped, SlotsTyped, OvertakenTyped, JobFits
    <2>2. owed' \subseteq Sockets \X Exhibitions
      BY <1>3, <1>t DEF Disconnect, Uncovered, RowsTyped
    <2>3. CASE data[s] = None
      BY <1>3, <2>1, <2>2, <2>3, <1>t DEF Disconnect, RowsTyped
    <2>4. CASE data[s] # None
      <3>1. data[s] \in Exhibitions /\ Broadcast(InstanceOf[s], data[s])
        BY <1>3, <2>4, <1>t DEF Disconnect, RowsTyped
      <3> QED
        BY <2>1, <2>2, <3>1, <1>t, BroadcastTyped DEF RowsTyped
    <2> QED
      BY <2>3, <2>4
  <1>4. ASSUME NEW s \in Sockets, NEW e \in Exhibitions, Unwatch(s, e)
        PROVE  RowsTyped' /\ SlotsTyped' /\ OvertakenTyped'
    BY <1>4, <1>t DEF Unwatch, rest, RowsTyped, SlotsTyped, OvertakenTyped, JobFits
  <1>5. CASE UNCHANGED vars
    BY <1>5, <1>t DEF vars, RowsTyped, SlotsTyped, OvertakenTyped, JobFits
  <1> QED
    BY <1>1, <1>2, <1>3, <1>4, <1>5, NextKinds

LEMMA TypedInit == Init => Typed
  BY NoJobTyped DEF Init, Typed, TypeOK, JobFits, Labels, JoinLabels

\* Every reachable state is well-typed, whatever clients send and instances
\* share: no count exceeds the number of sockets, rooms only hold sockets and
\* exhibitions, and a handler's socket and exhibition are there when it needs
\* them.
THEOREM TypeCorrect == Spec => []TypeOK
  <1>1. Typed => TypeOK
    BY DEF Typed
  <1> QED
    BY <1>1, TypedInit, TypedInductive, PTL DEF Spec

-----------------------------------------------------------------------------
(***************************************************************************)
(* A socket, its room and its data.                                        *)
(***************************************************************************)

LEMMA SocketsInductive ==
  ASSUME Typed, SocketsFit, [Next]_vars
  PROVE  SocketsFit'
  <1>t. job \in [Handlers -> Jobs] /\ conn \in [Sockets -> {"new", "open", "gone"}]
        /\ \A s \in Sockets : SocketFits(s)
    BY DEF Typed, TypeOK, SocketsFit
  <1> USE <1>t DEF SocketsFit, SocketFits
  <1>1. ASSUME NEW h \in Handlers, NEW s \in Sockets,
               \/ StartLeave(h, s)
               \/ \E e \in Exhibitions : StartJoin(h, s, e) \/ StartWatch(h, s, e)
        PROVE  SocketsFit'
    <2>1. /\ conn' = conn /\ conn[s] = "open" /\ rooms' \subseteq rooms
          /\ \E e : watchers' \subseteq watchers \cup {<<s, e>>}
      BY <1>1 DEF StartLeave, StartJoin, StartWatch, Begin
    <2>2. \A g \in Handlers : job'[g].sock \in {job[g].sock, s}
      <3>1. \E e, p : job' = [job EXCEPT ![h] = [sock |-> s, ex |-> e, prev |-> p]]
        BY <1>1 DEF StartLeave, StartJoin, StartWatch, Begin
      <3> QED
        BY <3>1
    <2> QED
      BY <2>1, <2>2
  <1>2. ASSUME NEW h \in Handlers, Continue(h)
        PROVE  SocketsFit'
    <2>1. /\ conn' = conn /\ watchers' = watchers
          /\ \A s, e : <<s, e>> \in rooms' => <<s, e>> \in rooms \/ conn[s] = "open"
      BY <1>2 DEF Continue, JoinPrevious, JoinLeft, JoinEnter, JoinData, JoinInsert,
           JoinInsertFails, LeaveLeft, WatchCount, LeaveRoomRest, EnterRoom
    <2>2. \A g \in Handlers : job'[g].sock \in {job[g].sock, None}
      <3>1. \/ job' = job \/ job' = [job EXCEPT ![h] = NoJob]
            \/ \E p : job' = [job EXCEPT ![h].prev = p]
        BY <1>2 DEF Continue, JoinPrevious, JoinLeft, JoinEnter, JoinData, JoinInsert,
             JoinInsertFails, LeaveLeft, WatchCount, Goto, End
      <3> QED
        BY <3>1 DEF NoJob, Jobs
    <2> QED
      BY <2>1, <2>2, GatewayAssumption
  <1>3. ASSUME NEW s \in Sockets, Connect(s)
        PROVE  SocketsFit'
    BY <1>3 DEF Connect, rest
  <1>4. ASSUME NEW s \in Sockets, Disconnect(s)
        PROVE  SocketsFit'
    <2>1. /\ conn' = [conn EXCEPT ![s] = "gone"] /\ job' = job
          /\ rooms' = {p \in rooms : p[1] # s} /\ watchers' = {p \in watchers : p[1] # s}
      BY <1>4 DEF Disconnect, rest
    <2> QED
      BY <2>1
  <1>5. ASSUME NEW s \in Sockets, NEW e \in Exhibitions, Unwatch(s, e)
        PROVE  SocketsFit'
    BY <1>5 DEF Unwatch, rest
  <1>6. CASE UNCHANGED vars
    BY <1>6 DEF vars
  <1> QED
    BY <1>1, <1>2, <1>3, <1>4, <1>5, <1>6, NextKinds DEF Steps

\* Rooms change as handlers in flight account for, and client.data stands.
Accounted ==
    /\ data' = data /\ overtaken' = overtaken /\ conn' = conn
    /\ \A s \in Sockets, e \in Exhibitions :
          /\ Joining(s, e) => Joining(s, e)'
          /\ Leaving(s, e) => Leaving(s, e)'
          /\ <<s, e>> \in rooms' => <<s, e>> \in rooms \/ Joining(s, e)'
          /\ <<s, e>> \in rooms => <<s, e>> \in rooms' \/ Leaving(s, e)'

\* The statements that write client.data.
Writes(h) == JoinLeft(h) \/ LeaveLeft(h) \/ JoinData(h)

\* A handler that is not amid a change of the room ends none.
LEMMA OthersStay ==
  ASSUME NEW h \in Handlers, pc[h] \notin {"join.data", "join.left", "leave.left"},
         \A g \in Handlers \ {h} : pc'[g] = pc[g] /\ job'[g] = job[g]
  PROVE  \A s \in Sockets, e \in Exhibitions :
            (Joining(s, e) => Joining(s, e)') /\ (Leaving(s, e) => Leaving(s, e)')
  BY DEF Joining, Leaving, At

LEMMA QuietSteps ==
  ASSUME Typed, NEW h \in Handlers, Steps(h), ~Writes(h)
  PROVE  Accounted
  <1>t. /\ pc \in [Handlers -> Labels] /\ job \in [Handlers -> Jobs]
        /\ data \in [Sockets -> Exhibitions \cup {None}] /\ JobFits(h)
    BY DEF Typed, TypeOK
  <1>1. ASSUME NEW s \in Sockets, StartLeave(h, s)
        PROVE  Accounted
    <2>1. /\ data' = data /\ overtaken' = overtaken /\ conn' = conn
          /\ rooms' = rooms \ {<<s, data[s]>>} /\ pc[h] = "idle"
          /\ pc'[h] = "leave.left" /\ job'[h].sock = s /\ job'[h].prev = data[s]
          /\ \A g \in Handlers \ {h} : pc'[g] = pc[g] /\ job'[g] = job[g]
      BY <1>1, <1>t DEF StartLeave, Begin, At
    <2>2. Leaving(s, data[s])'
      BY <2>1 DEF Leaving
    <2> QED
      BY <2>1, <2>2, OthersStay DEF Accounted
  <1>2. ASSUME NEW s \in Sockets, NEW e \in Exhibitions, StartJoin(h, s, e) \/ StartWatch(h, s, e)
        PROVE  Accounted
    <2>1. /\ data' = data /\ overtaken' = overtaken /\ conn' = conn /\ rooms' = rooms
          /\ pc[h] = "idle" /\ \A g \in Handlers \ {h} : pc'[g] = pc[g] /\ job'[g] = job[g]
      BY <1>2, <1>t DEF StartJoin, StartWatch, Begin, At
    <2> QED
      BY <2>1, OthersStay DEF Accounted
  <1>3. ASSUME pc[h] \in {"join.previous", "join.enter"},
               EnterRoom(job[h].sock, job[h].ex), Goto(h, "join.data"),
               data' = data /\ overtaken' = overtaken /\ conn' = conn
        PROVE  Accounted
    <2>1. /\ pc'[h] = "join.data" /\ job' = job
          /\ \A g \in Handlers \ {h} : pc'[g] = pc[g] /\ job'[g] = job[g]
      BY <1>3, <1>t DEF Goto
    <2>2. Joining(job[h].sock, job[h].ex)'
      BY <2>1 DEF Joining, At
    <2> QED
      BY <1>3, <2>1, <2>2, OthersStay DEF Accounted, EnterRoom
  <1>4. CASE JoinPrevious(h)
    <2>1. CASE EnterRoom(job[h].sock, job[h].ex) /\ Goto(h, "join.data")
      BY <1>3, <1>4, <2>1 DEF JoinPrevious, At
    <2>2. CASE /\ rooms' = rooms \ {<<job[h].sock, data[job[h].sock]>>}
               /\ pc' = [pc EXCEPT ![h] = "join.left"]
               /\ job' = [job EXCEPT ![h].prev = data[job[h].sock]]
      <3>1. /\ data' = data /\ overtaken' = overtaken /\ conn' = conn /\ pc[h] = "join.previous"
            /\ pc'[h] = "join.left" /\ job'[h].sock = job[h].sock
            /\ job'[h].prev = data[job[h].sock]
            /\ \A g \in Handlers \ {h} : pc'[g] = pc[g] /\ job'[g] = job[g]
        BY <1>4, <1>t, <2>2 DEF JoinPrevious, At, Jobs
      <3>2. Leaving(job[h].sock, data[job[h].sock])'
        BY <3>1 DEF Leaving
      <3> QED
        BY <2>2, <3>1, <3>2, OthersStay DEF Accounted
    <2> QED
      BY <1>4, <2>1, <2>2 DEF JoinPrevious
  <1>5. CASE JoinEnter(h)
    BY <1>3, <1>5 DEF JoinEnter, At
  <1>6. CASE JoinInsert(h) \/ JoinInsertFails(h) \/ WatchCount(h)
    <2>1. /\ data' = data /\ overtaken' = overtaken /\ conn' = conn /\ rooms' = rooms
          /\ pc[h] \in {"join.insert", "watch.count"}
          /\ \A g \in Handlers \ {h} : pc'[g] = pc[g] /\ job'[g] = job[g]
      BY <1>6, <1>t DEF JoinInsert, JoinInsertFails, WatchCount, End, At
    <2> QED
      BY <2>1, OthersStay DEF Accounted
  <1> QED
    BY <1>1, <1>2, <1>4, <1>5, <1>6 DEF Steps, Continue, Writes

\* A handler that writes client.data, as the rest sees it.
LEMMA WriteMoves ==
  ASSUME Typed, NEW h \in Handlers, Writes(h)
  PROVE  \E s \in Sockets :
            /\ s = job[h].sock /\ conn' = conn /\ rooms' = rooms /\ Overtake(h)
            /\ pc'[h] # pc[h]
            /\ \A g \in Handlers \ {h} : pc'[g] = pc[g] /\ job'[g] = job[g]
            /\ \A t \in Sockets \ {s} :
                  /\ data'[t] = data[t]
                  /\ \A e \in Exhibitions :
                        (Joining(t, e)' <=> Joining(t, e)) /\ (Leaving(t, e)' <=> Leaving(t, e))
            /\ \/ /\ pc[h] = "join.data" /\ pc'[h] = "join.insert"
                  /\ job'[h] = job[h] /\ data'[s] = job[h].ex
               \/ /\ pc[h] \in {"join.left", "leave.left"}
                  /\ pc'[h] \in {"join.enter", "idle"} /\ data'[s] = None
  <1>t. /\ pc \in [Handlers -> Labels] /\ job \in [Handlers -> Jobs]
        /\ data \in [Sockets -> Exhibitions \cup {None}] /\ JobFits(h)
    BY DEF Typed, TypeOK
  <1>1. PICK s \in Sockets : s = job[h].sock
    BY <1>t DEF Writes, JoinLeft, LeaveLeft, JoinData, At, JobFits
  <1>2. /\ conn' = conn /\ rooms' = rooms /\ Overtake(h)
        /\ \A g \in Handlers \ {h} : pc'[g] = pc[g] /\ job'[g] = job[g]
        /\ \A t \in Sockets \ {s} : data'[t] = data[t]
        /\ job'[h].sock \in {s, None}
        /\ \/ /\ pc[h] = "join.data" /\ pc'[h] = "join.insert"
              /\ job'[h] = job[h] /\ data'[s] = job[h].ex
           \/ /\ pc[h] \in {"join.left", "leave.left"}
              /\ pc'[h] \in {"join.enter", "idle"} /\ data'[s] = None
    BY <1>1, <1>t DEF Writes, JoinLeft, LeaveLeft, JoinData, LeaveRoomRest, At, Goto, End, NoJob
  <1>3. \A t \in Sockets \ {s}, e \in Exhibitions :
           (Joining(t, e)' <=> Joining(t, e)) /\ (Leaving(t, e)' <=> Leaving(t, e))
    BY <1>1, <1>2, GatewayAssumption DEF Joining, Leaving, At
  <1> QED
    BY <1>1, <1>2, <1>3

\* A handler that waits while rooms change as handlers account for.
LEMMA WaitingRelies ==
  ASSUME Typed, Accounted, NEW g \in Handlers, Relies(g), pc'[g] = pc[g], job'[g] = job[g]
  PROVE  Relies(g)'
  <1>1. CASE pc[g] \notin Relying
    BY <1>1 DEF Relies, Relying
  <1>2. CASE pc[g] \in Relying
    <2>1. /\ job[g].sock \in Sockets
          /\ pc[g] \in {"join.left", "leave.left"} => job[g].prev \in Exhibitions
          /\ pc[g] = "join.data" => job[g].ex \in Exhibitions
      BY <1>2 DEF Typed, JobFits, Relying, JoinLabels
    <2> QED
      BY <2>1 DEF Accounted, Relies, Entered
  <1> QED
    BY <1>1, <1>2

\* What the handler itself knows after a statement that does not write data.
LEMMA OwnRelies ==
  ASSUME Typed, DataKnown, NEW h \in Handlers, Steps(h), ~Writes(h)
  PROVE  Relies(h)'
  <1>t. /\ pc \in [Handlers -> Labels] /\ job \in [Handlers -> Jobs]
        /\ JobFits(h) /\ Relies(h)
    BY DEF Typed, TypeOK, DataKnown
  <1>1. ASSUME NEW s \in Sockets, StartLeave(h, s)
        PROVE  Relies(h)'
    <2>1. /\ data' = data /\ rooms' = rooms \ {<<s, data[s]>>}
          /\ pc'[h] = "leave.left" /\ job'[h].sock = s /\ job'[h].prev = data[s]
      BY <1>1, <1>t DEF StartLeave, Begin
    <2> QED
      BY <2>1 DEF Relies
  <1>2. ASSUME NEW s \in Sockets, NEW e \in Exhibitions, StartJoin(h, s, e) \/ StartWatch(h, s, e)
        PROVE  Relies(h)'
    BY <1>2, <1>t DEF StartJoin, StartWatch, Begin, Relies
  <1>3. CASE JoinPrevious(h)
    <2>1. CASE data[job[h].sock] \in {None, job[h].ex}
      <3>1. /\ pc'[h] = "join.data" /\ job' = job /\ data' = data /\ conn' = conn
            /\ conn[job[h].sock] = "open" => <<job[h].sock, job[h].ex>> \in rooms'
        BY <1>3, <1>t, <2>1 DEF JoinPrevious, Goto, EnterRoom
      <3> QED
        BY <2>1, <3>1 DEF Relies, Entered
    <2>2. CASE data[job[h].sock] \notin {None, job[h].ex}
      <3>1. /\ pc'[h] = "join.left" /\ job'[h].sock = job[h].sock
            /\ job'[h].prev = data[job[h].sock] /\ data' = data
            /\ rooms' = rooms \ {<<job[h].sock, data[job[h].sock]>>}
        BY <1>3, <1>t, <2>2 DEF JoinPrevious, Jobs
      <3> QED
        BY <3>1 DEF Relies
    <2> QED
      BY <2>1, <2>2
  <1>4. CASE JoinEnter(h)
    <2>1. /\ pc[h] = "join.enter" /\ pc'[h] = "join.data" /\ job' = job /\ data' = data
          /\ conn' = conn /\ overtaken' = overtaken
          /\ conn[job[h].sock] = "open" => <<job[h].sock, job[h].ex>> \in rooms'
      BY <1>4, <1>t DEF JoinEnter, Goto, EnterRoom, At
    <2> QED
      BY <1>t, <2>1 DEF Relies, Entered
  <1>5. CASE JoinInsert(h) \/ JoinInsertFails(h) \/ WatchCount(h)
    <2>1. pc'[h] = "idle"
      BY <1>5, <1>t DEF JoinInsert, JoinInsertFails, WatchCount, End
    <2> QED
      BY <2>1 DEF Relies
  <1> QED
    BY <1>1, <1>2, <1>3, <1>4, <1>5 DEF Steps, Continue, Writes

LEMMA WriteRelies ==
  ASSUME Typed, DataKnown, NEW h \in Handlers, Writes(h)
  PROVE  DataKnown'
  <1>1. PICK s \in Sockets :
            /\ s = job[h].sock /\ conn' = conn /\ rooms' = rooms /\ Overtake(h)
            /\ \A g \in Handlers \ {h} : pc'[g] = pc[g] /\ job'[g] = job[g]
            /\ \A t \in Sockets \ {s} :
                  /\ data'[t] = data[t]
                  /\ \A e \in Exhibitions :
                        (Joining(t, e)' <=> Joining(t, e)) /\ (Leaving(t, e)' <=> Leaving(t, e))
    BY WriteMoves
  <1>3. Relies(h)'
    <2>1. CASE pc[h] = "join.data" \/ pc[h] = "leave.left"
      <3>1. pc'[h] \in {"join.insert", "idle"}
        BY <2>1 DEF Writes, JoinLeft, LeaveLeft, JoinData, At, Goto, End, Typed, TypeOK
      <3> QED
        BY <3>1 DEF Relies
    <2>2. CASE JoinLeft(h)
      <3>1. /\ pc'[h] = "join.enter" /\ job' = job /\ data' = [data EXCEPT ![s] = None]
        BY <1>1, <2>2 DEF JoinLeft, LeaveRoomRest, Goto, Typed, TypeOK
      <3> QED
        BY <1>1, <3>1 DEF Relies, Typed, TypeOK
    <2> QED
      BY <2>1, <2>2 DEF Writes, LeaveLeft, JoinData, At
  <1>4. ASSUME NEW g \in Handlers \ {h}
        PROVE  Relies(g)'
    <2>1. CASE pc[g] \notin Relying \/ job[g].sock = s
      <3>1. pc[g] \in Relying => g \in overtaken'
        BY <1>1, <2>1 DEF Overtake
      <3> QED
        BY <1>1, <3>1 DEF Relies, Relying
    <2>2. CASE pc[g] \in Relying /\ job[g].sock # s
      <3>1. /\ job[g].sock \in Sockets \ {s}
            /\ pc[g] \in {"join.left", "leave.left"} => job[g].prev \in Exhibitions
            /\ pc[g] = "join.data" => job[g].ex \in Exhibitions
        BY <2>2 DEF Typed, JobFits, Relying, JoinLabels
      <3>2. Relies(g) /\ (g \in overtaken => g \in overtaken')
        BY <1>1 DEF DataKnown, Overtake
      <3> QED
        BY <1>1, <3>1, <3>2 DEF Relies, Entered
    <2> QED
      BY <2>1, <2>2
  <1> QED
    BY <1>3, <1>4 DEF DataKnown

LEMMA RelyInductive ==
  ASSUME Typed, SocketsFit, DataKnown, [Next]_vars
  PROVE  DataKnown'
  <1>1. ASSUME NEW h \in Handlers, Steps(h), ~Writes(h)
        PROVE  DataKnown'
    <2>1. Accounted /\ Relies(h)'
      BY <1>1, QuietSteps, OwnRelies
    <2>2. \A g \in Handlers \ {h} : pc'[g] = pc[g] /\ job'[g] = job[g]
      BY <1>1, StepsMove DEF Moves, BeginsTyped, Begin, End, Goto, Typed, TypeOK
    <2> QED
      BY <2>1, <2>2, WaitingRelies DEF DataKnown
  <1>2. ASSUME NEW h \in Handlers, Writes(h)
        PROVE  DataKnown'
    BY <1>2, WriteRelies
  <1>3. ASSUME NEW s \in Sockets, Connect(s)
        PROVE  DataKnown'
    <2>1. /\ UNCHANGED <<data, rooms, overtaken, pc, job>>
          /\ conn' = [conn EXCEPT ![s] = "open"] /\ \A h \in Handlers : job[h].sock # s
      BY <1>3 DEF Connect, rest, SocketsFit, SocketFits
    <2>2. \A h \in Handlers : conn'[job[h].sock] = "open" => conn[job[h].sock] = "open"
      BY <2>1 DEF Typed, TypeOK
    <2> QED
      BY <2>1, <2>2 DEF DataKnown, Relies, Entered, Joining, Leaving, At
  <1>4. ASSUME NEW s \in Sockets, Disconnect(s)
        PROVE  DataKnown'
    <2>1. /\ UNCHANGED <<data, overtaken, pc, job>> /\ conn' = [conn EXCEPT ![s] = "gone"]
          /\ rooms' = {p \in rooms : p[1] # s} /\ conn'[s] # "open"
      BY <1>4 DEF Disconnect, rest, Typed, TypeOK
    <2>2. \A t, e : /\ <<t, e>> \in rooms' => <<t, e>> \in rooms
                    /\ t # s /\ <<t, e>> \in rooms => <<t, e>> \in rooms'
      BY <2>1
    <2>3. \A t : t # s => conn'[t] = conn[t]
      BY <2>1 DEF Typed, TypeOK
    <2>4. \A t, e : (Joining(t, e)' <=> Joining(t, e)) /\ (Leaving(t, e)' <=> Leaving(t, e))
      BY <2>1 DEF Joining, Leaving, At
    <2> QED
      BY <2>1, <2>2, <2>3, <2>4 DEF DataKnown, Relies, Entered
  <1>5. CASE \/ \E s \in Sockets, e \in Exhibitions : Unwatch(s, e)
             \/ UNCHANGED vars
    <2>1. UNCHANGED <<conn, data, rooms, overtaken, pc, job>>
      BY <1>5 DEF Unwatch, rest, vars
    <2> QED
      BY <2>1 DEF DataKnown, Relies, Entered, Joining, Leaving, At
  <1> QED
    BY <1>1, <1>2, <1>3, <1>4, <1>5, NextKinds

Rooms == Typed /\ SocketsFit /\ DataKnown

LEMMA RoomsInit == Init => Rooms
  <1>1. Init => SocketsFit /\ DataKnown
    BY GatewayAssumption DEF Init, SocketsFit, SocketFits, DataKnown, Relies, NoJob
  <1> QED
    BY <1>1, TypedInit DEF Rooms

LEMMA RoomsInductive == Rooms /\ [Next]_vars => Rooms'
  BY TypedInductive, SocketsInductive, RelyInductive DEF Rooms

LEMMA InStepStep ==
  ASSUME Rooms, [Next]_vars, NEW s \in Sockets, NEW e \in Exhibitions,
         InStep(s, e), conn'[s] = "open", ~InStep(s, e)'
  PROVE  \E h \in overtaken : job[h].sock = s /\ pc'[h] # pc[h]
  <1>1. ASSUME Accounted
        PROVE  FALSE
    BY <1>1 DEF Accounted, InStep
  <1>2. ASSUME UNCHANGED <<data, pc, job>>,
               <<s, e>> \in rooms' <=> <<s, e>> \in rooms
        PROVE  FALSE
    BY <1>2 DEF InStep, Joining, Leaving, At
  <1>3. ASSUME NEW h \in Handlers, Writes(h)
        PROVE  h \in overtaken /\ job[h].sock = s /\ pc'[h] # pc[h]
    <2>1. PICK t \in Sockets :
            /\ t = job[h].sock /\ conn' = conn /\ rooms' = rooms
            /\ pc'[h] # pc[h]
            /\ \A g \in Handlers \ {h} : pc'[g] = pc[g] /\ job'[g] = job[g]
            /\ \A u \in Sockets \ {t} :
                  /\ data'[u] = data[u]
                  /\ \A x \in Exhibitions :
                        (Joining(u, x)' <=> Joining(u, x)) /\ (Leaving(u, x)' <=> Leaving(u, x))
            /\ \/ /\ pc[h] = "join.data" /\ pc'[h] = "join.insert"
                  /\ job'[h] = job[h] /\ data'[t] = job[h].ex
               \/ /\ pc[h] \in {"join.left", "leave.left"}
                  /\ pc'[h] \in {"join.enter", "idle"} /\ data'[t] = None
      BY <1>3, WriteMoves DEF Rooms
    <2>2. t = s
      BY <2>1 DEF InStep
    <2>3. ASSUME h \notin overtaken
          PROVE  FALSE
      <3>1. Relies(h)
        BY DEF Rooms, DataKnown
      <3>2. CASE pc[h] = "join.data" /\ data'[s] = job[h].ex
        <4>1. data[s] \in {None, job[h].ex} /\ Entered(s, job[h].ex)
          BY <2>1, <2>2, <2>3, <3>1, <3>2 DEF Relies
        <4>2. \A x \in Exhibitions : Leaving(s, x) => Leaving(s, x)'
          BY <2>1, <3>2 DEF Leaving
        <4>3. e # job[h].ex /\ Joining(s, e) => Joining(s, e)'
          BY <2>1, <3>2 DEF Joining, At
        <4> QED
          BY <2>1, <3>2, <4>1, <4>2, <4>3, GatewayAssumption DEF InStep, Entered
      <3>3. CASE pc[h] \in {"join.left", "leave.left"} /\ data'[s] = None
        <4>1. data[s] = job[h].prev /\ (<<s, job[h].prev>> \in rooms => Joining(s, job[h].prev))
          BY <2>1, <2>2, <2>3, <3>1, <3>3 DEF Relies
        <4>2. Joining(s, e) => Joining(s, e)'
          BY <2>1, <3>3 DEF Joining, At
        <4> QED
          BY <2>1, <3>3, <4>1, <4>2, GatewayAssumption DEF InStep
      <3> QED
        BY <2>1, <2>2, <3>2, <3>3
    <2> QED
      BY <2>1, <2>2, <2>3
  <1>4. ASSUME NEW h \in Handlers, Steps(h)
        PROVE  \E g \in overtaken : job[g].sock = s /\ pc'[g] # pc[g]
    BY <1>1, <1>3, <1>4, QuietSteps DEF Rooms
  <1>5. ASSUME NEW t \in Sockets, Disconnect(t)
        PROVE  FALSE
    <2>1. conn'[t] = "gone"
      BY <1>5 DEF Disconnect, Rooms, Typed, TypeOK
    <2>2. /\ UNCHANGED <<data, pc, job>> /\ rooms' = {p \in rooms : p[1] # t}
      BY <1>5 DEF Disconnect, rest
    <2> QED
      BY <1>2, <2>1, <2>2
  <1>6. CASE \/ \E t \in Sockets : Connect(t)
             \/ \E t \in Sockets, x \in Exhibitions : Unwatch(t, x)
             \/ UNCHANGED vars
    BY <1>2, <1>6 DEF Connect, Unwatch, rest, vars
  <1> QED
    BY <1>4, <1>5, <1>6, NextKinds

\* Whatever a client sends while earlier events of it are handled, on any number
\* of API processes: client.data and the rooms of a socket part only at a
\* statement of a handler that another handler of the socket has overtaken.
THEOREM RoomIsOne == Spec => OneRoom
  <1> DEFINE Kept ==
        \A s \in Sockets, e \in Exhibitions :
          InStep(s, e) /\ conn'[s] = "open" /\ ~InStep(s, e)' =>
              \E h \in overtaken : job[h].sock = s /\ pc'[h] # pc[h]
  <1>1. Rooms /\ [Next]_vars => [Kept]_vars
    BY InStepStep
  <1> QED
    BY <1>1, RoomsInit, RoomsInductive, PTL DEF Spec, OneRoom

-----------------------------------------------------------------------------
(***************************************************************************)
(* The count.                                                              *)
(***************************************************************************)

\* What client s was shown for e stays right: nobody of a process that reaches
\* it becomes sure, and its room changes by unsure sockets only.
LEMMA StillShown ==
  ASSUME NEW s \in Sockets, NEW e \in Exhibitions, ShownTo(s, e),
         Untold(s, e) => Untold(s, e)', shown'[s][e] = shown[s][e],
         \A i \in Instances : s \in ReachOf(i) =>
            \A t \in On(i) :
               /\ t \in Unsure(e) => t \in Unsure(e)'
               /\ t \in Unsure(e)' \/ (<<t, e>> \in rooms' <=> <<t, e>> \in rooms)
  PROVE  ShownTo(s, e)'
  <1>1. CASE Untold(s, e)
    BY <1>1 DEF ShownTo
  <1>2. ASSUME NEW i \in Instances, s \in ReachOf(i), Counts(shown[s][e], i, e)
        PROVE  ShownTo(s, e)'
    <2>1. PICK X \in SUBSET On(i) :
             /\ shown[s][e] = Cardinality(X)
             /\ X \ Unsure(e) = (On(i) \cap VisitorsOf(e)) \ Unsure(e)
      BY <1>2 DEF Counts
    <2>2. X \ Unsure(e)' = (On(i) \cap VisitorsOf(e)') \ Unsure(e)'
      BY <1>2, <2>1 DEF VisitorsOf
    <2>3. Counts(shown[s][e], i, e)'
      BY <2>1, <2>2 DEF Counts, On
    <2> QED
      BY <1>2, <2>3 DEF ShownTo, ReachOf
  <1> QED
    BY <1>1, <1>2 DEF ShownTo

\* The room of e changes only by sockets that are unsure afterwards, nobody who
\* was unsure becomes sure, and nobody is sent a count.
Unheard(e) ==
    /\ Unsure(e) \subseteq Unsure(e)'
    /\ \A s \in Sockets :
          \/ s \in Unsure(e)'
          \/ <<s, e>> \in rooms' <=> <<s, e>> \in rooms
    /\ \A s \in VisitorsOf(e)' \cup WatchersOf(e)' :
          \/ Untold(s, e)'
          \/ /\ s \in VisitorsOf(e) \cup WatchersOf(e)
             /\ ~Untold(s, e) /\ shown'[s][e] = shown[s][e]

LEMMA UnheardFits ==
  ASSUME NEW e \in Exhibitions, ShownFor(e), Unheard(e)
  PROVE  ShownFor(e)'
  <1> SUFFICES ASSUME NEW s \in VisitorsOf(e)' \cup WatchersOf(e)', ~Untold(s, e)'
               PROVE  ShownTo(s, e)'
    BY DEF ShownFor, ShownTo
  <1>1. /\ s \in Sockets /\ ~Untold(s, e) /\ ShownTo(s, e)
        /\ shown'[s][e] = shown[s][e]
    BY DEF Unheard, ShownFor, VisitorsOf, WatchersOf
  <1>2. \A i \in Instances : \A t \in On(i) :
           /\ t \in Unsure(e) => t \in Unsure(e)'
           /\ t \in Unsure(e)' \/ (<<t, e>> \in rooms' <=> <<t, e>> \in rooms)
    BY DEF Unheard, On
  <1> QED
    BY <1>1, <1>2, StillShown

\* A broadcast of process i tells those it reaches the size of its room; what
\* the others were shown by other processes, whose sockets did not move, stays.
LEMMA BroadcastFits ==
  ASSUME Typed, NEW i \in Instances, NEW e \in Exhibitions, NEW changes, ShownFor(e),
         Broadcast(i, e), owed \subseteq changes, owed' = Uncovered(changes, i, e),
         \A s \in Sockets : InstanceOf[s] # i =>
            /\ <<s, e>> \in rooms' <=> <<s, e>> \in rooms
            /\ <<s, e>> \in watchers' <=> <<s, e>> \in watchers
            /\ Pending(s, e) => Pending(s, e)'
            /\ Untold(s, e) => Untold(s, e)'
  PROVE  ShownFor(e)'
  <1>1. SUFFICES ASSUME NEW s \in VisitorsOf(e)' \cup WatchersOf(e)'
                 PROVE  ShownTo(s, e)'
    BY DEF ShownFor
  <1>2. s \in Sockets /\ (<<s, e>> \in rooms' \/ <<s, e>> \in watchers')
    BY DEF VisitorsOf, WatchersOf
  <1>3. CASE s \in ReachOf(i)
    <2> DEFINE X == {t \in Sockets : <<t, e>> \in rooms' /\ InstanceOf[t] = i}
    <2>1. shown'[s][e] = Cardinality(X)
      BY <1>2, <1>3 DEF Broadcast, Typed, TypeOK
    <2>2. X \in SUBSET On(i) /\ X = On(i) \cap VisitorsOf(e)'
      BY DEF On, VisitorsOf
    <2> HIDE DEF X
    <2>3. Counts(shown[s][e], i, e)'
      BY <2>1, <2>2 DEF Counts, On
    <2> QED
      BY <1>3, <2>3 DEF ShownTo, ReachOf
  <1>4. CASE s \notin ReachOf(i)
    <2>1. InstanceOf[s] # i /\ shown'[s][e] = shown[s][e]
      BY <1>2, <1>4 DEF Broadcast, ReachOf, Typed, TypeOK
    <2>2. ShownTo(s, e) /\ (Untold(s, e) => Untold(s, e)')
      BY <1>2, <2>1 DEF ShownFor, VisitorsOf, WatchersOf
    <2>3. \A j \in Instances : s \in ReachOf(j) =>
            \A t \in On(j) :
               /\ t \in Unsure(e) => t \in Unsure(e)'
               /\ t \in Unsure(e)' \/ (<<t, e>> \in rooms' <=> <<t, e>> \in rooms)
      <3> SUFFICES ASSUME NEW j \in Instances, s \in ReachOf(j), NEW t \in On(j)
                   PROVE  /\ t \in Unsure(e) => t \in Unsure(e)'
                          /\ <<t, e>> \in rooms' <=> <<t, e>> \in rooms
        OBVIOUS
      <3>1. t \in Sockets /\ InstanceOf[t] = j /\ j # i
        BY <1>4 DEF On
      <3>2. <<t, e>> \in owed => <<t, e>> \in owed'
        BY <3>1 DEF Uncovered
      <3> QED
        BY <3>1, <3>2 DEF Unsure
    <2> QED
      BY <1>2, <2>1, <2>2, <2>3, StillShown
  <1> QED
    BY <1>3, <1>4

\* What a broadcast about x changes for the other exhibitions.
LEMMA BroadcastOther ==
  ASSUME Typed, NEW i, NEW x, Broadcast(i, x), NEW e \in Exhibitions, e # x
  PROVE  \A s \in Sockets : shown'[s][e] = shown[s][e]
  BY DEF Broadcast, Typed, TypeOK

\* What a handler contributes to Pending and Untold.
PendingFor(h, s, e) ==
    /\ job[h].sock = s
    /\ \/ pc[h] \in {"join.data", "join.insert"} /\ job[h].ex = e
       \/ pc[h] \in {"join.left", "leave.left"} /\ job[h].prev = e

UntoldBy(h, s, e) ==
    job[h].sock = s /\ job[h].ex = e /\ pc[h] \in {"join.data", "join.insert", "watch.count"}

\* A handler of s contributes nothing to other sockets.
LEMMA OthersPending ==
  ASSUME NEW h \in Handlers, NEW s, NEW e, NEW t, t # s, t # None,
         job[h].sock = s, job'[h].sock \in {s, None},
         \A g \in Handlers \ {h} : pc'[g] = pc[g] /\ job'[g] = job[g],
         <<t, e>> \in owed => <<t, e>> \in owed'
  PROVE  /\ Pending(t, e) => Pending(t, e)'
         /\ Untold(t, e) => Untold(t, e)'
  BY DEF Pending, Untold

\* The step of one handler, as exhibition e sees it.
LEMMA HandlerUnheard ==
  ASSUME NEW h \in Handlers, NEW e \in Exhibitions,
         \A g \in Handlers \ {h} : pc'[g] = pc[g] /\ job'[g] = job[g],
         \A s \in Sockets : <<s, e>> \in owed => <<s, e>> \in owed',
         \A s \in Sockets :
            PendingFor(h, s, e) => PendingFor(h, s, e)' \/ <<s, e>> \in owed',
         \A s \in Sockets :
            \/ PendingFor(h, s, e)'
            \/ <<s, e>> \in rooms' <=> <<s, e>> \in rooms,
         \A s \in VisitorsOf(e)' \cup WatchersOf(e)' :
            \/ UntoldBy(h, s, e)' \/ <<s, e>> \in owed'
            \/ /\ s \in VisitorsOf(e) \cup WatchersOf(e)
               /\ shown'[s][e] = shown[s][e]
               /\ ~UntoldBy(h, s, e)
  PROVE  Unheard(e)
  <1>1. Unsure(e) \subseteq Unsure(e)'
    BY DEF Unsure, Pending, PendingFor
  <1>2. \A s \in Sockets : PendingFor(h, s, e)' => s \in Unsure(e)'
    BY DEF Unsure, Pending, PendingFor
  <1>3. \A s : UntoldBy(h, s, e)' \/ <<s, e>> \in owed' => Untold(s, e)'
    BY DEF Untold, UntoldBy
  <1>4. \A s \in Sockets : ~Untold(s, e)' /\ ~UntoldBy(h, s, e) => ~Untold(s, e)
    BY DEF Untold, UntoldBy
  <1> QED
    BY <1>1, <1>2, <1>3, <1>4 DEF Unheard, VisitorsOf, WatchersOf

LEMMA StartCounts ==
  ASSUME Typed, NEW h \in Handlers, NEW s \in Sockets,
         StartLeave(h, s) \/ \E x \in Exhibitions : StartJoin(h, s, x) \/ StartWatch(h, s, x),
         NEW e \in Exhibitions
  PROVE  Unheard(e)
  <1>1. PICK label, x, p :
           /\ pc[h] = "idle" /\ pc' = [pc EXCEPT ![h] = label]
           /\ job' = [job EXCEPT ![h] = [sock |-> s, ex |-> x, prev |-> p]]
           /\ \/ label = "leave.left" /\ p = data[s] /\ rooms' = rooms \ {<<s, p>>}
                 /\ watchers' = watchers
              \/ label = "join.previous" /\ rooms' = rooms /\ watchers' = watchers
              \/ label = "watch.count" /\ rooms' = rooms /\ watchers' = watchers \cup {<<s, x>>}
    BY DEF StartLeave, StartJoin, StartWatch, Begin, At
  <1>2. /\ pc'[h] = label /\ job'[h].sock = s /\ job'[h].ex = x /\ job'[h].prev = p
        /\ \A g \in Handlers \ {h} : pc'[g] = pc[g] /\ job'[g] = job[g]
    BY <1>1 DEF Typed, TypeOK
  <1>3. shown' = shown /\ owed' = owed
    BY DEF StartLeave, StartJoin, StartWatch
  <1> QED
    BY <1>1, <1>2, <1>3, HandlerUnheard
    DEF PendingFor, UntoldBy, VisitorsOf, WatchersOf

LEMMA ContinueCounts ==
  ASSUME Typed, SocketsFit, NEW h \in Handlers, Continue(h),
         NEW e \in Exhibitions, ShownFor(e)
  PROVE  Unheard(e) \/ ShownFor(e)'
  <1>1. pc[h] # "idle" /\ conn' = conn /\ watchers' = watchers
    BY DEF Continue, JoinPrevious, JoinLeft, JoinEnter, JoinData, JoinInsert,
           JoinInsertFails, LeaveLeft, WatchCount, LeaveRoomRest, At
  <1>2. PICK s \in Sockets :
           /\ s = job[h].sock
           /\ conn[s] \in {"open", "gone"}
           /\ conn[s] = "gone" =>
                \A x \in Exhibitions : <<s, x>> \notin rooms /\ <<s, x>> \notin watchers
    <2>1. job[h].sock \in Sockets
      BY <1>1 DEF Typed, JobFits
    <2> QED
      BY <2>1 DEF SocketsFit, SocketFits, Typed, TypeOK
  <1>t. /\ pc \in [Handlers -> Labels] /\ job \in [Handlers -> Jobs] /\ JobFits(h)
    BY DEF Typed, TypeOK
  <1> DEFINE Slots == \A g \in Handlers \ {h} : pc'[g] = pc[g] /\ job'[g] = job[g]
  <1>told. ASSUME Slots, Broadcast(InstanceOf[s], e), rooms' = rooms,
                  owed' = Uncovered(owed, InstanceOf[s], e), job'[h].sock \in {s, None}
           PROVE  ShownFor(e)'
    <2>1. \A t \in Sockets : InstanceOf[t] # InstanceOf[s] =>
             t # s /\ t # None /\ (<<t, e>> \in owed => <<t, e>> \in owed')
      BY <1>told, GatewayAssumption DEF Uncovered
    <2>2. \A t \in Sockets : InstanceOf[t] # InstanceOf[s] =>
             (Pending(t, e) => Pending(t, e)') /\ (Untold(t, e) => Untold(t, e)')
      BY <1>2, <1>told, <2>1, OthersPending
    <2>3. InstanceOf[s] \in Instances
      BY GatewayAssumption
    <2> QED
      BY <1>1, <1>told, <2>2, <2>3, BroadcastFits
  <1> USE DEF At, JobFits, JoinLabels, PendingFor, UntoldBy, VisitorsOf, WatchersOf
  <1>3. CASE JoinPrevious(h)
    <2>1. shown' = shown /\ owed' = owed /\ Slots
      BY <1>3, <1>t DEF JoinPrevious, Goto
    <2>2. CASE EnterRoom(s, job[h].ex) /\ Goto(h, "join.data")
      <3>1. /\ pc'[h] = "join.data" /\ job' = job /\ pc[h] = "join.previous"
            /\ \A t, x : <<t, x>> \in rooms' => <<t, x>> \in rooms \/ (t = s /\ x = job[h].ex)
            /\ rooms \subseteq rooms'
        BY <1>3, <1>t, <2>2 DEF JoinPrevious, Goto, EnterRoom
      <3> QED
        BY <1>1, <1>2, <2>1, <3>1, HandlerUnheard
    <2>3. CASE /\ rooms' = rooms \ {<<s, data[s]>>} /\ pc' = [pc EXCEPT ![h] = "join.left"]
               /\ job' = [job EXCEPT ![h].prev = data[s]]
      <3>1. /\ pc'[h] = "join.left" /\ job'[h].sock = s /\ job'[h].prev = data[s]
            /\ pc[h] = "join.previous"
        BY <1>2, <1>3, <1>t, <2>3 DEF JoinPrevious, Jobs
      <3> QED
        BY <1>1, <1>2, <2>1, <2>3, <3>1, HandlerUnheard
    <2> QED
      BY <1>2, <1>3, <2>2, <2>3 DEF JoinPrevious
  <1>4. CASE JoinLeft(h) \/ LeaveLeft(h)
    <2>1. /\ pc[h] \in {"join.left", "leave.left"} /\ job[h].prev \in Exhibitions
          /\ rooms' = rooms /\ Broadcast(InstanceOf[s], job[h].prev) /\ Slots
          /\ owed' = Uncovered(owed, InstanceOf[s], job[h].prev)
          /\ pc'[h] \in {"join.enter", "idle"} /\ job'[h].sock \in {s, None}
      BY <1>2, <1>4, <1>t DEF JoinLeft, LeaveLeft, LeaveRoomRest, Goto, End, NoJob
    <2>2. CASE e = job[h].prev
      BY <1>told, <2>1, <2>2
    <2>3. CASE e # job[h].prev
      <3>1. /\ \A t \in Sockets : shown'[t][e] = shown[t][e]
            /\ \A t \in Sockets : <<t, e>> \in owed' <=> <<t, e>> \in owed
        BY <2>1, <2>3, BroadcastOther DEF Uncovered
      <3> QED
        BY <1>1, <2>1, <2>3, <3>1, HandlerUnheard
    <2> QED
      BY <2>2, <2>3
  <1>5. CASE JoinEnter(h)
    <2>1. /\ shown' = shown /\ owed' = owed /\ Slots
          /\ pc'[h] = "join.data" /\ job' = job /\ pc[h] = "join.enter"
          /\ \A t, x : <<t, x>> \in rooms' => <<t, x>> \in rooms \/ (t = s /\ x = job[h].ex)
          /\ rooms \subseteq rooms'
      BY <1>2, <1>5, <1>t DEF JoinEnter, Goto, EnterRoom
    <2> QED
      BY <1>1, <1>2, <2>1, HandlerUnheard
  <1>6. CASE JoinData(h)
    <2>1. /\ shown' = shown /\ owed' = owed /\ rooms' = rooms /\ Slots
          /\ pc'[h] = "join.insert" /\ job' = job /\ pc[h] = "join.data"
      BY <1>6, <1>t DEF JoinData, Goto
    <2> QED
      BY <1>1, <2>1, HandlerUnheard
  <1>7. CASE JoinInsert(h)
    <2>1. /\ pc[h] = "join.insert" /\ job[h].ex \in Exhibitions
          /\ rooms' = rooms /\ Broadcast(InstanceOf[s], job[h].ex) /\ Slots
          /\ owed' = Uncovered(owed, InstanceOf[s], job[h].ex)
          /\ pc'[h] = "idle" /\ job'[h].sock \in {s, None}
      BY <1>2, <1>7, <1>t DEF JoinInsert, End, NoJob
    <2>2. CASE e = job[h].ex
      BY <1>told, <2>1, <2>2
    <2>3. CASE e # job[h].ex
      <3>1. /\ \A t \in Sockets : shown'[t][e] = shown[t][e]
            /\ \A t \in Sockets : <<t, e>> \in owed' <=> <<t, e>> \in owed
        BY <2>1, <2>3, BroadcastOther DEF Uncovered
      <3> QED
        BY <1>1, <2>1, <2>3, <3>1, HandlerUnheard
    <2> QED
      BY <2>2, <2>3
  <1>8. CASE JoinInsertFails(h)
    <2>1. /\ pc[h] = "join.insert" /\ shown' = shown /\ rooms' = rooms /\ Slots
          /\ owed' = owed \cup {<<s, job[h].ex>>} /\ pc'[h] = "idle"
      BY <1>2, <1>8, <1>t DEF JoinInsertFails, End
    <2> QED
      BY <1>1, <1>2, <2>1, HandlerUnheard
  <1>9. CASE WatchCount(h)
    <2>1. /\ pc[h] = "watch.count" /\ job[h].ex \in Exhibitions
          /\ rooms' = rooms /\ owed' = owed /\ Slots /\ pc'[h] = "idle"
      BY <1>9, <1>t DEF WatchCount, End
    <2>2. ASSUME conn[s] = "open", job[h].ex = e
          PROVE  Counts(shown[s][e], InstanceOf[s], e)'
      <3> DEFINE X == {t \in VisitorsOf(e) : InstanceOf[t] = InstanceOf[s]}
      <3>1. shown'[s][e] = Cardinality(X)
        BY <1>2, <1>9, <2>2 DEF WatchCount, LocalSize, Typed, TypeOK
      <3>2. X \in SUBSET On(InstanceOf[s]) /\ X = On(InstanceOf[s]) \cap VisitorsOf(e)'
        BY <2>1 DEF On
      <3> HIDE DEF X
      <3> QED
        BY <3>1, <3>2 DEF Counts, On
    <2>3. Unsure(e)' = Unsure(e)
      BY <2>1 DEF Unsure, Pending
    <2>4. ASSUME NEW t \in VisitorsOf(e)' \cup WatchersOf(e)', ~Untold(t, e)'
          PROVE  ShownTo(t, e)'
      <3>1. t \in VisitorsOf(e) \cup WatchersOf(e) /\ t \in Sockets
        BY <1>1, <2>1
      <3>2. CASE t = s /\ job[h].ex = e
        <4>1. conn[s] = "open"
          BY <1>2, <3>1, <3>2
        <4>2. InstanceOf[s] \in Instances /\ s \in ReachOf(InstanceOf[s])
          BY GatewayAssumption DEF ReachOf
        <4> HIDE DEF VisitorsOf, WatchersOf
        <4> QED
          BY <2>2, <3>2, <4>1, <4>2 DEF ShownTo, ReachOf
      <3>3. CASE ~(t = s /\ job[h].ex = e)
        <4>1. shown'[t][e] = shown[t][e]
          BY <1>2, <1>9, <3>1, <3>3 DEF WatchCount, Typed, TypeOK
        <4>2. ~Untold(t, e)
          BY <1>2, <2>1, <2>4, <3>3 DEF Untold
        <4>3. ShownTo(t, e)
          BY <3>1 DEF ShownFor
        <4> HIDE DEF VisitorsOf, WatchersOf
        <4> QED
          BY <2>1, <2>3, <3>1, <4>1, <4>2, <4>3, StillShown
      <3> QED
        BY <3>2, <3>3
    <2> QED
      BY <2>4 DEF ShownFor, ShownTo
  <1> QED
    BY <1>3, <1>4, <1>5, <1>6, <1>7, <1>8, <1>9 DEF Continue

\* A disconnect takes the socket out of every room it is in: the count of the
\* one that data names is broadcast, of another one it is owed.
LEMMA DisconnectCounts ==
  ASSUME Typed, NEW s \in Sockets, Disconnect(s), NEW e \in Exhibitions, ShownFor(e)
  PROVE  Unheard(e) \/ ShownFor(e)'
  <1>1. /\ UNCHANGED <<pc, job>>
        /\ rooms' = {p \in rooms : p[1] # s} /\ watchers' = {p \in watchers : p[1] # s}
        /\ owed' = Uncovered(owed \cup (rooms \ rooms'), InstanceOf[s], data[s])
    BY DEF Disconnect, rest
  <1>2. CASE data[s] = e
    <2>1. Broadcast(InstanceOf[s], e) /\ InstanceOf[s] \in Instances
      BY <1>2, GatewayAssumption DEF Disconnect
    <2>2. \A t \in Sockets : InstanceOf[t] # InstanceOf[s] =>
             /\ <<t, e>> \in rooms' <=> <<t, e>> \in rooms
             /\ <<t, e>> \in watchers' <=> <<t, e>> \in watchers
             /\ <<t, e>> \in owed => <<t, e>> \in owed'
      BY <1>1 DEF Uncovered
    <2>3. \A t \in Sockets : InstanceOf[t] # InstanceOf[s] =>
             (Pending(t, e) => Pending(t, e)') /\ (Untold(t, e) => Untold(t, e)')
      BY <1>1, <2>2 DEF Pending, Untold
    <2>4. owed \subseteq owed \cup (rooms \ rooms')
      OBVIOUS
    <2> QED
      BY <1>1, <1>2, <2>1, <2>2, <2>3, <2>4, BroadcastFits
  <1>3. CASE data[s] # e
    <2>1. /\ \A t \in Sockets : shown'[t][e] = shown[t][e]
          /\ \A t \in Sockets : <<t, e>> \in owed => <<t, e>> \in owed'
          /\ \A t \in Sockets :
                <<t, e>> \in owed' => <<t, e>> \in owed \/ <<t, e>> \notin rooms'
      BY <1>1, <1>3, BroadcastOther DEF Disconnect, Uncovered
    <2>2. \A t \in Sockets : /\ Pending(t, e)' <=> Pending(t, e)
                             /\ Untold(t, e) => Untold(t, e)'
      BY <1>1, <2>1 DEF Pending, Untold
    <2>3. Unsure(e) \subseteq Unsure(e)'
      BY <2>1, <2>2 DEF Unsure
    <2>4. \A t \in Sockets : t \in Unsure(e)' \/ (<<t, e>> \in rooms' <=> <<t, e>> \in rooms)
      BY <1>1, <1>3 DEF Unsure, Uncovered
    <2>5. VisitorsOf(e)' \cup WatchersOf(e)' \subseteq VisitorsOf(e) \cup WatchersOf(e)
      BY <1>1 DEF VisitorsOf, WatchersOf
    <2> QED
      BY <2>1, <2>2, <2>3, <2>4, <2>5 DEF Unheard, VisitorsOf, WatchersOf
  <1> QED
    BY <1>2, <1>3

LEMMA CountsInductive ==
  ASSUME Typed, SocketsFit, CountsFit, [Next]_vars
  PROVE  CountsFit'
  <1> SUFFICES ASSUME NEW e \in Exhibitions
               PROVE  Unheard(e) \/ ShownFor(e)'
    BY UnheardFits DEF CountsFit
  <1>1. ASSUME NEW h \in Handlers, Steps(h)
        PROVE  Unheard(e) \/ ShownFor(e)'
    BY <1>1, StartCounts, ContinueCounts DEF Steps, CountsFit
  <1>2. ASSUME NEW s \in Sockets, Disconnect(s)
        PROVE  Unheard(e) \/ ShownFor(e)'
    BY <1>2, DisconnectCounts DEF CountsFit
  <1>3. CASE \/ \E s \in Sockets : Connect(s)
             \/ \E s \in Sockets, x \in Exhibitions : Unwatch(s, x)
             \/ UNCHANGED vars
    <2>1. /\ UNCHANGED <<rooms, shown, owed, pc, job>> /\ watchers' \subseteq watchers
      BY <1>3 DEF Connect, Unwatch, rest, vars
    <2>2. /\ Unsure(e)' = Unsure(e) /\ \A t \in Sockets : Untold(t, e)' <=> Untold(t, e)
      BY <2>1 DEF Unsure, Pending, Untold
    <2> QED
      BY <2>1, <2>2 DEF Unheard, VisitorsOf, WatchersOf
  <1> QED
    BY <1>1, <1>2, <1>3, NextKinds

LEMMA CountsInit == Init => CountsFit
  BY DEF Init, CountsFit, ShownFor, VisitorsOf, WatchersOf

\* The sockets of a process that are owed a count for e, and the entries and
\* departures it is owed for, are as many.
LEMMA OwedSize ==
  ASSUME Typed, NEW e \in Exhibitions, NEW i
  PROVE  LET D == {s \in On(i) : <<s, e>> \in owed}
             P == {p \in owed : p[2] = e /\ InstanceOf[p[1]] = i}
         IN  IsFiniteSet(D) /\ IsFiniteSet(P) /\ Cardinality(P) = Cardinality(D)
  <1> DEFINE D == {s \in On(i) : <<s, e>> \in owed}
             P == {p \in owed : p[2] = e /\ InstanceOf[p[1]] = i}
             f == [s \in D |-> <<s, e>>]
  <1>1. D \in SUBSET Sockets /\ IsFiniteSet(Sockets)
    BY GatewayAssumption DEF On
  <1>2. IsFiniteSet(D)
    BY <1>1, FS_Subset, Zenon
  <1>3. f \in Bijection(D, P)
    <2>1. f \in [D -> P] /\ \A a, b \in D : f[a] = f[b] => a = b
      <3>1. \A a \in D : <<a, e>> \in P /\ f[a] = <<a, e>>
        BY DEF On
      <3>2. f \in [D -> P]
        BY <3>1
      <3> HIDE DEF f
      <3>3. \A a, b \in D : f[a] = f[b] => a = b
        BY <3>1
      <3> QED
        BY <3>2, <3>3
    <2>2. \A p \in P : \E s \in D : f[s] = p
      <3> SUFFICES ASSUME NEW p \in P
                   PROVE  \E s \in D : f[s] = p
        OBVIOUS
      <3>1. PICK s \in Sockets, x \in Exhibitions : p = <<s, x>>
        BY DEF Typed, TypeOK
      <3>2. x = e /\ s \in D /\ f[s] = p
        BY <3>1 DEF On
      <3> QED
        BY <3>2
    <2> QED
      <3> HIDE DEF D, P, f
      <3> QED
        BY <2>1, <2>2 DEF Bijection, Injection, Surjection, IsInjective
  <1>4. ExistsBijection(D, P)
    BY <1>3 DEF ExistsBijection
  <1>5. IsFiniteSet(P) /\ Cardinality(P) = Cardinality(D)
    BY <1>2, <1>4, FS_Bijection, Zenon
  <1> QED
    BY <1>2, <1>5

\* Sets that agree outside D differ in size by at most that of D.
LEMMA SizesClose ==
  ASSUME NEW X, NEW Y, NEW D, IsFiniteSet(X), IsFiniteSet(Y), IsFiniteSet(D),
         X \subseteq Y \cup D
  PROVE  Cardinality(X) <= Cardinality(Y) + Cardinality(D)
  <1>1. /\ IsFiniteSet(Y \cup D)
        /\ Cardinality(Y \cup D) = Cardinality(Y) + Cardinality(D) - Cardinality(Y \cap D)
    BY FS_Union, Zenon
  <1>2. X \in SUBSET (Y \cup D)
    OBVIOUS
  <1>3. Cardinality(X) <= Cardinality(Y \cup D)
    BY <1>1, <1>2, FS_Subset, Zenon
  <1>4. IsFiniteSet(Y \cap D)
    <2>1. Y \cap D \in SUBSET Y
      OBVIOUS
    <2> QED
      BY <2>1, FS_Subset, Zenon
  <1>5. /\ Cardinality(X) \in Nat /\ Cardinality(Y) \in Nat /\ Cardinality(D) \in Nat
        /\ Cardinality(Y \cap D) \in Nat
    BY <1>4, FS_CardinalityType, Zenon
  <1> QED
    BY <1>1, <1>3, <1>5

\* On any number of API processes, whatever joins, switches, leaves, watches and
\* disconnects overlapped and whichever visit events could not be stored: once
\* every handler has ended, each visitor and watcher has been shown the number of
\* visitors of one process, off by at most the entries and departures of that
\* process that no broadcast has followed.
THEOREM CountIsTrue == Spec => []CountTrue
  <1> DEFINE Inv == Typed /\ SocketsFit /\ CountsFit
  <1>1. Init => Inv
    BY RoomsInit, CountsInit DEF Rooms
  <1>2. Inv /\ [Next]_vars => Inv'
    BY TypedInductive, SocketsInductive, CountsInductive
  <1>3. Inv => CountTrue
    <2> SUFFICES ASSUME Typed, CountsFit, \A h \in Handlers : pc[h] = "idle",
                        NEW e \in Exhibitions, NEW s \in VisitorsOf(e) \cup WatchersOf(e),
                        <<s, e>> \notin owed
                 PROVE  /\ shown[s][e] # None
                        /\ \E i \in Instances :
                             LET slack == Cardinality({p \in owed : p[2] = e /\ InstanceOf[p[1]] = i})
                             IN  /\ s \in ReachOf(i)
                                 /\ LocalSize(i, e) <= shown[s][e] + slack
                                 /\ shown[s][e] <= LocalSize(i, e) + slack
      BY DEF CountTrue, At
    <2>1. ~Untold(s, e) /\ \A t : ~Pending(t, e)
      BY DEF Pending, Untold
    <2>2. PICK i \in Instances : s \in ReachOf(i) /\ Counts(shown[s][e], i, e)
      BY <2>1 DEF CountsFit, ShownFor, ShownTo
    <2> DEFINE D == {t \in On(i) : <<t, e>> \in owed}
               V == On(i) \cap VisitorsOf(e)
    <2>3. PICK X \in SUBSET On(i) : shown[s][e] = Cardinality(X) /\ X \ Unsure(e) = V \ Unsure(e)
      BY <2>2 DEF Counts
    <2>4. X \subseteq V \cup D /\ V \subseteq X \cup D
      BY <2>1, <2>3 DEF Unsure, On
    <2>5. IsFiniteSet(Sockets) /\ V \in SUBSET Sockets /\ X \in SUBSET Sockets
      BY GatewayAssumption DEF On
    <2>6. IsFiniteSet(X) /\ IsFiniteSet(V)
      BY <2>5, FS_Subset, Zenon
    <2>7. /\ IsFiniteSet(D)
          /\ Cardinality({p \in owed : p[2] = e /\ InstanceOf[p[1]] = i}) = Cardinality(D)
      BY OwedSize
    <2>8. LocalSize(i, e) = Cardinality(V)
      <3>1. {t \in VisitorsOf(e) : InstanceOf[t] = i} = V
        BY DEF VisitorsOf, On
      <3> QED
        BY <3>1 DEF LocalSize
    <2>9. Cardinality(X) # None
      BY <2>5, CountTyped, GatewayAssumption
    <2> HIDE DEF D, V
    <2>10. /\ Cardinality(X) <= Cardinality(V) + Cardinality(D)
           /\ Cardinality(V) <= Cardinality(X) + Cardinality(D)
      BY <2>4, <2>6, <2>7, SizesClose
    <2> QED
      BY <2>2, <2>3, <2>7, <2>8, <2>9, <2>10
  <1> QED
    BY <1>1, <1>2, <1>3, PTL DEF Spec

=============================================================================
