---------------------------- MODULE PeerManager ----------------------------
(***************************************************************************)
(* createHarnessPeerManager of src/harness/runtime-only/                   *)
(* harness-peer-manager.js: the PeerManager a Runtime is given, one per    *)
(* node, over a bus that keeps the order of the frames of one sender.      *)
(*                                                                         *)
(* pm[n] is the closure of node n's manager.  The Runtime above it is      *)
(* external: an RPC client opens connections, sends commands and reads the *)
(* responses; an RPC server serves one connection at a time and closes the *)
(* fd it accepted once the connection is gone (patches/0002).  Every       *)
(* connection carries the number of the connect() call that opened it, so  *)
(* that properties can tell connections of one remote, or of one fd, apart.*)
(***************************************************************************)
EXTENDS Integers, Sequences, FiniteSets

CONSTANTS
  Clients, Servers,     \* the nodes that connect, and those that accept
  FdMax,                \* fd numbers cycle below this
  MaxConnects,          \* bound: connect() calls in all
  MaxResets,            \* bound: close() calls in all
  MaxFrames             \* bound: frames of one node to another, unread or in flight

ASSUME FdAssumption == FdMax \in Nat \ {0}
ASSUME NodeAssumption == Clients \cap Servers = {}
ASSUME BoundAssumption == MaxConnects \in Nat /\ MaxResets \in Nat /\ MaxFrames \in Nat

Nodes == Clients \cup Servers
Fds == 0..(FdMax - 1)
NoFd == -1
Ids == 1..MaxConnects   \* connections, numbered as connect() opens them
NoId == 0

VARIABLES
  pm,                   \* the state of each manager
  bus,                  \* frames in flight, per sender and receiver
  held,                 \* the connection the Runtime was given under an fd, or NoId
  rpc,                  \* whether the Runtime is in the middle of a command on an fd
  opened, resets        \* how many connect() and close() calls there have been

vars == <<pm, bus, held, rpc, opened, resets>>

Free == [state |-> "free", remote |-> NoFd, id |-> NoId, queue |-> <<>>,
         wake |-> FALSE, accepted |-> FALSE]

Commands == {"request", "oneway", "response"}
Frame == [kind : {"connect", "accepted", "close"} \cup Commands, id : Ids]

(* A slot of conns: no connection, a live one, or a tombstone whose number  *)
(* stays reserved. wake: a recv() is parked; accepted: a connect() is.      *)
Conn == [state : {"free", "live", "dead"}, remote : Nodes \cup {NoFd},
         id : Ids \cup {NoId}, queue : Seq([kind : Commands, id : Ids]),
         wake : BOOLEAN, accepted : BOOLEAN]

Manager == [conns : [Fds -> Conn], byRemote : [Nodes -> Fds \cup {NoFd}],
            readyFds : Seq(Fds), acceptWaiters : Nat, nextFd : Fds]

TypeOK ==
  /\ pm \in [Nodes -> Manager]
  /\ bus \in [Nodes -> [Nodes -> Seq(Frame)]]
  /\ held \in [Nodes -> [Fds -> Ids \cup {NoId}]]
  /\ rpc \in [Nodes -> [Fds -> {"idle", "busy"}]]
  /\ opened \in 0..MaxConnects
  /\ resets \in 0..MaxResets

Init ==
  /\ pm = [n \in Nodes |-> [conns |-> [fd \in Fds |-> Free],
                            byRemote |-> [m \in Nodes |-> NoFd],
                            readyFds |-> <<>>, acceptWaiters |-> 0, nextFd |-> 0]]
  /\ bus = [n \in Nodes |-> [m \in Nodes |-> <<>>]]
  /\ held = [n \in Nodes |-> [fd \in Fds |-> NoId]]
  /\ rpc = [n \in Nodes |-> [fd \in Fds |-> "idle"]]
  /\ opened = 0 /\ resets = 0

-----------------------------------------------------------------------------
(* The manager's helpers, as functions of its state p.                     *)

Live(p, fd) == p.conns[fd].state = "live"

(* newFd: the first number free of connections and tombstones, cyclically. *)
Distance(p, fd) == IF fd >= p.nextFd THEN fd - p.nextFd ELSE fd - p.nextFd + FdMax

NewFd(p, fd) ==
  /\ p.conns[fd].state = "free"
  /\ \A g \in Fds : p.conns[g].state = "free" => Distance(p, fd) <= Distance(p, g)

Full(p) == \A fd \in Fds : p.conns[fd].state # "free"

(* readyFds.splice(indexOf(fd), 1): an fd is queued at most once. *)
Without(queue, fd) ==
  LET places == {i \in 1..Len(queue) : queue[i] = fd}
      k == CHOOSE i \in places : TRUE
  IN IF places = {} THEN queue
     ELSE [i \in 1..(Len(queue) - 1) |-> IF i < k THEN queue[i] ELSE queue[i + 1]]

(* Mutant: the number is free as soon as the connection is gone. *)
TombstoneReleases(p, fd) ==
  IF ~Live(p, fd) THEN p
  ELSE [p EXCEPT !.conns[fd] = Free,
                 !.byRemote[p.conns[fd].remote] = IF @ = fd THEN NoFd ELSE @,
                 !.readyFds = Without(@, fd)]

(* Mutant: the parked recv() of a connection that is gone is not told. *)
TombstoneWakesNobody(p, fd) ==
  IF ~Live(p, fd) THEN p
  ELSE [p EXCEPT !.conns[fd] = [@ EXCEPT !.state = "dead", !.queue = <<>>, !.accepted = FALSE],
                 !.byRemote[p.conns[fd].remote] = IF @ = fd THEN NoFd ELSE @,
                 !.readyFds = Without(@, fd)]

(* Mutant: a connection that is gone stays in the queue for accept(). *)
TombstoneStaysQueued(p, fd) ==
  IF ~Live(p, fd) THEN p
  ELSE [p EXCEPT !.conns[fd] = [@ EXCEPT !.state = "dead", !.queue = <<>>,
                                         !.wake = FALSE, !.accepted = FALSE],
                 !.byRemote[p.conns[fd].remote] = IF @ = fd THEN NoFd ELSE @]

(* The connection stops carrying data and a parked recv() or connect() is   *)
(* told so, but conns still holds the number.                               *)
Tombstone(p, fd) ==
  IF ~Live(p, fd) THEN p
  ELSE [p EXCEPT !.conns[fd] = [@ EXCEPT !.state = "dead", !.queue = <<>>,
                                         !.wake = FALSE, !.accepted = FALSE],
                 !.byRemote[p.conns[fd].remote] = IF @ = fd THEN NoFd ELSE @,
                 !.readyFds = Without(@, fd)]

(* Mutant: the previous connection to the remote stays live. *)
CreateConnBesides(p, fd, remote, id) ==
  [p EXCEPT !.conns[fd] = [state |-> "live", remote |-> remote, id |-> id,
                           queue |-> <<>>, wake |-> FALSE, accepted |-> FALSE],
            !.byRemote[remote] = fd,
            !.nextFd = (fd + 1) % FdMax]

(* createConn: the previous connection to the remote becomes a tombstone.   *)
(* nextFd is kept below FdMax: newFd() leaves it at fd + 1, and wraps it     *)
(* when it looks for a number again.                                        *)
CreateConn(p, fd, remote, id) ==
  LET previous == p.byRemote[remote]
      q == IF previous = NoFd THEN p ELSE Tombstone(p, previous)
  IN [q EXCEPT !.conns[fd] = [state |-> "live", remote |-> remote, id |-> id,
                              queue |-> <<>>, wake |-> FALSE, accepted |-> FALSE],
               !.byRemote[remote] = fd,
               !.nextFd = (fd + 1) % FdMax]

Post(from, to, kind, id) ==
  bus' = [bus EXCEPT ![from][to] = Append(@, [kind |-> kind, id |-> id])]

(* The bound on frames in flight or delivered and not yet read. *)
Unread(n, from) ==
  IF pm[n].byRemote[from] = NoFd THEN 0 ELSE Len(pm[n].conns[pm[n].byRemote[from]].queue)

CanPost(from, to) == Len(bus[from][to]) + Unread(to, from) < MaxFrames

-----------------------------------------------------------------------------
(* Frames.                                                                 *)

(* The Runtime has read a command: who is to send next. *)
AfterRead(kind) == IF kind = "request" THEN "busy" ELSE "idle"

(* handleConnect: without a free number the frame is dropped, unanswered. *)
HandleConnect(n, from, id, rest) ==
  \/ /\ Full(pm[n])
     /\ bus' = [bus EXCEPT ![from][n] = rest]
     /\ UNCHANGED <<pm, held>>
  \/ \E fd \in Fds :
       LET p == CreateConn(pm[n], fd, from, id)
       IN /\ NewFd(pm[n], fd)
          /\ \/ /\ p.acceptWaiters > 0
                /\ pm' = [pm EXCEPT ![n] = [p EXCEPT !.acceptWaiters = @ - 1]]
                /\ held' = [held EXCEPT ![n][fd] = id]
                /\ bus' = [bus EXCEPT ![from][n] = rest,
                             ![n][from] = Append(bus[n][from], [kind |-> "accepted", id |-> id])]
             \/ /\ p.acceptWaiters = 0
                /\ pm' = [pm EXCEPT ![n] = [p EXCEPT !.readyFds = Append(@, fd)]]
                /\ bus' = [bus EXCEPT ![from][n] = rest]
                /\ UNCHANGED held

(* The connect() that is parked on this remote's connection returns its fd. *)
HandleAccepted(n, fd) ==
  /\ pm' = [pm EXCEPT ![n].conns[fd].accepted = FALSE]
  /\ held' = IF pm[n].conns[fd].accepted
             THEN [held EXCEPT ![n][fd] = pm[n].conns[fd].id] ELSE held
  /\ UNCHANGED rpc

(* handleData: wake the parked recv(), which drains the queue, or queue it. *)
HandleData(n, fd, frame) ==
  /\ \/ /\ pm[n].conns[fd].wake
        /\ pm' = [pm EXCEPT ![n].conns[fd].wake = FALSE]
        /\ rpc' = [rpc EXCEPT ![n][fd] = AfterRead(frame.kind)]
     \/ /\ ~pm[n].conns[fd].wake
        /\ pm' = [pm EXCEPT ![n].conns[fd].queue = Append(@, frame)]
        /\ UNCHANGED rpc
  /\ UNCHANGED held

(* onMessage: every frame but connect is looked up by its sender alone. *)
Deliver(from, n) ==
  /\ bus[from][n] # <<>>
  /\ LET frame == Head(bus[from][n])
         rest  == Tail(bus[from][n])
         fd    == pm[n].byRemote[from]
     IN \/ /\ frame.kind = "connect"
           /\ HandleConnect(n, from, frame.id, rest)
           /\ UNCHANGED rpc
        \/ /\ frame.kind # "connect"
           /\ bus' = [bus EXCEPT ![from][n] = rest]
           /\ \/ fd = NoFd /\ UNCHANGED <<pm, held, rpc>>
              \/ fd # NoFd /\ frame.kind = "accepted" /\ HandleAccepted(n, fd)
              \/ fd # NoFd /\ frame.kind \in Commands /\ HandleData(n, fd, frame)
              \/ /\ fd # NoFd /\ frame.kind = "close"
                 /\ pm' = [pm EXCEPT ![n] = Tombstone(@, fd)]
                 /\ UNCHANGED <<held, rpc>>
  /\ UNCHANGED <<opened, resets>>

-----------------------------------------------------------------------------
(* Calls of the Runtime.                                                   *)

(* A client's thread opens connections between commands and is parked until *)
(* connect() answers; with no free number it answers -1 and nothing changes.*)
Connect(n, m) ==
  /\ n \in Clients /\ m \in Servers
  /\ opened < MaxConnects
  /\ \A fd \in Fds : Live(pm[n], fd) => rpc[n][fd] = "idle" /\ ~pm[n].conns[fd].accepted
  /\ CanPost(n, m)
  /\ \E fd \in Fds :
       /\ NewFd(pm[n], fd)
       /\ pm' = [pm EXCEPT ![n] = [CreateConn(@, fd, m, opened + 1) EXCEPT !.conns[fd].accepted = TRUE]]
  /\ Post(n, m, "connect", opened + 1)
  /\ opened' = opened + 1
  /\ UNCHANGED <<held, rpc, resets>>

(* The server thread has no connection and is not parked in accept(). *)
ServerIdle(n) == pm[n].acceptWaiters = 0 /\ \A fd \in Fds : held[n][fd] = NoId

(* accept: the first connection in the queue that is still live, or park. *)
Accept(n) ==
  /\ n \in Servers
  /\ ServerIdle(n)
  /\ LET queue == pm[n].readyFds
         gone(i) == ~Live(pm[n], queue[i])
     IN \/ \E i \in 1..Len(queue) :
             LET fd == queue[i] IN
             /\ Live(pm[n], fd) /\ \A j \in 1..(i - 1) : gone(j)
             /\ pm' = [pm EXCEPT ![n].readyFds = SubSeq(queue, i + 1, Len(queue))]
             /\ Post(n, pm[n].conns[fd].remote, "accepted", pm[n].conns[fd].id)
             /\ held' = [held EXCEPT ![n][fd] = pm[n].conns[fd].id]
        \/ /\ \A i \in 1..Len(queue) : gone(i)
           /\ pm' = [pm EXCEPT ![n].readyFds = <<>>, ![n].acceptWaiters = @ + 1]
           /\ UNCHANGED <<bus, held>>
  /\ UNCHANGED <<rpc, opened, resets>>

(* Mutant: send() does not look whether the connection is a tombstone. *)
SendOnTombstone(n, fd) ==
  /\ held[n][fd] # NoId /\ ~pm[n].conns[fd].wake
  /\ CanPost(n, pm[n].conns[fd].remote)
  /\ \E kind \in Commands :
       /\ IF n \in Clients
          THEN rpc[n][fd] = "idle" /\ kind # "response"
          ELSE rpc[n][fd] = "busy" /\ kind = "response"
       /\ Post(n, pm[n].conns[fd].remote, kind, pm[n].conns[fd].id)
       /\ rpc' = [rpc EXCEPT ![n][fd] = AfterRead(kind)]
  /\ UNCHANGED <<pm, held, opened, resets>>

(* send: a client starts a command, a server answers one. On a tombstone it *)
(* returns -1 and nothing changes.                                          *)
Send(n, fd) ==
  /\ held[n][fd] # NoId /\ Live(pm[n], fd) /\ ~pm[n].conns[fd].wake
  /\ CanPost(n, pm[n].conns[fd].remote)
  /\ \E kind \in Commands :
       /\ IF n \in Clients
          THEN rpc[n][fd] = "idle" /\ kind # "response"
          ELSE rpc[n][fd] = "busy" /\ kind = "response"
       /\ Post(n, pm[n].conns[fd].remote, kind, pm[n].conns[fd].id)
       /\ rpc' = [rpc EXCEPT ![n][fd] = AfterRead(kind)]
  /\ UNCHANGED <<pm, held, opened, resets>>

(* recv: a client that awaits a response, or a server between two commands, *)
(* takes the next command, or parks. On a tombstone it fails at once.       *)
Recv(n, fd) ==
  /\ held[n][fd] # NoId /\ Live(pm[n], fd) /\ ~pm[n].conns[fd].wake
  /\ IF n \in Clients THEN rpc[n][fd] = "busy" ELSE rpc[n][fd] = "idle"
  /\ LET queue == pm[n].conns[fd].queue
     IN \/ /\ queue # <<>>
           /\ pm' = [pm EXCEPT ![n].conns[fd].queue = Tail(@)]
           /\ rpc' = [rpc EXCEPT ![n][fd] = AfterRead(Head(queue).kind)]
        \/ /\ queue = <<>>
           /\ pm' = [pm EXCEPT ![n].conns[fd].wake = TRUE]
           /\ UNCHANGED rpc
  /\ UNCHANGED <<bus, held, opened, resets>>

(* When the Runtime closes an fd: a client between commands or after a      *)
(* failure, a server only once recv() or send() has failed.                 *)
MayClose(n, fd) ==
  /\ held[n][fd] # NoId
  /\ ~pm[n].conns[fd].wake
  /\ \/ ~Live(pm[n], fd)
     \/ n \in Clients /\ rpc[n][fd] = "idle"

(* Mutant: the peer is not told that the Runtime closed the connection. *)
CloseConnectionSilently(n, fd) ==
  /\ MayClose(n, fd)
  /\ pm' = [pm EXCEPT ![n] = [Tombstone(@, fd) EXCEPT !.conns[fd] = Free]]
  /\ held' = [held EXCEPT ![n][fd] = NoId]
  /\ rpc' = [rpc EXCEPT ![n][fd] = "idle"]
  /\ UNCHANGED <<bus, opened, resets>>

(* Mutant: a tombstone the Runtime closes keeps its number. *)
CloseConnectionKeepsDead(n, fd) ==
  /\ MayClose(n, fd)
  /\ IF Live(pm[n], fd)
     THEN /\ pm' = [pm EXCEPT ![n] = [Tombstone(@, fd) EXCEPT !.conns[fd] = Free]]
          /\ Post(n, pm[n].conns[fd].remote, "close", pm[n].conns[fd].id)
     ELSE UNCHANGED <<pm, bus>>
  /\ held' = [held EXCEPT ![n][fd] = NoId]
  /\ rpc' = [rpc EXCEPT ![n][fd] = "idle"]
  /\ UNCHANGED <<opened, resets>>

(* close_connection: the only thing that releases the number for reuse. *)
CloseConnection(n, fd) ==
  /\ MayClose(n, fd)
  /\ pm' = [pm EXCEPT ![n] = [Tombstone(@, fd) EXCEPT !.conns[fd] = Free]]
  /\ IF Live(pm[n], fd)
     THEN Post(n, pm[n].conns[fd].remote, "close", pm[n].conns[fd].id)
     ELSE UNCHANGED bus
  /\ held' = [held EXCEPT ![n][fd] = NoId]
  /\ rpc' = [rpc EXCEPT ![n][fd] = "idle"]
  /\ UNCHANGED <<opened, resets>>

(* close(): everything becomes a tombstone, nothing is released, nobody is  *)
(* told, and parked accept() calls stay parked.                             *)
Close(n) ==
  /\ resets < MaxResets
  /\ pm' = [pm EXCEPT ![n] =
       [@ EXCEPT !.conns = [fd \in Fds |-> Tombstone(pm[n], fd).conns[fd]],
                 !.byRemote = [m \in Nodes |-> NoFd],
                 !.readyFds = <<>>]]
  /\ resets' = resets + 1
  /\ UNCHANGED <<bus, held, rpc, opened>>

Runtime(n) ==
  \/ \E m \in Nodes : Connect(n, m)
  \/ Accept(n)
  \/ \E fd \in Fds : Send(n, fd) \/ Recv(n, fd) \/ CloseConnection(n, fd)
  \/ Close(n)

Next ==
  \/ \E n, m \in Nodes : Deliver(n, m)
  \/ \E n \in Nodes : Runtime(n)

Spec == Init /\ [][Next]_vars

(* Frames are delivered, and a server's thread keeps running. *)
ServersFair ==
  /\ \A n, m \in Nodes : WF_vars(Deliver(n, m))
  /\ \A n \in Servers : /\ WF_vars(Accept(n))
                         /\ \A fd \in Fds : /\ WF_vars(Send(n, fd))
                                            /\ WF_vars(Recv(n, fd))
                                            /\ WF_vars(CloseConnection(n, fd))

FairSpec == Spec /\ ServersFair

-----------------------------------------------------------------------------
(* Properties.                                                             *)

(* The number under which the Runtime knows a connection is not given to    *)
(* another one before the Runtime closes it, so that close_peer() never     *)
(* tears down somebody else's connection.                                   *)
HeldFdKeepsItsConnection ==
  \A n \in Nodes, fd \in Fds :
    held[n][fd] # NoId => /\ pm[n].conns[fd].state # "free"
                          /\ pm[n].conns[fd].id = held[n][fd]

(* At most one connection per remote is live, and it is the one byRemote    *)
(* finds: a frame never reaches a tombstone.                                *)
OneLivePerRemote ==
  \A n \in Nodes, m \in Nodes, fd \in Fds :
    Live(pm[n], fd) /\ pm[n].conns[fd].remote = m <=> pm[n].byRemote[m] = fd

(* No thread is left parked on a connection that will never be woken: a     *)
(* parked recv() or connect() is on a live connection, and a parked recv()  *)
(* has nothing it could read.                                               *)
ParkedOnLive ==
  \A n \in Nodes, fd \in Fds :
    LET conn == pm[n].conns[fd]
    IN /\ conn.wake \/ conn.accepted => conn.state = "live"
       /\ conn.wake => conn.queue = <<>> /\ held[n][fd] = conn.id

(* No connection is stranded between the bus and accept(): a live one that  *)
(* the Runtime has not been given is queued exactly once or awaited by      *)
(* connect(), nothing else is queued, and accept() is not parked meanwhile. *)
NoConnectionStranded ==
  \A n \in Nodes :
    LET queue == pm[n].readyFds
        queued == {queue[i] : i \in 1..Len(queue)}
    IN /\ Cardinality(queued) = Len(queue)
       /\ queued = {fd \in Fds : /\ Live(pm[n], fd) /\ held[n][fd] = NoId
                                 /\ ~pm[n].conns[fd].accepted}
       /\ pm[n].acceptWaiters > 0 => queue = <<>>

(* As long as no manager is close()d, a connection only ever carries the    *)
(* commands that were sent on it, although frames name no connection.       *)
StreamsDoNotMix ==
  resets = 0 =>
    \A n \in Nodes, fd \in Fds :
      LET conn == pm[n].conns[fd]
      IN \A i \in 1..Len(conn.queue) : conn.queue[i].id = conn.id

(* The numbers of server n in use, but for the one its thread holds if its  *)
(* connection is gone, or is one that client m has had.                     *)
TakenByOthers(n, m) ==
  {fd \in Fds : /\ pm[n].conns[fd].state # "free"
                /\ held[n][fd] # NoId => Live(pm[n], fd) /\ pm[n].conns[fd].remote # m}

ConnectUnderWay(m, n) == \E i \in 1..Len(bus[m][n]) : bus[m][n][i].kind = "connect"

(* While a client's connect() is on its way, the other clients take one     *)
(* number of the server each at most, however often they open and close     *)
(* connections, and every tombstone is held.  So a server with as many      *)
(* numbers as clients drops a connect() only if its thread still holds a    *)
(* connection that is gone or that this client has left.  (As long as no    *)
(* manager is close()d.)                                                    *)
OthersLeaveNumber ==
  resets = 0 =>
    \A n \in Servers, m \in Clients :
      ConnectUnderWay(m, n) => Cardinality(TakenByOthers(n, m)) < Cardinality(Clients)

(* With a number more than clients it never drops one. *)
ConnectFindsNumber ==
  resets = 0 /\ FdMax > Cardinality(Clients) =>
    \A n \in Servers, m \in Clients : ConnectUnderWay(m, n) => ~Full(pm[n])

(* No client holds, awaits or keeps a live end of the connection n serves.  *)
Orphaned(n, fd) ==
  /\ held[n][fd] # NoId
  /\ \A m \in Clients, g \in Fds :
       ~(Live(pm[m], g) /\ pm[m].conns[g].id = held[n][fd])

(* Client m is parked in a connect() to n that n has dropped for want of a  *)
(* number: no frame of it is on its way, and n has no connection for it.    *)
WaitsInVain(m, n) ==
  \E g \in Fds :
    LET conn == pm[m].conns[g]
    IN /\ conn.accepted /\ conn.remote = n
       /\ \A fd \in Fds : pm[n].conns[fd].id # conn.id
       /\ \A i \in 1..Len(bus[m][n]) : bus[m][n][i].id # conn.id
       /\ \A i \in 1..Len(bus[n][m]) : bus[n][m][i].id # conn.id

(* A server does not stay with a client that is gone: once its connection   *)
(* is an orphan, it closes its own end and can accept again.  There are two *)
(* exceptions: somebody called close(); or the client has opened another    *)
(* connection, which sends no close frame, and the server had no number for *)
(* it, dropped the connect() and still serves the orphan.                   *)
ServerReturnsToAccept ==
  \A n \in Servers, fd \in Fds :
    Orphaned(n, fd) /\ resets = 0 ~>
      \/ held[n][fd] = NoId
      \/ resets > 0
      \/ \E m \in Clients : pm[n].conns[fd].remote = m /\ WaitsInVain(m, n)

(* What the comment on tombstone() says of every fd number it keeps         *)
(* reserved: the Runtime still owns it, and will close it.                  *)
TombstonesAreOwned ==
  \A n \in Nodes, fd \in Fds :
    pm[n].conns[fd].state = "dead" => held[n][fd] # NoId

=============================================================================
