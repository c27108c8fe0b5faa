------------------------- MODULE PeerManagerProofs --------------------------
(***************************************************************************)
(* What one manager keeps in step, and what the Runtime above it may rely  *)
(* on: for any set of nodes, number of fds, and number of calls.           *)
(*                                                                         *)
(* No action touches the managers of two nodes, so the invariant is one    *)
(* predicate of a manager p and of the fds h its Runtime holds.  The       *)
(* second half is about two managers and the frames between them.          *)
(***************************************************************************)
EXTENDS PeerManager, FiniteSetTheorems, SequenceTheorems, TLAPS

Members(queue) == {queue[i] : i \in 1..Len(queue)}
Distinct(queue) == \A i, j \in 1..Len(queue) : queue[i] = queue[j] => i = j

Typed(p, h) == p \in Manager /\ h \in [Fds -> Ids \cup {NoId}]

(* A live slot has a remote and a connection. *)
LiveIsReal(p) ==
  \A fd \in Fds : Live(p, fd) => p.conns[fd].remote \in Nodes /\ p.conns[fd].id \in Ids

FoundByRemote(p) ==
  \A m \in Nodes, fd \in Fds : Live(p, fd) /\ p.conns[fd].remote = m <=> p.byRemote[m] = fd

KeepsHeld(p, h) ==
  \A fd \in Fds : h[fd] # NoId => p.conns[fd].state # "free" /\ p.conns[fd].id = h[fd]

ParksOnLive(p, h) ==
  \A fd \in Fds :
    /\ p.conns[fd].wake \/ p.conns[fd].accepted => Live(p, fd)
    /\ p.conns[fd].wake => p.conns[fd].queue = <<>> /\ h[fd] = p.conns[fd].id

Waiting(p, h) == {fd \in Fds : Live(p, fd) /\ h[fd] = NoId /\ ~p.conns[fd].accepted}

QueuesWaiting(p, h) ==
  /\ Distinct(p.readyFds)
  /\ Members(p.readyFds) = Waiting(p, h)
  /\ p.acceptWaiters > 0 => p.readyFds = <<>>

Good(p, h) ==
  /\ Typed(p, h) /\ LiveIsReal(p) /\ FoundByRemote(p)
  /\ KeepsHeld(p, h) /\ ParksOnLive(p, h) /\ QueuesWaiting(p, h)

IInv == TypeOK /\ \A n \in Nodes : Good(pm[n], held[n])

-----------------------------------------------------------------------------
(* Types.                                                                  *)

LEMMA Numbers == /\ FdMax \in Nat /\ FdMax > 0 /\ 0 \in Fds /\ NoFd \notin Fds
                 /\ NoId \notin Ids /\ MaxConnects \in Nat
                 /\ \A fd \in Fds : (fd + 1) % FdMax \in Fds
BY FdAssumption, BoundAssumption DEF Fds, NoFd, NoId, Ids

LEMMA ManagerFields ==
  ASSUME NEW p \in Manager
  PROVE  /\ p.conns \in [Fds -> Conn] /\ p.byRemote \in [Nodes -> Fds \cup {NoFd}]
         /\ p.readyFds \in Seq(Fds) /\ p.acceptWaiters \in Nat /\ p.nextFd \in Fds
BY DEF Manager

LEMMA ConnFields ==
  ASSUME NEW c \in Conn
  PROVE  /\ c.state \in {"free", "live", "dead"} /\ c.remote \in Nodes \cup {NoFd}
         /\ c.id \in Ids \cup {NoId} /\ c.queue \in Seq([kind : Commands, id : Ids])
         /\ c.wake \in BOOLEAN /\ c.accepted \in BOOLEAN
BY DEF Conn

LEMMA FreeTyped == Free \in Conn /\ Free.state = "free" /\ ~Free.wake /\ ~Free.accepted
BY DEF Free, Conn

-----------------------------------------------------------------------------
(* The queue for accept().                                                 *)

(* Taking a number out leaves the others, each once. *)
LEMMA WithoutTakesOut ==
  ASSUME NEW queue \in Seq(Fds), Distinct(queue), NEW fd
  PROVE  /\ Without(queue, fd) \in Seq(Fds)
         /\ Distinct(Without(queue, fd))
         /\ Members(Without(queue, fd)) = Members(queue) \ {fd}
         /\ queue = <<>> => Without(queue, fd) = <<>>
<1> DEFINE places == {i \in 1..Len(queue) : queue[i] = fd}
           w == Without(queue, fd)
<1>1. CASE places = {}
  BY <1>1 DEF Without, Members, Distinct
<1>2. CASE places # {}
  <2> DEFINE k == CHOOSE i \in places : TRUE
             n == Len(queue)
  <2>1. k \in 1..n /\ queue[k] = fd /\ n \in Nat
    BY <1>2
  <2>2. w = [i \in 1..(n - 1) |-> IF i < k THEN queue[i] ELSE queue[i + 1]]
    BY <1>2 DEF Without
  <2> HIDE DEF k, w, n, places
  <2>3. n = Len(queue)
    BY DEF n
  <2>4. w \in Seq(Fds) /\ Len(w) = n - 1
    BY <2>1, <2>2, <2>3
  <2>5. \A i \in 1..(n - 1) : w[i] = IF i < k THEN queue[i] ELSE queue[i + 1]
    BY <2>2
  <2>6. Distinct(w)
    BY <2>1, <2>3, <2>4, <2>5 DEF Distinct
  <2>7. Members(w) \subseteq Members(queue) \ {fd}
    <3> SUFFICES ASSUME NEW i \in 1..(n - 1) PROVE w[i] \in Members(queue) \ {fd}
      BY <2>4 DEF Members
    <3> QED
      BY <2>1, <2>3, <2>5 DEF Members, Distinct
  <2>8. Members(queue) \ {fd} \subseteq Members(w)
    <3> SUFFICES ASSUME NEW j \in 1..n, queue[j] # fd PROVE queue[j] \in Members(w)
      BY <2>3 DEF Members
    <3>1. CASE j < k
      BY <3>1, <2>1, <2>4, <2>5 DEF Members
    <3>2. CASE j > k
      <4>1. j - 1 \in 1..(n - 1) /\ ~(j - 1 < k) /\ (j - 1) + 1 = j
        BY <3>2, <2>1
      <4> QED
        BY <4>1, <2>4, <2>5 DEF Members
    <3> QED
      BY <3>1, <3>2, <2>1
  <2>9. queue # <<>>
    BY <2>1, <2>3
  <2> QED
    BY <2>4, <2>6, <2>7, <2>8, <2>9 DEF w
<1> QED
  BY <1>1, <1>2

(* A number that joins, and one that leaves at the front. *)
LEMMA JoinsQueue ==
  ASSUME NEW queue \in Seq(Fds), Distinct(queue), NEW fd \in Fds, fd \notin Members(queue)
  PROVE  /\ Append(queue, fd) \in Seq(Fds) /\ Distinct(Append(queue, fd))
         /\ Members(Append(queue, fd)) = Members(queue) \cup {fd}
<1> DEFINE a == Append(queue, fd)
<1>1. /\ a \in Seq(Fds) /\ Len(a) = Len(queue) + 1 /\ Len(queue) \in Nat
      /\ a[Len(queue) + 1] = fd /\ \A i \in 1..Len(queue) : a[i] = queue[i]
  OBVIOUS
<1> HIDE DEF a
<1>2. Distinct(a)
  BY <1>1 DEF Distinct, Members
<1>3. Members(a) = Members(queue) \cup {fd}
  BY <1>1 DEF Members
<1> QED
  BY <1>1, <1>2, <1>3 DEF a

LEMMA LeavesQueue ==
  ASSUME NEW queue \in Seq(Fds), Distinct(queue), queue # <<>>
  PROVE  LET rest == SubSeq(queue, 2, Len(queue))
         IN  /\ rest \in Seq(Fds) /\ Distinct(rest)
             /\ Members(rest) = Members(queue) \ {queue[1]}
<1> DEFINE r == SubSeq(queue, 2, Len(queue))
<1>1. /\ r \in Seq(Fds) /\ Len(r) = Len(queue) - 1 /\ Len(queue) \in Nat \ {0}
      /\ \A i \in 1..(Len(queue) - 1) : r[i] = queue[i + 1]
  <2>1. r = Tail(queue)
    BY TailIsSubSeq
  <2>2. /\ Tail(queue) \in Seq(Fds) /\ Len(Tail(queue)) = Len(queue) - 1
        /\ \A i \in 1..Len(Tail(queue)) : Tail(queue)[i] = queue[i + 1]
    BY HeadTailProperties
  <2>3. Len(queue) \in Nat \ {0}
    OBVIOUS
  <2> HIDE DEF r
  <2> QED
    BY <2>1, <2>2, <2>3
<1> HIDE DEF r
<1>2. Distinct(r)
  BY <1>1 DEF Distinct
<1>3. Members(r) \subseteq Members(queue) \ {queue[1]}
  BY <1>1 DEF Distinct, Members
<1>4. ASSUME NEW j \in 2..Len(queue) PROVE queue[j] \in Members(r)
  <2>1. j - 1 \in 1..Len(r) /\ (j - 1) + 1 = j
    BY <1>1
  <2> QED
    BY <2>1, <1>1 DEF Members
<1>5. Members(queue) \ {queue[1]} \subseteq Members(r)
  <2> SUFFICES ASSUME NEW j \in 1..Len(queue), queue[j] # queue[1] PROVE queue[j] \in Members(r)
    BY DEF Members
  <2> QED
    BY <1>1, <1>4
<1> QED
  BY <1>1, <1>2, <1>3, <1>5 DEF r

-----------------------------------------------------------------------------
(* The operations of one manager.                                          *)

(* What tombstone() leaves of a live connection, field by field. *)
LEMMA TombstoneIs ==
  ASSUME NEW p \in Manager, NEW fd \in Fds, Live(p, fd),
         p.conns[fd].remote \in Nodes, Distinct(p.readyFds)
  PROVE  LET q == Tombstone(p, fd)
         IN  /\ q \in Manager
             /\ \A g \in Fds \ {fd} : q.conns[g] = p.conns[g]
             /\ q.conns[fd].state = "dead" /\ q.conns[fd].id = p.conns[fd].id
             /\ ~q.conns[fd].wake /\ ~q.conns[fd].accepted
             /\ \A m \in Nodes :
                  q.byRemote[m] = IF m = p.conns[fd].remote /\ p.byRemote[m] = fd
                                  THEN NoFd ELSE p.byRemote[m]
             /\ q.readyFds = Without(p.readyFds, fd)
             /\ q.acceptWaiters = p.acceptWaiters
<1> DEFINE c == [p.conns[fd] EXCEPT !.state = "dead", !.queue = <<>>, !.wake = FALSE, !.accepted = FALSE]
           r == p.conns[fd].remote
           by == [p.byRemote EXCEPT ![r] = IF @ = fd THEN NoFd ELSE @]
           w == Without(p.readyFds, fd)
           q == Tombstone(p, fd)
<1>1. /\ p.conns \in [Fds -> Conn] /\ p.conns[fd] \in Conn /\ p.byRemote \in [Nodes -> Fds \cup {NoFd}]
      /\ p.readyFds \in Seq(Fds) /\ p.acceptWaiters \in Nat /\ p.nextFd \in Fds
  BY ManagerFields
<1>2. /\ c \in Conn /\ c.state = "dead" /\ c.id = p.conns[fd].id /\ ~c.wake /\ ~c.accepted
  <2>1. <<>> \in Seq([kind : Commands, id : Ids])
    OBVIOUS
  <2> QED
    BY <1>1, <2>1 DEF Conn
<1>3. by \in [Nodes -> Fds \cup {NoFd}]
  BY <1>1
<1>4. w \in Seq(Fds)
  BY <1>1, WithoutTakesOut
<1>5. q = [p EXCEPT !.conns = [@ EXCEPT ![fd] = c], !.byRemote = by, !.readyFds = w]
  BY DEF Tombstone
<1> HIDE DEF c, by, w, q
<1>6. /\ q \in Manager /\ q.conns = [p.conns EXCEPT ![fd] = c]
      /\ q.byRemote = by /\ q.readyFds = w /\ q.acceptWaiters = p.acceptWaiters
  BY <1>1, <1>2, <1>3, <1>4, <1>5 DEF Manager
<1>7. \A m \in Nodes : by[m] = IF m = r /\ p.byRemote[m] = fd THEN NoFd ELSE p.byRemote[m]
  BY <1>1 DEF by
<1>8. q.conns[fd] = c /\ \A g \in Fds \ {fd} : q.conns[g] = p.conns[g]
  BY <1>1, <1>6
<1> QED
  BY <1>2, <1>6, <1>7, <1>8 DEF q, w

(* tombstone() keeps a manager consistent. *)
LEMMA TombstoneGood ==
  ASSUME NEW p, NEW h, Good(p, h), NEW fd \in Fds
  PROVE  Good(Tombstone(p, fd), h)
<1> DEFINE q == Tombstone(p, fd)
<1>1. CASE ~Live(p, fd)
  BY <1>1 DEF Tombstone
<1>2. CASE Live(p, fd)
  <2>1. /\ p \in Manager /\ h \in [Fds -> Ids \cup {NoId}]
        /\ p.conns[fd].remote \in Nodes /\ p.readyFds \in Seq(Fds) /\ Distinct(p.readyFds)
    BY <1>2, ManagerFields DEF Good, Typed, LiveIsReal, QueuesWaiting
  <2>2. /\ q \in Manager
        /\ \A g \in Fds \ {fd} : q.conns[g] = p.conns[g]
        /\ q.conns[fd].state = "dead" /\ q.conns[fd].id = p.conns[fd].id
        /\ ~q.conns[fd].wake /\ ~q.conns[fd].accepted
        /\ \A m \in Nodes : q.byRemote[m] = IF m = p.conns[fd].remote /\ p.byRemote[m] = fd
                                            THEN NoFd ELSE p.byRemote[m]
        /\ q.readyFds = Without(p.readyFds, fd)
        /\ q.acceptWaiters = p.acceptWaiters
    BY <1>2, <2>1, TombstoneIs
  <2> HIDE DEF q
  <2>3. ~Live(q, fd) /\ \A g \in Fds \ {fd} : Live(q, g) <=> Live(p, g)
    BY <2>2 DEF Live
  <2>4. Typed(q, h) /\ LiveIsReal(q)
    BY <2>1, <2>2, <2>3 DEF Typed, Good, LiveIsReal
  <2>5. FoundByRemote(q)
    BY <1>2, <2>2, <2>3, Numbers DEF Good, FoundByRemote
  <2>6. KeepsHeld(q, h)
    BY <2>2 DEF Good, KeepsHeld
  <2>7. ParksOnLive(q, h)
    BY <2>2, <2>3 DEF Good, ParksOnLive
  <2>8. Waiting(q, h) = Waiting(p, h) \ {fd}
    BY <2>2, <2>3 DEF Waiting
  <2>9. QueuesWaiting(q, h)
    BY <2>1, <2>2, <2>8, WithoutTakesOut DEF Good, QueuesWaiting
  <2> QED
    BY <2>4, <2>5, <2>6, <2>7, <2>9 DEF Good, q
<1> QED
  BY <1>1, <1>2

(* After it nothing is live under that number. *)
LEMMA TombstoneEnds ==
  ASSUME NEW p, NEW h, Good(p, h), NEW fd \in Fds
  PROVE  LET q == Tombstone(p, fd)
         IN  /\ ~Live(q, fd) /\ \A g \in Fds \ {fd} : q.conns[g] = p.conns[g]
             /\ q.acceptWaiters = p.acceptWaiters
<1>1. CASE ~Live(p, fd)
  BY <1>1 DEF Tombstone
<1>2. CASE Live(p, fd)
  <2>1. p \in Manager /\ p.conns[fd].remote \in Nodes /\ Distinct(p.readyFds)
    BY <1>2 DEF Good, Typed, LiveIsReal, QueuesWaiting
  <2> QED
    BY <1>2, <2>1, TombstoneIs DEF Live
<1> QED
  BY <1>1, <1>2

(* A slot that stays live, with its remote and its connection: recv(), data *)
(* and accepted frames change only what is parked, read and held.           *)
LEMMA SlotGood ==
  ASSUME NEW p, NEW h, Good(p, h), NEW fd \in Fds, Live(p, fd),
         NEW c \in Conn, c.state = "live", c.remote = p.conns[fd].remote, c.id = p.conns[fd].id,
         NEW k, k \in {h, [h EXCEPT ![fd] = c.id]},
         c.wake => c.queue = <<>> /\ k[fd] = c.id,
         k[fd] = NoId /\ ~c.accepted <=> h[fd] = NoId /\ ~p.conns[fd].accepted
  PROVE  Good([p EXCEPT !.conns[fd] = c], k)
<1> DEFINE q == [p EXCEPT !.conns[fd] = c]
<1>1. p \in Manager /\ p.conns \in [Fds -> Conn] /\ h \in [Fds -> Ids \cup {NoId}]
  BY ManagerFields DEF Good, Typed
<1>2. c.id \in Ids
  BY DEF Good, LiveIsReal
<1>3. k \in [Fds -> Ids \cup {NoId}] /\ k[fd] \in {h[fd], c.id} /\ \A g \in Fds \ {fd} : k[g] = h[g]
  BY <1>1, <1>2
<1>4. /\ q \in Manager /\ q.conns[fd] = c /\ \A g \in Fds \ {fd} : q.conns[g] = p.conns[g]
      /\ q.byRemote = p.byRemote /\ q.readyFds = p.readyFds /\ q.acceptWaiters = p.acceptWaiters
  BY <1>1 DEF Manager
<1> HIDE DEF q
<1>5. Live(q, fd) /\ \A g \in Fds : Live(q, g) <=> Live(p, g)
  BY <1>4 DEF Live
<1>6. Typed(q, k) /\ LiveIsReal(q)
  BY <1>3, <1>4, <1>5 DEF Typed, Good, LiveIsReal
<1>7. FoundByRemote(q)
  BY <1>4, <1>5 DEF Good, FoundByRemote
<1>8. KeepsHeld(q, k)
  BY <1>3, <1>4 DEF Good, KeepsHeld
<1>9. ParksOnLive(q, k)
  BY <1>3, <1>4, <1>5 DEF Good, ParksOnLive
<1>10. Waiting(q, k) = Waiting(p, h)
  BY <1>3, <1>4, <1>5 DEF Waiting
<1>11. QueuesWaiting(q, k)
  BY <1>4, <1>10 DEF Good, QueuesWaiting
<1> QED
  BY <1>6, <1>7, <1>8, <1>9, <1>11 DEF Good, q

(* createConn(): the new connection is the only live one of its remote, and *)
(* all that is left to settle is who is told of it.                         *)
LEMMA CreateConnIs ==
  ASSUME NEW p, NEW h, Good(p, h), NEW fd \in Fds, p.conns[fd].state = "free",
         NEW remote \in Nodes, NEW id \in Ids
  PROVE  LET q == CreateConn(p, fd, remote, id)
         IN  /\ Typed(q, h) /\ LiveIsReal(q) /\ FoundByRemote(q)
             /\ KeepsHeld(q, h) /\ ParksOnLive(q, h)
             /\ Live(q, fd) /\ q.conns[fd].id = id /\ ~q.conns[fd].accepted
             /\ ~q.conns[fd].wake /\ h[fd] = NoId
             /\ q.acceptWaiters = p.acceptWaiters
             /\ Distinct(q.readyFds) /\ Members(q.readyFds) = Waiting(q, h) \ {fd}
             /\ p.acceptWaiters > 0 => q.readyFds = <<>>
<1> DEFINE previous == p.byRemote[remote]
           t == IF previous = NoFd THEN p ELSE Tombstone(p, previous)
           c == [state |-> "live", remote |-> remote, id |-> id,
                 queue |-> <<>>, wake |-> FALSE, accepted |-> FALSE]
           q == CreateConn(p, fd, remote, id)
<1>1. p \in Manager /\ p.conns \in [Fds -> Conn] /\ previous \in Fds \cup {NoFd}
  BY ManagerFields DEF Good, Typed
<1>2. /\ Good(t, h) /\ t.acceptWaiters = p.acceptWaiters /\ ~Live(t, fd) /\ t.conns[fd] = p.conns[fd]
      /\ \A g \in Fds : ~(Live(t, g) /\ t.conns[g].remote = remote)
  <2>1. CASE previous = NoFd
    BY <2>1, Numbers DEF Good, FoundByRemote, Live
  <2>2. CASE previous # NoFd
    <3>1. previous \in Fds /\ Live(p, previous) /\ previous # fd
      BY <1>1, <2>2 DEF Good, FoundByRemote, Live
    <3>2. Good(t, h)
      BY <2>2, <3>1, TombstoneGood
    <3>3. /\ ~Live(t, previous) /\ \A g \in Fds \ {previous} : t.conns[g] = p.conns[g]
          /\ t.acceptWaiters = p.acceptWaiters
      BY <2>2, <3>1, TombstoneEnds
    <3>4. \A g \in Fds : Live(t, g) => g # previous /\ Live(p, g) /\ t.conns[g].remote = p.conns[g].remote
      BY <3>3 DEF Live
    <3>5. \A g \in Fds : Live(p, g) /\ p.conns[g].remote = remote => g = previous
      BY DEF Good, FoundByRemote
    <3> HIDE DEF t, previous
    <3> QED
      BY <3>1, <3>2, <3>3, <3>4, <3>5 DEF Live
  <2> QED
    BY <2>1, <2>2
<1>3. c \in Conn /\ (fd + 1) % FdMax \in Fds
  <2>1. <<>> \in Seq([kind : Commands, id : Ids])
    OBVIOUS
  <2> QED
    BY <2>1, Numbers DEF Conn
<1>4. q = [t EXCEPT !.conns = [@ EXCEPT ![fd] = c], !.byRemote = [@ EXCEPT ![remote] = fd],
                    !.nextFd = (fd + 1) % FdMax]
  BY DEF CreateConn
<1>5. /\ c.state = "live" /\ c.remote = remote /\ c.id = id /\ c.queue = <<>>
      /\ ~c.wake /\ ~c.accepted
  OBVIOUS
<1> HIDE DEF t, c, q, previous
<1>6. /\ t \in Manager /\ h \in [Fds -> Ids \cup {NoId}] /\ t.conns \in [Fds -> Conn]
      /\ t.byRemote \in [Nodes -> Fds \cup {NoFd}] /\ t.readyFds \in Seq(Fds)
  BY <1>2, ManagerFields DEF Good, Typed
<1>7. /\ q \in Manager /\ q.conns = [t.conns EXCEPT ![fd] = c]
      /\ q.byRemote = [t.byRemote EXCEPT ![remote] = fd]
      /\ q.readyFds = t.readyFds /\ q.acceptWaiters = p.acceptWaiters
  BY <1>2, <1>3, <1>4, <1>6 DEF Manager
<1>8. q.conns[fd] = c /\ \A g \in Fds \ {fd} : q.conns[g] = t.conns[g]
  BY <1>6, <1>7
<1>9. Live(q, fd) /\ \A g \in Fds \ {fd} : Live(q, g) <=> Live(t, g)
  BY <1>5, <1>8 DEF Live
<1>10. h[fd] = NoId
  BY <1>2 DEF Good, KeepsHeld
<1>11. Typed(q, h) /\ LiveIsReal(q)
  BY <1>2, <1>5, <1>6, <1>7, <1>8, <1>9 DEF Typed, Good, LiveIsReal
<1>12. FoundByRemote(q)
  <2> SUFFICES ASSUME NEW m \in Nodes, NEW g \in Fds
               PROVE  Live(q, g) /\ q.conns[g].remote = m <=> q.byRemote[m] = g
    BY DEF FoundByRemote
  <2>1. Live(t, g) /\ t.conns[g].remote = m <=> t.byRemote[m] = g
    BY <1>2 DEF Good, FoundByRemote
  <2>2. q.byRemote[m] = IF m = remote THEN fd ELSE t.byRemote[m]
    BY <1>6, <1>7
  <2>3. CASE g = fd
    BY <2>1, <2>2, <2>3, <1>2, <1>5, <1>8, <1>9
  <2>4. CASE g # fd
    BY <2>1, <2>2, <2>4, <1>2, <1>8, <1>9
  <2> QED
    BY <2>3, <2>4
<1>13. KeepsHeld(q, h)
  BY <1>2, <1>8, <1>10 DEF Good, KeepsHeld
<1>14. ParksOnLive(q, h)
  BY <1>2, <1>5, <1>8, <1>9 DEF Good, ParksOnLive
<1>15. Waiting(q, h) \ {fd} = Waiting(t, h)
  BY <1>2, <1>8, <1>9 DEF Waiting
<1>16. /\ Distinct(t.readyFds) /\ Members(t.readyFds) = Waiting(t, h)
       /\ t.acceptWaiters > 0 => t.readyFds = <<>>
  BY <1>2 DEF Good, QueuesWaiting
<1> QED
  BY <1>2, <1>5, <1>7, <1>8, <1>9, <1>10, <1>11, <1>12, <1>13, <1>14, <1>15, <1>16 DEF q

(* connect() waits for it. *)
LEMMA ConnectGood ==
  ASSUME NEW p, NEW h, Good(p, h), NEW fd \in Fds, p.conns[fd].state = "free",
         NEW remote \in Nodes, NEW id \in Ids
  PROVE  Good([CreateConn(p, fd, remote, id) EXCEPT !.conns[fd].accepted = TRUE], h)
<1> DEFINE t == CreateConn(p, fd, remote, id)
           c == [t.conns[fd] EXCEPT !.accepted = TRUE]
           q == [t EXCEPT !.conns[fd].accepted = TRUE]
<1>1. /\ Typed(t, h) /\ LiveIsReal(t) /\ FoundByRemote(t) /\ KeepsHeld(t, h) /\ ParksOnLive(t, h)
      /\ Live(t, fd) /\ ~t.conns[fd].wake /\ t.acceptWaiters = p.acceptWaiters
      /\ Distinct(t.readyFds) /\ Members(t.readyFds) = Waiting(t, h) \ {fd}
      /\ p.acceptWaiters > 0 => t.readyFds = <<>>
  BY CreateConnIs
<1> HIDE DEF t
<1>2. t \in Manager /\ t.conns \in [Fds -> Conn] /\ t.conns[fd] \in Conn
  BY <1>1, ManagerFields DEF Typed
<1>3. /\ c \in Conn /\ c.state = "live" /\ c.remote = t.conns[fd].remote /\ c.id = t.conns[fd].id
      /\ ~c.wake /\ c.accepted
  BY <1>1, <1>2 DEF Conn, Live
<1>4. q = [t EXCEPT !.conns = [@ EXCEPT ![fd] = c]]
  OBVIOUS
<1> HIDE DEF c, q
<1>5. /\ q \in Manager /\ q.conns[fd] = c /\ \A g \in Fds \ {fd} : q.conns[g] = t.conns[g]
      /\ q.byRemote = t.byRemote /\ q.readyFds = t.readyFds /\ q.acceptWaiters = t.acceptWaiters
  BY <1>2, <1>3, <1>4 DEF Manager
<1>6. \A g \in Fds : Live(q, g) <=> Live(t, g)
  BY <1>1, <1>3, <1>5 DEF Live
<1>7. Typed(q, h) /\ LiveIsReal(q) /\ FoundByRemote(q)
  BY <1>1, <1>3, <1>5, <1>6 DEF Typed, LiveIsReal, FoundByRemote
<1>8. KeepsHeld(q, h) /\ ParksOnLive(q, h)
  BY <1>1, <1>3, <1>5, <1>6 DEF KeepsHeld, ParksOnLive, Live
<1>9. Waiting(q, h) = Waiting(t, h) \ {fd}
  BY <1>3, <1>5, <1>6 DEF Waiting
<1>10. QueuesWaiting(q, h)
  BY <1>1, <1>5, <1>9 DEF QueuesWaiting
<1> QED
  BY <1>7, <1>8, <1>10 DEF Good, q, t

(* A parked accept() returns it, *)
LEMMA GivenGood ==
  ASSUME NEW p, NEW h, Good(p, h), NEW fd \in Fds, p.conns[fd].state = "free",
         NEW remote \in Nodes, NEW id \in Ids, p.acceptWaiters > 0
  PROVE  Good([CreateConn(p, fd, remote, id) EXCEPT !.acceptWaiters = @ - 1],
              [h EXCEPT ![fd] = id])
<1> DEFINE t == CreateConn(p, fd, remote, id)
           q == [t EXCEPT !.acceptWaiters = @ - 1]
           k == [h EXCEPT ![fd] = id]
<1>1. /\ Typed(t, h) /\ LiveIsReal(t) /\ FoundByRemote(t) /\ KeepsHeld(t, h) /\ ParksOnLive(t, h)
      /\ Live(t, fd) /\ t.conns[fd].id = id /\ ~t.conns[fd].wake
      /\ t.acceptWaiters = p.acceptWaiters /\ Members(t.readyFds) = Waiting(t, h) \ {fd}
      /\ (p.acceptWaiters > 0 => t.readyFds = <<>>)
  BY CreateConnIs
<1> HIDE DEF t
<1>2. /\ t \in Manager /\ t.acceptWaiters \in Nat /\ t.acceptWaiters > 0 /\ h \in [Fds -> Ids \cup {NoId}]
  BY <1>1, ManagerFields DEF Typed
<1>3. /\ q \in Manager /\ q.conns = t.conns /\ q.byRemote = t.byRemote
      /\ q.readyFds = t.readyFds
  BY <1>2 DEF Manager
<1>4. /\ k \in [Fds -> Ids \cup {NoId}] /\ k[fd] = id /\ \A g \in Fds \ {fd} : k[g] = h[g]
  BY <1>2
<1> HIDE DEF q, k
<1>5. \A g \in Fds : Live(q, g) <=> Live(t, g)
  BY <1>3 DEF Live
<1>6. Typed(q, k) /\ LiveIsReal(q) /\ FoundByRemote(q)
  BY <1>1, <1>3, <1>4, <1>5 DEF Typed, LiveIsReal, FoundByRemote
<1>7. KeepsHeld(q, k)
  BY <1>1, <1>3, <1>4 DEF KeepsHeld, Live
<1>8. ParksOnLive(q, k)
  BY <1>1, <1>3, <1>4, <1>5 DEF ParksOnLive
<1>9. Waiting(q, k) = Waiting(t, h) \ {fd}
  BY <1>3, <1>4, <1>5, Numbers DEF Waiting
<1>10. QueuesWaiting(q, k)
  BY <1>1, <1>3, <1>9 DEF QueuesWaiting, Distinct
<1> QED
  BY <1>6, <1>7, <1>8, <1>10 DEF Good, q, k, t

(* or it joins the queue. *)
LEMMA QueuedGood ==
  ASSUME NEW p, NEW h, Good(p, h), NEW fd \in Fds, p.conns[fd].state = "free",
         NEW remote \in Nodes, NEW id \in Ids, ~(p.acceptWaiters > 0)
  PROVE  Good([CreateConn(p, fd, remote, id) EXCEPT !.readyFds = Append(@, fd)], h)
<1> DEFINE t == CreateConn(p, fd, remote, id)
           q == [t EXCEPT !.readyFds = Append(@, fd)]
<1>1. /\ Typed(t, h) /\ LiveIsReal(t) /\ FoundByRemote(t) /\ KeepsHeld(t, h) /\ ParksOnLive(t, h)
      /\ Live(t, fd) /\ ~t.conns[fd].accepted /\ h[fd] = NoId
      /\ t.acceptWaiters = p.acceptWaiters
      /\ Distinct(t.readyFds) /\ Members(t.readyFds) = Waiting(t, h) \ {fd}
  BY CreateConnIs
<1> HIDE DEF t
<1>2. t \in Manager /\ t.readyFds \in Seq(Fds)
  BY <1>1, ManagerFields DEF Typed
<1>3. /\ Append(t.readyFds, fd) \in Seq(Fds) /\ Distinct(Append(t.readyFds, fd))
      /\ Members(Append(t.readyFds, fd)) = Members(t.readyFds) \cup {fd}
  BY <1>1, <1>2, JoinsQueue
<1>4. /\ q \in Manager /\ q.conns = t.conns /\ q.byRemote = t.byRemote
      /\ q.readyFds = Append(t.readyFds, fd) /\ q.acceptWaiters = t.acceptWaiters
  BY <1>2, <1>3 DEF Manager
<1> HIDE DEF q
<1>5. \A g \in Fds : Live(q, g) <=> Live(t, g)
  BY <1>4 DEF Live
<1>6. Typed(q, h) /\ LiveIsReal(q) /\ FoundByRemote(q) /\ KeepsHeld(q, h) /\ ParksOnLive(q, h)
  BY <1>1, <1>4, <1>5 DEF Typed, LiveIsReal, FoundByRemote, KeepsHeld, ParksOnLive
<1>7. Waiting(q, h) = Waiting(t, h) /\ fd \in Waiting(t, h)
  BY <1>1, <1>4, <1>5 DEF Waiting
<1>8. QueuesWaiting(q, h)
  BY <1>1, <1>3, <1>4, <1>7 DEF QueuesWaiting
<1> QED
  BY <1>6, <1>8 DEF Good, q, t

(* accept() takes the front of the queue, *)
LEMMA AcceptTakesGood ==
  ASSUME NEW p, NEW h, Good(p, h), NEW i \in 1..Len(p.readyFds),
         \A j \in 1..(i - 1) : ~Live(p, p.readyFds[j])
  PROVE  LET fd == p.readyFds[i]
         IN  /\ fd \in Fds /\ Live(p, fd)
             /\ Good([p EXCEPT !.readyFds = SubSeq(@, i + 1, Len(@))], [h EXCEPT ![fd] = p.conns[fd].id])
<1> DEFINE queue == p.readyFds
           fd == queue[i]
           q == [p EXCEPT !.readyFds = SubSeq(@, i + 1, Len(@))]
           k == [h EXCEPT ![fd] = p.conns[fd].id]
<1>1. /\ p \in Manager /\ p.conns \in [Fds -> Conn] /\ h \in [Fds -> Ids \cup {NoId}]
      /\ queue \in Seq(Fds) /\ Distinct(queue) /\ Members(queue) = Waiting(p, h)
  BY ManagerFields DEF Good, Typed, QueuesWaiting
<1>2. i = 1 /\ queue # <<>> /\ fd \in Waiting(p, h) /\ fd \in Fds /\ Live(p, fd)
  <2>1. \A j \in 1..Len(queue) : queue[j] \in Waiting(p, h)
    BY <1>1 DEF Members
  <2>2. \A j \in 1..Len(queue) : Live(p, queue[j]) /\ queue[j] \in Fds
    BY <2>1 DEF Waiting
  <2>3. Len(queue) \in Nat /\ i \in 1..Len(queue)
    BY <1>1
  <2>4. i = 1
    <3>1. CASE i > 1
      BY <3>1, <2>2, <2>3
    <3> QED
      BY <3>1, <2>3
  <2> QED
    BY <2>1, <2>2, <2>3, <2>4
<1>3. p.conns[fd].id \in Ids
  BY <1>2 DEF Good, LiveIsReal
<1>4. LET rest == SubSeq(queue, i + 1, Len(queue))
      IN  rest \in Seq(Fds) /\ Distinct(rest) /\ Members(rest) = Members(queue) \ {fd}
  BY <1>1, <1>2, LeavesQueue
<1>5. /\ q \in Manager /\ q.conns = p.conns /\ q.byRemote = p.byRemote
      /\ q.readyFds = SubSeq(queue, i + 1, Len(queue)) /\ q.acceptWaiters = p.acceptWaiters
  BY <1>1, <1>4 DEF Manager
<1>6. /\ k \in [Fds -> Ids \cup {NoId}] /\ k[fd] = p.conns[fd].id /\ \A g \in Fds \ {fd} : k[g] = h[g]
  BY <1>1, <1>2, <1>3
<1>7. ~(p.acceptWaiters > 0)
  BY <1>2 DEF Good, QueuesWaiting
<1> HIDE DEF q, k, fd, queue
<1>8. \A g \in Fds : Live(q, g) <=> Live(p, g)
  BY <1>5 DEF Live
<1>9. Typed(q, k) /\ LiveIsReal(q) /\ FoundByRemote(q)
  BY <1>5, <1>6, <1>8 DEF Typed, Good, LiveIsReal, FoundByRemote
<1>10. KeepsHeld(q, k)
  BY <1>2, <1>5, <1>6 DEF Good, KeepsHeld, Live
<1>11. ParksOnLive(q, k)
  BY <1>5, <1>6, <1>8 DEF Good, ParksOnLive
<1>12. Waiting(q, k) = Waiting(p, h) \ {fd}
  BY <1>3, <1>5, <1>6, <1>8, Numbers DEF Waiting
<1>13. QueuesWaiting(q, k)
  BY <1>1, <1>4, <1>5, <1>7, <1>12 DEF QueuesWaiting
<1> QED
  BY <1>2, <1>9, <1>10, <1>11, <1>13 DEF Good, q, k, fd, queue

(* or parks, when nothing in it is live any more. *)
LEMMA AcceptParksGood ==
  ASSUME NEW p, NEW h, Good(p, h), \A i \in 1..Len(p.readyFds) : ~Live(p, p.readyFds[i])
  PROVE  Good([p EXCEPT !.readyFds = <<>>, !.acceptWaiters = @ + 1], h)
<1> DEFINE q == [p EXCEPT !.readyFds = <<>>, !.acceptWaiters = @ + 1]
<1>1. p \in Manager /\ p.acceptWaiters \in Nat /\ Members(p.readyFds) = Waiting(p, h)
  BY ManagerFields DEF Good, Typed, QueuesWaiting
<1>2. /\ q \in Manager /\ q.conns = p.conns /\ q.byRemote = p.byRemote /\ q.readyFds = <<>>
  <2>1. <<>> \in Seq(Fds) /\ p.acceptWaiters + 1 \in Nat
    BY <1>1
  <2> QED
    BY <1>1, <2>1 DEF Manager
<1> HIDE DEF q
<1>3. \A g \in Fds : Live(q, g) <=> Live(p, g)
  BY <1>2 DEF Live
<1>4. Typed(q, h) /\ LiveIsReal(q) /\ FoundByRemote(q) /\ KeepsHeld(q, h) /\ ParksOnLive(q, h)
  BY <1>2, <1>3 DEF Typed, Good, LiveIsReal, FoundByRemote, KeepsHeld, ParksOnLive
<1>5. Waiting(p, h) = {} /\ Waiting(q, h) = Waiting(p, h)
  BY <1>1, <1>2, <1>3 DEF Waiting, Members
<1>6. QueuesWaiting(q, h)
  BY <1>2, <1>5 DEF QueuesWaiting, Distinct, Members
<1> QED
  BY <1>4, <1>6 DEF Good, q

(* close_connection() releases the number. *)
LEMMA CloseConnectionGood ==
  ASSUME NEW p, NEW h, Good(p, h), NEW fd \in Fds
  PROVE  Good([Tombstone(p, fd) EXCEPT !.conns[fd] = Free], [h EXCEPT ![fd] = NoId])
<1> DEFINE t == Tombstone(p, fd)
           q == [t EXCEPT !.conns[fd] = Free]
           k == [h EXCEPT ![fd] = NoId]
<1>1. Good(t, h) /\ ~Live(t, fd)
  BY TombstoneGood, TombstoneEnds
<1> HIDE DEF t
<1>2. t \in Manager /\ t.conns \in [Fds -> Conn] /\ h \in [Fds -> Ids \cup {NoId}]
  BY <1>1, ManagerFields DEF Good, Typed
<1>3. /\ q \in Manager /\ q.conns[fd] = Free /\ \A g \in Fds \ {fd} : q.conns[g] = t.conns[g]
      /\ q.byRemote = t.byRemote /\ q.readyFds = t.readyFds /\ q.acceptWaiters = t.acceptWaiters
  BY <1>2, FreeTyped DEF Manager
<1>4. /\ k \in [Fds -> Ids \cup {NoId}] /\ k[fd] = NoId /\ \A g \in Fds \ {fd} : k[g] = h[g]
  BY <1>2
<1> HIDE DEF q, k
<1>5. \A g \in Fds : Live(q, g) <=> Live(t, g)
  BY <1>1, <1>3, FreeTyped DEF Live
<1>6. Typed(q, k) /\ LiveIsReal(q) /\ FoundByRemote(q)
  BY <1>1, <1>3, <1>4, <1>5 DEF Good, Typed, LiveIsReal, FoundByRemote
<1>7. KeepsHeld(q, k)
  BY <1>1, <1>3, <1>4 DEF Good, KeepsHeld
<1>8. ParksOnLive(q, k)
  BY <1>1, <1>3, <1>4, <1>5, FreeTyped DEF Good, ParksOnLive
<1>9. Waiting(q, k) = Waiting(t, h)
  BY <1>1, <1>3, <1>4, <1>5 DEF Waiting
<1>10. QueuesWaiting(q, k)
  BY <1>1, <1>3, <1>9 DEF Good, QueuesWaiting
<1> QED
  BY <1>6, <1>7, <1>8, <1>10 DEF Good, q, k, t

(* close() ends every connection and forgets nothing but the queue. *)
LEMMA CloseGood ==
  ASSUME NEW p, NEW h, Good(p, h)
  PROVE  Good([p EXCEPT !.conns = [fd \in Fds |-> Tombstone(p, fd).conns[fd]],
                        !.byRemote = [m \in Nodes |-> NoFd],
                        !.readyFds = <<>>], h)
<1> DEFINE conns == [fd \in Fds |-> Tombstone(p, fd).conns[fd]]
           by == [m \in Nodes |-> NoFd]
           q == [p EXCEPT !.conns = conns, !.byRemote = by, !.readyFds = <<>>]
<1>1. ASSUME NEW fd \in Fds
      PROVE  /\ conns[fd] \in Conn /\ conns[fd].state # "live"
             /\ ~conns[fd].wake /\ ~conns[fd].accepted
             /\ h[fd] # NoId => conns[fd].state # "free" /\ conns[fd].id = h[fd]
  <2> DEFINE t == Tombstone(p, fd)
  <2>1. Good(t, h) /\ ~Live(t, fd)
    BY TombstoneGood, TombstoneEnds
  <2>2. conns[fd] = t.conns[fd]
    OBVIOUS
  <2> HIDE DEF t, conns
  <2>3. t.conns[fd] \in Conn
    BY <2>1, ManagerFields DEF Good, Typed
  <2> QED
    BY <2>1, <2>2, <2>3 DEF Good, Live, KeepsHeld, ParksOnLive
<1>2. conns \in [Fds -> Conn]
  BY <1>1
<1>3. by \in [Nodes -> Fds \cup {NoFd}] /\ \A m \in Nodes : by[m] \notin Fds
  BY Numbers
<1> HIDE DEF conns, by
<1>4. /\ q \in Manager /\ q.conns = conns /\ q.byRemote = by /\ q.readyFds = <<>>
  <2>1. <<>> \in Seq(Fds) /\ p \in Manager
    BY DEF Good, Typed
  <2> QED
    BY <2>1, <1>2, <1>3 DEF Manager
<1> HIDE DEF q
<1>5. \A g \in Fds : ~Live(q, g)
  BY <1>1, <1>4 DEF Live
<1>6. Typed(q, h) /\ LiveIsReal(q) /\ FoundByRemote(q)
  BY <1>3, <1>4, <1>5 DEF Good, Typed, LiveIsReal, FoundByRemote
<1>7. KeepsHeld(q, h) /\ ParksOnLive(q, h)
  BY <1>1, <1>4 DEF KeepsHeld, ParksOnLive
<1>8. Waiting(q, h) = {}
  BY <1>5 DEF Waiting
<1>9. QueuesWaiting(q, h)
  BY <1>4, <1>8 DEF QueuesWaiting, Distinct, Members
<1> QED
  BY <1>6, <1>7, <1>9 DEF Good, q, conns, by

-----------------------------------------------------------------------------
(* Steps of the system.                                                    *)

LEMMA InitIInv == Init => IInv
<1> SUFFICES ASSUME Init PROVE IInv
  OBVIOUS
<1> DEFINE p == [conns |-> [fd \in Fds |-> Free], byRemote |-> [m \in Nodes |-> NoFd],
                 readyFds |-> <<>>, acceptWaiters |-> 0, nextFd |-> 0]
           h == [fd \in Fds |-> NoId]
<1>1. <<>> \in Seq(Fds) /\ <<>> \in Seq(Frame)
  OBVIOUS
<1>2. p \in Manager /\ h \in [Fds -> Ids \cup {NoId}]
  BY <1>1, FreeTyped, Numbers DEF Manager
<1>3. /\ p.conns = [fd \in Fds |-> Free] /\ p.byRemote = [m \in Nodes |-> NoFd]
      /\ p.readyFds = <<>> /\ p.acceptWaiters = 0
  OBVIOUS
<1>4. pm = [n \in Nodes |-> p] /\ held = [n \in Nodes |-> h]
  BY DEF Init
<1>5. \A fd \in Fds : p.conns[fd] = Free /\ h[fd] = NoId
  OBVIOUS
<1> HIDE DEF p, h
<1>6. \A fd \in Fds : ~Live(p, fd)
  BY <1>5, FreeTyped DEF Live
<1>7. Typed(p, h) /\ LiveIsReal(p) /\ FoundByRemote(p) /\ KeepsHeld(p, h) /\ ParksOnLive(p, h)
  BY <1>2, <1>3, <1>5, <1>6, FreeTyped, Numbers
     DEF Typed, LiveIsReal, FoundByRemote, KeepsHeld, ParksOnLive
<1>8. QueuesWaiting(p, h)
  BY <1>3, <1>6 DEF QueuesWaiting, Waiting, Distinct, Members
<1>9. TypeOK
  <2>1. pm \in [Nodes -> Manager] /\ held \in [Nodes -> [Fds -> Ids \cup {NoId}]]
    BY <1>2, <1>4
  <2>2. bus \in [Nodes -> [Nodes -> Seq(Frame)]]
    BY <1>1 DEF Init
  <2>3. rpc \in [Nodes -> [Fds -> {"idle", "busy"}]]
    BY DEF Init
  <2>4. opened \in 0..MaxConnects /\ resets \in 0..MaxResets
    BY BoundAssumption DEF Init
  <2> QED
    BY <2>1, <2>2, <2>3, <2>4 DEF TypeOK
<1> QED
  BY <1>4, <1>7, <1>8, <1>9 DEF IInv, Good

(* A step that changes the manager of one node. *)
ManagersGood ==
  /\ pm \in [Nodes -> Manager] /\ held \in [Nodes -> [Fds -> Ids \cup {NoId}]]
  /\ \A n \in Nodes : Good(pm[n], held[n])

LEMMA OneNode ==
  ASSUME ManagersGood, NEW n \in Nodes, NEW q, NEW k, Good(q, k),
         pm' = [pm EXCEPT ![n] = q], held' = [held EXCEPT ![n] = k]
  PROVE  ManagersGood'
<1>1. q \in Manager /\ k \in [Fds -> Ids \cup {NoId}]
  BY DEF Good, Typed
<1>2. pm' \in [Nodes -> Manager] /\ held' \in [Nodes -> [Fds -> Ids \cup {NoId}]]
  BY <1>1 DEF ManagersGood
<1>3. ASSUME NEW m \in Nodes PROVE Good(pm'[m], held'[m])
  <2>1. CASE m = n
    BY <2>1 DEF ManagersGood
  <2>2. CASE m # n
    <3>1. pm'[m] = pm[m] /\ held'[m] = held[m]
      BY <2>2 DEF ManagersGood
    <3> QED
      BY <3>1 DEF ManagersGood
  <2> QED
    BY <2>1, <2>2
<1> QED
  BY <1>2, <1>3 DEF ManagersGood

LEMMA SameHeld ==
  ASSUME ManagersGood, NEW n \in Nodes, NEW q, Good(q, held[n]),
         pm' = [pm EXCEPT ![n] = q], held' = held
  PROVE  ManagersGood'
<1>1. held' = [held EXCEPT ![n] = held[n]]
  BY DEF ManagersGood
<1> QED
  BY <1>1, OneNode

(* The rest of the state is only typed. *)
RestTyped ==
  /\ bus \in [Nodes -> [Nodes -> Seq(Frame)]]
  /\ rpc \in [Nodes -> [Fds -> {"idle", "busy"}]]
  /\ opened \in 0..MaxConnects /\ resets \in 0..MaxResets

LEMMA Together == IInv <=> ManagersGood /\ RestTyped
BY DEF IInv, TypeOK, ManagersGood, RestTyped

LEMMA BusTyped ==
  ASSUME NEW b \in [Nodes -> [Nodes -> Seq(Frame)]], NEW n \in Nodes, NEW m \in Nodes,
         NEW frames \in Seq(Frame)
  PROVE  [b EXCEPT ![n][m] = frames] \in [Nodes -> [Nodes -> Seq(Frame)]]
OBVIOUS

LEMMA PostTyped ==
  ASSUME NEW b \in [Nodes -> [Nodes -> Seq(Frame)]], NEW n \in Nodes, NEW m \in Nodes,
         NEW kind \in {"connect", "accepted", "close"} \cup Commands, NEW id \in Ids
  PROVE  [b EXCEPT ![n][m] = Append(@, [kind |-> kind, id |-> id])] \in [Nodes -> [Nodes -> Seq(Frame)]]
<1>1. [kind |-> kind, id |-> id] \in Frame /\ b[n][m] \in Seq(Frame)
  BY DEF Frame
<1>2. Append(b[n][m], [kind |-> kind, id |-> id]) \in Seq(Frame)
  BY <1>1
<1> QED
  BY <1>2, BusTyped

LEMMA RpcTyped ==
  ASSUME NEW r \in [Nodes -> [Fds -> {"idle", "busy"}]], NEW n \in Nodes, NEW fd \in Fds, NEW kind
  PROVE  [r EXCEPT ![n][fd] = AfterRead(kind)] \in [Nodes -> [Fds -> {"idle", "busy"}]]
<1>1. AfterRead(kind) \in {"idle", "busy"}
  BY DEF AfterRead
<1> QED
  BY <1>1

LEMMA FoundIsLive ==
  ASSUME NEW p, NEW h, Good(p, h), NEW m \in Nodes, p.byRemote[m] # NoFd
  PROVE  /\ p.byRemote[m] \in Fds /\ Live(p, p.byRemote[m])
         /\ p.conns[p.byRemote[m]].remote = m
<1>1. p.byRemote[m] \in Fds
  BY ManagerFields DEF Good, Typed
<1> QED
  BY <1>1 DEF Good, FoundByRemote

(* A frame that asks for a connection. *)
LEMMA HandleConnectStep ==
  ASSUME IInv, NEW from \in Nodes, NEW n \in Nodes, NEW id \in Ids, NEW rest \in Seq(Frame),
         HandleConnect(n, from, id, rest), UNCHANGED <<rpc, opened, resets>>
  PROVE  IInv'
<1>1. ManagersGood /\ RestTyped /\ Good(pm[n], held[n])
  BY Together DEF ManagersGood
<1>2. CASE Full(pm[n]) /\ bus' = [bus EXCEPT ![from][n] = rest] /\ UNCHANGED <<pm, held>>
  <2>1. RestTyped'
    BY <1>1, <1>2, BusTyped DEF RestTyped
  <2>2. ManagersGood'
    BY <1>1, <1>2 DEF ManagersGood
  <2> QED
    BY <2>1, <2>2, Together, PTL
<1>3. ASSUME NEW fd \in Fds, NewFd(pm[n], fd), CreateConn(pm[n], fd, from, id).acceptWaiters > 0,
             pm' = [pm EXCEPT ![n] = [CreateConn(pm[n], fd, from, id) EXCEPT !.acceptWaiters = @ - 1]],
             held' = [held EXCEPT ![n][fd] = id],
             bus' = [bus EXCEPT ![from][n] = rest,
                                ![n][from] = Append(bus[n][from], [kind |-> "accepted", id |-> id])]
      PROVE  IInv'
  <2>1. pm[n].conns[fd].state = "free"
    BY <1>3 DEF NewFd
  <2>2. pm[n].acceptWaiters > 0
    BY <1>1, <1>3, <2>1, CreateConnIs
  <2>3. Good([CreateConn(pm[n], fd, from, id) EXCEPT !.acceptWaiters = @ - 1],
             [held[n] EXCEPT ![fd] = id])
    BY <1>1, <2>1, <2>2, GivenGood
  <2>4. held' = [held EXCEPT ![n] = [held[n] EXCEPT ![fd] = id]]
    BY <1>3
  <2>5. ManagersGood'
    BY <1>1, <1>3, <2>3, <2>4, OneNode
  <2> DEFINE b == [bus EXCEPT ![from][n] = rest]
  <2>6. b \in [Nodes -> [Nodes -> Seq(Frame)]]
    BY <1>1, BusTyped DEF RestTyped
  <2>7. bus' \in [Nodes -> [Nodes -> Seq(Frame)]]
    <3> DEFINE frames == Append(bus[n][from], [kind |-> "accepted", id |-> id])
    <3>1. bus' = [b EXCEPT ![n][from] = frames]
      BY <1>3
    <3>2. [kind |-> "accepted", id |-> id] \in Frame /\ bus[n][from] \in Seq(Frame)
      BY <1>1 DEF Frame, RestTyped
    <3>3. frames \in Seq(Frame)
      BY <3>2
    <3> HIDE DEF b, frames
    <3> QED
      BY <3>1, <3>3, <2>6, BusTyped
  <2>8. RestTyped'
    BY <1>1, <2>7 DEF RestTyped
  <2> QED
    BY <2>5, <2>8, Together, PTL
<1>4. ASSUME NEW fd \in Fds, NewFd(pm[n], fd), CreateConn(pm[n], fd, from, id).acceptWaiters = 0,
             pm' = [pm EXCEPT ![n] = [CreateConn(pm[n], fd, from, id) EXCEPT !.readyFds = Append(@, fd)]],
             bus' = [bus EXCEPT ![from][n] = rest], UNCHANGED held
      PROVE  IInv'
  <2>1. pm[n].conns[fd].state = "free"
    BY <1>4 DEF NewFd
  <2>2. ~(pm[n].acceptWaiters > 0)
    BY <1>1, <1>4, <2>1, CreateConnIs
  <2>3. Good([CreateConn(pm[n], fd, from, id) EXCEPT !.readyFds = Append(@, fd)], held[n])
    BY <1>1, <2>1, <2>2, QueuedGood
  <2>4. ManagersGood'
    BY <1>1, <1>4, <2>3, SameHeld
  <2>5. RestTyped'
    BY <1>1, <1>4, BusTyped DEF RestTyped
  <2> QED
    BY <2>4, <2>5, Together, PTL
<1> QED
  BY <1>2, <1>3, <1>4 DEF HandleConnect

(* The other frames, by the connection their sender is known by. *)
LEMMA HandleAcceptedStep ==
  ASSUME IInv, NEW n \in Nodes, NEW fd \in Fds, Live(pm[n], fd), HandleAccepted(n, fd),
         RestTyped'
  PROVE  IInv'
<1> DEFINE p == pm[n]
           c == [p.conns[fd] EXCEPT !.accepted = FALSE]
           k == IF p.conns[fd].accepted THEN [held[n] EXCEPT ![fd] = c.id] ELSE held[n]
<1>1. ManagersGood /\ Good(p, held[n]) /\ p \in Manager /\ p.conns[fd] \in Conn
  BY Together, ManagerFields DEF ManagersGood
<1>2. /\ c \in Conn /\ c.state = "live" /\ c.remote = p.conns[fd].remote /\ c.id = p.conns[fd].id
      /\ c.queue = p.conns[fd].queue /\ (c.wake <=> p.conns[fd].wake) /\ ~c.accepted
  BY <1>1 DEF Conn, Live
<1>3. /\ pm' = [pm EXCEPT ![n] = [p EXCEPT !.conns[fd] = c]]
      /\ held' = [held EXCEPT ![n] = k]
  <2>1. pm' = [pm EXCEPT ![n] = [p EXCEPT !.conns[fd] = c]]
    BY DEF HandleAccepted
  <2>2. CASE p.conns[fd].accepted
    BY <2>2 DEF HandleAccepted
  <2>3. CASE ~p.conns[fd].accepted
    <3>1. held' = held /\ k = held[n]
      BY <2>3 DEF HandleAccepted
    <3> QED
      BY <1>1, <2>1, <3>1 DEF ManagersGood
  <2> QED
    BY <2>1, <2>2, <2>3
<1>4. k \in {held[n], [held[n] EXCEPT ![fd] = c.id]}
  OBVIOUS
<1>5. c.wake => c.queue = <<>> /\ k[fd] = c.id
  BY <1>1, <1>2 DEF Good, ParksOnLive, ManagersGood
<1>6. k[fd] = NoId /\ ~c.accepted <=> held[n][fd] = NoId /\ ~p.conns[fd].accepted
  BY <1>1, <1>2, Numbers DEF Good, LiveIsReal, ManagersGood
<1> HIDE DEF c, k
<1>7. Good([p EXCEPT !.conns[fd] = c], k)
  BY <1>1, <1>2, <1>4, <1>5, <1>6, SlotGood
<1>8. ManagersGood'
  BY <1>1, <1>3, <1>7, OneNode
<1> QED
  BY <1>8, Together, PTL

LEMMA HandleDataStep ==
  ASSUME IInv, NEW n \in Nodes, NEW fd \in Fds, Live(pm[n], fd),
         NEW frame \in Frame, frame.kind \in Commands, HandleData(n, fd, frame),
         bus' \in [Nodes -> [Nodes -> Seq(Frame)]], UNCHANGED <<opened, resets>>
  PROVE  IInv'
<1> DEFINE p == pm[n]
<1>1. ManagersGood /\ RestTyped /\ Good(p, held[n]) /\ p \in Manager /\ p.conns[fd] \in Conn
  BY Together, ManagerFields DEF ManagersGood
<1>2. RestTyped'
  <2>1. rpc' = rpc \/ rpc' = [rpc EXCEPT ![n][fd] = AfterRead(frame.kind)]
    BY DEF HandleData
  <2>2. rpc \in [Nodes -> [Fds -> {"idle", "busy"}]]
    BY <1>1 DEF RestTyped
  <2>3. [rpc EXCEPT ![n][fd] = AfterRead(frame.kind)] \in [Nodes -> [Fds -> {"idle", "busy"}]]
    BY <2>2, RpcTyped
  <2>4. rpc' \in [Nodes -> [Fds -> {"idle", "busy"}]]
    BY <2>1, <2>2, <2>3
  <2> QED
    BY <1>1, <2>4 DEF RestTyped
<1>3. CASE p.conns[fd].wake /\ pm' = [pm EXCEPT ![n].conns[fd].wake = FALSE]
  <2> DEFINE c == [p.conns[fd] EXCEPT !.wake = FALSE]
  <2>1. /\ c \in Conn /\ c.state = "live" /\ c.remote = p.conns[fd].remote /\ c.id = p.conns[fd].id
        /\ ~c.wake /\ (c.accepted <=> p.conns[fd].accepted)
    BY <1>1 DEF Conn, Live
  <2>2. pm' = [pm EXCEPT ![n] = [p EXCEPT !.conns[fd] = c]] /\ held' = held
    BY <1>3 DEF HandleData
  <2> HIDE DEF c
  <2>3. Good([p EXCEPT !.conns[fd] = c], held[n])
    BY <1>1, <2>1, SlotGood
  <2>4. ManagersGood'
    BY <1>1, <2>2, <2>3, SameHeld
  <2> QED
    BY <1>2, <2>4, Together, PTL
<1>4. CASE ~p.conns[fd].wake /\ pm' = [pm EXCEPT ![n].conns[fd].queue = Append(@, frame)]
  <2> DEFINE c == [p.conns[fd] EXCEPT !.queue = Append(@, frame)]
  <2>1. Append(p.conns[fd].queue, frame) \in Seq([kind : Commands, id : Ids])
    <3>1. frame \in [kind : Commands, id : Ids]
      BY DEF Frame
    <3>2. p.conns[fd].queue \in Seq([kind : Commands, id : Ids])
      BY <1>1, ConnFields
    <3> HIDE DEF p
    <3> QED
      BY <3>1, <3>2
  <2>2. /\ c \in Conn /\ c.state = "live" /\ c.remote = p.conns[fd].remote /\ c.id = p.conns[fd].id
        /\ (c.wake <=> p.conns[fd].wake) /\ (c.accepted <=> p.conns[fd].accepted)
    BY <1>1, <2>1 DEF Conn, Live
  <2>3. pm' = [pm EXCEPT ![n] = [p EXCEPT !.conns[fd] = c]] /\ held' = held
    BY <1>4 DEF HandleData
  <2> HIDE DEF c
  <2>4. Good([p EXCEPT !.conns[fd] = c], held[n])
    BY <1>1, <1>4, <2>2, SlotGood
  <2>5. ManagersGood'
    BY <1>1, <2>3, <2>4, SameHeld
  <2> QED
    BY <1>2, <2>5, Together, PTL
<1> QED
  BY <1>3, <1>4 DEF HandleData

LEMMA DeliverStep ==
  ASSUME IInv, NEW from \in Nodes, NEW n \in Nodes, Deliver(from, n)
  PROVE  IInv'
<1> DEFINE frame == Head(bus[from][n])
           rest == Tail(bus[from][n])
           fd == pm[n].byRemote[from]
<1>1. ManagersGood /\ RestTyped /\ Good(pm[n], held[n])
  BY Together DEF ManagersGood
<1>2. frame \in Frame /\ rest \in Seq(Frame)
  <2>1. bus[from][n] \in Seq(Frame) /\ bus[from][n] # <<>>
    BY <1>1 DEF RestTyped, Deliver
  <2> QED
    BY <2>1, HeadTailProperties
<1>3. frame.kind \in {"connect", "accepted", "close"} \cup Commands /\ frame.id \in Ids
  BY <1>2 DEF Frame
<1>4. CASE frame.kind = "connect"
  <2>1. HandleConnect(n, from, frame.id, rest) /\ UNCHANGED <<rpc, opened, resets>>
    BY <1>4 DEF Deliver
  <2> HIDE DEF frame, rest
  <2> QED
    BY <1>2, <1>3, <2>1, HandleConnectStep
<1>5. CASE frame.kind # "connect"
  <2>1. bus' = [bus EXCEPT ![from][n] = rest] /\ UNCHANGED <<opened, resets>>
    BY <1>5 DEF Deliver
  <2>2. bus' \in [Nodes -> [Nodes -> Seq(Frame)]]
    BY <1>1, <1>2, <2>1, BusTyped DEF RestTyped
  <2>3. /\ fd # NoFd => fd \in Fds /\ Live(pm[n], fd)
    BY <1>1, FoundIsLive
  <2>4. \/ fd = NoFd /\ UNCHANGED <<pm, held, rpc>>
        \/ fd # NoFd /\ frame.kind = "accepted" /\ HandleAccepted(n, fd)
        \/ fd # NoFd /\ frame.kind \in Commands /\ HandleData(n, fd, frame)
        \/ /\ fd # NoFd /\ frame.kind = "close"
           /\ pm' = [pm EXCEPT ![n] = Tombstone(@, fd)]
           /\ UNCHANGED <<held, rpc>>
    BY <1>5 DEF Deliver
  <2> HIDE DEF frame, rest, fd
  <2>5. CASE fd = NoFd /\ UNCHANGED <<pm, held, rpc>>
    <3>1. ManagersGood' /\ RestTyped'
      BY <1>1, <2>1, <2>2, <2>5 DEF ManagersGood, RestTyped
    <3> QED
      BY <3>1, Together, PTL
  <2>6. CASE fd # NoFd /\ frame.kind = "accepted" /\ HandleAccepted(n, fd)
    <3>1. RestTyped'
      BY <1>1, <2>1, <2>2, <2>6 DEF RestTyped, HandleAccepted
    <3> QED
      BY <2>3, <2>6, <3>1, HandleAcceptedStep
  <2>7. CASE fd # NoFd /\ frame.kind \in Commands /\ HandleData(n, fd, frame)
    BY <1>2, <2>1, <2>2, <2>3, <2>7, HandleDataStep
  <2>8. CASE /\ fd # NoFd /\ frame.kind = "close"
             /\ pm' = [pm EXCEPT ![n] = Tombstone(@, fd)]
             /\ UNCHANGED <<held, rpc>>
    <3>1. Good(Tombstone(pm[n], fd), held[n])
      BY <1>1, <2>3, <2>8, TombstoneGood
    <3>2. ManagersGood'
      BY <1>1, <2>8, <3>1, SameHeld
    <3>3. RestTyped'
      BY <1>1, <2>1, <2>2, <2>8 DEF RestTyped
    <3> QED
      BY <3>2, <3>3, Together, PTL
  <2> QED
    BY <2>4, <2>5, <2>6, <2>7, <2>8
<1> QED
  BY <1>4, <1>5

(* Calls of the Runtime. *)
LEMMA ConnectStep ==
  ASSUME IInv, NEW n \in Nodes, NEW m \in Nodes, Connect(n, m)
  PROVE  IInv'
<1>1. ManagersGood /\ RestTyped /\ Good(pm[n], held[n])
  BY Together DEF ManagersGood
<1>2. opened + 1 \in Ids /\ opened + 1 \in 0..MaxConnects
  BY <1>1, Numbers DEF RestTyped, Connect, Ids
<1>3. PICK fd \in Fds :
        /\ NewFd(pm[n], fd)
        /\ pm' = [pm EXCEPT ![n] = [CreateConn(pm[n], fd, m, opened + 1) EXCEPT !.conns[fd].accepted = TRUE]]
  BY DEF Connect
<1>4. /\ bus' = [bus EXCEPT ![n][m] = Append(@, [kind |-> "connect", id |-> opened + 1])]
      /\ opened' = opened + 1 /\ UNCHANGED <<held, rpc, resets>>
  BY DEF Connect, Post
<1>5. Good([CreateConn(pm[n], fd, m, opened + 1) EXCEPT !.conns[fd].accepted = TRUE], held[n])
  <2>1. pm[n].conns[fd].state = "free"
    BY <1>3 DEF NewFd
  <2> QED
    BY <1>1, <1>2, <2>1, ConnectGood
<1>6. ManagersGood'
  BY <1>1, <1>3, <1>4, <1>5, SameHeld
<1>7. bus' \in [Nodes -> [Nodes -> Seq(Frame)]]
  BY <1>1, <1>2, <1>4, PostTyped DEF RestTyped
<1>8. RestTyped'
  BY <1>1, <1>2, <1>4, <1>7 DEF RestTyped
<1> QED
  BY <1>6, <1>8, Together, PTL

LEMMA AcceptStep ==
  ASSUME IInv, NEW n \in Nodes, Accept(n)
  PROVE  IInv'
<1> DEFINE p == pm[n]
           queue == p.readyFds
<1>1. ManagersGood /\ RestTyped /\ Good(p, held[n])
  BY Together DEF ManagersGood
<1>2. ASSUME NEW i \in 1..Len(queue), \A j \in 1..(i - 1) : ~Live(p, queue[j]),
             pm' = [pm EXCEPT ![n].readyFds = SubSeq(queue, i + 1, Len(queue))],
             Post(n, p.conns[queue[i]].remote, "accepted", p.conns[queue[i]].id),
             held' = [held EXCEPT ![n][queue[i]] = p.conns[queue[i]].id],
             UNCHANGED <<rpc, opened, resets>>
      PROVE  IInv'
  <2> DEFINE fd == queue[i]
             q == [p EXCEPT !.readyFds = SubSeq(@, i + 1, Len(@))]
             k == [held[n] EXCEPT ![fd] = p.conns[fd].id]
  <2>1. fd \in Fds /\ Live(p, fd) /\ Good(q, k)
    BY <1>1, <1>2, AcceptTakesGood
  <2>2. pm' = [pm EXCEPT ![n] = q] /\ held' = [held EXCEPT ![n] = k]
    BY <1>2
  <2>3. p.conns[fd].remote \in Nodes /\ p.conns[fd].id \in Ids
    BY <1>1, <2>1 DEF Good, LiveIsReal
  <2>4. bus' = [bus EXCEPT ![n][p.conns[fd].remote] = Append(@, [kind |-> "accepted", id |-> p.conns[fd].id])]
    BY <1>2 DEF Post
  <2> HIDE DEF q, k, fd
  <2>5. ManagersGood'
    BY <1>1, <2>1, <2>2, OneNode
  <2>6. bus' \in [Nodes -> [Nodes -> Seq(Frame)]]
    BY <1>1, <2>3, <2>4, PostTyped DEF RestTyped
  <2>7. RestTyped'
    BY <1>1, <1>2, <2>6 DEF RestTyped
  <2> QED
    BY <2>5, <2>7, Together, PTL
<1>3. CASE /\ \A i \in 1..Len(queue) : ~Live(p, queue[i])
           /\ pm' = [pm EXCEPT ![n].readyFds = <<>>, ![n].acceptWaiters = @ + 1]
           /\ UNCHANGED <<bus, held, rpc, opened, resets>>
  <2> DEFINE q == [p EXCEPT !.readyFds = <<>>, !.acceptWaiters = @ + 1]
  <2>1. Good(q, held[n])
    BY <1>1, <1>3, AcceptParksGood
  <2>2. pm' = [pm EXCEPT ![n] = q]
    BY <1>1, <1>3 DEF ManagersGood
  <2> HIDE DEF q
  <2>3. ManagersGood' /\ RestTyped'
    BY <1>1, <1>3, <2>1, <2>2, SameHeld DEF RestTyped
  <2> QED
    BY <2>3, Together, PTL
<1> QED
  BY <1>2, <1>3 DEF Accept

LEMMA SendStep ==
  ASSUME IInv, NEW n \in Nodes, NEW fd \in Fds, Send(n, fd)
  PROVE  IInv'
<1> DEFINE c == pm[n].conns[fd]
<1>1. ManagersGood /\ RestTyped /\ Good(pm[n], held[n])
  BY Together DEF ManagersGood
<1>2. PICK kind \in Commands :
        /\ bus' = [bus EXCEPT ![n][c.remote] = Append(@, [kind |-> kind, id |-> c.id])]
        /\ rpc' = [rpc EXCEPT ![n][fd] = AfterRead(kind)]
  BY DEF Send, Post
<1>3. UNCHANGED <<pm, held, opened, resets>> /\ Live(pm[n], fd)
  BY DEF Send
<1>4. c.remote \in Nodes /\ c.id \in Ids
  BY <1>1, <1>3 DEF Good, LiveIsReal
<1> HIDE DEF c
<1>5. bus' \in [Nodes -> [Nodes -> Seq(Frame)]]
  BY <1>1, <1>2, <1>4, PostTyped DEF RestTyped
<1>6. rpc' \in [Nodes -> [Fds -> {"idle", "busy"}]]
  BY <1>1, <1>2, RpcTyped DEF RestTyped
<1>7. ManagersGood' /\ RestTyped'
  BY <1>1, <1>3, <1>5, <1>6 DEF ManagersGood, RestTyped
<1> QED
  BY <1>7, Together, PTL

LEMMA RecvStep ==
  ASSUME IInv, NEW n \in Nodes, NEW fd \in Fds, Recv(n, fd)
  PROVE  IInv'
<1> DEFINE p == pm[n]
<1>1. /\ ManagersGood /\ RestTyped /\ Good(p, held[n]) /\ p \in Manager /\ p.conns[fd] \in Conn
      /\ p.conns[fd].queue \in Seq([kind : Commands, id : Ids])
  BY Together, ManagerFields, ConnFields DEF ManagersGood
<1>2. /\ held[n][fd] # NoId /\ Live(p, fd) /\ ~p.conns[fd].wake
      /\ UNCHANGED <<bus, held, opened, resets>>
  BY DEF Recv
<1>3. CASE /\ p.conns[fd].queue # <<>>
           /\ pm' = [pm EXCEPT ![n].conns[fd].queue = Tail(@)]
           /\ rpc' = [rpc EXCEPT ![n][fd] = AfterRead(Head(p.conns[fd].queue).kind)]
  <2> DEFINE c == [p.conns[fd] EXCEPT !.queue = Tail(@)]
  <2>1. Tail(p.conns[fd].queue) \in Seq([kind : Commands, id : Ids])
    BY <1>1, <1>3, HeadTailProperties
  <2>2. /\ c \in Conn /\ c.state = "live" /\ c.remote = p.conns[fd].remote /\ c.id = p.conns[fd].id
        /\ ~c.wake /\ (c.accepted <=> p.conns[fd].accepted)
    BY <1>1, <1>2, <2>1 DEF Conn, Live
  <2>3. pm' = [pm EXCEPT ![n] = [p EXCEPT !.conns[fd] = c]] /\ held' = held
    BY <1>2, <1>3
  <2> HIDE DEF c
  <2>4. Good([p EXCEPT !.conns[fd] = c], held[n])
    BY <1>1, <1>2, <2>2, SlotGood
  <2>5. ManagersGood'
    BY <1>1, <2>3, <2>4, SameHeld
  <2>6. RestTyped'
    BY <1>1, <1>2, <1>3, RpcTyped DEF RestTyped
  <2> QED
    BY <2>5, <2>6, Together, PTL
<1>4. CASE /\ p.conns[fd].queue = <<>>
           /\ pm' = [pm EXCEPT ![n].conns[fd].wake = TRUE]
           /\ UNCHANGED rpc
  <2> DEFINE c == [p.conns[fd] EXCEPT !.wake = TRUE]
  <2>1. /\ c \in Conn /\ c.state = "live" /\ c.remote = p.conns[fd].remote /\ c.id = p.conns[fd].id
        /\ c.queue = <<>> /\ (c.accepted <=> p.conns[fd].accepted)
    BY <1>1, <1>2, <1>4 DEF Conn, Live
  <2>2. pm' = [pm EXCEPT ![n] = [p EXCEPT !.conns[fd] = c]] /\ held' = held
    BY <1>2, <1>4
  <2>3. held[n][fd] = c.id
    BY <1>1, <1>2, <2>1 DEF Good, KeepsHeld
  <2> HIDE DEF c
  <2>4. Good([p EXCEPT !.conns[fd] = c], held[n])
    BY <1>1, <1>2, <2>1, <2>3, SlotGood
  <2>5. ManagersGood'
    BY <1>1, <2>2, <2>4, SameHeld
  <2>6. RestTyped'
    BY <1>1, <1>2, <1>4 DEF RestTyped
  <2> QED
    BY <2>5, <2>6, Together, PTL
<1> QED
  BY <1>3, <1>4 DEF Recv

LEMMA CloseConnectionStep ==
  ASSUME IInv, NEW n \in Nodes, NEW fd \in Fds, CloseConnection(n, fd)
  PROVE  IInv'
<1> DEFINE c == pm[n].conns[fd]
           q == [Tombstone(pm[n], fd) EXCEPT !.conns[fd] = Free]
           k == [held[n] EXCEPT ![fd] = NoId]
<1>1. ManagersGood /\ RestTyped /\ Good(pm[n], held[n])
  BY Together DEF ManagersGood
<1>2. Good(q, k)
  BY <1>1, CloseConnectionGood
<1>3. pm' = [pm EXCEPT ![n] = q] /\ held' = [held EXCEPT ![n] = k]
  BY DEF CloseConnection
<1>4. /\ rpc' = [rpc EXCEPT ![n][fd] = "idle"] /\ UNCHANGED <<opened, resets>>
      /\ IF Live(pm[n], fd) THEN bus' = [bus EXCEPT ![n][c.remote] = Append(@, [kind |-> "close", id |-> c.id])]
         ELSE bus' = bus
  BY DEF CloseConnection, Post
<1> HIDE DEF q, k, c
<1>5. ManagersGood'
  BY <1>1, <1>2, <1>3, OneNode
<1>6. bus' \in [Nodes -> [Nodes -> Seq(Frame)]]
  <2>1. CASE Live(pm[n], fd)
    <3>1. c.remote \in Nodes /\ c.id \in Ids
      BY <1>1, <2>1 DEF Good, LiveIsReal, c
    <3>2. bus' = [bus EXCEPT ![n][c.remote] = Append(@, [kind |-> "close", id |-> c.id])]
      BY <1>4, <2>1
    <3> QED
      BY <1>1, <3>1, <3>2, PostTyped DEF RestTyped
  <2>2. CASE ~Live(pm[n], fd)
    BY <1>1, <1>4, <2>2 DEF RestTyped
  <2> QED
    BY <2>1, <2>2
<1>7. RestTyped'
  BY <1>1, <1>4, <1>6 DEF RestTyped
<1> QED
  BY <1>5, <1>7, Together, PTL

LEMMA CloseStep ==
  ASSUME IInv, NEW n \in Nodes, Close(n)
  PROVE  IInv'
<1> DEFINE p == pm[n]
           q == [p EXCEPT !.conns = [fd \in Fds |-> Tombstone(p, fd).conns[fd]],
                          !.byRemote = [m \in Nodes |-> NoFd],
                          !.readyFds = <<>>]
<1>1. ManagersGood /\ RestTyped /\ Good(p, held[n])
  BY Together DEF ManagersGood
<1>2. Good(q, held[n])
  BY <1>1, CloseGood
<1>3. pm' = [pm EXCEPT ![n] = q] /\ held' = held
  BY DEF Close
<1> HIDE DEF q
<1>4. ManagersGood'
  BY <1>1, <1>2, <1>3, SameHeld
<1>5. RestTyped'
  BY <1>1, BoundAssumption DEF RestTyped, Close
<1> QED
  BY <1>4, <1>5, Together, PTL

LEMMA StepIInv == IInv /\ [Next]_vars => IInv'
<1> SUFFICES ASSUME IInv, [Next]_vars PROVE IInv'
  OBVIOUS
<1>1. CASE UNCHANGED vars
  BY <1>1 DEF vars, IInv, TypeOK
<1>2. ASSUME NEW n \in Nodes, NEW m \in Nodes, Deliver(n, m) PROVE IInv'
  BY <1>2, DeliverStep
<1>3. ASSUME NEW n \in Nodes, Runtime(n) PROVE IInv'
  <2>1. ASSUME NEW m \in Nodes, Connect(n, m) PROVE IInv'
    BY <2>1, ConnectStep
  <2>2. ASSUME NEW fd \in Fds, Send(n, fd) \/ Recv(n, fd) \/ CloseConnection(n, fd) PROVE IInv'
    BY <2>2, SendStep, RecvStep, CloseConnectionStep
  <2> QED
    BY <1>3, <2>1, <2>2, AcceptStep, CloseStep DEF Runtime
<1> QED
  BY <1>1, <1>2, <1>3 DEF Next

-----------------------------------------------------------------------------
(* Theorems.                                                               *)

(* The invariant of every manager, and of the fds its Runtime holds. *)
THEOREM Invariance == Spec => []IInv
BY InitIInv, StepIInv, PTL DEF Spec

(* Types, for any set of nodes and number of fds. *)
THEOREM TypeCorrect == Spec => []TypeOK
<1>1. IInv => TypeOK
  BY DEF IInv
<1> QED
  BY <1>1, Invariance, PTL

(* An fd number is not given to another connection while the Runtime holds  *)
(* it: newFd(), tombstone() and close_connection() agree on who owns it.    *)
THEOREM HeldFdAlwaysKeepsIt == Spec => []HeldFdKeepsItsConnection
<1>1. IInv => HeldFdKeepsItsConnection
  BY DEF IInv, Good, KeepsHeld, HeldFdKeepsItsConnection
<1> QED
  BY <1>1, Invariance, PTL

(* byRemote finds the live connection of a remote, and there is only one.   *)
THEOREM OneLiveEachRemote == Spec => []OneLivePerRemote
<1>1. IInv => OneLivePerRemote
  BY DEF IInv, Good, FoundByRemote, OneLivePerRemote
<1> QED
  BY <1>1, Invariance, PTL

(* Whoever is parked in recv() or connect() is parked on a live connection. *)
THEOREM NobodyParkedOnTombstone == Spec => []ParkedOnLive
<1>1. IInv => ParkedOnLive
  BY DEF IInv, Good, ParksOnLive, Live, ParkedOnLive
<1> QED
  BY <1>1, Invariance, PTL

(* A queue without repetitions has as many members as places. *)
LEMMA DistinctCount ==
  ASSUME NEW queue \in Seq(Fds), Distinct(queue)
  PROVE  Cardinality(Members(queue)) = Len(queue)
<1> DEFINE S == 1..Len(queue)
           f == [i \in S |-> queue[i]]
<1>1. Len(queue) \in Nat
  OBVIOUS
<1>2. IsFiniteSet(S) /\ Cardinality(S) = Len(queue)
  <2> DEFINE n == Len(queue)
  <2>1. 1 \in Int /\ n \in Int /\ n \in Nat
    BY <1>1
  <2> HIDE DEF n
  <2>2. IsFiniteSet(1..n) /\ Cardinality(1..n) = IF 1 > n THEN 0 ELSE n - 1 + 1
    BY <2>1, FS_Interval
  <2>3. Cardinality(1..n) = n
    BY <2>1, <2>2
  <2> QED
    BY <2>2, <2>3 DEF n
<1>3. f \in Bijection(S, Members(queue))
  BY DEF Bijection, Injection, Surjection, IsInjective, Members, Distinct
<1>4. ExistsBijection(S, Members(queue))
  BY <1>3 DEF ExistsBijection
<1> QED
  BY <1>2, <1>4, FS_Bijection

(* No connection is lost between the bus and accept(), queued twice, or     *)
(* queued while an accept() is parked.                                      *)
THEOREM NoneEverStranded == Spec => []NoConnectionStranded
<1>1. IInv => NoConnectionStranded
  <2> SUFFICES ASSUME IInv, NEW n \in Nodes
               PROVE  LET queue == pm[n].readyFds
                          queued == {queue[i] : i \in 1..Len(queue)}
                      IN /\ Cardinality(queued) = Len(queue)
                         /\ queued = {fd \in Fds : /\ Live(pm[n], fd) /\ held[n][fd] = NoId
                                                   /\ ~pm[n].conns[fd].accepted}
                         /\ pm[n].acceptWaiters > 0 => queue = <<>>
    BY DEF NoConnectionStranded
  <2>1. Good(pm[n], held[n]) /\ pm[n].readyFds \in Seq(Fds)
    BY ManagerFields DEF IInv, Good, Typed
  <2>2. Cardinality(Members(pm[n].readyFds)) = Len(pm[n].readyFds)
    BY <2>1, DistinctCount DEF Good, QueuesWaiting
  <2> QED
    BY <2>1, <2>2 DEF Good, QueuesWaiting, Members, Waiting
<1> QED
  BY <1>1, Invariance, PTL

-----------------------------------------------------------------------------
(* Streams do not mix.  Frames name no connection, so what keeps the        *)
(* commands of two connections of one remote apart is the order in which a  *)
(* client and a server take turns.  The invariant is about one client and   *)
(* one server at a time: what each knows of their connection, and which     *)
(* frames may be on the way between them.  Each step of a manager changes   *)
(* one such pair (TwoNodes) or none (NothingSeen), and the lemmas on the    *)
(* two ends say that the pair stays in step.                                *)

(* One end of a connection, as what node n knows under byRemote[m]. stage:   *)
(* the Runtime was given it, connect() waits for the answer, or it waits for *)
(* accept().                                                                 *)
None == [id |-> NoId, queue |-> <<>>, stage |-> "none", rpc |-> "idle"]

View(p, h, r, m) ==
  LET fd == p.byRemote[m]
  IN  IF fd = NoFd THEN None
      ELSE [id |-> p.conns[fd].id, queue |-> p.conns[fd].queue,
            stage |-> IF h[fd] # NoId THEN "given"
                      ELSE IF p.conns[fd].accepted THEN "asked" ELSE "waits",
            rpc |-> r[fd]]

(* In what follows c is the end of a client, s the end of a server, F the    *)
(* frames on the way to the server and G those on the way to the client.     *)
Asks(queue) == \E k \in 1..Len(queue) : queue[k].kind = "request"

(* A client that was given its connection is served under the same number.   *)
ClientKnows(c, s) ==
  /\ c.stage # "waits"
  /\ c.stage = "given" => s.stage = "given" /\ s.id = c.id
  /\ c.rpc = "busy" => c.stage = "given"

(* A connect is the last frame; after a close only a connect follows; and a  *)
(* request, which the client waits for, is the last frame as well.           *)
ToServer(c, s, F) ==
  \A k \in 1..Len(F) :
    /\ F[k].kind \in {"connect", "close", "request", "oneway"}
    /\ F[k].kind = "connect" => k = Len(F) /\ c.stage = "asked" /\ F[k].id = c.id
    /\ F[k].kind # "connect" => s.stage = "given"
    /\ F[k].kind = "close" =>
         c.stage # "given" /\ \A j \in (k + 1)..Len(F) : F[j].kind = "connect"
    /\ F[k].kind \in Commands => F[k].id = s.id
    /\ F[k].kind = "request" => k = Len(F) /\ c.rpc = "busy"

(* A frame to the client is the answer to its connect() or to its request.   *)
ToClient(c, s, F, G) ==
  /\ Len(G) <= 1
  /\ \A k \in 1..Len(G) :
       /\ Len(F) = 0 /\ s.stage = "given" /\ s.id = c.id /\ G[k].id = c.id
       /\ \/ G[k].kind = "accepted" /\ c.stage = "asked"
          \/ G[k].kind = "response" /\ c.rpc = "busy" /\ Len(s.queue) = 0

(* What waits at the server was sent on the connection it now serves.        *)
ServerQueue(c, s, F) ==
  /\ s.stage \in {"none", "waits", "given"}
  /\ s.stage = "waits" => c.stage = "asked" /\ s.id = c.id /\ Len(F) = 0 /\ Len(s.queue) = 0
  /\ \A k \in 1..Len(s.queue) :
       /\ s.queue[k].kind \in {"request", "oneway"}
       /\ s.queue[k].id = s.id
       /\ s.queue[k].kind = "request" => k = Len(s.queue) /\ c.rpc = "busy" /\ Len(F) = 0

(* What waits at the client is the response it asked for.                    *)
ClientQueue(c) ==
  /\ Len(c.queue) <= 1
  /\ \A k \in 1..Len(c.queue) : c.queue[k].kind = "response" /\ c.queue[k].id = c.id /\ c.rpc = "busy"

(* At most one request of the pair is under way, in one place.               *)
OneCommand(c, s, F, G) ==
  /\ (Asks(F) \/ Asks(s.queue)) => s.rpc = "idle" /\ Len(G) = 0 /\ Len(c.queue) = 0
  /\ s.rpc = "busy" =>
       c.rpc = "busy" /\ Len(s.queue) = 0 /\ Len(F) = 0 /\ Len(G) = 0 /\ Len(c.queue) = 0
  /\ Len(c.queue) > 0 => Len(F) = 0 /\ Len(s.queue) = 0 /\ Len(G) = 0

InStep(c, s, F, G) ==
  /\ ClientKnows(c, s) /\ ToServer(c, s, F) /\ ToClient(c, s, F, G)
  /\ ServerQueue(c, s, F) /\ ClientQueue(c) /\ OneCommand(c, s, F, G)

(* Frames pass between a client and a server only. *)
Opposite(n, m) == n \in Clients <=> m \notin Clients

(* The live slots of a manager face the other role, the others are empty, and*)
(* no command is under way on an fd that the Runtime does not hold.          *)
Facing(n, p, h, r) ==
  \A fd \in Fds :
    /\ Live(p, fd) => Opposite(n, p.conns[fd].remote)
    /\ ~Live(p, fd) => p.conns[fd].queue = <<>>
    /\ r[fd] = "busy" => h[fd] # NoId

(* What n knows of its connection with m. *)
Side(n, m) == View(pm[n], held[n], rpc[n], m)

Roles ==
  /\ \A n \in Nodes : Facing(n, pm[n], held[n], rpc[n])
  /\ \A n, m \in Nodes : Opposite(n, m) \/ bus[n][m] = <<>>

(* A client and a server are in step as long as no manager is close()d.      *)
Streams ==
  resets = 0 =>
    \A c \in Clients, s \in Servers : InStep(Side(c, s), Side(s, c), bus[c][s], bus[s][c])

-----------------------------------------------------------------------------
(* What each step does to the two ends and to the frames between them.       *)

Message == [kind : Commands, id : Ids]
Ends == [id : Ids \cup {NoId}, queue : Seq(Message),
         stage : {"none", "asked", "waits", "given"}, rpc : {"idle", "busy"}]

LEMMA Posting ==
  ASSUME NEW T, NEW F \in Seq(T), NEW e \in T
  PROVE  /\ Append(F, e) \in Seq(T) /\ Len(Append(F, e)) = Len(F) + 1
         /\ \A k \in 1..Len(F) : Append(F, e)[k] = F[k]
         /\ Append(F, e)[Len(F) + 1] = e
OBVIOUS

LEMMA Taking ==
  ASSUME NEW T, NEW F \in Seq(T), Len(F) > 0
  PROVE  /\ Head(F) = F[1] /\ F[1] \in T
         /\ Tail(F) \in Seq(T) /\ Len(Tail(F)) = Len(F) - 1
         /\ \A k \in 1..Len(Tail(F)) : k + 1 \in 1..Len(F) /\ Tail(F)[k] = F[k + 1]
OBVIOUS

LEMMA ClientConnects ==
  ASSUME NEW c \in Ends, NEW s \in Ends, NEW F \in Seq(Frame), NEW G \in Seq(Frame),
         InStep(c, s, F, G), c.stage # "asked", c.rpc = "idle",
         NEW d \in Ends, Len(d.queue) = 0, d.stage = "asked", d.rpc = "idle",
         NEW e \in Frame, e.kind = "connect", e.id = d.id
  PROVE  InStep(d, s, Append(F, e), G)
<1> DEFINE H == Append(F, e)
<1>1. /\ H \in Seq(Frame) /\ Len(H) = Len(F) + 1 /\ H[Len(F) + 1] = e
      /\ \A k \in 1..Len(F) : H[k] = F[k]
  BY Posting
<1>2. Len(F) \in Nat /\ Len(G) \in Nat /\ Len(c.queue) \in Nat /\ Len(s.queue) \in Nat
  BY DEF Ends
<1> HIDE DEF H
<1>3. ClientKnows(d, s)
  BY DEF ClientKnows
<1>4. ToServer(d, s, H)
  <2>1. \A k \in 1..Len(F) :
          /\ F[k].kind \in {"close", "oneway"} /\ s.stage = "given"
          /\ F[k].kind = "close" => \A j \in (k + 1)..Len(F) : F[j].kind = "connect"
          /\ F[k].kind \in Commands => F[k].id = s.id
    BY DEF InStep, ToServer
  <2> SUFFICES ASSUME NEW k \in 1..Len(H)
               PROVE  /\ H[k].kind \in {"connect", "close", "request", "oneway"}
                      /\ H[k].kind = "connect" => k = Len(H) /\ H[k].id = d.id
                      /\ H[k].kind # "connect" => s.stage = "given"
                      /\ H[k].kind = "close" => \A j \in (k + 1)..Len(H) : H[j].kind = "connect"
                      /\ H[k].kind \in Commands => H[k].id = s.id
                      /\ H[k].kind # "request"
    BY DEF ToServer
  <2>2. CASE k = Len(F) + 1
    <3>1. H[k] = e /\ k = Len(H)
      BY <1>1, <2>2
    <3> QED
      BY <1>2, <3>1 DEF Commands
  <2>3. CASE k \in 1..Len(F)
    <3>1. H[k] = F[k]
      BY <1>1, <2>3
    <3>2. ASSUME H[k].kind = "close", NEW j \in (k + 1)..Len(H) PROVE H[j].kind = "connect"
      <4>1. CASE j = Len(F) + 1
        BY <1>1, <4>1
      <4>2. CASE j # Len(F) + 1
        <5>1. j \in (k + 1)..Len(F) /\ j \in 1..Len(F)
          BY <1>1, <1>2, <2>3, <4>2
        <5> QED
          BY <1>1, <2>1, <2>3, <3>1, <3>2, <5>1
      <4> QED
        BY <4>1, <4>2
    <3> QED
      BY <2>1, <2>3, <3>1, <3>2
  <2> QED
    BY <1>1, <1>2, <2>2, <2>3
<1>5. Len(G) = 0 /\ ToClient(d, s, H, G)
  BY <1>1, <1>2 DEF InStep, ToClient
<1>6. ServerQueue(d, s, H)
  BY <1>1, <1>2 DEF InStep, ServerQueue, Ends
<1>7. ClientQueue(d)
  BY DEF ClientQueue
<1>8. OneCommand(d, s, H, G)
  BY <1>1, <1>2, <1>5 DEF InStep, OneCommand, Asks, ToServer, ServerQueue, ClientQueue
<1> QED
  BY <1>3, <1>4, <1>5, <1>6, <1>7, <1>8 DEF InStep, H

LEMMA OnlyOne == ASSUME NEW n \in Nat, n > 0, n <= 1 PROVE n = 1 /\ 1 \in 1..n
OBVIOUS

LEMMA ClientSends ==
  ASSUME NEW c \in Ends, NEW s \in Ends, NEW F \in Seq(Frame), NEW G \in Seq(Frame),
         InStep(c, s, F, G), c.stage = "given", c.rpc = "idle",
         NEW e \in Frame, e.kind \in {"request", "oneway"}, e.id = c.id,
         NEW d \in Ends, d.id = c.id, d.queue = c.queue, d.stage = "given",
         d.rpc = AfterRead(e.kind)
  PROVE  InStep(d, s, Append(F, e), G)
<1> DEFINE H == Append(F, e)
<1>1. /\ H \in Seq(Frame) /\ Len(H) = Len(F) + 1 /\ H[Len(F) + 1] = e
      /\ \A k \in 1..Len(F) : H[k] = F[k]
  BY Posting
<1>2. Len(F) \in Nat /\ Len(G) \in Nat /\ Len(c.queue) \in Nat /\ Len(s.queue) \in Nat
  BY DEF Ends
<1> HIDE DEF H
<1>3. ClientKnows(d, s)
  BY DEF InStep, ClientKnows
<1>4. ToServer(d, s, H)
  BY <1>1, <1>2 DEF InStep, ToServer, ClientKnows, AfterRead, Commands
<1>5. Len(G) = 0 /\ ToClient(d, s, H, G)
  BY <1>1, <1>2 DEF InStep, ToClient
<1>6. ServerQueue(d, s, H)
  BY <1>1, <1>2 DEF InStep, ServerQueue
<1>7. Len(c.queue) = 0 /\ ClientQueue(d)
  BY <1>2 DEF InStep, ClientQueue
<1>8. OneCommand(d, s, H, G)
  BY <1>1, <1>2, <1>5, <1>7 DEF InStep, OneCommand, Asks, ServerQueue, Ends
<1> QED
  BY <1>3, <1>4, <1>5, <1>6, <1>7, <1>8 DEF InStep, H

(* The response was the only thing under way. *)
LEMMA ClientReads ==
  ASSUME NEW c \in Ends, NEW s \in Ends, NEW F \in Seq(Frame), NEW G \in Seq(Frame),
         InStep(c, s, F, G), c.stage = "given", Len(c.queue) > 0,
         NEW d \in Ends, d.id = c.id, d.queue = Tail(c.queue), d.stage = "given",
         d.rpc = AfterRead(Head(c.queue).kind)
  PROVE  InStep(d, s, F, G)
<1>1. Len(F) \in Nat /\ Len(G) \in Nat /\ Len(c.queue) \in Nat /\ Len(s.queue) \in Nat
  BY DEF Ends
<1>2. /\ Head(c.queue) = c.queue[1] /\ Len(d.queue) = Len(c.queue) - 1
  BY Taking DEF Ends
<1>3. Len(d.queue) = 0 /\ c.queue[1].kind = "response"
  <2>1. Len(c.queue) = 1 /\ 1 \in 1..Len(c.queue)
    <3>1. Len(c.queue) <= 1
      BY DEF InStep, ClientQueue
    <3> QED
      BY <1>1, <3>1, OnlyOne
  <2>2. c.queue[1].kind = "response"
    BY <2>1 DEF InStep, ClientQueue
  <2> QED
    BY <1>2, <2>1, <2>2
<1>4. Len(F) = 0 /\ Len(G) = 0 /\ Len(s.queue) = 0 /\ s.rpc = "idle"
  BY <1>1 DEF InStep, OneCommand, Ends
<1>5. ClientKnows(d, s) /\ ToServer(d, s, F) /\ ToClient(d, s, F, G)
  BY <1>2, <1>3, <1>4 DEF InStep, ClientKnows, ToServer, ToClient, AfterRead
<1>6. ServerQueue(d, s, F) /\ ClientQueue(d) /\ OneCommand(d, s, F, G)
  BY <1>3, <1>4 DEF InStep, ServerQueue, ClientQueue, OneCommand, Asks
<1> QED
  BY <1>5, <1>6 DEF InStep

LEMMA ClientCloses ==
  ASSUME NEW c \in Ends, NEW s \in Ends, NEW F \in Seq(Frame), NEW G \in Seq(Frame),
         InStep(c, s, F, G), c.stage = "given", c.rpc = "idle",
         NEW e \in Frame, e.kind = "close", e.id = c.id
  PROVE  InStep(None, s, Append(F, e), G)
<1> DEFINE H == Append(F, e)
<1>1. /\ H \in Seq(Frame) /\ Len(H) = Len(F) + 1 /\ H[Len(F) + 1] = e
      /\ \A k \in 1..Len(F) : H[k] = F[k]
  BY Posting
<1>2. Len(F) \in Nat /\ Len(G) \in Nat /\ Len(c.queue) \in Nat /\ Len(s.queue) \in Nat
  BY DEF Ends
<1> HIDE DEF H
<1>3. ClientKnows(None, s) /\ ClientQueue(None) /\ Len(None.queue) = 0
  BY DEF ClientKnows, ClientQueue, None
<1>4. ToServer(None, s, H)
  BY <1>1, <1>2 DEF InStep, ToServer, ClientKnows, Commands, None
<1>5. Len(G) = 0 /\ ToClient(None, s, H, G)
  BY <1>1, <1>2 DEF InStep, ToClient
<1>6. ServerQueue(None, s, H)
  BY <1>1, <1>2 DEF InStep, ServerQueue, ClientKnows
<1>7. OneCommand(None, s, H, G)
  BY <1>1, <1>2, <1>3, <1>5 DEF InStep, OneCommand, Asks, ServerQueue, Ends
<1> QED
  BY <1>3, <1>4, <1>5, <1>6, <1>7 DEF InStep, H

LEMMA ClientIsGiven ==
  ASSUME NEW c \in Ends, NEW s \in Ends, NEW F \in Seq(Frame), NEW G \in Seq(Frame),
         InStep(c, s, F, G), Len(G) > 0, Head(G).kind = "accepted",
         NEW d \in Ends, d.id = c.id, d.queue = c.queue, d.stage = "given", d.rpc = c.rpc
  PROVE  InStep(d, s, F, Tail(G))
<1> DEFINE H == Tail(G)
<1>1. Len(F) \in Nat /\ Len(G) \in Nat /\ Len(c.queue) \in Nat /\ Len(s.queue) \in Nat
  BY DEF Ends
<1>2. Head(G) = G[1] /\ Len(H) = Len(G) - 1 /\ 1 \in 1..Len(G)
  BY <1>1, Taking
<1> HIDE DEF H
<1>3. Len(H) = 0 /\ Len(F) = 0 /\ s.stage = "given" /\ s.id = c.id /\ c.stage = "asked"
  BY <1>1, <1>2 DEF InStep, ToClient
<1>4. c.rpc = "idle" /\ s.rpc = "idle"
  BY <1>3 DEF InStep, ClientKnows, OneCommand, Ends
<1>5. ClientKnows(d, s) /\ ToServer(d, s, F) /\ ToClient(d, s, F, H)
  BY <1>3, <1>4 DEF InStep, ClientKnows, ToServer, ToClient
<1>6. ServerQueue(d, s, F) /\ ClientQueue(d) /\ OneCommand(d, s, F, H)
  BY <1>1, <1>3, <1>4 DEF InStep, ServerQueue, ClientQueue, OneCommand, Asks
<1> QED
  BY <1>5, <1>6 DEF InStep, H

(* A response is queued, or read by the parked recv(). *)
LEMMA ClientIsAnswered ==
  ASSUME NEW c \in Ends, NEW s \in Ends, NEW F \in Seq(Frame), NEW G \in Seq(Frame),
         InStep(c, s, F, G), Len(G) > 0, Head(G).kind # "accepted",
         NEW d \in Ends, d.id = c.id, d.stage = c.stage,
         \/ d.queue = Append(c.queue, Head(G)) /\ d.rpc = c.rpc
         \/ d.queue = c.queue /\ d.rpc = AfterRead(Head(G).kind)
  PROVE  InStep(d, s, F, Tail(G))
<1> DEFINE H == Tail(G)
<1>1. Len(F) \in Nat /\ Len(G) \in Nat /\ Len(c.queue) \in Nat /\ Len(s.queue) \in Nat
  BY DEF Ends
<1>2. Head(G) = G[1] /\ Len(H) = Len(G) - 1 /\ 1 \in 1..Len(G)
  BY <1>1, Taking
<1> HIDE DEF H
<1>3. /\ Len(H) = 0 /\ Len(F) = 0 /\ s.stage = "given" /\ s.id = c.id
      /\ G[1].kind = "response" /\ G[1].id = c.id /\ c.rpc = "busy" /\ Len(s.queue) = 0
  BY <1>1, <1>2 DEF InStep, ToClient
<1>4. s.rpc = "idle" /\ Len(c.queue) = 0 /\ c.stage = "given"
  BY <1>1, <1>3 DEF InStep, ClientKnows, OneCommand, Ends
<1>5. ClientKnows(d, s) /\ ToServer(d, s, F) /\ ToClient(d, s, F, H)
  BY <1>3, <1>4 DEF InStep, ClientKnows, ToServer, ToClient
<1>6. ServerQueue(d, s, F)
  BY <1>3, <1>4 DEF InStep, ServerQueue
<1>7. OneCommand(d, s, F, H)
  BY <1>1, <1>3, <1>4 DEF OneCommand, Asks
<1>8. CASE d.queue = Append(c.queue, Head(G)) /\ d.rpc = c.rpc
  <2>1. G[1] \in Message
    <3>1. G[1] \in Frame
      BY <1>2
    <3> QED
      BY <1>3, <3>1 DEF Frame, Message, Commands
  <2>2. Len(d.queue) = 1 /\ d.queue[1] = G[1]
    BY <1>2, <1>4, <1>8, <2>1, Posting DEF Ends
  <2>3. ClientQueue(d)
    BY <1>3, <1>8, <2>2 DEF ClientQueue
  <2> QED
    BY <1>5, <1>6, <1>7, <2>3 DEF InStep, H
<1>9. CASE d.queue = c.queue /\ d.rpc = AfterRead(Head(G).kind)
  <2>1. ClientQueue(d)
    BY <1>4, <1>9 DEF ClientQueue
  <2> QED
    BY <1>5, <1>6, <1>7, <2>1 DEF InStep, H
<1> QED
  BY <1>8, <1>9

LEMMA ServerIsGiven ==
  ASSUME NEW c \in Ends, NEW s \in Ends, NEW F \in Seq(Frame), NEW G \in Seq(Frame),
         InStep(c, s, F, G), s.stage = "waits",
         NEW e \in Frame, e.kind = "accepted", e.id = s.id,
         NEW t \in Ends, t.id = s.id, t.queue = s.queue, t.stage = "given", t.rpc = s.rpc
  PROVE  InStep(c, t, F, Append(G, e))
<1> DEFINE H == Append(G, e)
<1>1. /\ H \in Seq(Frame) /\ Len(H) = Len(G) + 1 /\ H[Len(G) + 1] = e
      /\ \A k \in 1..Len(G) : H[k] = G[k]
  BY Posting
<1>2. Len(F) \in Nat /\ Len(G) \in Nat /\ Len(c.queue) \in Nat /\ Len(s.queue) \in Nat
  BY DEF Ends
<1> HIDE DEF H
<1>3. c.stage = "asked" /\ s.id = c.id /\ Len(F) = 0 /\ Len(s.queue) = 0 /\ Len(G) = 0
  BY <1>2 DEF InStep, ServerQueue, ToClient
<1>4. c.rpc = "idle" /\ s.rpc = "idle" /\ Len(c.queue) = 0
  BY <1>2, <1>3 DEF InStep, ClientKnows, ClientQueue, OneCommand, Ends
<1>5. ClientKnows(c, t) /\ ToServer(c, t, F) /\ ToClient(c, t, F, H)
  BY <1>1, <1>3, <1>4 DEF InStep, ClientKnows, ToServer, ToClient
<1>6. ServerQueue(c, t, F) /\ ClientQueue(c) /\ OneCommand(c, t, F, H)
  BY <1>3, <1>4 DEF InStep, ServerQueue, ClientQueue, OneCommand, Asks
<1> QED
  BY <1>5, <1>6 DEF InStep, H

LEMMA ServerAnswers ==
  ASSUME NEW c \in Ends, NEW s \in Ends, NEW F \in Seq(Frame), NEW G \in Seq(Frame),
         InStep(c, s, F, G), s.stage = "given", s.rpc = "busy",
         NEW e \in Frame, e.kind = "response", e.id = s.id,
         NEW t \in Ends, t.id = s.id, t.queue = s.queue, t.stage = "given", t.rpc = "idle"
  PROVE  InStep(c, t, F, Append(G, e))
<1> DEFINE H == Append(G, e)
<1>1. /\ H \in Seq(Frame) /\ Len(H) = Len(G) + 1 /\ H[Len(G) + 1] = e
      /\ \A k \in 1..Len(G) : H[k] = G[k]
  BY Posting
<1>2. Len(F) \in Nat /\ Len(G) \in Nat /\ Len(c.queue) \in Nat /\ Len(s.queue) \in Nat
  BY DEF Ends
<1> HIDE DEF H
<1>3. c.rpc = "busy" /\ Len(F) = 0 /\ Len(s.queue) = 0 /\ Len(G) = 0 /\ Len(c.queue) = 0
  BY <1>2 DEF InStep, OneCommand
<1>4. c.stage = "given" /\ s.id = c.id
  BY <1>3 DEF InStep, ClientKnows
<1>5. ClientKnows(c, t) /\ ToServer(c, t, F) /\ ToClient(c, t, F, H)
  BY <1>1, <1>3, <1>4 DEF InStep, ClientKnows, ToServer, ToClient
<1>6. ServerQueue(c, t, F) /\ ClientQueue(c) /\ OneCommand(c, t, F, H)
  BY <1>3, <1>4 DEF InStep, ServerQueue, ClientQueue, OneCommand, Asks
<1> QED
  BY <1>5, <1>6 DEF InStep, H

LEMMA ServerReads ==
  ASSUME NEW c \in Ends, NEW s \in Ends, NEW F \in Seq(Frame), NEW G \in Seq(Frame),
         InStep(c, s, F, G), s.stage = "given", Len(s.queue) > 0,
         NEW t \in Ends, t.id = s.id, t.queue = Tail(s.queue), t.stage = "given",
         t.rpc = AfterRead(Head(s.queue).kind)
  PROVE  InStep(c, t, F, G)
<1>1. Len(F) \in Nat /\ Len(G) \in Nat /\ Len(c.queue) \in Nat /\ Len(s.queue) \in Nat
  BY DEF Ends
<1>2. /\ Head(s.queue) = s.queue[1] /\ Len(t.queue) = Len(s.queue) - 1
      /\ \A k \in 1..Len(t.queue) : k + 1 \in 1..Len(s.queue) /\ t.queue[k] = s.queue[k + 1]
  BY Taking DEF Ends
<1>3. ClientKnows(c, t) /\ ToServer(c, t, F) /\ ClientQueue(c)
  BY DEF InStep, ClientKnows, ToServer
<1>4. ToClient(c, t, F, G)
  BY <1>1, <1>2 DEF InStep, ToClient
<1>5. ServerQueue(c, t, F)
  BY <1>1, <1>2 DEF InStep, ServerQueue
<1>6. Len(c.queue) = 0
  BY <1>1 DEF InStep, OneCommand
<1>7. CASE s.queue[1].kind = "request"
  <2>1. /\ Len(t.queue) = 0 /\ c.rpc = "busy" /\ Len(F) = 0
    <3>1. 1 \in 1..Len(s.queue)
      BY <1>1
    <3>2. 1 = Len(s.queue) /\ c.rpc = "busy" /\ Len(F) = 0
      BY <1>7, <3>1 DEF InStep, ServerQueue
    <3> QED
      BY <1>2, <3>2
  <2>2. Len(G) = 0
    BY <1>1, <1>7 DEF InStep, OneCommand, Asks
  <2>3. OneCommand(c, t, F, G)
    BY <1>6, <2>1, <2>2 DEF OneCommand, Asks
  <2> QED
    BY <1>3, <1>4, <1>5, <2>3 DEF InStep
<1>8. CASE s.queue[1].kind # "request"
  <2>1. t.rpc = "idle"
    BY <1>2, <1>8 DEF AfterRead
  <2>2. Asks(t.queue) => Asks(s.queue)
    BY <1>2 DEF Asks
  <2>3. OneCommand(c, t, F, G)
    BY <1>1, <1>6, <2>1, <2>2 DEF InStep, OneCommand
  <2> QED
    BY <1>3, <1>4, <1>5, <2>3 DEF InStep
<1> QED
  BY <1>7, <1>8

(* A connect frame that finds no free number is dropped. *)
LEMMA ConnectIsDropped ==
  ASSUME NEW c \in Ends, NEW s \in Ends, NEW F \in Seq(Frame), NEW G \in Seq(Frame),
         InStep(c, s, F, G), Len(F) > 0, Head(F).kind = "connect"
  PROVE  InStep(c, s, Tail(F), G)
<1> DEFINE H == Tail(F)
<1>1. Len(F) \in Nat /\ Len(G) \in Nat /\ Len(c.queue) \in Nat /\ Len(s.queue) \in Nat
  BY DEF Ends
<1>2. Head(F) = F[1] /\ Len(H) = Len(F) - 1 /\ 1 \in 1..Len(F)
  BY <1>1, Taking
<1> HIDE DEF H
<1>3. Len(H) = 0 /\ c.stage = "asked"
  BY <1>1, <1>2 DEF InStep, ToServer
<1>4. Len(G) = 0 /\ s.stage # "waits" /\ c.rpc = "idle"
  BY <1>1, <1>3 DEF InStep, ToClient, ServerQueue, ClientKnows, Ends
<1>5. ToServer(c, s, H) /\ ToClient(c, s, H, G) /\ ServerQueue(c, s, H)
  BY <1>1, <1>3, <1>4 DEF InStep, ToServer, ToClient, ServerQueue
<1>6. OneCommand(c, s, H, G)
  BY <1>1, <1>3, <1>4 DEF InStep, OneCommand, Asks, ServerQueue
<1> QED
  BY <1>5, <1>6 DEF InStep, H

(* The new connection waits for accept(). *)
LEMMA ConnectWaits ==
  ASSUME NEW c \in Ends, NEW s \in Ends, NEW F \in Seq(Frame), NEW G \in Seq(Frame),
         InStep(c, s, F, G), Len(F) > 0, Head(F).kind = "connect",
         NEW t \in Ends, t.id = Head(F).id, Len(t.queue) = 0, t.stage = "waits", t.rpc = "idle"
  PROVE  InStep(c, t, Tail(F), G)
<1> DEFINE H == Tail(F)
<1>1. Len(F) \in Nat /\ Len(G) \in Nat /\ Len(c.queue) \in Nat /\ Len(s.queue) \in Nat
  BY DEF Ends
<1>2. Head(F) = F[1] /\ Len(H) = Len(F) - 1 /\ 1 \in 1..Len(F)
  BY <1>1, Taking
<1> HIDE DEF H
<1>3. Len(H) = 0 /\ c.stage = "asked" /\ t.id = c.id
  BY <1>1, <1>2 DEF InStep, ToServer
<1>4. Len(G) = 0 /\ c.rpc = "idle"
  BY <1>1, <1>3 DEF InStep, ToClient, ClientKnows, Ends
<1>5. ClientKnows(c, t) /\ ToServer(c, t, H) /\ ToClient(c, t, H, G)
  BY <1>3, <1>4 DEF InStep, ClientKnows, ToServer, ToClient
<1>6. ServerQueue(c, t, H) /\ OneCommand(c, t, H, G)
  BY <1>3, <1>4 DEF ServerQueue, OneCommand, Asks
<1> QED
  BY <1>5, <1>6 DEF InStep, H

LEMMA CloseArrives ==
  ASSUME NEW c \in Ends, NEW s \in Ends, NEW F \in Seq(Frame), NEW G \in Seq(Frame),
         InStep(c, s, F, G), Len(F) > 0, Head(F).kind = "close"
  PROVE  InStep(c, None, Tail(F), G)
<1> DEFINE H == Tail(F)
<1>1. Len(F) \in Nat /\ Len(G) \in Nat /\ Len(c.queue) \in Nat /\ Len(s.queue) \in Nat
  BY DEF Ends
<1>2. /\ Head(F) = F[1] /\ Len(H) = Len(F) - 1
      /\ \A k \in 1..Len(H) : k + 1 \in 1..Len(F) /\ H[k] = F[k + 1]
  BY Taking
<1> HIDE DEF H
<1>3. Len(G) = 0 /\ c.stage # "given" /\ \A k \in 1..Len(H) : H[k].kind = "connect"
  BY <1>1, <1>2 DEF InStep, ToServer, ToClient
<1>4. Len(None.queue) = 0 /\ None.stage = "none" /\ None.rpc = "idle"
  BY DEF None
<1>5. ClientKnows(c, None) /\ ToClient(c, None, H, G)
  BY <1>3 DEF InStep, ClientKnows, ToClient
<1>6. ToServer(c, None, H)
  BY <1>1, <1>2, <1>3 DEF InStep, ToServer, Commands
<1>7. ServerQueue(c, None, H)
  BY <1>4 DEF ServerQueue
<1>8. OneCommand(c, None, H, G)
  BY <1>1, <1>2, <1>3, <1>4 DEF InStep, OneCommand, Asks
<1> QED
  BY <1>5, <1>6, <1>7, <1>8 DEF InStep, H

(* A command is queued, or read by the parked recv(). *)
LEMMA CommandArrives ==
  ASSUME NEW c \in Ends, NEW s \in Ends, NEW F \in Seq(Frame), NEW G \in Seq(Frame),
         InStep(c, s, F, G), Len(F) > 0, Head(F).kind \in Commands,
         NEW t \in Ends, t.id = s.id, t.stage = s.stage,
         \/ t.queue = Append(s.queue, Head(F)) /\ t.rpc = s.rpc
         \/ t.queue = s.queue /\ Len(s.queue) = 0 /\ t.rpc = AfterRead(Head(F).kind)
  PROVE  InStep(c, t, Tail(F), G)
<1> DEFINE H == Tail(F)
<1>1. Len(F) \in Nat /\ Len(G) \in Nat /\ Len(c.queue) \in Nat /\ Len(s.queue) \in Nat
  BY DEF Ends
<1>2. /\ Head(F) = F[1] /\ Len(H) = Len(F) - 1
      /\ \A k \in 1..Len(H) : k + 1 \in 1..Len(F) /\ H[k] = F[k + 1]
  BY Taking
<1> HIDE DEF H
<1>3. /\ Len(G) = 0 /\ s.stage = "given" /\ s.rpc = "idle" /\ Len(c.queue) = 0
      /\ F[1].kind \in {"request", "oneway"} /\ F[1].id = s.id
      /\ F[1].kind = "request" => Len(H) = 0 /\ c.rpc = "busy"
  BY <1>1, <1>2 DEF InStep, ToServer, ToClient, OneCommand, Commands, Ends
<1>4. ClientKnows(c, t) /\ ToClient(c, t, H, G)
  BY <1>3 DEF InStep, ClientKnows, ToClient
<1>5. ToServer(c, t, H)
  <2> SUFFICES ASSUME NEW k \in 1..Len(H)
               PROVE  /\ H[k].kind \in {"connect", "close", "request", "oneway"}
                      /\ H[k].kind = "connect" => k = Len(H) /\ c.stage = "asked" /\ H[k].id = c.id
                      /\ H[k].kind # "connect" => t.stage = "given"
                      /\ H[k].kind = "close" =>
                           c.stage # "given" /\ \A j \in (k + 1)..Len(H) : H[j].kind = "connect"
                      /\ H[k].kind \in Commands => H[k].id = t.id
                      /\ H[k].kind = "request" => k = Len(H) /\ c.rpc = "busy"
    BY DEF ToServer
  <2>1. k + 1 \in 1..Len(F) /\ H[k] = F[k + 1] /\ (k + 1 = Len(F) => k = Len(H))
    BY <1>1, <1>2
  <2>2. \A j \in (k + 1)..Len(H) : j + 1 \in (k + 2)..Len(F) /\ H[j] = F[j + 1]
    BY <1>1, <1>2
  <2>3. /\ F[k + 1].kind \in {"connect", "close", "request", "oneway"}
        /\ F[k + 1].kind = "connect" => k + 1 = Len(F) /\ c.stage = "asked" /\ F[k + 1].id = c.id
        /\ F[k + 1].kind = "close" =>
             c.stage # "given" /\ \A j \in (k + 2)..Len(F) : F[j].kind = "connect"
        /\ F[k + 1].kind \in Commands => F[k + 1].id = s.id
        /\ F[k + 1].kind = "request" => k + 1 = Len(F) /\ c.rpc = "busy"
    BY <2>1 DEF InStep, ToServer
  <2> QED
    BY <1>3, <2>1, <2>2, <2>3
<1>6. Asks(H) => Asks(F)
  BY <1>1, <1>2 DEF Asks
<1>7. \A k \in 1..Len(s.queue) : s.queue[k].kind = "oneway" /\ s.queue[k].id = s.id
  BY <1>1 DEF InStep, ServerQueue
<1>8. CASE t.queue = Append(s.queue, F[1]) /\ t.rpc = s.rpc
  <2>1. F[1] \in Message
    <3>1. F[1] \in Frame
      BY Taking
    <3> QED
      BY <1>3, <3>1 DEF Frame, Message, Commands
  <2>2. /\ Len(t.queue) = Len(s.queue) + 1 /\ t.queue[Len(s.queue) + 1] = F[1]
        /\ \A k \in 1..Len(s.queue) : t.queue[k] = s.queue[k]
    BY <1>8, <2>1, Posting DEF Ends
  <2>3. \A k \in 1..Len(t.queue) : k \in 1..Len(s.queue) \/ k = Len(s.queue) + 1
    BY <1>1, <2>2
  <2>4. ServerQueue(c, t, H)
    BY <1>1, <1>3, <1>7, <2>2, <2>3 DEF ServerQueue
  <2>5. OneCommand(c, t, H, G)
    BY <1>1, <1>3, <1>8 DEF OneCommand
  <2> QED
    BY <1>4, <1>5, <2>4, <2>5 DEF InStep, H
<1>9. CASE t.queue = s.queue /\ Len(s.queue) = 0 /\ t.rpc = AfterRead(F[1].kind)
  <2>1. ServerQueue(c, t, H)
    BY <1>3, <1>9 DEF ServerQueue
  <2>2. F[1].kind = "request" => Len(H) = 0 /\ t.rpc = "busy"
    BY <1>3, <1>9 DEF AfterRead
  <2>3. F[1].kind # "request" => t.rpc = "idle"
    BY <1>9 DEF AfterRead
  <2>4. OneCommand(c, t, H, G)
    BY <1>1, <1>3, <1>9, <2>2, <2>3 DEF OneCommand, Asks
  <2> QED
    BY <1>4, <1>5, <2>1, <2>4 DEF InStep, H
<1> QED
  BY <1>2, <1>8, <1>9
-----------------------------------------------------------------------------
(* What each operation does to the ends of one manager.                      *)

Turns == [Fds -> {"idle", "busy"}]

LEMMA ViewTyped ==
  ASSUME NEW p, NEW h, Good(p, h), NEW r \in Turns, NEW m \in Nodes
  PROVE  View(p, h, r, m) \in Ends
<1>1. CASE p.byRemote[m] = NoFd
  BY <1>1 DEF View, None, Ends, Message
<1>2. CASE p.byRemote[m] # NoFd
  <2> DEFINE fd == p.byRemote[m]
  <2>1. fd \in Fds
    BY <1>2, FoundIsLive
  <2> HIDE DEF fd
  <2>2. p.conns[fd] \in Conn
    BY <2>1, ManagerFields DEF Good, Typed
  <2>3. p.conns[fd].id \in Ids \cup {NoId} /\ p.conns[fd].queue \in Seq(Message)
    BY <2>2, ConnFields DEF Message
  <2>4. r[fd] \in {"idle", "busy"}
    BY <2>1 DEF Turns
  <2> QED
    BY <1>2, <2>3, <2>4 DEF View, Ends, fd
<1> QED
  BY <1>1, <1>2

(* A live slot is what one remote finds. *)
LEMMA OneRemote ==
  ASSUME NEW p, NEW h, Good(p, h), NEW fd \in Fds, Live(p, fd)
  PROVE  /\ p.conns[fd].remote \in Nodes /\ p.byRemote[p.conns[fd].remote] = fd /\ fd # NoFd
         /\ \A j \in Nodes \ {p.conns[fd].remote} : p.byRemote[j] # fd
BY Numbers DEF Good, LiveIsReal, FoundByRemote

(* Two states of a node that differ at one fd. *)
Elsewhere(fd, p, h, r, q, k, u) ==
  \A g \in Fds \ {fd} : q.conns[g] = p.conns[g] /\ k[g] = h[g] /\ u[g] = r[g]

(* A live slot for remote m gets another content: data, or a caller it is    *)
(* given to.                                                                 *)
Refilled(fd, m, p, h, r, q, k, u) ==
  /\ fd \in Fds /\ Live(p, fd) /\ p.conns[fd].remote = m
  /\ Elsewhere(fd, p, h, r, q, k, u) /\ q.byRemote = p.byRemote
  /\ Live(q, fd) /\ q.conns[fd].remote = m
  /\ q.conns[fd].id \in Ids /\ q.conns[fd].queue \in Seq(Message)
  /\ u[fd] \in {"idle", "busy"} /\ (u[fd] = "busy" => k[fd] # NoId)

LEMMA SlotViews ==
  ASSUME NEW n, NEW p, NEW h, NEW r, Good(p, h), Facing(n, p, h, r),
         NEW fd, NEW m, NEW q, NEW k, NEW u, Refilled(fd, m, p, h, r, q, k, u)
  PROVE  LET c == q.conns[fd]
             v == View(q, k, u, m)
         IN  /\ Facing(n, q, k, u)
             /\ v \in Ends /\ v.id = c.id /\ v.queue = c.queue /\ v.rpc = u[fd]
             /\ v.stage = IF k[fd] # NoId THEN "given"
                          ELSE IF c.accepted THEN "asked" ELSE "waits"
             /\ \A y \in Nodes \ {m} : View(q, k, u, y) = View(p, h, r, y)
<1> DEFINE c == q.conns[fd]
           v == View(q, k, u, m)
<1>0. /\ fd \in Fds /\ Live(p, fd) /\ p.conns[fd].remote = m
      /\ Elsewhere(fd, p, h, r, q, k, u) /\ q.byRemote = p.byRemote
      /\ Live(q, fd) /\ c.remote = m /\ c.id \in Ids /\ c.queue \in Seq(Message)
      /\ u[fd] \in {"idle", "busy"} /\ (u[fd] = "busy" => k[fd] # NoId)
  BY DEF Refilled
<1>1. /\ m \in Nodes /\ p.byRemote[m] = fd /\ fd # NoFd
      /\ \A y \in Nodes \ {m} : p.byRemote[y] # fd
  BY <1>0, OneRemote
<1>2. Facing(n, q, k, u)
  BY <1>0 DEF Facing, Live, Elsewhere
<1>3. \A y \in Nodes \ {m} : View(q, k, u, y) = View(p, h, r, y)
  <2> TAKE y \in Nodes \ {m}
  <2>1. p.byRemote[y] # NoFd => p.byRemote[y] \in Fds \ {fd}
    BY <1>0, <1>1, FoundIsLive
  <2> QED
    BY <1>0, <2>1 DEF View, Elsewhere
<1>4. v = [id |-> c.id, queue |-> c.queue,
           stage |-> IF k[fd] # NoId THEN "given" ELSE IF c.accepted THEN "asked" ELSE "waits",
           rpc |-> u[fd]]
  BY <1>0, <1>1 DEF View
<1> HIDE DEF v
<1>5. v.id = c.id /\ v.queue = c.queue /\ v.rpc = u[fd] /\ v \in Ends
  BY <1>0, <1>4 DEF Ends
<1>6. v.stage = IF k[fd] # NoId THEN "given" ELSE IF c.accepted THEN "asked" ELSE "waits"
  BY <1>4
<1> QED
  BY <1>2, <1>3, <1>5, <1>6 DEF v

LEMMA TombstoneEmpties ==
  ASSUME NEW p \in Manager, NEW fd \in Fds, Live(p, fd)
  PROVE  Tombstone(p, fd).conns[fd].state = "dead" /\ Tombstone(p, fd).conns[fd].queue = <<>>
<1> DEFINE c == [p.conns[fd] EXCEPT !.state = "dead", !.queue = <<>>, !.wake = FALSE, !.accepted = FALSE]
<1>1. p.conns \in [Fds -> Conn] /\ p.conns[fd] \in Conn
  BY ManagerFields
<1>2. Tombstone(p, fd).conns = [p.conns EXCEPT ![fd] = c]
  BY DEF Tombstone, Manager
<1>3. c.state = "dead" /\ c.queue = <<>>
  BY <1>1 DEF Conn
<1> HIDE DEF c
<1> QED
  BY <1>1, <1>2, <1>3

(* A live slot becomes a tombstone, or is released. *)
LEMMA GoneViews ==
  ASSUME NEW n, NEW p, NEW h, NEW r, Good(p, h), Facing(n, p, h, r),
         NEW fd \in Fds, Live(p, fd), NEW q, NEW k, NEW u,
         Elsewhere(fd, p, h, r, q, k, u),
         \A y \in Nodes : q.byRemote[y] = IF y = p.conns[fd].remote /\ p.byRemote[y] = fd THEN NoFd
                                          ELSE p.byRemote[y],
         ~Live(q, fd), q.conns[fd].queue = <<>>, u[fd] = "busy" => k[fd] # NoId
  PROVE  /\ Facing(n, q, k, u)
         /\ View(q, k, u, p.conns[fd].remote) = None
         /\ \A y \in Nodes \ {p.conns[fd].remote} : View(q, k, u, y) = View(p, h, r, y)
<1> DEFINE m == p.conns[fd].remote
<1>1. /\ m \in Nodes /\ p.byRemote[m] = fd /\ fd # NoFd
      /\ \A y \in Nodes \ {m} : p.byRemote[y] # fd
  BY OneRemote
<1>2. Facing(n, q, k, u)
  BY DEF Facing, Live, Elsewhere
<1>3. View(q, k, u, m) = None
  BY <1>1 DEF View
<1>4. \A y \in Nodes \ {m} : View(q, k, u, y) = View(p, h, r, y)
  <2> TAKE y \in Nodes \ {m}
  <2>1. q.byRemote[y] = p.byRemote[y]
    OBVIOUS
  <2> HIDE DEF m
  <2>2. p.byRemote[y] # NoFd => p.byRemote[y] \in Fds \ {fd}
    BY <1>1, FoundIsLive
  <2> QED
    BY <2>1, <2>2 DEF View, Elsewhere
<1> QED
  BY <1>2, <1>3, <1>4

(* A tombstone's number is released. *)
LEMMA ReleasedViews ==
  ASSUME NEW n, NEW p, NEW h, NEW r, Good(p, h), Facing(n, p, h, r),
         NEW fd \in Fds, ~Live(p, fd), NEW q, NEW k, NEW u,
         Elsewhere(fd, p, h, r, q, k, u), q.byRemote = p.byRemote,
         ~Live(q, fd), q.conns[fd].queue = <<>>, u[fd] = "busy" => k[fd] # NoId
  PROVE  Facing(n, q, k, u) /\ \A y \in Nodes : View(q, k, u, y) = View(p, h, r, y)
<1>1. Facing(n, q, k, u)
  BY DEF Facing, Live, Elsewhere
<1>2. ASSUME NEW y \in Nodes PROVE View(q, k, u, y) = View(p, h, r, y)
  <2>1. p.byRemote[y] # NoFd => p.byRemote[y] \in Fds /\ Live(p, p.byRemote[y])
    BY FoundIsLive
  <2> QED
    BY <2>1 DEF View, Elsewhere
<1> QED
  BY <1>1, <1>2

(* The new connection to m is what m finds; the previous one is a tombstone. *)
LEMMA CreatedSlots ==
  ASSUME NEW p, NEW h, Good(p, h), NEW fd \in Fds, p.conns[fd].state = "free",
         NEW m \in Nodes, NEW id \in Ids
  PROVE  LET x == CreateConn(p, fd, m, id)
         IN  /\ x.conns[fd].state = "live" /\ x.conns[fd].remote = m /\ x.conns[fd].id = id
             /\ x.conns[fd].queue = <<>>
             /\ x.byRemote[m] = fd
             /\ \A j \in Nodes \ {m} : x.byRemote[j] = p.byRemote[j]
             /\ \A g \in Fds \ {fd} : \/ x.conns[g] = p.conns[g]
                                      \/ /\ g = p.byRemote[m] /\ x.conns[g].state = "dead"
                                         /\ x.conns[g].queue = <<>>
<1> DEFINE x == CreateConn(p, fd, m, id)
           previous == p.byRemote[m]
           t == IF previous = NoFd THEN p ELSE Tombstone(p, previous)
           c == [state |-> "live", remote |-> m, id |-> id, queue |-> <<>>,
                 wake |-> FALSE, accepted |-> FALSE]
<1>0. c.state = "live" /\ c.remote = m /\ c.id = id /\ c.queue = <<>>
  OBVIOUS
<1>1. p \in Manager /\ p.conns \in [Fds -> Conn] /\ p.byRemote \in [Nodes -> Fds \cup {NoFd}]
  BY ManagerFields DEF Good, Typed
<1>2. Distinct(p.readyFds)
  BY DEF Good, QueuesWaiting
<1>3. /\ t \in Manager
      /\ \A j \in Nodes \ {m} : t.byRemote[j] = p.byRemote[j]
      /\ \A g \in Fds : \/ t.conns[g] = p.conns[g]
                        \/ g = previous /\ t.conns[g].state = "dead" /\ t.conns[g].queue = <<>>
  <2>1. CASE previous = NoFd
    BY <1>1, <2>1
  <2>2. CASE previous # NoFd
    <3>1. previous \in Fds /\ Live(p, previous) /\ p.conns[previous].remote = m
      BY <2>2, FoundIsLive
    <3>2. t = Tombstone(p, previous)
      BY <2>2
    <3> HIDE DEF t, previous
    <3>3. /\ t \in Manager
          /\ \A g \in Fds \ {previous} : t.conns[g] = p.conns[g]
          /\ t.conns[previous].state = "dead"
          /\ \A j \in Nodes : t.byRemote[j] = IF j = m /\ p.byRemote[j] = previous THEN NoFd
                                              ELSE p.byRemote[j]
      BY <1>1, <1>2, <3>1, <3>2, TombstoneIs
    <3>4. t.conns[previous].queue = <<>>
      BY <1>1, <3>1, <3>2, TombstoneEmpties
    <3> QED
      BY <3>3, <3>4
  <2> QED
    BY <2>1, <2>2
<1>4. x = [t EXCEPT !.conns = [@ EXCEPT ![fd] = c], !.byRemote = [@ EXCEPT ![m] = fd],
                    !.nextFd = (fd + 1) % FdMax]
  BY DEF CreateConn
<1>5. t.conns \in [Fds -> Conn] /\ t.byRemote \in [Nodes -> Fds \cup {NoFd}]
  BY <1>3, ManagerFields
<1> HIDE DEF x, c, t, previous
<1>6. x.conns = [t.conns EXCEPT ![fd] = c] /\ x.byRemote = [t.byRemote EXCEPT ![m] = fd]
  BY <1>3, <1>4 DEF Manager
<1>7. /\ x.conns[fd] = c /\ \A g \in Fds \ {fd} : x.conns[g] = t.conns[g]
      /\ x.byRemote[m] = fd /\ \A j \in Nodes \ {m} : x.byRemote[j] = t.byRemote[j]
  BY <1>5, <1>6
<1> QED
  BY <1>0, <1>3, <1>7 DEF x, previous

(* q is a manager that has created a connection to m at fd, and perhaps given it. *)
Created(p, h, fd, m, id, q, k) ==
  /\ q.byRemote = CreateConn(p, fd, m, id).byRemote
  /\ \A g \in Fds \ {fd} : q.conns[g] = CreateConn(p, fd, m, id).conns[g]
  /\ Live(q, fd) /\ q.conns[fd].remote = m /\ q.conns[fd].id = id /\ q.conns[fd].queue = <<>>
  /\ k \in {h, [h EXCEPT ![fd] = id]}

LEMMA NewViews ==
  ASSUME NEW n, NEW p, NEW h, NEW r \in Turns, Good(p, h), Facing(n, p, h, r),
         NEW fd \in Fds, p.conns[fd].state = "free", NEW m \in Nodes, NEW id \in Ids, Opposite(n, m),
         NEW q, NEW k, Created(p, h, fd, m, id, q, k)
  PROVE  LET v == View(q, k, r, m)
             c == q.conns[fd]
         IN  /\ Facing(n, q, k, r)
             /\ v \in Ends /\ v.id = id /\ v.queue = <<>> /\ v.rpc = "idle"
             /\ v.stage = IF k[fd] # NoId THEN "given" ELSE IF c.accepted THEN "asked" ELSE "waits"
             /\ \A j \in Nodes \ {m} : View(q, k, r, j) = View(p, h, r, j)
<1> DEFINE c == q.conns[fd]
<1>1. /\ q.byRemote[m] = fd /\ fd # NoFd
      /\ \A j \in Nodes \ {m} : q.byRemote[j] = p.byRemote[j]
      /\ \A g \in Fds \ {fd} : \/ q.conns[g] = p.conns[g]
                               \/ /\ g = p.byRemote[m] /\ q.conns[g].state = "dead"
                                  /\ q.conns[g].queue = <<>>
  <2> DEFINE x == CreateConn(p, fd, m, id)
  <2>1. /\ x.byRemote[m] = fd
        /\ \A j \in Nodes \ {m} : x.byRemote[j] = p.byRemote[j]
        /\ \A g \in Fds \ {fd} : \/ x.conns[g] = p.conns[g]
                                 \/ /\ g = p.byRemote[m] /\ x.conns[g].state = "dead"
                                    /\ x.conns[g].queue = <<>>
    BY CreatedSlots
  <2> HIDE DEF x
  <2> QED
    BY <2>1, Numbers DEF x, Created
<1>2. h \in [Fds -> Ids \cup {NoId}] /\ h[fd] = NoId
  BY DEF Good, Typed, KeepsHeld
<1>3. /\ \A g \in Fds \ {fd} : k[g] = h[g]
  BY <1>2 DEF Created
<1>4. r[fd] = "idle"
  BY <1>2 DEF Facing, Turns
<1>5. Facing(n, q, k, r)
  BY <1>1, <1>3, <1>4 DEF Facing, Live, Created
<1>6. ASSUME NEW j \in Nodes \ {m} PROVE View(q, k, r, j) = View(p, h, r, j)
  <2>1. p.byRemote[j] # NoFd => /\ p.byRemote[j] \in Fds /\ Live(p, p.byRemote[j])
                                /\ p.conns[p.byRemote[j]].remote = j
    BY FoundIsLive
  <2>2. p.byRemote[m] # NoFd => p.conns[p.byRemote[m]].remote = m
    BY FoundIsLive
  <2>3. p.byRemote[j] # NoFd => p.byRemote[j] # fd /\ p.byRemote[j] # p.byRemote[m]
    BY <2>1, <2>2 DEF Live
  <2>4. p.byRemote[j] # NoFd => q.conns[p.byRemote[j]] = p.conns[p.byRemote[j]]
    BY <1>1, <2>1, <2>3
  <2> QED
    BY <1>1, <1>3, <2>1, <2>3, <2>4 DEF View
<1>7. View(q, k, r, m) =
        [id |-> id, queue |-> <<>>,
         stage |-> IF k[fd] # NoId THEN "given" ELSE IF c.accepted THEN "asked" ELSE "waits",
         rpc |-> "idle"]
  BY <1>1, <1>4 DEF View, Created
<1> DEFINE v == View(q, k, r, m)
<1>8. v.id = id /\ v.queue = <<>> /\ v.rpc = "idle"
  BY <1>7
<1>10. v \in Ends
  <2>1. <<>> \in Seq(Message)
    OBVIOUS
  <2> QED
    BY <1>7, <2>1 DEF Ends
<1>9. v.stage = IF k[fd] # NoId THEN "given" ELSE IF c.accepted THEN "asked" ELSE "waits"
  BY <1>7
<1> HIDE DEF v
<1> QED
  BY <1>5, <1>6, <1>8, <1>9, <1>10 DEF v

(* close() leaves tombstones. *)
LEMMA ClosedFacing ==
  ASSUME NEW n, NEW p, NEW h, NEW r \in Turns, Good(p, h), Facing(n, p, h, r),
         NEW q, q.conns = [fd \in Fds |-> Tombstone(p, fd).conns[fd]]
  PROVE  Facing(n, q, h, r)
<1> SUFFICES ASSUME NEW fd \in Fds PROVE ~Live(q, fd) /\ q.conns[fd].queue = <<>>
  BY DEF Facing
<1>1. q.conns[fd] = Tombstone(p, fd).conns[fd]
  OBVIOUS
<1>2. CASE Live(p, fd)
  BY <1>1, <1>2, TombstoneEmpties DEF Good, Typed, Live
<1>3. CASE ~Live(p, fd)
  BY <1>1, <1>3 DEF Tombstone, Facing, Live
<1> QED
  BY <1>2, <1>3
-----------------------------------------------------------------------------
(* What a step of one manager has to show.                                   *)

LEMMA Known ==
  ASSUME IInv, Roles, NEW n \in Nodes
  PROVE  /\ Good(pm[n], held[n]) /\ rpc[n] \in Turns /\ pm[n] \in Manager
         /\ held[n] \in [Fds -> Ids \cup {NoId}]
         /\ Facing(n, pm[n], held[n], rpc[n])
         /\ \A m \in Nodes : bus[n][m] \in Seq(Frame) /\ Side(n, m) \in Ends
<1>1. /\ Good(pm[n], held[n]) /\ rpc[n] \in Turns /\ Facing(n, pm[n], held[n], rpc[n])
      /\ \A m \in Nodes : bus[n][m] \in Seq(Frame)
  BY DEF IInv, TypeOK, Turns, Roles
<1>2. pm[n] \in Manager /\ held[n] \in [Fds -> Ids \cup {NoId}]
  BY <1>1 DEF Good, Typed
<1>3. \A m \in Nodes : Side(n, m) \in Ends
  BY <1>1, ViewTyped DEF Side
<1> QED
  BY <1>1, <1>2, <1>3

LEMMA BusIs == IInv => bus \in [Nodes -> [Nodes -> Seq(Frame)]]
BY DEF IInv, TypeOK

(* The frames of two nodes that face each other. *)
Between(n, m) ==
  \A x, y \in Nodes :
    \/ x = n /\ y = m
    \/ x = m /\ y = n
    \/ bus'[x][y] = bus[x][y]

Moves(n, q, k, u) ==
  /\ pm' = [pm EXCEPT ![n] = q] /\ held' = [held EXCEPT ![n] = k] /\ rpc' = [rpc EXCEPT ![n] = u]
  /\ UNCHANGED resets

LEMMA Ended ==
  ASSUME IInv, NEW n \in Nodes, NEW q, NEW k, NEW u, Moves(n, q, k, u)
  PROVE  /\ pm'[n] = q /\ held'[n] = k /\ rpc'[n] = u
         /\ \A x \in Nodes \ {n} : pm'[x] = pm[x] /\ held'[x] = held[x] /\ rpc'[x] = rpc[x]
         /\ \A x \in Nodes \ {n}, y \in Nodes : Side(x, y)' = Side(x, y)
         /\ \A y \in Nodes : Side(n, y)' = View(q, k, u, y)
<1>1. /\ pm \in [Nodes -> Manager] /\ held \in [Nodes -> [Fds -> Ids \cup {NoId}]]
      /\ rpc \in [Nodes -> [Fds -> {"idle", "busy"}]]
  BY DEF IInv, TypeOK
<1>2. /\ pm'[n] = q /\ held'[n] = k /\ rpc'[n] = u
      /\ \A x \in Nodes \ {n} : pm'[x] = pm[x] /\ held'[x] = held[x] /\ rpc'[x] = rpc[x]
  BY <1>1 DEF Moves
<1> QED
  BY <1>2 DEF Side

LEMMA FacingKept ==
  ASSUME IInv, Roles, NEW n \in Nodes, NEW q, NEW k, NEW u, Moves(n, q, k, u), Facing(n, q, k, u)
  PROVE  (\A x \in Nodes : Facing(x, pm[x], held[x], rpc[x]))'
<1> SUFFICES ASSUME NEW x \in Nodes PROVE Facing(x, pm'[x], held'[x], rpc'[x])
  OBVIOUS
<1> QED
  BY Ended DEF Roles

(* A step of n that concerns m alone, where InStep is kept. *)
LEMMA TwoNodes ==
  ASSUME IInv, Roles, Streams, NEW n \in Nodes, NEW m \in Nodes, NEW q, NEW k, NEW u,
         Moves(n, q, k, u), Facing(n, q, k, u), Opposite(n, m), Between(n, m),
         \A y \in Nodes \ {m} : View(q, k, u, y) = View(pm[n], held[n], rpc[n], y),
         resets = 0 /\ n \in Clients =>
           InStep(View(q, k, u, m), Side(m, n), bus'[n][m], bus'[m][n]),
         resets = 0 /\ n \in Servers =>
           InStep(Side(m, n), View(q, k, u, m), bus'[m][n], bus'[n][m])
  PROVE  Roles' /\ Streams'
<1>1. Roles'
  <2>1. \A x, y \in Nodes : Opposite(x, y) \/ bus'[x][y] = <<>>
    BY DEF Roles, Opposite, Between
  <2>2. (\A x, y \in Nodes : Opposite(x, y) \/ bus[x][y] = <<>>)'
    BY <2>1 DEF Opposite
  <2> QED
    BY <2>2, FacingKept DEF Roles
<1>2. Streams'
  <2> SUFFICES ASSUME resets = 0, NEW c \in Clients, NEW s \in Servers
               PROVE  InStep(Side(c, s)', Side(s, c)', bus'[c][s], bus'[s][c])
    BY DEF Streams, Moves
  <2>1. c \in Nodes /\ s \in Nodes /\ c # s /\ c \notin Servers /\ s \notin Clients
    BY NodeAssumption DEF Nodes
  <2>2. InStep(Side(c, s), Side(s, c), bus[c][s], bus[s][c])
    BY DEF Streams
  <2>3. CASE c = n /\ s = m
    <3>1. Side(c, s)' = View(q, k, u, m) /\ Side(s, c)' = Side(m, n)
      BY <2>1, <2>3, Ended
    <3> QED
      BY <2>3, <3>1
  <2>4. CASE s = n /\ c = m
    <3>1. Side(s, c)' = View(q, k, u, m) /\ Side(c, s)' = Side(m, n)
      BY <2>1, <2>4, Ended
    <3> QED
      BY <2>4, <3>1
  <2>5. CASE ~(c = n /\ s = m) /\ ~(s = n /\ c = m)
    <3>1. bus'[c][s] = bus[c][s] /\ bus'[s][c] = bus[s][c]
      BY <2>1, <2>5 DEF Between
    <3>2. Side(c, s)' = Side(c, s) /\ Side(s, c)' = Side(s, c)
      BY <2>1, <2>5, Ended DEF Side
    <3> QED
      BY <2>2, <3>1, <3>2
  <2> QED
    BY <2>3, <2>4, <2>5
<1> QED
  BY <1>1, <1>2

(* A step that no other node can see. *)
LEMMA NothingSeen ==
  ASSUME IInv, Roles, Streams, NEW n \in Nodes, NEW q, NEW k, NEW u,
         Moves(n, q, k, u), Facing(n, q, k, u), UNCHANGED bus,
         \A y \in Nodes : View(q, k, u, y) = View(pm[n], held[n], rpc[n], y)
  PROVE  Roles' /\ Streams'
<1>1. Roles'
  BY FacingKept DEF Roles, Opposite
<1>2. \A x, y \in Nodes : Side(x, y)' = Side(x, y)
  BY Ended DEF Side
<1>3. Streams'
  BY <1>2 DEF Streams, Moves, Nodes
<1> QED
  BY <1>1, <1>3
-----------------------------------------------------------------------------
(* Calls of the Runtime.                                                     *)

(* A live slot is what its remote finds, and the two face each other. *)
LEMMA LiveEnd ==
  ASSUME IInv, Roles, NEW n \in Nodes, NEW fd \in Fds, Live(pm[n], fd)
  PROVE  LET m == pm[n].conns[fd].remote
             v == Side(n, m)
         IN  /\ m \in Nodes /\ Opposite(n, m) /\ pm[n].byRemote[m] = fd
             /\ n \in Clients => m \in Servers
             /\ n \notin Clients => n \in Servers /\ m \in Clients
             /\ v.id = pm[n].conns[fd].id /\ v.queue = pm[n].conns[fd].queue
             /\ v.rpc = rpc[n][fd]
             /\ v.stage = IF held[n][fd] # NoId THEN "given"
                          ELSE IF pm[n].conns[fd].accepted THEN "asked" ELSE "waits"
             /\ pm[n].conns[fd].id \in Ids /\ pm[n].conns[fd].queue \in Seq(Message)
             /\ pm[n].conns[fd] \in Conn
<1> DEFINE m == pm[n].conns[fd].remote
           v == Side(n, m)
<1>1. /\ Good(pm[n], held[n]) /\ pm[n] \in Manager /\ Facing(n, pm[n], held[n], rpc[n])
  BY Known
<1>2. m \in Nodes /\ pm[n].byRemote[m] = fd /\ fd # NoFd
  BY <1>1, OneRemote
<1>3. pm[n].conns[fd] \in Conn /\ pm[n].conns[fd].id \in Ids
  BY <1>1, ManagerFields DEF Good, LiveIsReal
<1>4. pm[n].conns[fd].queue \in Seq(Message)
  BY <1>3, ConnFields DEF Message
<1>5. Opposite(n, m)
  BY <1>1 DEF Facing
<1>6. /\ n \in Clients => m \in Servers
      /\ n \notin Clients => n \in Servers /\ m \in Clients
  BY <1>2, <1>5 DEF Opposite, Nodes
<1>7. v = [id |-> pm[n].conns[fd].id, queue |-> pm[n].conns[fd].queue,
           stage |-> IF held[n][fd] # NoId THEN "given"
                     ELSE IF pm[n].conns[fd].accepted THEN "asked" ELSE "waits",
           rpc |-> rpc[n][fd]]
  BY <1>2 DEF Side, View
<1>8. v.id = pm[n].conns[fd].id /\ v.queue = pm[n].conns[fd].queue /\ v.rpc = rpc[n][fd]
  BY <1>7
<1>9. v.stage = IF held[n][fd] # NoId THEN "given"
                ELSE IF pm[n].conns[fd].accepted THEN "asked" ELSE "waits"
  BY <1>7
<1> HIDE DEF v, m
<1> QED
  BY <1>2, <1>3, <1>4, <1>5, <1>6, <1>8, <1>9 DEF v, m

LEMMA SendStreams ==
  ASSUME IInv, Roles, Streams, NEW n \in Nodes, NEW fd \in Fds, Send(n, fd)
  PROVE  Roles' /\ Streams'
<1> DEFINE p == pm[n]
           c == p.conns[fd]
           m == c.remote
<1>1. /\ Good(p, held[n]) /\ rpc[n] \in Turns /\ Facing(n, p, held[n], rpc[n]) /\ p \in Manager
      /\ held[n] \in [Fds -> Ids \cup {NoId}] /\ Live(p, fd) /\ held[n][fd] # NoId
  BY Known DEF Send
<1>2. /\ m \in Nodes /\ Opposite(n, m) /\ (n \in Clients => m \in Servers)
      /\ n \notin Clients => n \in Servers /\ m \in Clients
      /\ Side(n, m).id = c.id /\ Side(n, m).queue = c.queue /\ Side(n, m).rpc = rpc[n][fd]
      /\ Side(n, m).stage = "given"
      /\ c.id \in Ids /\ c.queue \in Seq(Message)
  BY <1>1, LiveEnd
<1>3. PICK kind \in Commands :
        /\ IF n \in Clients THEN rpc[n][fd] = "idle" /\ kind # "response"
                            ELSE rpc[n][fd] = "busy" /\ kind = "response"
        /\ bus' = [bus EXCEPT ![n][m] = Append(@, [kind |-> kind, id |-> c.id])]
        /\ rpc' = [rpc EXCEPT ![n][fd] = AfterRead(kind)]
  BY DEF Send, Post
<1> DEFINE e == [kind |-> kind, id |-> c.id]
           t == AfterRead(kind)
           u == [rpc[n] EXCEPT ![fd] = t]
           v == View(p, held[n], u, m)
<1>4. e \in Frame /\ e.kind = kind /\ e.id = c.id /\ t \in {"idle", "busy"}
  BY <1>2 DEF Frame, AfterRead, Commands
<1>5. /\ Facing(n, p, held[n], u)
      /\ v \in Ends /\ v.id = c.id /\ v.queue = c.queue /\ v.rpc = t /\ v.stage = "given"
      /\ \A y \in Nodes \ {m} : View(p, held[n], u, y) = View(p, held[n], rpc[n], y)
  <2>1. u[fd] = t /\ \A g \in Fds \ {fd} : u[g] = rpc[n][g]
    BY <1>1 DEF Turns
  <2>3. Elsewhere(fd, p, held[n], rpc[n], p, held[n], u)
    BY <2>1 DEF Elsewhere
  <2>4. Refilled(fd, m, p, held[n], rpc[n], p, held[n], u)
    BY <1>1, <1>2, <1>4, <2>1, <2>3 DEF Refilled
  <2> HIDE DEF p, t, u, v, m
  <2>2. /\ Facing(n, p, held[n], u)
        /\ v \in Ends /\ v.id = c.id /\ v.queue = c.queue /\ v.rpc = u[fd]
        /\ v.stage = IF held[n][fd] # NoId THEN "given"
                     ELSE IF c.accepted THEN "asked" ELSE "waits"
        /\ \A y \in Nodes \ {m} : View(p, held[n], u, y) = View(p, held[n], rpc[n], y)
    BY <1>1, <2>4, SlotViews DEF v
  <2> QED
    BY <1>1, <2>1, <2>2
<1>6. Moves(n, p, held[n], u)
  BY <1>3, IInv DEF Moves, Send, IInv, TypeOK
<1>7. /\ bus'[n][m] = Append(bus[n][m], e) /\ Between(n, m) /\ bus'[m][n] = bus[m][n]
  <2>1. n # m
    BY <1>2 DEF Opposite
  <2>2. bus' = [bus EXCEPT ![n][m] = Append(bus[n][m], e)]
    BY <1>3
  <2> HIDE DEF m, e
  <2>3. bus'[n][m] = Append(bus[n][m], e)
    BY <1>2, <2>2, BusIs
  <2>4. \A x, y \in Nodes : (x = n /\ y = m) \/ bus'[x][y] = bus[x][y]
    BY <1>2, <2>2, BusIs
  <2> QED
    BY <1>2, <2>1, <2>3, <2>4 DEF Between
<1>8. bus[n][m] \in Seq(Frame) /\ bus[m][n] \in Seq(Frame) /\ Side(n, m) \in Ends /\ Side(m, n) \in Ends
  BY <1>2, Known
<1>9. ASSUME resets = 0, n \in Clients
      PROVE  InStep(v, Side(m, n), bus'[n][m], bus'[m][n])
  <2>1. InStep(Side(n, m), Side(m, n), bus[n][m], bus[m][n])
    BY <1>2, <1>9 DEF Streams
  <2>2. rpc[n][fd] = "idle" /\ e.kind \in {"request", "oneway"}
    BY <1>3, <1>4, <1>9 DEF Commands
  <2> HIDE DEF e, v, u, m, c, t
  <2>3. t = AfterRead(e.kind)
    BY <1>4 DEF t
  <2> QED
    BY <1>2, <1>4, <1>5, <1>7, <1>8, <2>1, <2>2, <2>3, ClientSends
<1>10. ASSUME resets = 0, n \in Servers
       PROVE  InStep(Side(m, n), v, bus'[m][n], bus'[n][m])
  <2>0. n \notin Clients
    BY <1>10, NodeAssumption
  <2>1. InStep(Side(m, n), Side(n, m), bus[m][n], bus[n][m])
    BY <1>2, <1>10, <2>0 DEF Streams
  <2>2. rpc[n][fd] = "busy" /\ e.kind = "response" /\ t = "idle"
    BY <1>3, <1>4, <2>0 DEF AfterRead
  <2> HIDE DEF e, v, u, m, c, t
  <2> QED
    BY <1>2, <1>4, <1>5, <1>7, <1>8, <2>1, <2>2, ServerAnswers
<1> HIDE DEF e, t, u, v, m, c, p
<1> QED
  BY <1>2, <1>5, <1>6, <1>7, <1>9, <1>10, TwoNodes DEF p, v

(* InStep of a node with the remote it talks to. *)
LEMMA PairInStep ==
  ASSUME Streams, resets = 0
  PROVE  \A c \in Clients, s \in Servers : InStep(Side(c, s), Side(s, c), bus[c][s], bus[s][c])
BY DEF Streams

LEMMA RecvStreams ==
  ASSUME IInv, Roles, Streams, NEW n \in Nodes, NEW fd \in Fds, Recv(n, fd)
  PROVE  Roles' /\ Streams'
<1> DEFINE p == pm[n]
           c == p.conns[fd]
           m == c.remote
<1>1. /\ Good(p, held[n]) /\ rpc[n] \in Turns /\ Facing(n, p, held[n], rpc[n]) /\ p \in Manager
      /\ held[n] \in [Fds -> Ids \cup {NoId}] /\ Live(p, fd) /\ held[n][fd] # NoId
      /\ p.conns \in [Fds -> Conn]
  BY Known, ManagerFields DEF Recv
<1>2. /\ m \in Nodes /\ Opposite(n, m) /\ (n \in Clients => m \in Servers)
      /\ n \notin Clients => n \in Servers /\ m \in Clients
      /\ Side(n, m).id = c.id /\ Side(n, m).queue = c.queue /\ Side(n, m).rpc = rpc[n][fd]
      /\ Side(n, m).stage = "given"
      /\ c.id \in Ids /\ c.queue \in Seq(Message) /\ c \in Conn
  BY <1>1, LiveEnd
<1>3. UNCHANGED <<bus, held, resets>>
  BY DEF Recv
<1>4. CASE /\ c.queue # <<>>
           /\ pm' = [pm EXCEPT ![n].conns[fd].queue = Tail(@)]
           /\ rpc' = [rpc EXCEPT ![n][fd] = AfterRead(Head(c.queue).kind)]
  <2> DEFINE d == [c EXCEPT !.queue = Tail(@)]
             q == [p EXCEPT !.conns[fd] = d]
             t == AfterRead(Head(c.queue).kind)
             u == [rpc[n] EXCEPT ![fd] = t]
             v == View(q, held[n], u, m)
  <2>1. Len(c.queue) > 0 /\ Tail(c.queue) \in Seq(Message)
    BY <1>2, <1>4
  <2>2. d.state = "live" /\ d.remote = m /\ d.id = c.id /\ d.queue = Tail(c.queue)
    BY <1>1, <1>2 DEF Conn, Live
  <2>3. q.conns = [p.conns EXCEPT ![fd] = d] /\ q.byRemote = p.byRemote
    BY <1>1 DEF Manager
  <2>4. Moves(n, q, held[n], u)
    BY <1>3, <1>4 DEF Moves, IInv, TypeOK
  <2>5. t \in {"idle", "busy"}
    BY DEF AfterRead
  <2> HIDE DEF d, q, t
  <2>6. u[fd] = t /\ \A g \in Fds \ {fd} : u[g] = rpc[n][g]
    BY <1>1 DEF Turns
  <2>7. q.conns[fd] = d /\ Elsewhere(fd, p, held[n], rpc[n], q, held[n], u) /\ Live(q, fd)
    BY <1>1, <2>2, <2>3, <2>6 DEF Elsewhere, Live
  <2>0. /\ q.conns[fd].remote = p.conns[fd].remote /\ q.conns[fd].id \in Ids
        /\ q.conns[fd].queue \in Seq(Message) /\ u[fd] \in {"idle", "busy"}
    BY <1>2, <2>1, <2>2, <2>5, <2>6, <2>7
  <2>14. Refilled(fd, m, p, held[n], rpc[n], q, held[n], u)
    BY <1>1, <2>0, <2>3, <2>7 DEF Refilled
  <2> HIDE DEF u, v, p, m
  <2>8. /\ Facing(n, q, held[n], u)
        /\ v \in Ends /\ v.id = q.conns[fd].id /\ v.queue = q.conns[fd].queue /\ v.rpc = u[fd]
        /\ v.stage = IF held[n][fd] # NoId THEN "given"
                     ELSE IF q.conns[fd].accepted THEN "asked" ELSE "waits"
        /\ \A y \in Nodes \ {m} : View(q, held[n], u, y) = View(p, held[n], rpc[n], y)
    BY <1>1, <2>14, SlotViews DEF v
  <2>9. /\ v.id = c.id /\ v.queue = Tail(c.queue) /\ v.stage = "given"
        /\ v.rpc = AfterRead(Head(c.queue).kind)
    BY <1>1, <2>2, <2>6, <2>7, <2>8 DEF t
  <2>10. /\ bus[n][m] \in Seq(Frame) /\ bus[m][n] \in Seq(Frame)
         /\ Side(n, m) \in Ends /\ Side(m, n) \in Ends
    BY <1>2, Known
  <2> HIDE DEF c
  <2>11. ASSUME resets = 0, n \in Clients
         PROVE  InStep(v, Side(m, n), bus'[n][m], bus'[m][n])
    <3>1. InStep(Side(n, m), Side(m, n), bus[n][m], bus[m][n])
      BY <1>2, <2>11, PairInStep
    <3> QED
      BY <1>2, <1>3, <2>1, <2>8, <2>9, <2>10, <3>1, ClientReads
  <2>12. ASSUME resets = 0, n \in Servers
         PROVE  InStep(Side(m, n), v, bus'[m][n], bus'[n][m])
    <3>1. InStep(Side(m, n), Side(n, m), bus[m][n], bus[n][m])
      BY <1>2, <2>12, PairInStep, NodeAssumption
    <3> QED
      BY <1>2, <1>3, <2>1, <2>8, <2>9, <2>10, <3>1, ServerReads
  <2>13. Between(n, m)
    BY <1>3 DEF Between
  <2> QED
    BY <1>2, <2>4, <2>8, <2>11, <2>12, <2>13, TwoNodes DEF v, p
<1>5. CASE /\ c.queue = <<>>
           /\ pm' = [pm EXCEPT ![n].conns[fd].wake = TRUE]
           /\ UNCHANGED rpc
  <2> DEFINE d == [c EXCEPT !.wake = TRUE]
             q == [p EXCEPT !.conns[fd] = d]
  <2>1. /\ d.state = c.state /\ d.remote = c.remote /\ d.id = c.id /\ d.queue = c.queue
        /\ d.accepted = c.accepted
    BY <1>2 DEF Conn
  <2>2. q.conns = [p.conns EXCEPT ![fd] = d] /\ q.byRemote = p.byRemote
    BY <1>1 DEF Manager
  <2>3. Moves(n, q, held[n], rpc[n])
    BY <1>3, <1>5 DEF Moves, IInv, TypeOK
  <2> HIDE DEF d, q
  <2>4. q.conns[fd] = d /\ \A g \in Fds \ {fd} : q.conns[g] = p.conns[g]
    BY <1>1, <2>2
  <2>5. Facing(n, q, held[n], rpc[n])
    BY <1>1, <2>1, <2>4 DEF Facing, Live
  <2>6. \A y \in Nodes : View(q, held[n], rpc[n], y) = View(p, held[n], rpc[n], y)
    <3> TAKE y \in Nodes
    <3>1. p.byRemote[y] # NoFd => p.byRemote[y] \in Fds
      BY <1>1, FoundIsLive
    <3> QED
      BY <2>1, <2>2, <2>4, <3>1 DEF View
  <2> QED
    BY <1>3, <2>3, <2>5, <2>6, NothingSeen
<1> QED
  BY <1>4, <1>5 DEF Recv

(* A frame is put on the way to the node that n faces. *)
LEMMA Posted ==
  ASSUME IInv, NEW n \in Nodes, NEW m \in Nodes, Opposite(n, m), NEW e,
         bus' = [bus EXCEPT ![n][m] = Append(@, e)]
  PROVE  bus'[n][m] = Append(bus[n][m], e) /\ bus'[m][n] = bus[m][n] /\ Between(n, m)
<1>1. n # m
  BY DEF Opposite
<1>2. bus'[n][m] = Append(bus[n][m], e)
  BY BusIs
<1>3. \A x, y \in Nodes : (x = n /\ y = m) \/ bus'[x][y] = bus[x][y]
  BY BusIs
<1> QED
  BY <1>1, <1>2, <1>3 DEF Between

LEMMA ConnectStreams ==
  ASSUME IInv, Roles, Streams, NEW n \in Nodes, NEW m \in Nodes, Connect(n, m)
  PROVE  Roles' /\ Streams'
<1> DEFINE p == pm[n]
           id == opened + 1
           e == [kind |-> "connect", id |-> id]
<1>1. /\ Good(p, held[n]) /\ rpc[n] \in Turns /\ Facing(n, p, held[n], rpc[n])
      /\ held[n] \in [Fds -> Ids \cup {NoId}]
  BY Known
<1>2. /\ n \in Clients /\ m \in Servers /\ Opposite(n, m) /\ id \in Ids /\ n \notin Servers
      /\ UNCHANGED <<held, rpc, resets>>
      /\ bus' = [bus EXCEPT ![n][m] = Append(@, e)]
      /\ \A fd \in Fds : Live(p, fd) => rpc[n][fd] = "idle" /\ ~p.conns[fd].accepted
  BY NodeAssumption, Numbers DEF Connect, Post, Opposite, IInv, TypeOK, Ids
<1>3. PICK fd \in Fds :
        /\ NewFd(p, fd)
        /\ pm' = [pm EXCEPT ![n] = [CreateConn(p, fd, m, id) EXCEPT !.conns[fd].accepted = TRUE]]
  BY DEF Connect
<1> DEFINE x == CreateConn(p, fd, m, id)
           d == [x.conns[fd] EXCEPT !.accepted = TRUE]
           q == [x EXCEPT !.conns[fd].accepted = TRUE]
           v == View(q, held[n], rpc[n], m)
<1>4. p.conns[fd].state = "free"
  BY <1>3 DEF NewFd
<1> HIDE DEF id, p
<1>5. x \in Manager /\ x.conns \in [Fds -> Conn] /\ x.conns[fd] \in Conn /\ held[n][fd] = NoId
  <2>1. Typed(x, held[n]) /\ held[n][fd] = NoId
    BY <1>1, <1>2, <1>4, CreateConnIs
  <2> QED
    BY <2>1, ManagerFields DEF Typed
<1>6. /\ x.conns[fd].state = "live" /\ x.conns[fd].remote = m /\ x.conns[fd].id = id
      /\ x.conns[fd].queue = <<>>
  BY <1>1, <1>2, <1>4, CreatedSlots
<1> HIDE DEF x
<1>7. d.state = "live" /\ d.remote = m /\ d.id = id /\ d.queue = <<>> /\ d.accepted
  BY <1>5, <1>6 DEF Conn
<1>8. q.conns = [x.conns EXCEPT ![fd] = d] /\ q.byRemote = x.byRemote
  BY <1>5 DEF Manager
<1>9. Moves(n, q, held[n], rpc[n])
  BY <1>2, <1>3 DEF Moves, IInv, TypeOK, x
<1> HIDE DEF d, q
<1>10. q.conns[fd] = d /\ \A g \in Fds \ {fd} : q.conns[g] = x.conns[g]
  BY <1>5, <1>8
<1>20. Created(p, held[n], fd, m, id, q, held[n])
  BY <1>7, <1>8, <1>10 DEF Created, Live, x
<1>11. /\ Facing(n, q, held[n], rpc[n])
       /\ v \in Ends /\ v.id = id /\ v.queue = <<>> /\ v.rpc = "idle"
       /\ v.stage = IF held[n][fd] # NoId THEN "given" ELSE IF q.conns[fd].accepted THEN "asked" ELSE "waits"
       /\ \A y \in Nodes \ {m} : View(q, held[n], rpc[n], y) = View(p, held[n], rpc[n], y)
  BY <1>1, <1>2, <1>4, <1>20, NewViews
<1>12. v.stage = "asked" /\ Len(v.queue) = 0
  BY <1>5, <1>7, <1>10, <1>11
<1>13. bus'[n][m] = Append(bus[n][m], e) /\ bus'[m][n] = bus[m][n] /\ Between(n, m)
  BY <1>2, Posted
<1>14. e \in Frame /\ e.kind = "connect" /\ e.id = id
  BY <1>2 DEF Frame
<1>15. Side(n, m).stage # "asked" /\ Side(n, m).rpc = "idle"
  <2>1. CASE p.byRemote[m] = NoFd
    BY <2>1 DEF Side, View, None, p
  <2>2. CASE p.byRemote[m] # NoFd
    <3> DEFINE f == p.byRemote[m]
    <3>1. f \in Fds /\ Live(p, f) /\ p.conns[f].remote = m
      BY <1>1, <2>2, FoundIsLive
    <3>2. rpc[n][f] = "idle" /\ ~p.conns[f].accepted
      BY <1>2, <3>1 DEF p
    <3> HIDE DEF f
    <3>3. /\ Side(n, m).rpc = rpc[n][f]
          /\ Side(n, m).stage = IF held[n][f] # NoId THEN "given"
                                ELSE IF pm[n].conns[f].accepted THEN "asked" ELSE "waits"
      BY <3>1, LiveEnd DEF p
    <3> QED
      BY <3>2, <3>3 DEF p
  <2> QED
    BY <2>1, <2>2
<1> HIDE DEF v, e
<1>16. ASSUME resets = 0
       PROVE  InStep(v, Side(m, n), bus'[n][m], bus'[m][n])
  <2>1. InStep(Side(n, m), Side(m, n), bus[n][m], bus[m][n])
    BY <1>2, <1>16, PairInStep
  <2>2. /\ bus[n][m] \in Seq(Frame) /\ bus[m][n] \in Seq(Frame)
        /\ Side(n, m) \in Ends /\ Side(m, n) \in Ends
    BY Known
  <2> QED
    BY <1>11, <1>12, <1>13, <1>14, <1>15, <2>1, <2>2, ClientConnects
<1> QED
  BY <1>2, <1>9, <1>11, <1>13, <1>16, TwoNodes DEF v, p

LEMMA AcceptStreams ==
  ASSUME IInv, Roles, Streams, NEW n \in Nodes, Accept(n)
  PROVE  Roles' /\ Streams'
<1> DEFINE p == pm[n]
           queue == p.readyFds
<1>1. /\ Good(p, held[n]) /\ rpc[n] \in Turns /\ Facing(n, p, held[n], rpc[n]) /\ p \in Manager
      /\ held[n] \in [Fds -> Ids \cup {NoId}] /\ p.conns \in [Fds -> Conn]
      /\ queue \in Seq(Fds)
  BY Known, ManagerFields
<1>2. n \in Servers /\ n \notin Clients /\ UNCHANGED <<rpc, resets>>
  BY NodeAssumption DEF Accept
<1>3. ASSUME NEW i \in 1..Len(queue), Live(p, queue[i]),
             pm' = [pm EXCEPT ![n].readyFds = SubSeq(queue, i + 1, Len(queue))],
             Post(n, p.conns[queue[i]].remote, "accepted", p.conns[queue[i]].id),
             held' = [held EXCEPT ![n][queue[i]] = p.conns[queue[i]].id]
      PROVE  Roles' /\ Streams'
  <2> DEFINE fd == queue[i]
             c == p.conns[fd]
             m == c.remote
             q == [p EXCEPT !.readyFds = SubSeq(queue, i + 1, Len(queue))]
             k == [held[n] EXCEPT ![fd] = c.id]
             e == [kind |-> "accepted", id |-> c.id]
             v == View(q, k, rpc[n], m)
  <2>1. fd \in Fds
    BY <1>1
  <2>2. held[n][fd] = NoId /\ ~c.accepted
    <3>1. fd \in Members(queue)
      BY DEF Members
    <3> HIDE DEF queue, fd
    <3> QED
      BY <1>1, <3>1 DEF Good, QueuesWaiting, Waiting, queue
  <2> HIDE DEF fd, queue
  <2>3. /\ m \in Nodes /\ Opposite(n, m) /\ m \in Clients
        /\ Side(n, m).id = c.id /\ Side(n, m).queue = c.queue /\ Side(n, m).rpc = rpc[n][fd]
        /\ Side(n, m).stage = IF held[n][fd] # NoId THEN "given"
                              ELSE IF c.accepted THEN "asked" ELSE "waits"
        /\ c.id \in Ids /\ c.queue \in Seq(Message)
    <3>1. Live(pm[n], fd)
      BY <1>3 DEF fd
    <3> QED
      BY <1>2, <2>1, <3>1, LiveEnd
  <2>4. q.conns = p.conns /\ q.byRemote = p.byRemote
    BY <1>1 DEF Manager
  <2>5. Moves(n, q, k, rpc[n])
    BY <1>2, <1>3 DEF Moves, IInv, TypeOK, fd
  <2>6. bus' = [bus EXCEPT ![n][m] = Append(@, e)]
    BY <1>3 DEF Post, fd
  <2>7. e \in Frame /\ e.kind = "accepted" /\ e.id = c.id
    BY <2>3 DEF Frame
  <2> HIDE DEF q
  <2>8. k[fd] = c.id /\ Elsewhere(fd, p, held[n], rpc[n], q, k, rpc[n]) /\ Live(q, fd)
    BY <1>1, <1>3, <2>1, <2>4 DEF Elsewhere, Live, fd
  <2>9. /\ q.conns[fd].remote = p.conns[fd].remote /\ q.conns[fd].id \in Ids
        /\ q.conns[fd].queue \in Seq(Message) /\ rpc[n][fd] \in {"idle", "busy"}
        /\ k[fd] # NoId /\ Live(p, fd)
    BY <1>1, <1>3, <2>1, <2>3, <2>4, <2>8, Numbers DEF Turns, fd
  <2>17. Refilled(fd, m, p, held[n], rpc[n], q, k, rpc[n])
    BY <2>1, <2>4, <2>8, <2>9 DEF Refilled
  <2> HIDE DEF k, v, p, m
  <2>10. /\ Facing(n, q, k, rpc[n])
         /\ v \in Ends /\ v.id = q.conns[fd].id /\ v.queue = q.conns[fd].queue /\ v.rpc = rpc[n][fd]
         /\ v.stage = IF k[fd] # NoId THEN "given"
                      ELSE IF q.conns[fd].accepted THEN "asked" ELSE "waits"
         /\ \A y \in Nodes \ {m} : View(q, k, rpc[n], y) = View(p, held[n], rpc[n], y)
    BY <1>1, <2>17, SlotViews DEF v
  <2>11. bus'[n][m] = Append(bus[n][m], e) /\ bus'[m][n] = bus[m][n] /\ Between(n, m)
    BY <2>3, <2>6, Posted
  <2>12. v.id = c.id /\ v.queue = c.queue /\ v.stage = "given" /\ Side(n, m).stage = "waits"
    BY <2>2, <2>3, <2>4, <2>9, <2>10
  <2> HIDE DEF e, c
  <2>13. ASSUME resets = 0
         PROVE  InStep(Side(m, n), v, bus'[m][n], bus'[n][m])
    <3>1. InStep(Side(m, n), Side(n, m), bus[m][n], bus[n][m])
      BY <1>2, <2>3, <2>13, PairInStep
    <3>2. /\ bus[n][m] \in Seq(Frame) /\ bus[m][n] \in Seq(Frame)
          /\ Side(n, m) \in Ends /\ Side(m, n) \in Ends
      BY <2>3, Known
    <3> QED
      BY <2>3, <2>7, <2>10, <2>11, <2>12, <3>1, <3>2, ServerIsGiven
  <2>14. Facing(n, q, k, rpc[n])
         /\ \A y \in Nodes \ {m} : View(q, k, rpc[n], y) = View(pm[n], held[n], rpc[n], y)
    BY <2>10 DEF p
  <2>15. resets = 0 => InStep(Side(m, n), View(q, k, rpc[n], m), bus'[m][n], bus'[n][m])
    BY <2>13 DEF v
  <2>16. m \in Nodes /\ Opposite(n, m) /\ Between(n, m) /\ n \notin Clients
    BY <1>2, <2>3, <2>11
  <2> QED
    BY <2>5, <2>14, <2>15, <2>16, TwoNodes
<1>4. CASE /\ pm' = [pm EXCEPT ![n].readyFds = <<>>, ![n].acceptWaiters = @ + 1]
           /\ UNCHANGED <<bus, held>>
  <2> DEFINE q == [p EXCEPT !.readyFds = <<>>, !.acceptWaiters = @ + 1]
  <2>1. q.conns = p.conns /\ q.byRemote = p.byRemote
    BY <1>1 DEF Manager
  <2>2. Moves(n, q, held[n], rpc[n])
    BY <1>2, <1>4 DEF Moves, IInv, TypeOK
  <2> HIDE DEF q
  <2>3. Facing(n, q, held[n], rpc[n])
    BY <1>1, <2>1 DEF Facing, Live
  <2>4. \A y \in Nodes : View(q, held[n], rpc[n], y) = View(p, held[n], rpc[n], y)
    BY <2>1 DEF View
  <2> QED
    BY <1>4, <2>2, <2>3, <2>4, NothingSeen
<1> QED
  BY <1>3, <1>4 DEF Accept

LEMMA CloseConnectionStreams ==
  ASSUME IInv, Roles, Streams, NEW n \in Nodes, NEW fd \in Fds, CloseConnection(n, fd)
  PROVE  Roles' /\ Streams'
<1> DEFINE p == pm[n]
           c == p.conns[fd]
           m == c.remote
           x == Tombstone(p, fd)
           q == [x EXCEPT !.conns[fd] = Free]
           k == [held[n] EXCEPT ![fd] = NoId]
           u == [rpc[n] EXCEPT ![fd] = "idle"]
<1>1. /\ Good(p, held[n]) /\ rpc[n] \in Turns /\ Facing(n, p, held[n], rpc[n]) /\ p \in Manager
      /\ held[n] \in [Fds -> Ids \cup {NoId}]
  BY Known
<1>2. Moves(n, q, k, u)
  BY DEF CloseConnection, Moves, IInv, TypeOK
<1>3. Free.state = "free" /\ Free.queue = <<>>
  BY DEF Free
<1>4. u[fd] = "idle" /\ \A g \in Fds \ {fd} : k[g] = held[n][g] /\ u[g] = rpc[n][g]
  BY <1>1 DEF Turns
<1>5. x \in Manager /\ x.conns \in [Fds -> Conn]
  <2>1. Good(x, held[n])
    BY <1>1, TombstoneGood
  <2> QED
    BY <2>1, ManagerFields DEF Good, Typed
<1> HIDE DEF x
<1>6. q.conns = [x.conns EXCEPT ![fd] = Free] /\ q.byRemote = x.byRemote
  BY <1>5 DEF Manager
<1> HIDE DEF q, k, u
<1>7. q.conns[fd] = Free /\ \A g \in Fds \ {fd} : q.conns[g] = x.conns[g]
  BY <1>5, <1>6
<1>8. \A g \in Fds \ {fd} : x.conns[g] = p.conns[g]
  BY <1>1, TombstoneEnds DEF x
<1>9. Elsewhere(fd, p, held[n], rpc[n], q, k, u) /\ ~Live(q, fd) /\ q.conns[fd].queue = <<>>
  BY <1>3, <1>4, <1>7, <1>8 DEF Elsewhere, Live
<1>10. CASE ~Live(p, fd)
  <2>1. q.byRemote = p.byRemote /\ UNCHANGED bus
    BY <1>6, <1>10 DEF Tombstone, CloseConnection, x
  <2> HIDE DEF p
  <2>2. Facing(n, q, k, u) /\ \A y \in Nodes : View(q, k, u, y) = View(p, held[n], rpc[n], y)
    BY <1>1, <1>4, <1>9, <1>10, <2>1, ReleasedViews
  <2> QED
    BY <1>2, <2>1, <2>2, NothingSeen DEF p
<1>11. CASE Live(p, fd)
  <2> DEFINE e == [kind |-> "close", id |-> c.id]
  <2>1. /\ n \in Clients /\ held[n][fd] # NoId /\ rpc[n][fd] = "idle"
        /\ bus' = [bus EXCEPT ![n][m] = Append(@, e)]
    BY <1>11 DEF CloseConnection, MayClose, Post
  <2>2. /\ m \in Nodes /\ Opposite(n, m) /\ m \in Servers /\ n \notin Servers
        /\ Side(n, m).id = c.id /\ Side(n, m).rpc = rpc[n][fd]
        /\ Side(n, m).stage = IF held[n][fd] # NoId THEN "given"
                              ELSE IF c.accepted THEN "asked" ELSE "waits"
        /\ c.id \in Ids
    <3>1. n \notin Servers
      BY <2>1, NodeAssumption
    <3> QED
      BY <1>11, <2>1, <3>1, LiveEnd
  <2>3. \A y \in Nodes : q.byRemote[y] = IF y = m /\ p.byRemote[y] = fd THEN NoFd ELSE p.byRemote[y]
    <3>1. Distinct(p.readyFds)
      BY <1>1 DEF Good, QueuesWaiting
    <3> HIDE DEF p
    <3> QED
      BY <1>1, <1>6, <1>11, <2>2, <3>1, TombstoneIs DEF x
  <2> HIDE DEF p
  <2>4. /\ Facing(n, q, k, u) /\ View(q, k, u, m) = None
        /\ \A y \in Nodes \ {m} : View(q, k, u, y) = View(p, held[n], rpc[n], y)
    BY <1>1, <1>4, <1>9, <1>11, <2>3, GoneViews
  <2>5. e \in Frame /\ e.kind = "close" /\ e.id = c.id
    BY <2>2 DEF Frame
  <2>6. bus'[n][m] = Append(bus[n][m], e) /\ bus'[m][n] = bus[m][n] /\ Between(n, m)
    BY <2>1, <2>2, Posted
  <2> HIDE DEF e, m, c
  <2>7. ASSUME resets = 0
        PROVE  InStep(None, Side(m, n), bus'[n][m], bus'[m][n])
    <3>1. InStep(Side(n, m), Side(m, n), bus[n][m], bus[m][n])
      BY <2>1, <2>2, <2>7, PairInStep
    <3>2. /\ bus[n][m] \in Seq(Frame) /\ bus[m][n] \in Seq(Frame)
          /\ Side(n, m) \in Ends /\ Side(m, n) \in Ends
      BY <2>2, Known
    <3> QED
      BY <2>1, <2>2, <2>5, <2>6, <3>1, <3>2, ClientCloses
  <2> QED
    BY <1>2, <2>1, <2>2, <2>4, <2>6, <2>7, TwoNodes DEF p
<1> QED
  BY <1>10, <1>11

LEMMA CloseStreams ==
  ASSUME IInv, Roles, Streams, NEW n \in Nodes, Close(n)
  PROVE  Roles' /\ Streams'
<1> DEFINE p == pm[n]
           q == [p EXCEPT !.conns = [fd \in Fds |-> Tombstone(p, fd).conns[fd]],
                          !.byRemote = [m \in Nodes |-> NoFd],
                          !.readyFds = <<>>]
<1>1. /\ Good(p, held[n]) /\ rpc[n] \in Turns /\ Facing(n, p, held[n], rpc[n]) /\ p \in Manager
  BY Known
<1>2. q.conns = [fd \in Fds |-> Tombstone(p, fd).conns[fd]]
  BY <1>1 DEF Manager
<1>3. pm' = [pm EXCEPT ![n] = q] /\ UNCHANGED <<bus, held, rpc>> /\ resets' = resets + 1
  BY DEF Close
<1> HIDE DEF q, p
<1>4. Facing(n, q, held[n], rpc[n])
  BY <1>1, <1>2, ClosedFacing
<1>5. pm'[n] = q /\ \A x \in Nodes \ {n} : pm'[x] = pm[x]
  BY <1>3 DEF IInv, TypeOK
<1>6. (\A x \in Nodes : Facing(x, pm[x], held[x], rpc[x]))'
  <2> SUFFICES ASSUME NEW x \in Nodes PROVE Facing(x, pm'[x], held'[x], rpc'[x])
    OBVIOUS
  <2> QED
    BY <1>3, <1>4, <1>5 DEF Roles
<1>7. Roles'
  BY <1>3, <1>6 DEF Roles, Opposite
<1>8. resets' # 0
  BY <1>3 DEF IInv, TypeOK
<1> QED
  BY <1>7, <1>8 DEF Streams
-----------------------------------------------------------------------------
(* Frames.                                                                   *)

LEMMA ClientIsSent ==
  ASSUME NEW c \in Ends, NEW s \in Ends, NEW F \in Seq(Frame), NEW G \in Seq(Frame),
         InStep(c, s, F, G), Len(G) > 0
  PROVE  /\ Head(G).kind \in {"accepted", "response"} /\ c.stage # "none"
         /\ Head(G).kind = "accepted" => c.stage = "asked"
<1>1. Head(G) = G[1] /\ 1 \in 1..Len(G)
  OBVIOUS
<1> QED
  BY <1>1 DEF InStep, ToClient, ClientKnows

LEMMA ServerIsSent ==
  ASSUME NEW c \in Ends, NEW s \in Ends, NEW F \in Seq(Frame), NEW G \in Seq(Frame),
         InStep(c, s, F, G), Len(F) > 0
  PROVE  /\ Head(F).kind \in {"connect", "close", "request", "oneway"}
         /\ Head(F).kind # "connect" => s.stage = "given"
<1>1. Head(F) = F[1] /\ 1 \in 1..Len(F)
  OBVIOUS
<1> QED
  BY <1>1 DEF InStep, ToServer

(* The first frame from m to n is taken. *)
Takes(n, m) == Len(bus[m][n]) > 0 /\ bus' = [bus EXCEPT ![m][n] = Tail(bus[m][n])]

LEMMA Taken ==
  ASSUME IInv, Roles, NEW n \in Nodes, NEW m \in Nodes, Len(bus[m][n]) > 0
  PROVE  /\ Opposite(n, m)
         /\ n \in Clients => m \in Servers /\ n \notin Servers
         /\ n \in Servers => m \in Clients /\ n \notin Clients
         /\ Takes(n, m) => /\ bus'[m][n] = Tail(bus[m][n]) /\ bus'[n][m] = bus[n][m]
                           /\ Between(n, m)
<1>1. Opposite(m, n)
  BY DEF Roles
<1>2. Opposite(n, m) /\ n # m
  BY <1>1 DEF Opposite
<1>3. /\ n \in Clients => m \in Servers /\ n \notin Servers
      /\ n \in Servers => m \in Clients /\ n \notin Clients
  BY <1>2, NodeAssumption DEF Opposite, Nodes
<1>4. ASSUME Takes(n, m)
      PROVE  /\ bus'[m][n] = Tail(bus[m][n])
             /\ \A x, y \in Nodes : (x = m /\ y = n) \/ bus'[x][y] = bus[x][y]
  BY <1>4, BusIs DEF Takes
<1> QED
  BY <1>2, <1>3, <1>4 DEF Between

(* What InStep says of the two before the frame is taken. *)
LEMMA BeforeTaken ==
  ASSUME IInv, Roles, Streams, resets = 0, NEW n \in Nodes, NEW m \in Nodes, Len(bus[m][n]) > 0
  PROVE  LET kind == Head(bus[m][n]).kind
         IN  /\ n \in Clients =>
                  /\ InStep(Side(n, m), Side(m, n), bus[n][m], bus[m][n])
                  /\ kind \in {"accepted", "response"} /\ Side(n, m).stage # "none"
                  /\ kind = "accepted" => Side(n, m).stage = "asked"
             /\ n \in Servers =>
                  /\ InStep(Side(m, n), Side(n, m), bus[m][n], bus[n][m])
                  /\ kind \in {"connect", "close", "request", "oneway"}
                  /\ kind # "connect" => Side(n, m).stage = "given"
<1>1. /\ bus[n][m] \in Seq(Frame) /\ bus[m][n] \in Seq(Frame)
      /\ Side(n, m) \in Ends /\ Side(m, n) \in Ends
  BY Known
<1>2. CASE n \in Clients
  <2>1. InStep(Side(n, m), Side(m, n), bus[n][m], bus[m][n]) /\ n \notin Servers
    BY <1>2, PairInStep, Taken
  <2> QED
    BY <1>1, <2>1, ClientIsSent
<1>3. CASE n \in Servers
  <2>1. InStep(Side(m, n), Side(n, m), bus[m][n], bus[n][m]) /\ n \notin Clients
    BY <1>3, PairInStep, Taken
  <2> QED
    BY <1>1, <2>1, ServerIsSent
<1> QED
  BY <1>2, <1>3 DEF Nodes

LEMMA DroppedStreams ==
  ASSUME IInv, Roles, Streams, NEW n \in Nodes, NEW m \in Nodes, Takes(n, m),
         UNCHANGED <<pm, held, rpc, resets>>,
         Head(bus[m][n]).kind = "connect" \/ pm[n].byRemote[m] = NoFd
  PROVE  Roles' /\ Streams'
<1> DEFINE F == bus[m][n]
           kind == Head(F).kind
<1>1. /\ Facing(n, pm[n], held[n], rpc[n])
      /\ F \in Seq(Frame) /\ bus[n][m] \in Seq(Frame)
      /\ Side(n, m) \in Ends /\ Side(m, n) \in Ends
  BY Known
<1>2. Len(F) > 0
  BY DEF Takes
<1>3. /\ Opposite(n, m) /\ Between(n, m) /\ bus'[m][n] = Tail(F) /\ bus'[n][m] = bus[n][m]
  BY <1>2, Taken
<1>4. Moves(n, pm[n], held[n], rpc[n])
  BY DEF Moves, IInv, TypeOK
<1>5. pm[n].byRemote[m] = NoFd => Side(n, m).stage = "none"
  BY DEF Side, View, None
<1>6. ASSUME resets = 0, n \in Clients PROVE FALSE
  BY <1>2, <1>5, <1>6, BeforeTaken
<1>7. ASSUME resets = 0, n \in Servers
      PROVE  InStep(Side(m, n), Side(n, m), bus'[m][n], bus'[n][m])
  <2>1. InStep(Side(m, n), Side(n, m), F, bus[n][m]) /\ kind = "connect"
    BY <1>2, <1>5, <1>7, BeforeTaken
  <2> HIDE DEF F
  <2> QED
    BY <1>1, <1>2, <1>3, <2>1, ConnectIsDropped
<1>8. \A y \in Nodes : View(pm[n], held[n], rpc[n], y) = Side(n, y)
  BY DEF Side
<1> QED
  BY <1>1, <1>3, <1>4, <1>6, <1>7, <1>8, TwoNodes

LEMMA ConnectedStreams ==
  ASSUME IInv, Roles, Streams, NEW n \in Nodes, NEW m \in Nodes, Len(bus[m][n]) > 0,
         Head(bus[m][n]).kind = "connect",
         HandleConnect(n, m, Head(bus[m][n]).id, Tail(bus[m][n])), UNCHANGED <<rpc, resets>>
  PROVE  Roles' /\ Streams'
<1> DEFINE p == pm[n]
           F == bus[m][n]
           G == bus[n][m]
           id == Head(F).id
<1>1. /\ Good(p, held[n]) /\ rpc[n] \in Turns /\ Facing(n, p, held[n], rpc[n])
      /\ held[n] \in [Fds -> Ids \cup {NoId}]
      /\ F \in Seq(Frame) /\ G \in Seq(Frame) /\ Side(n, m) \in Ends /\ Side(m, n) \in Ends
  BY Known
<1>2. id \in Ids /\ Tail(F) \in Seq(Frame)
  <2>1. Head(F) \in Frame /\ Tail(F) \in Seq(Frame)
    BY <1>1, HeadTailProperties
  <2> QED
    BY <2>1 DEF Frame
<1>3. /\ Opposite(n, m) /\ (n \in Servers => m \in Clients /\ n \notin Clients)
  BY Taken
<1>4. ASSUME resets = 0, n \in Clients PROVE FALSE
  BY <1>4, BeforeTaken
<1>5. resets = 0 /\ n \in Servers => InStep(Side(m, n), Side(n, m), F, G)
  BY BeforeTaken
<1>6. CASE UNCHANGED <<pm, held>> /\ bus' = [bus EXCEPT ![m][n] = Tail(F)]
  BY <1>6, DroppedStreams DEF Takes
<1>7. ASSUME NEW fd \in Fds, NewFd(p, fd),
             \/ /\ p.acceptWaiters > 0
                /\ pm' = [pm EXCEPT ![n] = [CreateConn(p, fd, m, id) EXCEPT !.acceptWaiters = @ - 1]]
                /\ held' = [held EXCEPT ![n][fd] = id]
                /\ bus' = [bus EXCEPT ![m][n] = Tail(F),
                             ![n][m] = Append(G, [kind |-> "accepted", id |-> id])]
             \/ /\ pm' = [pm EXCEPT ![n] = [CreateConn(p, fd, m, id) EXCEPT !.readyFds = Append(@, fd)]]
                /\ bus' = [bus EXCEPT ![m][n] = Tail(F)]
                /\ UNCHANGED held
      PROVE  Roles' /\ Streams'
  <2> DEFINE x == CreateConn(p, fd, m, id)
  <2>1. p.conns[fd].state = "free"
    BY <1>7 DEF NewFd
  <2>2. n # m
    BY <1>3 DEF Opposite
  <2>3. Head(F).kind = "connect" /\ Head(F).id = id /\ Len(F) > 0
    OBVIOUS
  <2> HIDE DEF p, id
  <2>4. /\ x \in Manager /\ held[n][fd] = NoId /\ ~x.conns[fd].accepted
        /\ x.conns[fd].state = "live" /\ x.conns[fd].remote = m /\ x.conns[fd].id = id
        /\ x.conns[fd].queue = <<>>
    <3>1. Typed(x, held[n]) /\ held[n][fd] = NoId /\ ~x.conns[fd].accepted
      BY <1>1, <1>2, <2>1, CreateConnIs
    <3>2. /\ x.conns[fd].state = "live" /\ x.conns[fd].remote = m /\ x.conns[fd].id = id
          /\ x.conns[fd].queue = <<>>
      BY <1>1, <1>2, <2>1, CreatedSlots
    <3> QED
      BY <3>1, <3>2 DEF Typed
  <2> DEFINE w == [id |-> id, queue |-> <<>>, stage |-> "waits", rpc |-> "idle"]
  <2>5. w \in Ends /\ w.id = id /\ Len(w.queue) = 0 /\ w.stage = "waits" /\ w.rpc = "idle"
    <3>1. <<>> \in Seq(Message) /\ Len(<<>>) = 0
      OBVIOUS
    <3> QED
      BY <1>2, <3>1 DEF Ends
  <2>11. Tail(F) \in Seq(Frame)
    BY <1>2
  <2> HIDE DEF w, x, F, G
  <2>6. ASSUME resets = 0, n \in Servers
        PROVE  InStep(Side(m, n), w, Tail(F), G)
    BY <1>1, <1>3, <1>5, <2>3, <2>5, <2>6, ConnectWaits
  <2>7. ASSUME NEW q, NEW k, q.conns = x.conns, q.byRemote = x.byRemote,
               k \in {held[n], [held[n] EXCEPT ![fd] = id]}
        PROVE  /\ Facing(n, q, k, rpc[n])
               /\ View(q, k, rpc[n], m) \in Ends /\ View(q, k, rpc[n], m).id = id
               /\ View(q, k, rpc[n], m).queue = <<>> /\ View(q, k, rpc[n], m).rpc = "idle"
               /\ View(q, k, rpc[n], m).stage = IF k[fd] # NoId THEN "given" ELSE "waits"
               /\ \A y \in Nodes \ {m} : View(q, k, rpc[n], y) = View(p, held[n], rpc[n], y)
    <3>1. Created(p, held[n], fd, m, id, q, k)
      BY <2>4, <2>7 DEF Created, Live, x
    <3>2. /\ Facing(n, q, k, rpc[n])
          /\ View(q, k, rpc[n], m) \in Ends /\ View(q, k, rpc[n], m).id = id
          /\ View(q, k, rpc[n], m).queue = <<>> /\ View(q, k, rpc[n], m).rpc = "idle"
          /\ View(q, k, rpc[n], m).stage = IF k[fd] # NoId THEN "given"
                                           ELSE IF q.conns[fd].accepted THEN "asked" ELSE "waits"
          /\ \A y \in Nodes \ {m} : View(q, k, rpc[n], y) = View(p, held[n], rpc[n], y)
      BY <1>1, <1>2, <1>3, <2>1, <3>1, NewViews
    <3> QED
      BY <2>4, <2>7, <3>2
  <2>8. CASE /\ pm' = [pm EXCEPT ![n] = [x EXCEPT !.acceptWaiters = @ - 1]]
             /\ held' = [held EXCEPT ![n][fd] = id]
             /\ bus' = [bus EXCEPT ![m][n] = Tail(F),
                          ![n][m] = Append(G, [kind |-> "accepted", id |-> id])]
    <3> DEFINE q == [x EXCEPT !.acceptWaiters = @ - 1]
               k == [held[n] EXCEPT ![fd] = id]
               e == [kind |-> "accepted", id |-> id]
               v == View(q, k, rpc[n], m)
    <3>1. q.conns = x.conns /\ q.byRemote = x.byRemote
      BY <2>4 DEF Manager
    <3>2. k[fd] # NoId
      BY <1>1, <1>2, Numbers
    <3>3. Moves(n, q, k, rpc[n])
      BY <2>8 DEF Moves, IInv, TypeOK
    <3>4. e \in Frame /\ e.kind = "accepted" /\ e.id = id
      BY <1>2 DEF Frame
    <3>5. /\ bus'[m][n] = Tail(F) /\ bus'[n][m] = Append(G, e)
          /\ \A a, d \in Nodes : (a = m /\ d = n) \/ (a = n /\ d = m) \/ bus'[a][d] = bus[a][d]
      <4> DEFINE b == [bus EXCEPT ![m][n] = Tail(F)]
      <4> HIDE DEF e
      <4>1. b \in [Nodes -> [Nodes -> Seq(Frame)]]
        BY <2>11, BusIs, BusTyped
      <4>2. b[m][n] = Tail(F) /\ \A a, d \in Nodes : (a = m /\ d = n) \/ b[a][d] = bus[a][d]
        BY BusIs
      <4>3. bus' = [b EXCEPT ![n][m] = Append(G, e)]
        BY <2>8 DEF e
      <4> HIDE DEF b
      <4>4. /\ bus'[n][m] = Append(G, e)
            /\ \A a, d \in Nodes : (a = n /\ d = m) \/ bus'[a][d] = b[a][d]
        BY <4>1, <4>3
      <4>5. bus'[m][n] = b[m][n]
        BY <2>2, <4>4
      <4>6. \A a, d \in Nodes : (a = m /\ d = n) \/ (a = n /\ d = m) \/ bus'[a][d] = bus[a][d]
        BY <4>2, <4>4
      <4>7. bus'[m][n] = Tail(F)
        BY <4>2, <4>5
      <4> QED
        BY <4>4, <4>6, <4>7
    <3> HIDE DEF q, e
    <3>6. k \in {held[n], [held[n] EXCEPT ![fd] = id]}
      OBVIOUS
    <3> HIDE DEF k
    <3>7. /\ Facing(n, q, k, rpc[n]) /\ v \in Ends /\ v.id = id /\ v.queue = <<>> /\ v.rpc = "idle"
          /\ v.stage = "given"
          /\ \A y \in Nodes \ {m} : View(q, k, rpc[n], y) = View(p, held[n], rpc[n], y)
      BY <2>7, <3>1, <3>2, <3>6
    <3> HIDE DEF v
    <3>8. ASSUME resets = 0, n \in Servers
          PROVE  InStep(Side(m, n), v, bus'[m][n], bus'[n][m])
      <4> DEFINE rest == Tail(F)
      <4>1. InStep(Side(m, n), w, rest, G) /\ rest \in Seq(Frame)
        BY <2>6, <2>11, <3>8
      <4>2. v.queue = w.queue
        BY <3>7 DEF w
      <4>3. bus'[m][n] = rest
        BY <3>5
      <4> HIDE DEF rest
      <4>4. InStep(Side(m, n), v, rest, Append(G, e))
        BY <1>1, <2>5, <3>4, <3>7, <4>1, <4>2, ServerIsGiven
      <4> QED
        BY <3>5, <4>3, <4>4
    <3>9. Between(n, m)
      BY <3>5 DEF Between
    <3>10. /\ Facing(n, q, k, rpc[n])
           /\ \A y \in Nodes \ {m} : View(q, k, rpc[n], y) = View(pm[n], held[n], rpc[n], y)
      BY <3>7 DEF p
    <3>11. resets = 0 /\ n \in Servers =>
             InStep(Side(m, n), View(q, k, rpc[n], m), bus'[m][n], bus'[n][m])
      BY <3>8 DEF v
    <3> QED
      BY <1>3, <1>4, <3>3, <3>9, <3>10, <3>11, TwoNodes
  <2>9. CASE /\ pm' = [pm EXCEPT ![n] = [x EXCEPT !.readyFds = Append(@, fd)]]
             /\ bus' = [bus EXCEPT ![m][n] = Tail(F)]
             /\ UNCHANGED held
    <3> DEFINE q == [x EXCEPT !.readyFds = Append(@, fd)]
               v == View(q, held[n], rpc[n], m)
    <3>1. q.conns = x.conns /\ q.byRemote = x.byRemote
      BY <2>4 DEF Manager
    <3>2. Moves(n, q, held[n], rpc[n])
      BY <2>9 DEF Moves, IInv, TypeOK
    <3>3. bus'[m][n] = Tail(F) /\ bus'[n][m] = G /\ Between(n, m)
      BY <2>3, <2>9, Taken DEF Takes, F, G
    <3> HIDE DEF q
    <3>4. /\ Facing(n, q, held[n], rpc[n]) /\ v \in Ends /\ v.id = id /\ v.queue = <<>>
          /\ v.rpc = "idle" /\ v.stage = "waits"
          /\ \A y \in Nodes \ {m} : View(q, held[n], rpc[n], y) = View(p, held[n], rpc[n], y)
      BY <2>4, <2>7, <3>1
    <3> HIDE DEF v
    <3>5. resets = 0 /\ n \in Servers => InStep(Side(m, n), v, bus'[m][n], bus'[n][m])
      BY <1>1, <1>3, <1>5, <2>3, <3>3, <3>4, ConnectWaits
    <3>6. /\ Facing(n, q, held[n], rpc[n])
          /\ \A y \in Nodes \ {m} : View(q, held[n], rpc[n], y) = View(pm[n], held[n], rpc[n], y)
      BY <3>4 DEF p
    <3>7. resets = 0 /\ n \in Servers =>
            InStep(Side(m, n), View(q, held[n], rpc[n], m), bus'[m][n], bus'[n][m])
      BY <3>5 DEF v
    <3>8. Opposite(n, m) /\ Between(n, m)
      BY <1>3, <3>3
    <3> QED
      BY <1>4, <3>2, <3>6, <3>7, <3>8, TwoNodes
  <2> QED
    BY <1>7, <2>8, <2>9 DEF x
<1>8. \/ UNCHANGED <<pm, held>> /\ bus' = [bus EXCEPT ![m][n] = Tail(F)]
      \/ \E fd \in Fds :
           /\ NewFd(p, fd)
           /\ \/ /\ p.acceptWaiters > 0
                 /\ pm' = [pm EXCEPT ![n] = [CreateConn(p, fd, m, id) EXCEPT !.acceptWaiters = @ - 1]]
                 /\ held' = [held EXCEPT ![n][fd] = id]
                 /\ bus' = [bus EXCEPT ![m][n] = Tail(F),
                              ![n][m] = Append(G, [kind |-> "accepted", id |-> id])]
              \/ /\ pm' = [pm EXCEPT ![n] = [CreateConn(p, fd, m, id) EXCEPT !.readyFds = Append(@, fd)]]
                 /\ bus' = [bus EXCEPT ![m][n] = Tail(F)]
                 /\ UNCHANGED held
  <2>1. \A fd \in Fds : NewFd(p, fd) => CreateConn(p, fd, m, id).acceptWaiters = p.acceptWaiters
    BY <1>1, <1>2, CreateConnIs, Taken DEF NewFd
  <2> QED
    BY <2>1 DEF HandleConnect
<1> QED
  BY <1>6, <1>7, <1>8

(* What n knows of the live connection that a frame of m is for. *)
LEMMA FrameEnd ==
  ASSUME IInv, Roles, NEW n \in Nodes, NEW m \in Nodes, NEW fd, fd = pm[n].byRemote[m], fd # NoFd,
         Len(bus[m][n]) > 0
  PROVE  /\ fd \in Fds /\ Live(pm[n], fd) /\ pm[n].conns[fd].remote = m
         /\ Opposite(n, m)
         /\ Side(n, m).id = pm[n].conns[fd].id /\ Side(n, m).queue = pm[n].conns[fd].queue
         /\ Side(n, m).rpc = rpc[n][fd]
         /\ Side(n, m).stage = IF held[n][fd] # NoId THEN "given"
                               ELSE IF pm[n].conns[fd].accepted THEN "asked" ELSE "waits"
         /\ pm[n].conns[fd].id \in Ids /\ pm[n].conns[fd].queue \in Seq(Message)
         /\ pm[n].conns[fd] \in Conn
         /\ Head(bus[m][n]) \in Frame
         /\ rpc[n][fd] \in {"idle", "busy"} /\ (rpc[n][fd] = "busy" => held[n][fd] # NoId)
<1>1. /\ Good(pm[n], held[n]) /\ rpc[n] \in Turns /\ Facing(n, pm[n], held[n], rpc[n])
      /\ bus[m][n] \in Seq(Frame)
  BY Known
<1>2. fd \in Fds /\ Live(pm[n], fd) /\ pm[n].conns[fd].remote = m
  BY <1>1, FoundIsLive
<1>3. Head(bus[m][n]) \in Frame
  BY <1>1, Taking
<1>4. rpc[n][fd] \in {"idle", "busy"} /\ (rpc[n][fd] = "busy" => held[n][fd] # NoId)
  BY <1>1, <1>2 DEF Turns, Facing
<1> QED
  BY <1>2, <1>3, <1>4, LiveEnd

LEMMA AcceptedStreams ==
  ASSUME IInv, Roles, Streams, NEW n \in Nodes, NEW m \in Nodes, NEW fd, fd = pm[n].byRemote[m],
         fd # NoFd, Takes(n, m), Head(bus[m][n]).kind = "accepted",
         HandleAccepted(n, fd), UNCHANGED resets
  PROVE  Roles' /\ Streams'
<1> DEFINE p == pm[n]
           c == p.conns[fd]
           d == [c EXCEPT !.accepted = FALSE]
           q == [p EXCEPT !.conns[fd] = d]
           k == IF c.accepted THEN [held[n] EXCEPT ![fd] = c.id] ELSE held[n]
           v == View(q, k, rpc[n], m)
<1>1. /\ Good(p, held[n]) /\ rpc[n] \in Turns /\ Facing(n, p, held[n], rpc[n]) /\ p \in Manager
      /\ held[n] \in [Fds -> Ids \cup {NoId}] /\ p.conns \in [Fds -> Conn]
  BY Known, ManagerFields
<1>2. Len(bus[m][n]) > 0
  BY DEF Takes
<1>3. /\ fd \in Fds /\ Live(p, fd) /\ c.remote = m /\ Opposite(n, m)
      /\ Side(n, m).id = c.id /\ Side(n, m).queue = c.queue /\ Side(n, m).rpc = rpc[n][fd]
      /\ Side(n, m).stage = IF held[n][fd] # NoId THEN "given"
                            ELSE IF c.accepted THEN "asked" ELSE "waits"
      /\ c.id \in Ids /\ c.queue \in Seq(Message) /\ c \in Conn
      /\ rpc[n][fd] \in {"idle", "busy"} /\ (rpc[n][fd] = "busy" => held[n][fd] # NoId)
  BY <1>2, FrameEnd
<1>4. Moves(n, q, k, rpc[n])
  BY <1>1, <1>3 DEF HandleAccepted, Moves, IInv, TypeOK
<1>5. d.state = "live" /\ d.remote = m /\ d.id = c.id /\ d.queue = c.queue
  BY <1>3 DEF Conn, Live
<1>6. q.conns = [p.conns EXCEPT ![fd] = d] /\ q.byRemote = p.byRemote
  BY <1>1 DEF Manager
<1> HIDE DEF d, q
<1>7. /\ \A g \in Fds \ {fd} : k[g] = held[n][g]
      /\ k[fd] = IF c.accepted THEN c.id ELSE held[n][fd]
  BY <1>1, <1>3
<1> HIDE DEF k
<1>8. q.conns[fd] = d /\ Elsewhere(fd, p, held[n], rpc[n], q, k, rpc[n]) /\ Live(q, fd)
  <2>1. q.conns[fd] = d /\ \A g \in Fds \ {fd} : q.conns[g] = p.conns[g]
    BY <1>1, <1>3, <1>6
  <2>2. Elsewhere(fd, p, held[n], rpc[n], q, k, rpc[n])
    BY <1>7, <2>1 DEF Elsewhere
  <2>3. Live(q, fd)
    BY <1>5, <2>1 DEF Live
  <2> QED
    BY <2>1, <2>2, <2>3
<1>9. /\ fd \in Fds /\ Live(p, fd)
      /\ q.conns[fd].remote = p.conns[fd].remote /\ q.conns[fd].id \in Ids
      /\ q.conns[fd].queue \in Seq(Message)
      /\ rpc[n][fd] \in {"idle", "busy"} /\ (rpc[n][fd] = "busy" => k[fd] # NoId)
  <2>1. rpc[n][fd] = "busy" => k[fd] # NoId
    BY <1>3, <1>7, Numbers
  <2> QED
    BY <1>3, <1>5, <1>8, <2>1
<1>17. Refilled(fd, m, p, held[n], rpc[n], q, k, rpc[n])
  BY <1>3, <1>6, <1>8, <1>9 DEF Refilled
<1> HIDE DEF v, p
<1>10. /\ Facing(n, q, k, rpc[n])
       /\ v \in Ends /\ v.id = q.conns[fd].id /\ v.queue = q.conns[fd].queue /\ v.rpc = rpc[n][fd]
       /\ v.stage = IF k[fd] # NoId THEN "given"
                    ELSE IF q.conns[fd].accepted THEN "asked" ELSE "waits"
       /\ \A y \in Nodes \ {m} : View(q, k, rpc[n], y) = View(p, held[n], rpc[n], y)
  BY <1>1, <1>17, SlotViews DEF v
<1>11. /\ bus'[m][n] = Tail(bus[m][n]) /\ bus'[n][m] = bus[n][m] /\ Between(n, m)
  BY <1>2, Taken
<1> HIDE DEF c
<1>12. ASSUME resets = 0, n \in Clients
       PROVE  InStep(v, Side(m, n), bus'[n][m], bus'[m][n])
  <2>1. /\ InStep(Side(n, m), Side(m, n), bus[n][m], bus[m][n])
        /\ Side(n, m).stage = "asked"
    BY <1>2, <1>12, BeforeTaken
  <2>2. /\ bus[n][m] \in Seq(Frame) /\ bus[m][n] \in Seq(Frame)
        /\ Side(n, m) \in Ends /\ Side(m, n) \in Ends
    BY Known
  <2>3. v.stage = "given" /\ v.id = Side(n, m).id /\ v.queue = Side(n, m).queue
        /\ v.rpc = Side(n, m).rpc
    BY <1>3, <1>5, <1>7, <1>8, <1>10, <2>1, Numbers
  <2> QED
    BY <1>2, <1>10, <1>11, <2>1, <2>2, <2>3, ClientIsGiven
<1>13. ASSUME resets = 0, n \in Servers PROVE FALSE
  BY <1>2, <1>13, BeforeTaken
<1>14. /\ Facing(n, q, k, rpc[n])
       /\ \A y \in Nodes \ {m} : View(q, k, rpc[n], y) = View(pm[n], held[n], rpc[n], y)
  BY <1>10 DEF p
<1>15. resets = 0 /\ n \in Clients => InStep(View(q, k, rpc[n], m), Side(m, n), bus'[n][m], bus'[m][n])
  BY <1>12 DEF v
<1>16. Opposite(n, m) /\ Between(n, m)
  BY <1>3, <1>11
<1> QED
  BY <1>4, <1>13, <1>14, <1>15, <1>16, TwoNodes

LEMMA ClosedStreams ==
  ASSUME IInv, Roles, Streams, NEW n \in Nodes, NEW m \in Nodes, NEW fd, fd = pm[n].byRemote[m],
         fd # NoFd, Takes(n, m), Head(bus[m][n]).kind = "close",
         pm' = [pm EXCEPT ![n] = Tombstone(@, fd)], UNCHANGED <<held, rpc, resets>>
  PROVE  Roles' /\ Streams'
<1> DEFINE p == pm[n]
           q == Tombstone(p, fd)
<1>1. /\ Good(p, held[n]) /\ rpc[n] \in Turns /\ Facing(n, p, held[n], rpc[n]) /\ p \in Manager
  BY Known
<1>2. Len(bus[m][n]) > 0
  BY DEF Takes
<1>3. /\ fd \in Fds /\ Live(p, fd) /\ p.conns[fd].remote = m /\ Opposite(n, m)
      /\ (rpc[n][fd] = "busy" => held[n][fd] # NoId)
  BY <1>2, FrameEnd
<1>4. Moves(n, q, held[n], rpc[n])
  BY DEF Moves, IInv, TypeOK
<1>5. Distinct(p.readyFds)
  BY <1>1 DEF Good, QueuesWaiting
<1> HIDE DEF p
<1>6. \A y \in Nodes : q.byRemote[y] = IF y = p.conns[fd].remote /\ p.byRemote[y] = fd THEN NoFd
                                       ELSE p.byRemote[y]
  BY <1>1, <1>3, <1>5, TombstoneIs
<1>7. ~Live(q, fd) /\ \A g \in Fds \ {fd} : q.conns[g] = p.conns[g]
  BY <1>1, <1>3, TombstoneEnds
<1>8. q.conns[fd].queue = <<>>
  BY <1>1, <1>3, TombstoneEmpties
<1> HIDE DEF q
<1>9. Elsewhere(fd, p, held[n], rpc[n], q, held[n], rpc[n])
  BY <1>7 DEF Elsewhere
<1>10. /\ Facing(n, q, held[n], rpc[n]) /\ View(q, held[n], rpc[n], p.conns[fd].remote) = None
       /\ \A y \in Nodes \ {p.conns[fd].remote} : View(q, held[n], rpc[n], y) = View(p, held[n], rpc[n], y)
  BY <1>1, <1>3, <1>6, <1>7, <1>8, <1>9, GoneViews
<1>11. /\ bus'[m][n] = Tail(bus[m][n]) /\ bus'[n][m] = bus[n][m] /\ Between(n, m)
  BY <1>2, Taken
<1>12. ASSUME resets = 0, n \in Clients PROVE FALSE
  BY <1>2, <1>12, BeforeTaken
<1>13. ASSUME resets = 0, n \in Servers
       PROVE  InStep(Side(m, n), None, bus'[m][n], bus'[n][m])
  <2>1. InStep(Side(m, n), Side(n, m), bus[m][n], bus[n][m])
    BY <1>2, <1>13, BeforeTaken
  <2>2. /\ bus[n][m] \in Seq(Frame) /\ bus[m][n] \in Seq(Frame)
        /\ Side(n, m) \in Ends /\ Side(m, n) \in Ends
    BY Known
  <2> QED
    BY <1>2, <1>11, <2>1, <2>2, CloseArrives
<1>14. /\ Facing(n, q, held[n], rpc[n])
       /\ \A y \in Nodes \ {m} : View(q, held[n], rpc[n], y) = View(pm[n], held[n], rpc[n], y)
  BY <1>3, <1>10 DEF p
<1>15. resets = 0 /\ n \in Servers => InStep(Side(m, n), View(q, held[n], rpc[n], m), bus'[m][n], bus'[n][m])
  BY <1>3, <1>10, <1>13
<1>16. Opposite(n, m) /\ Between(n, m)
  BY <1>3, <1>11
<1> QED
  BY <1>4, <1>12, <1>14, <1>15, <1>16, TwoNodes

(* A command is queued, or read by the recv() that is parked. *)
LEMMA DataStreams ==
  ASSUME IInv, Roles, Streams, NEW n \in Nodes, NEW m \in Nodes, NEW fd, fd = pm[n].byRemote[m],
         fd # NoFd, Takes(n, m), Head(bus[m][n]).kind \in Commands,
         HandleData(n, fd, Head(bus[m][n])), UNCHANGED resets
  PROVE  Roles' /\ Streams'
<1> DEFINE p == pm[n]
           c == p.conns[fd]
           e == Head(bus[m][n])
<1>1. /\ Good(p, held[n]) /\ rpc[n] \in Turns /\ Facing(n, p, held[n], rpc[n]) /\ p \in Manager
      /\ held[n] \in [Fds -> Ids \cup {NoId}] /\ p.conns \in [Fds -> Conn]
  BY Known, ManagerFields
<1>2. Len(bus[m][n]) > 0
  BY DEF Takes
<1>3. /\ fd \in Fds /\ Live(p, fd) /\ c.remote = m /\ Opposite(n, m)
      /\ Side(n, m).id = c.id /\ Side(n, m).queue = c.queue /\ Side(n, m).rpc = rpc[n][fd]
      /\ Side(n, m).stage = IF held[n][fd] # NoId THEN "given"
                            ELSE IF c.accepted THEN "asked" ELSE "waits"
      /\ c.id \in Ids /\ c.queue \in Seq(Message) /\ c \in Conn /\ e \in Frame
      /\ rpc[n][fd] \in {"idle", "busy"} /\ (rpc[n][fd] = "busy" => held[n][fd] # NoId)
  BY <1>2, FrameEnd
<1>4. e \in Message /\ e.kind \in Commands
  BY <1>3 DEF Frame, Message
<1>5. bus'[m][n] = Tail(bus[m][n]) /\ bus'[n][m] = bus[n][m] /\ Between(n, m)
  BY <1>2, Taken
<1>6. /\ bus[n][m] \in Seq(Frame) /\ bus[m][n] \in Seq(Frame)
      /\ Side(n, m) \in Ends /\ Side(m, n) \in Ends
  BY Known
<1>7. ASSUME NEW d \in Conn, NEW t \in {"idle", "busy"},
             d.state = "live", d.remote = m, d.id = c.id, d.accepted = c.accepted,
             \/ d.queue = Append(c.queue, e) /\ t = rpc[n][fd]
             \/ d.queue = c.queue /\ Len(c.queue) = 0 /\ t = AfterRead(e.kind) /\ held[n][fd] # NoId,
             Moves(n, [p EXCEPT !.conns[fd] = d], held[n], [rpc[n] EXCEPT ![fd] = t])
      PROVE  Roles' /\ Streams'
  <2> DEFINE q == [p EXCEPT !.conns[fd] = d]
             u == [rpc[n] EXCEPT ![fd] = t]
             v == View(q, held[n], u, m)
  <2>1. q.conns = [p.conns EXCEPT ![fd] = d] /\ q.byRemote = p.byRemote
    BY <1>1 DEF Manager
  <2>2. Moves(n, q, held[n], u)
    BY <1>7
  <2> HIDE DEF q, e
  <2>3. u[fd] = t /\ \A g \in Fds \ {fd} : u[g] = rpc[n][g]
    BY <1>1, <1>3 DEF Turns
  <2> HIDE DEF u
  <2>4. q.conns[fd] = d /\ Elsewhere(fd, p, held[n], rpc[n], q, held[n], u) /\ Live(q, fd)
    <3>1. q.conns[fd] = d /\ \A g \in Fds \ {fd} : q.conns[g] = p.conns[g]
      BY <1>1, <1>3, <2>1
    <3>2. Elsewhere(fd, p, held[n], rpc[n], q, held[n], u)
      BY <2>3, <3>1 DEF Elsewhere
    <3>3. Live(q, fd)
      BY <1>7, <3>1 DEF Live
    <3> QED
      BY <3>1, <3>2, <3>3
  <2>5. d.queue \in Seq(Message)
    <3>1. d.queue = Append(c.queue, e) \/ d.queue = c.queue
      BY <1>7
    <3>2. c.queue \in Seq(Message) /\ e \in Message
      BY <1>3, <1>4
    <3>3. Append(c.queue, e) \in Seq(Message)
      BY <3>2, Posting
    <3> HIDE DEF c
    <3> QED
      BY <3>1, <3>2, <3>3
  <2>6. /\ q.conns[fd].remote = p.conns[fd].remote /\ q.conns[fd].id \in Ids
        /\ q.conns[fd].queue \in Seq(Message) /\ u[fd] \in {"idle", "busy"}
        /\ (u[fd] = "busy" => held[n][fd] # NoId)
        /\ fd \in Fds /\ Live(p, fd)
    BY <1>3, <1>7, <2>3, <2>4, <2>5
  <2>14. Refilled(fd, m, p, held[n], rpc[n], q, held[n], u)
    BY <1>3, <2>1, <2>4, <2>6 DEF Refilled
  <2> HIDE DEF v, p
  <2>7. /\ Facing(n, q, held[n], u)
        /\ v \in Ends /\ v.id = q.conns[fd].id /\ v.queue = q.conns[fd].queue /\ v.rpc = u[fd]
        /\ v.stage = IF held[n][fd] # NoId THEN "given"
                     ELSE IF q.conns[fd].accepted THEN "asked" ELSE "waits"
        /\ \A y \in Nodes \ {m} : View(q, held[n], u, y) = View(p, held[n], rpc[n], y)
    BY <1>1, <2>14, SlotViews DEF v
  <2> HIDE DEF c
  <2>8. /\ v.id = Side(n, m).id /\ v.stage = Side(n, m).stage
        /\ \/ v.queue = Append(Side(n, m).queue, e) /\ v.rpc = Side(n, m).rpc
           \/ /\ v.queue = Side(n, m).queue /\ Len(Side(n, m).queue) = 0
              /\ v.rpc = AfterRead(e.kind)
    BY <1>3, <1>7, <2>3, <2>4, <2>7
  <2>9. ASSUME resets = 0, n \in Clients
        PROVE  InStep(v, Side(m, n), bus'[n][m], bus'[m][n])
    <3>1. InStep(Side(n, m), Side(m, n), bus[n][m], bus[m][n])
      BY <1>2, <2>9, BeforeTaken
    <3>2. e.kind # "accepted"
      BY <1>4 DEF Commands
    <3> QED
      BY <1>2, <1>5, <1>6, <2>7, <2>8, <3>1, <3>2, ClientIsAnswered DEF e
  <2>10. ASSUME resets = 0, n \in Servers
         PROVE  InStep(Side(m, n), v, bus'[m][n], bus'[n][m])
    <3>1. InStep(Side(m, n), Side(n, m), bus[m][n], bus[n][m])
      BY <1>2, <2>10, BeforeTaken
    <3> QED
      BY <1>2, <1>4, <1>5, <1>6, <2>7, <2>8, <3>1, CommandArrives DEF e
  <2>11. /\ Facing(n, q, held[n], u)
         /\ \A y \in Nodes \ {m} : View(q, held[n], u, y) = View(pm[n], held[n], rpc[n], y)
    BY <2>7 DEF p
  <2>12. /\ resets = 0 /\ n \in Clients => InStep(View(q, held[n], u, m), Side(m, n), bus'[n][m], bus'[m][n])
         /\ resets = 0 /\ n \in Servers => InStep(Side(m, n), View(q, held[n], u, m), bus'[m][n], bus'[n][m])
    BY <2>9, <2>10 DEF v
  <2>13. Opposite(n, m) /\ Between(n, m)
    BY <1>3, <1>5
  <2> QED
    BY <2>2, <2>11, <2>12, <2>13, TwoNodes
<1>8. CASE /\ c.wake
           /\ pm' = [pm EXCEPT ![n].conns[fd].wake = FALSE]
           /\ rpc' = [rpc EXCEPT ![n][fd] = AfterRead(e.kind)]
  <2> DEFINE d == [c EXCEPT !.wake = FALSE]
             t == AfterRead(e.kind)
  <2>1. /\ d \in Conn /\ d.state = "live" /\ d.remote = m /\ d.id = c.id /\ d.accepted = c.accepted
        /\ d.queue = c.queue
    BY <1>3 DEF Conn, Live
  <2>2. t \in {"idle", "busy"}
    BY DEF AfterRead
  <2>3. Len(c.queue) = 0 /\ held[n][fd] # NoId
    <3>1. c.wake => c.queue = <<>> /\ held[n][fd] = c.id
      BY <1>1, <1>3 DEF Good, ParksOnLive
    <3> QED
      BY <1>3, <1>8, <3>1, Numbers
  <2>4. Moves(n, [p EXCEPT !.conns[fd] = d], held[n], [rpc[n] EXCEPT ![fd] = t])
    BY <1>8 DEF HandleData, Moves, IInv, TypeOK
  <2> HIDE DEF d, t, p, c, e
  <2>5. t = AfterRead(e.kind)
    BY DEF t
  <2> QED
    BY <1>7, <2>1, <2>2, <2>3, <2>4, <2>5
<1>9. CASE /\ pm' = [pm EXCEPT ![n].conns[fd].queue = Append(@, e)]
           /\ UNCHANGED rpc
  <2> DEFINE d == [c EXCEPT !.queue = Append(@, e)]
             t == rpc[n][fd]
  <2>1. /\ d \in Conn /\ d.state = "live" /\ d.remote = m /\ d.id = c.id /\ d.accepted = c.accepted
        /\ d.queue = Append(c.queue, e)
    <3> DEFINE longer == Append(c.queue, e)
    <3>1. longer \in Seq(Message)
      BY <1>3, <1>4, Posting
    <3>2. d = [c EXCEPT !.queue = longer]
      BY <1>3 DEF Conn
    <3> HIDE DEF longer, d, e
    <3> QED
      BY <1>3, <3>1, <3>2 DEF Conn, Live, Message, longer
  <2>2. Moves(n, [p EXCEPT !.conns[fd] = d], held[n], [rpc[n] EXCEPT ![fd] = t])
    BY <1>9 DEF HandleData, Moves, IInv, TypeOK
  <2> HIDE DEF d, p, c, e
  <2> QED
    BY <1>3, <1>7, <2>1, <2>2
<1> QED
  BY <1>8, <1>9 DEF HandleData

LEMMA DeliverStreams ==
  ASSUME IInv, Roles, Streams, NEW m \in Nodes, NEW n \in Nodes, Deliver(m, n)
  PROVE  Roles' /\ Streams'
<1> DEFINE e == Head(bus[m][n])
           rest == Tail(bus[m][n])
           fd == pm[n].byRemote[m]
<1>1. bus[m][n] \in Seq(Frame) /\ bus[m][n] # <<>> /\ UNCHANGED resets
  BY Known DEF Deliver
<1>2. Len(bus[m][n]) > 0
  BY <1>1
<1>3. CASE e.kind = "connect"
  <2>1. HandleConnect(n, m, e.id, rest) /\ UNCHANGED rpc
    BY <1>3 DEF Deliver
  <2> QED
    BY <1>1, <1>2, <1>3, <2>1, ConnectedStreams
<1>4. CASE e.kind # "connect"
  <2>1. bus' = [bus EXCEPT ![m][n] = rest]
    BY <1>4 DEF Deliver
  <2>2. Takes(n, m)
    BY <1>2, <2>1 DEF Takes
  <2>3. \/ fd = NoFd /\ UNCHANGED <<pm, held, rpc>>
        \/ fd # NoFd /\ e.kind = "accepted" /\ HandleAccepted(n, fd)
        \/ fd # NoFd /\ e.kind \in Commands /\ HandleData(n, fd, e)
        \/ /\ fd # NoFd /\ e.kind = "close"
           /\ pm' = [pm EXCEPT ![n] = Tombstone(@, fd)]
           /\ UNCHANGED <<held, rpc>>
    BY <1>4 DEF Deliver
  <2>4. CASE fd = NoFd /\ UNCHANGED <<pm, held, rpc>>
    BY <1>1, <2>2, <2>4, DroppedStreams
  <2>5. CASE fd # NoFd /\ e.kind = "accepted" /\ HandleAccepted(n, fd)
    BY <1>1, <2>2, <2>5, AcceptedStreams
  <2>6. CASE fd # NoFd /\ e.kind \in Commands /\ HandleData(n, fd, e)
    BY <1>1, <2>2, <2>6, DataStreams
  <2>7. CASE /\ fd # NoFd /\ e.kind = "close"
             /\ pm' = [pm EXCEPT ![n] = Tombstone(@, fd)]
             /\ UNCHANGED <<held, rpc>>
    BY <1>1, <2>2, <2>7, ClosedStreams
  <2> QED
    BY <2>3, <2>4, <2>5, <2>6, <2>7
<1> QED
  BY <1>3, <1>4
-----------------------------------------------------------------------------
(* Theorems.                                                                 *)

LEMMA InitStreams == Init => Roles /\ Streams
<1> SUFFICES ASSUME Init PROVE Roles /\ Streams
  OBVIOUS
<1>1. ASSUME NEW n \in Nodes
      PROVE  /\ pm[n].conns = [fd \in Fds |-> Free] /\ pm[n].byRemote = [m \in Nodes |-> NoFd]
             /\ held[n] = [fd \in Fds |-> NoId] /\ rpc[n] = [fd \in Fds |-> "idle"]
             /\ \A m \in Nodes : bus[n][m] = <<>>
  BY DEF Init
<1>2. Free.state = "free" /\ Free.queue = <<>>
  BY DEF Free
<1>3. Roles
  <2>1. \A n \in Nodes : Facing(n, pm[n], held[n], rpc[n])
    BY <1>1, <1>2 DEF Facing, Live
  <2> QED
    BY <1>1, <2>1 DEF Roles
<1>4. Streams
  <2> SUFFICES ASSUME NEW c \in Clients, NEW s \in Servers
               PROVE  InStep(Side(c, s), Side(s, c), bus[c][s], bus[s][c])
    BY DEF Streams
  <2>1. Side(c, s) = None /\ Side(s, c) = None /\ bus[c][s] = <<>> /\ bus[s][c] = <<>>
    BY <1>1 DEF Side, View, Nodes
  <2>2. /\ None.queue = <<>> /\ None.stage = "none" /\ None.rpc = "idle"
        /\ Len(<<>>) = 0
    BY DEF None
  <2>3. InStep(None, None, <<>>, <<>>)
    BY <2>2 DEF InStep, ClientKnows, ToServer, ToClient, ServerQueue, ClientQueue, OneCommand, Asks
  <2> QED
    BY <2>1, <2>3
<1> QED
  BY <1>3, <1>4

LEMMA StepStreams == IInv /\ Roles /\ Streams /\ [Next]_vars => Roles' /\ Streams'
<1> SUFFICES ASSUME IInv, Roles, Streams, [Next]_vars PROVE Roles' /\ Streams'
  OBVIOUS
<1>1. CASE UNCHANGED vars
  BY <1>1 DEF vars, Roles, Streams, Side, Opposite
<1>2. ASSUME NEW n \in Nodes, NEW m \in Nodes, Deliver(n, m) PROVE Roles' /\ Streams'
  BY <1>2, DeliverStreams
<1>3. ASSUME NEW n \in Nodes, Runtime(n) PROVE Roles' /\ Streams'
  <2>1. ASSUME NEW m \in Nodes, Connect(n, m) PROVE Roles' /\ Streams'
    BY <2>1, ConnectStreams
  <2>2. ASSUME NEW fd \in Fds, Send(n, fd) \/ Recv(n, fd) \/ CloseConnection(n, fd)
        PROVE  Roles' /\ Streams'
    BY <2>2, SendStreams, RecvStreams, CloseConnectionStreams
  <2> QED
    BY <1>3, <2>1, <2>2, AcceptStreams, CloseStreams DEF Runtime
<1> QED
  BY <1>1, <1>2, <1>3 DEF Next

(* Every client and server stay in step with each other, whatever the bus    *)
(* still holds, as long as nobody calls close().                             *)
THEOREM AlwaysInStep == Spec => [](Roles /\ Streams)
<1>1. Init => IInv /\ Roles /\ Streams
  BY InitIInv, InitStreams
<1>2. IInv /\ Roles /\ Streams /\ [Next]_vars => (IInv /\ Roles /\ Streams)'
  BY StepIInv, StepStreams
<1> QED
  BY <1>1, <1>2, PTL DEF Spec

(* No connection ever carries a command that was sent on another one, for    *)
(* any number of nodes, fds and connect() calls.                             *)
THEOREM CommandsNeverMix == Spec => []StreamsDoNotMix
<1>1. IInv /\ Roles /\ Streams => StreamsDoNotMix
  <2> SUFFICES ASSUME IInv, Roles, Streams, resets = 0, NEW n \in Nodes, NEW fd \in Fds
               PROVE  LET conn == pm[n].conns[fd]
                      IN \A i \in 1..Len(conn.queue) : conn.queue[i].id = conn.id
    BY DEF StreamsDoNotMix
  <2> DEFINE m == pm[n].conns[fd].remote
  <2>1. CASE ~Live(pm[n], fd)
    <3>1. pm[n].conns[fd].queue = <<>>
      BY <2>1 DEF Roles, Facing
    <3> QED
      BY <3>1
  <2>2. CASE Live(pm[n], fd)
    <3>1. /\ Side(n, m).id = pm[n].conns[fd].id /\ Side(n, m).queue = pm[n].conns[fd].queue
          /\ n \in Clients => m \in Servers
          /\ n \notin Clients => n \in Servers /\ m \in Clients
      BY <2>2, LiveEnd
    <3>2. CASE n \in Clients
      <4>1. InStep(Side(n, m), Side(m, n), bus[n][m], bus[m][n])
        BY <3>1, <3>2, PairInStep
      <4> QED
        BY <3>1, <4>1 DEF InStep, ClientQueue
    <3>3. CASE n \notin Clients
      <4>1. InStep(Side(m, n), Side(n, m), bus[m][n], bus[n][m])
        BY <3>1, <3>3, PairInStep
      <4> QED
        BY <3>1, <4>1 DEF InStep, ServerQueue
    <3> QED
      BY <3>2, <3>3
  <2> QED
    BY <2>1, <2>2
<1> QED
  BY <1>1, Invariance, AlwaysInStep, PTL

-----------------------------------------------------------------------------
(* A number for every connect().  The thread of a server holds one fd at a *)
(* time, every tombstone of a server is the one it holds, and every other  *)
(* slot in use is a client's own: none is the client's whose connect() is  *)
(* on its way, unless the thread holds it.                                 *)

(* The Runtime of a server takes one connection at a time. *)
ServesOne(p, h) ==
  /\ p.acceptWaiters <= 1
  /\ p.acceptWaiters > 0 => \A fd \in Fds : h[fd] = NoId
  /\ \A fd, g \in Fds : h[fd] # NoId /\ h[g] # NoId => fd = g
  /\ \A fd \in Fds : ~p.conns[fd].accepted

OwnsDead(p, h) == \A fd \in Fds : p.conns[fd].state = "dead" => h[fd] # NoId

Attends(n) == ServesOne(pm[n], held[n]) /\ (resets = 0 => OwnsDead(pm[n], held[n]))

Attending == \A n \in Servers : Attends(n)

(* A step that gives the Runtime nothing, and tombstones what it holds.     *)
LEMMA StillAttends ==
  ASSUME NEW n, Attends(n), NEW q, NEW k, pm'[n] = q, held'[n] = k, resets' = resets,
         q.acceptWaiters = pm[n].acceptWaiters,
         \A fd \in Fds : q.conns[fd].accepted => pm[n].conns[fd].accepted,
         \A fd \in Fds : k[fd] = held[n][fd] \/ (k[fd] = NoId /\ q.conns[fd].state = "free"),
         resets = 0 => \A fd \in Fds : q.conns[fd].state = "dead" =>
                                         pm[n].conns[fd].state = "dead" \/ held[n][fd] # NoId
  PROVE  Attends(n)'
<1>1. ServesOne(q, k)
  BY DEF Attends, ServesOne
<1>2. resets = 0 => OwnsDead(q, k)
  BY DEF Attends, OwnsDead
<1> QED
  BY <1>1, <1>2 DEF Attends

LEMMA Untouched ==
  ASSUME NEW n, Attends(n), pm'[n] = pm[n], held'[n] = held[n], resets' = resets
  PROVE  Attends(n)'
BY DEF Attends, ServesOne, OwnsDead

(* One slot changes, and is not given to the Runtime by it. *)
LEMMA SlotAttends ==
  ASSUME NEW n, Attends(n), pm[n] \in Manager, NEW fd \in Fds, NEW c,
         pm'[n] = [pm[n] EXCEPT !.conns[fd] = c], held'[n] = held[n], resets' = resets,
         c.accepted => pm[n].conns[fd].accepted, c.state # "dead"
  PROVE  Attends(n)'
<1> DEFINE q == [pm[n] EXCEPT !.conns[fd] = c]
<1>1. /\ q.conns = [pm[n].conns EXCEPT ![fd] = c] /\ q.acceptWaiters = pm[n].acceptWaiters
      /\ pm[n].conns \in [Fds -> Conn]
  BY DEF Manager
<1> HIDE DEF q
<1>2. q.conns[fd] = c /\ \A g \in Fds \ {fd} : q.conns[g] = pm[n].conns[g]
  BY <1>1
<1>3. pm'[n] = q
  BY DEF q
<1> QED
  BY <1>1, <1>2, <1>3, StillAttends

(* The connection a frame belongs to becomes a tombstone the Runtime holds. *)
LEMMA TombstoneAttends ==
  ASSUME NEW n, Attends(n), Good(pm[n], held[n]), NEW fd \in Fds, Live(pm[n], fd),
         pm'[n] = Tombstone(pm[n], fd), held'[n] = held[n], resets' = resets,
         resets = 0 => held[n][fd] # NoId
  PROVE  Attends(n)'
<1> DEFINE q == Tombstone(pm[n], fd)
<1>1. pm[n] \in Manager /\ pm[n].conns[fd].remote \in Nodes /\ Distinct(pm[n].readyFds)
  BY DEF Good, Typed, LiveIsReal, QueuesWaiting
<1>2. /\ \A g \in Fds \ {fd} : q.conns[g] = pm[n].conns[g]
      /\ ~q.conns[fd].accepted /\ q.acceptWaiters = pm[n].acceptWaiters
  BY <1>1, TombstoneIs
<1> HIDE DEF q
<1>3. pm'[n] = q
  BY DEF q
<1>4. \A g \in Fds : q.conns[g].accepted => pm[n].conns[g].accepted
  BY <1>2
<1>5. resets = 0 => \A g \in Fds : q.conns[g].state = "dead" =>
                                     pm[n].conns[g].state = "dead" \/ held[n][g] # NoId
  BY <1>2
<1> QED
  BY <1>2, <1>3, <1>4, <1>5, StillAttends

(* A server's connection with the client a frame comes from is not queued.  *)
LEMMA FrameOfHeld ==
  ASSUME IInv, Roles, Streams, resets = 0, NEW n \in Servers, NEW m \in Nodes, n \in Nodes,
         NEW k \in 1..Len(bus[m][n]), pm[n].byRemote[m] # NoFd,
         ~pm[n].conns[pm[n].byRemote[m]].accepted
  PROVE  m \in Clients /\ held[n][pm[n].byRemote[m]] # NoId
<1>1. Len(bus[m][n]) > 0
  <2>1. Len(bus[m][n]) \in Nat
    BY Known
  <2> QED
    BY <2>1
<1>2. m \in Clients /\ InStep(Side(m, n), Side(n, m), bus[m][n], bus[n][m])
  BY <1>1, Taken, PairInStep
<1>3. Side(n, m).stage # "waits"
  BY <1>1, <1>2 DEF InStep, ServerQueue
<1> QED
  BY <1>2, <1>3 DEF Side, View

LEMMA ConnectedAttends ==
  ASSUME IInv, Roles, Streams, NEW n \in Servers, n \in Nodes, NEW m \in Nodes, Attends(n),
         Len(bus[m][n]) > 0, HandleConnect(n, m, Head(bus[m][n]).id, Tail(bus[m][n])),
         resets' = resets
  PROVE  Attends(n)'
<1> DEFINE id == Head(bus[m][n]).id
           p == pm[n]
           old == p.byRemote[m]
<1>1. Good(p, held[n]) /\ p \in Manager /\ held[n] \in [Fds -> Ids \cup {NoId}]
      /\ bus[m][n] \in Seq(Frame) /\ pm \in [Nodes -> Manager]
      /\ held \in [Nodes -> [Fds -> Ids \cup {NoId}]]
  BY Known DEF IInv, TypeOK
<1>2. id \in Ids
  <2>1. bus[m][n] # <<>> /\ Head(bus[m][n]) \in Frame
    BY <1>1
  <2> QED
    BY <2>1 DEF Frame
<1>3. old # NoFd /\ resets = 0 => held[n][old] # NoId
  <2>1. old # NoFd => old \in Fds
    BY <1>1, FoundIsLive
  <2>2. 1 \in 1..Len(bus[m][n])
    BY <1>1
  <2> QED
    BY <2>1, <2>2, FrameOfHeld DEF Attends, ServesOne
<1>4. ASSUME NEW fd \in Fds, NewFd(p, fd)
      PROVE  LET x == CreateConn(p, fd, m, id)
             IN  /\ x \in Manager /\ x.acceptWaiters = p.acceptWaiters /\ held[n][fd] = NoId
                 /\ \A g \in Fds : ~x.conns[g].accepted
                 /\ resets = 0 => OwnsDead(x, held[n])
  <2> DEFINE x == CreateConn(p, fd, m, id)
  <2>1. p.conns[fd].state = "free"
    BY <1>4 DEF NewFd
  <2>2. /\ x \in Manager /\ ParksOnLive(x, held[n]) /\ x.acceptWaiters = p.acceptWaiters
        /\ held[n][fd] = NoId /\ ~x.conns[fd].accepted
    BY <1>1, <1>2, <2>1, CreateConnIs DEF Typed
  <2>3. /\ x.conns[fd].state = "live"
        /\ \A g \in Fds \ {fd} : \/ x.conns[g] = p.conns[g]
                                 \/ g = old /\ x.conns[g].state = "dead"
    <3>1. Good(p, held[n]) /\ id \in Ids /\ p.conns[fd].state = "free"
      BY <1>1, <1>2, <2>1
    <3> HIDE DEF id, p
    <3> QED
      BY <3>1, CreatedSlots DEF p
  <2> HIDE DEF x
  <2>4. \A g \in Fds : ~x.conns[g].accepted
    BY <2>2, <2>3 DEF Attends, ServesOne, ParksOnLive, Live
  <2>5. ASSUME resets = 0 PROVE OwnsDead(x, held[n])
    BY <1>3, <2>3, <2>5, Numbers DEF Attends, OwnsDead
  <2> QED
    BY <2>2, <2>4, <2>5 DEF x
<1>5. CASE Full(p) /\ UNCHANGED <<pm, held>>
  BY <1>5, Untouched
<1>6. ASSUME NEW fd \in Fds, NewFd(p, fd), CreateConn(p, fd, m, id).acceptWaiters > 0,
             pm' = [pm EXCEPT ![n] = [CreateConn(p, fd, m, id) EXCEPT !.acceptWaiters = @ - 1]],
             held' = [held EXCEPT ![n][fd] = id]
      PROVE  Attends(n)'
  <2> DEFINE x == CreateConn(p, fd, m, id)
             q == [x EXCEPT !.acceptWaiters = @ - 1]
             k == [held[n] EXCEPT ![fd] = id]
  <2>1. /\ x \in Manager /\ x.acceptWaiters = p.acceptWaiters
        /\ \A g \in Fds : ~x.conns[g].accepted /\ (resets = 0 => OwnsDead(x, held[n]))
    BY <1>4, <1>6
  <2>2. pm'[n] = q /\ held'[n] = k
    BY <1>1, <1>6
  <2>3. x.acceptWaiters > 0
    BY <1>6
  <2> HIDE DEF x
  <2>4. q.acceptWaiters = x.acceptWaiters - 1 /\ q.conns = x.conns
    BY <2>1 DEF Manager
  <2>5. p.acceptWaiters \in Nat /\ p.acceptWaiters <= 1 /\ \A g \in Fds : held[n][g] = NoId
    BY <1>1, <2>1, <2>3, ManagerFields DEF Attends, ServesOne
  <2>6. \A g \in Fds : k[g] # NoId => g = fd
    BY <1>1, <2>5
  <2>7. k[fd] # NoId
    BY <1>1, <1>2, Numbers
  <2> HIDE DEF q, k
  <2>8. ServesOne(q, k)
    BY <2>1, <2>3, <2>4, <2>5, <2>6 DEF ServesOne
  <2>9. resets = 0 => OwnsDead(q, k)
    BY <2>1, <2>4, <2>5, <2>7 DEF OwnsDead
  <2> QED
    BY <2>2, <2>8, <2>9 DEF Attends
<1>7. ASSUME NEW fd \in Fds, NewFd(p, fd),
             pm' = [pm EXCEPT ![n] = [CreateConn(p, fd, m, id) EXCEPT !.readyFds = Append(@, fd)]],
             held' = held
      PROVE  Attends(n)'
  <2> DEFINE x == CreateConn(p, fd, m, id)
             q == [x EXCEPT !.readyFds = Append(@, fd)]
  <2>1. /\ x \in Manager /\ x.acceptWaiters = p.acceptWaiters
        /\ \A g \in Fds : ~x.conns[g].accepted /\ (resets = 0 => OwnsDead(x, held[n]))
    BY <1>4, <1>7
  <2>2. pm'[n] = q /\ held'[n] = held[n]
    BY <1>1, <1>7
  <2> HIDE DEF x
  <2>3. q.acceptWaiters = p.acceptWaiters /\ q.conns = x.conns
    BY <2>1 DEF Manager
  <2> HIDE DEF q
  <2>4. ServesOne(q, held[n])
    BY <2>1, <2>3 DEF Attends, ServesOne
  <2>5. resets = 0 => OwnsDead(q, held[n])
    BY <2>1, <2>3 DEF OwnsDead
  <2> QED
    BY <2>2, <2>4, <2>5 DEF Attends
<1> QED
  BY <1>5, <1>6, <1>7 DEF HandleConnect

LEMMA DeliverAttends ==
  ASSUME IInv, Roles, Streams, NEW n \in Servers, n \in Nodes, NEW m \in Nodes, Attends(n),
         Deliver(m, n)
  PROVE  Attends(n)'
<1> DEFINE frame == Head(bus[m][n])
           fd == pm[n].byRemote[m]
<1>1. /\ Good(pm[n], held[n]) /\ pm[n] \in Manager /\ bus[m][n] \in Seq(Frame)
      /\ pm \in [Nodes -> Manager] /\ held \in [Nodes -> [Fds -> Ids \cup {NoId}]]
  BY Known DEF IInv, TypeOK
<1>2. Len(bus[m][n]) > 0 /\ resets' = resets /\ 1 \in 1..Len(bus[m][n])
  BY <1>1 DEF Deliver
<1>3. CASE frame.kind = "connect"
  <2>1. HandleConnect(n, m, Head(bus[m][n]).id, Tail(bus[m][n]))
    BY <1>3 DEF Deliver
  <2> QED
    BY <1>2, <2>1, ConnectedAttends
<1>4. CASE frame.kind # "connect"
  <2>1. \/ fd = NoFd /\ UNCHANGED <<pm, held>>
        \/ fd # NoFd /\ HandleAccepted(n, fd)
        \/ fd # NoFd /\ HandleData(n, fd, frame)
        \/ /\ fd # NoFd /\ pm' = [pm EXCEPT ![n] = Tombstone(@, fd)]
           /\ held' = held
    BY <1>4 DEF Deliver
  <2>2. fd # NoFd => fd \in Fds /\ Live(pm[n], fd) /\ pm[n].conns[fd] \in Conn
    BY <1>1, FoundIsLive, ManagerFields
  <2>3. CASE fd = NoFd /\ UNCHANGED <<pm, held>>
    BY <1>2, <2>3, Untouched
  <2>4. CASE fd # NoFd /\ HandleAccepted(n, fd)
    <3> DEFINE c == [pm[n].conns[fd] EXCEPT !.accepted = FALSE]
    <3>1. pm' = [pm EXCEPT ![n] = [pm[n] EXCEPT !.conns[fd] = c]]
      BY <2>4 DEF HandleAccepted
    <3>2. ~pm[n].conns[fd].accepted
      BY <2>2, <2>4 DEF Attends, ServesOne
    <3>3. held' = held
      BY <2>4, <3>2 DEF HandleAccepted
    <3>4. ~c.accepted /\ c.state # "dead"
      BY <2>2, <2>4 DEF Conn, Live
    <3> HIDE DEF c, fd
    <3> QED
      BY <1>1, <1>2, <2>2, <2>4, <3>1, <3>3, <3>4, SlotAttends
  <2>5. CASE fd # NoFd /\ HandleData(n, fd, frame)
    <3> DEFINE w == [pm[n].conns[fd] EXCEPT !.wake = FALSE]
               r == [pm[n].conns[fd] EXCEPT !.queue = Append(@, frame)]
    <3>1. \/ pm' = [pm EXCEPT ![n] = [pm[n] EXCEPT !.conns[fd] = w]]
          \/ pm' = [pm EXCEPT ![n] = [pm[n] EXCEPT !.conns[fd] = r]]
      BY <2>5 DEF HandleData
    <3>2. w.accepted = pm[n].conns[fd].accepted /\ w.state = pm[n].conns[fd].state
      BY <2>2, <2>5 DEF Conn
    <3>3. r.accepted = pm[n].conns[fd].accepted /\ r.state = pm[n].conns[fd].state
      BY <2>2, <2>5 DEF Conn
    <3>4. held'[n] = held[n] /\ pm[n].conns[fd].state # "dead" /\ fd \in Fds
      BY <2>2, <2>5 DEF HandleData, Live
    <3> HIDE DEF fd, w, r
    <3>5. \/ pm'[n] = [pm[n] EXCEPT !.conns[fd] = w]
          \/ pm'[n] = [pm[n] EXCEPT !.conns[fd] = r]
      BY <1>1, <3>1
    <3>6. CASE pm'[n] = [pm[n] EXCEPT !.conns[fd] = w]
      BY <1>1, <1>2, <3>2, <3>4, <3>6, SlotAttends
    <3>7. CASE pm'[n] = [pm[n] EXCEPT !.conns[fd] = r]
      BY <1>1, <1>2, <3>3, <3>4, <3>7, SlotAttends
    <3> QED
      BY <3>5, <3>6, <3>7
  <2>6. CASE fd # NoFd /\ pm' = [pm EXCEPT ![n] = Tombstone(@, fd)] /\ held' = held
    <3>1. resets = 0 => held[n][fd] # NoId
      BY <1>2, <2>2, <2>6, FrameOfHeld DEF Attends, ServesOne
    <3>2. pm'[n] = Tombstone(pm[n], fd)
      BY <1>1, <2>6
    <3> QED
      BY <1>1, <1>2, <2>2, <2>6, <3>1, <3>2, TombstoneAttends
  <2> QED
    BY <2>1, <2>3, <2>4, <2>5, <2>6
<1> QED
  BY <1>3, <1>4

LEMMA AcceptAttends ==
  ASSUME IInv, NEW n \in Servers, n \in Nodes, Attends(n), Accept(n)
  PROVE  Attends(n)'
<1>1. /\ pm \in [Nodes -> Manager] /\ held \in [Nodes -> [Fds -> Ids \cup {NoId}]]
      /\ pm[n] \in Manager
  BY DEF IInv, TypeOK
<1>2. /\ pm[n].acceptWaiters = 0 /\ \A g \in Fds : held[n][g] = NoId
      /\ resets' = resets
  BY DEF Accept, ServerIdle
<1>3. \/ \E i \in 1..Len(pm[n].readyFds) : \E ready :
           /\ pm' = [pm EXCEPT ![n].readyFds = ready]
           /\ held' = [held EXCEPT ![n][pm[n].readyFds[i]] = pm[n].conns[pm[n].readyFds[i]].id]
      \/ /\ pm' = [pm EXCEPT ![n].readyFds = <<>>, ![n].acceptWaiters = @ + 1]
         /\ held' = held
  BY DEF Accept
<1>4. ASSUME NEW i \in 1..Len(pm[n].readyFds), NEW ready,
             pm' = [pm EXCEPT ![n].readyFds = ready],
             held' = [held EXCEPT ![n][pm[n].readyFds[i]] = pm[n].conns[pm[n].readyFds[i]].id]
      PROVE  Attends(n)'
  <2>1. pm'[n].conns = pm[n].conns /\ pm'[n].acceptWaiters = 0
    BY <1>1, <1>2, <1>4 DEF Manager
  <2>2. \A g \in Fds : held'[n][g] # NoId => g = pm[n].readyFds[i]
    BY <1>1, <1>2, <1>4
  <2>3. ServesOne(pm'[n], held'[n])
    BY <2>1, <2>2 DEF Attends, ServesOne
  <2>4. resets = 0 => OwnsDead(pm'[n], held'[n])
    BY <1>2, <2>1 DEF Attends, OwnsDead
  <2> QED
    BY <1>2, <2>3, <2>4 DEF Attends
<1>5. CASE /\ pm' = [pm EXCEPT ![n].readyFds = <<>>, ![n].acceptWaiters = @ + 1]
           /\ held' = held
  <2> DEFINE q == [pm[n] EXCEPT !.readyFds = <<>>, !.acceptWaiters = @ + 1]
  <2>1. q.conns = pm[n].conns
    BY <1>1 DEF Manager
  <2>2. q.acceptWaiters = 0 + 1
    BY <1>1, <1>2 DEF Manager
  <2>3. pm'[n] = q /\ held'[n] = held[n]
    BY <1>1, <1>5
  <2> HIDE DEF q
  <2>4. ServesOne(q, held[n])
    BY <1>2, <2>1, <2>2 DEF Attends, ServesOne
  <2>5. resets = 0 => OwnsDead(q, held[n])
    BY <2>1 DEF Attends, OwnsDead
  <2> QED
    BY <1>2, <2>3, <2>4, <2>5 DEF Attends
<1> QED
  BY <1>3, <1>4, <1>5

LEMMA CallsAttend ==
  ASSUME IInv, NEW n \in Servers, n \in Nodes, Attends(n),
         NEW fd \in Fds, Send(n, fd) \/ Recv(n, fd) \/ CloseConnection(n, fd)
  PROVE  Attends(n)'
<1>1. /\ pm \in [Nodes -> Manager] /\ held \in [Nodes -> [Fds -> Ids \cup {NoId}]]
      /\ pm[n] \in Manager /\ Good(pm[n], held[n]) /\ pm[n].conns[fd] \in Conn
  BY ManagerFields DEF IInv, TypeOK
<1>2. CASE Send(n, fd)
  BY <1>2, Untouched DEF Send
<1>3. CASE Recv(n, fd)
  <2>1. held' = held /\ resets' = resets /\ Live(pm[n], fd)
    BY <1>3 DEF Recv
  <2>2. \/ pm' = [pm EXCEPT ![n] = [pm[n] EXCEPT !.conns[fd] = [pm[n].conns[fd] EXCEPT !.queue = Tail(@)]]]
        \/ pm' = [pm EXCEPT ![n] = [pm[n] EXCEPT !.conns[fd] = [pm[n].conns[fd] EXCEPT !.wake = TRUE]]]
    BY <1>3 DEF Recv
  <2>3. PICK c : /\ pm' = [pm EXCEPT ![n] = [pm[n] EXCEPT !.conns[fd] = c]]
                 /\ c.accepted = pm[n].conns[fd].accepted /\ c.state = pm[n].conns[fd].state
    BY <1>1, <2>2 DEF Conn
  <2>4. c.state # "dead" /\ held'[n] = held[n] /\ pm'[n] = [pm[n] EXCEPT !.conns[fd] = c]
    BY <1>1, <2>1, <2>3 DEF Live
  <2> QED
    BY <1>1, <2>1, <2>3, <2>4, SlotAttends
<1>4. CASE CloseConnection(n, fd)
  <2> DEFINE t == Tombstone(pm[n], fd)
             q == [t EXCEPT !.conns[fd] = Free]
             k == [held[n] EXCEPT ![fd] = NoId]
  <2>1. pm'[n] = q /\ held'[n] = k /\ resets' = resets
    BY <1>1, <1>4 DEF CloseConnection
  <2>2. /\ t \in Manager /\ t.acceptWaiters = pm[n].acceptWaiters
        /\ \A g \in Fds \ {fd} : t.conns[g] = pm[n].conns[g]
    <3>1. CASE Live(pm[n], fd)
      BY <1>1, <3>1, TombstoneIs DEF Good, LiveIsReal, QueuesWaiting
    <3>2. CASE ~Live(pm[n], fd)
      BY <1>1, <3>2 DEF Tombstone
    <3> QED
      BY <3>1, <3>2
  <2> HIDE DEF t
  <2>3. t.conns \in [Fds -> Conn]
    BY <2>2, ManagerFields
  <2>4. q.conns = [t.conns EXCEPT ![fd] = Free] /\ q.acceptWaiters = t.acceptWaiters
    BY <2>2 DEF Manager
  <2> HIDE DEF q
  <2>5. /\ q.conns[fd].state = "free" /\ ~q.conns[fd].accepted
        /\ \A g \in Fds \ {fd} : q.conns[g] = pm[n].conns[g]
    BY <2>2, <2>3, <2>4, FreeTyped
  <2>6. k[fd] = NoId /\ \A g \in Fds \ {fd} : k[g] = held[n][g]
    BY <1>1
  <2> HIDE DEF k
  <2>7. \A g \in Fds : q.conns[g].accepted => pm[n].conns[g].accepted
    BY <2>5
  <2>8. \A g \in Fds : k[g] = held[n][g] \/ (k[g] = NoId /\ q.conns[g].state = "free")
    BY <2>5, <2>6
  <2>9. \A g \in Fds : q.conns[g].state = "dead" => pm[n].conns[g].state = "dead"
    BY <2>5
  <2>10. q.acceptWaiters = pm[n].acceptWaiters
    BY <2>2, <2>4
  <2> QED
    BY <2>1, <2>7, <2>8, <2>9, <2>10, StillAttends
<1> QED
  BY <1>2, <1>3, <1>4

LEMMA CloseAttends ==
  ASSUME IInv, NEW n \in Servers, n \in Nodes, Attends(n), Close(n)
  PROVE  Attends(n)'
<1> DEFINE p == pm[n]
           q == [p EXCEPT !.conns = [fd \in Fds |-> Tombstone(p, fd).conns[fd]],
                          !.byRemote = [m \in Nodes |-> NoFd],
                          !.readyFds = <<>>]
<1>1. p \in Manager /\ Good(p, held[n]) /\ pm \in [Nodes -> Manager] /\ resets \in Nat
  BY BoundAssumption DEF IInv, TypeOK
<1>2. q.conns = [fd \in Fds |-> Tombstone(p, fd).conns[fd]] /\ q.acceptWaiters = p.acceptWaiters
  BY <1>1 DEF Manager
<1>3. pm'[n] = q /\ held' = held /\ resets' = resets + 1
  BY <1>1 DEF Close
<1> HIDE DEF q
<1>4. ASSUME NEW fd \in Fds PROVE ~q.conns[fd].accepted
  <2>1. CASE Live(p, fd)
    BY <1>1, <1>2, <2>1, TombstoneIs DEF Good, LiveIsReal, QueuesWaiting
  <2>2. CASE ~Live(p, fd)
    BY <1>2, <2>2 DEF Tombstone, Attends, ServesOne
  <2> QED
    BY <2>1, <2>2
<1>5. ServesOne(q, held[n])
  BY <1>2, <1>4 DEF Attends, ServesOne
<1>6. resets' # 0
  BY <1>1, <1>3
<1> QED
  BY <1>3, <1>5, <1>6 DEF Attends

(* A step of another node leaves a server alone. *)
LEMMA OthersAttend ==
  ASSUME IInv, NEW n \in Nodes, Attends(n), NEW x \in Nodes \ {n},
         Runtime(x) \/ \E m \in Nodes : Deliver(m, x)
  PROVE  Attends(n)'
<1>1. /\ pm \in [Nodes -> Manager] /\ held \in [Nodes -> [Fds -> Ids \cup {NoId}]]
      /\ resets \in Nat
  BY BoundAssumption DEF IInv, TypeOK
<1>2. pm'[n] = pm[n] /\ held'[n] = held[n] /\ (resets' = resets \/ resets' = resets + 1)
  <2>1. ASSUME NEW m \in Nodes, Deliver(m, x)
        PROVE  pm'[n] = pm[n] /\ held'[n] = held[n] /\ resets' = resets
    <3>1. ASSUME HandleConnect(x, m, Head(bus[m][x]).id, Tail(bus[m][x]))
          PROVE  pm'[n] = pm[n] /\ held'[n] = held[n]
      BY <1>1, <3>1 DEF HandleConnect
    <3>2. ASSUME NEW fd, HandleAccepted(x, fd)
          PROVE  pm'[n] = pm[n] /\ held'[n] = held[n]
      BY <1>1, <3>2 DEF HandleAccepted
    <3>3. ASSUME NEW fd, NEW frame, HandleData(x, fd, frame)
          PROVE  pm'[n] = pm[n] /\ held'[n] = held[n]
      BY <1>1, <3>3 DEF HandleData
    <3> QED
      BY <1>1, <2>1, <3>1, <3>2, <3>3 DEF Deliver
  <2>2. ASSUME NEW m \in Nodes, Connect(x, m)
        PROVE  pm'[n] = pm[n] /\ held'[n] = held[n] /\ resets' = resets
    BY <1>1, <2>2 DEF Connect
  <2>3. CASE Accept(x)
    BY <1>1, <2>3 DEF Accept
  <2>4. ASSUME NEW fd \in Fds, Send(x, fd) \/ Recv(x, fd) \/ CloseConnection(x, fd)
        PROVE  pm'[n] = pm[n] /\ held'[n] = held[n] /\ resets' = resets
    BY <1>1, <2>4 DEF Send, Recv, CloseConnection
  <2>5. CASE Close(x)
    BY <1>1, <2>5 DEF Close
  <2> QED
    BY <2>1, <2>2, <2>3, <2>4, <2>5 DEF Runtime
<1>3. resets' = 0 => resets = 0
  BY <1>1, <1>2
<1> QED
  BY <1>2, <1>3 DEF Attends

LEMMA StepAttends == IInv /\ Roles /\ Streams /\ Attending /\ [Next]_vars => Attending'
<1> SUFFICES ASSUME IInv, Roles, Streams, Attending, [Next]_vars, NEW n \in Servers
             PROVE  Attends(n)'
  BY DEF Attending
<1>1. n \in Nodes /\ n \notin Clients /\ Attends(n)
  BY NodeAssumption DEF Nodes, Attending
<1>2. CASE UNCHANGED vars
  BY <1>1, <1>2, Untouched DEF vars
<1>3. ASSUME NEW m \in Nodes, NEW x \in Nodes, Deliver(m, x) PROVE Attends(n)'
  BY <1>1, <1>3, DeliverAttends, OthersAttend
<1>4. ASSUME NEW x \in Nodes, Runtime(x) PROVE Attends(n)'
  <2>1. CASE x # n
    BY <1>1, <1>4, <2>1, OthersAttend
  <2>2. CASE x = n
    <3>1. \A m : ~Connect(n, m)
      BY <1>1 DEF Connect
    <3> QED
      BY <1>1, <1>4, <2>2, <3>1, AcceptAttends, CallsAttend, CloseAttends DEF Runtime
  <2> QED
    BY <2>1, <2>2
<1> QED
  BY <1>2, <1>3, <1>4 DEF Next

LEMMA InitAttends == Init => Attending
<1> SUFFICES ASSUME Init, NEW n \in Servers PROVE Attends(n)
  BY DEF Attending
<1>1. /\ pm[n].conns = [fd \in Fds |-> Free] /\ pm[n].acceptWaiters = 0
      /\ held[n] = [fd \in Fds |-> NoId]
  BY DEF Init, Nodes
<1> QED
  BY <1>1, FreeTyped DEF Attends, ServesOne, OwnsDead

(* What others take of a server is queued or served, for different clients, *)
(* none of them the one whose frame is on its way.                          *)
LEMMA FewTaken ==
  ASSUME IInv, Roles, Streams, resets = 0, NEW n \in Servers, n \in Nodes, Attends(n),
         NEW m \in Clients, NEW k \in 1..Len(bus[m][n]), IsFiniteSet(Clients)
  PROVE  LET W == TakenByOthers(n, m)
         IN  IsFiniteSet(W) /\ Cardinality(W) <= Cardinality(Clients) - 1
<1> DEFINE W == TakenByOthers(n, m)
           Others == Clients \ {m}
           f == [fd \in W |-> pm[n].conns[fd].remote]
<1>1. m \in Nodes /\ n \notin Clients /\ Good(pm[n], held[n]) /\ pm[n] \in Manager
  BY NodeAssumption DEF Nodes, IInv, TypeOK
<1>2. ASSUME NEW fd \in W
      PROVE  pm[n].conns[fd].remote \in Others /\ pm[n].byRemote[pm[n].conns[fd].remote] = fd
  <2>1. /\ fd \in Fds /\ pm[n].conns[fd].state # "free"
        /\ held[n][fd] # NoId => Live(pm[n], fd) /\ pm[n].conns[fd].remote # m
    BY <1>2 DEF TakenByOthers
  <2>2. Live(pm[n], fd)
    <3>1. pm[n].conns[fd].state \in {"free", "live", "dead"}
      BY <1>1, <2>1, ManagerFields, ConnFields
    <3>2. pm[n].conns[fd].state = "dead" => held[n][fd] # NoId
      BY <2>1 DEF Attends, OwnsDead
    <3> QED
      BY <2>1, <3>1, <3>2 DEF Live
  <2>3. /\ pm[n].conns[fd].remote \in Clients
        /\ pm[n].byRemote[pm[n].conns[fd].remote] = fd
    BY <1>1, <2>1, <2>2, LiveEnd
  <2>4. fd # NoFd /\ ~pm[n].conns[fd].accepted
    BY <2>1, Numbers DEF Attends, ServesOne
  <2>5. pm[n].conns[fd].remote # m
    BY <1>1, <2>1, <2>3, <2>4, FrameOfHeld
  <2> QED
    BY <2>3, <2>5
<1>3. f \in Injection(W, Others)
  BY <1>2 DEF Injection, IsInjective
<1>4. IsFiniteSet(Others) /\ Cardinality(Others) = Cardinality(Clients) - 1
  BY FS_RemoveElement
<1> HIDE DEF W, Others, f
<1>5. IsFiniteSet(W) /\ Cardinality(W) <= Cardinality(Others)
  BY <1>3, <1>4, FS_Injection
<1> QED
  BY <1>4, <1>5 DEF W

LEMMA OthersLeave ==
  ASSUME IInv, Roles, Streams, Attending, IsFiniteSet(Clients)
  PROVE  OthersLeaveNumber
<1> SUFFICES ASSUME resets = 0, NEW n \in Servers, NEW m \in Clients,
                    NEW k \in 1..Len(bus[m][n])
             PROVE  Cardinality(TakenByOthers(n, m)) < Cardinality(Clients)
  BY DEF OthersLeaveNumber, ConnectUnderWay
<1> DEFINE W == TakenByOthers(n, m)
<1>1. n \in Nodes /\ Attends(n)
  BY DEF Nodes, Attending
<1>2. IsFiniteSet(W) /\ Cardinality(W) <= Cardinality(Clients) - 1
  BY <1>1, FewTaken
<1> HIDE DEF W
<1>3. Cardinality(W) \in Nat /\ Cardinality(Clients) \in Nat
  BY <1>2, FS_CardinalityType
<1>4. Cardinality(W) < Cardinality(Clients)
  BY <1>2, <1>3
<1> QED
  BY <1>4 DEF W

(* What the Runtime of a server holds is at most one fd. *)
LEMMA HoldsOne ==
  ASSUME NEW n, Attends(n)
  PROVE  LET H == {fd \in Fds : held[n][fd] # NoId}
         IN  IsFiniteSet(H) /\ Cardinality(H) <= 1
<1> DEFINE H == {fd \in Fds : held[n][fd] # NoId}
<1>1. CASE H = {}
  BY <1>1, FS_EmptySet
<1>2. CASE H # {}
  <2>1. PICK fd \in H : TRUE
    BY <1>2
  <2>2. \A g \in H : g = fd
    BY <2>1 DEF Attends, ServesOne
  <2>3. H = {fd}
    BY <2>1, <2>2
  <2>4. IsFiniteSet({fd}) /\ Cardinality({fd}) = 1
    BY FS_Singleton
  <2> HIDE DEF H
  <2>5. IsFiniteSet(H) /\ Cardinality(H) <= 1
    BY <2>3, <2>4
  <2> QED
    BY <2>5 DEF H
<1> QED
  BY <1>1, <1>2

(* With a number more than clients: the ones others take and the one the    *)
(* Runtime holds are not all.                                               *)
LEMMA OneIsFree ==
  ASSUME IInv, Roles, Streams, Attending, IsFiniteSet(Clients)
  PROVE  ConnectFindsNumber
<1> SUFFICES ASSUME FdMax > Cardinality(Clients), resets = 0, NEW n \in Servers,
                    NEW m \in Clients, NEW k \in 1..Len(bus[m][n]), Full(pm[n])
             PROVE  FALSE
  BY DEF ConnectFindsNumber, ConnectUnderWay
<1> DEFINE W == TakenByOthers(n, m)
           H == {fd \in Fds : held[n][fd] # NoId}
<1>1. n \in Nodes /\ Attends(n)
  BY DEF Nodes, Attending
<1>2. Fds = W \cup H
  BY DEF Full, TakenByOthers
<1>3. IsFiniteSet(W) /\ Cardinality(W) <= Cardinality(Clients) - 1
  BY <1>1, FewTaken
<1>4. IsFiniteSet(H) /\ Cardinality(H) <= 1
  BY <1>1, HoldsOne
<1> HIDE DEF W, H
<1>5. Cardinality(W \cup H) = Cardinality(W) + Cardinality(H) - Cardinality(W \cap H)
  BY <1>3, <1>4, FS_Union
<1>6. IsFiniteSet(W \cap H)
  BY <1>3, FS_Subset
<1>7. /\ Cardinality(W) \in Nat /\ Cardinality(H) \in Nat /\ Cardinality(W \cap H) \in Nat
      /\ Cardinality(Clients) \in Nat
  BY <1>3, <1>4, <1>6, FS_CardinalityType
<1>8. Cardinality(Fds) = FdMax /\ FdMax \in Nat
  <2>1. FdMax \in Nat /\ FdMax > 0 /\ 0 \in Int /\ FdMax - 1 \in Int
    BY Numbers
  <2>2. Cardinality(0..(FdMax - 1)) = IF 0 > FdMax - 1 THEN 0 ELSE (FdMax - 1) - 0 + 1
    BY <2>1, FS_Interval
  <2> QED
    BY <2>1, <2>2 DEF Fds
<1> QED
  BY <1>2, <1>3, <1>4, <1>5, <1>7, <1>8

LEMMA AlwaysAttending == Spec => []Attending
<1>1. Init => Attending
  BY InitAttends
<1>2. IInv /\ Roles /\ Streams /\ Attending /\ [Next]_vars => Attending'
  BY StepAttends
<1> QED
  BY <1>1, <1>2, Invariance, AlwaysInStep, PTL DEF Spec

(* A server whose thread holds nothing useless has a number for every       *)
(* connect(), if it has as many as there are clients.                       *)
THEOREM OthersAlwaysLeaveNumber ==
  ASSUME IsFiniteSet(Clients)
  PROVE  Spec => []OthersLeaveNumber
<1>1. IInv /\ Roles /\ Streams /\ Attending => OthersLeaveNumber
  BY OthersLeave
<1> QED
  BY <1>1, Invariance, AlwaysInStep, AlwaysAttending, PTL

(* With a number more than it has clients, a server never drops a connect() *)
(* for want of one, however often clients open and close connections, as    *)
(* long as no manager is close()d.                                          *)
THEOREM EveryConnectFindsNumber ==
  ASSUME IsFiniteSet(Clients)
  PROVE  Spec => []ConnectFindsNumber
<1>1. IInv /\ Roles /\ Streams /\ Attending => ConnectFindsNumber
  BY OneIsFree
<1> QED
  BY <1>1, Invariance, AlwaysInStep, AlwaysAttending, PTL

=============================================================================
