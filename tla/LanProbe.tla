------------------------------ MODULE LanProbe ------------------------------
(***************************************************************************)
(* src/scripts/lan-probe.js: what the probe records of each                *)
(* RTCPeerConnection of the page.                                          *)
(*                                                                         *)
(* The browser is external: it constructs connections, signals candidates, *)
(* and answers getStats() late and in any order, or not with a report at   *)
(* all.  A candidate is what identifies it: `base' stands for its side,    *)
(* protocol, port and type, `key' for its foundation and priority, and it  *)
(* is its own address.                                                     *)
(***************************************************************************)
EXTENDS Integers, Sequences, FiniteSets

CONSTANTS
  Conns,                \* the connections of the page
  Pairs,                \* ids of candidate pairs
  Candidates,           \* ICE candidates, local and remote
  Redacted,             \* those whose address getStats() does not show (mDNS)
  base, key,            \* what is known of a candidate besides its address
  Reports,              \* what getStats() may say of the pairs
  NoPair, NoStat, NoDigest,
  MaxLooks,             \* attempts of associate() after the first, 10 in the code
  MaxSnapshots,         \* bound: calls of getStats()
  MaxSignaled           \* bound: candidates signalled on a connection

PairStates == {"waiting", "in-progress", "succeeded", "failed"}
PairStat == [state : PairStates, nominated : BOOLEAN,
             local : Candidates \cup {NoStat}, remote : Candidates \cup {NoStat}]

Descriptions == [address : Candidates \cup {"none"},
                 addressSource : {"stats", "signaled", "ambiguous", "none"}]
                \cup {NoStat}
Digested == [state : PairStates, nominated : BOOLEAN, selected : BOOLEAN,
             local : Descriptions, remote : Descriptions]
Digests == [Pairs -> Digested \cup {NoPair}]
Observed(S) == [firstSeenSeq : S, lastSeenSeq : S, statesSeen : SUBSET PairStates,
                lastState : PairStates, everNominated : BOOLEAN, everSelected : BOOLEAN,
                local : Descriptions, remote : Descriptions]

ASSUME CandidatesAssumption ==
  /\ Redacted \subseteq Candidates /\ NoStat \notin Candidates
  \* Foundation and priority tell the candidates of one agent apart.
  /\ \A c, d \in Candidates : base[c] = base[d] /\ key[c] = key[d] => c = d
ASSUME ReportsAssumption ==
  /\ NoPair \notin PairStat \cup Digested \cup Observed(Nat) /\ NoPair \notin Pairs /\ NoDigest \notin Digests
  /\ Reports \subseteq [pairs : [Pairs -> PairStat \cup {NoPair}], selectedId : Pairs \cup {NoPair}]
ASSUME BoundsAssumption == MaxLooks \in Nat /\ MaxSnapshots \in Nat /\ MaxSignaled \in Nat

VARIABLES
  statsKeyed,           \* this browser's stats carry foundation and priority
  connections,          \* the connections constructed, in order
  signaled,             \* [Conns -> Seq(Candidates)]: candidates and remoteCandidates
  snapshots,            \* every getStats() request; its seq is its index
  rec,                  \* stats, latestStatsSeq and pairsEverObserved of each
  look, associated,     \* the attempt of associate() that is due; peerId is set
  refresh, awaited      \* refreshStats() and the requests it waits for

assoc == <<look, associated>>
refreshing == <<refresh, awaited>>
vars == <<statsKeyed, connections, signaled, snapshots, rec, look, associated, refresh, awaited>>

Seqs == 1 .. Len(snapshots)
NotYet == -1
Over == MaxLooks + 1

TypeOK ==
  /\ statsKeyed \in BOOLEAN
  /\ connections \in Seq(Conns)
  /\ signaled \in [Conns -> Seq(Candidates)]
  /\ snapshots \in Seq([conn : Conns, settled : BOOLEAN, digest : Digests \cup {NoDigest}])
  /\ rec \in [Conns -> [stats : Digests \cup {NoDigest}, latestStatsSeq : {0} \cup Seqs,
                        pairsEverObserved : [Pairs -> Observed(Seqs) \cup {NoPair}]]]
  /\ look \in [Conns -> NotYet .. Over] /\ associated \in [Conns -> BOOLEAN]
  /\ refresh \in {"idle", "waiting", "returned"} /\ awaited \subseteq Seqs

Constructed(k) == \E i \in 1 .. Len(connections) : connections[i] = k

Init ==
  /\ statsKeyed \in BOOLEAN
  /\ connections = <<>>
  /\ signaled = [k \in Conns |-> <<>>]
  /\ snapshots = <<>>
  /\ rec = [k \in Conns |-> [stats |-> NoDigest, latestStatsSeq |-> 0,
                             pairsEverObserved |-> [p \in Pairs |-> NoPair]]]
  /\ look = [k \in Conns |-> NotYet] /\ associated = [k \in Conns |-> FALSE]
  /\ refresh = "idle" /\ awaited = {}

-----------------------------------------------------------------------------
(* Connections and their candidates.                                       *)

(* The Probed constructor. *)
Probed(k) ==
  /\ ~Constructed(k)
  /\ connections' = Append(connections, k)
  /\ UNCHANGED <<statsKeyed, signaled, snapshots, rec, assoc, refreshing>>

(* icecandidate for a local one, addIceCandidate() for a remote one. *)
Signal(k, c) ==
  /\ Constructed(k) /\ Len(signaled[k]) < MaxSignaled
  /\ signaled' = [signaled EXCEPT ![k] = Append(@, c)]
  /\ UNCHANGED <<statsKeyed, connections, snapshots, rec, assoc, refreshing>>

(* The entries of the pool that a stat of candidate c may be. *)
Weak(k, c) == {i \in 1 .. Len(signaled[k]) : base[signaled[k][i]] = base[c]}
Strong(k, c) == {i \in Weak(k, c) : statsKeyed /\ key[signaled[k][i]] = key[c]}
matchSignaled(k, c) == IF Strong(k, c) # {} THEN Strong(k, c) ELSE Weak(k, c)

(* Mutant: one of several plausible addresses is reported. *)
describeGuess(k, c) ==
  LET matches == IF c = NoStat THEN {} ELSE matchSignaled(k, c)
  IN  CASE c = NoStat -> NoStat
        [] c # NoStat /\ c \notin Redacted -> [address |-> c, addressSource |-> "stats"]
        [] c \in Redacted /\ matches # {} ->
             [address |-> signaled[k][CHOOSE i \in matches : TRUE], addressSource |-> "signaled"]
        [] OTHER -> [address |-> "none", addressSource |-> "none"]

describeStatCandidate(k, c) ==
  LET matches == IF c = NoStat THEN {} ELSE matchSignaled(k, c)
  IN  CASE c = NoStat -> NoStat
        [] c # NoStat /\ c \notin Redacted -> [address |-> c, addressSource |-> "stats"]
        [] c \in Redacted /\ Cardinality(matches) = 1 ->
             [address |-> signaled[k][CHOOSE i \in matches : TRUE], addressSource |-> "signaled"]
        [] c \in Redacted /\ Cardinality(matches) > 1 ->
             [address |-> "none", addressSource |-> "ambiguous"]
        [] OTHER -> [address |-> "none", addressSource |-> "none"]

-----------------------------------------------------------------------------
(* Snapshots.                                                              *)

Reported(r) == {p \in Pairs : r.pairs[p] # NoPair}
Winners(r) == {p \in Reported(r) : r.pairs[p].state = "succeeded" /\ r.pairs[p].nominated}

(* The pair the transport names, else the first that won in the report.    *)
Selected(r) ==
  IF r.selectedId \in Reported(r) THEN {{r.selectedId}}
  ELSE IF Winners(r) = {} THEN {{}} ELSE {{p} : p \in Winners(r)}

digestStats(r, k, selected) ==
  [p \in Pairs |->
    IF p \notin Reported(r) THEN NoPair
    ELSE [state |-> r.pairs[p].state, nominated |-> r.pairs[p].nominated,
          selected |-> p \in selected,
          local |-> describeStatCandidate(k, r.pairs[p].local),
          remote |-> describeStatCandidate(k, r.pairs[p].remote)]]

(* Mutant: a digest that settles late is left out of the aggregate. *)
mergeLatestOnly(prev, pair, seq) ==
  IF prev # NoPair /\ seq < prev.lastSeenSeq THEN prev
  ELSE [firstSeenSeq |-> IF prev = NoPair THEN seq ELSE prev.firstSeenSeq,
        lastSeenSeq |-> seq,
        statesSeen |-> {pair.state} \cup (IF prev = NoPair THEN {} ELSE prev.statesSeen),
        lastState |-> pair.state,
        everNominated |-> pair.nominated \/ (prev # NoPair /\ prev.everNominated),
        everSelected |-> pair.selected \/ (prev # NoPair /\ prev.everSelected),
        local |-> pair.local, remote |-> pair.remote]

(* mergeObserved(), for one pair of the digest. *)
mergeObserved(prev, pair, seq) ==
  LET old == IF prev # NoPair THEN prev
             ELSE [firstSeenSeq |-> seq, lastSeenSeq |-> 0, statesSeen |-> {},
                   lastState |-> NoPair, everNominated |-> FALSE, everSelected |-> FALSE,
                   local |-> NoStat, remote |-> NoStat]
      now == IF seq >= old.lastSeenSeq
             THEN [seq |-> seq, state |-> pair.state, local |-> pair.local, remote |-> pair.remote]
             ELSE [seq |-> old.lastSeenSeq, state |-> old.lastState,
                   local |-> old.local, remote |-> old.remote]
  IN  [firstSeenSeq |-> IF seq < old.firstSeenSeq THEN seq ELSE old.firstSeenSeq,
       lastSeenSeq |-> now.seq,
       statesSeen |-> old.statesSeen \cup {pair.state},
       lastState |-> now.state,
       everNominated |-> old.everNominated \/ pair.nominated,
       everSelected |-> old.everSelected \/ pair.selected,
       local |-> now.local, remote |-> now.remote]

Merged(observed, digest, seq) ==
  [p \in Pairs |-> IF digest[p] = NoPair THEN observed[p]
                   ELSE mergeObserved(observed[p], digest[p], seq)]

(* A request of snapshot(); one whose getStats() throws is settled at once. *)
Request(k, thrown) == [conn |-> k, settled |-> thrown, digest |-> NoDigest]

(* An ICE or connection state among SNAPSHOT_STATES is reached. *)
StateChange(k, thrown) ==
  /\ Constructed(k) /\ Len(snapshots) < MaxSnapshots
  /\ snapshots' = Append(snapshots, Request(k, thrown))
  /\ UNCHANGED <<statsKeyed, connections, signaled, rec, assoc, refreshing>>

(* Mutant: the digest that settles last is the latest. *)
ApplyLast(k, digest, seq) ==
  rec' = [rec EXCEPT ![k] = [stats |-> digest, latestStatsSeq |-> seq,
                             pairsEverObserved |-> Merged(@.pairsEverObserved, digest, seq)]]

Apply(k, digest, seq) ==
  LET newest == seq >= rec[k].latestStatsSeq
  IN  rec' = [rec EXCEPT ![k] =
                [stats |-> IF newest THEN digest ELSE @.stats,
                 latestStatsSeq |-> IF newest THEN seq ELSE @.latestStatsSeq,
                 pairsEverObserved |-> Merged(@.pairsEverObserved, digest, seq)]]

(* settle(digest, null), when the report of request seq arrives. *)
Settle(seq, r) ==
  LET k == snapshots[seq].conn
  IN  \E selected \in Selected(r) :
        LET digest == digestStats(r, k, selected)
        IN  /\ snapshots' = [snapshots EXCEPT ![seq].settled = TRUE, ![seq].digest = digest]
            /\ Apply(k, digest, seq)
            /\ UNCHANGED <<statsKeyed, connections, signaled, assoc, refreshing>>

(* settle(null, error), when it is rejected. *)
SettleError(seq) ==
  /\ snapshots' = [snapshots EXCEPT ![seq].settled = TRUE]
  /\ UNCHANGED <<statsKeyed, connections, signaled, rec, assoc, refreshing>>

Answer(seq) ==
  /\ seq \in Seqs /\ ~snapshots[seq].settled
  /\ SettleError(seq) \/ \E r \in Reports : Settle(seq, r)

(* refreshStats(): a snapshot of every connection there is, of which        *)
(* getStats() may throw for those in `thrown',                              *)
RefreshStats(thrown) ==
  /\ refresh = "idle" /\ Len(snapshots) + Len(connections) <= MaxSnapshots
  /\ refresh' = "waiting"
  /\ snapshots' = snapshots \o [i \in 1 .. Len(connections) |->
                                  Request(connections[i], connections[i] \in thrown)]
  /\ awaited' = (Len(snapshots) + 1) .. (Len(snapshots) + Len(connections))
  /\ UNCHANGED <<statsKeyed, connections, signaled, rec, assoc>>

(* Mutant: a getStats() that fails is not caught, and fails Promise.all(). *)
RefreshReturnsIfAllDid ==
  /\ refresh = "waiting" /\ \A seq \in awaited : snapshots[seq].digest # NoDigest
  /\ refresh' = "returned"
  /\ UNCHANGED <<statsKeyed, connections, signaled, snapshots, rec, assoc, awaited>>

(* and its report() once all of them are settled. *)
RefreshReturns ==
  /\ refresh = "waiting" /\ \A seq \in awaited : snapshots[seq].settled
  /\ refresh' = "returned"
  /\ UNCHANGED <<statsKeyed, connections, signaled, snapshots, rec, assoc, awaited>>

-----------------------------------------------------------------------------
(* associate(): it gives up when the last look finds no peerConnection.    *)

(* Mutant: the last attempt gives up without looking. *)
AssociateGivesUpFirst(k, attempt) ==
  /\ associated' = [associated EXCEPT ![k] = @ \/ (Constructed(k) /\ attempt < MaxLooks)]
  /\ look' = [look EXCEPT ![k] = IF Constructed(k) THEN Over ELSE attempt + 1]

Associate(k, attempt) ==
  /\ associated' = [associated EXCEPT ![k] = @ \/ Constructed(k)]
  /\ look' = [look EXCEPT ![k] = IF Constructed(k) THEN Over ELSE attempt + 1]

(* The wrappers of Peer: connect() returned it, or a "connection" event has it. *)
Wrapped(k) ==
  /\ look[k] = NotYet
  /\ Associate(k, 0)
  /\ UNCHANGED <<statsKeyed, connections, signaled, snapshots, rec, refreshing>>

(* The timer of the next attempt. *)
Look(k) ==
  /\ look[k] \in 1 .. MaxLooks
  /\ Associate(k, look[k])
  /\ UNCHANGED <<statsKeyed, connections, signaled, snapshots, rec, refreshing>>

-----------------------------------------------------------------------------
Next ==
  \/ \E k \in Conns : Probed(k) \/ Wrapped(k) \/ Look(k)
  \/ \E k \in Conns, c \in Candidates : Signal(k, c)
  \/ \E k \in Conns, thrown \in BOOLEAN : StateChange(k, thrown)
  \/ \E seq \in Seqs : Answer(seq)
  \/ \E thrown \in SUBSET Conns : RefreshStats(thrown)
  \/ RefreshReturns

Spec == Init /\ [][Next]_vars

(* Timers run, a promise is settled in the end, and its callbacks run.     *)
Fairness ==
  /\ \A k \in Conns : WF_vars(Look(k))
  /\ \A seq \in 1 .. MaxSnapshots : WF_vars(Answer(seq))
  /\ WF_vars(RefreshReturns)

FairSpec == Spec /\ Fairness

-----------------------------------------------------------------------------
(* Properties.                                                             *)

(* The requests of connection k that have settled with a digest, and those  *)
(* whose digest has pair p.                                                 *)
Done(k) == {seq \in Seqs : snapshots[seq].conn = k /\ snapshots[seq].digest # NoDigest}
DoneWith(k, p) == {seq \in Done(k) : snapshots[seq].digest[p] # NoPair}
Last(S, seq) == seq \in S /\ \A t \in S : t <= seq

(* Whatever the order in which getStats() answers, the stats of a           *)
(* connection are the digest of its newest request that has one: they never *)
(* travel backwards in time.                                                *)
StatsAreNewest ==
  \A k \in Conns :
    \/ Done(k) = {} /\ rec[k].stats = NoDigest /\ rec[k].latestStatsSeq = 0
    \/ /\ Last(Done(k), rec[k].latestStatsSeq)
       /\ rec[k].stats = snapshots[rec[k].latestStatsSeq].digest

IsFold(seen, all, p) ==
  LET of(seq) == snapshots[seq].digest[p]
  IN  IF all = {} THEN seen = NoPair
      ELSE /\ seen # NoPair
           /\ seen.firstSeenSeq \in all /\ \A seq \in all : seen.firstSeenSeq <= seq
           /\ Last(all, seen.lastSeenSeq)
           /\ seen.statesSeen = {of(seq).state : seq \in all}
           /\ (seen.everNominated <=> \E seq \in all : of(seq).nominated)
           /\ (seen.everSelected <=> \E seq \in all : of(seq).selected)
           /\ seen.lastState = of(seen.lastSeenSeq).state
           /\ seen.local = of(seen.lastSeenSeq).local
           /\ seen.remote = of(seen.lastSeenSeq).remote

(* The aggregate of a pair is what all its digests say together, and does   *)
(* not depend on the order in which they settled: no observation is lost,   *)
(* and none but the newest describes it.                                    *)
AggregateIsFold ==
  \A k \in Conns, p \in Pairs : IsFold(rec[k].pairsEverObserved[p], DoneWith(k, p), p)

(* A candidate that was signalled is never given the address of another     *)
(* one; and where one entry only can be it, its address is recovered.       *)
AddressIsRight ==
  \A k \in Conns, c \in Candidates :
    LET is == {i \in 1 .. Len(signaled[k]) : signaled[k][i] = c}
        found == describeStatCandidate(k, c).address
    IN  is # {} => /\ found \in {c, "none"}
                   /\ Cardinality(is) = 1 /\ (statsKeyed \/ Weak(k, c) = is) => found = c

(* refreshStats() returns its report, though a getStats() throws, rejects   *)
(* or answers before an older one.                                          *)
RefreshIsOver == refresh = "waiting" ~> refresh = "returned"

(* A connection whose peerConnection appears while an attempt is due gets    *)
(* its peer id.                                                              *)
AssociationIsMade ==
  \A k \in Conns : look[k] \in 1 .. MaxLooks /\ Constructed(k) ~> associated[k]

=============================================================================
