--------------------------- MODULE LanProbeProofs ---------------------------
(***************************************************************************)
(* What the probe reports does not depend on the order in which getStats() *)
(* answers: for any connections, pairs, candidates and reports.            *)
(***************************************************************************)
EXTENDS LanProbe, FiniteSetTheorems, TLAPS

(* A request has a digest only once it is settled. *)
PendingHasNone == \A seq \in Seqs : ~snapshots[seq].settled => snapshots[seq].digest = NoDigest

IInv == TypeOK /\ PendingHasNone /\ StatsAreNewest /\ AggregateIsFold

Entry == [conn : Conns, settled : BOOLEAN, digest : Digests \cup {NoDigest}]

LEMMA ElementTyped ==
  ASSUME NEW S, NEW q \in Seq(S), NEW i \in 1 .. Len(q)
  PROVE  q[i] \in S
OBVIOUS

LEMMA ReplacedTyped ==
  ASSUME NEW S, NEW q \in Seq(S), NEW i \in 1 .. Len(q), NEW e \in S
  PROVE  /\ [q EXCEPT ![i] = e] \in Seq(S) /\ Len([q EXCEPT ![i] = e]) = Len(q)
OBVIOUS

LEMMA JoinedTyped ==
  ASSUME NEW S, NEW q \in Seq(S), NEW r \in Seq(S)
  PROVE  /\ q \o r \in Seq(S) /\ Len(q \o r) = Len(q) + Len(r)
         /\ \A t \in 1 .. Len(q) + Len(r) :
               (q \o r)[t] = IF t <= Len(q) THEN q[t] ELSE r[t - Len(q)]
OBVIOUS

-----------------------------------------------------------------------------
(* Which of the signalled candidates a stat may be.                        *)

LEMMA MatchesArePool ==
  ASSUME NEW k, NEW c
  PROVE  /\ matchSignaled(k, c) \subseteq Weak(k, c)
         /\ Weak(k, c) \subseteq 1 .. Len(signaled[k])
BY DEF matchSignaled, Weak, Strong

LEMMA PoolFinite ==
  ASSUME TypeOK, NEW k \in Conns, NEW S, S \subseteq 1 .. Len(signaled[k])
  PROVE  IsFiniteSet(S) /\ Cardinality(S) \in Nat
<1>1. Len(signaled[k]) \in Nat
  BY DEF TypeOK
<1>2. IsFiniteSet(1 .. Len(signaled[k]))
  BY <1>1, FS_Interval
<1> QED
  BY <1>2, FS_Subset, FS_CardinalityType

LEMMA Single ==
  ASSUME NEW S, IsFiniteSet(S), Cardinality(S) = 1
  PROVE  \E x : S = {x} /\ (CHOOSE i \in S : TRUE) = x
<1>1. PICK x : S = {x}
  BY FS_Singleton
<1> QED
  BY <1>1

LEMMA DescriptionTyped ==
  ASSUME TypeOK, NEW k \in Conns, NEW c \in Candidates \cup {NoStat}
  PROVE  describeStatCandidate(k, c) \in Descriptions
<1> DEFINE matches == IF c = NoStat THEN {} ELSE matchSignaled(k, c)
<1>1. matches \subseteq 1 .. Len(signaled[k])
  BY MatchesArePool
<1>2. IsFiniteSet(matches)
  BY <1>1, PoolFinite
<1>3. Cardinality(matches) = 1 => signaled[k][CHOOSE i \in matches : TRUE] \in Candidates
  <2> SUFFICES ASSUME Cardinality(matches) = 1
               PROVE  signaled[k][CHOOSE i \in matches : TRUE] \in Candidates
    OBVIOUS
  <2> HIDE DEF matches
  <2>1. (CHOOSE i \in matches : TRUE) \in 1 .. Len(signaled[k])
    <3>1. PICK x : matches = {x} /\ (CHOOSE i \in matches : TRUE) = x
      BY <1>2, Single
    <3> QED
      BY <1>1, <3>1
  <2>2. signaled[k] \in Seq(Candidates)
    BY DEF TypeOK
  <2> QED
    BY <2>1, <2>2, ElementTyped
<1> HIDE DEF matches
<1>4. describeStatCandidate(k, c) =
        CASE c = NoStat -> NoStat
        [] c # NoStat /\ c \notin Redacted -> [address |-> c, addressSource |-> "stats"]
        [] c \in Redacted /\ Cardinality(matches) = 1 ->
             [address |-> signaled[k][CHOOSE i \in matches : TRUE], addressSource |-> "signaled"]
        [] c \in Redacted /\ Cardinality(matches) > 1 ->
             [address |-> "none", addressSource |-> "ambiguous"]
        [] OTHER -> [address |-> "none", addressSource |-> "none"]
  BY DEF describeStatCandidate, matches
<1> QED
  BY <1>3, <1>4, CandidatesAssumption DEF Descriptions

LEMMA RightAddress ==
  ASSUME TypeOK, NEW k \in Conns, NEW c \in Candidates
  PROVE  LET is == {i \in 1 .. Len(signaled[k]) : signaled[k][i] = c}
             found == describeStatCandidate(k, c).address
         IN  is # {} => /\ found \in {c, "none"}
                        /\ Cardinality(is) = 1 /\ (statsKeyed \/ Weak(k, c) = is) => found = c
<1> DEFINE is == {i \in 1 .. Len(signaled[k]) : signaled[k][i] = c}
           matches == matchSignaled(k, c)
           found == describeStatCandidate(k, c).address
<1> SUFFICES ASSUME is # {}
             PROVE  /\ found \in {c, "none"}
                    /\ Cardinality(is) = 1 /\ (statsKeyed \/ Weak(k, c) = is) => found = c
  OBVIOUS
<1>1. c # NoStat /\ \A i \in 1 .. Len(signaled[k]) : signaled[k][i] \in Candidates
  BY ElementTyped, CandidatesAssumption DEF TypeOK
<1>2. is \subseteq Weak(k, c) /\ (statsKeyed => is = Strong(k, c)) /\ (~statsKeyed => Strong(k, c) = {})
  BY <1>1, CandidatesAssumption DEF Weak, Strong
<1>3. is \subseteq matches /\ (statsKeyed => matches = is) /\ (~statsKeyed => matches = Weak(k, c))
  BY <1>2 DEF matchSignaled
<1>4. IsFiniteSet(matches)
  BY MatchesArePool, PoolFinite
<1>5. Cardinality(matches) = 1 => signaled[k][CHOOSE i \in matches : TRUE] = c
  <2> SUFFICES ASSUME Cardinality(matches) = 1
               PROVE  signaled[k][CHOOSE i \in matches : TRUE] = c
    OBVIOUS
  <2> HIDE DEF matches
  <2>1. PICK x : matches = {x} /\ (CHOOSE i \in matches : TRUE) = x
    BY <1>4, Single
  <2>2. x \in is
    BY <1>3, <2>1
  <2> QED
    BY <2>1, <2>2
<1>6. describeStatCandidate(k, c) =
        CASE c \notin Redacted -> [address |-> c, addressSource |-> "stats"]
        [] c \in Redacted /\ Cardinality(matches) = 1 ->
             [address |-> signaled[k][CHOOSE i \in matches : TRUE], addressSource |-> "signaled"]
        [] c \in Redacted /\ Cardinality(matches) > 1 ->
             [address |-> "none", addressSource |-> "ambiguous"]
        [] OTHER -> [address |-> "none", addressSource |-> "none"]
  BY <1>1 DEF describeStatCandidate
<1> HIDE DEF matches, is
<1>7. found \in {c, "none"}
  BY <1>5, <1>6
<1>8. ASSUME Cardinality(is) = 1, statsKeyed \/ Weak(k, c) = is PROVE found = c
  <2>1. matches = is
    BY <1>3, <1>8 DEF TypeOK
  <2> QED
    BY <1>5, <1>6, <1>8, <2>1
<1> QED
  BY <1>7, <1>8

-----------------------------------------------------------------------------
(* A digest, and what it does to the aggregate of one pair.                *)

LEMMA DigestTyped ==
  ASSUME TypeOK, NEW k \in Conns, NEW r \in Reports, NEW selected
  PROVE  digestStats(r, k, selected) \in Digests /\ digestStats(r, k, selected) # NoDigest
<1> SUFFICES ASSUME NEW p \in Pairs, p \in Reported(r)
             PROVE  [state |-> r.pairs[p].state, nominated |-> r.pairs[p].nominated,
                     selected |-> p \in selected,
                     local |-> describeStatCandidate(k, r.pairs[p].local),
                     remote |-> describeStatCandidate(k, r.pairs[p].remote)] \in Digested
  BY ReportsAssumption DEF digestStats, Digests
<1>1. r.pairs[p] \in PairStat
  BY ReportsAssumption DEF Reported
<1>2. /\ r.pairs[p].state \in PairStates /\ r.pairs[p].nominated \in BOOLEAN
      /\ r.pairs[p].local \in Candidates \cup {NoStat}
      /\ r.pairs[p].remote \in Candidates \cup {NoStat}
  BY <1>1 DEF PairStat
<1>3. /\ describeStatCandidate(k, r.pairs[p].local) \in Descriptions
      /\ describeStatCandidate(k, r.pairs[p].remote) \in Descriptions
  BY <1>2, DescriptionTyped
<1> QED
  BY <1>2, <1>3 DEF Digested

LEMMA MergeTyped ==
  ASSUME NEW seq \in Seqs, NEW pair \in Digested, NEW prev \in Observed(Seqs) \cup {NoPair},
         Len(snapshots) \in Nat
  PROVE  mergeObserved(prev, pair, seq) \in Observed(Seqs)
<1>1. CASE prev = NoPair
  BY <1>1 DEF mergeObserved, Observed, Digested, Seqs
<1>2. CASE prev # NoPair
  BY <1>2 DEF mergeObserved, Observed, Digested, Seqs
<1> QED
  BY <1>1, <1>2

(* What is added to a fold is folded in, whether it is the newest or not.  *)
LEMMA MergeFolds ==
  ASSUME NEW p \in Pairs, NEW seq \in Seqs, NEW all \in SUBSET Seqs, seq \notin all,
         NEW prev \in Observed(Seqs) \cup {NoPair}, IsFold(prev, all, p),
         NEW pair \in Digested, Len(snapshots) \in Nat,
         Seqs' = Seqs, snapshots'[seq].digest[p] = pair,
         \A t \in all : snapshots'[t] = snapshots[t]
  PROVE  IsFold(mergeObserved(prev, pair, seq), all \cup {seq}, p)'
<1> DEFINE m == mergeObserved(prev, pair, seq)
           now == all \cup {seq}
           of(t) == snapshots'[t].digest[p]
<1>1. /\ of(seq) = pair /\ \A t \in all : of(t) = snapshots[t].digest[p]
      /\ seq \in Nat \ {0} /\ \A t \in all : t \in Nat \ {0}
  <2>1. Seqs \subseteq Nat \ {0}
    BY DEF Seqs
  <2> QED
    BY <2>1
<1>2. m \in Observed(Seqs) /\ m # NoPair
  <2>1. m \in Observed(Seqs)
    BY MergeTyped
  <2> HIDE DEF m
  <2>2. m \in Observed(Nat)
    BY <2>1 DEF Observed, Seqs
  <2> QED
    BY <2>1, <2>2, ReportsAssumption
<1>3. CASE all = {}
  <2>1. prev = NoPair /\ now = {seq}
    BY <1>3 DEF IsFold
  <2>2. /\ m.firstSeenSeq = seq /\ m.lastSeenSeq = seq
        /\ m.statesSeen = {} \cup {pair.state} /\ m.lastState = pair.state
        /\ (m.everNominated <=> pair.nominated) /\ (m.everSelected <=> pair.selected)
        /\ m.local = pair.local /\ m.remote = pair.remote
    <3> DEFINE old == [firstSeenSeq |-> seq, lastSeenSeq |-> 0, statesSeen |-> {},
                       lastState |-> NoPair, everNominated |-> FALSE, everSelected |-> FALSE,
                       local |-> NoStat, remote |-> NoStat]
               new == [seq |-> seq, state |-> pair.state, local |-> pair.local, remote |-> pair.remote]
    <3>1. seq >= 0
      BY <1>1
    <3>2. m = [firstSeenSeq |-> IF seq < old.firstSeenSeq THEN seq ELSE old.firstSeenSeq,
               lastSeenSeq |-> new.seq,
               statesSeen |-> old.statesSeen \cup {pair.state},
               lastState |-> new.state,
               everNominated |-> old.everNominated \/ pair.nominated,
               everSelected |-> old.everSelected \/ pair.selected,
               local |-> new.local, remote |-> new.remote]
      BY <2>1, <3>1 DEF mergeObserved
    <3> HIDE DEF m
    <3> QED
      BY <1>1, <3>2
  <2> HIDE DEF m, of
  <2>3. of(seq).state = pair.state /\ now # {} /\ seq \in now /\ \A t \in now : t = seq
    BY <1>1, <2>1
  <2>4. m.statesSeen = {of(t).state : t \in now}
    BY <1>1, <2>1, <2>2
  <2>5. /\ m.firstSeenSeq \in now /\ \A t \in now : m.firstSeenSeq <= t
        /\ m.lastSeenSeq \in now /\ \A t \in now : t <= m.lastSeenSeq
    <3>1. seq <= seq
      BY <1>1
    <3> HIDE DEF now
    <3> QED
      BY <2>2, <2>3, <3>1
  <2>6. /\ m.lastState = of(m.lastSeenSeq).state
        /\ m.local = of(m.lastSeenSeq).local /\ m.remote = of(m.lastSeenSeq).remote
    BY <1>1, <2>2
  <2>7. /\ (m.everNominated <=> \E t \in now : of(t).nominated)
        /\ (m.everSelected <=> \E t \in now : of(t).selected)
    BY <1>1, <2>2, <2>3
  <2> QED
    BY <1>2, <2>3, <2>4, <2>5, <2>6, <2>7 DEF IsFold, Last, m, of
<1>4. CASE all # {}
  <2>1. /\ prev # NoPair /\ prev \in Observed(Seqs)
        /\ prev.firstSeenSeq \in all /\ \A t \in all : prev.firstSeenSeq <= t
        /\ prev.lastSeenSeq \in all /\ \A t \in all : t <= prev.lastSeenSeq
        /\ prev.statesSeen = {of(t).state : t \in all}
        /\ (prev.everNominated <=> \E t \in all : of(t).nominated)
        /\ (prev.everSelected <=> \E t \in all : of(t).selected)
        /\ prev.lastState = of(prev.lastSeenSeq).state
        /\ prev.local = of(prev.lastSeenSeq).local
        /\ prev.remote = of(prev.lastSeenSeq).remote
    <3>1. {of(t).state : t \in all} = {snapshots[t].digest[p].state : t \in all}
      BY <1>1
    <3> HIDE DEF of
    <3> QED
      BY <1>1, <1>4, <3>1 DEF IsFold, Last
  <2>8. prev.firstSeenSeq \in Nat /\ prev.lastSeenSeq \in Nat /\ seq \in Nat
    BY <1>1, <2>1
  <2>2. /\ m.firstSeenSeq = (IF seq < prev.firstSeenSeq THEN seq ELSE prev.firstSeenSeq)
        /\ m.lastSeenSeq = (IF seq >= prev.lastSeenSeq THEN seq ELSE prev.lastSeenSeq)
        /\ m.statesSeen = prev.statesSeen \cup {pair.state}
        /\ m.lastState = (IF seq >= prev.lastSeenSeq THEN pair.state ELSE prev.lastState)
        /\ (m.everNominated <=> prev.everNominated \/ pair.nominated)
        /\ (m.everSelected <=> prev.everSelected \/ pair.selected)
        /\ m.local = (IF seq >= prev.lastSeenSeq THEN pair.local ELSE prev.local)
        /\ m.remote = (IF seq >= prev.lastSeenSeq THEN pair.remote ELSE prev.remote)
    BY <2>1 DEF mergeObserved
  <2> HIDE DEF m, of
  <2>3. m.firstSeenSeq \in now /\ \A t \in now : m.firstSeenSeq <= t
    BY <1>1, <2>1, <2>2, <2>8
  <2>4. m.lastSeenSeq \in now /\ \A t \in now : t <= m.lastSeenSeq
    BY <1>1, <2>1, <2>2, <2>8
  <2>5. m.statesSeen = {of(t).state : t \in now}
    BY <1>1, <2>1, <2>2
  <2>6. /\ (m.everNominated <=> \E t \in now : of(t).nominated)
        /\ (m.everSelected <=> \E t \in now : of(t).selected)
    BY <1>1, <2>1, <2>2
  <2>7. /\ m.lastState = of(m.lastSeenSeq).state
        /\ m.local = of(m.lastSeenSeq).local /\ m.remote = of(m.lastSeenSeq).remote
    BY <1>1, <2>1, <2>2
  <2> QED
    BY <1>2, <2>3, <2>4, <2>5, <2>6, <2>7 DEF IsFold, Last, m, of
<1> QED
  BY <1>3, <1>4

(* A fold stays one while the digests it folds stay. *)
LEMMA StillFold ==
  ASSUME NEW p, NEW v, NEW S, IsFold(v, S, p), \A t \in S : snapshots'[t].digest = snapshots[t].digest
  PROVE  IsFold(v, S, p)'
<1>1. {snapshots'[t].digest[p].state : t \in S} = {snapshots[t].digest[p].state : t \in S}
  OBVIOUS
<1> QED
  BY <1>1 DEF IsFold, Last

LEMMA NowFold ==
  ASSUME NEW j, NEW p, NEW v, NEW S, IsFold(v, S, p)',
         v = rec'[j].pairsEverObserved[p], S = DoneWith(j, p)'
  PROVE  IsFold(rec[j].pairsEverObserved[p], DoneWith(j, p), p)'
<1>1. {snapshots'[t].digest[p].state : t \in S}
        = {snapshots'[t].digest[p].state : t \in DoneWith(j, p)'}
  BY Zenon
<1>2. CASE S = {}
  BY <1>2 DEF IsFold
<1>3. CASE S # {}
  <2>1. /\ v # NoPair
        /\ v.firstSeenSeq \in S /\ \A t \in S : v.firstSeenSeq <= t
        /\ v.lastSeenSeq \in S /\ \A t \in S : t <= v.lastSeenSeq
        /\ v.statesSeen = {snapshots'[t].digest[p].state : t \in S}
        /\ (v.everNominated <=> \E t \in S : snapshots'[t].digest[p].nominated)
        /\ (v.everSelected <=> \E t \in S : snapshots'[t].digest[p].selected)
        /\ v.lastState = snapshots'[v.lastSeenSeq].digest[p].state
        /\ v.local = snapshots'[v.lastSeenSeq].digest[p].local
        /\ v.remote = snapshots'[v.lastSeenSeq].digest[p].remote
    BY <1>3 DEF IsFold, Last
  <2> QED
    BY <1>1, <1>3, <2>1 DEF IsFold, Last
<1> QED
  BY <1>2, <1>3

-----------------------------------------------------------------------------
LEMMA InitIInv == Init => IInv
<1> SUFFICES ASSUME Init PROVE IInv
  OBVIOUS
<1>1. TypeOK
  BY BoundsAssumption DEF Init, TypeOK, NotYet, Over
<1>2. Seqs = {}
  BY DEF Init, Seqs
<1> QED
  BY <1>1, <1>2 DEF Init, IInv, PendingHasNone, StatsAreNewest, AggregateIsFold, IsFold, Done, DoneWith

(* Requests that are only made, or settled without a digest, change nothing *)
(* of what is reported.                                                     *)
LEMMA NoDigestIInv ==
  ASSUME IInv, TypeOK', UNCHANGED rec, Len(snapshots') >= Len(snapshots),
         \A seq \in Seqs : /\ snapshots'[seq].conn = snapshots[seq].conn
                           /\ snapshots'[seq].digest = snapshots[seq].digest
                           /\ snapshots[seq].settled => snapshots'[seq].settled,
         \A seq \in Seqs' \ Seqs : snapshots'[seq].digest = NoDigest
  PROVE  IInv'
<1>1. Seqs \subseteq Seqs' /\ Len(snapshots) \in Nat
  BY DEF IInv, TypeOK, Seqs
<1>2. PendingHasNone'
  BY <1>1 DEF IInv, PendingHasNone
<1>3. \A k \in Conns : Done(k)' = Done(k)
  BY <1>1 DEF Done
<1>4. \A k \in Conns, p \in Pairs : DoneWith(k, p)' = DoneWith(k, p) /\ DoneWith(k, p) \subseteq Seqs
  BY <1>1, <1>3 DEF Done, DoneWith
<1>5. StatsAreNewest'
  <2> SUFFICES ASSUME NEW k \in Conns
               PROVE  \/ Done(k) = {} /\ rec[k].stats = NoDigest /\ rec[k].latestStatsSeq = 0
                      \/ /\ Last(Done(k), rec[k].latestStatsSeq)
                         /\ rec[k].stats = snapshots'[rec[k].latestStatsSeq].digest
    BY <1>3 DEF StatsAreNewest, Last
  <2>1. Done(k) \subseteq Seqs
    BY DEF Done
  <2> QED
    BY <2>1 DEF IInv, StatsAreNewest, Last
<1>6. AggregateIsFold'
  <2> SUFFICES ASSUME NEW k \in Conns, NEW p \in Pairs
               PROVE  IsFold(rec[k].pairsEverObserved[p], DoneWith(k, p), p)'
    BY DEF AggregateIsFold
  <2>1. IsFold(rec[k].pairsEverObserved[p], DoneWith(k, p), p)
    BY DEF IInv, AggregateIsFold
  <2>2. PICK v, S : v = rec[k].pairsEverObserved[p] /\ S = DoneWith(k, p)
    OBVIOUS
  <2>3. IsFold(v, S, p) /\ \A t \in S : snapshots'[t].digest = snapshots[t].digest
    BY <1>4, <2>1, <2>2
  <2>4. v = rec'[k].pairsEverObserved[p] /\ S = DoneWith(k, p)'
    BY <1>4, <2>2
  <2> QED
    BY <2>3, <2>4, StillFold, NowFold
<1> QED
  BY <1>2, <1>5, <1>6 DEF IInv

(* The other steps leave the requests and the records alone. *)
LEMMA AsideIInv ==
  ASSUME IInv, TypeOK', UNCHANGED <<snapshots, rec>>
  PROVE  IInv'
<1>1. Seqs' = Seqs /\ Len(snapshots') = Len(snapshots) /\ Len(snapshots) \in Nat
  BY DEF Seqs, IInv, TypeOK
<1>2. \A seq \in Seqs : snapshots'[seq] = snapshots[seq]
  OBVIOUS
<1> QED
  BY <1>1, <1>2, NoDigestIInv

-----------------------------------------------------------------------------
(* A report arrives for request seq of connection k.                       *)
LEMMA SettleIInv ==
  ASSUME IInv, NEW seq \in Seqs, ~snapshots[seq].settled, NEW digest \in Digests,
         NEW k \in Conns, snapshots[seq].conn = k,
         snapshots' = [snapshots EXCEPT ![seq].settled = TRUE, ![seq].digest = digest],
         Apply(k, digest, seq),
         UNCHANGED <<statsKeyed, connections, signaled, assoc, refreshing>>
  PROVE  IInv'
<1> DEFINE newest == seq >= rec[k].latestStatsSeq
<1>1. /\ snapshots \in Seq(Entry) /\ Len(snapshots) \in Nat
      /\ snapshots[seq] \in Entry /\ snapshots[seq].digest = NoDigest
      /\ digest # NoDigest
  <2>1. snapshots \in Seq(Entry)
    BY DEF IInv, TypeOK, Entry
  <2>2. snapshots[seq] \in Entry
    BY <2>1, ElementTyped DEF Seqs
  <2>3. snapshots[seq].digest = NoDigest
    BY DEF IInv, PendingHasNone
  <2> QED
    BY <2>1, <2>2, <2>3, ReportsAssumption
<1>2. /\ Len(snapshots') = Len(snapshots) /\ Seqs' = Seqs
      /\ snapshots' \in Seq(Entry)
      /\ \A t \in Seqs : t # seq => snapshots'[t] = snapshots[t]
      /\ snapshots'[seq].conn = k /\ snapshots'[seq].settled /\ snapshots'[seq].digest = digest
  BY <1>1 DEF Seqs, Entry
<1>3. /\ rec[k].latestStatsSeq \in {0} \cup Seqs
      /\ rec[k].pairsEverObserved \in [Pairs -> Observed(Seqs) \cup {NoPair}]
      /\ \A p \in Pairs : digest[p] \in Digested \cup {NoPair}
  BY <1>1 DEF IInv, TypeOK, Digests
<1>4. /\ rec' = [rec EXCEPT ![k] =
                   [stats |-> IF newest THEN digest ELSE rec[k].stats,
                    latestStatsSeq |-> IF newest THEN seq ELSE rec[k].latestStatsSeq,
                    pairsEverObserved |-> Merged(rec[k].pairsEverObserved, digest, seq)]]
  BY DEF Apply
<1>5. /\ rec'[k].stats = (IF newest THEN digest ELSE rec[k].stats)
      /\ rec'[k].latestStatsSeq = (IF newest THEN seq ELSE rec[k].latestStatsSeq)
      /\ rec'[k].pairsEverObserved = Merged(rec[k].pairsEverObserved, digest, seq)
      /\ \A j \in Conns : j # k => rec'[j] = rec[j]
  BY <1>1, <1>4 DEF IInv, TypeOK
<1>6. Merged(rec[k].pairsEverObserved, digest, seq) \in [Pairs -> Observed(Seqs) \cup {NoPair}]
  <2> SUFFICES ASSUME NEW p \in Pairs, digest[p] # NoPair
               PROVE  mergeObserved(rec[k].pairsEverObserved[p], digest[p], seq) \in Observed(Seqs)
    BY <1>3 DEF Merged
  <2>1. digest[p] \in Digested /\ rec[k].pairsEverObserved[p] \in Observed(Seqs) \cup {NoPair}
    BY <1>3
  <2> QED
    BY <1>1, <2>1, MergeTyped
<1>7. TypeOK'
  <2>1. rec' \in [Conns -> [stats : Digests \cup {NoDigest}, latestStatsSeq : {0} \cup Seqs,
                            pairsEverObserved : [Pairs -> Observed(Seqs) \cup {NoPair}]]]
    BY <1>1, <1>4, <1>6 DEF IInv, TypeOK
  <2>2. Observed(Seqs)' = Observed(Seqs)
    BY <1>2 DEF Observed
  <2> QED
    BY <1>2, <2>1, <2>2 DEF IInv, TypeOK, Entry, assoc, refreshing
<1>8. PendingHasNone'
  BY <1>2 DEF IInv, PendingHasNone
<1>9. /\ Done(k)' = Done(k) \cup {seq}
      /\ \A j \in Conns : Done(j)' = IF j = k THEN Done(j) \cup {seq} ELSE Done(j)
      /\ \A j \in Conns : Done(j) \subseteq Seqs /\ seq \notin Done(j)
  BY <1>1, <1>2 DEF Done
<1>10. StatsAreNewest'
  <2> SUFFICES ASSUME NEW j \in Conns
               PROVE  \/ Done(j)' = {} /\ rec'[j].stats = NoDigest /\ rec'[j].latestStatsSeq = 0
                      \/ /\ Last(Done(j)', rec'[j].latestStatsSeq)
                         /\ rec'[j].stats = snapshots'[rec'[j].latestStatsSeq].digest
    BY DEF StatsAreNewest, Last
  <2>1. \/ Done(j) = {} /\ rec[j].stats = NoDigest /\ rec[j].latestStatsSeq = 0
        \/ /\ Last(Done(j), rec[j].latestStatsSeq)
           /\ rec[j].stats = snapshots[rec[j].latestStatsSeq].digest
    BY DEF IInv, StatsAreNewest
  <2>2. CASE j # k
    <3>1. \A t \in Done(j) : snapshots'[t] = snapshots[t]
      BY <1>2, <1>9
    <3> QED
      BY <1>5, <1>9, <2>1, <2>2, <3>1 DEF Last
  <2>3. CASE j = k
    <3>1. seq \in Nat /\ rec[k].latestStatsSeq \in Nat /\ \A t \in Done(k) : t \in Nat
      BY <1>3, <1>9, <2>3 DEF Seqs
    <3>2. CASE newest
      <4>1. \A t \in Done(k) : t <= seq
        BY <2>1, <2>3, <3>1, <3>2 DEF Last
      <4> QED
        BY <1>2, <1>5, <1>9, <2>3, <3>1, <3>2, <4>1 DEF Last
    <3>3. CASE ~newest
      <4>1. rec[k].latestStatsSeq \in Done(k) /\ rec[k].latestStatsSeq # seq
        BY <1>9, <2>1, <2>3, <3>1, <3>3 DEF Last, Seqs
      <4>2. snapshots'[rec[k].latestStatsSeq] = snapshots[rec[k].latestStatsSeq]
        BY <1>1, <1>2, <1>9, <4>1
      <4> QED
        BY <1>5, <1>9, <2>1, <2>3, <3>1, <3>3, <4>1, <4>2 DEF Last
    <3> QED
      BY <3>2, <3>3
  <2> QED
    BY <2>2, <2>3
<1>11. AggregateIsFold'
  <2> SUFFICES ASSUME NEW j \in Conns, NEW p \in Pairs
               PROVE  IsFold(rec[j].pairsEverObserved[p], DoneWith(j, p), p)'
    BY DEF AggregateIsFold
  <2>1. IsFold(rec[j].pairsEverObserved[p], DoneWith(j, p), p)
    BY DEF IInv, AggregateIsFold
  <2>2. DoneWith(j, p) \subseteq Seqs /\ seq \notin DoneWith(j, p)
    BY <1>9 DEF DoneWith
  <2>3. CASE j = k /\ digest[p] # NoPair
    <3>1. DoneWith(k, p)' = DoneWith(k, p) \cup {seq}
      <4>1. \A t \in Done(k) : t \in Seqs /\ t # seq
        BY <1>9
      <4>2. \A t \in Done(k) : snapshots'[t].digest = snapshots[t].digest
        BY <1>2, <4>1
      <4>3. Done(k)' = Done(k) \cup {seq} /\ snapshots'[seq].digest[p] # NoPair
        BY <1>2, <1>9, <2>3
      <4> QED
        BY <4>2, <4>3 DEF DoneWith
    <3>2. rec'[k].pairsEverObserved[p] = mergeObserved(rec[k].pairsEverObserved[p], digest[p], seq)
      BY <1>5, <2>3 DEF Merged
    <3>3. PICK prev, all, pair : /\ prev = rec[k].pairsEverObserved[p]
                                 /\ all = DoneWith(k, p) /\ pair = digest[p]
      OBVIOUS
    <3>4. /\ prev \in Observed(Seqs) \cup {NoPair} /\ IsFold(prev, all, p)
          /\ all \in SUBSET Seqs /\ seq \notin all /\ pair \in Digested
      BY <1>3, <2>1, <2>2, <2>3, <3>3
    <3>5. snapshots'[seq].digest[p] = pair /\ \A t \in all : snapshots'[t] = snapshots[t]
      BY <1>2, <3>3, <3>4
    <3>6. rec'[j].pairsEverObserved[p] = mergeObserved(prev, pair, seq)
          /\ DoneWith(j, p)' = all \cup {seq}
      BY <2>3, <3>1, <3>2, <3>3
    <3>7. IsFold(mergeObserved(prev, pair, seq), all \cup {seq}, p)'
      BY <1>1, <1>2, <3>4, <3>5, MergeFolds
    <3>8. PICK v, S : v = mergeObserved(prev, pair, seq) /\ S = all \cup {seq}
      OBVIOUS
    <3>9. IsFold(v, S, p)'
      BY <3>7, <3>8
    <3>10. v = rec'[j].pairsEverObserved[p] /\ S = DoneWith(j, p)'
      BY <3>6, <3>8
    <3> QED
      BY <3>9, <3>10, NowFold
  <2>4. CASE j # k \/ digest[p] = NoPair
    <3>1. DoneWith(j, p)' = DoneWith(j, p)
      <4>1. ASSUME NEW t \in Done(j) PROVE snapshots'[t] = snapshots[t]
        <5>1. t \in Seqs /\ t # seq
          BY <1>9
        <5> QED
          BY <1>2, <5>1
      <4>2. \/ Done(j)' = Done(j)
            \/ Done(j)' = Done(j) \cup {seq} /\ digest[p] = NoPair
        <5>1. Done(j)' = IF j = k THEN Done(j) \cup {seq} ELSE Done(j)
          BY <1>9
        <5> QED
          BY <2>4, <5>1
      <4>3. \A t \in Done(j)' : snapshots'[t].digest[p] # NoPair
                                <=> t \in Done(j) /\ snapshots[t].digest[p] # NoPair
        BY <1>2, <1>9, <4>1, <4>2
      <4> QED
        BY <4>2, <4>3 DEF DoneWith
    <3>2. rec'[j].pairsEverObserved[p] = rec[j].pairsEverObserved[p]
      BY <1>5, <2>4 DEF Merged
    <3>3. PICK v, S : v = rec[j].pairsEverObserved[p] /\ S = DoneWith(j, p)
      OBVIOUS
    <3>4. IsFold(v, S, p) /\ \A t \in S : snapshots'[t] = snapshots[t]
      BY <1>2, <2>1, <2>2, <3>3
    <3>5. v = rec'[j].pairsEverObserved[p] /\ S = DoneWith(j, p)'
      BY <3>1, <3>2, <3>3
    <3> QED
      BY <3>4, <3>5, StillFold, NowFold
  <2> QED
    BY <2>3, <2>4
<1> QED
  BY <1>7, <1>8, <1>10, <1>11 DEF IInv

-----------------------------------------------------------------------------
LEMMA AssociateTyped ==
  ASSUME TypeOK, NEW k \in Conns, NEW attempt \in 0 .. MaxLooks, Associate(k, attempt)
  PROVE  look' \in [Conns -> NotYet .. Over] /\ associated' \in [Conns -> BOOLEAN]
BY BoundsAssumption DEF TypeOK, Associate, NotYet, Over

(* Requests are added, or settled, and TypeOK still holds. *)
LEMMA MoreTyped ==
  ASSUME TypeOK, snapshots' \in Seq(Entry), Len(snapshots') >= Len(snapshots),
         refresh' \in {"idle", "waiting", "returned"}, awaited' \subseteq Seqs',
         UNCHANGED <<statsKeyed, connections, signaled, rec, look, associated>>
  PROVE  TypeOK'
<1>1. Seqs \subseteq Seqs'
  BY DEF TypeOK, Seqs
<1>2. Observed(Seqs) \subseteq Observed(Seqs')
  BY <1>1 DEF Observed
<1>3. rec \in [Conns -> [stats : Digests \cup {NoDigest}, latestStatsSeq : {0} \cup Seqs',
                        pairsEverObserved : [Pairs -> Observed(Seqs') \cup {NoPair}]]]
  BY <1>1, <1>2 DEF TypeOK
<1>4. Observed(Seqs)' = Observed(Seqs')
  BY DEF Observed
<1> QED
  BY <1>3, <1>4 DEF TypeOK, Entry

LEMMA StepIInv == IInv /\ [Next]_vars => IInv'
<1> SUFFICES ASSUME IInv, [Next]_vars PROVE IInv'
  OBVIOUS
<1>1. ASSUME NEW k \in Conns, Probed(k) \/ Wrapped(k) \/ Look(k) PROVE IInv'
  <2>1. CASE Probed(k)
    BY <2>1, AsideIInv DEF Probed, assoc, refreshing, IInv, TypeOK, Seqs, Observed
  <2>2. CASE Wrapped(k) \/ Look(k)
    <3>1. look' \in [Conns -> NotYet .. Over] /\ associated' \in [Conns -> BOOLEAN]
      BY <2>2, AssociateTyped, BoundsAssumption DEF Wrapped, Look, IInv
    <3> QED
      BY <2>2, <3>1, AsideIInv DEF Wrapped, Look, refreshing, IInv, TypeOK, Seqs, Observed
  <2> QED
    BY <1>1, <2>1, <2>2
<1>2. ASSUME NEW k \in Conns, NEW c \in Candidates, Signal(k, c) PROVE IInv'
  BY <1>2, AsideIInv DEF Signal, assoc, refreshing, IInv, TypeOK, Seqs, Observed
<1>3. ASSUME NEW k \in Conns, NEW thrown \in BOOLEAN, StateChange(k, thrown) PROVE IInv'
  <2>1. /\ snapshots' \in Seq(Entry) /\ Len(snapshots') = Len(snapshots) + 1
        /\ \A seq \in Seqs : snapshots'[seq] = snapshots[seq]
        /\ snapshots'[Len(snapshots) + 1].digest = NoDigest
        /\ Len(snapshots) \in Nat
    BY <1>3 DEF StateChange, Request, Entry, IInv, TypeOK, Seqs
  <2>2. TypeOK'
    <3>1. Len(snapshots') >= Len(snapshots) /\ Seqs \subseteq Seqs'
      BY <2>1 DEF Seqs
    <3>2. refresh' \in {"idle", "waiting", "returned"} /\ awaited' \subseteq Seqs'
      BY <1>3, <3>1 DEF StateChange, refreshing, IInv, TypeOK
    <3> QED
      BY <1>3, <2>1, <3>1, <3>2, MoreTyped DEF StateChange, assoc, IInv
  <2> QED
    BY <1>3, <2>1, <2>2, NoDigestIInv DEF StateChange, Seqs
<1>4. ASSUME NEW seq \in Seqs, Answer(seq) PROVE IInv'
  <2> DEFINE k == snapshots[seq].conn
  <2>1. snapshots \in Seq(Entry) /\ snapshots[seq] \in Entry /\ k \in Conns
    <3>1. snapshots \in Seq(Entry)
      BY DEF IInv, TypeOK, Entry
    <3>2. snapshots[seq] \in Entry
      BY <3>1, ElementTyped DEF Seqs
    <3> QED
      BY <3>1, <3>2 DEF Entry
  <2>2. CASE SettleError(seq)
    <3>1. /\ snapshots' = [snapshots EXCEPT ![seq].settled = TRUE]
          /\ seq \in 1 .. Len(snapshots) /\ Len(snapshots) \in Nat
      BY <2>1, <2>2 DEF SettleError, Seqs
    <3>2. snapshots' \in Seq(Entry) /\ Len(snapshots') = Len(snapshots)
      <4>1. [snapshots[seq] EXCEPT !.settled = TRUE] \in Entry
        BY <2>1 DEF Entry
      <4>2. snapshots' = [snapshots EXCEPT ![seq] = [snapshots[seq] EXCEPT !.settled = TRUE]]
        BY <3>1
      <4> QED
        BY <2>1, <3>1, <4>1, <4>2, ReplacedTyped
    <3>3. /\ \A t \in Seqs : t # seq => snapshots'[t] = snapshots[t]
          /\ snapshots'[seq].conn = snapshots[seq].conn
          /\ snapshots'[seq].digest = snapshots[seq].digest
          /\ snapshots'[seq].settled
      BY <2>1, <3>1 DEF Entry, Seqs
    <3>4. TypeOK'
      <4>1. Seqs' = Seqs /\ Len(snapshots') >= Len(snapshots)
        BY <3>1, <3>2 DEF Seqs
      <4>2. refresh' \in {"idle", "waiting", "returned"} /\ awaited' \subseteq Seqs'
        BY <2>2, <4>1 DEF SettleError, refreshing, IInv, TypeOK
      <4> QED
        BY <2>2, <3>2, <4>1, <4>2, MoreTyped DEF SettleError, assoc, IInv
    <3> QED
      BY <2>2, <3>1, <3>2, <3>3, <3>4, NoDigestIInv DEF SettleError, Seqs
  <2>3. ASSUME NEW r \in Reports, Settle(seq, r) PROVE IInv'
    <3>1. PICK selected \in Selected(r) :
            /\ snapshots' = [snapshots EXCEPT ![seq].settled = TRUE,
                                              ![seq].digest = digestStats(r, k, selected)]
            /\ Apply(k, digestStats(r, k, selected), seq)
      BY <2>3 DEF Settle
    <3>2. digestStats(r, k, selected) \in Digests
      BY <2>1, DigestTyped DEF IInv
    <3> QED
      BY <1>4, <2>1, <2>3, <3>1, <3>2, SettleIInv DEF Answer, Settle
  <2> QED
    BY <1>4, <2>2, <2>3 DEF Answer
<1>5. ASSUME NEW thrown \in SUBSET Conns, RefreshStats(thrown) PROVE IInv'
  <2> DEFINE asked == [i \in 1 .. Len(connections) |->
                         Request(connections[i], connections[i] \in thrown)]
  <2>1. /\ snapshots \in Seq(Entry) /\ Len(snapshots) \in Nat /\ Len(connections) \in Nat
        /\ snapshots' = snapshots \o asked
    BY <1>5 DEF RefreshStats, IInv, TypeOK, Entry
  <2>2. asked \in Seq(Entry) /\ Len(asked) = Len(connections)
        /\ \A i \in 1 .. Len(connections) : asked[i].digest = NoDigest
    <3>1. \A i \in 1 .. Len(connections) : connections[i] \in Conns
      BY ElementTyped DEF IInv, TypeOK
    <3> QED
      BY <2>1, <3>1 DEF Request, Entry
  <2> HIDE DEF asked
  <2>3. /\ snapshots' \in Seq(Entry) /\ Len(snapshots') = Len(snapshots) + Len(connections)
        /\ \A t \in 1 .. Len(snapshots) : snapshots'[t] = snapshots[t]
        /\ \A t \in (Len(snapshots) + 1) .. Len(snapshots') : snapshots'[t] = asked[t - Len(snapshots)]
    <3>1. /\ snapshots' \in Seq(Entry) /\ Len(snapshots') = Len(snapshots) + Len(asked)
          /\ \A t \in 1 .. Len(snapshots') :
                snapshots'[t] = IF t <= Len(snapshots) THEN snapshots[t] ELSE asked[t - Len(snapshots)]
      <4>1. snapshots \in Seq(Entry) /\ asked \in Seq(Entry)
        BY <2>1, <2>2
      <4>2. /\ snapshots \o asked \in Seq(Entry)
            /\ Len(snapshots \o asked) = Len(snapshots) + Len(asked)
            /\ \A t \in 1 .. Len(snapshots) + Len(asked) :
                 (snapshots \o asked)[t] = IF t <= Len(snapshots) THEN snapshots[t]
                                           ELSE asked[t - Len(snapshots)]
        BY <4>1, JoinedTyped
      <4> QED
        BY <2>1, <4>2
    <3> QED
      BY <2>1, <2>2, <3>1
  <2>4. \A t \in (Len(snapshots) + 1) .. Len(snapshots') : snapshots'[t].digest = NoDigest
    BY <2>1, <2>2, <2>3
  <2>5. refresh' \in {"idle", "waiting", "returned"} /\ awaited' \subseteq Seqs'
    BY <1>5, <2>1, <2>3 DEF RefreshStats, Seqs
  <2>6. TypeOK'
    BY <1>5, <2>1, <2>3, <2>5, MoreTyped DEF RefreshStats, assoc, IInv
  <2> QED
    BY <1>5, <2>1, <2>3, <2>4, <2>6, NoDigestIInv DEF RefreshStats, Seqs
<1>6. CASE RefreshReturns
  BY <1>6, AsideIInv DEF RefreshReturns, assoc, IInv, TypeOK, Seqs, Observed
<1>7. CASE UNCHANGED vars
  BY <1>7, AsideIInv DEF vars, IInv, TypeOK, Seqs, Observed
<1> QED
  BY <1>1, <1>2, <1>3, <1>4, <1>5, <1>6, <1>7 DEF Next

(* The records of every connection stay what its settled requests make them. *)
THEOREM Invariance == Spec => []IInv
  BY InitIInv, StepIInv, PTL DEF Spec

(* Types are kept, for any connections, candidates and reports. *)
THEOREM TypeCorrect == Spec => []TypeOK
<1>1. IInv => TypeOK
  BY DEF IInv
<1> QED
  BY <1>1, Invariance, PTL

(* The stats of a connection are the digest of its newest request that has  *)
(* one, in whatever order getStats() answers.                               *)
THEOREM StatsAlwaysNewest == Spec => []StatsAreNewest
<1>1. IInv => StatsAreNewest
  BY DEF IInv
<1> QED
  BY <1>1, Invariance, PTL

(* The aggregate of each pair is the fold of all its digests. *)
THEOREM AggregateAlwaysFold == Spec => []AggregateIsFold
<1>1. IInv => AggregateIsFold
  BY DEF IInv
<1> QED
  BY <1>1, Invariance, PTL

(* No stat is ever described by the address of another candidate. *)
THEOREM AddressAlwaysRight == Spec => []AddressIsRight
<1>1. TypeOK => AddressIsRight
  BY RightAddress DEF AddressIsRight
<1> QED
  BY <1>1, TypeCorrect, PTL

=============================================================================
