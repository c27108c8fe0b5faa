--------------------------- MODULE PreloadProofs ----------------------------
(* Proofs about the preload, for every CHUNK_MAX, announced size, body and  *)
(* way of cutting the body into pieces.                                     *)
EXTENDS Preload, TLAPS

LEMMA BeginIsNat == ASSUME NEW k \in Nat PROVE Begin(k) \in Nat
BY ChunksAssumption DEF Begin

LEMMA BeginNext ==
  ASSUME NEW k \in Nat
  PROVE  Begin(k + 1) = Begin(k) + ChunkMax
BY ChunksAssumption DEF Begin

(* Chunks lie one after the other. *)
LEMMA BeginOrdered ==
  ASSUME NEW c \in Nat, NEW k \in Nat, c < k
  PROVE  Begin(c) + ChunkMax <= Begin(k)
<1>1. c + 1 <= k
  OBVIOUS
<1>2. (c + 1) * ChunkMax <= k * ChunkMax
  BY <1>1, ChunksAssumption
<1> QED
  BY <1>2, BeginNext, ChunksAssumption DEF Begin

(* Storing at or after chunk k leaves the chunks before it. *)
LEMMA PutKeepsEarlier ==
  ASSUME NEW k \in Nat, NEW end \in Nat, NEW bytes,
         \A c \in 0 .. k - 1 : FullChunk(c) \in stored
  PROVE  \A c \in 0 .. k - 1 : FullChunk(c) \in Put(<<Begin(k), end>>, bytes)
<1> SUFFICES ASSUME NEW c \in 0 .. k - 1
             PROVE  FullChunk(c) \in Put(<<Begin(k), end>>, bytes)
  OBVIOUS
<1>1. Begin(c) + ChunkMax <= Begin(k) /\ Begin(c) \in Nat /\ Begin(k) \in Nat
  BY BeginOrdered, BeginIsNat
<1>2. Begin(c) # Begin(k)
  BY <1>1, ChunksAssumption
<1>3. FullChunk(c)[1] # <<Begin(k), end>>
  BY <1>2 DEF FullChunk
<1> QED
  BY <1>3 DEF Put

(* A chunk stored under the key of its place leaves the keys honest. *)
LEMMA PutKeepsHonest ==
  ASSUME KeysAreHonest, NEW p \in Nat, NEW n \in Nat,
         stored' = Put(<<p, p + n>>, [from |-> p, length |-> n])
  PROVE  KeysAreHonest'
<1> SUFFICES ASSUME NEW e \in stored'
             PROVE  /\ e[1] \in Nat \X Nat
                    /\ e[2] = [from |-> e[1][1], length |-> e[1][2] - e[1][1]]
  BY DEF KeysAreHonest
<1>1. CASE e \in stored
  BY <1>1 DEF KeysAreHonest
<1>2. CASE e = <<<<p, p + n>>, [from |-> p, length |-> n]>>
  <2>1. e[1] = <<p, p + n>> /\ e[2] = [from |-> p, length |-> n] /\ (p + n) - p = n
    BY <1>2
  <2>2. e[1][1] = p /\ e[1][2] = p + n /\ e[1] \in Nat \X Nat
    BY <2>1
  <2> QED
    BY <2>1, <2>2
<1> QED
  BY <1>1, <1>2 DEF Put

LEMMA InitIInv == Init => IInv
<1> SUFFICES ASSUME Init PROVE IInv
  OBVIOUS
<1>1. TypeOK /\ LoopShape
  <2>1. NoRun \in Run /\ NoRun.length = 0 /\ 0 < ChunkMax /\ 0 <= ChunkMax
    BY ChunksAssumption DEF Run, NoRun
  <2>2. TypeOK
    <3>1. body \in 0 .. MaxBody /\ 0 \in 0 .. body /\ 0 \in 0 .. 0
      BY PreloadAssumption DEF Init
    <3> QED
      BY <2>1, <3>1 DEF Init, TypeOK
  <2>3. LoopShape
    BY <2>1 DEF Init, LoopShape
  <2> QED
    BY <2>2, <2>3
<1>2. KeysAreHonest /\ TailIsStored
  BY DEF Init, KeysAreHonest, TailIsStored
<1>3. StoredSoFar
  <2>1. chunkPosition = Begin(0) /\ 0 \in 0 .. chunkPosition
    BY ChunksAssumption DEF Init, Begin
  <2> QED
    BY <2>1 DEF StoredSoFar
<1> QED
  BY <1>1, <1>2, <1>3 DEF IInv

-----------------------------------------------------------------------------
(* One case per action. *)
LEMMA StepIInv == IInv /\ [Next]_vars => IInv'
<1> SUFFICES ASSUME IInv, [Next]_vars PROVE IInv'
  OBVIOUS
<1> USE ChunksAssumption, PreloadAssumption DEF IInv
<1>1. CASE Head
  BY <1>1 DEF Head, TypeOK, LoopShape, KeysAreHonest, StoredSoFar, TailIsStored
<1>2. CASE Probe
  <2>1. /\ phase = "probe" /\ rangeSupported' \in BOOLEAN
        /\ (phase' = "ready" /\ rangeSupported') \/ phase' = "read"
        /\ UNCHANGED <<body, received, rest, chunkPosition, chunk, stored>>
    BY <1>2 DEF Probe
  <2>2. TypeOK'
    BY <2>1 DEF TypeOK
  <2>3. LoopShape'
    BY <2>1 DEF LoopShape
  <2> QED
    BY <2>1, <2>2, <2>3 DEF KeysAreHonest, StoredSoFar, TailIsStored
<1>3. CASE Piece
  <2>1. PICK n \in 1 .. MaxPiece :
          received + n <= body /\ received' = received + n /\ rest' = n
    BY <1>3 DEF Piece
  <2>2. /\ phase = "read" /\ phase' = "copy"
        /\ UNCHANGED <<rangeSupported, body, chunkPosition, chunk, stored>>
    BY <1>3 DEF Piece
  <2>3. TypeOK' /\ LoopShape'
    BY <2>1, <2>2 DEF TypeOK, LoopShape, Run
  <2> QED
    BY <2>2, <2>3 DEF KeysAreHonest, StoredSoFar, TailIsStored
<1>4. CASE Copy
  <2> DEFINE n == Least(rest, ChunkMax - chunk.length)
  <2>1. /\ phase = "copy"
        /\ rest' = rest - n
        /\ chunk' = [from   |-> IF chunk.length = 0 THEN received - rest ELSE chunk.from,
                     length |-> chunk.length + n]
        /\ phase' = IF chunk.length + n = ChunkMax THEN "put"
                    ELSE IF rest = n THEN "read" ELSE "copy"
        /\ UNCHANGED <<rangeSupported, body, received, chunkPosition, stored>>
    BY <1>4 DEF Copy
  <2>2. /\ chunk \in Run /\ chunk.length < ChunkMax /\ chunk.length \in Nat /\ chunk.from \in Nat
        /\ rest \in Nat /\ received \in Nat /\ rest > 0 /\ rest <= received
        /\ chunkPosition \in Nat /\ chunkPosition + chunk.length + rest = received
        /\ chunk.length > 0 => chunk.from = chunkPosition
    BY <2>1 DEF TypeOK, LoopShape, Run
  <2>3. n \in 1 .. rest /\ chunk.length + n <= ChunkMax
        /\ (n = rest \/ chunk.length + n = ChunkMax)
    BY <2>2 DEF Least
  <2> HIDE DEF n
  <2>4. /\ chunk'.length = chunk.length + n
        /\ chunk'.from = chunkPosition
        /\ chunk' \in Run
    BY <2>1, <2>2, <2>3 DEF Run
  <2>5. TypeOK'
    BY <2>1, <2>2, <2>3, <2>4 DEF TypeOK
  <2>6. LoopShape'
    BY <2>1, <2>2, <2>3, <2>4 DEF LoopShape
  <2> QED
    BY <2>1, <2>5, <2>6 DEF KeysAreHonest, StoredSoFar, TailIsStored
<1>5. CASE PutFull
  <2>1. /\ phase = "put" /\ phase' = IF rest = 0 THEN "read" ELSE "copy"
        /\ stored' = Put(<<chunkPosition, chunkPosition + ChunkMax>>, chunk)
        /\ chunkPosition' = chunkPosition + ChunkMax
        /\ chunk' = NoRun
        /\ UNCHANGED <<rangeSupported, body, received, rest>>
    BY <1>5 DEF PutFull
  <2>2. chunk = [from |-> chunkPosition, length |-> ChunkMax] /\ chunkPosition \in Nat
    BY <2>1 DEF TypeOK, LoopShape, Run
  <2>3. TypeOK' /\ LoopShape'
    BY <2>1, <2>2 DEF TypeOK, LoopShape, Run, NoRun
  <2>4. KeysAreHonest'
    BY <2>1, <2>2, PutKeepsHonest
  <2>5. PICK k \in 0 .. chunkPosition :
          chunkPosition = Begin(k) /\ \A c \in 0 .. k - 1 : FullChunk(c) \in stored
    BY DEF StoredSoFar
  <2>6. \A c \in 0 .. k - 1 : FullChunk(c) \in stored'
    BY <2>1, <2>2, <2>5, PutKeepsEarlier
  <2>7. FullChunk(k) \in stored'
    BY <2>1, <2>2, <2>5 DEF FullChunk, Put
  <2>8. StoredSoFar'
    <3>1. chunkPosition' = Begin(k + 1) /\ k + 1 \in 0 .. chunkPosition'
      BY <2>1, <2>2, <2>5, BeginNext
    <3>2. \A c \in 0 .. (k + 1) - 1 : FullChunk(c) \in stored'
      BY <2>2, <2>6, <2>7
    <3> QED
      BY <3>1, <3>2 DEF StoredSoFar, FullChunk
  <2> QED
    BY <2>1, <2>3, <2>4, <2>8 DEF TailIsStored
<1>6. CASE Done
  BY <1>6 DEF Done, TypeOK, LoopShape, KeysAreHonest, StoredSoFar, TailIsStored, Run
<1>7. CASE PutLast
  <2>1. /\ phase = "last" /\ phase' = "ready"
        /\ stored' = Put(<<chunkPosition, chunkPosition + chunk.length>>, chunk)
        /\ UNCHANGED <<rangeSupported, body, received, rest, chunkPosition, chunk>>
    BY <1>7 DEF PutLast
  <2>2. /\ chunkPosition \in Nat /\ chunk.length \in Nat
        /\ chunk = [from |-> chunkPosition, length |-> chunk.length]
    BY <2>1 DEF TypeOK, LoopShape, Run
  <2>3. TypeOK' /\ LoopShape'
    BY <2>1 DEF TypeOK, LoopShape
  <2>4. KeysAreHonest'
    BY <2>1, <2>2, PutKeepsHonest
  <2>5. StoredSoFar'
    <3>1. PICK k \in 0 .. chunkPosition :
            chunkPosition = Begin(k) /\ \A c \in 0 .. k - 1 : FullChunk(c) \in stored
      BY DEF StoredSoFar
    <3>2. \A c \in 0 .. k - 1 : FullChunk(c) \in stored'
      BY <2>1, <2>2, <3>1, PutKeepsEarlier
    <3> QED
      BY <2>1, <3>1, <3>2 DEF StoredSoFar, FullChunk
  <2>6. TailIsStored'
    BY <2>1 DEF TailIsStored, Put
  <2> QED
    BY <2>3, <2>4, <2>5, <2>6
<1>8. CASE Fails
  BY <1>8 DEF Fails, TypeOK, LoopShape, KeysAreHonest, StoredSoFar, TailIsStored
<1>9. CASE UNCHANGED vars
  BY <1>9 DEF vars, TypeOK, LoopShape, KeysAreHonest, StoredSoFar, TailIsStored
<1> QED
  BY <1>1, <1>2, <1>3, <1>4, <1>5, <1>6, <1>7, <1>8, <1>9 DEF Next

(* The inductive invariant holds in every reachable state. *)
THEOREM Invariance == Spec => []IInv
<1> QED
  BY InitIInv, StepIInv, PTL DEF Spec

(* Every variable keeps to its type. *)
THEOREM TypeCorrect == Spec => []TypeOK
<1>1. IInv => TypeOK
  BY DEF IInv
<1> QED
  BY <1>1, Invariance, PTL

-----------------------------------------------------------------------------
(* Whatever length the body has, a chunk found under a reader's key is the  *)
(* chunk that reader looks for.                                             *)
THEOREM StoredAlwaysExact == Spec => []StoredIsExact
<1>1. IInv => StoredIsExact
  <2> SUFFICES ASSUME IInv, NEW e \in stored, NEW c \in ChunkIds, e[1] = Key(c)
               PROVE  e[2] = Exact(c)
    BY DEF StoredIsExact
  <2>1. e[2] = [from |-> e[1][1], length |-> e[1][2] - e[1][1]]
    BY DEF IInv, KeysAreHonest
  <2>2. e[1][1] = Begin(c) /\ e[1][2] = Begin(c) + ChunkSize(c)
    BY DEF Key
  <2>3. Begin(c) \in Nat /\ ChunkSize(c) \in Int
    BY BeginIsNat, ChunksAssumption DEF ChunkIds, ChunkSize, Least
  <2> QED
    BY <2>1, <2>2, <2>3 DEF Exact
<1> QED
  BY <1>1, Invariance, PTL

(* A preload of a body of the announced size leaves no chunk to be missed.  *)
THEOREM PreloadAlwaysComplete == Spec => []PreloadIsComplete
<1>1. IInv => PreloadIsComplete
  <2> SUFFICES ASSUME IInv, phase = "ready", ~rangeSupported, body = Size,
                      NEW c \in ChunkIds, ChunkSize(c) > 0
               PROVE  <<Key(c), Exact(c)>> \in stored
    BY DEF PreloadIsComplete
  <2>1. PICK k \in 0 .. chunkPosition :
          chunkPosition = Begin(k) /\ \A d \in 0 .. k - 1 : FullChunk(d) \in stored
    BY DEF IInv, StoredSoFar
  <2>2. /\ chunkPosition \in Nat /\ k \in Nat /\ chunk.length \in Nat
        /\ chunk.length < ChunkMax
        /\ Size = Begin(k) + chunk.length
    BY <2>1 DEF IInv, TypeOK, LoopShape, TailIsStored, Run
  <2>3. c \in Nat /\ Begin(c) \in Nat /\ Begin(k) \in Nat /\ Begin(c) < Size
    <3>1. c \in Nat /\ Begin(c) \in Nat
      BY BeginIsNat, ChunksAssumption DEF ChunkIds
    <3> QED
      BY <2>1, <2>2, <3>1, ChunksAssumption DEF ChunkSize, Least
  <2>4. CASE c < k
    <3>1. Begin(c) + ChunkMax <= Size
      BY <2>2, <2>3, <2>4, BeginOrdered, ChunksAssumption
    <3>2. ChunkSize(c) = ChunkMax
      BY <3>1, <2>3, ChunksAssumption DEF ChunkSize, Least
    <3>3. FullChunk(c) = <<Key(c), Exact(c)>>
      BY <3>2 DEF FullChunk, Key, Exact
    <3> QED
      BY <2>1, <2>2, <2>3, <2>4, <3>3
  <2>5. CASE c = k
    <3>1. ChunkSize(c) = chunk.length /\ chunk.length > 0
      BY <2>2, <2>3, <2>5, ChunksAssumption DEF ChunkSize, Least
    <3>2. chunk = [from |-> Begin(k), length |-> chunk.length]
      BY <2>1, <3>1 DEF IInv, TypeOK, LoopShape, Run
    <3> QED
      BY <2>1, <2>5, <3>1, <3>2 DEF IInv, TailIsStored, Key, Exact
  <2>6. CASE c > k
    <3>1. Begin(k) + ChunkMax <= Begin(c)
      BY <2>2, <2>3, <2>6, BeginOrdered
    <3> QED
      BY <2>2, <2>3, <3>1, ChunksAssumption
  <2> QED
    BY <2>2, <2>3, <2>4, <2>5, <2>6
<1> QED
  BY <1>1, Invariance, PTL

=============================================================================
