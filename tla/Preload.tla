------------------------------ MODULE Preload -------------------------------
(***************************************************************************)
(* prepareModel() for a model given by URL: HEAD announces the size, a     *)
(* probe tells whether the server knows ranges, and if it does not,        *)
(* fetchWholeModelToCache() cuts the streamed body into chunks and stores  *)
(* each under the key that read() will compute from the announced size.    *)
(*                                                                         *)
(* The body need not have the announced size: it may be encoded, cut short *)
(* or replaced after HEAD.                                                 *)
(***************************************************************************)
EXTENDS Chunks

CONSTANTS
  MaxBody,              \* bound: the longest body
  MaxPiece              \* bound: the longest piece the stream delivers

ASSUME PreloadAssumption == MaxBody \in Nat /\ MaxPiece \in Nat \ {0}

VARIABLES
  phase,                \* where prepareModel is
  rangeSupported,
  body,                 \* the length of the body, known to the server only
  received,             \* how much of it the stream has delivered
  rest,                 \* value.length - readOffset
  chunkPosition,
  chunk,                \* the bytes in the buffer; its length is chunkLength
  stored                \* the chunks put into IndexedDB, with their keys

vars == <<phase, rangeSupported, body, received, rest, chunkPosition, chunk, stored>>

TypeOK ==
  /\ phase \in {"head", "probe", "read", "copy", "put", "last", "ready", "failed"}
  /\ rangeSupported \in BOOLEAN
  /\ body \in 0 .. MaxBody /\ received \in 0 .. body /\ rest \in 0 .. received
  /\ chunkPosition \in 0 .. body
  /\ chunk \in Run /\ chunk.length <= ChunkMax

Init ==
  /\ phase = "head"
  /\ rangeSupported = FALSE
  /\ body \in 0 .. MaxBody
  /\ received = 0 /\ rest = 0
  /\ chunkPosition = 0
  /\ chunk = NoRun
  /\ stored = {}

-----------------------------------------------------------------------------
(* HEAD answers with a usable Content-Length, which is Size. *)
Head ==
  /\ phase = "head"
  /\ phase' = "probe"
  /\ UNCHANGED <<rangeSupported, body, received, rest, chunkPosition, chunk, stored>>

Probe ==
  /\ phase = "probe"
  /\ rangeSupported' \in BOOLEAN
  /\ phase' = IF rangeSupported' THEN "ready" ELSE "read"
  /\ UNCHANGED <<body, received, rest, chunkPosition, chunk, stored>>

(* reader.read() delivers a piece of the body. *)
Piece ==
  /\ phase = "read"
  /\ received < body
  /\ \E n \in 1 .. MaxPiece :
       /\ received + n <= body
       /\ received' = received + n
       /\ rest' = n
  /\ phase' = "copy"
  /\ UNCHANGED <<rangeSupported, body, chunkPosition, chunk, stored>>

(* One turn of the inner loop, up to its await: bytes go from the piece to  *)
(* the buffer, which is stored when it is full.                             *)
Copy ==
  /\ phase = "copy"
  /\ LET copyLength == Least(rest, ChunkMax - chunk.length)
     IN  /\ rest' = rest - copyLength
         /\ chunk' = [from   |-> IF chunk.length = 0 THEN received - rest ELSE chunk.from,
                      length |-> chunk.length + copyLength]
         /\ phase' = IF chunk.length + copyLength = ChunkMax THEN "put"
                     ELSE IF rest = copyLength THEN "read" ELSE "copy"
  /\ UNCHANGED <<rangeSupported, body, received, chunkPosition, stored>>

(* Storing under a key replaces what was there. *)
Put(key, bytes) == {e \in stored : e[1] # key} \cup {<<key, bytes>>}

(* Mutant: every full chunk is stored as the first. *)
PutFullInPlace ==
  /\ phase = "put"
  /\ stored' = Put(<<chunkPosition, chunkPosition + ChunkMax>>, chunk)
  /\ chunk' = NoRun
  /\ phase' = IF rest = 0 THEN "read" ELSE "copy"
  /\ UNCHANGED <<rangeSupported, body, received, rest, chunkPosition>>

(* A full chunk is stored, and a new one begins. *)
PutFull ==
  /\ phase = "put"
  /\ stored' = Put(<<chunkPosition, chunkPosition + ChunkMax>>, chunk)
  /\ chunkPosition' = chunkPosition + ChunkMax
  /\ chunk' = NoRun
  /\ phase' = IF rest = 0 THEN "read" ELSE "copy"
  /\ UNCHANGED <<rangeSupported, body, received, rest>>

(* Mutant: only full chunks are stored. *)
DoneWithoutTail ==
  /\ phase = "read"
  /\ received = body
  /\ phase' = "ready"
  /\ UNCHANGED <<rangeSupported, body, received, rest, chunkPosition, chunk, stored>>

(* The stream is done; what is left in the buffer is the last chunk. *)
Done ==
  /\ phase = "read"
  /\ received = body
  /\ phase' = IF chunk.length > 0 THEN "last" ELSE "ready"
  /\ UNCHANGED <<rangeSupported, body, received, rest, chunkPosition, chunk, stored>>

PutLast ==
  /\ phase = "last"
  /\ stored' = Put(<<chunkPosition, chunkPosition + chunk.length>>, chunk)
  /\ phase' = "ready"
  /\ UNCHANGED <<rangeSupported, body, received, rest, chunkPosition, chunk>>

(* Any fetch, read of the stream or put may reject: startup fails. *)
Fails ==
  /\ phase \in {"head", "probe", "read", "put", "last"}
  /\ phase' = "failed"
  /\ UNCHANGED <<rangeSupported, body, received, rest, chunkPosition, chunk, stored>>

Next == Head \/ Probe \/ Piece \/ Copy \/ PutFull \/ Done \/ PutLast \/ Fails

Spec == Init /\ [][Next]_vars

-----------------------------------------------------------------------------
(* Whatever the body's length, and however far the preload got, what a      *)
(* reader finds under a key are the bytes of the chunk it looks for.        *)
StoredIsExact ==
  \A e \in stored, c \in ChunkIds : e[1] = Key(c) => e[2] = Exact(c)

(* A preload that ends without ranges to fall back on has stored every      *)
(* chunk, if the body had the size HEAD announced, however it was cut into  *)
(* pieces.  A reader then never meets "unexpected cache miss".              *)
PreloadIsComplete ==
  phase = "ready" /\ ~rangeSupported /\ body = Size =>
    \A c \in ChunkIds : ChunkSize(c) > 0 => <<Key(c), Exact(c)>> \in stored

-----------------------------------------------------------------------------
(* What the loop keeps: the chunks stored, the buffer and the rest of the   *)
(* piece are the part of the body received, in this order.                  *)
LoopShape ==
  /\ chunkPosition + chunk.length + rest = received
  /\ chunk.length > 0 => chunk.from = chunkPosition
  /\ phase \in {"head", "probe", "read", "last", "ready"} => rest = 0
  /\ phase = "copy" => rest > 0
  /\ phase = "put" => chunk.length = ChunkMax
  /\ phase \in {"head", "probe", "read", "copy", "last", "ready"} => chunk.length < ChunkMax
  /\ phase = "last" => chunk.length > 0

(* What is stored is what its key says. *)
KeysAreHonest ==
  \A e \in stored :
    e[1] \in Nat \X Nat /\ e[2] = [from |-> e[1][1], length |-> e[1][2] - e[1][1]]

FullChunk(c) == <<<<Begin(c), Begin(c) + ChunkMax>>, [from |-> Begin(c), length |-> ChunkMax]>>

(* Every chunk before chunkPosition is stored. *)
StoredSoFar ==
  \E k \in 0 .. chunkPosition :
    /\ chunkPosition = Begin(k)
    /\ \A c \in 0 .. k - 1 : FullChunk(c) \in stored

(* At the end the last chunk is stored as well. *)
TailIsStored ==
  phase \in {"last", "ready"} /\ ~rangeSupported =>
    /\ received = body
    /\ phase = "ready" /\ chunk.length > 0 =>
         <<<<chunkPosition, chunkPosition + chunk.length>>, chunk>> \in stored

IInv == TypeOK /\ LoopShape /\ KeysAreHonest /\ StoredSoFar /\ TailIsStored

=============================================================================
