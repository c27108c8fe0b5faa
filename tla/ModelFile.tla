----------------------------- MODULE ModelFile ------------------------------
(***************************************************************************)
(* addRemoteFile() of src/runtime/llmlet-runtime.js: the model as a file   *)
(* of the WASM file system whose chunks are loaded while they are read.    *)
(* A read runs on the page's thread (_fd_read is proxied) and cannot wait: *)
(* it starts the load of a missing chunk, says EAGAIN, and is repeated     *)
(* until the chunk is there.  At most MaxEntries chunks are kept.          *)
(*                                                                         *)
(* A lookup in IndexedDB that fails, or finds the connection closed, is a  *)
(* miss, so a miss is possible whatever is stored.                         *)
(*                                                                         *)
(* The body of a range is taken as it is: nobody compares its length with  *)
(* the one asked for, and IndexedDB keeps it under the whole chunk's key.  *)
(* It is assumed to start where it was asked to.                           *)
(***************************************************************************)
EXTENDS Chunks, FiniteSets

CONSTANTS
  Readers,              \* the threads that read the model
  MaxEntries,           \* maxEntries
  MaxTime               \* bound: the last value of the clock

ASSUME ModelFileAssumption == MaxEntries \in Nat \ {0} /\ MaxTime \in Nat

VARIABLES
  table,                \* node.waitingTable
  load,                 \* the promise chain that loads each chunk
  stored,               \* the chunks in IndexedDB, with their keys
  remoteError,          \* node.remote_error # null
  now,                  \* Date.now(), coarse enough for equal time stamps
  reader,               \* what each reader asks for, and the last bytes it got
  failed,               \* history: the source of the model has failed
  cut                   \* history: the chunks it has sent too few bytes of,
                        \* in this session, or an earlier one stored

vars == <<table, load, stored, remoteError, now, reader, failed, cut>>

Entry == [state : {"absent", "loading", "done"}, bytes : Run, lastUsed : 0 .. MaxTime]
Absent == [state |-> "absent", bytes |-> NoRun, lastUsed |-> 0]

(* The bodies a request for chunk c may be answered with: bytes of the      *)
(* model from where the chunk begins, as many or as few as the source sent. *)
Bodies(c) == {[from |-> Begin(c), length |-> n] : n \in 0 .. Size - Begin(c)}

(* Those a source that did not cut it short may have sent. *)
Received(c) == {body \in Bodies(c) : body.length < ChunkSize(c) => c \in cut}

(* What this code may have left in IndexedDB for the same model. *)
Storable == UNION {{Key(c)} \X Received(c) : c \in ChunkIds}

TypeOK ==
  /\ table \in [ChunkIds -> Entry]
  /\ load \in [ChunkIds -> {"none", "lookup", "fetch"}]
  /\ stored \in SUBSET Storable
  /\ remoteError \in BOOLEAN
  /\ now \in 0 .. MaxTime
  /\ reader \in [Readers -> Reader]
  /\ failed \in BOOLEAN
  /\ cut \in SUBSET ChunkIds

Init ==
  /\ table = [c \in ChunkIds |-> Absent]
  /\ load = [c \in ChunkIds |-> "none"]
  /\ cut \in SUBSET ChunkIds
  /\ stored \in SUBSET Storable
  /\ \A d, e \in stored : d[1] = e[1] => d = e
  /\ \A c \in cut : \E e \in stored : e[1] = Key(c) /\ e[2].length < ChunkSize(c)
  /\ remoteError = FALSE
  /\ now = 0
  /\ reader = [r \in Readers |-> Resting]
  /\ failed = FALSE

-----------------------------------------------------------------------------
Present(t) == {c \in ChunkIds : t[c].state # "absent"}
Done(t) == {c \in ChunkIds : t[c].state = "done"}

(* The scan keeps the first of the least recently used loaded chunks, and   *)
(* goes through the keys in ascending order.                                *)
Oldest(t) ==
  {c \in Done(t) : \A d \in Done(t) :
     \/ t[c].lastUsed < t[d].lastUsed
     \/ t[c].lastUsed = t[d].lastUsed /\ c <= d}

(* Mutant: the table is cut down only when a load begins. *)
NeverEvicted(t) == {t}

(* The tables the end of a successful read may leave: one chunk goes. *)
Evicted(t) ==
  IF Cardinality(Present(t)) > MaxEntries
    THEN {[t EXCEPT ![c] = Absent] : c \in Oldest(t)}
    ELSE {t}

(* buffer.set(...subarray(innerOffset, innerOffset + copySize)). *)
Copied(rd, e) ==
  LET innerOffset == rd.pos % ChunkMax
  IN  [from   |-> e.bytes.from + innerOffset,
       length |-> Least(rd.left, e.bytes.length - innerOffset)]

(* A negative count, which a chunk cut short gives to a read behind its end, *)
(* is an error to the program.                                               *)
Answered(rd, run) == IF run.length < 0 THEN Refused(rd) ELSE Advanced(rd, run)

-----------------------------------------------------------------------------
(* The program asks for some bytes, up to the end of the file or beyond. *)
Request(r) ==
  /\ reader[r].state # "reading"
  /\ \E p \in 0 .. Size, n \in 1 .. Size :
       reader' = [reader EXCEPT ![r] = Asking(p, n)]
  /\ UNCHANGED <<table, load, stored, remoteError, now, failed, cut>>

(* read() when the chunk is there: it copies, stamps, and then evicts. *)
ReadHit(r) ==
  LET c == ChunkOf(reader[r].pos)
  IN  /\ reader[r].state = "reading"
      /\ ~remoteError
      /\ table[c].state = "done"
      /\ reader' = [reader EXCEPT ![r] = Answered(@, Copied(@, table[c]))]
      /\ table' \in Evicted([table EXCEPT ![c].lastUsed = now])
      /\ UNCHANGED <<load, stored, remoteError, now, failed, cut>>

(* read() when it is not: the load begins and the read says EAGAIN.  While  *)
(* the chunk is loading a read says EAGAIN and changes nothing.             *)
ReadMiss(r) ==
  LET c == ChunkOf(reader[r].pos)
  IN  /\ reader[r].state = "reading"
      /\ ~remoteError
      /\ table[c].state = "absent"
      /\ table' = [table EXCEPT ![c] =
                     [state |-> "loading", bytes |-> NoRun, lastUsed |-> now]]
      /\ load' = [load EXCEPT ![c] = "lookup"]
      /\ UNCHANGED <<stored, remoteError, now, reader, failed, cut>>

(* read() after an error: EINVAL, for every chunk. *)
ReadRefused(r) ==
  /\ reader[r].state = "reading"
  /\ remoteError
  /\ reader' = [reader EXCEPT ![r] = Refused(@)]
  /\ UNCHANGED <<table, load, stored, remoteError, now, failed, cut>>

-----------------------------------------------------------------------------
(* The last step of a load writes to the entry read() made.  An entry that  *)
(* is gone makes it throw, and the catch records that as an error.          *)
Complete(c, bytes) ==
  /\ load' = [load EXCEPT ![c] = "none"]
  /\ \/ /\ table[c].state # "absent"
        /\ table' = [table EXCEPT ![c].state = "done", ![c].bytes = bytes]
        /\ UNCHANGED remoteError
     \/ /\ table[c].state = "absent"
        /\ remoteError' = TRUE
        /\ UNCHANGED table

LookupHits(c) ==
  /\ load[c] = "lookup"
  /\ \E entry \in stored :
       /\ entry[1] = Key(c)
       /\ Complete(c, entry[2])
  /\ UNCHANGED <<stored, now, reader, failed, cut>>

(* Mutant: a lookup that fails rejects, and nobody goes on. *)
LookupRejects(c) ==
  /\ load[c] = "lookup"
  /\ load' = [load EXCEPT ![c] = "none"]
  /\ UNCHANGED <<table, stored, remoteError, now, reader, failed, cut>>

(* Nothing is stored, or the lookup failed: fetchRange is called. *)
LookupMisses(c) ==
  /\ load[c] = "lookup"
  /\ load' = [load EXCEPT ![c] = "fetch"]
  /\ UNCHANGED <<table, stored, remoteError, now, reader, failed, cut>>

(* IndexedDB holds one value for a key. *)
Put(key, body) == {entry \in stored : entry[1] # key} \cup {<<key, body>>}

(* The range arrives, as long as it is.  It is stored on the side, which    *)
(* may fail.                                                                *)
Fetched(c) ==
  /\ load[c] = "fetch"
  /\ \E body \in Bodies(c) :
       /\ stored' \in {stored, Put(Key(c), body)}
       /\ cut' = IF body.length < ChunkSize(c) THEN cut \cup {c} ELSE cut
       /\ Complete(c, body)
  /\ UNCHANGED <<now, reader, failed>>

(* Mutant: the error is logged and forgotten. *)
FetchFailsSilently(c) ==
  /\ load[c] = "fetch"
  /\ load' = [load EXCEPT ![c] = "none"]
  /\ failed' = TRUE
  /\ UNCHANGED <<table, stored, remoteError, now, reader, cut>>

(* fetchRange throws or rejects: the error sticks to the file, and the      *)
(* chunk stays marked as loading.                                           *)
FetchFails(c) ==
  /\ load[c] = "fetch"
  /\ load' = [load EXCEPT ![c] = "none"]
  /\ remoteError' = TRUE
  /\ failed' = TRUE
  /\ UNCHANGED <<table, stored, now, reader, cut>>

Tick ==
  /\ now < MaxTime
  /\ now' = now + 1
  /\ UNCHANGED <<table, load, stored, remoteError, reader, failed, cut>>

-----------------------------------------------------------------------------
Reading(r) == ReadHit(r) \/ ReadMiss(r) \/ ReadRefused(r)

Loading(c) == LookupHits(c) \/ LookupMisses(c) \/ Fetched(c) \/ FetchFails(c)

Next ==
  \/ \E r \in Readers : Request(r) \/ Reading(r)
  \/ \E c \in ChunkIds : Loading(c)
  \/ Tick

Spec == Init /\ [][Next]_vars

(* A lookup and a fetch settle; a reader repeats its read. *)
LoadFair == /\ \A r \in Readers : WF_vars(Reading(r))
            /\ \A c \in ChunkIds : WF_vars(Loading(c))

FairSpec == Spec /\ LoadFair

-----------------------------------------------------------------------------
(* A chunk marked as loading has a load under way, or the file has failed,  *)
(* and no load is left without its entry.  Otherwise a reader repeats its   *)
(* read for ever, or the end of a load finds no entry to write to.          *)
LoadingIsLoaded ==
  \A c \in ChunkIds :
    /\ table[c].state = "loading" => load[c] # "none" \/ remoteError
    /\ load[c] # "none" => table[c].state = "loading"

(* The error that makes every later read fail comes from the model's        *)
(* source, never from the table's own bookkeeping.                          *)
ErrorIsGenuine == remoteError => failed

(* With one reader the table never holds more than one chunk too many,      *)
(* though a loading chunk is not evicted and a failed one never is.         *)
TableIsBounded == Cardinality(Present(table)) <= MaxEntries + 1

(* What the table holds is the model's own, and all of it unless the source *)
(* has cut it short.                                                        *)
BytesAreOwn ==
  \A c \in ChunkIds : table[c].state = "done" => table[c].bytes \in Received(c)

(* A reader that reads still wants something. *)
ReadersWant == \A r \in Readers : reader[r].state = "reading" => reader[r].left > 0

IInv == TypeOK /\ LoadingIsLoaded /\ ErrorIsGenuine /\ BytesAreOwn /\ ReadersWant

(* Chunks, eviction and errors included, the readers see a file; the end of *)
(* the file is false only in a chunk the source has cut short.              *)
AsFile == INSTANCE ByteFile
ImplementsByteFile == AsFile!Spec

(* A read of a single reader comes to an end: it gets its bytes, finds the  *)
(* end of the file, or fails.                                               *)
ReadSettles == \A r \in Readers : reader[r].state = "reading" ~> reader[r].state # "reading"

=============================================================================
