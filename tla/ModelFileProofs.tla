-------------------------- MODULE ModelFileProofs ---------------------------
(* Proofs about the virtual model file, for every CHUNK_MAX, size of the    *)
(* model, number of entries kept, and set of readers.                       *)
EXTENDS ModelFile, FiniteSetTheorems, TLAPS

(* A position is an offset in its chunk. *)
LEMMA Offset ==
  ASSUME NEW p \in Nat
  PROVE  /\ ChunkOf(p) \in Nat
         /\ p % ChunkMax \in 0 .. ChunkMax - 1
         /\ p = Begin(ChunkOf(p)) + (p % ChunkMax)
BY ChunksAssumption DEF ChunkOf, Begin

(* Every position up to the end of the file belongs to a chunk. *)
LEMMA ChunkOfPosition ==
  ASSUME NEW p \in 0 .. Size
  PROVE  ChunkOf(p) \in ChunkIds
BY ChunksAssumption DEF ChunkOf, ChunkIds

(* A body the source may send for a chunk is a run of the model from where  *)
(* the chunk begins.                                                        *)
LEMMA BodyIsRun ==
  ASSUME NEW c \in Nat, NEW body \in Bodies(c)
  PROVE  /\ body \in Run /\ body.from = Begin(c) /\ body.from + body.length <= Size
         /\ body = [from |-> body.from, length |-> body.length]
<1>1. Begin(c) \in Nat /\ Size \in Nat
  BY ChunksAssumption DEF Begin
<1>2. PICK n \in 0 .. Size - Begin(c) : body = [from |-> Begin(c), length |-> n]
  BY DEF Bodies
<1>3. n \in Nat /\ Begin(c) + n <= Size
  BY <1>1, <1>2
<1> QED
  BY <1>1, <1>2, <1>3 DEF Run

(* Chunks that begin at the same place are the same. *)
LEMMA SameProduct ==
  ASSUME NEW a \in Nat, NEW b \in Nat, NEW m \in Nat \ {0}, a * m = b * m
  PROVE  a = b
<1>1. CASE a < b
  <2>1. (a + 1) * m <= b * m
    BY <1>1
  <2> QED
    BY <2>1
<1>2. CASE b < a
  <2>1. (b + 1) * m <= a * m
    BY <1>2
  <2> QED
    BY <2>1
<1> QED
  BY <1>1, <1>2

(* A body is received whatever else is cut short. *)
LEMMA ReceivedGrows ==
  ASSUME NEW c, cut \subseteq cut'
  PROVE  Received(c) \subseteq Received(c)'
BY DEF Received

(* What a read copies is what was asked for, and nothing, or less, only at  *)
(* the end or in a chunk that was cut short.                                *)
LEMMA CopyIsOwn ==
  ASSUME NEW rd \in Reader, rd.left > 0,
         NEW e, e.bytes \in Received(ChunkOf(rd.pos))
  PROVE  /\ Copied(rd, e) = [from |-> rd.pos, length |-> Copied(rd, e).length]
         /\ Copied(rd, e).length \in Int
         /\ Copied(rd, e).length <= rd.left
         /\ rd.pos + Copied(rd, e).length <= Size
         /\ Copied(rd, e).length = 0 => rd.pos = Size \/ ChunkOf(rd.pos) \in cut
         /\ Copied(rd, e).length < 0 => ChunkOf(rd.pos) \in cut
<1> DEFINE inner == rd.pos % ChunkMax
           c == ChunkOf(rd.pos)
           b == Begin(c)
           n == e.bytes.length
<1>1. rd.pos \in 0 .. Size /\ rd.left \in 0 .. Size /\ Size \in Nat
  BY ChunksAssumption DEF Reader
<1>2. /\ c \in Nat /\ b \in Nat /\ ChunkMax \in Nat
      /\ inner \in 0 .. ChunkMax - 1 /\ rd.pos = b + inner
  <2>1. c \in Nat /\ inner \in 0 .. ChunkMax - 1 /\ rd.pos = b + inner
    BY <1>1, Offset
  <2> QED
    BY <2>1, <1>1, ChunksAssumption DEF Begin
<1>3. e.bytes \in Bodies(c) /\ (n < ChunkSize(c) => c \in cut)
  BY DEF Received
<1>4. e.bytes.from = b /\ n \in Nat /\ b + n <= Size
  BY <1>2, <1>3, BodyIsRun DEF Run
<1>5. ChunkSize(c) = Least(ChunkMax, Size - b)
  BY DEF ChunkSize
<1> HIDE DEF inner, b, n, c
<1>6. /\ Copied(rd, e) = [from |-> b + inner, length |-> Least(rd.left, n - inner)]
      /\ Copied(rd, e).length = Least(rd.left, n - inner)
  BY <1>4 DEF Copied, inner, n, b
<1>7. /\ Least(rd.left, n - inner) \in Int
      /\ Least(rd.left, n - inner) <= rd.left
      /\ rd.pos + Least(rd.left, n - inner) <= Size
  BY <1>1, <1>2, <1>4 DEF Least
<1>8. ASSUME Least(rd.left, n - inner) = 0 PROVE rd.pos = Size \/ c \in cut
  <2>1. n <= inner
    BY <1>1, <1>2, <1>4, <1>8 DEF Least
  <2>2. CASE n < ChunkSize(c)
    BY <1>3, <2>2
  <2>3. CASE ~(n < ChunkSize(c))
    BY <1>1, <1>2, <1>4, <1>5, <2>1, <2>3 DEF Least
  <2> QED
    BY <2>2, <2>3
<1>9. ASSUME Least(rd.left, n - inner) < 0 PROVE c \in cut
  <2>1. n < ChunkSize(c)
    BY <1>1, <1>2, <1>4, <1>5, <1>9 DEF Least
  <2> QED
    BY <1>3, <2>1
<1> QED
  BY <1>2, <1>6, <1>7, <1>8, <1>9 DEF c

-----------------------------------------------------------------------------
LEMMA InitIInv == Init => IInv
<1> SUFFICES ASSUME Init PROVE IInv
  OBVIOUS
<1>1. NoRun \in Run /\ 0 \in 0 .. MaxTime /\ 0 \in 0 .. Size
  BY ChunksAssumption, ModelFileAssumption DEF Run, NoRun
<1>2. Absent \in Entry /\ Absent.state = "absent"
  BY <1>1 DEF Absent, Entry
<1>3. Resting \in Reader /\ Resting.state = "idle"
  BY <1>1 DEF Resting, Reader
<1>4. TypeOK
  BY <1>1, <1>2, <1>3 DEF Init, TypeOK
<1>5. LoadingIsLoaded /\ ErrorIsGenuine /\ BytesAreOwn /\ ReadersWant
  BY <1>2, <1>3 DEF Init, LoadingIsLoaded, ErrorIsGenuine, BytesAreOwn, ReadersWant
<1> QED
  BY <1>4, <1>5 DEF IInv

(* The readers' own step: they ask for some bytes of the file. *)
LEMMA AskingIsReader ==
  ASSUME NEW p \in 0 .. Size, NEW n \in 1 .. Size
  PROVE  Asking(p, n) \in Reader /\ Asking(p, n).left > 0
<1>1. NoRun \in Run /\ n \in 0 .. Size
  BY ChunksAssumption DEF Run, NoRun
<1> QED
  BY <1>1 DEF Asking, Reader

(* A read that copies leaves the reader with the rest to ask for. *)
LEMMA AdvancedIsReader ==
  ASSUME NEW rd \in Reader, NEW run \in Run, rd.left > 0,
         run.length <= rd.left, rd.pos + run.length <= Size
  PROVE  /\ Advanced(rd, run) \in Reader
         /\ Advanced(rd, run).state = "reading" => Advanced(rd, run).left > 0
<1>1. rd.pos \in 0 .. Size /\ rd.left \in 0 .. Size /\ run.length \in Nat /\ Size \in Nat
  BY ChunksAssumption DEF Reader, Run
<1>2. rd.pos + run.length \in 0 .. Size /\ rd.left - run.length \in 0 .. Size
  BY <1>1
<1>3. /\ Advanced(rd, run).pos = rd.pos + run.length
      /\ Advanced(rd, run).left = rd.left - run.length
      /\ Advanced(rd, run).state = "reading" => run.length # rd.left
  BY DEF Advanced
<1>4. Advanced(rd, run).state \in {"idle", "reading", "eof", "failed"}
  BY DEF Advanced
<1>5. Advanced(rd, run) \in Reader
  BY <1>2, <1>4 DEF Advanced, Reader
<1> QED
  BY <1>1, <1>3, <1>5

(* So does one that is answered with an error. *)
LEMMA AnsweredIsReader ==
  ASSUME NEW rd \in Reader, NEW run, rd.left > 0,
         run = [from |-> rd.pos, length |-> run.length], run.length \in Int,
         run.length <= rd.left, rd.pos + run.length <= Size
  PROVE  /\ Answered(rd, run) \in Reader
         /\ Answered(rd, run).state = "reading" => Answered(rd, run).left > 0
<1>1. CASE run.length < 0
  BY <1>1 DEF Answered, Refused, Reader
<1>2. CASE ~(run.length < 0)
  <2>1. run.length \in Nat /\ rd.pos \in Nat
    BY <1>2, ChunksAssumption DEF Reader
  <2>2. run \in Run
    BY <2>1 DEF Run
  <2>3. Answered(rd, run) = Advanced(rd, run)
    BY <1>2 DEF Answered
  <2> QED
    BY <2>2, <2>3, AdvancedIsReader
<1> QED
  BY <1>1, <1>2

(* Eviction removes a loaded chunk, or nothing. *)
LEMMA EvictedOnlyDone ==
  ASSUME NEW t \in [ChunkIds -> Entry], NEW u \in Evicted(t)
  PROVE  /\ u \in [ChunkIds -> Entry]
         /\ \A c \in ChunkIds : u[c] = t[c] \/ (t[c].state = "done" /\ u[c] = Absent)
<1>1. Absent \in Entry
  BY ModelFileAssumption DEF Absent, Entry, Run, NoRun
<1>2. u = t \/ \E c \in Oldest(t) : u = [t EXCEPT ![c] = Absent]
  BY DEF Evicted
<1> QED
  BY <1>1, <1>2 DEF Oldest, Done

-----------------------------------------------------------------------------
(* One case per action. *)
LEMMA StepIInv == IInv /\ [Next]_vars => IInv'
<1> SUFFICES ASSUME IInv, [Next]_vars PROVE IInv'
  OBVIOUS
<1> USE DEF IInv
<1>0. ASSUME cut' = cut PROVE Storable' = Storable /\ \A c : Received(c)' = Received(c)
  BY <1>0 DEF Storable, Received
<1>1. ASSUME NEW r \in Readers, Request(r) PROVE IInv'
  <2>1. PICK p \in 0 .. Size, n \in 1 .. Size :
          reader' = [reader EXCEPT ![r] = Asking(p, n)]
    BY <1>1 DEF Request
  <2>2. UNCHANGED <<table, load, stored, remoteError, now, failed, cut>>
    BY <1>1 DEF Request
  <2>3. TypeOK' /\ ReadersWant'
    BY <1>0, <2>1, <2>2, AskingIsReader DEF TypeOK, ReadersWant
  <2> QED
    BY <1>0, <2>2, <2>3 DEF LoadingIsLoaded, ErrorIsGenuine, BytesAreOwn
<1>2. ASSUME NEW r \in Readers, ReadHit(r) PROVE IInv'
  <2> DEFINE rd == reader[r]
             c == ChunkOf(rd.pos)
             t == [table EXCEPT ![c].lastUsed = now]
             run == Copied(rd, table[c])
  <2>1. rd \in Reader /\ rd.left > 0 /\ c \in ChunkIds /\ rd.pos \in 0 .. Size
    BY <1>2, ChunkOfPosition DEF ReadHit, TypeOK, ReadersWant, Reader
  <2>2. table[c] \in Entry /\ table[c].state = "done" /\ table[c].bytes \in Received(c)
    BY <1>2, <2>1 DEF ReadHit, TypeOK, BytesAreOwn
  <2>3. /\ Answered(rd, run) \in Reader
        /\ Answered(rd, run).state = "reading" => Answered(rd, run).left > 0
    <3>1. /\ run = [from |-> rd.pos, length |-> run.length] /\ run.length \in Int
          /\ run.length <= rd.left /\ rd.pos + run.length <= Size
      BY <2>1, <2>2, CopyIsOwn
    <3> HIDE DEF run, rd
    <3> QED
      BY <3>1, <2>1, AnsweredIsReader
  <2>4. reader' = [reader EXCEPT ![r] = Answered(rd, run)]
    BY <1>2 DEF ReadHit
  <2>5. t \in [ChunkIds -> Entry]
        /\ \A d \in ChunkIds : t[d].state = table[d].state /\ t[d].bytes = table[d].bytes
    BY <2>1, <2>2 DEF TypeOK, Entry
  <2>6. table' \in Evicted(t) /\ UNCHANGED <<load, stored, remoteError, now, failed, cut>>
    BY <1>2 DEF ReadHit
  <2>7. table' \in [ChunkIds -> Entry]
        /\ \A d \in ChunkIds : \/ table'[d] = t[d]
                               \/ t[d].state = "done" /\ table'[d] = Absent
    BY <2>5, <2>6, EvictedOnlyDone
  <2>8. TypeOK'
    BY <1>0, <2>1, <2>3, <2>4, <2>6, <2>7 DEF TypeOK
  <2>9. ReadersWant'
    BY <2>1, <2>3, <2>4 DEF TypeOK, ReadersWant
  <2> HIDE DEF t
  <2>10. LoadingIsLoaded' /\ BytesAreOwn'
    BY <1>0, <2>5, <2>6, <2>7 DEF LoadingIsLoaded, BytesAreOwn, Absent
  <2> QED
    BY <2>6, <2>8, <2>9, <2>10 DEF ErrorIsGenuine
<1>3. ASSUME NEW r \in Readers, ReadMiss(r) PROVE IInv'
  <2> DEFINE c == ChunkOf(reader[r].pos)
             e == [state |-> "loading", bytes |-> NoRun, lastUsed |-> now]
  <2>1. c \in ChunkIds
    BY ChunkOfPosition DEF TypeOK, Reader
  <2>2. e \in Entry
    BY DEF TypeOK, Entry, Run, NoRun
  <2>3. /\ table' = [table EXCEPT ![c] = e]
        /\ load' = [load EXCEPT ![c] = "lookup"]
        /\ UNCHANGED <<stored, remoteError, now, reader, failed, cut>>
    BY <1>3 DEF ReadMiss
  <2>4. e.state = "loading"
    OBVIOUS
  <2> HIDE DEF e, c
  <2>5. TypeOK'
    BY <1>0, <2>1, <2>2, <2>3 DEF TypeOK
  <2>6. LoadingIsLoaded' /\ BytesAreOwn'
    BY <1>0, <2>1, <2>3, <2>4 DEF TypeOK, LoadingIsLoaded, BytesAreOwn
  <2> QED
    BY <2>3, <2>5, <2>6 DEF ErrorIsGenuine, ReadersWant
<1>4. ASSUME NEW r \in Readers, ReadRefused(r) PROVE IInv'
  <2>1. /\ reader' = [reader EXCEPT ![r] = Refused(reader[r])]
        /\ UNCHANGED <<table, load, stored, remoteError, now, failed, cut>>
    BY <1>4 DEF ReadRefused
  <2>2. reader[r] \in Reader
    BY DEF TypeOK
  <2>3. Refused(reader[r]) \in Reader /\ Refused(reader[r]).state = "failed"
    BY <2>2 DEF Refused, Reader
  <2> QED
    BY <1>0, <2>1, <2>3 DEF TypeOK, ReadersWant, LoadingIsLoaded, ErrorIsGenuine, BytesAreOwn
<1>5. ASSUME NEW c \in ChunkIds, NEW bytes, bytes \in Bodies(c), load[c] # "none",
             bytes.length < ChunkSize(c) => c \in cut',
             cut' \in SUBSET ChunkIds, cut \subseteq cut',
             Complete(c, bytes), stored' \in SUBSET (Storable'),
             UNCHANGED <<now, reader, failed>>
      PROVE  IInv'
  <2>0. c \in Nat /\ bytes \in Received(c)'
    BY <1>5, ChunksAssumption DEF Received, ChunkIds
  <2>1. bytes \in Run
    BY <1>5, <2>0, BodyIsRun
  <2>2. table[c].state = "loading"
    BY <1>5 DEF LoadingIsLoaded
  <2>3. /\ load' = [load EXCEPT ![c] = "none"]
        /\ table' = [table EXCEPT ![c].state = "done", ![c].bytes = bytes]
        /\ UNCHANGED remoteError
    BY <1>5, <2>2 DEF Complete
  <2>4. TypeOK'
    <3>1. [table[c] EXCEPT !.state = "done", !.bytes = bytes] \in Entry
      BY <2>1 DEF TypeOK, Entry
    <3>3. table' = [table EXCEPT ![c] = [@ EXCEPT !.state = "done", !.bytes = bytes]]
      BY <2>3 DEF TypeOK
    <3>4. table' \in [ChunkIds -> Entry]
      BY <3>1, <3>3 DEF TypeOK
    <3>2. load' \in [ChunkIds -> {"none", "lookup", "fetch"}]
      BY <2>3 DEF TypeOK
    <3> QED
      BY <1>5, <2>3, <3>4, <3>2 DEF TypeOK
  <2>5. /\ table'[c].state = "done" /\ table'[c].bytes = bytes
        /\ \A d \in ChunkIds \ {c} : table'[d] = table[d] /\ load'[d] = load[d]
        /\ load'[c] = "none"
    BY <2>3 DEF TypeOK, Entry
  <2>7. \A d : Received(d) \subseteq Received(d)'
    BY <1>5, ReceivedGrows
  <2>6. LoadingIsLoaded' /\ BytesAreOwn'
    BY <1>5, <2>0, <2>3, <2>5, <2>7 DEF LoadingIsLoaded, BytesAreOwn
  <2> QED
    BY <1>5, <2>3, <2>4, <2>6 DEF ErrorIsGenuine, ReadersWant
<1>6. ASSUME NEW c \in ChunkIds, LookupHits(c) PROVE IInv'
  <2>1. PICK entry \in stored : entry[1] = Key(c) /\ Complete(c, entry[2])
    BY <1>6 DEF LookupHits
  <2>2. PICK d \in ChunkIds : entry \in {Key(d)} \X Received(d)
    BY <2>1 DEF TypeOK, Storable
  <2>3. entry[1] = Key(d) /\ entry[2] \in Received(d)
    BY <2>2
  <2>4. c = d
    <3>1. Begin(c) = Begin(d)
      BY <2>1, <2>3 DEF Key
    <3>2. c \in Nat /\ d \in Nat /\ c * ChunkMax = d * ChunkMax
      BY <3>1, ChunksAssumption DEF ChunkIds, Begin
    <3> QED
      BY <3>2, ChunksAssumption, SameProduct
  <2>5. /\ entry[2] \in Bodies(c) /\ (entry[2].length < ChunkSize(c) => c \in cut)
    BY <2>3, <2>4 DEF Received
  <2>6. /\ load[c] # "none" /\ stored' \in SUBSET (Storable')
        /\ UNCHANGED <<now, reader, failed, cut>>
    BY <1>0, <1>6 DEF LookupHits, TypeOK
  <2>7. cut' \in SUBSET ChunkIds
    BY <2>6 DEF TypeOK
  <2> QED
    BY <1>5, <2>1, <2>5, <2>6, <2>7
<1>7. ASSUME NEW c \in ChunkIds, LookupMisses(c) PROVE IInv'
  BY <1>0, <1>7 DEF LookupMisses, TypeOK, LoadingIsLoaded, ErrorIsGenuine, BytesAreOwn, ReadersWant
<1>8. ASSUME NEW c \in ChunkIds, Fetched(c) PROVE IInv'
  <2>1. PICK body \in Bodies(c) :
          /\ stored' \in {stored, Put(Key(c), body)}
          /\ cut' = IF body.length < ChunkSize(c) THEN cut \cup {c} ELSE cut
          /\ Complete(c, body)
    BY <1>8 DEF Fetched
  <2>2. /\ cut' \in SUBSET ChunkIds /\ cut \subseteq cut'
        /\ body.length < ChunkSize(c) => c \in cut'
    BY <2>1 DEF TypeOK
  <2>3. body \in Received(c)'
    BY <2>1, <2>2 DEF Received
  <2>4. Storable \subseteq Storable'
    BY <2>2, ReceivedGrows DEF Storable
  <2>5. <<Key(c), body>> \in Storable'
    BY <2>3 DEF Storable
  <2>6. stored' \in SUBSET (Storable')
    BY <2>1, <2>4, <2>5 DEF Put, TypeOK
  <2>7. load[c] # "none" /\ UNCHANGED <<now, reader, failed>>
    BY <1>8 DEF Fetched
  <2> QED
    BY <1>5, <2>1, <2>2, <2>6, <2>7
<1>9. ASSUME NEW c \in ChunkIds, FetchFails(c) PROVE IInv'
  BY <1>0, <1>9 DEF FetchFails, TypeOK, LoadingIsLoaded, ErrorIsGenuine, BytesAreOwn, ReadersWant
<1>10. CASE Tick
  BY <1>0, <1>10, ModelFileAssumption
     DEF Tick, TypeOK, LoadingIsLoaded, ErrorIsGenuine, BytesAreOwn, ReadersWant
<1>11. CASE UNCHANGED vars
  BY <1>0, <1>11 DEF vars, TypeOK, LoadingIsLoaded, ErrorIsGenuine, BytesAreOwn, ReadersWant
<1> QED
  BY <1>1, <1>2, <1>3, <1>4, <1>6, <1>7, <1>8, <1>9, <1>10, <1>11
     DEF Next, Reading, Loading

-----------------------------------------------------------------------------
(* The inductive invariant holds in every reachable state. *)
THEOREM Invariance == Spec => []IInv
<1> QED
  BY InitIInv, StepIInv, PTL DEF Spec

(* Every variable keeps to its type. *)
THEOREM TypeCorrect == Spec => []TypeOK
<1>1. IInv => TypeOK
  BY DEF IInv
<1> QED
  BY <1>1, Invariance, PTL

(* A chunk that is loading is never evicted: its load finds its entry, and  *)
(* a reader that repeats its read waits for a load that is under way.       *)
THEOREM LoadingNeverEvicted == Spec => []LoadingIsLoaded
<1>1. IInv => LoadingIsLoaded
  BY DEF IInv
<1> QED
  BY <1>1, Invariance, PTL

(* The file never fails of its own making. *)
THEOREM ErrorsAreGenuine == Spec => []ErrorIsGenuine
<1>1. IInv => ErrorIsGenuine
  BY DEF IInv
<1> QED
  BY <1>1, Invariance, PTL

-----------------------------------------------------------------------------
(* A read of a loaded chunk gives the next bytes of the file, or none at    *)
(* its end or in a chunk that was cut short, where it may be refused.       *)
LEMMA HitGives ==
  ASSUME IInv, NEW r \in Readers, ReadHit(r)
  PROVE  AsFile!Give(r) \/ AsFile!AtEnd(r) \/ AsFile!Refuse(r)
<1> DEFINE rd == reader[r]
           run == Copied(rd, table[ChunkOf(rd.pos)])
<1>1. rd \in Reader /\ rd.left > 0 /\ ChunkOf(rd.pos) \in ChunkIds
  BY ChunkOfPosition DEF IInv, ReadHit, TypeOK, ReadersWant, Reader
<1>2. table[ChunkOf(rd.pos)].bytes \in Received(ChunkOf(rd.pos))
  BY <1>1 DEF IInv, ReadHit, BytesAreOwn
<1>3. /\ run = [from |-> rd.pos, length |-> run.length]
      /\ run.length \in Int
      /\ run.length <= rd.left
      /\ rd.pos + run.length <= Size
      /\ run.length = 0 => rd.pos = Size \/ ChunkOf(rd.pos) \in cut
      /\ run.length < 0 => ChunkOf(rd.pos) \in cut
  BY <1>1, <1>2, CopyIsOwn
<1>4. /\ rd.state = "reading"
      /\ reader' = [reader EXCEPT ![r] = Answered(rd, run)]
      /\ UNCHANGED <<failed, cut>>
  BY DEF ReadHit
<1>5. AsFile!ChunkOf(rd.pos) = ChunkOf(rd.pos)
  BY DEF AsFile!ChunkOf, ChunkOf
<1>6. rd.pos \in Int /\ Size \in Int /\ rd.left \in Int /\ rd.pos <= Size
  BY <1>1, ChunksAssumption DEF Reader
<1> HIDE DEF run
<1>7. CASE run.length < 0
  <2>2. ChunkOf(rd.pos) \in cut
    BY <1>3, <1>7
  <2>3. Answered(rd, run) = Refused(rd)
    BY <1>7 DEF Answered
  <2> QED
    BY <1>4, <1>5, <2>2, <2>3 DEF AsFile!Refuse, AsFile!Refused, Refused
<1>8. CASE run.length = 0
  <2>1. run = [from |-> rd.pos, length |-> 0] /\ (rd.pos = Size \/ ChunkOf(rd.pos) \in cut)
    BY <1>3, <1>8
  <2>2. Answered(rd, run) = Advanced(rd, run)
    BY <1>8 DEF Answered
  <2> QED
    BY <1>4, <1>5, <2>1, <2>2 DEF AsFile!AtEnd, AsFile!Advanced, Advanced
<1>9. CASE run.length > 0
  <2>1. run.length \in 1 .. rd.left
    BY <1>3, <1>6, <1>9
  <2>2. Answered(rd, run) = Advanced(rd, run)
    BY <1>3, <1>9 DEF Answered
  <2> QED
    BY <1>3, <1>4, <2>1, <2>2 DEF AsFile!Give, AsFile!Advanced, Advanced
<1> QED
  BY <1>3, <1>7, <1>8, <1>9

(* Loads, evictions and the clock are invisible, but for a failing source. *)
LEMMA StepRefines == IInv /\ [Next]_vars => [AsFile!Next]_(AsFile!vars)
<1> SUFFICES ASSUME IInv, [Next]_vars PROVE [AsFile!Next]_(AsFile!vars)
  OBVIOUS
<1> USE DEF AsFile!Next, AsFile!vars
<1>1. ASSUME NEW r \in Readers, Request(r) PROVE AsFile!Request(r)
  BY <1>1 DEF Request, AsFile!Request, AsFile!Asking, Asking, AsFile!NoRun, NoRun
<1>2. ASSUME NEW r \in Readers, ReadRefused(r) PROVE AsFile!Refuse(r)
  BY <1>2 DEF ReadRefused, AsFile!Refuse, AsFile!Refused, Refused, IInv, ErrorIsGenuine
<1>3. ASSUME NEW c \in ChunkIds, FetchFails(c) PROVE AsFile!SourceFails
  BY <1>3 DEF FetchFails, AsFile!SourceFails
<1>4. ASSUME NEW r \in Readers, ReadMiss(r) PROVE UNCHANGED <<reader, failed, cut>>
  BY <1>4 DEF ReadMiss
<1>5. ASSUME NEW c \in ChunkIds, LookupHits(c) \/ LookupMisses(c)
      PROVE  UNCHANGED <<reader, failed, cut>>
  BY <1>5 DEF LookupHits, LookupMisses
<1>8. ASSUME NEW c \in ChunkIds, Fetched(c)
      PROVE  AsFile!SourceCuts(c) \/ UNCHANGED <<reader, failed, cut>>
  BY <1>8 DEF Fetched, AsFile!SourceCuts
<1>9. AsFile!ChunkIds = ChunkIds
  BY DEF AsFile!ChunkIds, ChunkIds
<1>6. CASE Tick
  BY <1>6 DEF Tick
<1>7. CASE UNCHANGED vars
  BY <1>7 DEF vars
<1> QED
  BY <1>1, <1>2, <1>3, <1>4, <1>5, <1>6, <1>7, <1>8, <1>9, HitGives DEF Next, Reading, Loading

(* Whatever is loaded, evicted, looked up in vain or fetched again, and     *)
(* however many bytes a range is answered with: readers see the bytes of    *)
(* the model in order, errors only once its source has failed, and an end   *)
(* of the file that is not one only in a chunk the source has cut short.    *)
THEOREM ModelFileImplementsByteFile == Spec => ImplementsByteFile
<1>1. Init => AsFile!Init
  BY DEF Init, AsFile!Init, AsFile!ChunkIds, ChunkIds, AsFile!Resting, Resting, AsFile!NoRun, NoRun
<1> QED
  BY <1>1, StepRefines, Invariance, PTL DEF Spec, ImplementsByteFile, AsFile!Spec

-----------------------------------------------------------------------------
(* The table and its limit, with a single reader.                          *)

(* While the reader does not have its chunk, and no source has failed, the  *)
(* table is within its limit: a read that hit has just cut it down.         *)
Room ==
  \/ Cardinality(Present(table)) <= MaxEntries
  \/ remoteError
  \/ \E r \in Readers : reader[r].state = "reading" /\ ChunkOf(reader[r].pos) \in Present(table)

LEMMA PresentFinite == ASSUME NEW t PROVE IsFiniteSet(Present(t)) /\ Cardinality(Present(t)) \in Nat
<1>1. IsFiniteSet(ChunkIds)
  <2>1. Size \div ChunkMax \in Int
    BY ChunksAssumption
  <2> QED
    BY <2>1, FS_Interval DEF ChunkIds
<1>2. Present(t) \subseteq ChunkIds
  BY DEF Present
<1> QED
  BY <1>1, <1>2, FS_Subset, FS_CardinalityType

LEMMA RoomStep ==
  ASSUME NEW single, Readers = {single},
         IInv, TableIsBounded, Room, [Next]_vars
  PROVE  TableIsBounded' /\ Room'
<1> DEFINE n == Cardinality(Present(table))
<1>0. n \in Nat /\ MaxEntries \in Nat
  BY PresentFinite, ModelFileAssumption
<1> USE DEF TableIsBounded, Room
<1>1. ASSUME Present(table') = Present(table), UNCHANGED reader, remoteError => remoteError'
      PROVE  TableIsBounded' /\ Room'
  <2>1. Present(table)' = Present(table)
    BY <1>1 DEF Present
  <2> QED
    BY <1>1, <2>1
<1>2. ASSUME NEW r \in Readers, Request(r) PROVE TableIsBounded' /\ Room'
  <2>1. reader[single].state # "reading" /\ UNCHANGED <<table, remoteError>>
    BY <1>2 DEF Request
  <2>2. Present(table)' = Present(table)
    BY <2>1 DEF Present
  <2> QED
    BY <2>1, <2>2
<1>3. ASSUME NEW r \in Readers, ReadHit(r) PROVE TableIsBounded' /\ Room'
  <2> DEFINE t == [table EXCEPT ![ChunkOf(reader[r].pos)].lastUsed = now]
  <2>1. Present(t) = Present(table)
    BY DEF Present, IInv, TypeOK, Entry
  <2>2. table' \in Evicted(t)
    BY <1>3 DEF ReadHit
  <2>3. t \in [ChunkIds -> [state : {"absent", "loading", "done"}, bytes : Run, lastUsed : 0 .. MaxTime]]
    BY DEF IInv, TypeOK, Entry
  <2> HIDE DEF t
  <2>4. CASE n > MaxEntries
    <3>1. PICK c \in Oldest(t) : table' = [t EXCEPT ![c] = Absent]
      BY <2>1, <2>2, <2>4 DEF Evicted
    <3>2. c \in ChunkIds /\ c \in Present(t)
      BY <3>1 DEF Oldest, Done, Present
    <3>3. Present(table') = Present(table) \ {c}
      BY <2>1, <2>3, <3>1, <3>2 DEF Present, Absent
    <3>4. Cardinality(Present(table')) = n - 1
      BY <2>1, <3>2, <3>3, PresentFinite, FS_RemoveElement
    <3>5. Present(table)' = Present(table')
      BY DEF Present
    <3> QED
      BY <1>0, <3>4, <3>5
  <2>5. CASE ~(n > MaxEntries)
    <3>1. table' = t
      BY <2>1, <2>2, <2>5 DEF Evicted
    <3>2. Present(table)' = Present(table)
      BY <2>1, <3>1 DEF Present
    <3> QED
      BY <1>0, <2>5, <3>2
  <2> QED
    BY <2>4, <2>5
<1>4. ASSUME NEW r \in Readers, ReadMiss(r) PROVE TableIsBounded' /\ Room'
  <2> DEFINE c == ChunkOf(reader[r].pos)
  <2>1. /\ reader[r].state = "reading" /\ ~remoteError /\ table[c].state = "absent"
        /\ table' = [table EXCEPT ![c] = [state |-> "loading", bytes |-> NoRun, lastUsed |-> now]]
        /\ UNCHANGED reader
    BY <1>4 DEF ReadMiss
  <2>2. c \in ChunkIds
    BY ChunkOfPosition DEF IInv, TypeOK, Reader
  <2>3. n <= MaxEntries
    BY <2>1 DEF Present
  <2>4. Present(table)' = Present(table) \cup {c}
    BY <2>1, <2>2 DEF Present, IInv, TypeOK
  <2>5. c \notin Present(table)
    BY <2>1 DEF Present
  <2>6. Cardinality(Present(table))' = n + 1
    BY <2>4, <2>5, PresentFinite, FS_AddElement
  <2>7. ChunkOf(reader'[r].pos) \in Present(table)' /\ reader'[r].state = "reading"
    BY <2>1, <2>4
  <2>8. TableIsBounded'
    BY <1>0, <2>3, <2>6
  <2>9. Room'
    BY <2>7
  <2> QED
    BY <2>8, <2>9
<1>5. ASSUME NEW r \in Readers, ReadRefused(r) PROVE TableIsBounded' /\ Room'
  <2>1. Present(table)' = Present(table) /\ remoteError'
    BY <1>5 DEF ReadRefused, Present
  <2> QED
    BY <2>1
<1>6. ASSUME NEW c \in ChunkIds, Loading(c) PROVE TableIsBounded' /\ Room'
  <2>1. UNCHANGED reader /\ (remoteError => remoteError')
    BY <1>6 DEF Loading, LookupHits, LookupMisses, Fetched, FetchFails, Complete
  <2>2. CASE UNCHANGED table
    BY <1>1, <2>1, <2>2
  <2>3. ASSUME NEW bytes, table' = [table EXCEPT ![c].state = "done", ![c].bytes = bytes],
               table[c].state # "absent"
        PROVE  TableIsBounded' /\ Room'
    <3>1. \A d \in ChunkIds : table'[d].state = "absent" <=> table[d].state = "absent"
      BY <2>3 DEF IInv, TypeOK, Entry
    <3>2. Present(table') = Present(table)
      BY <3>1 DEF Present
    <3> QED
      BY <1>1, <2>1, <3>2
  <2> QED
    BY <1>6, <2>2, <2>3 DEF Loading, LookupHits, LookupMisses, Fetched, FetchFails, Complete
<1>7. CASE Tick \/ UNCHANGED vars
  BY <1>1, <1>7 DEF Tick, vars
<1> QED
  BY <1>2, <1>3, <1>4, <1>5, <1>6, <1>7 DEF Next, Reading

(* A single reader never has more than one chunk too many kept for it,      *)
(* whatever is loading or has failed.                                       *)
THEOREM TableAlwaysBounded ==
  ASSUME NEW single, Readers = {single}
  PROVE  Spec => []TableIsBounded
<1>1. Init => TableIsBounded /\ Room
  <2> SUFFICES ASSUME Init PROVE TableIsBounded /\ Room
    OBVIOUS
  <2>1. Present(table) = {}
    BY DEF Init, Present, Absent
  <2> QED
    BY <2>1, FS_EmptySet, ModelFileAssumption DEF TableIsBounded, Room
<1>2. IInv /\ TableIsBounded /\ Room /\ [Next]_vars => TableIsBounded' /\ Room'
  BY RoomStep
<1> QED
  BY <1>1, <1>2, Invariance, PTL DEF Spec

=============================================================================
