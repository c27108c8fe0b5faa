----------------------------- MODULE GgufProbe -----------------------------
(***************************************************************************)
(* src/scripts/lib/gguf-header.mjs, and the byte sources it reads from in  *)
(* src/scripts/probe-gguf-header.mjs: the header of a GGUF file is parsed  *)
(* while its bytes are still being fetched.                                *)
(*                                                                         *)
(* The bytes fetched are a prefix of the file, known by its length.        *)
(* Servers are external.                                                   *)
(***************************************************************************)
EXTENDS GgufLayout

CONSTANTS
  FirstRead, MaxRead,   \* FIRST_READ and MAX_READ
  MaxChunk              \* bound: the most one read of a stream gives

ASSUME LimitsAssumption ==
  /\ {FirstRead, MaxRead, MaxSafe, MaxChunk} \subseteq Nat \ {0}
  /\ FirstRead + MaxChunk <= MaxSafe /\ 2 * MaxRead + MaxChunk <= MaxSafe

ArraySample == 4

VARIABLES
  file, http,           \* what is probed, by an HttpSource or a FileSource
  have, size,           \* bytes.length and size, once it is known
  stream,               \* mode, and the reader of a streaming GET
  target,               \* what a pending fetch is to reach, or 0
  offset, next,         \* the cursor, and the read it is at
  todo,                 \* what is left of the loops around that read
  outcome               \* of readGgufHeader()

source == <<have, size, stream, target>>
cursor == <<offset, next, todo>>
vars == <<file, http, have, size, stream, target, offset, next, todo, outcome>>

fields == file.fields
fileSize == file.size

Unknown == -1
NoRow == -1
Refusals == {"not GGUF", "version", "implausible", "not scalar", "nested", "item type",
             "dimensions", "tensor type", "row"}
Outcomes == {"reading", "parsed", "past MAX_READ", "ends", "short", "no resume", "rejected"}
            \cup Refusals

TypeOK ==
  /\ file \in Files /\ http \in BOOLEAN
  /\ have \in 0 .. fileSize
  /\ size \in {Unknown, 0, fileSize}
  /\ stream \in {"none", "open", "cancelled"}
  /\ target \in Nat /\ (target = 0 \/ target > have)
  /\ offset \in 0 .. have
  /\ next \in [is : Kinds \cup {"rest"}, width : Nat]
  /\ todo \in [kvs : Nat, tensors : Nat, items : Nat, sampled : 0 .. ArraySample,
               dims : 0 .. 4, itemType : Nat, row : Nat \cup {NoRow}, type : Nat]
  /\ outcome \in Outcomes

Init ==
  /\ file \in Files /\ http \in BOOLEAN
  /\ have = 0 /\ size = (IF http THEN Unknown ELSE fileSize)
  /\ stream = "none" /\ target = 0
  /\ offset = 0 /\ next = [is |-> "magic", width |-> 4]
  /\ todo = [kvs |-> 0, tensors |-> 0, items |-> 0, sampled |-> 0,
             dims |-> 0, itemType |-> 0, row |-> NoRow, type |-> 0]
  /\ outcome = "reading"

Fail(why) == outcome' = why /\ UNCHANGED cursor

-----------------------------------------------------------------------------
(* ensure(): the bytes up to the end of the next read are asked for.       *)

End == offset + next.width

(* Mutant: what is known of the file is fetched at once. *)
TargetWhole ==
  IF size = Unknown THEN Max({End, FirstRead, 2 * have}) ELSE size

Target ==
  LET wanted == Max({End, FirstRead, 2 * have})
  IN  IF size = Unknown THEN wanted ELSE Min({wanted, size})

Waiting == outcome = "reading" /\ target # 0

Ensure ==
  /\ outcome = "reading" /\ target = 0 /\ End > have
  /\ \/ /\ End <= MaxRead /\ Target >= End
        /\ target' = Target
        /\ UNCHANGED <<outcome, cursor>>
     \/ /\ End > MaxRead
        /\ Fail("past MAX_READ") /\ UNCHANGED target
     \/ /\ End <= MaxRead /\ Target < End
        /\ Fail("ends") /\ UNCHANGED target
  /\ UNCHANGED <<file, http, have, size, stream>>

(* The fetch is over with h bytes in all: ensure() returns them, or throws. *)
Got(h) ==
  /\ have' = h /\ target' = 0
  /\ outcome' = IF h < End THEN "short" ELSE outcome
  /\ UNCHANGED cursor

(* Mutant: the last byte of the range counts as the size of the file. *)
PartialAsTotal ==
  /\ Waiting /\ http /\ stream = "none"
  /\ \E h \in have .. Min({target, fileSize}) :
       /\ size' \in {size, h - 1}
       /\ Got(h)
  /\ UNCHANGED <<file, http, stream>>

(* 206: the range, or less of it, down to nothing, and the total length of  *)
(* the file or "*".                                                         *)
Partial ==
  /\ Waiting /\ http /\ stream = "none"
  /\ \E h \in have .. Min({target, fileSize}) :
       /\ size' \in {size, fileSize}
       /\ Got(h)
  /\ UNCHANGED <<file, http, stream>>

(* 200: the body from its start.  A response without a Content-Length sets  *)
(* size to Number(null), which is 0.                                        *)
Full ==
  /\ Waiting /\ http /\ stream = "none"
  /\ size' \in {0, fileSize}
  /\ \/ have = 0 /\ stream' = "open" /\ UNCHANGED <<outcome, cursor>>
     \/ have # 0 /\ Fail("no resume") /\ UNCHANGED stream
  /\ UNCHANGED <<file, http, have, target>>

(* pump(): one read of the stream, *)
Chunk ==
  /\ Waiting /\ stream = "open"
  /\ \E n \in 1 .. Min({MaxChunk, fileSize - have}) :
       \/ have + n >= target /\ Got(have + n)
       \/ have + n < target /\ have' = have + n /\ UNCHANGED <<target, outcome, cursor>>
  /\ UNCHANGED <<file, http, size, stream>>

(* Mutant: the end of the stream does not end the loop. *)
StreamReadsOn ==
  /\ Waiting /\ stream = "open" /\ have = fileSize
  /\ UNCHANGED vars

(* or its end. *)
StreamEnds ==
  /\ Waiting /\ stream = "open" /\ have = fileSize
  /\ Got(have)
  /\ UNCHANGED <<file, http, size, stream>>

(* Another status, or a fetch or a read of the stream or of the file that   *)
(* fails.                                                                   *)
Rejected ==
  /\ Waiting
  /\ Fail("rejected")
  /\ UNCHANGED <<file, http, source>>

(* A FileSource. *)
FileRead ==
  /\ Waiting /\ ~http
  /\ Got(target)
  /\ UNCHANGED <<file, http, size, stream>>

(* close(), when readGgufHeader() has returned or thrown. *)
Close ==
  /\ outcome # "reading" /\ stream = "open"
  /\ stream' = "cancelled"
  /\ UNCHANGED <<file, http, have, size, target, cursor, outcome>>

Sourcing == Ensure \/ Partial \/ Full \/ Chunk \/ StreamEnds \/ FileRead

-----------------------------------------------------------------------------
(* readGgufHeader(): the next read, of bytes that are there.               *)

IsNext(i) ==
  fields[i].is = next.is /\ fields[i].width = next.width /\ fields[i].at = offset

(* What it gives.  Where no such field begins it would be any number. *)
Value == LET here == {i \in DOMAIN fields : IsNext(i)}
         IN  IF here = {} THEN 0 ELSE fields[CHOOSE i \in here : TRUE].n

(* Mutant: the read does not wait for its bytes. *)
ReadAhead(is) ==
  /\ outcome = "reading" /\ target = 0 /\ next.is = is
  /\ UNCHANGED <<file, http, source>>

Read(is) ==
  /\ outcome = "reading" /\ target = 0 /\ next.is = is /\ End <= have
  /\ UNCHANGED <<file, http, source>>

Go(is, width) ==
  /\ offset' = End /\ next' = [is |-> is, width |-> width]
  /\ UNCHANGED outcome

(* The next metadata entry, or the next tensor, or the header is over. *)
NextEntry(t) ==
  /\ todo' = t
  /\ \/ t.kvs > 0 /\ Go("keyLength", 8)
     \/ t.kvs = 0 /\ t.tensors > 0 /\ Go("nameLength", 8)
     \/ /\ t.kvs = 0 /\ t.tensors = 0
        /\ offset' = End /\ outcome' = "parsed" /\ UNCHANGED next

Preamble ==
  \/ /\ Read("magic")
     /\ \/ Value = Magic /\ Go("version", 4) /\ UNCHANGED todo
        \/ Value # Magic /\ Fail("not GGUF")
  \/ /\ Read("version")
     /\ \/ Value \in {2, 3} /\ Go("tensorCount", 8) /\ UNCHANGED todo
        \/ Value \notin {2, 3} /\ Fail("version")
  \/ /\ Read("tensorCount")
     /\ todo' = [todo EXCEPT !.tensors = Value] /\ Go("kvCount", 8)
  \/ /\ Read("kvCount")
     /\ \/ /\ todo.tensors <= MaxSafe /\ Value <= MaxSafe
           /\ NextEntry([todo EXCEPT !.kvs = Value])
        \/ /\ todo.tensors > MaxSafe \/ Value > MaxSafe
           /\ Fail("implausible")

(* The length of a string, and then its bytes. *)
Text(length, bytes) ==
  /\ Read(length)
  /\ \/ Value <= MaxSafe /\ Go(bytes, Value) /\ UNCHANGED todo
     \/ Value > MaxSafe /\ Fail("implausible")

ValueIsRead == NextEntry([todo EXCEPT !.kvs = @ - 1])

Metadata ==
  \/ Text("keyLength", "key")
  \/ Read("key") /\ Go("type", 4) /\ UNCHANGED todo
  \/ /\ Read("type")
     /\ \/ Value = String /\ Go("stringLength", 8) /\ UNCHANGED todo
        \/ Value = Array /\ Go("itemType", 4) /\ UNCHANGED todo
        \/ Value \in DOMAIN ScalarWidth /\ Go("scalar", ScalarWidth[Value]) /\ UNCHANGED todo
        \/ Value \notin DOMAIN ScalarWidth \cup {String, Array} /\ Fail("not scalar")
  \/ Text("stringLength", "string")
  \/ (Read("string") \/ Read("scalar")) /\ ValueIsRead

(* Items: the first few are kept, the others are skipped. *)
NextText(t) ==
  \/ t.items > 0 /\ todo' = t /\ Go("itemLength", 8)
  \/ t.items = 0 /\ NextEntry([t EXCEPT !.kvs = @ - 1])

(* Mutant: the whole array is skipped after its sample. *)
NextScalarSkipsAll(t) ==
  LET width == ScalarWidth[t.itemType]
  IN  /\ todo' = t
      /\ \/ t.items > 0 /\ t.sampled < ArraySample /\ Go("item", width)
         \/ /\ t.items = 0 \/ t.sampled = ArraySample
            /\ Go("rest", (t.items + t.sampled) * width)

NextScalar(t) ==
  LET width == ScalarWidth[t.itemType]
  IN  /\ todo' = t
      /\ \/ t.items > 0 /\ t.sampled < ArraySample /\ Go("item", width)
         \/ (t.items = 0 \/ t.sampled = ArraySample) /\ Go("rest", t.items * width)

OneItemLess == [todo EXCEPT !.items = @ - 1, !.sampled = Min({@ + 1, ArraySample})]

(* Mutant: an array of arrays is read like an array of numbers. *)
ItemsBeginNested(t) ==
  \/ t.itemType = String /\ NextText(t)
  \/ t.itemType = Array /\ NextScalar([t EXCEPT !.itemType = 4])
  \/ t.itemType \in DOMAIN ScalarWidth /\ NextScalar(t)
  \/ t.itemType \notin DOMAIN ScalarWidth \cup {String, Array} /\ Fail("item type")

ItemsBegin(t) ==
  \/ t.itemType = String /\ NextText(t)
  \/ t.itemType = Array /\ Fail("nested")
  \/ t.itemType \in DOMAIN ScalarWidth /\ NextScalar(t)
  \/ t.itemType \notin DOMAIN ScalarWidth \cup {String, Array} /\ Fail("item type")

Items ==
  \/ Read("itemType") /\ todo' = [todo EXCEPT !.itemType = Value] /\ Go("length", 8)
  \/ /\ Read("length")
     /\ \/ Value <= MaxSafe /\ ItemsBegin([todo EXCEPT !.items = Value, !.sampled = 0])
        \/ Value > MaxSafe /\ Fail("implausible")
  \* The length of a string that is only skipped is not checked.
  \/ todo.sampled < ArraySample /\ Text("itemLength", "text")
  \/ /\ Read("itemLength") /\ todo.sampled = ArraySample
     /\ Go("text", Value) /\ UNCHANGED todo
  \/ Read("text") /\ NextText(OneItemLess)
  \/ Read("item") /\ NextScalar(OneItemLess)
  \/ Read("rest") /\ ValueIsRead

NextDim(t) ==
  /\ todo' = t
  /\ \/ t.dims > 0 /\ Go("dim", 8)
     \/ t.dims = 0 /\ Go("tensorType", 4)

(* tensorBytes(): a row is a whole number of blocks. *)
Sized ==
  LET row == IF todo.row = NoRow THEN 1 ELSE todo.row
  IN  \/ todo.type \notin DOMAIN BlockSize /\ Fail("tensor type")
      \/ /\ todo.type \in DOMAIN BlockSize
         /\ \/ row % BlockSize[todo.type] # 0 /\ Fail("row")
            \/ row % BlockSize[todo.type] = 0 /\ NextEntry([todo EXCEPT !.tensors = @ - 1])

Tensors ==
  \/ Text("nameLength", "name")
  \/ Read("name") /\ Go("nDims", 4) /\ UNCHANGED todo
  \/ /\ Read("nDims")
     /\ \/ Value <= 4 /\ NextDim([todo EXCEPT !.dims = Value, !.row = NoRow])
        \/ Value > 4 /\ Fail("dimensions")
  \/ Read("dim") /\ NextDim([todo EXCEPT !.dims = @ - 1, !.row = IF @ = NoRow THEN Value ELSE @])
  \/ Read("tensorType") /\ todo' = [todo EXCEPT !.type = Value] /\ Go("tensorOffset", 8)
  \/ Read("tensorOffset") /\ Sized

Parsing == Preamble \/ Metadata \/ Items \/ Tensors

-----------------------------------------------------------------------------
Next == Sourcing \/ Rejected \/ Parsing \/ Close

(* A fetch, and a read of a stream or of the file, settles. *)
Spec == Init /\ [][Next]_vars
FairSpec == Spec /\ WF_vars(Sourcing \/ Parsing)

-----------------------------------------------------------------------------
(* Properties.                                                             *)

SoundFiles == {f \in Files : TakenTo(f.fields, Len(f.fields))}
Sound == file \in SoundFiles

HeaderEnd == EndOf(fields, Len(fields))

(* The cursor never slips: at every read of a sound file, the field that    *)
(* begins at the offset is the one the reader takes it for, and what it     *)
(* skips ends where another field begins.                                   *)
NeverSlips ==
  outcome = "reading" =>
    \/ next.is = "rest" /\ (End = HeaderEnd \/ \E i \in DOMAIN fields : fields[i].at = End)
    \/ next.is # "rest" /\ \E i \in DOMAIN fields : IsNext(i)
    \/ ~Sound

(* A header is reported only if it was read to its end, its bytes were all  *)
(* there, and nothing in it is refused: never for a truncated file.         *)
ParsedIsWhole ==
  outcome = "parsed" =>
    Sound /\ offset = HeaderEnd /\ offset <= have /\ have <= fileSize

(* A refusal of the parser, of the limit and of the length is the file's    *)
(* own.  A server that does not state the length of the body it streams is  *)
(* the exception: the file then "ends" at 0 bytes.                          *)
Justified ==
  /\ outcome \in Refusals => ~Sound
  /\ outcome = "past MAX_READ" => ~Sound \/ HeaderEnd > MaxRead
  /\ outcome = "ends" => ~Sound \/ HeaderEnd > fileSize \/ (size = 0 /\ stream # "none")

(* The range that has just arrived is shorter than the one asked for.       *)
CutRange == http /\ stream = "none" /\ have' < Min({target, fileSize})

(* A file is refused for what it is: not because of where the bytes that    *)
(* have arrived happen to end.  The exceptions are the server's: it streams *)
(* a body whose length it does not state (Justified), answers a range with  *)
(* fewer bytes than were asked for, which ensure() does not ask for again,  *)
(* or answers one that does not begin the file with the whole of it.  (A    *)
(* request that fails, "rejected", is no verdict on the file.)              *)
RefusalIsGenuine ==
  [][outcome = "reading" =>
       /\ Justified'
       /\ outcome' = "short" => ~Sound \/ HeaderEnd > fileSize \/ CutRange
       /\ outcome' = "no resume" => http /\ stream = "none" /\ have > 0]_vars

(* What is fetched beyond the header is at most a doubling of it, and what  *)
(* a stream gives at once: the tensor data is left alone.                   *)
OvershootIsBounded ==
  LET ahead(n) == have <= Max({FirstRead, 2 * n}) + (IF stream = "none" THEN 0 ELSE MaxChunk)
  IN  ahead(MaxRead) /\ (ahead(HeaderEnd) \/ ~Sound)

(* Whatever the file says, the probe comes to an end. *)
ProbeIsOver == <>(outcome # "reading")

=============================================================================
