--------------------------- MODULE GgufProbeProofs ---------------------------
(***************************************************************************)
(* The GGUF header probe, for any files, limits and sizes of what arrives. *)
(*                                                                         *)
(* The invariant says at which field of the file the cursor is, and that   *)
(* the loops around it have as many turns left as the file has entries,    *)
(* items, dimensions and tensors left (At).  It holds until the reader     *)
(* comes to a field it refuses.                                            *)
(***************************************************************************)
EXTENDS GgufProbe, FiniteSetTheorems, TLAPS

-----------------------------------------------------------------------------
(* Where the reader is in header h: about to read field i as nx, with td   *)
(* left to do.                                                             *)

InEntry == {"key", "type", "scalar", "stringLength", "string", "itemType", "length",
            "itemLength", "text", "item", "rest"}
InTensor == {"name", "nDims", "dim", "tensorType", "tensorOffset"}

(* What may have no bytes at all. *)
Bytes == {"key", "string", "text", "name", "rest"}

(* The cursor is at the place of field i and takes it for what it is, or it  *)
(* is about to skip what is left of an array, which ends where a field does. *)
Stands(h, i, off, nx) ==
  \/ /\ nx.is # "rest" /\ FieldIs(h, i, nx.is, nx.width)
     /\ off = h[i].at /\ (nx.width > 0 \/ nx.is \in Bytes)
  \/ nx.is = "rest" /\ i \in 2 .. Len(h) + 1 /\ off = EndOf(h, i - 1)

(* What was read is taken; the last field may be one that is judged late.    *)
Judged(h, i, is) ==
  \/ TakenTo(h, i - 1)
  \/ /\ is \in {"kvCount", "length", "tensorOffset"}
     /\ TakenTo(h, i - 2) /\ h[i - 1].is \in Late

EntriesLeft(h, i, is, td) ==
  LET kvs == Left(h, i, "keyLength")
      tensors == Left(h, i, "nameLength")
  IN  /\ is = "kvCount" =>
           /\ i > 1 /\ h[i - 1].is = "tensorCount"
           /\ td.tensors = h[i - 1].n /\ (td.tensors <= MaxSafe => td.tensors = tensors)
      /\ is = "keyLength" => td.kvs = kvs /\ td.tensors = tensors
      /\ is \in InEntry => td.kvs = kvs + 1 /\ td.tensors = tensors
      /\ is \in InTensor \cup {"nameLength"} => td.kvs = 0 /\ kvs = 0
      /\ is = "nameLength" => td.tensors = tensors
      /\ is \in InTensor => td.tensors = tensors + 1

(* Field a is the length of the array around field i. *)
TextsFrom(h, a, i, is, td) ==
  /\ a \in 2 .. Len(h) /\ h[a].is = "length" /\ h[a - 1].n = String
  /\ ItemsAfter(h, a) /\ TakenTo(h, a)
  /\ td.itemType = String /\ td.items \in 1 .. h[a].n
  /\ i = a + 2 * (h[a].n - td.items) + (IF is = "itemLength" THEN 1 ELSE 2)

NumbersFrom(h, a, i, nx, td) ==
  /\ a \in 2 .. Len(h) /\ h[a].is = "length" /\ h[a - 1].n \in DOMAIN ScalarWidth
  /\ ItemsAfter(h, a) /\ TakenTo(h, a)
  /\ td.itemType = h[a - 1].n /\ td.items \in 0 .. h[a].n
  /\ i = a + (h[a].n - td.items) + 1
  /\ nx.is = "item" => td.items > 0
  /\ nx.is = "rest" => nx.width = td.items * ScalarWidth[td.itemType]

ItemsLeft(h, i, nx, td) ==
  /\ nx.is = "length" => /\ i > 2 /\ h[i - 1].is = "itemType"
                         /\ td.itemType = h[i - 1].n
  /\ nx.is \in {"itemLength", "text"} => \E a \in 2 .. Len(h) : TextsFrom(h, a, i, nx.is, td)
  /\ nx.is \in {"item", "rest"} => \E a \in 2 .. Len(h) : NumbersFrom(h, a, i, nx, td)

(* Field d is the number of dimensions of the tensor around field i. *)
DimsFrom(h, d, i, is, td) ==
  LET n == h[d].n
  IN  /\ h[d].is = "nDims" /\ DimsAfter(h, d)
      /\ td.row = IF i = d + 1 \/ n = 0 THEN NoRow ELSE h[d + 1].n
      /\ is = "dim" => td.dims \in 1 .. n /\ i = d + (n - td.dims) + 1
      /\ is = "tensorType" => i = d + n + 1
      /\ is = "tensorOffset" => /\ i = d + n + 2 /\ h[i - 1].is = "tensorType"
                                /\ td.type = h[i - 1].n

DimsLeft(h, i, is, td) ==
  is \in {"dim", "tensorType", "tensorOffset"} =>
    \E d \in 1 .. Len(h) : DimsFrom(h, d, i, is, td)

At(h, i, off, nx, td) ==
  /\ Stands(h, i, off, nx) /\ Judged(h, i, nx.is)
  /\ EntriesLeft(h, i, nx.is, td) /\ ItemsLeft(h, i, nx, td) /\ DimsLeft(h, i, nx.is, td)

(* A string that is only skipped has a length no file has. *)
Stuck == ~Sound /\ next.is = "text" /\ End > MaxSafe

OnTrack ==
  outcome = "reading" =>
    \/ \E i \in 1 .. Len(fields) + 1 : At(fields, i, offset, next, todo)
    \/ Stuck

-----------------------------------------------------------------------------
(* The bytes. *)

Sources ==
  /\ ~http => size = fileSize /\ stream = "none" /\ target <= fileSize
  /\ outcome = "reading" => /\ size = 0 => stream # "none" \/ fileSize = 0
                            /\ target # 0 => target >= End

(* What was fetched, and what is to be fetched, for a header of n bytes. *)
Window(n) ==
  LET most == Max({FirstRead, 2 * n})
  IN  target <= most /\ have <= most + (IF stream = "none" THEN 0 ELSE MaxChunk)

Fetched == Window(MaxRead) /\ (Window(HeaderEnd) \/ ~Sound)

IInv == TypeOK /\ OnTrack /\ Sources /\ Fetched /\ ParsedIsWhole /\ Justified

-----------------------------------------------------------------------------
(* Induction over the natural numbers, on a set.                           *)

LEMMA NatWellFounded == IsWellFoundedOn({p \in Nat \X Nat : p[1] < p[2]}, Nat)
<1>1. OpToRel(<, Nat) = {p \in Nat \X Nat : p[1] < p[2]}
  BY DEF OpToRel
<1> QED
  BY <1>1, NatLessThanWellFounded

LEMMA SmallestElement ==
  ASSUME NEW S \in SUBSET Nat, S # {}
  PROVE  \E m \in S : \A k \in S : m <= k
<1> DEFINE R == {p \in Nat \X Nat : p[1] < p[2]}
<1>1. IsWellFoundedOn(R, Nat)
  BY NatWellFounded
<1> HIDE DEF R
<1>2. PICK m \in S : \A k \in S : <<k, m>> \notin R
  BY <1>1, WFMin
<1>3. ASSUME NEW k \in S PROVE m <= k
  <2>1. <<k, m>> \in R <=> k < m
    BY DEF R
  <2> QED
    BY <1>2, <2>1
<1> QED
  BY <1>3

LEMMA SetInduction ==
  ASSUME NEW S, 0 \in S, \A n \in Nat : n \in S => n + 1 \in S
  PROVE  Nat \subseteq S
<1> SUFFICES ASSUME Nat \ S # {} PROVE FALSE
  OBVIOUS
<1>1. PICK m \in Nat \ S : \A k \in Nat \ S : m <= k
  BY SmallestElement
<1>2. m - 1 \in Nat /\ m - 1 \in S
  BY <1>1
<1> QED
  BY <1>1, <1>2

-----------------------------------------------------------------------------
(* Headers.                                                                *)

Header(h) == h \in Seq(Field) /\ Len(h) > 0 /\ LaidOut(h)

LEMMA FieldTyped ==
  ASSUME NEW h, Header(h), NEW i \in 1 .. Len(h)
  PROVE  /\ Len(h) \in Nat /\ DOMAIN h = 1 .. Len(h)
         /\ h[i].is \in Kinds /\ h[i].at \in Nat /\ h[i].width \in Nat /\ h[i].n \in Nat
         /\ EndOf(h, i) \in Nat /\ EndOf(h, i) = h[i].at + h[i].width
<1>1. h[i] \in Field /\ Len(h) \in Nat /\ DOMAIN h = 1 .. Len(h)
  BY DEF Header
<1>2. h[i].is \in Kinds /\ h[i].at \in Nat /\ h[i].width \in Nat /\ h[i].n \in Nat
  BY <1>1 DEF Field
<1> QED
  BY <1>1, <1>2 DEF EndOf

LEMMA NoGap ==
  ASSUME NEW h, Header(h), NEW i \in 1 .. Len(h), i + 1 <= Len(h)
  PROVE  h[i + 1].at = EndOf(h, i)
<1>1. Len(h) \in Nat /\ i + 1 \in 2 .. Len(h) /\ (i + 1) - 1 = i
  BY DEF Header
<1> QED
  BY <1>1 DEF Header, LaidOut

(* A field begins where, or after, those before it end. *)
LEMMA NoOverlap ==
  ASSUME NEW h, Header(h), NEW i \in 1 .. Len(h), NEW j \in 1 .. Len(h), i < j
  PROVE  EndOf(h, i) <= h[j].at
<1> DEFINE S == {k \in Nat : i + 1 + k <= Len(h) => EndOf(h, i) <= h[i + 1 + k].at}
<1>1. 0 \in S
  BY NoGap, FieldTyped
<1>2. ASSUME NEW k \in Nat, k \in S PROVE k + 1 \in S
  <2> SUFFICES ASSUME i + 1 + (k + 1) <= Len(h)
               PROVE  EndOf(h, i) <= h[i + 1 + (k + 1)].at
    OBVIOUS
  <2>1. i + 1 + k \in 1 .. Len(h) /\ i + 1 + (k + 1) = (i + 1 + k) + 1
    <3>1. Len(h) \in Nat
      BY FieldTyped
    <3> QED
      BY <3>1
  <2>2. h[i + 1 + (k + 1)].at = EndOf(h, i + 1 + k)
    BY <2>1, NoGap
  <2>3. EndOf(h, i) <= h[i + 1 + k].at
    BY <1>2, <2>1
  <2>4. h[i + 1 + k].at \in Nat /\ h[i + 1 + k].width \in Nat
        /\ EndOf(h, i + 1 + k) = h[i + 1 + k].at + h[i + 1 + k].width /\ EndOf(h, i) \in Nat
    BY <2>1, FieldTyped
  <2> QED
    BY <2>2, <2>3, <2>4
<1>3. j - (i + 1) \in S
  <2> HIDE DEF S
  <2>1. j - (i + 1) \in Nat
    BY FieldTyped
  <2> QED
    BY <1>1, <1>2, <2>1, SetInduction
<1>4. i + 1 + (j - (i + 1)) = j
  OBVIOUS
<1> QED
  BY <1>3, <1>4

LEMMA WithinHeader ==
  ASSUME NEW h, Header(h), NEW i \in 1 .. Len(h)
  PROVE  EndOf(h, i) <= EndOf(h, Len(h)) /\ EndOf(h, Len(h)) \in Nat
<1>1. Len(h) \in 1 .. Len(h)
  BY FieldTyped
<1>2. CASE i = Len(h)
  BY <1>1, <1>2, FieldTyped
<1>3. CASE i < Len(h)
  <2>1. EndOf(h, i) <= h[Len(h)].at
    BY <1>1, <1>3, NoOverlap
  <2> QED
    BY <1>1, <2>1, FieldTyped
<1> QED
  BY <1>1, <1>2, <1>3

(* The end of m fields of one width. *)
LEMMA EvenFields ==
  ASSUME NEW h, Header(h), NEW b \in 1 .. Len(h), NEW m \in Nat, NEW w \in Nat,
         b + m <= Len(h), \A k \in 1 .. m : h[b + k].width = w
  PROVE  EndOf(h, b + m) = EndOf(h, b) + m * w
<1> DEFINE S == {k \in Nat : k <= m => EndOf(h, b + k) = EndOf(h, b) + k * w}
<1>1. 0 \in S
  BY FieldTyped
<1>2. ASSUME NEW k \in Nat, k \in S PROVE k + 1 \in S
  <2> SUFFICES ASSUME k + 1 <= m PROVE EndOf(h, b + (k + 1)) = EndOf(h, b) + (k + 1) * w
    OBVIOUS
  <2>1. b + k \in 1 .. Len(h) /\ b + (k + 1) \in 1 .. Len(h) /\ b + (k + 1) = (b + k) + 1
    <3>1. Len(h) \in Nat /\ b \in Nat /\ b >= 1 /\ b + m <= Len(h) /\ k + 1 <= m
      BY FieldTyped
    <3> HIDE DEF S
    <3> QED
      BY <3>1
  <2>2. h[b + (k + 1)].at = EndOf(h, b + k)
    BY <2>1, NoGap
  <2>3. h[b + (k + 1)].width = w
    <3>1. k + 1 \in 1 .. m
      OBVIOUS
    <3> QED
      BY <3>1
  <2>4. EndOf(h, b + k) = EndOf(h, b) + k * w
    BY <1>2
  <2>5. EndOf(h, b + (k + 1)) = EndOf(h, b + k) + w
    BY <2>1, <2>2, <2>3, FieldTyped
  <2>6. EndOf(h, b) \in Nat
    BY FieldTyped
  <2>7. (k + 1) * w = k * w + w /\ k * w \in Nat
    OBVIOUS
  <2> QED
    BY <2>4, <2>5, <2>6, <2>7
<1>3. m \in S
  <2> HIDE DEF S
  <2> QED
    BY <1>1, <1>2, SetInduction
<1> QED
  BY <1>3

(* Entries left to read. *)
LEMMA LeftStep ==
  ASSUME NEW h, Header(h), NEW i \in 1 .. Len(h), NEW is
  PROVE  /\ Left(h, i, is) \in Nat /\ Left(h, i + 1, is) \in Nat
         /\ Left(h, i, is) = Left(h, i + 1, is) + (IF h[i].is = is THEN 1 ELSE 0)
<1> DEFINE S == {j \in i + 1 .. Len(h) : h[j].is = is}
           T == {j \in i .. Len(h) : h[j].is = is}
<1>1. Len(h) \in Nat
  BY FieldTyped
<1>2. IsFiniteSet(S)
  <2>1. IsFiniteSet(i + 1 .. Len(h))
    BY <1>1, FS_Interval
  <2> QED
    BY <2>1, FS_Subset
<1>3. T = IF h[i].is = is THEN S \cup {i} ELSE S
  BY <1>1
<1>4. i \notin S
  OBVIOUS
<1>5. Cardinality(S) \in Nat
  BY <1>2, FS_CardinalityType
<1>6. Cardinality(T) = Cardinality(S) + (IF h[i].is = is THEN 1 ELSE 0)
  <2> HIDE DEF S, T
  <2>1. Cardinality(S \cup {i}) = Cardinality(S) + 1
    BY <1>2, <1>4, FS_AddElement
  <2> QED
    BY <1>3, <1>5, <2>1
<1> QED
  BY <1>5, <1>6 DEF Left

LEMMA LeftNone ==
  ASSUME NEW h, Header(h), NEW i \in 1 .. Len(h) + 1, NEW is,
         \A j \in i .. Len(h) : h[j].is # is
  PROVE  Left(h, i, is) = 0
<1>1. {j \in i .. Len(h) : h[j].is = is} = {}
  OBVIOUS
<1> QED
  BY <1>1, FS_EmptySet DEF Left

(* No entry begins between fields i and k. *)
LEMMA LeftSame ==
  ASSUME NEW h, Header(h), NEW i \in 1 .. Len(h) + 1, NEW k \in i .. Len(h) + 1, NEW is,
         \A j \in i .. k - 1 : h[j].is # is
  PROVE  Left(h, k, is) = Left(h, i, is)
<1>1. Len(h) \in Nat
  BY DEF Header
<1>2. {j \in k .. Len(h) : h[j].is = is} = {j \in i .. Len(h) : h[j].is = is}
  BY <1>1
<1> QED
  BY <1>2 DEF Left

LEMMA WidthsOfScalars ==
  \A t \in DOMAIN ScalarWidth :
    ScalarWidth[t] \in Nat \ {0} /\ t \in Nat /\ t # String /\ t # Array
BY DEF ScalarWidth, String, Array

(* What a field says of those that follow it, once it is taken. *)
LEMMA Follows ==
  ASSUME NEW h, Header(h), NEW i \in 1 .. Len(h),
         TakenTo(h, i) \/ (TakenTo(h, i - 1) /\ h[i].is \in Late)
  PROVE  After(h, i)
BY DEF Header, LaidOut

LEMMA TakenOneMore ==
  ASSUME NEW h, NEW i \in Nat \ {0}, TakenTo(h, i - 1), Taken(h, i)
  PROVE  TakenTo(h, i)
BY DEF TakenTo

(* Which fields hold a number: those are never empty, so two of them never  *)
(* begin at one place.                                                      *)
LEMMA OneField ==
  ASSUME NEW h, Header(h), NEW i \in 1 .. Len(h), NEW j \in 1 .. Len(h),
         h[i].at = h[j].at, h[i].width > 0, h[j].width > 0
  PROVE  i = j
<1>1. /\ EndOf(h, i) = h[i].at + h[i].width /\ EndOf(h, j) = h[j].at + h[j].width
      /\ h[i].at \in Nat /\ h[j].at \in Nat /\ h[i].width \in Nat /\ h[j].width \in Nat
  BY FieldTyped
<1>2. ~(i < j)
  <2>1. i < j => EndOf(h, i) <= h[j].at
    BY NoOverlap
  <2> QED
    BY <1>1, <2>1
<1>3. ~(j < i)
  <2>1. j < i => EndOf(h, j) <= h[i].at
    BY NoOverlap
  <2> QED
    BY <1>1, <2>1
<1> QED
  BY <1>2, <1>3

(* The row of a tensor is its first dimension. *)
LEMMA RowIs ==
  ASSUME NEW h, Header(h), NEW d \in 1 .. Len(h), h[d].is = "nDims", DimsAfter(h, d),
         NEW i, i = d + h[d].n + 1
  PROVE  RowAt(h, i) = IF h[d].n = 0 THEN 1 ELSE h[d + 1].n
<1> DEFINE S == {j \in 1 .. i : h[j].is = "nDims"}
<1>1. h[d].n \in Nat /\ Len(h) \in Nat /\ DOMAIN h = 1 .. Len(h)
  BY FieldTyped
<1>2. d \in S
  BY <1>1
<1>3. ASSUME NEW j \in S PROVE j <= d
  <2> SUFFICES ASSUME j > d PROVE FALSE
    BY <1>3
  <2>1. CASE j = i
    BY <2>1 DEF DimsAfter, FieldIs
  <2>2. CASE j < i
    <3>1. j - d \in 1 .. h[d].n /\ d + (j - d) = j
      BY <1>1, <2>2
    <3> QED
      BY <3>1 DEF DimsAfter, FieldIs
  <2> QED
    BY <1>1, <2>1, <2>2
<1>4. \A x \in S : (\A y \in S : x >= y) <=> x = d
  BY <1>1, <1>2, <1>3
<1>5. Max(S) = d
  <2> HIDE DEF S
  <2> QED
    BY <1>2, <1>4 DEF Max
<1> QED
  BY <1>5 DEF RowAt

-----------------------------------------------------------------------------
(* Where the reader is.                                                    *)

Todo == [kvs : Nat, tensors : Nat, items : Nat, sampled : 0 .. ArraySample,
         dims : 0 .. 4, itemType : Nat, row : Nat \cup {NoRow}, type : Nat]

CursorTyped ==
  /\ offset \in 0 .. have /\ next \in [is : Kinds \cup {"rest"}, width : Nat] /\ todo \in Todo
  /\ outcome \in Outcomes

LEMMA FileIsLaidOut ==
  ASSUME TypeOK
  PROVE  /\ Header(fields) /\ fileSize \in Nat /\ have \in Nat /\ offset \in Nat
         /\ next.width \in Nat /\ End \in Nat /\ HeaderEnd \in Nat /\ todo \in Todo
         /\ 1 .. Len(fields) = DOMAIN fields /\ Len(fields) \in Nat
<1>1. /\ file.fields \in Seq(Field) /\ file.fields # <<>> /\ LaidOut(file.fields)
      /\ file.size \in Nat
  BY FilesAssumption DEF TypeOK
<1>2. Header(fields) /\ fileSize \in Nat
  BY <1>1 DEF Header, fields, fileSize
<1>3. have \in Nat /\ offset \in Nat /\ next.width \in Nat /\ todo \in Todo
  BY <1>2 DEF TypeOK, Todo
<1>4. HeaderEnd \in Nat /\ 1 .. Len(fields) = DOMAIN fields /\ Len(fields) \in Nat
  <2>1. Len(fields) \in 1 .. Len(fields) /\ 1 .. Len(fields) = DOMAIN fields
    BY <1>2 DEF Header
  <2> QED
    BY <1>2, <2>1, FieldTyped DEF HeaderEnd
<1> QED
  BY <1>2, <1>3, <1>4 DEF End

LEMMA NotSound ==
  ASSUME TypeOK, NEW i \in 1 .. Len(fields), ~Taken(fields, i)
  PROVE  ~Sound
BY DEF Sound, SoundFiles, TakenTo, fields

LEMMA IsSound ==
  ASSUME TypeOK, TakenTo(fields, Len(fields))
  PROVE  Sound
BY DEF TypeOK, Sound, SoundFiles, fields

(* What of a limit and of the fetched bytes the reader relies on. *)
LEMMA Limits ==
  /\ FirstRead \in Nat /\ MaxRead \in Nat /\ MaxSafe \in Nat /\ MaxChunk \in Nat
  /\ FirstRead > 0 /\ MaxRead > 0 /\ MaxChunk > 0
  /\ FirstRead + MaxChunk <= MaxSafe /\ 2 * MaxRead + MaxChunk <= MaxSafe
BY LimitsAssumption

LEMMA MaxOfTwo ==
  ASSUME NEW a \in Int, NEW b \in Int
  PROVE  Max({a, b}) = IF a >= b THEN a ELSE b
BY DEF Max

LEMMA MaxOfThree ==
  ASSUME NEW a \in Int, NEW b \in Int, NEW c \in Int
  PROVE  /\ Max({a, b, c}) \in {a, b, c}
         /\ Max({a, b, c}) >= a /\ Max({a, b, c}) >= b /\ Max({a, b, c}) >= c
<1>1. \E x \in {a, b, c} : \A y \in {a, b, c} : x >= y
  <2>1. CASE a >= b /\ a >= c
    BY <2>1
  <2>2. CASE b >= a /\ b >= c
    BY <2>2
  <2>3. CASE c >= a /\ c >= b
    BY <2>3
  <2> QED
    BY <2>1, <2>2, <2>3
<1> QED
  BY <1>1 DEF Max

LEMMA MinOfTwo ==
  ASSUME NEW a \in Int, NEW b \in Int
  PROVE  Min({a, b}) = IF a <= b THEN a ELSE b
BY DEF Min

LEMMA NeverBeyondMaxSafe ==
  ASSUME IInv
  PROVE  have <= MaxSafe
<1>1. have \in Nat
  BY FileIsLaidOut DEF IInv
<1>2. Max({FirstRead, 2 * MaxRead}) = IF FirstRead >= 2 * MaxRead THEN FirstRead ELSE 2 * MaxRead
  BY Limits, MaxOfTwo
<1>3. have <= Max({FirstRead, 2 * MaxRead}) + (IF stream = "none" THEN 0 ELSE MaxChunk)
  BY DEF IInv, Fetched, Window
<1> QED
  BY <1>1, <1>2, <1>3, Limits

(* A read is of a field of the file. *)
LEMMA ReadAt ==
  ASSUME IInv, NEW is, Read(is)
  PROVE  /\ End <= have /\ outcome = "reading" /\ next.is = is
         /\ \E i \in 1 .. Len(fields) + 1 : At(fields, i, offset, next, todo)
<1>1. End <= have /\ have <= MaxSafe /\ End \in Nat /\ have \in Nat /\ MaxSafe \in Nat
  BY NeverBeyondMaxSafe, FileIsLaidOut, Limits DEF IInv, Read
<1>2. ~Stuck
  BY <1>1 DEF Stuck
<1> QED
  BY <1>1, <1>2 DEF Read, IInv, OnTrack

LEMMA FieldAt ==
  ASSUME IInv, NEW i \in 1 .. Len(fields) + 1, At(fields, i, offset, next, todo), next.is # "rest"
  PROVE  /\ i \in 1 .. Len(fields) /\ fields[i].is = next.is /\ fields[i].width = next.width
         /\ fields[i].at = offset /\ End = EndOf(fields, i) /\ IsNext(i)
<1>1. Header(fields) /\ 1 .. Len(fields) = DOMAIN fields
  BY FileIsLaidOut DEF IInv
<1> QED
  BY <1>1 DEF At, Stands, FieldIs, End, EndOf, IsNext

LEMMA ValueAt ==
  ASSUME IInv, NEW i \in 1 .. Len(fields) + 1, At(fields, i, offset, next, todo), next.is \notin Bytes
  PROVE  Value = fields[i].n /\ Value \in Nat
<1>1. Header(fields) /\ 1 .. Len(fields) = DOMAIN fields
  BY FileIsLaidOut DEF IInv
<1>2. i \in DOMAIN fields /\ IsNext(i) /\ next.width > 0
  <2>1. next.is # "rest"
    BY DEF Bytes
  <2> QED
    BY <1>1, <2>1, FieldAt DEF At, Stands
<1>3. \A j \in DOMAIN fields : IsNext(j) => j = i
  BY <1>1, <1>2, OneField DEF IsNext
<1>4. {j \in DOMAIN fields : IsNext(j)} = {i}
  BY <1>2, <1>3
<1>5. Value = fields[i].n
  BY <1>4 DEF Value
<1> QED
  BY <1>1, <1>2, <1>5, FieldTyped

-----------------------------------------------------------------------------
(* The steps of the parser.                                                *)

(* What a step of the parser leaves. *)
Result ==
  /\ CursorTyped'
  /\ \/ /\ outcome' = "reading"
        /\ \E i \in 1 .. Len(fields) + 1 : At(fields, i, offset', next', todo')
     \/ /\ outcome' = "reading"
        /\ ~Sound /\ next'.is = "text" /\ offset' + next'.width > MaxSafe
     \/ outcome' = "parsed" /\ Sound /\ offset' = HeaderEnd
     \/ outcome' \in Refusals /\ ~Sound

(* The reader is at field i, and its bytes are there. *)
Reads(i) ==
  /\ IInv /\ outcome = "reading" /\ End <= have
  /\ UNCHANGED <<file, http, source>>
  /\ i \in 1 .. Len(fields) + 1 /\ At(fields, i, offset, next, todo)

LEMMA ReadReads ==
  ASSUME IInv, NEW is, Read(is)
  PROVE  next.is = is /\ \E i : Reads(i)
BY ReadAt DEF Reads, Read

LEMMA Typing ==
  ASSUME NEW i, Reads(i)
  PROVE  /\ Header(fields) /\ todo \in Todo /\ CursorTyped /\ offset \in Nat /\ End \in Nat
         /\ next.width \in Nat /\ have' = have /\ have \in Nat /\ End >= offset
         /\ 1 .. Len(fields) = DOMAIN fields /\ Len(fields) \in Nat
<1>1. /\ Header(fields) /\ todo \in Todo /\ offset \in Nat /\ End \in Nat /\ have \in Nat
      /\ next.width \in Nat /\ 1 .. Len(fields) = DOMAIN fields /\ Len(fields) \in Nat
  BY FileIsLaidOut DEF Reads, IInv
<1>2. CursorTyped
  BY DEF Reads, IInv, TypeOK, CursorTyped, Todo
<1>3. have' = have /\ End >= offset
  BY <1>1 DEF Reads, source, End
<1> QED
  BY <1>1, <1>2, <1>3

LEMMA Refuses ==
  ASSUME NEW i, Reads(i), NEW why \in Refusals, Fail(why), ~Sound
  PROVE  Result
<1>1. outcome' = why /\ offset' = offset /\ next' = next /\ todo' = todo
  BY DEF Fail, cursor
<1>2. CursorTyped'
  BY <1>1, Typing DEF CursorTyped, Outcomes
<1> QED
  BY <1>1, <1>2 DEF Result

(* The cursor goes on to the next read. *)
LEMMA GoTyped ==
  ASSUME NEW i, Reads(i), NEW is \in Kinds \cup {"rest"}, NEW w \in Nat, Go(is, w), todo' \in Todo
  PROVE  /\ CursorTyped' /\ outcome' = "reading" /\ offset' = End
         /\ next'.is = is /\ next'.width = w
<1>1. offset' = End /\ next' = [is |-> is, width |-> w] /\ outcome' = outcome
  BY DEF Go
<1>2. outcome = "reading" /\ End <= have
  BY DEF Reads
<1>3. End \in Nat /\ have \in Nat /\ have' = have
  BY Typing
<1>4. offset' \in 0 .. have' /\ next' \in [is : Kinds \cup {"rest"}, width : Nat] /\ outcome' \in Outcomes
  BY <1>1, <1>2, <1>3 DEF Outcomes
<1> QED
  BY <1>1, <1>2, <1>4 DEF CursorTyped

(* At the field that follows. *)
LEMMA GoNext ==
  ASSUME NEW i, Reads(i), next.is # "rest", NEW is \in Kinds,
         NEW w, FieldIs(fields, i + 1, is, w), w > 0 \/ is \in Bytes,
         Go(is, w), todo' \in Todo
  PROVE  /\ CursorTyped' /\ outcome' = "reading" /\ offset' = End
         /\ next'.is = is /\ next'.width = w
         /\ i \in 1 .. Len(fields) /\ i + 1 \in 1 .. Len(fields)
         /\ Stands(fields, i + 1, offset', next')
<1>1. /\ Header(fields) /\ 1 .. Len(fields) = DOMAIN fields
      /\ i + 1 \in 1 .. Len(fields) /\ fields[i + 1].is = is /\ fields[i + 1].width = w
  BY Typing DEF FieldIs
<1>2. w \in Nat
  BY <1>1, FieldTyped
<1>3. /\ CursorTyped' /\ outcome' = "reading" /\ offset' = End
      /\ next'.is = is /\ next'.width = w
  BY <1>2, GoTyped
<1>4. i \in 1 .. Len(fields) /\ End = EndOf(fields, i)
  BY FieldAt DEF Reads
<1>5. fields[i + 1].at = EndOf(fields, i)
  BY <1>1, <1>4, NoGap
<1> QED
  BY <1>1, <1>3, <1>4, <1>5 DEF Stands, FieldIs, Kinds

(* From one field of an entry, or of a tensor, to the next. *)
LEMMA EntriesLeftStep ==
  ASSUME NEW h, Header(h), NEW i \in 1 .. Len(h), NEW is, NEW td, NEW td2,
         EntriesLeft(h, i, h[i].is, td), td2.kvs = td.kvs, td2.tensors = td.tensors,
         \/ h[i].is \in InEntry \cup {"keyLength"} /\ is \in InEntry
         \/ h[i].is \in InTensor \cup {"nameLength"} /\ is \in InTensor
  PROVE  EntriesLeft(h, i + 1, is, td2)
<1>1. /\ Left(h, i, "keyLength") \in Nat /\ Left(h, i + 1, "keyLength") \in Nat
      /\ Left(h, i, "keyLength") =
           Left(h, i + 1, "keyLength") + (IF h[i].is = "keyLength" THEN 1 ELSE 0)
  BY LeftStep
<1>2. /\ Left(h, i, "nameLength") \in Nat /\ Left(h, i + 1, "nameLength") \in Nat
      /\ Left(h, i, "nameLength") =
           Left(h, i + 1, "nameLength") + (IF h[i].is = "nameLength" THEN 1 ELSE 0)
  BY LeftStep
<1>3. CASE h[i].is \in InEntry \cup {"keyLength"} /\ is \in InEntry
  BY <1>1, <1>2, <1>3 DEF EntriesLeft, InEntry, InTensor
<1>4. CASE h[i].is \in InTensor \cup {"nameLength"} /\ is \in InTensor
  BY <1>1, <1>2, <1>4 DEF EntriesLeft, InEntry, InTensor
<1> QED
  BY <1>3, <1>4

(* On to the next entry, when field k is the last of one. *)
LEMMA EntryIsOver ==
  ASSUME NEW i, Reads(i), NEW k \in 1 .. Len(fields), End = EndOf(fields, k),
         TakenTo(fields, k), EntryAfter(fields, k), NEW t \in Todo, NextEntry(t),
         t.kvs = Left(fields, k + 1, "keyLength"), t.tensors = Left(fields, k + 1, "nameLength")
  PROVE  Result
<1>1. /\ Header(fields) /\ 1 .. Len(fields) = DOMAIN fields /\ Len(fields) \in Nat
      /\ outcome = "reading" /\ End <= have /\ End \in Nat /\ have \in Nat /\ have' = have
      /\ todo' = t
  BY Typing DEF Reads, NextEntry
<1>2. ASSUME k + 1 \in 1 .. Len(fields), NEW is \in {"keyLength", "nameLength"},
             FieldIs(fields, k + 1, is, 8), Go(is, 8),
             is = "nameLength" => t.kvs = 0
      PROVE  Result
  <2>1. /\ CursorTyped' /\ outcome' = "reading" /\ offset' = End
        /\ next'.is = is /\ next'.width = 8
    <3>1. is \in Kinds
      BY DEF Kinds
    <3>2. todo' \in Todo
      BY <1>1
    <3> QED
      BY <1>2, <3>1, <3>2, GoTyped
  <2>2. fields[k + 1].at = End
    BY <1>1, <1>2, NoGap
  <2>3. Stands(fields, k + 1, offset', next')
    BY <1>2, <2>1, <2>2 DEF Stands
  <2>4. (k + 1) - 1 = k
    OBVIOUS
  <2>5. Judged(fields, k + 1, is)
    BY <2>4 DEF Judged
  <2>6. EntriesLeft(fields, k + 1, is, todo')
    BY <1>1, <1>2 DEF EntriesLeft, InEntry, InTensor
  <2>7. ItemsLeft(fields, k + 1, next', todo') /\ DimsLeft(fields, k + 1, is, todo')
    BY <1>2, <2>1 DEF ItemsLeft, DimsLeft
  <2> QED
    BY <1>2, <2>1, <2>3, <2>5, <2>6, <2>7 DEF At, Result
<1>3. ASSUME FieldIs(fields, k + 1, "keyLength", 8) PROVE Result
  <2>1. k + 1 \in 1 .. Len(fields) /\ fields[k + 1].is = "keyLength"
    BY <1>1, <1>3 DEF FieldIs
  <2>2. /\ Left(fields, k + 1, "keyLength") \in Nat
        /\ Left(fields, (k + 1) + 1, "keyLength") \in Nat
        /\ Left(fields, k + 1, "keyLength") = Left(fields, (k + 1) + 1, "keyLength") + 1
    BY <1>1, <2>1, LeftStep
  <2>3. Go("keyLength", 8)
    BY <2>2 DEF NextEntry
  <2> QED
    BY <1>2, <1>3, <2>1, <2>3
<1>4. ASSUME FieldIs(fields, k + 1, "nameLength", 8), Left(fields, k + 1, "keyLength") = 0
      PROVE  Result
  <2>1. k + 1 \in 1 .. Len(fields) /\ fields[k + 1].is = "nameLength"
    BY <1>1, <1>4 DEF FieldIs
  <2>2. /\ Left(fields, k + 1, "nameLength") \in Nat
        /\ Left(fields, (k + 1) + 1, "nameLength") \in Nat
        /\ Left(fields, k + 1, "nameLength") = Left(fields, (k + 1) + 1, "nameLength") + 1
    BY <1>1, <2>1, LeftStep
  <2>3. Go("nameLength", 8)
    BY <1>4, <2>2 DEF NextEntry
  <2> QED
    BY <1>2, <1>4, <2>1, <2>3
<1>5. ASSUME k = Len(fields) PROVE Result
  <2>1. k + 1 \in 1 .. Len(fields) + 1 /\ \A j \in k + 1 .. Len(fields) : FALSE
    BY <1>1, <1>5
  <2>2. Left(fields, k + 1, "keyLength") = 0 /\ Left(fields, k + 1, "nameLength") = 0
    BY <1>1, <2>1, LeftNone
  <2>3. offset' = End /\ outcome' = "parsed" /\ next' = next
    BY <2>2 DEF NextEntry
  <2>4. Sound
    BY <1>5, IsSound DEF Reads, IInv
  <2>5. HeaderEnd = End
    BY <1>5 DEF HeaderEnd
  <2>6. CursorTyped'
    BY <1>1, <2>3, Typing DEF CursorTyped, Outcomes
  <2> QED
    BY <2>3, <2>4, <2>5, <2>6 DEF Result
<1> QED
  BY <1>3, <1>4, <1>5 DEF EntryAfter

(* One more field is taken, and says what follows. *)
LEMMA Judges ==
  ASSUME NEW i, Reads(i), next.is \notin {"kvCount", "length", "tensorOffset", "rest"},
         Taken(fields, i)
  PROVE  TakenTo(fields, i) /\ After(fields, i)
<1>1. i \in 1 .. Len(fields)
  BY FieldAt DEF Reads
<1>2. TakenTo(fields, i - 1)
  BY DEF Reads, At, Judged
<1>3. TakenTo(fields, i)
  BY <1>1, <1>2, TakenOneMore
<1> QED
  BY <1>1, <1>3, Follows, Typing

(* Whether field i is taken is a matter of its number. *)
LEMMA OthersAreTaken ==
  ASSUME NEW h, NEW i,
         h[i].is \in {"key", "scalar", "string", "text", "item", "name", "dim", "tensorOffset"}
  PROVE  Taken(h, i)
BY DEF Taken, Lengths

LEMMA WithinEntry ==
  ASSUME NEW i, Reads(i), next.is # "rest", NEW is \in Kinds, Judged(fields, i + 1, is),
         NEW w, FieldIs(fields, i + 1, is, w), w > 0 \/ is \in Bytes, Go(is, w),
         todo' \in Todo, todo'.kvs = todo.kvs, todo'.tensors = todo.tensors,
         \/ next.is \in InEntry \cup {"keyLength"} /\ is \in InEntry
         \/ next.is \in InTensor \cup {"nameLength"} /\ is \in InTensor,
         ItemsLeft(fields, i + 1, next', todo'), DimsLeft(fields, i + 1, is, todo')
  PROVE  Result
<1>1. /\ CursorTyped' /\ outcome' = "reading" /\ next'.is = is
      /\ i \in 1 .. Len(fields) /\ i + 1 \in 1 .. Len(fields)
      /\ Stands(fields, i + 1, offset', next')
  BY GoNext
<1>2. fields[i].is = next.is
  BY FieldAt DEF Reads
<1>3. EntriesLeft(fields, i, fields[i].is, todo)
  BY <1>2 DEF Reads, At
<1>4. EntriesLeft(fields, i + 1, is, todo')
  BY <1>1, <1>2, <1>3, EntriesLeftStep, Typing
<1>5. At(fields, i + 1, offset', next', todo')
  BY <1>1, <1>4 DEF At
<1> QED
  BY <1>1, <1>5 DEF Result

(* A length and its string. *)
LEMMA TextStep ==
  ASSUME NEW i, Reads(i), NEW length, NEW bytes, next.is = length, Text(length, bytes),
         \/ length = "keyLength" /\ bytes = "key"
         \/ length = "stringLength" /\ bytes = "string"
         \/ length = "nameLength" /\ bytes = "name"
  PROVE  Result
<1>1. next.is \notin Bytes /\ next.is # "rest" /\ bytes \in Kinds /\ bytes \in Bytes
  BY DEF Bytes, Kinds
<1>2. /\ i \in 1 .. Len(fields) /\ fields[i].is = length
      /\ Value = fields[i].n /\ Value \in Nat
  BY <1>1, FieldAt, ValueAt DEF Reads
<1>3. CASE Value <= MaxSafe /\ Go(bytes, Value) /\ UNCHANGED todo
  <2>1. Taken(fields, i)
    BY <1>2, <1>3 DEF Taken
  <2>2. TakenTo(fields, i) /\ After(fields, i)
    BY <2>1, Judges
  <2>3. FieldIs(fields, i + 1, bytes, Value)
    BY <1>2, <2>2 DEF After
  <2>4. (i + 1) - 1 = i
    BY <1>2
  <2>5. Judged(fields, i + 1, bytes)
    BY <2>2, <2>4 DEF Judged
  <2>6. next'.is = bytes
    BY <1>3 DEF Go
  <2>7. ItemsLeft(fields, i + 1, next', todo') /\ DimsLeft(fields, i + 1, bytes, todo')
    BY <2>6 DEF ItemsLeft, DimsLeft
  <2>8. \/ next.is \in InEntry \cup {"keyLength"} /\ bytes \in InEntry
        \/ next.is \in InTensor \cup {"nameLength"} /\ bytes \in InTensor
    BY DEF InEntry, InTensor
  <2>9. todo' = todo /\ todo' \in Todo
    BY <1>3, Typing
  <2> QED
    BY <1>1, <1>3, <2>3, <2>5, <2>7, <2>8, <2>9, WithinEntry
<1>4. CASE Value > MaxSafe /\ Fail("implausible")
  <2>1. ~Taken(fields, i)
    BY <1>2, <1>4, Limits DEF Taken, Lengths
  <2>2. ~Sound
    BY <1>2, <2>1, NotSound DEF Reads, IInv
  <2> QED
    BY <1>4, <2>2, Refuses DEF Refusals
<1> QED
  BY <1>3, <1>4 DEF Text

(* A key and a type, and a name. *)
LEMMA PlainStep ==
  ASSUME NEW i, Reads(i), NEW is \in Kinds, NEW w, w > 0, Go(is, w), UNCHANGED todo,
         \/ next.is = "key" /\ is = "type" /\ w = 4
         \/ next.is = "name" /\ is = "nDims" /\ w = 4
  PROVE  Result
<1>1. next.is # "rest" /\ i \in 1 .. Len(fields) /\ fields[i].is = next.is
  BY FieldAt DEF Reads
<1>2. Taken(fields, i)
  BY <1>1, OthersAreTaken
<1>3. TakenTo(fields, i) /\ After(fields, i)
  BY <1>2, Judges
<1>4. FieldIs(fields, i + 1, is, w)
  BY <1>1, <1>3 DEF After
<1>5. (i + 1) - 1 = i
  BY <1>1
<1>6. Judged(fields, i + 1, is)
  BY <1>3, <1>5 DEF Judged
<1>7. next'.is = is
  BY DEF Go
<1>8. ItemsLeft(fields, i + 1, next', todo') /\ DimsLeft(fields, i + 1, is, todo')
  BY <1>7 DEF ItemsLeft, DimsLeft
<1>9. \/ next.is \in InEntry \cup {"keyLength"} /\ is \in InEntry
      \/ next.is \in InTensor \cup {"nameLength"} /\ is \in InTensor
  BY DEF InEntry, InTensor
<1>10. todo' = todo /\ todo' \in Todo
  BY Typing
<1> QED
  BY <1>1, <1>4, <1>6, <1>8, <1>9, <1>10, WithinEntry

(* The type of a value. *)
LEMMA TypeStep ==
  ASSUME NEW i, Reads(i), next.is = "type", Metadata
  PROVE  Result
<1>1. next.is \notin Bytes /\ next.is # "rest"
  BY DEF Bytes
<1>2. /\ i \in 1 .. Len(fields) /\ fields[i].is = "type"
      /\ Value = fields[i].n /\ Value \in Nat
  BY <1>1, FieldAt, ValueAt DEF Reads
<1>3. ASSUME NEW is \in {"stringLength", "itemType", "scalar"}, NEW w, Go(is, w), UNCHANGED todo,
             \/ Value = String /\ is = "stringLength" /\ w = 8
             \/ Value = Array /\ is = "itemType" /\ w = 4
             \/ Value \in DOMAIN ScalarWidth /\ is = "scalar" /\ w = ScalarWidth[Value]
      PROVE  Result
  <2>1. Taken(fields, i)
    BY <1>2, <1>3 DEF Taken, Lengths
  <2>2. TakenTo(fields, i) /\ After(fields, i)
    BY <1>1, <1>2, <2>1, Judges
  <2>3. FieldIs(fields, i + 1, is, w)
    BY <1>2, <1>3, <2>2 DEF After
  <2>4. w > 0
    BY <1>3, WidthsOfScalars
  <2>5. (i + 1) - 1 = i
    BY <1>2
  <2>6. Judged(fields, i + 1, is)
    BY <2>2, <2>5 DEF Judged
  <2>7. next'.is = is
    BY <1>3 DEF Go
  <2>8. ItemsLeft(fields, i + 1, next', todo') /\ DimsLeft(fields, i + 1, is, todo')
    BY <2>7 DEF ItemsLeft, DimsLeft
  <2>9. next.is \in InEntry \cup {"keyLength"} /\ is \in InEntry /\ is \in Kinds
    BY DEF InEntry, Kinds
  <2>10. todo' = todo /\ todo' \in Todo
    BY <1>3, Typing
  <2> QED
    BY <1>1, <1>3, <2>3, <2>4, <2>6, <2>8, <2>9, <2>10, WithinEntry
<1>4. CASE Value \notin DOMAIN ScalarWidth \cup {String, Array} /\ Fail("not scalar")
  <2>1. ~Sound
    BY <1>2, <1>4, NotSound DEF Taken, Reads, IInv
  <2> QED
    BY <1>4, <2>1, Refuses DEF Refusals
<1>5. \/ Value = String /\ Go("stringLength", 8) /\ UNCHANGED todo
      \/ Value = Array /\ Go("itemType", 4) /\ UNCHANGED todo
      \/ Value \in DOMAIN ScalarWidth /\ Go("scalar", ScalarWidth[Value]) /\ UNCHANGED todo
      \/ Value \notin DOMAIN ScalarWidth \cup {String, Array} /\ Fail("not scalar")
  BY DEF Metadata, Text, Read
<1> QED
  BY <1>3, <1>4, <1>5

(* The fields before the entries. *)
LEMMA OpeningStep ==
  ASSUME NEW i, Reads(i), next.is \in {"magic", "version"}, Preamble
  PROVE  Result
<1>1. next.is \notin Bytes /\ next.is # "rest"
  BY DEF Bytes
<1>2. /\ i \in 1 .. Len(fields) /\ fields[i].is = next.is
      /\ Value = fields[i].n /\ Value \in Nat
  BY <1>1, FieldAt, ValueAt DEF Reads
<1>3. ASSUME NEW is \in {"version", "tensorCount"}, NEW w \in {4, 8}, Go(is, w), UNCHANGED todo,
             \/ next.is = "magic" /\ is = "version" /\ w = 4 /\ Value = Magic
             \/ next.is = "version" /\ is = "tensorCount" /\ w = 8 /\ Value \in {2, 3}
      PROVE  Result
  <2>1. Taken(fields, i)
    BY <1>2, <1>3 DEF Taken, Lengths
  <2>2. TakenTo(fields, i) /\ After(fields, i)
    BY <1>3, <2>1, Judges
  <2>3. FieldIs(fields, i + 1, is, w)
    BY <1>2, <1>3, <2>2 DEF After
  <2>4. (i + 1) - 1 = i
    BY <1>2
  <2>5. Judged(fields, i + 1, is)
    BY <2>2, <2>4 DEF Judged
  <2>6. is \in Kinds /\ w > 0
    BY <1>3 DEF Kinds
  <2>7. todo' \in Todo
    BY <1>3, Typing
  <2>8. /\ CursorTyped' /\ outcome' = "reading" /\ next'.is = is
        /\ i + 1 \in 1 .. Len(fields) /\ Stands(fields, i + 1, offset', next')
    BY <1>1, <1>3, <2>3, <2>6, <2>7, GoNext
  <2>9. EntriesLeft(fields, i + 1, is, todo')
    BY DEF EntriesLeft, InEntry, InTensor
  <2>10. ItemsLeft(fields, i + 1, next', todo') /\ DimsLeft(fields, i + 1, is, todo')
    BY <2>8 DEF ItemsLeft, DimsLeft
  <2> QED
    BY <2>5, <2>8, <2>9, <2>10 DEF At, Result
<1>4. ASSUME ~Taken(fields, i), NEW why \in Refusals, Fail(why) PROVE Result
  <2>1. ~Sound
    BY <1>2, <1>4, NotSound DEF Reads, IInv
  <2> QED
    BY <1>4, <2>1, Refuses
<1>5. \/ next.is = "magic" /\ Value = Magic /\ Go("version", 4) /\ UNCHANGED todo
      \/ next.is = "magic" /\ Value # Magic /\ Fail("not GGUF")
      \/ next.is = "version" /\ Value \in {2, 3} /\ Go("tensorCount", 8) /\ UNCHANGED todo
      \/ next.is = "version" /\ Value \notin {2, 3} /\ Fail("version")
  BY DEF Preamble, Read
<1>6. ASSUME next.is = "magic", Value # Magic, Fail("not GGUF") PROVE Result
  <2>1. ~Taken(fields, i)
    BY <1>2, <1>6 DEF Taken
  <2> QED
    BY <1>4, <1>6, <2>1 DEF Refusals
<1>7. ASSUME next.is = "version", Value \notin {2, 3}, Fail("version") PROVE Result
  <2>1. ~Taken(fields, i)
    BY <1>2, <1>7 DEF Taken
  <2> QED
    BY <1>4, <1>7, <2>1 DEF Refusals
<1> QED
  BY <1>3, <1>5, <1>6, <1>7

LEMMA TensorCountStep ==
  ASSUME NEW i, Reads(i), next.is = "tensorCount", Preamble
  PROVE  Result
<1>1. next.is \notin Bytes /\ next.is # "rest"
  BY DEF Bytes
<1>2. /\ i \in 1 .. Len(fields) /\ fields[i].is = "tensorCount"
      /\ Value = fields[i].n /\ Value \in Nat
  BY <1>1, FieldAt, ValueAt DEF Reads
<1>3. todo' = [todo EXCEPT !.tensors = Value] /\ Go("kvCount", 8)
  BY DEF Preamble, Read
<1>4. TakenTo(fields, i - 1)
  BY <1>2 DEF Reads, At, Judged
<1>5. After(fields, i)
  BY <1>2, <1>4, Follows, Typing DEF Late
<1>6. /\ FieldIs(fields, i + 1, "kvCount", 8)
      /\ Value <= MaxSafe => Value = Left(fields, i + 1, "nameLength")
  BY <1>2, <1>5 DEF After
<1>7. (i + 1) - 1 = i /\ (i + 1) - 2 = i - 1 /\ i + 1 > 1
  BY <1>2
<1>8. Judged(fields, i + 1, "kvCount")
  BY <1>2, <1>4, <1>7 DEF Judged, Late
<1>9. todo \in Todo
  BY Typing
<1>10. todo' \in Todo /\ todo'.tensors = Value
  BY <1>2, <1>3, <1>9 DEF Todo
<1>11. "kvCount" \in Kinds
  BY DEF Kinds
<1>12. /\ CursorTyped' /\ outcome' = "reading" /\ next'.is = "kvCount"
       /\ i + 1 \in 1 .. Len(fields) /\ Stands(fields, i + 1, offset', next')
  BY <1>1, <1>3, <1>6, <1>10, <1>11, GoNext
<1>13. EntriesLeft(fields, i + 1, "kvCount", todo')
  BY <1>2, <1>6, <1>7, <1>10 DEF EntriesLeft, InEntry, InTensor
<1>14. ItemsLeft(fields, i + 1, next', todo') /\ DimsLeft(fields, i + 1, "kvCount", todo')
  BY <1>12 DEF ItemsLeft, DimsLeft
<1> QED
  BY <1>8, <1>12, <1>13, <1>14 DEF At, Result

(* A field judged late is judged with the field after it. *)
LEMMA JudgesBoth ==
  ASSUME NEW i, Reads(i), i > 1, next.is \in {"kvCount", "length", "tensorOffset"},
         Taken(fields, i - 1), Taken(fields, i)
  PROVE  TakenTo(fields, i) /\ After(fields, i)
<1>1. i \in 1 .. Len(fields)
  BY FieldAt DEF Reads
<1>2. TakenTo(fields, i - 1)
  <2>1. CASE TakenTo(fields, i - 2)
    <3>1. (i - 1) - 1 = i - 2 /\ i - 1 \in Nat \ {0}
      BY <1>1
    <3> QED
      BY <2>1, <3>1, TakenOneMore
  <2> QED
    BY <2>1 DEF Reads, At, Judged
<1>3. TakenTo(fields, i)
  BY <1>1, <1>2, TakenOneMore
<1> QED
  BY <1>1, <1>3, Follows, Typing

LEMMA KvCountStep ==
  ASSUME NEW i, Reads(i), next.is = "kvCount", Preamble
  PROVE  Result
<1>1. next.is \notin Bytes /\ next.is # "rest"
  BY DEF Bytes
<1>2. /\ i \in 1 .. Len(fields) /\ fields[i].is = "kvCount" /\ End = EndOf(fields, i)
      /\ Value = fields[i].n /\ Value \in Nat
  BY <1>1, FieldAt, ValueAt DEF Reads
<1>3. /\ i > 1 /\ i - 1 \in 1 .. Len(fields) /\ fields[i - 1].is = "tensorCount"
      /\ todo.tensors = fields[i - 1].n
      /\ todo.tensors <= MaxSafe => todo.tensors = Left(fields, i, "nameLength")
  BY <1>2 DEF Reads, At, EntriesLeft
<1>4. \/ /\ todo.tensors <= MaxSafe /\ Value <= MaxSafe
         /\ NextEntry([todo EXCEPT !.kvs = Value])
      \/ /\ todo.tensors > MaxSafe \/ Value > MaxSafe
         /\ Fail("implausible")
  BY DEF Preamble, Read
<1>5. ASSUME todo.tensors <= MaxSafe, Value <= MaxSafe, NextEntry([todo EXCEPT !.kvs = Value])
      PROVE  Result
  <2>1. Taken(fields, i - 1) /\ Taken(fields, i)
    BY <1>2, <1>3, <1>5 DEF Taken
  <2>2. TakenTo(fields, i) /\ After(fields, i)
    BY <1>3, <2>1, JudgesBoth
  <2>3. EntryAfter(fields, i) /\ Value = Left(fields, i + 1, "keyLength")
    BY <1>2, <2>2 DEF After
  <2>4. Left(fields, i + 1, "nameLength") = Left(fields, i, "nameLength")
    BY <1>2, LeftStep, Typing
  <2>5. todo \in Todo
    BY Typing
  <2>6. /\ [todo EXCEPT !.kvs = Value] \in Todo /\ [todo EXCEPT !.kvs = Value].kvs = Value
        /\ [todo EXCEPT !.kvs = Value].tensors = todo.tensors
    BY <1>2, <2>5 DEF Todo
  <2> QED
    BY <1>2, <1>3, <1>5, <2>2, <2>3, <2>4, <2>6, EntryIsOver
<1>6. ASSUME todo.tensors > MaxSafe \/ Value > MaxSafe, Fail("implausible") PROVE Result
  <2>1. \E j \in 1 .. Len(fields) : ~Taken(fields, j)
    <3>1. todo.tensors \in Nat
      BY Typing DEF Todo
    <3>2. ~Taken(fields, i - 1) \/ ~Taken(fields, i)
      BY <1>2, <1>3, <1>6, <3>1, Limits DEF Taken, Lengths
    <3> QED
      BY <1>2, <1>3, <3>2
  <2>2. ~Sound
    BY <2>1, NotSound DEF Reads, IInv
  <2> QED
    BY <1>6, <2>2, Refuses DEF Refusals
<1> QED
  BY <1>4, <1>5, <1>6

(* A value, other than an array. *)
LEMMA ValueStep ==
  ASSUME NEW i, Reads(i), next.is \in {"string", "scalar"}, Metadata
  PROVE  Result
<1>1. next.is # "rest"
  OBVIOUS
<1>2. i \in 1 .. Len(fields) /\ fields[i].is = next.is /\ End = EndOf(fields, i)
  BY <1>1, FieldAt DEF Reads
<1>3. TakenTo(fields, i) /\ After(fields, i)
  BY <1>2, OthersAreTaken, Judges
<1>4. EntryAfter(fields, i)
  BY <1>2, <1>3 DEF After
<1>5. /\ todo.kvs = Left(fields, i, "keyLength") + 1
      /\ todo.tensors = Left(fields, i, "nameLength")
  BY DEF Reads, At, EntriesLeft, InEntry
<1>6. /\ Left(fields, i + 1, "nameLength") = Left(fields, i, "nameLength")
      /\ Left(fields, i + 1, "keyLength") = Left(fields, i, "keyLength")
      /\ Left(fields, i, "keyLength") \in Nat
  BY <1>2, LeftStep, Typing
<1>7. todo \in Todo
  BY Typing
<1>8. /\ [todo EXCEPT !.kvs = @ - 1] \in Todo
      /\ [todo EXCEPT !.kvs = @ - 1].kvs = Left(fields, i + 1, "keyLength")
      /\ [todo EXCEPT !.kvs = @ - 1].tensors = todo.tensors
  BY <1>5, <1>6, <1>7 DEF Todo
<1>9. NextEntry([todo EXCEPT !.kvs = @ - 1])
  BY DEF Metadata, Text, Read, ValueIsRead
<1> QED
  BY <1>2, <1>3, <1>4, <1>5, <1>6, <1>8, <1>9, EntryIsOver

LEMMA ItemTypeStep ==
  ASSUME NEW i, Reads(i), next.is = "itemType", Items
  PROVE  Result
<1>1. next.is \notin Bytes /\ next.is # "rest"
  BY DEF Bytes
<1>2. /\ i \in 1 .. Len(fields) /\ fields[i].is = "itemType"
      /\ Value = fields[i].n /\ Value \in Nat
  BY <1>1, FieldAt, ValueAt DEF Reads
<1>3. todo' = [todo EXCEPT !.itemType = Value] /\ Go("length", 8)
  BY DEF Items, Text, Read
<1>4. TakenTo(fields, i - 1)
  BY <1>2 DEF Reads, At, Judged
<1>5. After(fields, i)
  BY <1>2, <1>4, Follows, Typing DEF Late
<1>6. FieldIs(fields, i + 1, "length", 8)
  BY <1>2, <1>5 DEF After
<1>7. (i + 1) - 1 = i /\ (i + 1) - 2 = i - 1
  BY <1>2
<1>8. i + 1 > 2
  <2>1. fields[1].is = "magic"
    BY Typing DEF Header, LaidOut, FieldIs
  <2> QED
    BY <1>2, <2>1
<1>9. Judged(fields, i + 1, "length")
  BY <1>2, <1>4, <1>7 DEF Judged, Late
<1>10. todo \in Todo
  BY Typing
<1>11. /\ todo' \in Todo /\ todo'.itemType = Value
       /\ todo'.kvs = todo.kvs /\ todo'.tensors = todo.tensors
  BY <1>2, <1>3, <1>10 DEF Todo
<1>12. next'.is = "length"
  BY <1>3 DEF Go
<1>13. ItemsLeft(fields, i + 1, next', todo') /\ DimsLeft(fields, i + 1, "length", todo')
  BY <1>2, <1>7, <1>8, <1>11, <1>12 DEF ItemsLeft, DimsLeft
<1>14. "length" \in Kinds /\ next.is \in InEntry /\ "length" \in InEntry
  BY DEF Kinds, InEntry
<1> QED
  BY <1>1, <1>3, <1>6, <1>9, <1>11, <1>13, <1>14, WithinEntry

(* The reader is in an array, at field i of its entry. *)
LEMMA InArray ==
  ASSUME NEW i, Reads(i), next.is \in InEntry \ {"rest"}
  PROVE  /\ todo.kvs = Left(fields, i + 1, "keyLength") + 1 /\ Left(fields, i + 1, "keyLength") \in Nat
         /\ todo.tensors = Left(fields, i + 1, "nameLength")
<1>1. i \in 1 .. Len(fields) /\ fields[i].is = next.is
  BY FieldAt DEF Reads
<1>2. /\ todo.kvs = Left(fields, i, "keyLength") + 1
      /\ todo.tensors = Left(fields, i, "nameLength")
  BY DEF Reads, At, EntriesLeft
<1>3. /\ Left(fields, i + 1, "nameLength") = Left(fields, i, "nameLength")
      /\ Left(fields, i + 1, "keyLength") = Left(fields, i, "keyLength")
      /\ Left(fields, i, "keyLength") \in Nat
  <2>1. fields[i].is # "keyLength" /\ fields[i].is # "nameLength"
    BY <1>1 DEF InEntry
  <2> QED
    BY <1>1, <2>1, LeftStep, Typing
<1> QED
  BY <1>2, <1>3

LEMMA TakenBefore ==
  ASSUME NEW h, NEW i \in Nat, NEW a \in 0 .. i, TakenTo(h, i)
  PROVE  TakenTo(h, a)
BY DEF TakenTo

(* The next string of an array, or its end. *)
LEMMA NextTextStep ==
  ASSUME NEW i, Reads(i), next.is \in {"length", "text"}, TakenTo(fields, i),
         NEW a \in 2 .. Len(fields), fields[a].is = "length", fields[a - 1].n = String,
         ItemsAfter(fields, a), NEW t \in Todo, t.itemType = String,
         t.items \in 0 .. fields[a].n, i = a + 2 * (fields[a].n - t.items),
         t.kvs = todo.kvs, t.tensors = todo.tensors, NextText(t)
  PROVE  Result
<1>1. next.is \in InEntry /\ next.is # "rest" /\ next.is \in InEntry \ {"rest"}
  BY DEF InEntry
<1>2. /\ i \in 1 .. Len(fields) /\ End = EndOf(fields, i)
  BY <1>1, FieldAt DEF Reads
<1>3. fields[a].n \in Nat
  <2>1. a \in 1 .. Len(fields)
    OBVIOUS
  <2> QED
    BY <2>1, FieldTyped, Typing
<1>4. CASE t.items > 0 /\ todo' = t /\ Go("itemLength", 8)
  <2> DEFINE k == fields[a].n - t.items + 1
  <2>1. k \in 1 .. fields[a].n /\ a + 2 * k - 1 = i + 1
    <3>1. t.items \in 1 .. fields[a].n /\ t.items \in Nat
      BY <1>3, <1>4
    <3>2. a \in Nat /\ i = a + 2 * (fields[a].n - t.items)
      OBVIOUS
    <3> QED
      BY <1>3, <3>1, <3>2
  <2>2. FieldIs(fields, a + 2 * k - 1, "itemLength", 8)
    <3> HIDE DEF k
    <3> QED
      BY <2>1 DEF ItemsAfter
  <2>3. FieldIs(fields, i + 1, "itemLength", 8)
    BY <2>1, <2>2
  <2>4. (i + 1) - 1 = i
    BY <1>2
  <2>5. Judged(fields, i + 1, "itemLength")
    BY <2>4 DEF Judged
  <2>6. TakenTo(fields, a)
    BY <1>2, <1>3, TakenBefore
  <2>7. next'.is = "itemLength"
    BY <1>4 DEF Go
  <2>8. TextsFrom(fields, a, i + 1, "itemLength", todo')
    BY <1>2, <1>3, <1>4, <2>6 DEF TextsFrom
  <2>9. ItemsLeft(fields, i + 1, next', todo') /\ DimsLeft(fields, i + 1, "itemLength", todo')
    BY <2>7, <2>8 DEF ItemsLeft, DimsLeft
  <2>10. "itemLength" \in Kinds /\ "itemLength" \in InEntry
    BY DEF Kinds, InEntry
  <2> QED
    BY <1>1, <1>4, <2>3, <2>5, <2>9, <2>10, WithinEntry
<1>5. CASE t.items = 0 /\ NextEntry([t EXCEPT !.kvs = @ - 1])
  <2>1. i = a + 2 * fields[a].n
    BY <1>3, <1>5
  <2>2. EntryAfter(fields, i)
    BY <2>1 DEF ItemsAfter
  <2>3. /\ todo.kvs = Left(fields, i + 1, "keyLength") + 1
        /\ Left(fields, i + 1, "keyLength") \in Nat
        /\ todo.tensors = Left(fields, i + 1, "nameLength")
    BY <1>1, InArray
  <2>4. /\ [t EXCEPT !.kvs = @ - 1] \in Todo
        /\ [t EXCEPT !.kvs = @ - 1].kvs = Left(fields, i + 1, "keyLength")
        /\ [t EXCEPT !.kvs = @ - 1].tensors = todo.tensors
    <3>1. t.kvs - 1 \in Nat /\ t.kvs - 1 = Left(fields, i + 1, "keyLength")
      <4>1. ASSUME NEW n \in Nat, t.kvs = n + 1 PROVE t.kvs - 1 = n
        BY <4>1
      <4>2. t.kvs = Left(fields, i + 1, "keyLength") + 1
        BY <2>3
      <4> QED
        BY <2>3, <4>1, <4>2
    <3> QED
      BY <3>1 DEF Todo
  <2> QED
    BY <1>2, <1>5, <2>2, <2>3, <2>4, EntryIsOver
<1> QED
  BY <1>4, <1>5 DEF NextText

(* The next number of an array, or what is left of it. *)
LEMMA NextScalarStep ==
  ASSUME NEW i, Reads(i), next.is \in {"length", "item"}, TakenTo(fields, i),
         NEW a \in 2 .. Len(fields), fields[a].is = "length",
         fields[a - 1].n \in DOMAIN ScalarWidth, ItemsAfter(fields, a),
         NEW t \in Todo, t.itemType = fields[a - 1].n,
         t.items \in 0 .. fields[a].n, i = a + (fields[a].n - t.items),
         t.kvs = todo.kvs, t.tensors = todo.tensors, NextScalar(t)
  PROVE  Result
<1> DEFINE width == ScalarWidth[t.itemType]
<1>1. next.is \in InEntry /\ next.is # "rest" /\ next.is \in InEntry \ {"rest"}
  BY DEF InEntry
<1>2. i \in 1 .. Len(fields) /\ End = EndOf(fields, i) /\ fields[i].is = next.is
  BY <1>1, FieldAt DEF Reads
<1>3. fields[a].n \in Nat
  <2>1. a \in 1 .. Len(fields)
    OBVIOUS
  <2> QED
    BY <2>1, FieldTyped, Typing
<1>4. width \in Nat \ {0}
  BY WidthsOfScalars
<1>5. (i + 1) - 1 = i /\ i + 1 \in 2 .. Len(fields) + 1 /\ i + 1 \in 1 .. Len(fields) + 1
  <2>1. Len(fields) \in Nat
    BY Typing
  <2>2. i \in 1 .. Len(fields)
    BY <1>2
  <2> HIDE DEF width
  <2> QED
    BY <2>1, <2>2
<1>6. TakenTo(fields, a)
  BY <1>2, <1>3, TakenBefore
<1>7. todo' = t
  BY DEF NextScalar
<1>8. CASE t.items > 0 /\ Go("item", width)
  <2> DEFINE k == fields[a].n - t.items + 1
  <2>1. k \in 1 .. fields[a].n /\ a + k = i + 1
    BY <1>3, <1>8
  <2>2. FieldIs(fields, a + k, "item", width)
    <3> HIDE DEF k
    <3> QED
      BY <2>1 DEF ItemsAfter
  <2>3. FieldIs(fields, i + 1, "item", width)
    BY <2>1, <2>2
  <2>4. Judged(fields, i + 1, "item")
    BY <1>5 DEF Judged
  <2>5. next'.is = "item"
    BY <1>8 DEF Go
  <2>6. NumbersFrom(fields, a, i + 1, next', todo')
    BY <1>2, <1>3, <1>6, <1>7, <1>8, <2>5 DEF NumbersFrom
  <2>7. ItemsLeft(fields, i + 1, next', todo') /\ DimsLeft(fields, i + 1, "item", todo')
    BY <2>5, <2>6 DEF ItemsLeft, DimsLeft
  <2>8. "item" \in Kinds /\ "item" \in InEntry
    BY DEF Kinds, InEntry
  <2> HIDE DEF width
  <2>9. width > 0
    BY <1>4
  <2> QED
    BY <1>1, <1>7, <1>8, <2>3, <2>4, <2>7, <2>8, <2>9, WithinEntry
<1>9. CASE Go("rest", t.items * width)
  <2>1. t.items * width \in Nat
    BY <1>3, <1>4
  <2>2. /\ CursorTyped' /\ outcome' = "reading" /\ offset' = End
        /\ next'.is = "rest" /\ next'.width = t.items * width
    <3> HIDE DEF width
    <3> QED
      BY <1>7, <1>9, <2>1, GoTyped
  <2>3. Stands(fields, i + 1, offset', next')
    BY <1>2, <1>5, <2>2 DEF Stands
  <2>4. Judged(fields, i + 1, "rest")
    BY <1>5 DEF Judged
  <2>5. EntriesLeft(fields, i, fields[i].is, todo)
    BY <1>2 DEF Reads, At
  <2>6. EntriesLeft(fields, i + 1, "rest", todo')
    <3>1. "rest" \in InEntry /\ fields[i].is \in InEntry \cup {"keyLength"}
      BY <1>1, <1>2 DEF InEntry
    <3> QED
      BY <1>2, <1>7, <2>5, <3>1, EntriesLeftStep, Typing
  <2>7. NumbersFrom(fields, a, i + 1, next', todo')
    BY <1>2, <1>3, <1>6, <1>7, <2>2 DEF NumbersFrom
  <2>8. ItemsLeft(fields, i + 1, next', todo') /\ DimsLeft(fields, i + 1, "rest", todo')
    BY <2>2, <2>7 DEF ItemsLeft, DimsLeft
  <2> QED
    BY <1>5, <2>2, <2>3, <2>4, <2>6, <2>8 DEF At, Result
<1> QED
  BY <1>8, <1>9 DEF NextScalar

LEMMA LengthStep ==
  ASSUME NEW i, Reads(i), next.is = "length", Items
  PROVE  Result
<1>1. next.is \notin Bytes /\ next.is # "rest"
  BY DEF Bytes
<1>2. /\ i \in 1 .. Len(fields) /\ fields[i].is = "length"
      /\ Value = fields[i].n /\ Value \in Nat
  BY <1>1, FieldAt, ValueAt DEF Reads
<1>3. /\ i \in 2 .. Len(fields) /\ i - 1 \in 1 .. Len(fields)
      /\ fields[i - 1].is = "itemType" /\ todo.itemType = fields[i - 1].n
  BY <1>2 DEF Reads, At, ItemsLeft
<1> DEFINE t == [todo EXCEPT !.items = Value, !.sampled = 0]
<1>4. t \in Todo /\ t.items = Value /\ t.itemType = todo.itemType
      /\ t.kvs = todo.kvs /\ t.tensors = todo.tensors
  <2>1. todo \in Todo
    BY Typing
  <2>2. PICK v \in Nat : v = Value
    BY <1>2
  <2>3. PICK none \in 0 .. ArraySample : none = 0
    BY DEF ArraySample
  <2> DEFINE u == [todo EXCEPT !.items = v]
  <2>4. u \in Todo /\ u.items = v
    BY <2>1 DEF Todo
  <2>5. u.itemType = todo.itemType /\ u.kvs = todo.kvs /\ u.tensors = todo.tensors
    BY <2>1 DEF Todo
  <2>6. t = [u EXCEPT !.sampled = none]
    BY <2>2, <2>3
  <2> HIDE DEF t, u
  <2>7. t \in Todo /\ t.items = v
    BY <2>4, <2>6 DEF Todo
  <2>8. t.itemType = u.itemType /\ t.kvs = u.kvs /\ t.tensors = u.tensors
    BY <2>4, <2>6 DEF Todo
  <2> QED
    BY <2>2, <2>5, <2>7, <2>8
<1>5. \/ Value <= MaxSafe /\ ItemsBegin(t)
      \/ Value > MaxSafe /\ Fail("implausible")
  BY DEF Items, Text, Read
<1> HIDE DEF t
<1>6. ASSUME NEW j \in 1 .. Len(fields), ~Taken(fields, j), NEW why \in Refusals, Fail(why)
      PROVE  Result
  <2>1. ~Sound
    BY <1>6, NotSound DEF Reads, IInv
  <2> QED
    BY <1>6, <2>1, Refuses
<1>7. CASE Value > MaxSafe /\ Fail("implausible")
  <2>1. ~Taken(fields, i)
    BY <1>2, <1>7, Limits DEF Taken, Lengths
  <2> QED
    BY <1>2, <1>6, <1>7, <2>1 DEF Refusals
<1>8. CASE t.itemType = Array /\ Fail("nested")
  <2>1. ~Taken(fields, i - 1)
    BY <1>3, <1>4, <1>8, WidthsOfScalars DEF Taken, Array, String
  <2> QED
    BY <1>3, <1>6, <1>8, <2>1 DEF Refusals
<1>9. CASE t.itemType \notin DOMAIN ScalarWidth \cup {String, Array} /\ Fail("item type")
  <2>1. ~Taken(fields, i - 1)
    BY <1>3, <1>4, <1>9 DEF Taken
  <2> QED
    BY <1>3, <1>6, <1>9, <2>1 DEF Refusals
<1>10. ASSUME Value <= MaxSafe, t.itemType \in DOMAIN ScalarWidth \cup {String}
       PROVE  TakenTo(fields, i) /\ ItemsAfter(fields, i)
  <2>1. Taken(fields, i - 1) /\ Taken(fields, i)
    BY <1>2, <1>3, <1>4, <1>10 DEF Taken, Lengths
  <2>2. TakenTo(fields, i) /\ After(fields, i)
    BY <1>3, <2>1, JudgesBoth
  <2> QED
    BY <1>2, <2>2 DEF After
<1>11. t.items \in 0 .. fields[i].n /\ fields[i].n - t.items = 0
  BY <1>2, <1>4
<1>12. i = i + 2 * (fields[i].n - t.items) /\ i = i + (fields[i].n - t.items)
  BY <1>2, <1>11
<1>13. CASE Value <= MaxSafe /\ t.itemType = String /\ NextText(t)
  <2>1. TakenTo(fields, i) /\ ItemsAfter(fields, i)
    BY <1>10, <1>13
  <2> QED
    BY <1>2, <1>3, <1>4, <1>11, <1>12, <1>13, <2>1, NextTextStep
<1>14. CASE Value <= MaxSafe /\ t.itemType \in DOMAIN ScalarWidth /\ NextScalar(t)
  <2>1. TakenTo(fields, i) /\ ItemsAfter(fields, i)
    BY <1>10, <1>14
  <2> QED
    BY <1>2, <1>3, <1>4, <1>11, <1>12, <1>14, <2>1, NextScalarStep
<1> QED
  BY <1>5, <1>7, <1>8, <1>9, <1>13, <1>14 DEF ItemsBegin

LEMMA ItemLengthStep ==
  ASSUME NEW i, Reads(i), next.is = "itemLength", Items
  PROVE  Result
<1>1. next.is \notin Bytes /\ next.is # "rest" /\ next.is \in InEntry
  BY DEF Bytes, InEntry
<1>2. /\ i \in 1 .. Len(fields) /\ fields[i].is = "itemLength"
      /\ Value = fields[i].n /\ Value \in Nat
  BY <1>1, FieldAt, ValueAt DEF Reads
<1>3. PICK a \in 2 .. Len(fields) : TextsFrom(fields, a, i, "itemLength", todo)
  BY DEF Reads, At, ItemsLeft
<1>4. \/ Go("text", Value) /\ UNCHANGED todo
      \/ Value > MaxSafe /\ Fail("implausible")
  BY DEF Items, Text, Read
<1>5. "text" \in Kinds /\ "text" \in InEntry /\ "text" \in Bytes
  BY DEF Kinds, InEntry, Bytes
<1>6. Value > MaxSafe => ~Sound
  <2>1. Value > MaxSafe => ~Taken(fields, i)
    BY <1>2, Limits DEF Taken, Lengths
  <2> QED
    BY <1>2, <2>1, NotSound DEF Reads, IInv
<1>7. CASE Value > MaxSafe /\ Fail("implausible")
  BY <1>6, <1>7, Refuses DEF Refusals
<1>8. CASE Value > MaxSafe /\ Go("text", Value) /\ UNCHANGED todo
  <2>1. todo' \in Todo
    BY <1>8, Typing
  <2>2. /\ CursorTyped' /\ outcome' = "reading" /\ offset' = End
        /\ next'.is = "text" /\ next'.width = Value
    BY <1>2, <1>5, <1>8, <2>1, GoTyped
  <2>3. offset' + next'.width > MaxSafe
    BY <1>2, <1>8, <2>2, Typing, Limits
  <2> QED
    BY <1>6, <1>8, <2>2, <2>3 DEF Result
<1>9. CASE Value <= MaxSafe /\ Go("text", Value) /\ UNCHANGED todo
  <2>1. Taken(fields, i)
    BY <1>2, <1>9 DEF Taken
  <2>2. TakenTo(fields, i) /\ After(fields, i)
    BY <1>1, <1>2, <2>1, Judges
  <2>3. FieldIs(fields, i + 1, "text", Value)
    BY <1>2, <2>2 DEF After
  <2>4. (i + 1) - 1 = i
    BY <1>2
  <2>5. Judged(fields, i + 1, "text")
    BY <2>2, <2>4 DEF Judged
  <2>6. todo' = todo /\ todo' \in Todo
    BY <1>9, Typing
  <2>7. TextsFrom(fields, a, i + 1, "text", todo')
    <3>1. a \in 1 .. Len(fields)
      OBVIOUS
    <3>2. fields[a].n \in Nat
      BY <3>1, FieldTyped, Typing
    <3> QED
      BY <1>2, <1>3, <2>6, <3>2 DEF TextsFrom
  <2>8. next'.is = "text"
    BY <1>9 DEF Go
  <2>9. ItemsLeft(fields, i + 1, next', todo') /\ DimsLeft(fields, i + 1, "text", todo')
    BY <2>7, <2>8 DEF ItemsLeft, DimsLeft
  <2> QED
    BY <1>1, <1>5, <1>9, <2>3, <2>5, <2>6, <2>9, WithinEntry
<1> QED
  BY <1>2, <1>4, <1>7, <1>8, <1>9, Limits

LEMMA OneLess ==
  ASSUME todo \in Todo, todo.items > 0
  PROVE  /\ OneItemLess \in Todo /\ OneItemLess.items = todo.items - 1
         /\ OneItemLess.itemType = todo.itemType
         /\ OneItemLess.kvs = todo.kvs /\ OneItemLess.tensors = todo.tensors
<1>1. todo.sampled \in 0 .. 4 /\ todo.items - 1 \in Nat
  BY DEF Todo, ArraySample
<1>2. Min({todo.sampled + 1, ArraySample}) \in 0 .. ArraySample
  <2>1. Min({todo.sampled + 1, 4}) = IF todo.sampled + 1 <= 4 THEN todo.sampled + 1 ELSE 4
    BY <1>1, MinOfTwo
  <2> QED
    BY <1>1, <2>1 DEF ArraySample
<1> DEFINE s == Min({todo.sampled + 1, ArraySample})
<1>3. OneItemLess = [todo EXCEPT !.items = @ - 1, !.sampled = s]
  BY DEF OneItemLess
<1>4. s \in 0 .. ArraySample
  BY <1>2
<1> HIDE DEF s
<1> QED
  BY <1>1, <1>3, <1>4 DEF Todo

LEMMA TextOfItemStep ==
  ASSUME NEW i, Reads(i), next.is = "text", Items
  PROVE  Result
<1>1. next.is # "rest" /\ next.is \in InEntry
  BY DEF InEntry
<1>2. i \in 1 .. Len(fields) /\ fields[i].is = "text"
  BY <1>1, FieldAt DEF Reads
<1>3. TakenTo(fields, i)
  BY <1>2, OthersAreTaken, Judges
<1>4. PICK a \in 2 .. Len(fields) : TextsFrom(fields, a, i, "text", todo)
  BY DEF Reads, At, ItemsLeft
<1>5. /\ fields[a].is = "length" /\ fields[a - 1].n = String /\ ItemsAfter(fields, a)
      /\ todo.itemType = String /\ todo.items \in 1 .. fields[a].n
      /\ i = a + 2 * (fields[a].n - todo.items) + 2
  BY <1>4 DEF TextsFrom
<1>6. fields[a].n \in Nat
  <2>1. a \in 1 .. Len(fields)
    OBVIOUS
  <2> QED
    BY <2>1, FieldTyped, Typing
<1>7. todo \in Todo /\ todo.items > 0
  BY <1>5, Typing
<1>8. /\ OneItemLess \in Todo /\ OneItemLess.items = todo.items - 1
      /\ OneItemLess.itemType = String
      /\ OneItemLess.kvs = todo.kvs /\ OneItemLess.tensors = todo.tensors
  BY <1>5, <1>7, OneLess
<1>9. OneItemLess.items \in 0 .. fields[a].n /\ i = a + 2 * (fields[a].n - OneItemLess.items)
  BY <1>5, <1>6, <1>8
<1>10. NextText(OneItemLess)
  BY DEF Items, Text, Read
<1> QED
  BY <1>3, <1>5, <1>8, <1>9, <1>10, NextTextStep

LEMMA NumberOfItemStep ==
  ASSUME NEW i, Reads(i), next.is = "item", Items
  PROVE  Result
<1>1. next.is # "rest" /\ next.is \in InEntry
  BY DEF InEntry
<1>2. i \in 1 .. Len(fields) /\ fields[i].is = "item"
  BY <1>1, FieldAt DEF Reads
<1>3. TakenTo(fields, i)
  BY <1>2, OthersAreTaken, Judges
<1>4. PICK a \in 2 .. Len(fields) : NumbersFrom(fields, a, i, next, todo)
  BY DEF Reads, At, ItemsLeft
<1>5. /\ fields[a].is = "length" /\ fields[a - 1].n \in DOMAIN ScalarWidth /\ ItemsAfter(fields, a)
      /\ todo.itemType = fields[a - 1].n /\ todo.items \in 0 .. fields[a].n
      /\ i = a + (fields[a].n - todo.items) + 1 /\ todo.items > 0
  BY <1>4 DEF NumbersFrom
<1>6. fields[a].n \in Nat
  <2>1. a \in 1 .. Len(fields)
    OBVIOUS
  <2> QED
    BY <2>1, FieldTyped, Typing
<1>7. todo \in Todo
  BY Typing
<1>8. /\ OneItemLess \in Todo /\ OneItemLess.items = todo.items - 1
      /\ OneItemLess.itemType = fields[a - 1].n
      /\ OneItemLess.kvs = todo.kvs /\ OneItemLess.tensors = todo.tensors
  BY <1>5, <1>7, OneLess
<1>9. OneItemLess.items \in 0 .. fields[a].n /\ i = a + (fields[a].n - OneItemLess.items)
  BY <1>5, <1>6, <1>8
<1>10. NextScalar(OneItemLess)
  BY DEF Items, Text, Read
<1> QED
  BY <1>3, <1>5, <1>8, <1>9, <1>10, NextScalarStep

(* Where what is left of an array ends: at the end of its last number. *)
LEMMA RestEnds ==
  ASSUME IInv, NEW i \in 1 .. Len(fields) + 1, At(fields, i, offset, next, todo), next.is = "rest"
  PROVE  \E k \in i - 1 .. Len(fields) :
           /\ k \in 1 .. Len(fields) /\ End = EndOf(fields, k)
           /\ TakenTo(fields, k) /\ EntryAfter(fields, k)
           /\ \A j \in i .. k : fields[j].is = "item"
<1>1. Header(fields) /\ Len(fields) \in Nat /\ todo \in Todo /\ DOMAIN fields = 1 .. Len(fields)
  BY FileIsLaidOut DEF IInv
<1>2. i \in 2 .. Len(fields) + 1 /\ offset = EndOf(fields, i - 1)
  BY DEF At, Stands
<1>3. PICK a \in 2 .. Len(fields) : NumbersFrom(fields, a, i, next, todo)
  BY DEF At, ItemsLeft
<1> DEFINE n == fields[a].n
           m == todo.items
           w == ScalarWidth[todo.itemType]
           b == i - 1
<1>4. n \in Nat /\ a \in 1 .. Len(fields)
  BY <1>1, <1>3, FieldTyped
<1>5. /\ TakenTo(fields, a) /\ ItemsAfter(fields, a) /\ todo.itemType = fields[a - 1].n
      /\ todo.itemType \in DOMAIN ScalarWidth
      /\ m \in 0 .. n /\ i = a + (n - m) + 1 /\ next.width = m * w
  BY <1>3 DEF NumbersFrom
<1>6. w \in Nat
  BY <1>5, WidthsOfScalars
<1>7. m \in Nat /\ b \in 1 .. Len(fields) /\ b = a + (n - m) /\ b + m = a + n
  <2> HIDE DEF m, n
  <2>1. m \in Nat /\ m <= n
    BY <1>4, <1>5
  <2>2. i \in Nat /\ a \in Nat
    BY <1>1
  <2> QED
    BY <1>1, <1>2, <1>4, <1>5, <2>1, <2>2
<1> HIDE DEF w, m, n
<1>8. ASSUME NEW j \in 1 .. n PROVE FieldIs(fields, a + j, "item", w)
  BY <1>5 DEF ItemsAfter, n, w
<1>9. EntryAfter(fields, a + n)
  BY <1>5 DEF ItemsAfter, n
<1>10. a + n <= Len(fields)
  <2>1. CASE n = 0
    BY <1>4, <2>1
  <2>2. CASE n > 0
    <3>1. FieldIs(fields, a + n, "item", w)
      BY <1>4, <1>8, <2>2
    <3> QED
      BY <1>1, <3>1 DEF FieldIs
  <2> QED
    BY <1>4, <2>1, <2>2
<1>11. ASSUME NEW j \in a + 1 .. a + n PROVE fields[j].is = "item" /\ fields[j].width = w
  <2>1. j - a \in 1 .. n /\ a + (j - a) = j
    BY <1>4
  <2>2. FieldIs(fields, a + (j - a), "item", w)
    BY <1>8, <2>1
  <2> QED
    BY <2>1, <2>2 DEF FieldIs
<1>12. TakenTo(fields, a + n)
  <2> SUFFICES ASSUME NEW j \in 1 .. a + n PROVE Taken(fields, j)
    BY DEF TakenTo
  <2>1. CASE j <= a
    BY <1>4, <1>5, <2>1 DEF TakenTo
  <2>2. CASE j > a
    BY <1>4, <1>11, <2>2, OthersAreTaken
  <2> QED
    BY <1>4, <2>1, <2>2
<1>13. EndOf(fields, b + m) = EndOf(fields, b) + m * w
  <2>1. \A k \in 1 .. m : fields[b + k].width = w
    <3> SUFFICES ASSUME NEW k \in 1 .. m PROVE fields[b + k].width = w
      OBVIOUS
    <3>1. b + k \in a + 1 .. a + n
      BY <1>4, <1>5, <1>7
    <3> QED
      BY <1>11, <3>1
  <2> HIDE DEF b
  <2> QED
    BY <1>1, <1>6, <1>7, <1>10, <2>1, EvenFields
<1>14. End = EndOf(fields, a + n)
  BY <1>2, <1>5, <1>7, <1>13 DEF End
<1>15. a + n \in i - 1 .. Len(fields) /\ a + n \in 1 .. Len(fields)
  BY <1>1, <1>4, <1>5, <1>7, <1>10
<1>16. \A j \in i .. a + n : fields[j].is = "item"
  <2> SUFFICES ASSUME NEW j \in i .. a + n PROVE fields[j].is = "item"
    OBVIOUS
  <2>1. j \in a + 1 .. a + n
    <3> HIDE DEF b
    <3>1. a \in Nat /\ i = a + (n - m) + 1 /\ m \in Nat /\ n \in Nat /\ m <= n
      BY <1>4, <1>5, <1>7
    <3>2. i \in Nat /\ i >= a + 1
      BY <3>1
    <3> QED
      BY <3>1, <3>2
  <2> QED
    BY <1>11, <2>1
<1> QED
  BY <1>9, <1>12, <1>14, <1>15, <1>16

LEMMA RestStep ==
  ASSUME NEW i, Reads(i), next.is = "rest", Items
  PROVE  Result
<1>1. /\ IInv /\ i \in 1 .. Len(fields) + 1 /\ At(fields, i, offset, next, todo)
      /\ Header(fields) /\ Len(fields) \in Nat /\ todo \in Todo
  BY Typing DEF Reads
<1>2. PICK k \in i - 1 .. Len(fields) :
        /\ k \in 1 .. Len(fields) /\ End = EndOf(fields, k)
        /\ TakenTo(fields, k) /\ EntryAfter(fields, k)
        /\ \A j \in i .. k : fields[j].is = "item"
  BY <1>1, RestEnds
<1>3. /\ todo.kvs = Left(fields, i, "keyLength") + 1
      /\ todo.tensors = Left(fields, i, "nameLength")
  BY <1>1 DEF At, EntriesLeft, InEntry
<1>4. k + 1 \in i .. Len(fields) + 1 /\ (k + 1) - 1 = k
  BY <1>1, <1>2
<1>5. /\ Left(fields, k + 1, "keyLength") = Left(fields, i, "keyLength")
      /\ Left(fields, k + 1, "nameLength") = Left(fields, i, "nameLength")
  BY <1>1, <1>2, <1>4, LeftSame
<1>6. Left(fields, k + 1, "keyLength") \in Nat
  BY <1>1, <1>2, LeftStep
<1>7. /\ [todo EXCEPT !.kvs = @ - 1] \in Todo
      /\ [todo EXCEPT !.kvs = @ - 1].kvs = Left(fields, k + 1, "keyLength")
      /\ [todo EXCEPT !.kvs = @ - 1].tensors = todo.tensors
  <2>1. ASSUME NEW n \in Nat, todo.kvs = n + 1 PROVE todo.kvs - 1 = n
    BY <2>1
  <2>2. todo.kvs - 1 = Left(fields, k + 1, "keyLength")
    BY <1>3, <1>5, <1>6, <2>1
  <2>3. todo.kvs - 1 \in Nat
    BY <1>6, <2>2
  <2> QED
    BY <1>1, <2>2, <2>3 DEF Todo
<1>8. NextEntry([todo EXCEPT !.kvs = @ - 1])
  BY DEF Items, Text, Read, ValueIsRead
<1> QED
  BY <1>2, <1>3, <1>5, <1>7, <1>8, EntryIsOver

(* Of a loop of n turns, m are left: the next one is this. *)
LEMMA NextTurn ==
  ASSUME NEW a \in Nat, NEW n \in Nat, NEW m \in Nat, 1 <= m, m <= n
  PROVE  n - m + 1 \in 1 .. n /\ a + (n - m + 1) = a + (n - m) + 1
OBVIOUS

(* The next dimension of a tensor, or its type. *)
LEMMA NextDimStep ==
  ASSUME NEW i, Reads(i), next.is \in {"nDims", "dim"}, TakenTo(fields, i),
         NEW d \in 1 .. Len(fields), fields[d].is = "nDims", DimsAfter(fields, d),
         NEW t \in Todo, t.dims \in 0 .. fields[d].n, i = d + (fields[d].n - t.dims),
         t.row = IF i = d \/ fields[d].n = 0 THEN NoRow ELSE fields[d + 1].n,
         t.kvs = todo.kvs, t.tensors = todo.tensors, NextDim(t)
  PROVE  Result
<1>1. next.is \in InTensor /\ next.is # "rest"
  BY DEF InTensor
<1>2. i \in 1 .. Len(fields)
  BY <1>1, FieldAt DEF Reads
<1>3. fields[d].n \in Nat
  BY FieldTyped, Typing
<1>4. (i + 1) - 1 = i /\ (i + 1 = d + 1 <=> i = d)
  BY <1>2
<1>5. todo' = t
  BY DEF NextDim
<1>6. ASSUME NEW is \in {"dim", "tensorType"}, NEW w, w > 0, Go(is, w),
             FieldIs(fields, i + 1, is, w), DimsFrom(fields, d, i + 1, is, t)
      PROVE  Result
  <2>1. Judged(fields, i + 1, is)
    BY <1>4 DEF Judged
  <2>2. next'.is = is
    BY <1>6 DEF Go
  <2>3. ItemsLeft(fields, i + 1, next', todo') /\ DimsLeft(fields, i + 1, is, todo')
    BY <1>5, <1>6, <2>2 DEF ItemsLeft, DimsLeft
  <2>4. is \in Kinds /\ is \in InTensor
    BY DEF Kinds, InTensor
  <2> QED
    BY <1>1, <1>5, <1>6, <2>1, <2>3, <2>4, WithinEntry
<1>7. CASE t.dims > 0 /\ Go("dim", 8)
  <2> DEFINE n == fields[d].n
             m == t.dims
             k == n - m + 1
  <2>1. k \in 1 .. fields[d].n /\ d + k = i + 1
    <3>1. n \in Nat /\ m \in Nat /\ 1 <= m /\ m <= n /\ d \in Nat /\ i = d + (n - m)
      BY <1>3, <1>7
    <3> HIDE DEF n, m
    <3>2. k \in 1 .. n /\ d + k = d + (n - m) + 1
      BY <3>1, NextTurn
    <3> QED
      BY <3>1, <3>2 DEF n
  <2>2. FieldIs(fields, d + k, "dim", 8)
    <3> HIDE DEF k
    <3> QED
      BY <2>1 DEF DimsAfter
  <2>3. FieldIs(fields, i + 1, "dim", 8)
    BY <2>1, <2>2
  <2>4. DimsFrom(fields, d, i + 1, "dim", t)
    BY <1>2, <1>3, <1>4, <1>7 DEF DimsFrom
  <2> QED
    BY <1>6, <1>7, <2>3, <2>4
<1>8. CASE t.dims = 0 /\ Go("tensorType", 4)
  <2>1. i = d + fields[d].n
    BY <1>3, <1>8
  <2>2. FieldIs(fields, i + 1, "tensorType", 4)
    BY <2>1 DEF DimsAfter
  <2>3. DimsFrom(fields, d, i + 1, "tensorType", t)
    BY <1>2, <1>3, <1>4, <2>1 DEF DimsFrom
  <2> QED
    BY <1>6, <1>8, <2>2, <2>3
<1> QED
  BY <1>7, <1>8 DEF NextDim

LEMMA NDimsStep ==
  ASSUME NEW i, Reads(i), next.is = "nDims", Tensors
  PROVE  Result
<1>1. next.is \notin Bytes /\ next.is # "rest"
  BY DEF Bytes
<1>2. /\ i \in 1 .. Len(fields) /\ fields[i].is = "nDims"
      /\ Value = fields[i].n /\ Value \in Nat
  BY <1>1, FieldAt, ValueAt DEF Reads
<1> DEFINE t == [todo EXCEPT !.dims = Value, !.row = NoRow]
<1>3. \/ Value <= 4 /\ NextDim(t)
      \/ Value > 4 /\ Fail("dimensions")
  BY DEF Tensors, Text, Read
<1>4. CASE Value <= 4 /\ NextDim(t)
  <2>1. Taken(fields, i)
    BY <1>2, <1>4 DEF Taken, Lengths
  <2>2. TakenTo(fields, i) /\ After(fields, i)
    BY <1>1, <1>2, <2>1, Judges
  <2>3. DimsAfter(fields, i)
    BY <1>2, <2>2 DEF After
  <2>4. /\ t \in Todo /\ t.dims = Value /\ t.row = NoRow
        /\ t.kvs = todo.kvs /\ t.tensors = todo.tensors
    <3> DEFINE u == [todo EXCEPT !.dims = Value]
    <3>1. todo \in Todo
      BY Typing
    <3>2. Value \in 0 .. 4
      BY <1>2, <1>4
    <3>3. u \in Todo /\ u.dims = Value
      BY <3>1, <3>2 DEF Todo
    <3>4. u.kvs = todo.kvs /\ u.tensors = todo.tensors
      BY <3>1 DEF Todo
    <3>5. t = [u EXCEPT !.row = NoRow]
      OBVIOUS
    <3> HIDE DEF t, u
    <3>6. t \in Todo /\ t.row = NoRow
      BY <3>3, <3>5 DEF Todo
    <3>7. t.dims = u.dims /\ t.kvs = u.kvs /\ t.tensors = u.tensors
      BY <3>3, <3>5 DEF Todo
    <3> QED
      BY <3>3, <3>4, <3>6, <3>7
  <2> HIDE DEF t
  <2>5. t.dims \in 0 .. fields[i].n /\ i = i + (fields[i].n - t.dims)
    BY <1>2, <2>4
  <2> QED
    BY <1>2, <1>4, <2>2, <2>3, <2>4, <2>5, NextDimStep
<1>5. CASE Value > 4 /\ Fail("dimensions")
  <2>1. ~Taken(fields, i)
    BY <1>2, <1>5 DEF Taken
  <2>2. ~Sound
    BY <1>2, <2>1, NotSound DEF Reads, IInv
  <2> QED
    BY <1>5, <2>2, Refuses DEF Refusals
<1> QED
  BY <1>3, <1>4, <1>5

LEMMA DimStep ==
  ASSUME NEW i, Reads(i), next.is = "dim", Tensors
  PROVE  Result
<1>1. next.is \notin Bytes /\ next.is # "rest"
  BY DEF Bytes
<1>2. /\ i \in 1 .. Len(fields) /\ fields[i].is = "dim"
      /\ Value = fields[i].n /\ Value \in Nat
  BY <1>1, FieldAt, ValueAt DEF Reads
<1>3. TakenTo(fields, i)
  BY <1>2, OthersAreTaken, Judges
<1>4. PICK d \in 1 .. Len(fields) : DimsFrom(fields, d, i, "dim", todo)
  BY DEF Reads, At, DimsLeft
<1> DEFINE n == fields[d].n
           t == [todo EXCEPT !.dims = @ - 1, !.row = IF @ = NoRow THEN Value ELSE @]
<1>5. n \in Nat
  BY FieldTyped, Typing
<1>6. /\ fields[d].is = "nDims" /\ DimsAfter(fields, d)
      /\ todo.row = IF i = d + 1 \/ n = 0 THEN NoRow ELSE fields[d + 1].n
      /\ todo.dims \in 1 .. n /\ i = d + (n - todo.dims) + 1
  BY <1>4 DEF DimsFrom
<1>7. n > 0 /\ i # d /\ i > d
  BY <1>5, <1>6
<1>8. (IF todo.row = NoRow THEN Value ELSE todo.row) = fields[d + 1].n /\ fields[d + 1].n \in Nat
  <2>1. d + 1 \in 1 .. Len(fields)
    BY <1>2, <1>7, Typing
  <2>2. fields[d + 1].n \in Nat
    BY <2>1, FieldTyped, Typing
  <2> QED
    BY <1>2, <1>6, <1>7, <2>2 DEF NoRow
<1>9. /\ t \in Todo /\ t.dims = todo.dims - 1 /\ t.row = fields[d + 1].n
      /\ t.kvs = todo.kvs /\ t.tensors = todo.tensors
  <2> DEFINE u == [todo EXCEPT !.dims = @ - 1]
  <2>1. todo \in Todo
    BY Typing
  <2>2. todo.dims - 1 \in 0 .. 4
    BY <1>6, <2>1 DEF Todo
  <2>3. u \in Todo /\ u.dims = todo.dims - 1 /\ u.row = todo.row
    BY <2>1, <2>2 DEF Todo
  <2>4. u.kvs = todo.kvs /\ u.tensors = todo.tensors
    BY <2>1 DEF Todo
  <2>5. PICK r \in Nat : r = fields[d + 1].n
    BY <1>8
  <2>6. t = [u EXCEPT !.row = r]
    BY <1>8, <2>3, <2>5
  <2> HIDE DEF t, u
  <2>7. t \in Todo /\ t.row = r
    BY <2>3, <2>6 DEF Todo
  <2>8. t.dims = u.dims /\ t.kvs = u.kvs /\ t.tensors = u.tensors
    BY <2>3, <2>6 DEF Todo
  <2> QED
    BY <2>3, <2>4, <2>5, <2>7, <2>8
<1>10. NextDim(t)
  BY DEF Tensors, Text, Read
<1> HIDE DEF t
<1>11. t.dims \in 0 .. n /\ i = d + (n - t.dims)
  BY <1>5, <1>6, <1>9
<1> QED
  BY <1>3, <1>6, <1>7, <1>9, <1>10, <1>11, NextDimStep

LEMMA TensorTypeStep ==
  ASSUME NEW i, Reads(i), next.is = "tensorType", Tensors
  PROVE  Result
<1>1. next.is \notin Bytes /\ next.is # "rest" /\ next.is \in InTensor
  BY DEF Bytes, InTensor
<1>2. /\ i \in 1 .. Len(fields) /\ fields[i].is = "tensorType"
      /\ Value = fields[i].n /\ Value \in Nat
  BY <1>1, FieldAt, ValueAt DEF Reads
<1>3. todo' = [todo EXCEPT !.type = Value] /\ Go("tensorOffset", 8)
  BY DEF Tensors, Text, Read
<1>4. TakenTo(fields, i - 1)
  BY <1>2 DEF Reads, At, Judged
<1>5. After(fields, i)
  BY <1>2, <1>4, Follows, Typing DEF Late
<1>6. FieldIs(fields, i + 1, "tensorOffset", 8)
  BY <1>2, <1>5 DEF After
<1>7. (i + 1) - 1 = i /\ (i + 1) - 2 = i - 1
  BY <1>2
<1>8. Judged(fields, i + 1, "tensorOffset")
  BY <1>2, <1>4, <1>7 DEF Judged, Late
<1>9. todo \in Todo
  BY Typing
<1>10. /\ todo' \in Todo /\ todo'.type = Value /\ todo'.row = todo.row
       /\ todo'.kvs = todo.kvs /\ todo'.tensors = todo.tensors
  BY <1>2, <1>3, <1>9 DEF Todo
<1>11. PICK d \in 1 .. Len(fields) : DimsFrom(fields, d, i, "tensorType", todo)
  BY DEF Reads, At, DimsLeft
<1>12. fields[d].n \in Nat
  BY FieldTyped, Typing
<1>13. DimsFrom(fields, d, i + 1, "tensorOffset", todo')
  <2>1. /\ fields[d].is = "nDims" /\ DimsAfter(fields, d) /\ i = d + fields[d].n + 1
        /\ todo.row = IF i = d + 1 \/ fields[d].n = 0 THEN NoRow ELSE fields[d + 1].n
    BY <1>11 DEF DimsFrom
  <2>2. d \in Nat /\ d > 0
    OBVIOUS
  <2>3. i + 1 = d + fields[d].n + 2 /\ i + 1 # d + 1 /\ (i = d + 1 => fields[d].n = 0)
    BY <1>12, <2>1, <2>2
  <2>4. todo'.row = IF i + 1 = d + 1 \/ fields[d].n = 0 THEN NoRow ELSE fields[d + 1].n
    BY <1>10, <2>1, <2>3
  <2> QED
    BY <1>2, <1>7, <1>10, <2>1, <2>3, <2>4 DEF DimsFrom
<1>14. next'.is = "tensorOffset"
  BY <1>3 DEF Go
<1>15. ItemsLeft(fields, i + 1, next', todo') /\ DimsLeft(fields, i + 1, "tensorOffset", todo')
  BY <1>13, <1>14 DEF ItemsLeft, DimsLeft
<1>16. "tensorOffset" \in Kinds /\ "tensorOffset" \in InTensor
  BY DEF Kinds, InTensor
<1> QED
  BY <1>1, <1>3, <1>6, <1>8, <1>10, <1>15, <1>16, WithinEntry

LEMMA TensorOffsetStep ==
  ASSUME NEW i, Reads(i), next.is = "tensorOffset", Tensors
  PROVE  Result
<1>1. next.is # "rest"
  OBVIOUS
<1>2. i \in 1 .. Len(fields) /\ fields[i].is = "tensorOffset" /\ End = EndOf(fields, i)
  BY <1>1, FieldAt DEF Reads
<1>3. PICK d \in 1 .. Len(fields) : DimsFrom(fields, d, i, "tensorOffset", todo)
  BY DEF Reads, At, DimsLeft
<1>4. /\ fields[d].is = "nDims" /\ DimsAfter(fields, d) /\ i = d + fields[d].n + 2
      /\ todo.row = IF i = d + 1 \/ fields[d].n = 0 THEN NoRow ELSE fields[d + 1].n
      /\ fields[i - 1].is = "tensorType" /\ todo.type = fields[i - 1].n
  BY <1>3 DEF DimsFrom
<1>5. fields[d].n \in Nat
  BY FieldTyped, Typing
<1>6. i - 1 = d + fields[d].n + 1 /\ i - 1 \in 1 .. Len(fields) /\ i > 1 /\ i # d + 1
  <2>1. d \in Nat /\ d > 0 /\ i \in Nat /\ i <= Len(fields) /\ Len(fields) \in Nat
    BY <1>2, Typing
  <2>2. i = d + fields[d].n + 2
    BY <1>4
  <2> QED
    BY <1>5, <2>1, <2>2
<1>7. (IF todo.row = NoRow THEN 1 ELSE todo.row) = RowAt(fields, i - 1)
  <2>1. RowAt(fields, i - 1) = IF fields[d].n = 0 THEN 1 ELSE fields[d + 1].n
    BY <1>4, <1>6, RowIs, Typing
  <2>2. fields[d].n # 0 => fields[d + 1].n \in Nat
    <3> SUFFICES ASSUME fields[d].n # 0 PROVE fields[d + 1].n \in Nat
      OBVIOUS
    <3>1. d \in Nat /\ d > 0 /\ i <= Len(fields) /\ Len(fields) \in Nat
      BY <1>2, Typing
    <3>2. i = d + fields[d].n + 2
      BY <1>4
    <3>3. d + 1 \in 1 .. Len(fields)
      BY <1>5, <3>1, <3>2
    <3> QED
      BY <3>3, FieldTyped, Typing
  <2> QED
    BY <1>4, <1>6, <2>1, <2>2 DEF NoRow
<1> DEFINE row == IF todo.row = NoRow THEN 1 ELSE todo.row
           t == [todo EXCEPT !.tensors = @ - 1]
<1>8. \/ todo.type \notin DOMAIN BlockSize /\ Fail("tensor type")
      \/ /\ todo.type \in DOMAIN BlockSize
         /\ \/ row % BlockSize[todo.type] # 0 /\ Fail("row")
            \/ row % BlockSize[todo.type] = 0 /\ NextEntry(t)
  BY DEF Tensors, Text, Read, Sized
<1>9. ASSUME ~Taken(fields, i - 1), NEW why \in Refusals, Fail(why) PROVE Result
  <2>1. ~Sound
    BY <1>6, <1>9, NotSound DEF Reads, IInv
  <2> QED
    BY <1>9, <2>1, Refuses
<1>10. CASE todo.type \notin DOMAIN BlockSize /\ Fail("tensor type")
  <2>1. ~Taken(fields, i - 1)
    BY <1>4, <1>10 DEF Taken
  <2> QED
    BY <1>9, <1>10, <2>1 DEF Refusals
<1>11. CASE row % BlockSize[todo.type] # 0 /\ Fail("row")
  <2> HIDE DEF row
  <2>1. row = RowAt(fields, i - 1)
    BY <1>7 DEF row
  <2>2. ~Taken(fields, i - 1)
    BY <1>4, <1>11, <2>1 DEF Taken
  <2> QED
    BY <1>9, <1>11, <2>2 DEF Refusals
<1>12. CASE todo.type \in DOMAIN BlockSize /\ row % BlockSize[todo.type] = 0 /\ NextEntry(t)
  <2> HIDE DEF row
  <2>1. row = RowAt(fields, i - 1)
    BY <1>7 DEF row
  <2>2. Taken(fields, i - 1)
    BY <1>4, <1>12, <2>1 DEF Taken, Lengths
  <2>3. Taken(fields, i)
    BY <1>2, OthersAreTaken
  <2>4. TakenTo(fields, i) /\ After(fields, i)
    BY <1>6, <2>2, <2>3, JudgesBoth
  <2>5. EntryAfter(fields, i)
    BY <1>2, <2>4 DEF After
  <2>6. /\ todo.kvs = 0 /\ Left(fields, i, "keyLength") = 0
        /\ todo.tensors = Left(fields, i, "nameLength") + 1
    BY DEF Reads, At, EntriesLeft, InTensor
  <2>7. /\ Left(fields, i + 1, "nameLength") = Left(fields, i, "nameLength")
        /\ Left(fields, i + 1, "keyLength") = Left(fields, i, "keyLength")
        /\ Left(fields, i, "nameLength") \in Nat
    <3>1. Header(fields) /\ fields[i].is # "keyLength" /\ fields[i].is # "nameLength"
      BY <1>2, Typing
    <3>2. /\ Left(fields, i, "nameLength") \in Nat /\ Left(fields, i + 1, "nameLength") \in Nat
          /\ Left(fields, i, "nameLength") = Left(fields, i + 1, "nameLength") + 0
      BY <1>2, <3>1, LeftStep
    <3>3. /\ Left(fields, i, "keyLength") \in Nat /\ Left(fields, i + 1, "keyLength") \in Nat
          /\ Left(fields, i, "keyLength") = Left(fields, i + 1, "keyLength") + 0
      BY <1>2, <3>1, LeftStep
    <3> QED
      BY <3>2, <3>3
  <2>8. todo.tensors - 1 = Left(fields, i + 1, "nameLength") /\ todo.tensors - 1 \in Nat
    <3>1. ASSUME NEW n \in Nat, todo.tensors = n + 1 PROVE todo.tensors - 1 = n
      BY <3>1
    <3>2. todo.tensors - 1 = Left(fields, i, "nameLength")
      BY <2>6, <2>7, <3>1
    <3> QED
      BY <2>7, <3>2
  <2>9. todo \in Todo
    BY Typing
  <2>10. /\ t \in Todo /\ t.kvs = todo.kvs
         /\ t.tensors = Left(fields, i + 1, "nameLength")
    BY <2>8, <2>9 DEF Todo
  <2> HIDE DEF t
  <2> QED
    BY <1>2, <1>12, <2>4, <2>5, <2>6, <2>7, <2>10, EntryIsOver
<1> QED
  BY <1>8, <1>10, <1>11, <1>12

-----------------------------------------------------------------------------
(* Each step of the parser. *)
LEMMA ParsingStep ==
  ASSUME IInv, Parsing
  PROVE  Result
<1>1. PICK is \in Kinds \cup {"rest"} : Read(is) /\ next.is = is
  <2>1. \E is : Read(is)
    BY DEF Parsing, Preamble, Metadata, Items, Tensors, Text
  <2> QED
    BY <2>1 DEF IInv, TypeOK, Read
<1>2. PICK i : Reads(i)
  BY <1>1, ReadReads
<1>3. CASE Preamble
  <2>1. next.is \in {"magic", "version", "tensorCount", "kvCount"}
    BY <1>3 DEF Preamble, Read
  <2> QED
    BY <1>2, <1>3, <2>1, OpeningStep, TensorCountStep, KvCountStep
<1>4. CASE Metadata
  <2>1. \/ next.is = "keyLength" /\ Text("keyLength", "key")
        \/ next.is = "key" /\ Go("type", 4) /\ UNCHANGED todo
        \/ next.is = "type"
        \/ next.is = "stringLength" /\ Text("stringLength", "string")
        \/ next.is \in {"string", "scalar"}
    BY <1>4 DEF Metadata, Text, Read
  <2>2. CASE next.is = "key" /\ Go("type", 4) /\ UNCHANGED todo
    <3>1. "type" \in Kinds
      BY DEF Kinds
    <3> QED
      BY <1>2, <2>2, <3>1, PlainStep
  <2> QED
    BY <1>2, <1>4, <2>1, <2>2, TextStep, TypeStep, ValueStep
<1>5. CASE Items
  <2>1. next.is \in {"itemType", "length", "itemLength", "text", "item", "rest"}
    BY <1>5 DEF Items, Text, Read
  <2> QED
    BY <1>2, <1>5, <2>1, ItemTypeStep, LengthStep, ItemLengthStep, TextOfItemStep,
       NumberOfItemStep, RestStep
<1>6. CASE Tensors
  <2>1. \/ next.is = "nameLength" /\ Text("nameLength", "name")
        \/ next.is = "name" /\ Go("nDims", 4) /\ UNCHANGED todo
        \/ next.is \in {"nDims", "dim", "tensorType", "tensorOffset"}
    BY <1>6 DEF Tensors, Text, Read
  <2>2. CASE next.is = "name" /\ Go("nDims", 4) /\ UNCHANGED todo
    <3>1. "nDims" \in Kinds
      BY DEF Kinds
    <3> QED
      BY <1>2, <2>2, <3>1, PlainStep
  <2> QED
    BY <1>2, <1>6, <2>1, <2>2, TextStep, NDimsStep, DimStep, TensorTypeStep, TensorOffsetStep
<1> QED
  BY <1>3, <1>4, <1>5, <1>6 DEF Parsing

(* The file stays the same. *)
LEMMA SameFile ==
  ASSUME UNCHANGED <<file, http>>
  PROVE  /\ fields' = fields /\ fileSize' = fileSize /\ Sound' = Sound /\ HeaderEnd' = HeaderEnd
         /\ file' = file /\ http' = http
BY DEF fields, fileSize, Sound, HeaderEnd

LEMMA ParsingKeeps ==
  ASSUME IInv, Parsing
  PROVE  IInv'
<1>1. PICK is : Read(is)
  BY DEF Parsing, Preamble, Metadata, Items, Tensors, Text
<1>2. /\ outcome = "reading" /\ target = 0 /\ file' = file /\ http' = http
      /\ have' = have /\ size' = size /\ stream' = stream /\ target' = target
  BY <1>1 DEF Read, source
<1>3. /\ fields' = fields /\ fileSize' = fileSize /\ Sound' = Sound /\ HeaderEnd' = HeaderEnd
  BY <1>2, SameFile
<1>4. Result
  BY ParsingStep
<1>5. TypeOK'
  BY <1>2, <1>3, <1>4 DEF IInv, TypeOK, Result, CursorTyped, Todo
<1>6. OnTrack'
  <2>1. CASE \E i \in 1 .. Len(fields) + 1 : At(fields, i, offset', next', todo')
    BY <1>3, <2>1 DEF OnTrack
  <2>2. CASE ~Sound /\ next'.is = "text" /\ offset' + next'.width > MaxSafe
    BY <1>3, <2>2 DEF OnTrack, Stuck, End
  <2>3. CASE outcome' # "reading"
    BY <2>3 DEF OnTrack
  <2> QED
    BY <1>4, <2>1, <2>2, <2>3 DEF Result, Refusals
<1>7. Sources'
  BY <1>2, <1>3 DEF IInv, Sources
<1>8. Fetched'
  BY <1>2, <1>3 DEF IInv, Fetched, Window
<1>9. ParsedIsWhole'
  <2>1. offset' <= have' /\ have' <= fileSize'
    BY <1>5 DEF TypeOK
  <2> QED
    BY <1>3, <1>4, <2>1 DEF ParsedIsWhole, Result, Refusals
<1>10. Justified'
  BY <1>3, <1>4 DEF Justified, Result, Refusals
<1> QED
  BY <1>5, <1>6, <1>7, <1>8, <1>9, <1>10 DEF IInv

-----------------------------------------------------------------------------
(* The steps of the byte sources.                                          *)

(* What is read next is part of the header. *)
LEMMA EndIsWithin ==
  ASSUME IInv, outcome = "reading", Sound
  PROVE  End <= HeaderEnd
<1>1. PICK i \in 1 .. Len(fields) + 1 : At(fields, i, offset, next, todo)
  BY DEF IInv, OnTrack, Stuck
<1>2. \E k \in 1 .. Len(fields) : End = EndOf(fields, k)
  <2>1. CASE next.is = "rest"
    BY <1>1, <2>1, RestEnds
  <2>2. CASE next.is # "rest"
    BY <1>1, <2>2, FieldAt
  <2> QED
    BY <2>1, <2>2
<1> QED
  BY <1>2, WithinHeader, FileIsLaidOut DEF IInv, HeaderEnd

LEMMA Most ==
  ASSUME NEW n \in Nat
  PROVE  /\ Max({FirstRead, 2 * n}) \in Nat
         /\ Max({FirstRead, 2 * n}) >= FirstRead /\ Max({FirstRead, 2 * n}) >= 2 * n
<1>1. 2 * n \in Int
  OBVIOUS
<1>2. Max({FirstRead, 2 * n}) = IF FirstRead >= 2 * n THEN FirstRead ELSE 2 * n
  BY <1>1, Limits, MaxOfTwo
<1> QED
  BY <1>1, <1>2, Limits

LEMMA CursorStays ==
  ASSUME IInv, UNCHANGED <<file, http, cursor>>, outcome' = "reading" => outcome = "reading"
  PROVE  OnTrack'
<1>1. fields' = fields /\ Sound' = Sound /\ offset' = offset /\ next' = next /\ todo' = todo
  BY SameFile DEF cursor
<1>2. Stuck' = Stuck
  BY <1>1 DEF Stuck, End
<1> QED
  BY <1>1, <1>2 DEF IInv, OnTrack

(* A step of a byte source, or of close(). *)
LEMMA SourceKeeps ==
  ASSUME IInv, UNCHANGED <<file, http, cursor>>,
         have' \in have .. fileSize, size' \in {Unknown, 0, fileSize},
         stream' \in {"none", "open", "cancelled"},
         target' \in Nat, target' = 0 \/ target' > have', outcome' \in Outcomes,
         outcome' = "reading" => outcome = "reading",
         outcome' = "parsed" => outcome = "parsed",
         Sources', Fetched', Justified'
  PROVE  IInv'
<1>1. /\ fields' = fields /\ fileSize' = fileSize /\ Sound' = Sound /\ HeaderEnd' = HeaderEnd
      /\ file' = file /\ http' = http /\ offset' = offset /\ next' = next /\ todo' = todo
  BY SameFile DEF cursor
<1>2. /\ fileSize \in Nat /\ have \in Nat /\ offset \in Nat /\ offset <= have /\ have' \in Nat
      /\ have <= have' /\ have' <= fileSize
  BY FileIsLaidOut DEF IInv, TypeOK
<1>3. TypeOK'
  BY <1>1, <1>2 DEF IInv, TypeOK
<1>4. ParsedIsWhole'
  BY <1>1, <1>2 DEF IInv, ParsedIsWhole
<1> QED
  BY <1>3, <1>4, CursorStays DEF IInv

LEMMA TargetIs ==
  ASSUME IInv
  PROVE  /\ Target \in Nat
         /\ Target >= End \/ (size # Unknown /\ size < End)
         /\ \/ Target <= End \/ Target <= FirstRead \/ Target <= 2 * have
         /\ size # Unknown => Target <= size
<1> DEFINE wanted == Max({End, FirstRead, 2 * have})
<1>1. End \in Nat /\ have \in Nat /\ 2 * have \in Nat /\ FirstRead \in Nat /\ size \in Int
      /\ (size # Unknown => size \in Nat)
  BY FileIsLaidOut, Limits DEF IInv, TypeOK, Unknown
<1>2. /\ wanted \in {End, FirstRead, 2 * have} /\ wanted \in Nat
      /\ wanted >= End /\ wanted >= FirstRead /\ wanted >= 2 * have
  <2>1. End \in Int /\ FirstRead \in Int /\ 2 * have \in Int
    BY <1>1
  <2>2. /\ wanted \in {End, FirstRead, 2 * have}
        /\ wanted >= End /\ wanted >= FirstRead /\ wanted >= 2 * have
    BY <2>1, MaxOfThree
  <2> HIDE DEF wanted
  <2> QED
    BY <1>1, <2>2
<1>3. Target = IF size = Unknown THEN wanted ELSE Min({wanted, size})
  BY DEF Target
<1> HIDE DEF wanted
<1>4. Min({wanted, size}) = IF wanted <= size THEN wanted ELSE size
  BY <1>1, <1>2, MinOfTwo
<1> QED
  BY <1>1, <1>2, <1>3, <1>4

LEMMA EnsureKeeps ==
  ASSUME IInv, Ensure
  PROVE  IInv'
<1>1. /\ outcome = "reading" /\ target = 0 /\ End > have
      /\ file' = file /\ http' = http /\ have' = have /\ size' = size /\ stream' = stream
  BY DEF Ensure
<1>2. /\ fields' = fields /\ fileSize' = fileSize /\ Sound' = Sound /\ HeaderEnd' = HeaderEnd
  BY <1>1, SameFile
<1>3. UNCHANGED <<file, http, cursor>>
  BY <1>1 DEF Ensure, Fail
<1>4. End' = End
  BY <1>3 DEF cursor, End
<1>5. /\ have \in have .. fileSize /\ size \in {Unknown, 0, fileSize} /\ have \in Nat
      /\ fileSize \in Nat /\ stream \in {"none", "open", "cancelled"} /\ End \in Nat
      /\ HeaderEnd \in Nat
  BY FileIsLaidOut DEF IInv, TypeOK
<1>6. /\ ~http => size = fileSize /\ stream = "none" /\ target <= fileSize
      /\ size = 0 => stream # "none" \/ fileSize = 0
  BY <1>1 DEF IInv, Sources
<1>7. CASE End <= MaxRead /\ Target >= End /\ target' = Target /\ outcome' = outcome
  <2>1. target' \in Nat /\ target' > have' /\ target' >= End'
    BY <1>1, <1>4, <1>5, <1>7, TargetIs
  <2>2. ~http => target' <= fileSize
    BY <1>5, <1>6, <1>7, TargetIs DEF Unknown
  <2>3. Sources'
    BY <1>1, <1>2, <1>6, <1>7, <2>1, <2>2 DEF Sources
  <2>4. ASSUME NEW n \in Nat, End <= n, Window(n) PROVE Window(n)'
    <3> DEFINE most == Max({FirstRead, 2 * n})
    <3>1. most \in Nat /\ most >= FirstRead /\ most >= 2 * n
      BY Most
    <3> HIDE DEF most
    <3>2. target' <= most
      BY <1>1, <1>5, <1>7, <2>4, <3>1, TargetIs, Limits
    <3>3. have <= most + (IF stream = "none" THEN 0 ELSE MaxChunk)
      BY <2>4 DEF Window, most
    <3> QED
      BY <1>1, <3>2, <3>3 DEF Window, most
  <2>5. Fetched'
    <3>1. Window(MaxRead)'
      BY <1>7, <2>4, Limits DEF IInv, Fetched
    <3>2. Sound => Window(HeaderEnd) /\ End <= HeaderEnd
      BY <1>1, EndIsWithin DEF IInv, Fetched
    <3>3. ASSUME Sound PROVE Window(HeaderEnd)'
      <4>1. PICK n \in Nat : n = HeaderEnd
        BY <1>5
      <4>2. Window(n)'
        BY <2>4, <3>2, <3>3, <4>1
      <4> QED
        BY <1>2, <4>1, <4>2 DEF Window
    <3> QED
      BY <1>2, <3>1, <3>3 DEF Fetched
  <2>6. Justified'
    BY <1>1, <1>7 DEF Justified, Refusals
  <2> QED
    BY <1>1, <1>3, <1>5, <1>7, <2>1, <2>3, <2>5, <2>6, SourceKeeps DEF Outcomes
<1>8. ASSUME outcome' \in {"past MAX_READ", "ends"}, target' = target, Justified'
      PROVE  IInv'
  <2>1. Sources'
    BY <1>1, <1>2, <1>6, <1>8 DEF Sources
  <2>2. Fetched'
    BY <1>1, <1>2, <1>8 DEF IInv, Fetched, Window
  <2>3. target' \in Nat /\ target' = 0
    BY <1>1, <1>8
  <2> QED
    BY <1>1, <1>3, <1>5, <1>8, <2>1, <2>2, <2>3, SourceKeeps DEF Outcomes
<1>9. CASE End > MaxRead /\ outcome' = "past MAX_READ" /\ target' = target
  <2>1. ~Sound \/ HeaderEnd > MaxRead
    <3> SUFFICES ASSUME Sound PROVE HeaderEnd > MaxRead
      OBVIOUS
    <3>1. End <= HeaderEnd
      BY <1>1, EndIsWithin
    <3>2. MaxRead \in Nat /\ End \in Nat /\ HeaderEnd \in Nat
      BY <1>5, Limits
    <3>3. End > MaxRead
      BY <1>9
    <3> QED
      BY <3>1, <3>2, <3>3
  <2>2. Justified'
    BY <1>2, <1>9, <2>1 DEF Justified, Refusals
  <2> QED
    BY <1>8, <1>9, <2>2
<1>10. CASE Target < End /\ outcome' = "ends" /\ target' = target
  <2>1. size # Unknown /\ size < End
    BY <1>5, <1>10, TargetIs
  <2>2. ~Sound \/ HeaderEnd > fileSize \/ (size = 0 /\ stream # "none")
    BY <1>1, <1>5, <1>6, <2>1, EndIsWithin
  <2>3. Justified'
    BY <1>1, <1>2, <1>10, <2>2 DEF Justified, Refusals
  <2> QED
    BY <1>8, <1>10, <2>3
<1> QED
  BY <1>7, <1>9, <1>10 DEF Ensure, Fail

(* More has arrived: at most what was asked for, but for a stream.         *)
LEMMA GotKeeps ==
  ASSUME IInv, Waiting, UNCHANGED <<file, http, stream>>, NEW h \in have .. fileSize, Got(h),
         h <= target \/ (stream = "open" /\ h <= have + MaxChunk),
         http \/ h >= End, size' \in {size, fileSize}
  PROVE  IInv'
<1>1. /\ outcome = "reading" /\ target # 0 /\ file' = file /\ http' = http /\ stream' = stream
      /\ have' = h /\ target' = 0 /\ outcome' = (IF h < End THEN "short" ELSE outcome)
      /\ UNCHANGED <<file, http, cursor>>
  BY DEF Waiting, Got
<1>2. /\ fields' = fields /\ fileSize' = fileSize /\ Sound' = Sound /\ HeaderEnd' = HeaderEnd
  BY <1>1, SameFile
<1>3. /\ have \in Nat /\ fileSize \in Nat /\ End \in Nat /\ HeaderEnd \in Nat /\ h \in Nat
      /\ target \in Nat /\ target > have /\ size \in {Unknown, 0, fileSize}
      /\ stream \in {"none", "open", "cancelled"}
  BY <1>1, FileIsLaidOut DEF IInv, TypeOK
<1>4. /\ ~http => size = fileSize /\ stream = "none"
      /\ size = 0 => stream # "none" \/ fileSize = 0
  BY <1>1 DEF IInv, Sources
<1>5. Sources'
  BY <1>1, <1>2, <1>3, <1>4 DEF Sources
<1>6. ASSUME NEW n \in Nat, Window(n) PROVE Window(n)'
  <2> DEFINE most == Max({FirstRead, 2 * n})
  <2>1. most \in Nat
    BY Most
  <2>2. target <= most
    BY <1>6 DEF Window
  <2> HIDE DEF most
  <2>3. h <= most + (IF stream = "none" THEN 0 ELSE MaxChunk)
    BY <1>3, <2>1, <2>2, Limits
  <2> QED
    BY <1>1, <2>1, <2>3 DEF Window, most
<1>7. Fetched'
  <2>1. Window(MaxRead)'
    BY <1>6, Limits DEF IInv, Fetched
  <2>2. ASSUME Sound PROVE Window(HeaderEnd)'
    <3>1. PICK n \in Nat : n = HeaderEnd
      BY <1>3
    <3>2. Window(n)'
      BY <1>6, <2>2, <3>1 DEF IInv, Fetched
    <3> QED
      BY <1>2, <3>1, <3>2 DEF Window
  <2> QED
    BY <1>2, <2>1, <2>2 DEF Fetched
<1>9. Justified'
  BY <1>1 DEF Justified, Refusals
<1>10. have' \in have .. fileSize /\ size' \in {Unknown, 0, fileSize}
  BY <1>1, <1>3
<1> QED
  BY <1>1, <1>3, <1>5, <1>7, <1>9, <1>10, SourceKeeps DEF Outcomes

LEMMA StillGenuine ==
  ASSUME IInv, UNCHANGED <<file, http>>, outcome' = outcome, size' = size,
         stream # "none" => stream' # "none"
  PROVE  Justified'
<1>1. /\ fileSize' = fileSize /\ Sound' = Sound /\ HeaderEnd' = HeaderEnd /\ http' = http
  BY SameFile
<1>2. outcome' \in Refusals => ~Sound'
  BY <1>1 DEF IInv, Justified
<1>3. outcome' = "past MAX_READ" => ~Sound' \/ HeaderEnd' > MaxRead
  BY <1>1 DEF IInv, Justified
<1>4. outcome' = "ends" => \/ ~Sound' \/ HeaderEnd' > fileSize'
                           \/ size' = 0 /\ stream' # "none"
  BY <1>1 DEF IInv, Justified
<1> QED
  BY <1>2, <1>3, <1>4 DEF Justified

LEMMA SourcingKeeps ==
  ASSUME IInv, Sourcing \/ Rejected \/ Close
  PROVE  IInv'
<1>1. /\ fileSize \in Nat /\ have \in 0 .. fileSize /\ have \in Nat /\ target \in Nat
      /\ size \in {Unknown, 0, fileSize} /\ stream \in {"none", "open", "cancelled"}
      /\ (target = 0 \/ target > have) /\ End \in Nat
  BY FileIsLaidOut DEF IInv, TypeOK
<1>2. have \in have .. fileSize
  BY <1>1
<1>3. CASE Ensure
  BY <1>3, EnsureKeeps
<1>4. CASE Partial
  <2>1. PICK h \in have .. Min({target, fileSize}) : size' \in {size, fileSize} /\ Got(h)
    BY <1>4 DEF Partial
  <2>2. Min({target, fileSize}) = IF target <= fileSize THEN target ELSE fileSize
    BY <1>1, MinOfTwo
  <2>3. h \in have .. fileSize /\ h <= target
    BY <1>1, <2>1, <2>2
  <2>4. Waiting /\ http /\ UNCHANGED <<file, http, stream>>
    BY <1>4 DEF Partial
  <2> QED
    BY <2>1, <2>3, <2>4, GotKeeps
<1>5. CASE Full
  <2>1. /\ http /\ outcome = "reading" /\ target # 0 /\ stream = "none"
        /\ UNCHANGED <<file, http, have, target, cursor>> /\ size' \in {0, fileSize}
        /\ \/ have = 0 /\ stream' = "open" /\ outcome' = outcome
           \/ stream' = stream /\ outcome' = "no resume"
    BY <1>5 DEF Full, Fail, Waiting
  <2>2. fields' = fields /\ fileSize' = fileSize /\ Sound' = Sound /\ HeaderEnd' = HeaderEnd
    BY <2>1, SameFile
  <2>3. End' = End
    BY <2>1 DEF cursor, End
  <2>4. Sources'
    BY <2>1, <2>2, <2>3 DEF IInv, Sources
  <2>5. ASSUME NEW n \in Nat, Window(n) PROVE Window(n)'
    <3> DEFINE most == Max({FirstRead, 2 * n})
    <3>1. most \in Nat /\ MaxChunk \in Nat
      BY Most, Limits
    <3>2. target <= most /\ have <= most + 0
      BY <2>1, <2>5 DEF Window
    <3> HIDE DEF most
    <3>3. have <= most + MaxChunk
      BY <1>1, <3>1, <3>2
    <3> QED
      BY <2>1, <3>2, <3>3 DEF Window, most
  <2>6. Fetched'
    <3>1. Window(MaxRead)'
      BY <2>5, Limits DEF IInv, Fetched
    <3>2. ASSUME Sound PROVE Window(HeaderEnd)'
      <4>1. PICK n \in Nat : n = HeaderEnd
        BY FileIsLaidOut DEF IInv
      <4>2. Window(n)'
        BY <2>5, <3>2, <4>1 DEF IInv, Fetched
      <4> QED
        BY <2>2, <4>1, <4>2 DEF Window
    <3> QED
      BY <2>2, <3>1, <3>2 DEF Fetched
  <2>7. Justified'
    BY <2>1 DEF Justified, Refusals
  <2> QED
    BY <1>1, <1>2, <2>1, <2>4, <2>6, <2>7, SourceKeeps DEF Outcomes
<1>6. CASE Chunk
  <2>1. PICK n \in 1 .. Min({MaxChunk, fileSize - have}) :
          \/ have + n >= target /\ Got(have + n)
          \/ have + n < target /\ have' = have + n /\ UNCHANGED <<target, outcome, cursor>>
    BY <1>6 DEF Chunk
  <2>2. /\ Waiting /\ stream = "open" /\ UNCHANGED <<file, http, size, stream>>
        /\ outcome = "reading" /\ target # 0
    BY <1>6 DEF Chunk, Waiting
  <2>3. MaxChunk \in Nat /\ fileSize - have \in Int
    BY <1>1, Limits
  <2>4. Min({MaxChunk, fileSize - have}) = IF MaxChunk <= fileSize - have THEN MaxChunk ELSE fileSize - have
    BY <2>3, MinOfTwo
  <2>5. n \in Nat /\ n <= MaxChunk /\ have + n \in have .. fileSize /\ have + n <= have + MaxChunk
    BY <1>1, <2>1, <2>3, <2>4
  <2>6. http
    BY <2>2 DEF IInv, Sources
  <2>7. CASE Got(have + n)
    BY <2>2, <2>5, <2>6, <2>7, GotKeeps
  <2>8. CASE have + n < target /\ have' = have + n /\ UNCHANGED <<target, outcome, cursor>>
    <3>1. /\ fields' = fields /\ fileSize' = fileSize /\ Sound' = Sound /\ HeaderEnd' = HeaderEnd
          /\ UNCHANGED <<file, http, cursor>>
      BY <2>2, <2>8, SameFile
    <3>2. End' = End
      BY <3>1 DEF cursor, End
    <3>3. Sources'
      BY <2>2, <2>6, <2>8, <3>1, <3>2 DEF IInv, Sources
    <3>4. ASSUME NEW m \in Nat, Window(m) PROVE Window(m)'
      <4> DEFINE most == Max({FirstRead, 2 * m})
      <4>1. most \in Nat
        BY Most
      <4>2. target <= most
        BY <3>4 DEF Window
      <4> HIDE DEF most
      <4>3. have + n <= most + MaxChunk
        BY <1>1, <2>3, <2>5, <2>8, <4>1, <4>2
      <4> QED
        BY <2>2, <2>8, <4>2, <4>3 DEF Window, most
    <3>5. Fetched'
      <4>1. Window(MaxRead)'
        BY <3>4, Limits DEF IInv, Fetched
      <4>2. ASSUME Sound PROVE Window(HeaderEnd)'
        <5>1. PICK m \in Nat : m = HeaderEnd
          BY FileIsLaidOut DEF IInv
        <5>2. Window(m)'
          BY <3>4, <4>2, <5>1 DEF IInv, Fetched
        <5> QED
          BY <3>1, <5>1, <5>2 DEF Window
      <4> QED
        BY <3>1, <4>1, <4>2 DEF Fetched
    <3>6. Justified'
      BY <2>2, <2>8 DEF Justified, Refusals
    <3>7. have' \in have .. fileSize /\ target' \in Nat /\ target' > have'
      BY <1>1, <2>5, <2>8
    <3> QED
      BY <1>1, <2>2, <2>8, <3>1, <3>3, <3>5, <3>6, <3>7, SourceKeeps DEF Outcomes
  <2> QED
    BY <2>1, <2>7, <2>8
<1>7. CASE StreamEnds
  <2>1. Waiting /\ stream = "open" /\ UNCHANGED <<file, http, size, stream>> /\ Got(have)
    BY <1>7 DEF StreamEnds
  <2>2. http
    BY <2>1 DEF IInv, Sources
  <2>3. have <= have + MaxChunk
    BY <1>1, Limits
  <2> QED
    BY <1>2, <2>1, <2>2, <2>3, GotKeeps
<1>8. CASE FileRead
  <2>1. /\ Waiting /\ ~http /\ UNCHANGED <<file, http, size, stream>> /\ Got(target)
        /\ outcome = "reading" /\ target # 0
    BY <1>8 DEF FileRead, Waiting
  <2>2. target <= fileSize /\ target >= End
    BY <2>1 DEF IInv, Sources
  <2>3. target \in have .. fileSize
    BY <1>1, <2>1, <2>2
  <2>4. target <= target
    BY <1>1
  <2> QED
    BY <2>1, <2>2, <2>3, <2>4, GotKeeps
<1>9. CASE Rejected \/ Close
  <2>1. /\ UNCHANGED <<file, http, cursor>> /\ have' = have /\ size' = size /\ target' = target
        /\ \/ outcome' = "rejected" /\ stream' = stream
           \/ /\ outcome' = outcome /\ outcome # "reading"
              /\ stream = "open" /\ stream' = "cancelled"
    BY <1>9 DEF Rejected, Close, Fail, source, Waiting
  <2>2. fields' = fields /\ fileSize' = fileSize /\ Sound' = Sound /\ HeaderEnd' = HeaderEnd /\ http' = http
    BY <2>1, SameFile
  <2>3. outcome' # "reading"
    BY <2>1
  <2>4. Sources'
    BY <2>1, <2>2, <2>3 DEF IInv, Sources
  <2>5. ASSUME NEW n, Window(n) PROVE Window(n)'
    BY <2>1, <2>5 DEF Window
  <2>6. ASSUME Sound PROVE Window(HeaderEnd)'
    <3>1. PICK n \in Nat : n = HeaderEnd
      BY FileIsLaidOut DEF IInv
    <3>2. Window(n)'
      BY <2>5, <2>6, <3>1 DEF IInv, Fetched
    <3> QED
      BY <2>2, <3>1, <3>2 DEF Window
  <2>7. Fetched'
    <3>1. Window(MaxRead)'
      BY <2>5 DEF IInv, Fetched
    <3> QED
      BY <2>2, <2>6, <3>1 DEF Fetched
  <2>8. Justified'
    <3>1. CASE outcome' = "rejected"
      BY <3>1 DEF Justified, Refusals
    <3>2. CASE outcome' = outcome
      <4>1. UNCHANGED <<file, http>> /\ size' = size /\ (stream # "none" => stream' # "none")
        BY <2>1
      <4> QED
        BY <3>2, <4>1, StillGenuine
    <3> QED
      BY <2>1, <3>1, <3>2
  <2>9. outcome' \in Outcomes
    BY <2>1 DEF IInv, TypeOK, Outcomes
  <2> QED
    BY <1>1, <1>2, <2>1, <2>3, <2>4, <2>7, <2>8, <2>9, SourceKeeps
<1> QED
  BY <1>3, <1>4, <1>5, <1>6, <1>7, <1>8, <1>9 DEF Sourcing

-----------------------------------------------------------------------------
(* The invariant. *)

LEMMA InitIInv == Init => IInv
<1> SUFFICES ASSUME Init PROVE IInv
  OBVIOUS
<1>1. /\ file.fields \in Seq(Field) /\ file.fields # <<>> /\ LaidOut(file.fields)
      /\ file.size \in Nat
  BY FilesAssumption DEF Init
<1>2. Header(fields) /\ fileSize \in Nat /\ Len(fields) \in Nat /\ 1 \in 1 .. Len(fields)
  BY <1>1 DEF Header, fields, fileSize
<1>3. HeaderEnd \in Nat
  BY <1>2, WithinHeader DEF HeaderEnd
<1>4. TypeOK
  <2>1. next \in [is : Kinds \cup {"rest"}, width : Nat]
    BY DEF Init, Kinds
  <2>2. todo \in [kvs : Nat, tensors : Nat, items : Nat, sampled : 0 .. ArraySample,
                  dims : 0 .. 4, itemType : Nat, row : Nat \cup {NoRow}, type : Nat]
    BY DEF Init, ArraySample
  <2> QED
    BY <1>2, <2>1, <2>2 DEF Init, TypeOK, Outcomes
<1>5. At(fields, 1, offset, next, todo)
  <2>1. next.is = "magic" /\ next.width = 4 /\ offset = 0
    BY DEF Init
  <2>2. FieldIs(fields, 1, "magic", 4) /\ fields[1].at = 0
    BY <1>2 DEF Header, LaidOut
  <2>3. Stands(fields, 1, offset, next)
    BY <2>1, <2>2 DEF Stands
  <2>4. Judged(fields, 1, next.is)
    BY DEF Judged, TakenTo
  <2>5. EntriesLeft(fields, 1, next.is, todo)
    BY <2>1 DEF EntriesLeft, InEntry, InTensor
  <2>6. ItemsLeft(fields, 1, next, todo) /\ DimsLeft(fields, 1, next.is, todo)
    BY <2>1 DEF ItemsLeft, DimsLeft
  <2> QED
    BY <2>3, <2>4, <2>5, <2>6 DEF At
<1>6. OnTrack
  BY <1>2, <1>5 DEF OnTrack
<1>7. Sources
  BY <1>2 DEF Init, Sources, Unknown
<1>8. ASSUME NEW n \in Nat PROVE Window(n)
  <2>1. Max({FirstRead, 2 * n}) \in Nat
    BY Most
  <2> QED
    BY <2>1 DEF Init, Window
<1>9. Fetched
  BY <1>3, <1>8, Limits DEF Fetched
<1>10. ParsedIsWhole /\ Justified
  BY DEF Init, ParsedIsWhole, Justified, Refusals
<1> QED
  BY <1>4, <1>6, <1>7, <1>9, <1>10 DEF IInv

LEMMA NextIInv == IInv /\ [Next]_vars => IInv'
<1> SUFFICES ASSUME IInv, [Next]_vars PROVE IInv'
  OBVIOUS
<1>1. CASE UNCHANGED vars
  <2>1. /\ UNCHANGED <<file, http, cursor>> /\ have' = have /\ size' = size /\ stream' = stream
        /\ target' = target /\ outcome' = outcome
    BY <1>1 DEF vars, source, cursor
  <2>2. /\ fields' = fields /\ fileSize' = fileSize /\ Sound' = Sound /\ HeaderEnd' = HeaderEnd
        /\ file' = file /\ http' = http /\ offset' = offset /\ next' = next /\ todo' = todo
    BY <2>1, SameFile DEF cursor
  <2>3. TypeOK'
    BY <2>1, <2>2 DEF IInv, TypeOK
  <2>4. OnTrack'
    BY <2>1, CursorStays
  <2>5. Sources'
    BY <2>1, <2>2 DEF IInv, Sources, End
  <2>6. Fetched'
    BY <2>1, <2>2 DEF IInv, Fetched, Window
  <2>7. ParsedIsWhole'
    BY <2>1, <2>2 DEF IInv, ParsedIsWhole
  <2>8. Justified'
    <3>1. stream # "none" => stream' # "none"
      BY <2>1
    <3> QED
      BY <2>1, <3>1, StillGenuine
  <2> QED
    BY <2>3, <2>4, <2>5, <2>6, <2>7, <2>8 DEF IInv
<1>2. CASE Next
  BY <1>2, ParsingKeeps, SourcingKeeps DEF Next
<1> QED
  BY <1>1, <1>2

THEOREM Invariance == Spec => []IInv
<1> QED
  BY InitIInv, NextIInv, PTL DEF Spec

(* Type correctness: in particular the cursor never leaves the bytes that   *)
(* have arrived, and these are never more than the file.                    *)
THEOREM TypeCorrect == Spec => []TypeOK
<1>1. IInv => TypeOK
  BY DEF IInv
<1> QED
  BY <1>1, Invariance, PTL

(* The cursor never slips, whatever the sizes of what arrives: at every     *)
(* read of a sound file it is at the field the reader takes it for.         *)
THEOREM NeverSlipsEver == Spec => []NeverSlips
<1>1. IInv => NeverSlips
  <2> SUFFICES ASSUME IInv, outcome = "reading", Sound
               PROVE  \/ next.is = "rest" /\ (End = HeaderEnd \/ \E i \in DOMAIN fields : fields[i].at = End)
                      \/ next.is # "rest" /\ \E i \in DOMAIN fields : IsNext(i)
    BY DEF NeverSlips
  <2>1. Header(fields) /\ 1 .. Len(fields) = DOMAIN fields /\ Len(fields) \in Nat
    BY FileIsLaidOut DEF IInv
  <2>2. PICK i \in 1 .. Len(fields) + 1 : At(fields, i, offset, next, todo)
    BY DEF IInv, OnTrack, Stuck
  <2>3. CASE next.is # "rest"
    BY <2>1, <2>2, <2>3, FieldAt
  <2>4. CASE next.is = "rest"
    <3>1. PICK k \in 1 .. Len(fields) : End = EndOf(fields, k)
      BY <2>2, <2>4, RestEnds
    <3>2. CASE k = Len(fields)
      BY <2>4, <3>1, <3>2 DEF HeaderEnd
    <3>3. CASE k < Len(fields)
      <4>1. k + 1 \in DOMAIN fields /\ k + 1 <= Len(fields)
        BY <2>1, <3>3
      <4>2. fields[k + 1].at = End
        BY <2>1, <3>1, <4>1, NoGap
      <4> QED
        BY <2>4, <4>1, <4>2
    <3> QED
      BY <2>1, <3>2, <3>3
  <2> QED
    BY <2>3, <2>4
<1> QED
  BY <1>1, Invariance, PTL

(* A header is reported only for a sound file, and only when all of it was  *)
(* there and was read to its end.                                           *)
THEOREM ParsedAlwaysWhole == Spec => []ParsedIsWhole
<1>1. IInv => ParsedIsWhole
  BY DEF IInv
<1> QED
  BY <1>1, Invariance, PTL

(* A fetch that is over with too few bytes has reached the end of the file, *)
(* or was a range answered with less than was asked for.                    *)
LEMMA ShortIsGenuine ==
  ASSUME IInv, Waiting, NEW h \in Nat, Got(h), h < End,
         h >= Min({target, fileSize}) \/ CutRange
  PROVE  ~Sound \/ HeaderEnd > fileSize \/ CutRange
<1> SUFFICES ASSUME Sound, ~CutRange PROVE HeaderEnd > fileSize
  OBVIOUS
<1>1. /\ fileSize \in Nat /\ target \in Nat /\ End \in Nat /\ HeaderEnd \in Nat
      /\ End <= HeaderEnd /\ target >= End
  <2>1. outcome = "reading" /\ target # 0
    BY DEF Waiting
  <2>2. target >= End /\ End <= HeaderEnd
    BY <2>1, EndIsWithin DEF IInv, Sources
  <2> QED
    BY <2>1, <2>2, FileIsLaidOut DEF IInv, TypeOK
<1>2. Min({target, fileSize}) = IF target <= fileSize THEN target ELSE fileSize
  BY <1>1, MinOfTwo
<1> QED
  BY <1>1, <1>2

(* A step of the sources that ends in "short" or in "no resume". *)
LEMMA FetchRefuses ==
  ASSUME IInv, Sourcing \/ Rejected \/ Close, outcome = "reading"
  PROVE  /\ outcome' = "short" => ~Sound \/ HeaderEnd > fileSize \/ CutRange
         /\ outcome' = "no resume" => http /\ stream = "none" /\ have > 0
<1>1. /\ fileSize \in Nat /\ have \in 0 .. fileSize /\ have \in Nat /\ target \in Nat /\ End \in Nat
  BY FileIsLaidOut DEF IInv, TypeOK
<1>2. Min({target, fileSize}) = IF target <= fileSize THEN target ELSE fileSize
  BY <1>1, MinOfTwo
<1>3. CASE Ensure
  BY <1>3 DEF Ensure, Fail
<1>4. CASE Partial
  <2>1. PICK h \in have .. Min({target, fileSize}) : Got(h)
    BY <1>4 DEF Partial
  <2>2. h \in Nat /\ have' = h /\ outcome' = (IF h < End THEN "short" ELSE outcome)
    BY <1>1, <1>2, <2>1 DEF Got
  <2>3. Waiting /\ http /\ stream = "none"
    BY <1>4 DEF Partial
  <2>4. h >= Min({target, fileSize}) \/ CutRange
    BY <1>1, <1>2, <2>2, <2>3 DEF CutRange
  <2> QED
    BY <2>1, <2>2, <2>3, <2>4, ShortIsGenuine
<1>5. CASE Full
  <2>1. /\ http /\ stream = "none" /\ outcome = "reading"
        /\ \/ outcome' = outcome
           \/ have # 0 /\ outcome' = "no resume"
    BY <1>5 DEF Full, Fail, Waiting
  <2>2. have # 0 => have > 0
    BY <1>1
  <2>3. outcome' # "short"
    BY <2>1
  <2>4. outcome' = "no resume" => have # 0
    BY <2>1
  <2> QED
    BY <2>1, <2>2, <2>3, <2>4
<1>6. CASE Chunk
  <2>1. PICK n \in 1 .. Min({MaxChunk, fileSize - have}) :
          \/ have + n >= target /\ Got(have + n)
          \/ have + n < target /\ have' = have + n /\ UNCHANGED <<target, outcome, cursor>>
    BY <1>6 DEF Chunk
  <2>2. Min({MaxChunk, fileSize - have}) = IF MaxChunk <= fileSize - have THEN MaxChunk ELSE fileSize - have
    BY <1>1, Limits, MinOfTwo
  <2>3. n \in Nat
    BY <1>1, <2>1, <2>2, Limits
  <2>4. target >= End
    BY <1>6 DEF Chunk, Waiting, IInv, Sources
  <2>5. CASE have + n >= target /\ Got(have + n)
    <3>1. ~(have + n < End)
      BY <1>1, <2>3, <2>4, <2>5
    <3> QED
      BY <2>5, <3>1 DEF Got
  <2>6. CASE outcome' = outcome
    BY <2>6
  <2> QED
    BY <2>1, <2>5, <2>6
<1>7. CASE StreamEnds
  <2>1. Waiting /\ have = fileSize /\ Got(have)
    BY <1>7 DEF StreamEnds
  <2>2. outcome' = (IF have < End THEN "short" ELSE outcome)
    BY <2>1 DEF Got
  <2>3. have >= Min({target, fileSize})
    BY <1>1, <1>2, <2>1
  <2> QED
    BY <1>1, <2>1, <2>2, <2>3, ShortIsGenuine
<1>8. CASE FileRead
  <2>1. target >= End /\ Got(target)
    BY <1>8 DEF FileRead, Waiting, IInv, Sources
  <2> QED
    BY <1>1, <2>1 DEF Got
<1>9. CASE Rejected \/ Close
  BY <1>9 DEF Rejected, Fail, Close
<1> QED
  BY <1>3, <1>4, <1>5, <1>6, <1>7, <1>8, <1>9 DEF Sourcing

(* The parser itself ends a reading in none of these ways. *)
LEMMA ParsingRefuses ==
  ASSUME Parsing, outcome = "reading"
  PROVE  outcome' \notin {"short", "no resume"}
<1> USE DEF Read, Go, Fail, NextEntry, Text, ValueIsRead
<1>1. CASE Preamble
  BY <1>1 DEF Preamble
<1>2. CASE Metadata
  BY <1>2 DEF Metadata
<1>3. CASE Items
  BY <1>3 DEF Items, ItemsBegin, NextText, NextScalar
<1>4. CASE Tensors
  BY <1>4 DEF Tensors, NextDim, Sized
<1> QED
  BY <1>1, <1>2, <1>3, <1>4 DEF Parsing

(* A file is refused for what it is, or because it has no more bytes, or    *)
(* because its header is longer than MAX_READ.  The exceptions are a stream *)
(* without a Content-Length, a range answered with fewer bytes than were    *)
(* asked for, and one answered with the whole file once some of it is there.*)
THEOREM RefusalAlwaysGenuine == Spec => RefusalIsGenuine
<1> DEFINE Verdict ==
      outcome = "reading" =>
        /\ Justified'
        /\ outcome' = "short" => ~Sound \/ HeaderEnd > fileSize \/ CutRange
        /\ outcome' = "no resume" => http /\ stream = "none" /\ have > 0
<1>1. IInv /\ IInv' /\ [Next]_vars => [Verdict]_vars
  <2> SUFFICES ASSUME IInv, IInv', Next, outcome = "reading" PROVE Verdict
    OBVIOUS
  <2>1. Justified'
    BY DEF IInv
  <2>2. CASE Parsing
    BY <2>1, <2>2, ParsingRefuses
  <2>3. CASE Sourcing \/ Rejected \/ Close
    BY <2>1, <2>3, FetchRefuses
  <2> QED
    BY <2>2, <2>3 DEF Next
<1> QED
  BY <1>1, Invariance, PTL DEF Spec, RefusalIsGenuine

(* What is fetched beyond the header is bounded by the header's own length, *)
(* for every size of what arrives at once.                                  *)
THEOREM OvershootAlwaysBounded == Spec => []OvershootIsBounded
<1>1. IInv => OvershootIsBounded
  BY DEF IInv, Fetched, Window, OvershootIsBounded
<1> QED
  BY <1>1, Invariance, PTL
=============================================================================
