----------------------------- MODULE GgufLayout -----------------------------
(***************************************************************************)
(* What src/scripts/lib/gguf-header.mjs takes for the header of a GGUF     *)
(* file.  A file is the fields of its header, each with its place, its     *)
(* width in bytes and the number it holds, and its size.                   *)
(***************************************************************************)
EXTENDS Integers, Sequences, FiniteSetsExt

CONSTANTS
  Files,                \* the files that may be probed
  MaxSafe               \* Number.MAX_SAFE_INTEGER

Magic == 1
String == 8
Array == 9
ScalarWidth == [t \in 0 .. 12 \ {String, Array} |->
  CASE t \in {0, 1, 7} -> 1 [] t \in {2, 3} -> 2 [] t \in {4, 5, 6} -> 4 [] OTHER -> 8]

(* The blck_size of each ggml type. *)
BlockSize == [t \in 0 .. 40 \ ({4, 5} \cup 31 .. 33 \cup 36 .. 38) |->
  CASE t \in {0, 1, 24, 25, 26, 27, 28, 30} -> 1
    [] t \in {2, 3, 6, 7, 8, 9, 20, 39} -> 32
    [] t = 40 -> 64
    [] OTHER -> 256]

Kinds == {"magic", "version", "tensorCount", "kvCount",
          "keyLength", "key", "type", "scalar", "stringLength", "string",
          "itemType", "length", "itemLength", "text", "item",
          "nameLength", "name", "nDims", "dim", "tensorType", "tensorOffset"}
Field == [is : Kinds, at : Nat, width : Nat, n : Nat]

-----------------------------------------------------------------------------
(* What the reader takes.                                                  *)

Lengths == {"tensorCount", "kvCount", "keyLength", "stringLength", "length", "itemLength", "nameLength"}

(* The row of the tensor whose type is field i of header h. *)
RowAt(h, i) == LET dims == Max({j \in 1 .. i : h[j].is = "nDims"})
               IN  IF h[dims].n = 0 THEN 1 ELSE h[dims + 1].n

(* The reader takes field i of header h. *)
Taken(h, i) ==
  LET is == h[i].is
      n == h[i].n
  IN  /\ is = "magic" => n = Magic
      /\ is = "version" => n \in {2, 3}
      /\ is \in Lengths => n <= MaxSafe
      /\ is = "type" => n \in DOMAIN ScalarWidth \cup {String, Array}
      /\ is = "itemType" => n \in DOMAIN ScalarWidth \cup {String}
      /\ is = "nDims" => n <= 4
      /\ is = "tensorType" => n \in DOMAIN BlockSize /\ RowAt(h, i) % BlockSize[n] = 0

(* The reader takes the fields of header h up to i. *)
TakenTo(h, i) == \A j \in 1 .. i : Taken(h, j)

-----------------------------------------------------------------------------
(* How a header is laid out.                                               *)

FieldIs(h, i, is, width) == i \in DOMAIN h /\ h[i].is = is /\ h[i].width = width
EndOf(h, i) == h[i].at + h[i].width
Left(h, i, is) == Cardinality({j \in i .. Len(h) : h[j].is = is})

(* After an entry: the next one, after the last one the tensors, then nothing. *)
EntryAfter(h, i) ==
  \/ FieldIs(h, i + 1, "keyLength", 8)
  \/ FieldIs(h, i + 1, "nameLength", 8) /\ Left(h, i + 1, "keyLength") = 0
  \/ i = Len(h)

ItemsAfter(h, i) ==
  LET n == h[i].n
      itemType == h[i - 1].n
  IN  /\ itemType = String =>
           /\ \A k \in 1 .. n : FieldIs(h, i + 2 * k - 1, "itemLength", 8)
           /\ EntryAfter(h, i + 2 * n)
      /\ itemType \in DOMAIN ScalarWidth =>
           /\ \A k \in 1 .. n : FieldIs(h, i + k, "item", ScalarWidth[itemType])
           /\ EntryAfter(h, i + n)

DimsAfter(h, i) ==
  /\ \A k \in 1 .. h[i].n : FieldIs(h, i + k, "dim", 8)
  /\ FieldIs(h, i + h[i].n + 1, "tensorType", 4)

(* What field i says of those that follow. *)
After(h, i) ==
  LET n == h[i].n
      Before(is) == h[i].is = is
      Then(is, width) == FieldIs(h, i + 1, is, width)
  IN  /\ Before("magic") => Then("version", 4)
      /\ Before("version") => Then("tensorCount", 8)
      /\ Before("tensorCount") => /\ Then("kvCount", 8)
                                  /\ n <= MaxSafe => n = Left(h, i + 1, "nameLength")
      /\ Before("kvCount") => EntryAfter(h, i) /\ n = Left(h, i + 1, "keyLength")
      /\ Before("keyLength") => Then("key", n)
      /\ Before("key") => Then("type", 4)
      /\ Before("type") => /\ n = String => Then("stringLength", 8)
                           /\ n = Array => Then("itemType", 4)
                           /\ n \in DOMAIN ScalarWidth => Then("scalar", ScalarWidth[n])
      /\ Before("stringLength") => Then("string", n)
      /\ Before("string") \/ Before("scalar") => EntryAfter(h, i)
      /\ Before("itemType") => Then("length", 8)
      /\ Before("length") => ItemsAfter(h, i)
      /\ Before("itemLength") => Then("text", n)
      /\ Before("nameLength") => Then("name", n)
      /\ Before("name") => Then("nDims", 4)
      /\ Before("nDims") => DimsAfter(h, i)
      /\ Before("tensorType") => Then("tensorOffset", 8)
      /\ Before("tensorOffset") => EntryAfter(h, i)

(* The fields the reader judges only when it has read the next one. *)
Late == {"tensorCount", "itemType", "tensorType"}

(* The layout at the head of gguf-header.mjs, without a gap, up to the first *)
(* field that the reader refuses.                                           *)
LaidOut(h) ==
  /\ FieldIs(h, 1, "magic", 4) /\ h[1].at = 0
  /\ \A i \in 2 .. Len(h) : h[i].at = EndOf(h, i - 1)
  /\ \A i \in 1 .. Len(h) :
       TakenTo(h, i) \/ (TakenTo(h, i - 1) /\ h[i].is \in Late) => After(h, i)

ASSUME FilesAssumption ==
  \A f \in Files :
    /\ f.fields \in Seq(Field) /\ f.fields # <<>> /\ LaidOut(f.fields)
    /\ f.size \in Nat

=============================================================================
