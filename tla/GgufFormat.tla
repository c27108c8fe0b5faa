----------------------------- MODULE GgufFormat -----------------------------
(***************************************************************************)
(* How a GGUF file is laid out, as the head of gguf-header.mjs has it: the *)
(* fields of its header in order, then padding and tensor data.            *)
(***************************************************************************)
EXTENDS Integers, Sequences, SequencesExt

U32(is, n) == [is |-> is, width |-> 4, n |-> n]
U64(is, n) == [is |-> is, width |-> 8, n |-> n]
Text(length, bytes, n) == <<U64(length, n), [is |-> bytes, width |-> n, n |-> 0]>>

(* Metadata: a key and a value. *)
Entry(type, value) == Text("keyLength", "key", 3) \o <<U32("type", type)>> \o value
Scalar(type, width) == Entry(type, <<[is |-> "scalar", width |-> width, n |-> 0]>>)
Word(n) == Entry(8, Text("stringLength", "string", n))

Texts(lengths) ==
  Entry(9, <<U32("itemType", 8), U64("length", Len(lengths))>>
           \o FlattenSeq([i \in 1 .. Len(lengths) |-> Text("itemLength", "text", lengths[i])]))
Numbers(itemType, width, length) ==
  Entry(9, <<U32("itemType", itemType), U64("length", length)>>
           \o [i \in 1 .. length |-> [is |-> "item", width |-> width, n |-> 0]])

Tensor(dims, type) ==
  Text("nameLength", "name", 2) \o <<U32("nDims", Len(dims))>>
  \o [i \in 1 .. Len(dims) |-> U64("dim", dims[i])]
  \o <<U32("tensorType", type), U64("tensorOffset", 0)>>

(* Every field at the sum of the widths of those before it. *)
Placed(fields) ==
  FoldLeft(LAMBDA placed, f :
             LET end == IF placed = <<>> THEN 0 ELSE Last(placed).at + Last(placed).width
             IN  Append(placed, [is |-> f.is, at |-> end, width |-> f.width, n |-> f.n]),
           <<>>, fields)

Header(magic, version, entries, tensors) ==
  Placed(<<U32("magic", magic), U32("version", version),
           U64("tensorCount", Len(tensors)), U64("kvCount", Len(entries))>>
         \o FlattenSeq(entries) \o FlattenSeq(tensors))

(* A file of that header that has n bytes more, or lacks n of its bytes. *)
File(fields, n) == [fields |-> fields, size |-> Last(fields).at + Last(fields).width + n]

=============================================================================
