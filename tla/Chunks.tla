------------------------------- MODULE Chunks -------------------------------
(***************************************************************************)
(* The chunks the model is loaded in, their keys in IndexedDB, and what a  *)
(* reader of the file sees.  A byte of the model is its position, and a    *)
(* run of bytes is where it starts and its length: the contents never      *)
(* matter, only whether they are those of the right place.                 *)
(***************************************************************************)
EXTENDS Integers

CONSTANTS
  ChunkMax,             \* CHUNK_MAX
  Size                  \* the size of the model file, in bytes

ASSUME ChunksAssumption == ChunkMax \in Nat \ {0} /\ Size \in Nat \ {0}

Run == [from : Nat, length : Nat]
NoRun == [from |-> 0, length |-> 0]

Least(a, b) == IF a <= b THEN a ELSE b

(* The chunks a read at 0..Size can touch: if the size is a multiple of     *)
(* CHUNK_MAX, a read at the end of the file touches an empty one.           *)
ChunkIds == 0 .. (Size \div ChunkMax)

ChunkOf(position) == position \div ChunkMax

Begin(c) == c * ChunkMax

ChunkSize(c) == Least(ChunkMax, Size - Begin(c))

(* Mutant: the key leaves out the chunk's position. *)
KeyOfLength(c) == <<0, ChunkSize(c)>>

(* The part of the key "chunk:<fileId>:<begin>-<end>" that varies. *)
Key(c) == <<Begin(c), Begin(c) + ChunkSize(c)>>

(* The bytes of the model chunk c has to hold. *)
Exact(c) == [from |-> Begin(c), length |-> ChunkSize(c)]

-----------------------------------------------------------------------------
(* read_raw of the fork: it reads until it has what it wants, repeats a     *)
(* read that says EAGAIN, and takes a read of no bytes for the end of file. *)
Reader == [state : {"idle", "reading", "eof", "failed"},
           pos : 0 .. Size, left : 0 .. Size, last : Run]

Resting == [state |-> "idle", pos |-> 0, left |-> 0, last |-> NoRun]

Asking(position, length) ==
  [state |-> "reading", pos |-> position, left |-> length, last |-> NoRun]

(* A read returned the bytes of run. *)
Advanced(rd, run) ==
  [state |-> IF run.length = 0 THEN "eof"
             ELSE IF run.length = rd.left THEN "idle" ELSE "reading",
   pos   |-> rd.pos + run.length,
   left  |-> rd.left - run.length,
   last  |-> run]

Refused(rd) == [rd EXCEPT !.state = "failed"]

=============================================================================
