------------------------------ MODULE ByteFile ------------------------------
(***************************************************************************)
(* What the virtual model file promises the program that reads it: a file. *)
(* A read gives bytes of the model from the position asked for, at least   *)
(* one before the end of the file, none at its end; it fails only once the *)
(* source of the model has failed.  In a chunk the source has sent too few *)
(* bytes of, and only there, a read may find no more bytes, or fail.       *)
(***************************************************************************)
EXTENDS Chunks

CONSTANT Readers

VARIABLES
  reader,               \* what each reader asks for, and the last bytes it got
  failed,               \* the source of the model has failed
  cut                   \* the chunks it has sent too few bytes of

vars == <<reader, failed, cut>>

Init ==
  /\ reader = [r \in Readers |-> Resting]
  /\ failed = FALSE
  /\ cut \in SUBSET ChunkIds

Request(r) ==
  /\ reader[r].state # "reading"
  /\ \E p \in 0 .. Size, n \in 1 .. Size :
       reader' = [reader EXCEPT ![r] = Asking(p, n)]
  /\ UNCHANGED <<failed, cut>>

Give(r) ==
  /\ reader[r].state = "reading"
  /\ \E n \in 1 .. reader[r].left :
       /\ reader[r].pos + n <= Size
       /\ reader' = [reader EXCEPT ![r] = Advanced(@, [from |-> @.pos, length |-> n])]
  /\ UNCHANGED <<failed, cut>>

AtEnd(r) ==
  /\ reader[r].state = "reading"
  /\ reader[r].pos = Size \/ ChunkOf(reader[r].pos) \in cut
  /\ reader' = [reader EXCEPT ![r] = Advanced(@, [from |-> @.pos, length |-> 0])]
  /\ UNCHANGED <<failed, cut>>

Refuse(r) ==
  /\ reader[r].state = "reading"
  /\ failed \/ ChunkOf(reader[r].pos) \in cut
  /\ reader' = [reader EXCEPT ![r] = Refused(@)]
  /\ UNCHANGED <<failed, cut>>

SourceFails ==
  /\ failed' = TRUE
  /\ UNCHANGED <<reader, cut>>

(* The source sends too few bytes of chunk c. *)
SourceCuts(c) ==
  /\ cut' = cut \cup {c}
  /\ UNCHANGED <<reader, failed>>

Next ==
  \/ SourceFails
  \/ \E c \in ChunkIds : SourceCuts(c)
  \/ \E r \in Readers : Request(r) \/ Give(r) \/ AtEnd(r) \/ Refuse(r)

Spec == Init /\ [][Next]_vars

=============================================================================
