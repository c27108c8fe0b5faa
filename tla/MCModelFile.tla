---------------------------- MODULE MCModelFile -----------------------------
(* ModelFile for TLC. *)
EXTENDS ModelFile, TLC

ReaderSymmetry == Permutations(Readers)

=============================================================================
