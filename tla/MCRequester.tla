---------------------------- MODULE MCRequester ----------------------------
(* Requester for TLC: a few generate() calls that overlap, two stop() calls. *)
EXTENDS Requester, TLC

CallSymmetry == Permutations(Calls)
HandleSymmetry == CallSymmetry \cup Permutations(Stops)

=============================================================================
