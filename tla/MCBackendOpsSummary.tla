------------------------ MODULE MCBackendOpsSummary ------------------------
(* BackendOpsSummary for TLC: two cases, and the outcomes as texts. *)
EXTENDS BackendOpsSummary, TLC

Texts == {{"ok"}, {"fail"}, {"unsupported", "fail"}}

CaseSymmetry == Permutations(Cases)

=============================================================================
