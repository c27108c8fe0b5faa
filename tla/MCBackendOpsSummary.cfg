\* Two declared cases, up to four lines, in chunks of any length.
CONSTANTS
  Cases = {c1, c2}
  NoCase = NoCase
  Outcomes <- Texts
  MaxLines = 4
SPECIFICATION Spec
SYMMETRY CaseSymmetry
INVARIANTS
  PassIsEarned
  VerdictIsExact
CHECK_DEADLOCK FALSE
