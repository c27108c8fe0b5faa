----------------------------- MODULE MCLanProbe -----------------------------
(***************************************************************************)
(* LanProbe for TLC: two candidates that only foundation and priority tell *)
(* apart, one of them redacted, and two reports: a pair the transport uses *)
(* while it is under way, and two pairs that won with none named.          *)
(***************************************************************************)
EXTENDS LanProbe, TLC

CONSTANTS a, b, p1, p2

BaseOf == [c \in {a, b} |-> "host"]
KeyOf == a :> 1 @@ b :> 2

Pair(state, nominated, remote) ==
  [state |-> state, nominated |-> nominated, local |-> NoStat, remote |-> remote]
SomeReports ==
  {[pairs |-> (p1 :> Pair("in-progress", FALSE, a) @@ p2 :> NoPair), selectedId |-> p1],
   [pairs |-> (p1 :> Pair("succeeded", TRUE, a) @@ p2 :> Pair("succeeded", TRUE, b)),
    selectedId |-> NoPair]}

=============================================================================
