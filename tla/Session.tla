------------------------------ MODULE Session ------------------------------
(***************************************************************************)
(* What the handle returned by startRequester promises the Web application *)
(* about generate(), cancel() and stop(), with no mention of WASM, of the  *)
(* prompt callback or of the startup sequence.                             *)
(*                                                                         *)
(* An answer is a text that either runs to the end ("whole") or was cut    *)
(* short ("cut").  At most one generation runs, an answer that was cut is  *)
(* handed over only to a caller that asked for a short answer, and once    *)
(* stop() has been called no generation begins and none is answered.       *)
(***************************************************************************)

CONSTANT Calls          \* the calls of generate() the application makes

VARIABLES
  call,                 \* where each call of generate() is
  text,                 \* what each answered call was given
  cancelled,            \* the calls cancel() was called on while they ran
  stopping              \* stop() has been called

vars == <<call, text, cancelled, stopping>>

Pending == {"waiting", "running"}
Settled == {"answered", "interrupted", "failed", "refused"}

TypeOK ==
  /\ call \in [Calls -> {"idle"} \cup Pending \cup Settled]
  /\ text \in [Calls -> {"none", "whole", "cut"}]
  /\ cancelled \in SUBSET Calls
  /\ stopping \in BOOLEAN

Init ==
  /\ call = [c \in Calls |-> "idle"]
  /\ text = [c \in Calls |-> "none"]
  /\ cancelled = {}
  /\ stopping = FALSE

Move(c, from, to) ==
  /\ call[c] = from
  /\ call' = [call EXCEPT ![c] = to]

(* generate() is called, and the Runtime may not be ready for it yet. *)
Submit(c) ==
  /\ Move(c, "idle", "waiting")
  /\ ~stopping
  /\ UNCHANGED <<text, cancelled, stopping>>

(* generate() rejects without its prompt having reached the Runtime. *)
Refuse(c) ==
  /\ \/ Move(c, "idle", "refused")
     \/ Move(c, "waiting", "refused")
  /\ UNCHANGED <<text, cancelled, stopping>>

Begin(c) ==
  /\ Move(c, "waiting", "running")
  /\ ~stopping
  /\ \A d \in Calls : call[d] # "running"
  /\ UNCHANGED <<text, cancelled, stopping>>

(* generate() resolves: with a cut answer only if the caller cancelled. *)
Answer(c) ==
  /\ Move(c, "running", "answered")
  /\ ~stopping
  /\ \E t \in {"whole", "cut"} :
       /\ t = "cut" => c \in cancelled
       /\ text' = [text EXCEPT ![c] = t]
  /\ UNCHANGED <<cancelled, stopping>>

(* generate() rejects because stop() cut it short. *)
Interrupt(c) ==
  /\ Move(c, "running", "interrupted")
  /\ stopping
  /\ UNCHANGED <<text, cancelled, stopping>>

(* generate() rejects because the Runtime failed. *)
Break(c) ==
  /\ Move(c, "running", "failed")
  /\ UNCHANGED <<text, cancelled, stopping>>

Cancel(c) ==
  /\ call[c] = "running"
  /\ cancelled' = cancelled \cup {c}
  /\ UNCHANGED <<call, text, stopping>>

Stop ==
  /\ stopping' = TRUE
  /\ UNCHANGED <<call, text, cancelled>>

Next ==
  \/ Stop
  \/ \E c \in Calls : \/ Submit(c) \/ Refuse(c) \/ Begin(c) \/ Answer(c)
                      \/ Interrupt(c) \/ Break(c) \/ Cancel(c)

Spec == Init /\ [][Next]_vars

=============================================================================
