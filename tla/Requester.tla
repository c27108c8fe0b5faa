----------------------------- MODULE Requester -----------------------------
(***************************************************************************)
(* startRequester() of src/runtime/llmlet-runtime.js: the handle a Web     *)
(* application holds on one llmlet Runtime.                                *)
(*                                                                         *)
(* Three parties share its closure variables and run on one JavaScript     *)
(* thread, so each handler is one step: the asynchronous startup sequence, *)
(* the callbacks the WASM program makes (pending_prompt, isDecodingCancel, *)
(* onExit, onAbort), and the application's calls of generate(), cancel()   *)
(* and stop().  A function that awaits is one action per piece between two *)
(* awaits.  The WASM program, llmlet's main.cpp, is external: it is the    *)
(* variables wasm, served and decode.                                      *)
(***************************************************************************)
EXTENDS Deferreds

CONSTANTS
  Calls,                \* calls of generate()
  Stops,                \* calls of stop()
  NoCall                \* no generation: the code's null

ASSUME NoCallAssumption == NoCall \notin Calls

VARIABLES
  phase,                \* where the startup function is
  cache,                \* the IndexedDB connection chunkCache
  ready, exited,        \* the two deferreds of the handle
  promptWaiter,         \* a prompt callback is held
  activeGeneration,     \* the call whose deferred is live, or NoCall
  cancelRequested, stopRequested, stopped,
  call,                 \* where each call of generate() is
  stop,                 \* where each call of stop() is
  transport,            \* the injected PeerManager: "open" or "closed"
  wasm,                 \* what the WASM program is doing
  served,               \* the call whose prompt it was given last
  decode,               \* what it has made of each call's prompt
  cancelled             \* history: the calls cancel() was called on

jsVars == <<phase, cache, ready, exited, promptWaiter, activeGeneration,
            cancelRequested, stopRequested, stopped, call, stop, transport>>
vars == <<phase, cache, ready, exited, promptWaiter, activeGeneration,
          cancelRequested, stopRequested, stopped, call, stop, transport,
          wasm, served, decode, cancelled>>

(* The WASM program's main() is under way, and not parked for a prompt. *)
Busy == {"starting", "decoding", "decoded", "ending"}

TypeOK ==
  /\ phase \in {"import", "openCache", "prepare", "factory", "done"}
  /\ cache \in Cache
  /\ ready \in Deferred /\ exited \in Deferred
  /\ promptWaiter \in BOOLEAN
  /\ activeGeneration \in Calls \cup {NoCall}
  /\ cancelRequested \in BOOLEAN /\ stopRequested \in BOOLEAN /\ stopped \in BOOLEAN
  /\ call \in [Calls -> {"idle", "waiting", "running",
                         "answered", "interrupted", "failed", "refused"}]
  /\ stop \in [Stops -> {"idle", "waitExit", "waitForced", "returned", "threw"}]
  /\ transport \in {"open", "closed"}
  /\ wasm \in Busy \cup {"absent", "loading", "asking", "exited", "aborted"}
  /\ served \in Calls \cup {NoCall}
  /\ decode \in [Calls -> {"none", "started", "whole", "cut"}]
  /\ cancelled \in SUBSET Calls

Init ==
  /\ phase = "import" /\ cache = "none"
  /\ ready = "pending" /\ exited = "pending"
  /\ promptWaiter = FALSE
  /\ activeGeneration = NoCall
  /\ cancelRequested = FALSE /\ stopRequested = FALSE /\ stopped = FALSE
  /\ call = [c \in Calls |-> "idle"]
  /\ stop = [s \in Stops |-> "idle"]
  /\ transport = "open"
  /\ wasm = "absent" /\ served = NoCall
  /\ decode = [c \in Calls |-> "none"]
  /\ cancelled = {}

-----------------------------------------------------------------------------
(* Pieces the handlers share.                                              *)

(* Settle the live generation, if any; also what abortGeneration does. *)
SettleGeneration(outcome) ==
  /\ activeGeneration' = NoCall
  /\ cancelRequested' = (cancelRequested /\ activeGeneration = NoCall)
  /\ call' = [c \in Calls |-> IF c = activeGeneration THEN outcome ELSE call[c]]

(* Mutant: the failure path forgets the running generation. *)
FailForgetsGeneration ==
  /\ ready' = Settle(ready, "rejected")
  /\ exited' = Settle(exited, "rejected")
  /\ UNCHANGED <<activeGeneration, cancelRequested, call>>

Fail ==
  /\ ready' = Settle(ready, "rejected")
  /\ SettleGeneration("failed")
  /\ exited' = Settle(exited, "rejected")

(* Mutant: an exit nobody asked for passes for a clean one. *)
OnExitTrustsExit ==
  /\ stopped' = TRUE
  /\ cache' = Closed(cache)
  /\ exited' = Settle(exited, "resolved")
  /\ IF stopRequested THEN SettleGeneration("interrupted")
     ELSE UNCHANGED <<activeGeneration, cancelRequested, call>>
  /\ UNCHANGED ready

(* Mutant: a forced exit hands over the truncated answer as a finished one. *)
OnExitAnswers ==
  /\ stopped' = TRUE
  /\ cache' = Closed(cache)
  /\ \/ /\ stopRequested
        /\ SettleGeneration("answered")
        /\ exited' = Settle(exited, "resolved")
        /\ UNCHANGED ready
     \/ /\ ~stopRequested
        /\ Fail

OnExit ==
  /\ stopped' = TRUE
  /\ cache' = Closed(cache)
  /\ \/ /\ stopRequested
        /\ SettleGeneration("interrupted")
        /\ exited' = Settle(exited, "resolved")
        /\ UNCHANGED ready
     \/ /\ ~stopRequested
        /\ Fail

(* safeForceExit: onExit is called before force_exit returns, unless there  *)
(* is no program to exit yet or WebGPU cleanup throws first.                *)
ForceExit(state) ==
  \/ /\ state \in Busy \cup {"loading", "asking"}
     /\ wasm' = "exited"
     /\ OnExit
  \/ /\ wasm' = state
     /\ UNCHANGED <<cache, ready, exited, activeGeneration, cancelRequested,
                    stopped, call>>

-----------------------------------------------------------------------------
(* Startup.                                                                *)

Imported ==
  /\ phase = "import"
  /\ phase' = "openCache"
  /\ UNCHANGED <<transport, cache, ready, exited, promptWaiter, activeGeneration,
                 cancelRequested, stopRequested, stopped, call, stop,
                 wasm, served, decode, cancelled>>

CacheOpened ==
  /\ phase = "openCache"
  /\ phase' = "prepare"
  /\ cache' = "open"
  /\ UNCHANGED <<transport, ready, exited, promptWaiter, activeGeneration,
                 cancelRequested, stopRequested, stopped, call, stop,
                 wasm, served, decode, cancelled>>

(* Mutant: startup does not look at stopRequested before the factory. *)
ModelPreparedAnyway ==
  /\ phase = "prepare"
  /\ phase' = "factory"
  /\ wasm' = "loading"
  /\ UNCHANGED <<transport, cache, ready, exited, promptWaiter, activeGeneration,
                 cancelRequested, stopRequested, stopped, call, stop,
                 served, decode, cancelled>>

(* Mutant: startup gives up without closing the connection it opened. *)
ModelPreparedKeepsCache ==
  /\ phase = "prepare"
  /\ phase' = IF stopRequested THEN "done" ELSE "factory"
  /\ stopped' = (stopped \/ stopRequested)
  /\ exited' = IF stopRequested THEN Settle(exited, "resolved") ELSE exited
  /\ wasm' = IF stopRequested THEN wasm ELSE "loading"
  /\ UNCHANGED <<transport, cache, ready, promptWaiter, activeGeneration, cancelRequested,
                 stopRequested, call, stop, served, decode, cancelled>>

(* prepareModel is done: call the factory, unless stop() landed meanwhile. *)
ModelPrepared ==
  /\ phase = "prepare"
  /\ \/ /\ stopRequested
        /\ phase' = "done"
        /\ stopped' = TRUE
        /\ cache' = Closed(cache)
        /\ exited' = Settle(exited, "resolved")
        /\ UNCHANGED wasm
     \/ /\ ~stopRequested
        /\ phase' = "factory"
        /\ wasm' = "loading"
        /\ UNCHANGED <<stopped, cache, exited>>
  /\ UNCHANGED <<transport, ready, promptWaiter, activeGeneration, cancelRequested,
                 stopRequested, call, stop, served, decode, cancelled>>

(* The factory resolves just before it starts main(). *)
FactoryResolves ==
  /\ phase = "factory" /\ wasm = "loading"
  /\ phase' = "done"
  /\ \/ stopRequested /\ ForceExit("starting")
     \/ /\ ~stopRequested
        /\ wasm' = "starting"
        /\ UNCHANGED <<cache, ready, exited, activeGeneration, cancelRequested,
                       stopped, call>>
  /\ UNCHANGED <<transport, promptWaiter, stopRequested, stop, served, decode, cancelled>>

(* The import, IndexedDB, the model source or the factory fails. *)
StartupFails ==
  /\ phase # "done" /\ wasm \in {"absent", "loading"}
  /\ phase' = "done"
  /\ wasm' = IF wasm = "loading" THEN "aborted" ELSE wasm
  /\ cache' = Closed(cache)
  /\ Fail
  /\ UNCHANGED <<promptWaiter, stopRequested, stopped, stop, transport,
                 served, decode, cancelled>>

Startup == Imported \/ CacheOpened \/ ModelPrepared \/ FactoryResolves

-----------------------------------------------------------------------------
(* The WASM program and its callbacks.                                     *)

(* Mutant: pending_prompt parks the program although stop() was called. *)
PendingPromptIgnoresStop ==
  /\ wasm \in {"starting", "decoded"}
  /\ ready' = Settle(ready, "resolved")
  /\ SettleGeneration(IF stopRequested THEN "interrupted" ELSE "answered")
  /\ wasm' = "asking"
  /\ promptWaiter' = TRUE
  /\ UNCHANGED <<transport, phase, cache, exited, stopRequested, stopped, stop,
                 served, decode, cancelled>>

(* Mutant: pending_prompt leaves the generation it should resolve live. *)
PendingPromptKeepsGeneration ==
  /\ wasm \in {"starting", "decoded"}
  /\ ready' = Settle(ready, "resolved")
  /\ wasm' = IF stopRequested THEN "ending" ELSE "asking"
  /\ promptWaiter' = ~stopRequested
  /\ UNCHANGED <<transport, phase, cache, exited, activeGeneration, cancelRequested,
                 stopRequested, stopped, call, stop, served, decode, cancelled>>

(* pending_prompt: the model is loaded, or the last generation is done. *)
PendingPrompt ==
  /\ wasm \in {"starting", "decoded"}
  /\ ready' = Settle(ready, "resolved")
  /\ \/ /\ stopRequested
        /\ SettleGeneration("interrupted")
        /\ wasm' = "ending"
        /\ UNCHANGED promptWaiter
     \/ /\ ~stopRequested
        /\ SettleGeneration("answered")
        /\ wasm' = "asking"
        /\ promptWaiter' = TRUE
  /\ UNCHANGED <<transport, phase, cache, exited, stopRequested, stopped, stop,
                 served, decode, cancelled>>

(* Decoding runs to the end of the answer. *)
DecodeEnds ==
  /\ wasm = "decoding"
  /\ wasm' = "decoded"
  /\ decode' = [decode EXCEPT ![served] = "whole"]
  /\ UNCHANGED jsVars
  /\ UNCHANGED <<served, cancelled>>

(* isDecodingCancel returns 1 between two tokens. *)
DecodeCut ==
  /\ wasm = "decoding"
  /\ cancelRequested
  /\ wasm' = "decoded"
  /\ decode' = [decode EXCEPT ![served] = "cut"]
  /\ UNCHANGED jsVars
  /\ UNCHANGED <<served, cancelled>>

(* main() returns: after an empty prompt, or early on an error. *)
WasmExits ==
  /\ wasm \in Busy
  /\ wasm' = "exited"
  /\ OnExit
  /\ UNCHANGED <<phase, promptWaiter, stopRequested, stop, transport,
                 served, decode, cancelled>>

(* An assertion, a trap or a lost device: onAbort, and no callback follows. *)
WasmAborts ==
  /\ wasm \in Busy \cup {"asking"}
  /\ wasm' = "aborted"
  /\ Fail
  /\ UNCHANGED <<transport, phase, cache, promptWaiter, stopRequested, stopped, stop,
                 served, decode, cancelled>>

-----------------------------------------------------------------------------
(* The application's calls.                                                *)

GenerateCalled(c) ==
  /\ call[c] = "idle"
  /\ call' = [call EXCEPT ![c] = IF stopRequested \/ stopped THEN "refused" ELSE "waiting"]
  /\ UNCHANGED <<transport, phase, cache, ready, exited, promptWaiter, activeGeneration,
                 cancelRequested, stopRequested, stopped, stop,
                 wasm, served, decode, cancelled>>

(* deliverPrompt: the callback is used up; an aborted program never hears it. *)
DeliverPrompt(c) ==
  /\ promptWaiter' = FALSE
  /\ \/ /\ wasm = "asking"
        /\ wasm' = "decoding"
        /\ served' = c
        /\ decode' = [decode EXCEPT ![c] = "started"]
     \/ /\ wasm # "asking"
        /\ UNCHANGED <<wasm, served, decode>>

(* What generate() still requires after it has awaited ready. *)
MayBegin == /\ ready = "resolved"
            /\ ~stopRequested /\ ~stopped
            /\ activeGeneration = NoCall
            /\ promptWaiter

GenerateBegins(c) ==
  /\ call[c] = "waiting"
  /\ MayBegin
  /\ call' = [call EXCEPT ![c] = "running"]
  /\ activeGeneration' = c
  /\ cancelRequested' = FALSE
  /\ DeliverPrompt(c)
  /\ UNCHANGED <<phase, cache, ready, exited, stopRequested, stopped, stop,
                 transport, cancelled>>

GenerateRefused(c) ==
  /\ call[c] = "waiting"
  /\ ready # "pending"
  /\ ~MayBegin
  /\ call' = [call EXCEPT ![c] = "refused"]
  /\ UNCHANGED <<transport, phase, cache, ready, exited, promptWaiter, activeGeneration,
                 cancelRequested, stopRequested, stopped, stop,
                 wasm, served, decode, cancelled>>

Cancel ==
  /\ activeGeneration # NoCall
  /\ cancelRequested' = TRUE
  /\ cancelled' = cancelled \cup {activeGeneration}
  /\ UNCHANGED <<transport, phase, cache, ready, exited, promptWaiter, activeGeneration,
                 stopRequested, stopped, call, stop, wasm, served, decode>>

StopCalled(s) ==
  /\ stop[s] = "idle"
  /\ stop' = [stop EXCEPT ![s] = "waitExit"]
  /\ stopRequested' = TRUE
  /\ cancelRequested' = TRUE
  /\ promptWaiter' = FALSE
  /\ wasm' = IF promptWaiter /\ wasm = "asking" THEN "ending" ELSE wasm
  /\ UNCHANGED <<transport, phase, cache, ready, exited, activeGeneration, stopped, call,
                 served, decode, cancelled>>

(* Mutant: stop() settles the generation but leaves ready as it is. *)
StopReturnsReadyPending(s) ==
  /\ stop' = [stop EXCEPT ![s] = "returned"]
  /\ SettleGeneration("interrupted")
  /\ UNCHANGED ready

(* The last two lines of stop(), after either outcome of its waits. *)
StopReturns(s) ==
  /\ stop' = [stop EXCEPT ![s] = "returned"]
  /\ SettleGeneration("interrupted")
  /\ ready' = Settle(ready, "rejected")

StopSeesExit(s) ==
  /\ stop[s] \in {"waitExit", "waitForced"}
  /\ exited # "pending"
  /\ StopReturns(s)
  /\ UNCHANGED <<transport, phase, cache, exited, promptWaiter, stopRequested, stopped,
                 wasm, served, decode, cancelled>>

(* stopTimeoutMs has passed: close the transport and force the exit.  If    *)
(* the injected close() throws, stop() rejects there and does nothing more. *)
StopForces(s) ==
  /\ stop[s] = "waitExit"
  /\ exited = "pending"
  /\ \/ /\ stop' = [stop EXCEPT ![s] = "waitForced"]
        /\ transport' = "closed"
        /\ ForceExit(wasm)
     \/ /\ stop' = [stop EXCEPT ![s] = "threw"]
        /\ transport' \in {transport, "closed"}
        /\ UNCHANGED <<cache, ready, exited, activeGeneration, cancelRequested,
                       stopped, call, wasm>>
  /\ UNCHANGED <<phase, promptWaiter, stopRequested, served, decode, cancelled>>

(* Mutant: stop() gives up without closing the connection. *)
StopGivesUpCacheOpen(s) ==
  /\ stop[s] = "waitForced"
  /\ exited = "pending"
  /\ StopReturns(s)
  /\ UNCHANGED <<transport, phase, cache, exited, promptWaiter, stopRequested, stopped,
                 wasm, served, decode, cancelled>>

(* The second timeout has passed too. *)
StopGivesUp(s) ==
  /\ stop[s] = "waitForced"
  /\ exited = "pending"
  /\ cache' = Closed(cache)
  /\ StopReturns(s)
  /\ UNCHANGED <<transport, phase, exited, promptWaiter, stopRequested, stopped,
                 wasm, served, decode, cancelled>>

-----------------------------------------------------------------------------
Wasm == PendingPrompt \/ DecodeEnds \/ DecodeCut \/ WasmExits \/ WasmAborts

Generate(c) == GenerateBegins(c) \/ GenerateRefused(c)

Stopping(s) == StopSeesExit(s) \/ StopForces(s) \/ StopGivesUp(s)

Next ==
  \/ Startup \/ StartupFails \/ Wasm \/ Cancel
  \/ \E c \in Calls : GenerateCalled(c) \/ Generate(c)
  \/ \E s \in Stops : StopCalled(s) \/ Stopping(s)

Spec == Init /\ [][Next]_vars

(* The browser fires timers and runs promise continuations. *)
TimersFair ==
  /\ \A s \in Stops : WF_vars(Stopping(s))
  /\ \A c \in Calls : WF_vars(Generate(c))

TimerSpec == Spec /\ TimersFair

(* The startup steps finish and the WASM program makes progress: the code    *)
(* has no watchdog for either, so a property that needs it says so.         *)
Progress == WF_vars(Startup) /\ WF_vars(PendingPrompt) /\ WF_vars(DecodeEnds)

-----------------------------------------------------------------------------
(* Properties.                                                             *)

(* The program never parks in get_next_prompt with nobody able to wake it:  *)
(* while it waits for a prompt its callback is held, and stop() has not     *)
(* been called, since stop() and pending_prompt answer it with "".          *)
ParkedIsWakeable == wasm = "asking" => promptWaiter /\ ~stopRequested

(* The live deferred belongs to the prompt the program is working on, so    *)
(* that the next pending_prompt settles the call it answers.  Only a prompt *)
(* handed to a program that had already aborted is lost.                    *)
ActiveIsServed ==
  activeGeneration # NoCall /\ wasm # "aborted"
    => wasm \in {"decoding", "decoded"} /\ served = activeGeneration

(* The end of the program is always seen: once it has exited or aborted,    *)
(* exited is settled, an exit leaves no generation running, and ready is    *)
(* settled unless a stop() is still under way to settle it.                 *)
DeathIsReported ==
  wasm \in {"exited", "aborted"} =>
    /\ exited # "pending"
    /\ ready # "pending" \/ stopRequested
    /\ wasm = "exited" => activeGeneration = NoCall

(* What a returned stop() leaves behind: no generation is running, ready is *)
(* settled, no program runs over a transport that is still open, and the    *)
(* IndexedDB connection is closed - except while startup has yet to reach   *)
(* its own check of stopRequested, and except after an abort, which settles *)
(* exited but closes nothing.                                               *)
StopCleansUp ==
  (\E s \in Stops : stop[s] = "returned") =>
    /\ activeGeneration = NoCall /\ \A c \in Calls : call[c] # "running"
    /\ ready # "pending"
    /\ transport = "closed" \/ wasm \in {"absent", "exited", "aborted"}
    /\ cache = "open" => phase = "prepare" \/ wasm = "aborted"

(* The factory is never called, and no prompt reaches the program, once     *)
(* stop() has been called, whatever await the startup or generate() was in. *)
NothingStartsAfterStop ==
  [][stopRequested => /\ wasm = "absent" => wasm' = "absent"
                      /\ \A c \in Calls : decode[c] = "none" => decode'[c] = "none"]_vars

(* The handle keeps the promises of Session: the answer a call resolves     *)
(* with is the program's answer to that call's own prompt, and is a cut one *)
(* only if cancel() asked for that, never because of stop() or of a cancel  *)
(* meant for another call.                                                  *)
AnswerGiven == [c \in Calls |-> IF call[c] = "answered" THEN decode[c] ELSE "none"]

Handle == INSTANCE Session WITH text <- AnswerGiven, stopping <- stopRequested

ImplementsSession == Handle!Spec

(* stop() ends, and if it did not reject because close() threw, no caller   *)
(* of generate() stays parked after it, even if the program hangs and       *)
(* startup never finishes: the two timers suffice.                          *)
StopReleasesEveryone ==
  stopRequested ~> [](/\ \A s \in Stops : stop[s] \in {"idle", "returned", "threw"}
                      /\ (\E s \in Stops : stop[s] = "returned") =>
                            \A c \in Calls : call[c] \notin {"waiting", "running"})

(* A generation the living program was given settles without any stop(), as *)
(* long as the program makes progress or ends.                              *)
GenerationSettles ==
  Progress =>
    \A c \in Calls : call[c] = "running" /\ wasm # "aborted" ~> call[c] # "running"

(* After a stop() that returned, the IndexedDB connection does not stay     *)
(* open once startup has had its turn, unless the program aborted.          *)
CacheIsReleased ==
  Progress =>
    ((\E s \in Stops : stop[s] = "returned") ~> [](cache # "open" \/ wasm = "aborted"))

-----------------------------------------------------------------------------
(* The inductive invariant: the properties above and what they rest on.    *)

StartupShape ==
  /\ phase \in {"import", "openCache", "prepare"} => wasm = "absent" /\ exited = "pending"
  /\ phase \in {"import", "openCache"} => cache = "none"

StopShape == \A s \in Stops :
  /\ stop[s] # "idle" => stopRequested
  /\ stop[s] = "waitForced" => transport = "closed"

WaiterShape == promptWaiter => wasm \in {"asking", "aborted"}

RunningShape == \A c \in Calls : call[c] = "running" <=> c = activeGeneration

CacheShape == exited # "pending" => cache # "open" \/ wasm = "aborted"

(* Once exited is settled, no program runs, and startup will not start one. *)
ExitShape == exited # "pending" =>
  wasm \in {"exited", "aborted"} \/ (wasm = "absent" /\ phase = "done")

CutShape ==
  /\ cancelRequested => stopRequested \/ activeGeneration \in cancelled
  /\ wasm = "decoding" => /\ served \in Calls
                          /\ call[served] # "answered" /\ decode[served] # "none"
  /\ wasm = "decoded" => /\ served \in Calls /\ decode[served] \in {"whole", "cut"}
                         /\ decode[served] = "cut" => stopRequested \/ served \in cancelled

(* The whole of it, checked by TLC and proved inductive in RequesterProofs. *)
IInv ==
  /\ TypeOK /\ StartupShape /\ StopShape /\ WaiterShape /\ RunningShape
  /\ CacheShape /\ ExitShape /\ CutShape
  /\ ParkedIsWakeable /\ ActiveIsServed /\ DeathIsReported /\ StopCleansUp

=============================================================================
