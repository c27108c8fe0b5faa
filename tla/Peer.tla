------------------------------- MODULE Peer --------------------------------
(***************************************************************************)
(* startPeer() of src/runtime/llmlet-runtime.js: one browser serving as a  *)
(* llama.cpp RPC backend.  The WASM program loops on accept_peer() and is  *)
(* never expected to return, so unlike the requester it can only be ended  *)
(* by force, and an exit nobody asked for is a failure.                    *)
(***************************************************************************)
EXTENDS Deferreds

CONSTANT Stops          \* the calls of stop()

VARIABLES
  phase,                \* where the startup function is
  cache,                \* the IndexedDB connection chunkCache
  ready, exited,        \* the two deferreds
  stopping,
  transport,            \* the injected PeerManager: "open" or "closed"
  stop,                 \* where each call of stop() is
  wasm,                 \* what the WASM program is doing
  unkillable            \* history: a forced exit of the running program threw

vars == <<phase, cache, ready, exited, stopping, transport, stop, wasm, unkillable>>

TypeOK ==
  /\ phase \in {"import", "openCache", "factory", "done"}
  /\ cache \in Cache
  /\ ready \in Deferred /\ exited \in Deferred
  /\ stopping \in BOOLEAN
  /\ transport \in {"open", "closed"}
  /\ stop \in [Stops -> {"idle", "waitExit", "returned", "threw"}]
  /\ wasm \in {"absent", "loading", "serving", "exited", "aborted"}
  /\ unkillable \in BOOLEAN

Init ==
  /\ phase = "import" /\ cache = "none"
  /\ ready = "pending" /\ exited = "pending"
  /\ stopping = FALSE
  /\ transport = "open"
  /\ stop = [s \in Stops |-> "idle"]
  /\ wasm = "absent"
  /\ unkillable = FALSE

-----------------------------------------------------------------------------
(* fail: both deferreds are rejected if they are still pending. *)
Fail ==
  /\ ready' = Settle(ready, "rejected")
  /\ exited' = Settle(exited, "rejected")

(* onExit once stop() has set stopping. *)
ExitAsked ==
  /\ cache' = Closed(cache)
  /\ exited' = Settle(exited, "resolved")

(* Mutant: any exit passes for a clean one. *)
OnExitTrustsExit ==
  /\ ExitAsked
  /\ UNCHANGED ready

OnExit ==
  \/ /\ stopping
     /\ ExitAsked
     /\ UNCHANGED ready
  \/ /\ ~stopping
     /\ cache' = Closed(cache)
     /\ Fail

(* safeForceExit, with stopping set: the program exits and onExit runs      *)
(* before it returns, or it throws, or there is nothing to exit.            *)
ForceExit(state) ==
  \/ /\ state \in {"loading", "serving", "aborted"}
     /\ wasm' = "exited"
     /\ ExitAsked
     /\ UNCHANGED unkillable
  \/ /\ wasm' = state
     /\ unkillable' = (unkillable \/ state = "serving")
     /\ UNCHANGED <<cache, exited>>

-----------------------------------------------------------------------------
Imported ==
  /\ phase = "import"
  /\ phase' = "openCache"
  /\ UNCHANGED <<cache, ready, exited, stopping, transport, stop, wasm, unkillable>>

(* Mutant: stop() during startup is only noticed after the factory. *)
CacheOpenedAnyway ==
  /\ phase = "openCache"
  /\ phase' = "factory" /\ cache' = "open" /\ wasm' = "loading"
  /\ UNCHANGED <<ready, exited, stopping, transport, stop, unkillable>>

(* The connection is open and the Module built: call the factory, unless    *)
(* stop() landed while one of the two awaits was in flight.                 *)
CacheOpened ==
  /\ phase = "openCache"
  /\ \/ /\ stopping
        /\ phase' = "done" /\ cache' = "closed"
        /\ exited' = Settle(exited, "resolved")
        /\ UNCHANGED wasm
     \/ /\ ~stopping
        /\ phase' = "factory" /\ cache' = "open" /\ wasm' = "loading"
        /\ UNCHANGED exited
  /\ UNCHANGED <<ready, stopping, transport, stop, unkillable>>

(* Mutant: the factory's continuation does not look at stopping. *)
FactoryResolvesAnyway ==
  /\ phase = "factory" /\ wasm = "loading"
  /\ phase' = "done" /\ wasm' = "serving"
  /\ ready' = Settle(ready, "resolved")
  /\ UNCHANGED <<cache, exited, stopping, transport, stop, unkillable>>

(* The runtime is initialized: onRuntimeInitialized resolves ready whatever *)
(* stopping is, if this build calls it, and then the factory resolves.      *)
FactoryResolves ==
  /\ phase = "factory" /\ wasm = "loading"
  /\ phase' = "done"
  /\ \E hookCalled \in BOOLEAN :
       ready' = IF hookCalled \/ ~stopping THEN Settle(ready, "resolved") ELSE ready
  /\ \/ stopping /\ ForceExit("serving")
     \/ ~stopping /\ wasm' = "serving" /\ UNCHANGED <<cache, exited, unkillable>>
  /\ UNCHANGED <<stopping, transport, stop>>

(* The import, IndexedDB or the factory fails. *)
StartupFails ==
  /\ phase # "done" /\ wasm \in {"absent", "loading"}
  /\ phase' = "done"
  /\ wasm' = IF wasm = "loading" THEN "aborted" ELSE wasm
  /\ cache' = Closed(cache)
  /\ Fail
  /\ UNCHANGED <<stopping, transport, stop, unkillable>>

(* main() returns, for instance because a backend device failed to start. *)
WasmExits ==
  /\ wasm = "serving"
  /\ wasm' = "exited"
  /\ OnExit
  /\ UNCHANGED <<phase, stopping, transport, stop, unkillable>>

WasmAborts ==
  /\ wasm = "serving"
  /\ wasm' = "aborted"
  /\ Fail
  /\ UNCHANGED <<phase, cache, stopping, transport, stop, unkillable>>

-----------------------------------------------------------------------------
(* stop() up to its wait: close the transport, then force the exit.  If the *)
(* injected close() throws, the exit is forced all the same, and stop()     *)
(* rejects without waiting.                                                 *)
StopCalled(s) ==
  /\ stop[s] = "idle"
  /\ stopping' = TRUE
  /\ \/ stop' = [stop EXCEPT ![s] = "waitExit"] /\ transport' = "closed"
     \/ /\ stop' = [stop EXCEPT ![s] = "threw"]
        /\ transport' \in {transport, "closed"}
  /\ ForceExit(wasm)
  /\ UNCHANGED <<phase, ready>>

(* Mutant: ready is left to whoever settles it. *)
StopReturnsReadyPending(s) ==
  /\ stop[s] = "waitExit"
  /\ stop' = [stop EXCEPT ![s] = "returned"]
  /\ cache' = IF exited = "pending" THEN Closed(cache) ELSE cache
  /\ UNCHANGED <<phase, ready, exited, stopping, transport, wasm, unkillable>>

(* Mutant: a timeout leaves the connection to the startup function. *)
StopReturnsCacheOpen(s) ==
  /\ stop[s] = "waitExit"
  /\ stop' = [stop EXCEPT ![s] = "returned"]
  /\ ready' = Settle(ready, "rejected")
  /\ UNCHANGED <<phase, cache, exited, stopping, transport, wasm, unkillable>>

(* The wait ends, because exited settled or because stopTimeoutMs passed. *)
StopReturns(s) ==
  /\ stop[s] = "waitExit"
  /\ stop' = [stop EXCEPT ![s] = "returned"]
  /\ cache' = IF exited = "pending" THEN Closed(cache) ELSE cache
  /\ ready' = Settle(ready, "rejected")
  /\ UNCHANGED <<phase, exited, stopping, transport, wasm, unkillable>>

Startup == Imported \/ CacheOpened \/ FactoryResolves

Next ==
  \/ Startup \/ StartupFails \/ WasmExits \/ WasmAborts
  \/ \E s \in Stops : StopCalled(s) \/ StopReturns(s)

Spec == Init /\ [][Next]_vars

(* Timers fire; the startup steps are not assumed to finish. *)
TimerSpec == Spec /\ \A s \in Stops : WF_vars(StopReturns(s))

-----------------------------------------------------------------------------
(* Properties.                                                             *)

(* The end of the program is seen, and never as a success unless stop() was *)
(* called: a peer that exits by itself, with code 0 or not, has failed.     *)
DeathIsReported ==
  /\ wasm \in {"exited", "aborted"} =>
       exited # "pending" /\ (ready # "pending" \/ stopping)
  /\ exited = "resolved" => stopping

(* No server survives stop() unobserved: once startup has run its course    *)
(* and stop() has been called, the program still serves only if a forced    *)
(* exit of it threw.                                                        *)
NoOrphanServer == stopping /\ wasm = "serving" => unkillable

(* A returned stop() leaves ready settled, the transport closed and the     *)
(* connection closed, except after an abort, which closes nothing.          *)
StopCleansUp ==
  (\E s \in Stops : stop[s] = "returned") =>
    /\ ready # "pending"
    /\ transport = "closed"
    /\ cache = "open" => wasm = "aborted"

(* stop() during the import or the IndexedDB open keeps the factory from    *)
(* ever being called.                                                       *)
NothingStartsAfterStop == [][stopping /\ wasm = "absent" => wasm' = "absent"]_vars

(* Whoever awaits ready is released by a stop() whose close() did not       *)
(* throw, even if startup hangs.                                            *)
StopReleasesReady == \A s \in Stops : stop[s] = "waitExit" ~> ready # "pending"

-----------------------------------------------------------------------------
(* The inductive invariant.                                                *)

StartupShape ==
  /\ phase \in {"import", "openCache"} => wasm = "absent" /\ cache = "none"
  /\ phase \in {"import", "openCache"} => exited = "pending"
  /\ wasm = "absent" => phase # "factory" /\ cache # "open"
  /\ wasm = "exited" => cache # "open"

StopShape == \A s \in Stops :
  /\ stop[s] # "idle" => stopping
  /\ stop[s] = "waitExit" => transport = "closed"

(* Settled and open only after an abort. *)
CacheShape == exited # "pending" /\ cache = "open" => wasm = "aborted"

IInv ==
  /\ TypeOK /\ StartupShape /\ StopShape /\ CacheShape
  /\ DeathIsReported /\ NoOrphanServer /\ StopCleansUp

=============================================================================
