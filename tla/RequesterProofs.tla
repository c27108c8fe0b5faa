-------------------------- MODULE RequesterProofs --------------------------
(* Proofs about startRequester, for any number of calls of generate() and   *)
(* of stop().                                                              *)
EXTENDS Requester, TLAPS

(* The shared pieces of the handlers keep the types of what they assign.   *)

CallState == {"idle", "waiting", "running", "answered", "interrupted", "failed", "refused"}

GenerationTyped ==
  /\ activeGeneration \in Calls \cup {NoCall}
  /\ cancelRequested \in BOOLEAN
  /\ call \in [Calls -> CallState]

LEMMA SettleTyped ==
  ASSUME NEW d \in Deferred, NEW how \in Deferred
  PROVE  Settle(d, how) \in Deferred
BY DEF Settle

LEMMA ClosedTyped ==
  ASSUME NEW db \in Cache
  PROVE  Closed(db) \in Cache
BY DEF Closed, Cache

LEMMA SettleGenerationTyped ==
  ASSUME TypeOK, NEW outcome \in CallState, SettleGeneration(outcome)
  PROVE  GenerationTyped'
BY DEF TypeOK, SettleGeneration, GenerationTyped, CallState

LEMMA FailTyped ==
  ASSUME TypeOK, Fail
  PROVE  GenerationTyped' /\ ready' \in Deferred /\ exited' \in Deferred
<1>1. GenerationTyped'
  BY SettleGenerationTyped DEF Fail, CallState
<1>2. ready' \in Deferred /\ exited' \in Deferred
  BY SettleTyped DEF TypeOK, Fail, Deferred
<1> QED
  BY <1>1, <1>2

LEMMA OnExitTyped ==
  ASSUME TypeOK, OnExit
  PROVE  /\ GenerationTyped' /\ ready' \in Deferred /\ exited' \in Deferred
         /\ stopped' \in BOOLEAN /\ cache' \in Cache
<1>1. stopped' \in BOOLEAN /\ cache' \in Cache
  BY ClosedTyped DEF TypeOK, OnExit
<1>2. CASE stopRequested
  <2>1. SettleGeneration("interrupted") /\ ready' = ready
    BY <1>2 DEF OnExit
  <2>2. exited' \in Deferred
    BY <1>2, SettleTyped DEF TypeOK, OnExit, Deferred
  <2> QED
    BY <1>1, <2>1, <2>2, SettleGenerationTyped DEF TypeOK, CallState
<1>3. CASE ~stopRequested
  BY <1>1, <1>3, FailTyped DEF OnExit
<1> QED
  BY <1>2, <1>3

LEMMA ForceExitTyped ==
  ASSUME TypeOK,
         NEW state \in Busy \cup {"absent", "loading", "asking", "exited", "aborted"},
         ForceExit(state)
  PROVE  /\ GenerationTyped' /\ ready' \in Deferred /\ exited' \in Deferred
         /\ stopped' \in BOOLEAN /\ cache' \in Cache
         /\ wasm' \in Busy \cup {"absent", "loading", "asking", "exited", "aborted"}
<1>1. CASE wasm' = "exited" /\ OnExit
  BY <1>1, OnExitTyped
<1>2. CASE wasm' = state /\ UNCHANGED <<cache, ready, exited, activeGeneration,
                                        cancelRequested, stopped, call>>
  BY <1>2 DEF TypeOK, GenerationTyped, CallState
<1> QED
  BY <1>1, <1>2 DEF ForceExit

(* Every step keeps the types. *)
LEMMA TypeStep ==
  ASSUME TypeOK, [Next]_vars
  PROVE  TypeOK'
<1> USE NoCallAssumption
<1> USE DEF TypeOK, Deferred, Cache, Busy, GenerationTyped, CallState
<1>1. CASE Imported
  BY <1>1 DEF Imported
<1>2. CASE CacheOpened
  BY <1>2 DEF CacheOpened
<1>3. CASE ModelPrepared
  <2>1. Settle(exited, "resolved") \in Deferred /\ Closed(cache) \in Cache
    BY SettleTyped, ClosedTyped
  <2>2. exited' \in Deferred /\ cache' \in Cache
    BY <1>3, <2>1 DEF ModelPrepared
  <2>3. phase' \in {"done", "factory"} /\ stopped' \in BOOLEAN
        /\ wasm' \in {wasm, "loading"}
    BY <1>3 DEF ModelPrepared
  <2> QED
    BY <1>3, <2>2, <2>3 DEF ModelPrepared
<1>4. CASE FactoryResolves
  BY <1>4, ForceExitTyped DEF FactoryResolves
<1>5. CASE StartupFails
  BY <1>5, FailTyped, ClosedTyped DEF StartupFails
<1>6. CASE PendingPrompt
  <2>1. GenerationTyped'
    BY <1>6, SettleGenerationTyped DEF PendingPrompt
  <2>2. ready' \in Deferred
    BY <1>6, SettleTyped DEF PendingPrompt
  <2>3. wasm' \in {"ending", "asking"} /\ promptWaiter' \in BOOLEAN
    BY <1>6 DEF PendingPrompt
  <2>4. UNCHANGED <<transport, phase, cache, exited, stopRequested, stopped,
                    stop, served, decode, cancelled>>
    BY <1>6 DEF PendingPrompt
  <2> QED
    BY <2>1, <2>2, <2>3, <2>4
<1>7. CASE DecodeEnds
  <2>1. decode' \in [Calls -> {"none", "started", "whole", "cut"}]
    BY <1>7 DEF DecodeEnds
  <2> QED
    BY <1>7, <2>1 DEF DecodeEnds, jsVars
<1>8. CASE DecodeCut
  <2>1. decode' \in [Calls -> {"none", "started", "whole", "cut"}]
    BY <1>8 DEF DecodeCut
  <2> QED
    BY <1>8, <2>1 DEF DecodeCut, jsVars
<1>9. CASE WasmExits
  BY <1>9, OnExitTyped DEF WasmExits
<1>10. CASE WasmAborts
  BY <1>10, FailTyped DEF WasmAborts
<1>11. CASE Cancel
  BY <1>11 DEF Cancel
<1>12. ASSUME NEW c \in Calls, GenerateCalled(c) PROVE TypeOK'
  BY <1>12 DEF GenerateCalled
<1>13. ASSUME NEW c \in Calls, GenerateBegins(c) PROVE TypeOK'
  <2>1. call' \in [Calls -> CallState] /\ decode' \in [Calls -> {"none", "started", "whole", "cut"}]
    BY <1>13 DEF GenerateBegins, DeliverPrompt
  <2>2. /\ wasm' \in Busy \cup {"absent", "loading", "asking", "exited", "aborted"}
        /\ served' \in Calls \cup {NoCall}
    BY <1>13 DEF GenerateBegins, DeliverPrompt
  <2>3. /\ activeGeneration' \in Calls \cup {NoCall}
        /\ cancelRequested' \in BOOLEAN /\ promptWaiter' \in BOOLEAN
    BY <1>13 DEF GenerateBegins, DeliverPrompt
  <2>4. UNCHANGED <<phase, cache, ready, exited, stopRequested, stopped, stop,
                    transport, cancelled>>
    BY <1>13 DEF GenerateBegins
  <2> QED
    BY <2>1, <2>2, <2>3, <2>4
<1>14. ASSUME NEW c \in Calls, GenerateRefused(c) PROVE TypeOK'
  BY <1>14 DEF GenerateRefused
<1>15. ASSUME NEW s \in Stops, StopCalled(s) PROVE TypeOK'
  <2>1. stop' \in [Stops -> {"idle", "waitExit", "waitForced", "returned", "threw"}]
    BY <1>15 DEF StopCalled
  <2>2. wasm' \in Busy \cup {"absent", "loading", "asking", "exited", "aborted"}
    BY <1>15 DEF StopCalled
  <2>3. /\ stopRequested' \in BOOLEAN /\ cancelRequested' \in BOOLEAN
        /\ promptWaiter' \in BOOLEAN
        /\ UNCHANGED <<transport, phase, cache, ready, exited, activeGeneration,
                       stopped, call, served, decode, cancelled>>
    BY <1>15 DEF StopCalled
  <2> QED
    BY <2>1, <2>2, <2>3
<1>16. ASSUME NEW s \in Stops, StopSeesExit(s) PROVE TypeOK'
  BY <1>16, SettleGenerationTyped, SettleTyped DEF StopSeesExit, StopReturns
<1>17. ASSUME NEW s \in Stops, StopForces(s) PROVE TypeOK'
  BY <1>17, ForceExitTyped DEF StopForces
<1>18. ASSUME NEW s \in Stops, StopGivesUp(s) PROVE TypeOK'
  BY <1>18, SettleGenerationTyped, SettleTyped, ClosedTyped
     DEF StopGivesUp, StopReturns
<1>19. CASE UNCHANGED vars
  BY <1>19 DEF vars
<1> QED
  BY <1>1, <1>2, <1>3, <1>4, <1>5, <1>6, <1>7, <1>8, <1>9, <1>10, <1>11,
     <1>12, <1>13, <1>14, <1>15, <1>16, <1>17, <1>18, <1>19
     DEF Next, Startup, Wasm, Generate, Stopping

(* Three groups of conjuncts of IInv beside the types, proved one by one. *)
ControlInv == StartupShape /\ StopShape /\ WaiterShape /\ ParkedIsWakeable
GenerationInv == RunningShape /\ ActiveIsServed /\ CutShape
ReleaseInv == CacheShape /\ ExitShape /\ DeathIsReported /\ StopCleansUp

(* Every step keeps the startup, the stop calls and the prompt callback
   consistent with what the WASM program is doing. *)
LEMMA ControlStep ==
  ASSUME IInv, [Next]_vars
  PROVE  ControlInv'
<1> USE NoCallAssumption
<1> USE DEF IInv, TypeOK, Deferred, Cache, Busy, StartupShape, StopShape,
            WaiterShape, ParkedIsWakeable, ControlInv
<1>1. CASE Imported
  BY <1>1 DEF Imported
<1>2. CASE CacheOpened
  BY <1>2 DEF CacheOpened
<1>3. CASE ModelPrepared
  BY <1>3 DEF ModelPrepared, Settle, Closed
<1>4. CASE FactoryResolves
  BY <1>4 DEF FactoryResolves, ForceExit, OnExit, Fail, SettleGeneration,
          Settle, Closed
<1>5. CASE StartupFails
  BY <1>5 DEF StartupFails, Fail, SettleGeneration, Settle, Closed
<1>6. CASE PendingPrompt
  BY <1>6 DEF PendingPrompt, SettleGeneration, Settle
<1>7. CASE DecodeEnds
  BY <1>7 DEF DecodeEnds, jsVars
<1>8. CASE DecodeCut
  BY <1>8 DEF DecodeCut, jsVars
<1>9. CASE WasmExits
  BY <1>9 DEF WasmExits, OnExit, Fail, SettleGeneration, Settle, Closed
<1>10. CASE WasmAborts
  BY <1>10 DEF WasmAborts, Fail, SettleGeneration, Settle
<1>11. CASE Cancel
  BY <1>11 DEF Cancel
<1>12. ASSUME NEW c \in Calls, GenerateCalled(c) PROVE ControlInv'
  BY <1>12 DEF GenerateCalled
<1>13. ASSUME NEW c \in Calls, GenerateBegins(c) PROVE ControlInv'
  BY <1>13 DEF GenerateBegins, MayBegin, DeliverPrompt
<1>14. ASSUME NEW c \in Calls, GenerateRefused(c) PROVE ControlInv'
  BY <1>14 DEF GenerateRefused
<1>15. ASSUME NEW s \in Stops, StopCalled(s) PROVE ControlInv'
  BY <1>15 DEF StopCalled
<1>16. ASSUME NEW s \in Stops, StopSeesExit(s) PROVE ControlInv'
  BY <1>16 DEF StopSeesExit, StopReturns, SettleGeneration, Settle
<1>17. ASSUME NEW s \in Stops, StopForces(s) PROVE ControlInv'
  BY <1>17 DEF StopForces, ForceExit, OnExit, Fail, SettleGeneration, Settle,
          Closed
<1>18. ASSUME NEW s \in Stops, StopGivesUp(s) PROVE ControlInv'
  BY <1>18 DEF StopGivesUp, StopReturns, SettleGeneration, Settle, Closed
<1>19. CASE UNCHANGED vars
  BY <1>19 DEF vars
<1> QED
  BY <1>1, <1>2, <1>3, <1>4, <1>5, <1>6, <1>7, <1>8, <1>9, <1>10, <1>11,
     <1>12, <1>13, <1>14, <1>15, <1>16, <1>17, <1>18, <1>19
     DEF Next, Startup, Wasm, Generate, Stopping

(* Every step keeps the live generation tied to the prompt being decoded. *)
LEMMA GenerationStep ==
  ASSUME IInv, [Next]_vars
  PROVE  GenerationInv'
<1> USE NoCallAssumption
<1> USE DEF IInv, TypeOK, Deferred, Cache, Busy, StartupShape, StopShape,
            WaiterShape, ParkedIsWakeable, RunningShape, ActiveIsServed,
            CutShape, GenerationInv
<1>1. CASE Imported
  BY <1>1 DEF Imported
<1>2. CASE CacheOpened
  BY <1>2 DEF CacheOpened
<1>3. CASE ModelPrepared
  BY <1>3 DEF ModelPrepared, Settle, Closed
<1>4. CASE FactoryResolves
  BY <1>4 DEF FactoryResolves, ForceExit, OnExit, Fail, SettleGeneration,
          Settle, Closed
<1>5. CASE StartupFails
  BY <1>5 DEF StartupFails, Fail, SettleGeneration, Settle, Closed
<1>6. CASE PendingPrompt
  BY <1>6 DEF PendingPrompt, SettleGeneration, Settle
<1>7. CASE DecodeEnds
  BY <1>7 DEF DecodeEnds, jsVars
<1>8. CASE DecodeCut
  BY <1>8 DEF DecodeCut, jsVars
<1>9. CASE WasmExits
  BY <1>9 DEF WasmExits, OnExit, Fail, SettleGeneration, Settle, Closed
<1>10. CASE WasmAborts
  BY <1>10 DEF WasmAborts, Fail, SettleGeneration, Settle
<1>11. CASE Cancel
  BY <1>11 DEF Cancel
<1>12. ASSUME NEW c \in Calls, GenerateCalled(c) PROVE GenerationInv'
  BY <1>12 DEF GenerateCalled
<1>13. ASSUME NEW c \in Calls, GenerateBegins(c) PROVE GenerationInv'
  BY <1>13 DEF GenerateBegins, MayBegin, DeliverPrompt
<1>14. ASSUME NEW c \in Calls, GenerateRefused(c) PROVE GenerationInv'
  BY <1>14 DEF GenerateRefused
<1>15. ASSUME NEW s \in Stops, StopCalled(s) PROVE GenerationInv'
  BY <1>15 DEF StopCalled
<1>16. ASSUME NEW s \in Stops, StopSeesExit(s) PROVE GenerationInv'
  BY <1>16 DEF StopSeesExit, StopReturns, SettleGeneration, Settle
<1>17. ASSUME NEW s \in Stops, StopForces(s) PROVE GenerationInv'
  BY <1>17 DEF StopForces, ForceExit, OnExit, Fail, SettleGeneration, Settle,
          Closed
<1>18. ASSUME NEW s \in Stops, StopGivesUp(s) PROVE GenerationInv'
  BY <1>18 DEF StopGivesUp, StopReturns, SettleGeneration, Settle, Closed
<1>19. CASE UNCHANGED vars
  BY <1>19 DEF vars
<1> QED
  BY <1>1, <1>2, <1>3, <1>4, <1>5, <1>6, <1>7, <1>8, <1>9, <1>10, <1>11,
     <1>12, <1>13, <1>14, <1>15, <1>16, <1>17, <1>18, <1>19
     DEF Next, Startup, Wasm, Generate, Stopping

(* Every step keeps what the end of the program and of stop() leave behind. *)
LEMMA ReleaseStep ==
  ASSUME IInv, TypeOK', [Next]_vars
  PROVE  ReleaseInv'
<1> USE NoCallAssumption
<1> USE DEF IInv, TypeOK, Deferred, Cache, Busy, StartupShape, StopShape,
            WaiterShape, RunningShape, ActiveIsServed, ParkedIsWakeable,
            CacheShape, ExitShape, DeathIsReported, StopCleansUp, ReleaseInv
<1>1. CASE Imported
  BY <1>1 DEF Imported
<1>2. CASE CacheOpened
  BY <1>2 DEF CacheOpened
<1>3. CASE ModelPrepared
  BY <1>3 DEF ModelPrepared, Settle, Closed
<1>4. CASE FactoryResolves
  BY <1>4 DEF FactoryResolves, ForceExit, OnExit, Fail, SettleGeneration,
          Settle, Closed
<1>5. CASE StartupFails
  BY <1>5 DEF StartupFails, Fail, SettleGeneration, Settle, Closed
<1>6. CASE PendingPrompt
  BY <1>6 DEF PendingPrompt, SettleGeneration, Settle
<1>7. CASE DecodeEnds
  BY <1>7 DEF DecodeEnds, jsVars
<1>8. CASE DecodeCut
  BY <1>8 DEF DecodeCut, jsVars
<1>9. CASE WasmExits
  BY <1>9 DEF WasmExits, OnExit, Fail, SettleGeneration, Settle, Closed
<1>10. CASE WasmAborts
  BY <1>10 DEF WasmAborts, Fail, SettleGeneration, Settle
<1>11. CASE Cancel
  BY <1>11 DEF Cancel
<1>12. ASSUME NEW c \in Calls, GenerateCalled(c) PROVE ReleaseInv'
  BY <1>12 DEF GenerateCalled
<1>13. ASSUME NEW c \in Calls, GenerateBegins(c) PROVE ReleaseInv'
  BY <1>13 DEF GenerateBegins, MayBegin, DeliverPrompt
<1>14. ASSUME NEW c \in Calls, GenerateRefused(c) PROVE ReleaseInv'
  BY <1>14 DEF GenerateRefused
<1>15. ASSUME NEW s \in Stops, StopCalled(s) PROVE ReleaseInv'
  BY <1>15 DEF StopCalled
<1>16. ASSUME NEW s \in Stops, StopSeesExit(s) PROVE ReleaseInv'
  BY <1>16 DEF StopSeesExit, StopReturns, SettleGeneration, Settle
<1>17. ASSUME NEW s \in Stops, StopForces(s) PROVE ReleaseInv'
  BY <1>17 DEF StopForces, ForceExit, OnExit, Fail, SettleGeneration, Settle,
          Closed
<1>18. ASSUME NEW s \in Stops, StopGivesUp(s) PROVE ReleaseInv'
  BY <1>18 DEF StopGivesUp, StopReturns, SettleGeneration, Settle, Closed
<1>19. CASE UNCHANGED vars
  BY <1>19 DEF vars
<1> QED
  BY <1>1, <1>2, <1>3, <1>4, <1>5, <1>6, <1>7, <1>8, <1>9, <1>10, <1>11,
     <1>12, <1>13, <1>14, <1>15, <1>16, <1>17, <1>18, <1>19
     DEF Next, Startup, Wasm, Generate, Stopping

-----------------------------------------------------------------------------

LEMMA InitIInv == Init => IInv
BY NoCallAssumption
   DEF Init, IInv, TypeOK, StartupShape, StopShape, WaiterShape, RunningShape,
       CacheShape, ExitShape, CutShape, ParkedIsWakeable, ActiveIsServed, DeathIsReported,
       StopCleansUp, Deferred, Cache, Busy

LEMMA StepIInv == IInv /\ [Next]_vars => IInv'
BY TypeStep, ControlStep, GenerationStep, ReleaseStep
   DEF IInv, ControlInv, GenerationInv, ReleaseInv

(* The types hold in every reachable state, whatever the number of calls. *)
THEOREM TypeCorrect == Spec => []TypeOK
<1>1. Init => TypeOK
  BY InitIInv DEF IInv
<1>2. TypeOK /\ [Next]_vars => TypeOK'
  BY TypeStep
<1> QED
  BY <1>1, <1>2, PTL DEF Spec

(* The inductive invariant holds in every reachable state. *)
THEOREM Invariance == Spec => []IInv
<1> QED
  BY InitIInv, StepIInv, PTL DEF Spec

(* A program waiting for a prompt can always be woken, by the next          *)
(* generate() or by stop(): it is never left parked in get_next_prompt.     *)
THEOREM NeverParkedForever == Spec => []ParkedIsWakeable
<1>1. IInv => ParkedIsWakeable
  BY DEF IInv
<1> QED
  BY <1>1, Invariance, PTL

(* The call a later pending_prompt settles is the one whose prompt the      *)
(* program was decoding.                                                    *)
THEOREM AnswersTheRightCall == Spec => []ActiveIsServed
<1>1. IInv => ActiveIsServed
  BY DEF IInv
<1> QED
  BY <1>1, Invariance, PTL

(* No exit and no abort of the program goes unseen by the handle. *)
THEOREM DeathAlwaysReported == Spec => []DeathIsReported
<1>1. IInv => DeathIsReported
  BY DEF IInv
<1> QED
  BY <1>1, Invariance, PTL

(* A returned stop() has settled every generation and ready, and has closed *)
(* the IndexedDB connection, with the two exceptions StopCleansUp names.    *)
THEOREM StopAlwaysCleansUp == Spec => []StopCleansUp
<1>1. IInv => StopCleansUp
  BY DEF IInv
<1> QED
  BY <1>1, Invariance, PTL

-----------------------------------------------------------------------------

LEMMA StartStep == IInv /\ [Next]_vars =>
  (stopRequested => /\ wasm = "absent" => wasm' = "absent"
                    /\ \A c \in Calls : decode[c] = "none" => decode'[c] = "none")
<1> SUFFICES ASSUME IInv, [Next]_vars, stopRequested
             PROVE  /\ wasm = "absent" => wasm' = "absent"
                    /\ \A c \in Calls : decode[c] = "none" => decode'[c] = "none"
  OBVIOUS
<1> USE DEF IInv, TypeOK, CutShape, Busy
<1>1. CASE Startup
  BY <1>1 DEF Startup, Imported, CacheOpened, ModelPrepared, FactoryResolves, ForceExit
<1>2. CASE StartupFails
  BY <1>2 DEF StartupFails
<1>3. CASE Wasm
  BY <1>3 DEF Wasm, PendingPrompt, DecodeEnds, DecodeCut, WasmExits, WasmAborts
<1>4. CASE Cancel
  BY <1>4 DEF Cancel
<1>5. ASSUME NEW c \in Calls, GenerateCalled(c) \/ Generate(c)
      PROVE  UNCHANGED <<wasm, decode>>
  BY <1>5 DEF GenerateCalled, Generate, GenerateBegins, MayBegin, GenerateRefused
<1>6. ASSUME NEW s \in Stops, StopCalled(s) \/ Stopping(s)
      PROVE  (wasm = "absent" => wasm' = "absent") /\ decode' = decode
  BY <1>6 DEF StopCalled, Stopping, StopSeesExit, StopForces, StopGivesUp, ForceExit
<1>7. CASE UNCHANGED vars
  BY <1>7 DEF vars
<1> QED
  BY <1>1, <1>2, <1>3, <1>4, <1>5, <1>6, <1>7 DEF Next

(* No step after stop() starts the program or hands it a prompt. *)
THEOREM StopStartsNothing == Spec => NothingStartsAfterStop
<1> QED
  BY Invariance, StartStep, PTL DEF Spec, NothingStartsAfterStop

-----------------------------------------------------------------------------
(* The handle implements Session.                                          *)

(* Settling the live generation as interrupted or failed is one such step   *)
(* of Session, or none when no generation is live.                          *)
LEMMA SettlingImplements ==
  ASSUME IInv, NEW outcome \in {"interrupted", "failed"},
         SettleGeneration(outcome), UNCHANGED <<decode, cancelled, stopRequested>>,
         outcome = "interrupted" => stopRequested
  PROVE  [Handle!Next]_(Handle!vars)
<1> USE NoCallAssumption DEF IInv, TypeOK
<1>1. CASE activeGeneration = NoCall
  <2>1. call' = call
    BY <1>1 DEF SettleGeneration
  <2> QED
    BY <2>1 DEF Handle!vars, AnswerGiven
<1>2. CASE activeGeneration \in Calls
  <2>1. call[activeGeneration] = "running"
    BY <1>2 DEF RunningShape
  <2>2. call' = [call EXCEPT ![activeGeneration] = outcome]
    BY <1>2 DEF SettleGeneration
  <2>3. AnswerGiven' = AnswerGiven
    BY <2>1, <2>2 DEF AnswerGiven
  <2>4. Handle!Interrupt(activeGeneration) \/ Handle!Break(activeGeneration)
    BY <2>1, <2>2, <2>3 DEF Handle!Interrupt, Handle!Break, Handle!Move
  <2> QED
    BY <1>2, <2>4 DEF Handle!Next
<1> QED
  BY <1>1, <1>2

LEMMA FailImplements ==
  ASSUME IInv, Fail, UNCHANGED <<decode, cancelled, stopRequested>>
  PROVE  [Handle!Next]_(Handle!vars)
BY SettlingImplements DEF Fail

LEMMA OnExitImplements ==
  ASSUME IInv, OnExit, UNCHANGED <<decode, cancelled, stopRequested>>
  PROVE  [Handle!Next]_(Handle!vars)
BY SettlingImplements, FailImplements DEF OnExit

(* Nothing Session sees has changed. *)
LEMMA Unseen ==
  ASSUME UNCHANGED <<call, decode, cancelled, stopRequested>>
  PROVE  [Handle!Next]_(Handle!vars)
BY DEF Handle!vars, AnswerGiven

LEMMA ForceExitImplements ==
  ASSUME IInv, NEW state, ForceExit(state), UNCHANGED <<decode, cancelled, stopRequested>>
  PROVE  [Handle!Next]_(Handle!vars)
BY OnExitImplements, Unseen DEF ForceExit

(* The step that resolves generate(): the answer is that of the program to  *)
(* this call's prompt, and a cut one only for a call that was cancelled.    *)
LEMMA PendingPromptImplements ==
  ASSUME IInv, PendingPrompt
  PROVE  [Handle!Next]_(Handle!vars)
<1> USE NoCallAssumption DEF IInv, TypeOK
<1>1. CASE stopRequested
  BY <1>1, SettlingImplements DEF PendingPrompt
<1>2. CASE ~stopRequested /\ activeGeneration = NoCall
  <2>1. call' = call
    BY <1>2 DEF PendingPrompt, SettleGeneration
  <2> QED
    BY <2>1, Unseen DEF PendingPrompt
<1>3. CASE ~stopRequested /\ activeGeneration \in Calls
  <2> DEFINE c == activeGeneration
  <2>1. call[c] = "running"
    BY <1>3 DEF RunningShape
  <2>2. call' = [call EXCEPT ![c] = "answered"]
    BY <1>3 DEF PendingPrompt, SettleGeneration
  <2>3. wasm = "decoded" /\ served = c
    BY <1>3 DEF PendingPrompt, ActiveIsServed
  <2>4. decode[c] \in {"whole", "cut"} /\ (decode[c] = "cut" => c \in cancelled)
    BY <1>3, <2>3 DEF CutShape
  <2>5. AnswerGiven' = [AnswerGiven EXCEPT ![c] = decode[c]]
    BY <1>3, <2>1, <2>2 DEF AnswerGiven, PendingPrompt
  <2>6. UNCHANGED <<cancelled, stopRequested>>
    BY DEF PendingPrompt
  <2>7. Handle!Answer(c)
    BY <1>3, <2>1, <2>2, <2>4, <2>5, <2>6 DEF Handle!Answer, Handle!Move
  <2> QED
    BY <1>3, <2>7 DEF Handle!Next
<1> QED
  BY <1>1, <1>2, <1>3

LEMMA GenerateBeginsImplements ==
  ASSUME IInv, NEW c \in Calls, GenerateBegins(c)
  PROVE  [Handle!Next]_(Handle!vars)
<1> USE NoCallAssumption DEF IInv, TypeOK
<1>1. call[c] = "waiting" /\ call' = [call EXCEPT ![c] = "running"]
  BY DEF GenerateBegins
<1>2. ~stopRequested /\ \A d \in Calls : call[d] # "running"
  BY DEF GenerateBegins, MayBegin, RunningShape
<1>3. \A d \in Calls : d # c => decode'[d] = decode[d]
  BY DEF GenerateBegins, DeliverPrompt
<1>4. AnswerGiven' = AnswerGiven
  BY <1>1, <1>3 DEF AnswerGiven
<1>5. UNCHANGED <<cancelled, stopRequested>>
  BY DEF GenerateBegins
<1>6. Handle!Begin(c)
  BY <1>1, <1>2, <1>4, <1>5 DEF Handle!Begin, Handle!Move
<1> QED
  BY <1>6 DEF Handle!Next

(* Decoding changes what the program has made of a prompt whose call has    *)
(* not been answered, which Session does not see.                           *)
LEMMA DecodingImplements ==
  ASSUME IInv, DecodeEnds \/ DecodeCut
  PROVE  [Handle!Next]_(Handle!vars)
<1> USE DEF IInv, TypeOK
<1>1. served \in Calls /\ call[served] # "answered"
  BY DEF CutShape, DecodeEnds, DecodeCut
<1>2. UNCHANGED <<call, cancelled, stopRequested>>
  BY DEF DecodeEnds, DecodeCut, jsVars
<1>3. \A c \in Calls : c # served => decode'[c] = decode[c]
  BY DEF DecodeEnds, DecodeCut
<1>4. AnswerGiven' = AnswerGiven
  BY <1>1, <1>2, <1>3 DEF AnswerGiven
<1> QED
  BY <1>2, <1>4 DEF Handle!vars

(* generate() called or refused: only its own call moves, and not to an     *)
(* answer.                                                                  *)
LEMMA GenerateMovesImplement ==
  ASSUME IInv, NEW c \in Calls, GenerateCalled(c) \/ GenerateRefused(c)
  PROVE  [Handle!Next]_(Handle!vars)
<1> USE DEF IInv, TypeOK
<1>1. UNCHANGED <<decode, cancelled, stopRequested>>
  BY DEF GenerateCalled, GenerateRefused
<1>2. PICK to \in {"waiting", "refused"} :
        /\ call[c] \in {"idle", "waiting"}
        /\ call' = [call EXCEPT ![c] = to]
        /\ to = "waiting" => ~stopRequested /\ call[c] = "idle"
  BY DEF GenerateCalled, GenerateRefused
<1>3. AnswerGiven' = AnswerGiven
  BY <1>1, <1>2 DEF AnswerGiven
<1>4. Handle!Submit(c) \/ Handle!Refuse(c)
  BY <1>1, <1>2, <1>3 DEF Handle!Submit, Handle!Refuse, Handle!Move
<1> QED
  BY <1>4 DEF Handle!Next

LEMMA CancelImplements ==
  ASSUME IInv, Cancel
  PROVE  [Handle!Next]_(Handle!vars)
<1> USE DEF IInv, TypeOK
<1>1. activeGeneration \in Calls /\ call[activeGeneration] = "running"
  BY DEF Cancel, RunningShape
<1>2. AnswerGiven' = AnswerGiven
  BY DEF Cancel, AnswerGiven
<1>3. Handle!Cancel(activeGeneration)
  BY <1>1, <1>2 DEF Cancel, Handle!Cancel
<1> QED
  BY <1>1, <1>3 DEF Handle!Next

LEMMA StopCalledImplements ==
  ASSUME IInv, NEW s \in Stops, StopCalled(s)
  PROVE  [Handle!Next]_(Handle!vars)
<1>1. AnswerGiven' = AnswerGiven
  BY DEF StopCalled, AnswerGiven
<1>2. Handle!Stop
  BY <1>1 DEF StopCalled, Handle!Stop
<1> QED
  BY <1>2 DEF Handle!Next

(* The last statements of stop() run after stopRequested was set. *)
LEMMA StoppingImplements ==
  ASSUME IInv, NEW s \in Stops, Stopping(s)
  PROVE  [Handle!Next]_(Handle!vars)
<1>1. stopRequested
  BY DEF IInv, TypeOK, StopShape, Stopping, StopSeesExit, StopForces, StopGivesUp
<1>2. CASE StopForces(s)
  BY <1>2, ForceExitImplements, Unseen DEF StopForces
<1>3. CASE StopSeesExit(s) \/ StopGivesUp(s)
  BY <1>1, <1>3, SettlingImplements DEF StopSeesExit, StopGivesUp, StopReturns
<1> QED
  BY <1>2, <1>3 DEF Stopping

LEMMA StepImplements == IInv /\ [Next]_vars => [Handle!Next]_(Handle!vars)
<1> SUFFICES ASSUME IInv, [Next]_vars PROVE [Handle!Next]_(Handle!vars)
  OBVIOUS
<1>1. CASE Imported \/ CacheOpened \/ ModelPrepared
  BY <1>1, Unseen DEF Imported, CacheOpened, ModelPrepared
<1>2. CASE FactoryResolves
  BY <1>2, ForceExitImplements, Unseen DEF FactoryResolves
<1>3. CASE StartupFails \/ WasmAborts
  BY <1>3, FailImplements DEF StartupFails, WasmAborts
<1>4. CASE WasmExits
  BY <1>4, OnExitImplements DEF WasmExits
<1>5. CASE UNCHANGED vars
  BY <1>5, Unseen DEF vars
<1> QED
  BY <1>1, <1>2, <1>3, <1>4, <1>5, PendingPromptImplements, DecodingImplements,
     CancelImplements, GenerateMovesImplement, GenerateBeginsImplements,
     StopCalledImplements, StoppingImplements
     DEF Next, Startup, Wasm, Generate

(* Whatever the number of calls and however they interleave with the        *)
(* program, with failures and with stop(), the handle is a Session.         *)
THEOREM RequesterImplementsSession == Spec => ImplementsSession
<1>1. Init => Handle!Init
  BY DEF Init, Handle!Init, AnswerGiven
<1> QED
  BY <1>1, Invariance, StepImplements, PTL
     DEF Spec, ImplementsSession, Handle!Spec

=============================================================================
