----------------------------- MODULE PeerProofs -----------------------------
(* Proofs about startPeer, for any number of calls of stop(). *)
EXTENDS Peer, TLAPS

LEMMA InitIInv == Init => IInv
BY DEF Init, IInv, TypeOK, StartupShape, StopShape, CacheShape,
       DeathIsReported, NoOrphanServer, StopCleansUp, Deferred, Cache

(* The inductive step, by cases on the action. *)
LEMMA StepIInv == IInv /\ [Next]_vars => IInv'
<1> SUFFICES ASSUME IInv, [Next]_vars PROVE IInv'
  OBVIOUS
<1> USE DEF IInv, TypeOK, StartupShape, StopShape, CacheShape, DeathIsReported,
            NoOrphanServer, StopCleansUp, Deferred, Cache
<1>1. CASE Imported
  BY <1>1 DEF Imported
<1>2. CASE CacheOpened
  BY <1>2 DEF CacheOpened, Settle
<1>3. CASE FactoryResolves
  BY <1>3 DEF FactoryResolves, ForceExit, ExitAsked, Settle, Closed
<1>4. CASE StartupFails
  BY <1>4 DEF StartupFails, Fail, Settle, Closed
<1>5. CASE WasmExits
  BY <1>5 DEF WasmExits, OnExit, ExitAsked, Fail, Settle, Closed
<1>6. CASE WasmAborts
  BY <1>6 DEF WasmAborts, Fail, Settle
<1>7. ASSUME NEW s \in Stops, StopCalled(s) PROVE IInv'
  <2>1. /\ stopping' = TRUE /\ transport' \in {"open", "closed"}
        /\ stop' \in [Stops -> {"idle", "waitExit", "returned", "threw"}]
        /\ \A t \in Stops : stop'[t] # stop[t] =>
             stop'[t] = "threw" \/ (stop'[t] = "waitExit" /\ transport' = "closed")
        /\ transport = "closed" => transport' = "closed"
        /\ UNCHANGED <<phase, ready>>
    BY <1>7 DEF StopCalled
  <2>2. CASE /\ wasm \in {"loading", "serving", "aborted"}
             /\ wasm' = "exited"
             /\ ExitAsked
             /\ UNCHANGED unkillable
    BY <2>1, <2>2 DEF ExitAsked, Settle, Closed
  <2>3. CASE /\ wasm' = wasm
             /\ unkillable' = (unkillable \/ wasm = "serving")
             /\ UNCHANGED <<cache, exited>>
    <3>1. TypeOK' /\ StartupShape' /\ CacheShape'
      BY <2>1, <2>3
    <3>2. StopShape' /\ StopCleansUp'
      BY <2>1, <2>3
    <3>3. DeathIsReported' /\ NoOrphanServer'
      BY <2>1, <2>3
    <3> QED
      BY <3>1, <3>2, <3>3
  <2> QED
    BY <1>7, <2>2, <2>3 DEF StopCalled, ForceExit
<1>8. ASSUME NEW s \in Stops, StopReturns(s) PROVE IInv'
  BY <1>8 DEF StopReturns, Settle, Closed
<1>9. CASE UNCHANGED vars
  BY <1>9 DEF vars
<1> QED
  BY <1>1, <1>2, <1>3, <1>4, <1>5, <1>6, <1>7, <1>8, <1>9 DEF Next, Startup

(* The inductive invariant holds in every reachable state. *)
THEOREM Invariance == Spec => []IInv
<1> QED
  BY InitIInv, StepIInv, PTL DEF Spec

(* Every variable keeps to its type. *)
THEOREM TypeCorrect == Spec => []TypeOK
<1>1. IInv => TypeOK
  BY DEF IInv
<1> QED
  BY <1>1, Invariance, PTL

(* An exit or abort of the peer always settles exited, and settles it as a  *)
(* success only for a stop() that asked for it.                             *)
THEOREM DeathAlwaysReported == Spec => []DeathIsReported
<1>1. IInv => DeathIsReported
  BY DEF IInv
<1> QED
  BY <1>1, Invariance, PTL

(* stop() leaves a server behind only where a forced exit threw. *)
THEOREM NoServerSurvivesStop == Spec => []NoOrphanServer
<1>1. IInv => NoOrphanServer
  BY DEF IInv
<1> QED
  BY <1>1, Invariance, PTL

(* A returned stop() has settled ready and closed the connection. *)
THEOREM StopAlwaysCleansUp == Spec => []StopCleansUp
<1>1. IInv => StopCleansUp
  BY DEF IInv
<1> QED
  BY <1>1, Invariance, PTL

(* stop() during startup keeps the program from being started. *)
THEOREM StopStartsNothing == Spec => NothingStartsAfterStop
<1>1. IInv /\ [Next]_vars => (stopping /\ wasm = "absent" => wasm' = "absent")
  <2> SUFFICES ASSUME IInv, [Next]_vars, stopping, wasm = "absent"
               PROVE  wasm' = "absent"
    OBVIOUS
  <2> QED
    BY DEF Next, vars, Startup, Imported, CacheOpened, FactoryResolves, StartupFails,
           WasmExits, WasmAborts, StopCalled, StopReturns, ForceExit
<1> QED
  BY <1>1, Invariance, PTL DEF Spec, NothingStartsAfterStop

=============================================================================
