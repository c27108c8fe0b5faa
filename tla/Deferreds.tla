----------------------------- MODULE Deferreds -----------------------------
(***************************************************************************)
(* The small helpers startPeer and startRequester share: a promise that is *)
(* settled once, and the IndexedDB connection each Runtime owns.           *)
(***************************************************************************)

Deferred == {"pending", "resolved", "rejected"}

(* settleResolve, settleReject: only the first settlement counts. *)
Settle(deferred, how) == IF deferred = "pending" THEN how ELSE deferred

(* The connection: not opened yet, open, or closed for good. *)
Cache == {"none", "open", "closed"}

(* chunkCache?.close() *)
Closed(db) == IF db = "open" THEN "closed" ELSE db

=============================================================================
