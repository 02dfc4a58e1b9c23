----------------------------- MODULE AuditStore -----------------------------
(***************************************************************************)
(* The audit store of the backend, as the dashboard meets it: the set of   *)
(* transactions that have a snapshot.  It is kept in memory.               *)
(***************************************************************************)

VARIABLE snapshots

StoreInit == snapshots = {}
Known(txn) == txn \in snapshots
Save(txn) == snapshots' = snapshots \cup {txn}
Forget == snapshots' = {}

=============================================================================
