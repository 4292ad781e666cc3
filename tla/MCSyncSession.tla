---------------------------- MODULE MCSyncSession ---------------------------
(* A small instance of a SyncSession: see the .cfg file. *)
EXTENDS SyncSession

AllPolicies == {"Immediately", "LiveIndefinitely", "AfterChangesUploaded"}
=============================================================================
