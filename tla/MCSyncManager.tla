---------------------------- MODULE MCSyncManager ---------------------------
(* A small instance of the sessions of a user: see the .cfg file. *)
EXTENDS SyncManager

AllPolicies == {"Immediately", "LiveIndefinitely", "AfterChangesUploaded"}
=============================================================================
