------------------------- MODULE MCRealmCoordinator -------------------------
(* Notifications with few versions and callbacks: see the .cfg files. *)
EXTENDS RealmCoordinator
=============================================================================
