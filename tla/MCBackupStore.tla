--------------------------- MODULE MCBackupStore ---------------------------
(* Instances of BackupStore: which entry points each process slot runs.    *)
EXTENDS BackupStoreInv, TLC

CONSTANTS p1, p2, p3

Handlers == {"create", "delete", "restore", "retention"}

(* Any two handlers against each other. *)
HandlersEntry == [p \in Proc |-> Handlers]

(* Handlers that open routes, two requests of the bridge that use them,    *)
(* and a deletion in between.                                              *)
BridgeEntry ==
  p1 :> {"bridge", "create", "restore", "delete"}
    @@ p2 :> {"upload", "download", "restore"} @@ p3 :> {"upload", "download", "delete"}

(* A creator, the retention handler and the watchdog. *)
RetentionEntry ==
  p1 :> {"create"} @@ p2 :> {"retention"} @@ p3 :> {"retention"}

(* Creates, and three processes that may delete the same backup. *)
DeletersEntry ==
  p1 :> {"create", "delete"} @@ p2 :> {"delete"} @@ p3 :> {"delete", "retention"}

(* A client that creates and deletes, and the watchdog. *)
WatchdogEntry ==
  p1 :> {"create", "bridge", "delete"} @@ p2 :> {"retention"}

RetentionSymmetry == Permutations(Backup) \cup Permutations({p2, p3})
Symmetry == Permutations(Backup)
FullSymmetry == Permutations(Backup) \cup Permutations(Proc)
=============================================================================
