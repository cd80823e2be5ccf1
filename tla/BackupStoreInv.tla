--------------------------- MODULE BackupStoreInv ---------------------------
(***************************************************************************)
(* Why the backup tree is safe without a lock: the inductive invariant of  *)
(* BackupStore, in named parts.  A backup's creator is alone with it until *)
(* the rename of its manifest; from then on nobody writes anything but     *)
(* deletions to the manifest, and nobody writes to a data.bin whose size   *)
(* some manifest states.                                                   *)
(***************************************************************************)
EXTENDS BackupStore

(* The process is in write_manifest; it is the creator of its backup.      *)
InWriteManifest(p) == pc[p] \in {"open_tmp", "write_tmp", "replace"}

Creating(p) ==
  \/ pc[p] \in {"open_data", "write_data", "open_route"}
  \/ InWriteManifest(p) /\ text[p].status = "active"

(* A process that works on a backup has one, write_manifest is given an    *)
(* active or a deleted text, only write_manifest has a .tmp open, and a    *)
(* create starts at the beginning of data.bin.                             *)
LocalsOK ==
  \A p \in Proc :
    /\ pc[p] \notin {"idle", "scan", "mark"} => id[p] \in Backup
    /\ InWriteManifest(p) => text[p].status \in {"active", "deleted"}
    /\ fd[p] \in {"tmp", "manifest"} => pc[p] = "write_tmp"
    /\ pc[p] \in {"idle", "mint", "open_data"} => pos[p] = 0

(* Before its id is minted, nobody knows a backup and nothing is on disk.  *)
UnmintedUnknown ==
  \A b \in Backup :
    created[b] = 0 =>
      /\ manifest[b] = NoFile /\ tmp[b] = NoFile
      /\ \A method \in {"POST", "GET"} : <<b, method>> \notin routes
      /\ \A p \in Proc : id[p] # b

(* A backup has one creator, and no manifest before its creator is done.   *)
CreatorAlone ==
  \A p \in Proc :
    Creating(p) =>
      /\ manifest[id[p]] = NoFile
      /\ \A q \in Proc : q # p /\ id[q] = id[p] => ~Creating(q)
      /\ ~InWriteManifest(p) => tmp[id[p]] = NoFile

(* Deleters have read a manifest, and reach data.bin only past the rename  *)
(* of one that is not active any more.                                     *)
DeletersSeeManifest ==
  \A p \in Proc :
    /\ InWriteManifest(p) /\ text[p].status = "deleted" => manifest[id[p]] # NoFile
    /\ pc[p] \in {"check_data", "unlink"}
         => manifest[id[p]].status \in {"torn", "deleted"}

(* An active text sits in the .tmp only as long as there is no manifest,   *)
(* and what goes to a .tmp renamed under its writer is a deletion.         *)
TmpNotStale ==
  /\ \A b \in Backup : tmp[b].status = "active" => manifest[b] = NoFile
  /\ \A p \in Proc :
       fd[p] = "manifest" => /\ text[p].status = "deleted"
                             /\ manifest[id[p]].status \in {"torn", "deleted"}

(* No upload has or can get hold of data.bin. *)
Closed(b) ==
  /\ <<b, "POST">> \notin routes
  /\ \A p \in Proc : id[p] = b => pc[p] # "receive"

(* Wherever a manifest that states a size may be, data.bin has that size   *)
(* and is closed.                                                          *)
StatesSize(f) == f.status = "active" /\ f.size > 0

FilesTrue(b) ==
  /\ StatesSize(manifest[b]) => data[b] = manifest[b].size /\ Closed(b)
  /\ StatesSize(tmp[b]) => data[b] = tmp[b].size /\ Closed(b)

WriterTrue(p) ==
  /\ InWriteManifest(p) /\ StatesSize(text[p])
       => data[id[p]] = text[p].size /\ Closed(id[p])
  /\ pc[p] \in {"open_data", "write_data"} => Closed(id[p])
  /\ pc[p] = "write_data" => fd[p] = "data" /\ data[id[p]] = pos[p]

SizesTrue ==
  /\ \A b \in Backup : FilesTrue(b)
  /\ \A p \in Proc : WriterTrue(p)

(* However the calls of the handlers, the watchdog and the bridge fall, a  *)
(* writer without a lock is alone, or writes only a deletion.              *)
IndInv ==
  /\ TypeOK /\ LocalsOK /\ UnmintedUnknown /\ CreatorAlone
  /\ DeletersSeeManifest /\ TmpNotStale /\ SizesTrue

-----------------------------------------------------------------------------
(* What chains, readers and the abstract life of a backup rest on besides. *)

(* Until its creator renames it, the .tmp is the creator's own.            *)
CreatorHoldsTmp ==
  \A p \in Proc :
    Creating(p) => /\ pc[p] = "write_tmp" => fd[p] = "tmp"
                   /\ pc[p] = "replace" => tmp[id[p]] = text[p]

(* A base has been read before the id of what builds on it is minted.      *)
BasesKept ==
  /\ \A p \in Proc : pc[p] = "idle" => id[p] = None
  /\ \A p \in Proc : pc[p] \in {"mint", "mint_bridge"} => manifest[id[p]] # NoFile
  /\ \A b \in Backup : created[b] <= clock
  /\ \A b \in Backup : base[b] # None =>
       created[base[b]] < created[b] /\ manifest[base[b]] # NoFile

(* A size is stated somewhere, be it by a deletion on its way.             *)
Sized(b) ==
  \/ manifest[b].size > 0 \/ tmp[b].size > 0
  \/ \E p \in Proc : InWriteManifest(p) /\ id[p] = b /\ text[p].size > 0

(* Who reads a backup has seen a manifest, and if that stated a size, the  *)
(* data.bin has been closed ever since.                                    *)
Reading(p) == pc[p] \in {"stat", "read_data", "get_route", "send"}

ReadersTrue ==
  /\ \A b \in Backup : <<b, "GET">> \in routes => manifest[b] # NoFile
  /\ \A p \in Proc : Reading(p) => manifest[id[p]] # NoFile
  /\ \A b \in Backup : Sized(b) => Closed(b)
  /\ \A p \in Proc :
       pc[p] \in {"read_data", "send"} /\ Sized(id[p]) => data[id[p]] \in {NoData, pos[p]}

(* The same, with what a create checked of its base and what a restore or  *)
(* download has seen of its backup still good when they act on it.         *)
FullInv == IndInv /\ CreatorHoldsTmp /\ BasesKept /\ ReadersTrue

-----------------------------------------------------------------------------
(* Why retention keeps its floor, and who repairs a torn file.             *)

(* A backup that is deleted, or that a process has decided to delete.      *)
Marks(p, b) == InWriteManifest(p) /\ text[p].status = "deleted" /\ id[p] = b

Doomed(b) ==
  \/ manifest[b].status \in {"torn", "deleted"}
  \/ \E p \in Proc : Marks(p, b) \/ (pc[p] # "scan" /\ b \in batch[p])

HasFloor(b) == \E k \in Keep : Cardinality(ActiveNewer(b)) >= k

(* What a retention run has still to read is minted, what it has seen has  *)
(* a manifest, and all of it is of one source.                             *)
SnapshotsOK ==
  \A p \in Proc :
    /\ pc[p] = "idle" => batch[p] = {}
    /\ \A b \in left[p] : created[b] # 0
    /\ \A b \in batch[p] : manifest[b].status # "absent"
    /\ pc[p] = "scan" => \A b, c \in left[p] \cup batch[p] : source[b] = source[c]

Minted == {b \in Backup : created[b] # 0}

(* A backup has its floor from the moment a run decides to delete it: the  *)
(* newer ones the run has seen are active still, or were themselves        *)
(* deleted with a floor of even newer ones.                                *)
FloorInv ==
  /\ IsFiniteSet(Minted)
  /\ SnapshotsOK
  /\ \A b \in Backup : Doomed(b) => HasFloor(b)

(* While nobody is killed, every torn file has its writer.                 *)
TornInv == \A b \in Backup : Attended(b)

(* Who has data.bin open has it open under its name: an unlink takes the   *)
(* name away from all that hold the file, and the next upload makes a new  *)
(* file.                                                                   *)
DataHeld ==
  \A p \in Proc :
    fd[p] = "data" => pc[p] \in {"write_data", "receive"} /\ data[id[p]] # NoData
=============================================================================
