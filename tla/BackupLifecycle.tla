-------------------------- MODULE BackupLifecycle --------------------------
(***************************************************************************)
(* What the backup handlers promise to whoever holds a backup id.  A       *)
(* backup appears in one step, sealed around its bytes or open for the     *)
(* upload that will fill it; while it is sealed its bytes do not change;   *)
(* it is deleted once and for ever.  BackupStore implements this with      *)
(* unlocked file-system calls, several deleters at a time and crashes      *)
(* between any two calls.                                                  *)
(***************************************************************************)
EXTENDS Integers

CONSTANTS
  Backup,     \* backup ids
  MaxChunks   \* bound on the chunks of one backup

VARIABLES
  life,       \* life[b]: "none", "open", "sealed" or "deleted"
  content     \* content[b]: chunks a restore of b gives, NoContent if none

NoContent == -1

LifecycleInit ==
  /\ life = [b \in Backup |-> "none"]
  /\ content = [b \in Backup |-> NoContent]

(* backup.create with inline data or an artifact. *)
Seal(b, n) ==
  /\ life[b] = "none"
  /\ life' = [life EXCEPT ![b] = "sealed"]
  /\ content' = [content EXCEPT ![b] = n]

(* backup.create in bridge mode, or of an empty body: the manifest states  *)
(* no size, and an upload may be under way already.                        *)
Open(b, n) ==
  /\ life[b] = "none"
  /\ life' = [life EXCEPT ![b] = "open"]
  /\ content' = [content EXCEPT ![b] = n]

(* An upload through the bridge. *)
Receive(b, n) ==
  /\ life[b] = "open"
  /\ content' = [content EXCEPT ![b] = n]
  /\ UNCHANGED life

(* backup.delete, backup.retention, the watchdog. *)
Delete(b) ==
  /\ life[b] \in {"open", "sealed"}
  /\ life' = [life EXCEPT ![b] = "deleted"]
  /\ content' = [content EXCEPT ![b] = NoContent]

LifecycleNext ==
  \E b \in Backup :
    \/ \E n \in 1..MaxChunks : Seal(b, n)
    \/ \E n \in NoContent..MaxChunks : Open(b, n) \/ Receive(b, n)
    \/ Delete(b)

LifecycleSpec == LifecycleInit /\ [][LifecycleNext]_<<life, content>>
=============================================================================
