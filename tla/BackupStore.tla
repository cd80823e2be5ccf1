---------------------------- MODULE BackupStore ----------------------------
(***************************************************************************)
(* The backup tree of the storage node: <STORAGE_PATH>/backups/<id>/ holds *)
(* manifest.json, its temporary manifest.json.tmp and data.bin.  Three     *)
(* kinds of process work on it without any lock: the handler subprocesses  *)
(* (backup.create, restore, delete, retention), the retention watchdog and *)
(* the requests of the bridge server.  A step of this module is one        *)
(* file-system call or one call to the relay, so every interleaving of     *)
(* those calls is a behaviour, and so is a process that dies between two   *)
(* of them.  Handlers that only read and print (list, info) are left out.  *)
(***************************************************************************)
EXTENDS Integers, FiniteSets

CONSTANTS
  Backup,     \* the ids mint_backup_id can return
  Source,     \* logical source names
  Types,      \* the backup types of VALID_TYPES that callers ask for
  Proc,       \* process slots; a slot runs one entry point at a time
  Entry,      \* Entry[p]: the entry points slot p runs
  Killable,   \* the slots whose process may die at any step
  Keep,       \* the keep_last values of the retention policies in force
  MaxChunks,  \* bound on the chunks written to one data.bin
  InlineCap,  \* largest data.bin that backup.restore returns inline
  None        \* no backup

EntryPoint ==
  {"create", "bridge", "upload", "download", "delete", "restore", "retention"}

ASSUME ConstantsAssumption ==
  /\ Types \subseteq {"full", "incremental"}
  /\ Entry \in [Proc -> SUBSET EntryPoint]
  /\ Killable \subseteq Proc
  /\ Keep \subseteq Nat
  /\ MaxChunks \in Nat \ {0}
  /\ InlineCap \in Nat
  /\ None \notin Backup

VARIABLES
  clock,      \* the last created_at stamp handed out
  created,    \* created[b]: created_at of b, 0 while b is not minted
  source,     \* source[b]: the source of b, fixed by new_manifest
  base,       \* base[b]: base_backup_id of an incremental, None for a full
  manifest,   \* manifest[b]: what manifest.json of b holds
  tmp,        \* tmp[b]: what manifest.json.tmp of b holds
  data,       \* data[b]: length of data.bin in chunks, NoData if absent
  routes,     \* <<b, method>>: temporary bridge routes open on the relay
  pc,         \* pc[p]: the next call of process p
  id,         \* id[p]: the backup p works on
  text,       \* text[p]: the manifest p is going to write
  fd,         \* fd[p]: where the file p has open for writing is linked now
  left,       \* left[p]: directories p has still to read in _load_backups
  batch,      \* batch[p]: actives seen, then to_delete
  pos         \* pos[p]: chunks transferred, or the size p has seen

stamps == <<clock, created, source, base>>
files  == <<manifest, tmp, data>>
locals == <<id, text, fd, left, batch, pos>>
vars   == <<stamps, files, routes, pc, locals>>

-----------------------------------------------------------------------------
(* A manifest file: absent, torn (present but not yet valid JSON), or a    *)
(* manifest with a status and a size_bytes.  The other fields never change *)
(* once minted and are the variables created, source and base.             *)

NoFile == [status |-> "absent", size |-> 0]
Torn   == [status |-> "torn", size |-> 0]
File   == {NoFile, Torn} \cup [status : {"active", "deleted"}, size : 0..MaxChunks]

Readable(f) == f.status \in {"active", "deleted"}

NoData == -1

Label ==
  {"idle", "mint", "mint_bridge", "open_data", "write_data", "open_route",
   "open_tmp", "write_tmp", "replace", "check_data", "unlink", "scan", "mark", "stat", "read_data",
   "get_route", "receive", "send"}

TypeOK ==
  /\ clock \in Nat
  /\ created \in [Backup -> Nat]
  /\ source \in [Backup -> Source \cup {None}]
  /\ base \in [Backup -> Backup \cup {None}]
  /\ manifest \in [Backup -> File]
  /\ tmp \in [Backup -> File]
  /\ data \in [Backup -> NoData..MaxChunks]
  /\ routes \subseteq Backup \X {"POST", "GET"}
  /\ pc \in [Proc -> Label]
  /\ id \in [Proc -> Backup \cup {None}]
  /\ text \in [Proc -> File]
  /\ fd \in [Proc -> {"none", "tmp", "manifest", "data", "gone"}]
  /\ left \in [Proc -> SUBSET Backup]
  /\ batch \in [Proc -> SUBSET Backup]
  /\ pos \in [Proc -> 0..MaxChunks]

Init ==
  /\ clock = 0
  /\ created = [b \in Backup |-> 0]
  /\ source = [b \in Backup |-> None]
  /\ base = [b \in Backup |-> None]
  /\ manifest = [b \in Backup |-> NoFile]
  /\ tmp = [b \in Backup |-> NoFile]
  /\ data = [b \in Backup |-> NoData]
  /\ routes = {}
  /\ pc = [p \in Proc |-> "idle"]
  /\ id = [p \in Proc |-> None]
  /\ text = [p \in Proc |-> NoFile]
  /\ fd = [p \in Proc |-> "none"]
  /\ left = [p \in Proc |-> {}]
  /\ batch = [p \in Proc |-> {}]
  /\ pos = [p \in Proc |-> 0]

Begins(p, entry) == pc[p] = "idle" /\ entry \in Entry[p]

Goto(p, label) == pc' = [pc EXCEPT ![p] = label]

NewerIn(S, b) == {c \in S : created[c] > created[b]}

(* The process ends: result emitted, _fail, exception or kill.  Whatever   *)
(* it wrote stays on disk.                                                 *)
Exit(p) ==
  /\ Goto(p, "idle")
  /\ id' = [id EXCEPT ![p] = None]
  /\ text' = [text EXCEPT ![p] = NoFile]
  /\ fd' = [fd EXCEPT ![p] = "none"]
  /\ left' = [left EXCEPT ![p] = {}]
  /\ batch' = [batch EXCEPT ![p] = {}]
  /\ pos' = [pos EXCEPT ![p] = 0]

-----------------------------------------------------------------------------
(* Plausible bugs.  None of them is part of the specification: each stands *)
(* for the action or helper it is named after, as a careless change of the *)
(* code would have it.                                                     *)

(* The base of an incremental is taken on faith. *)
CheckBaseOnFaith(p, bs) ==
  /\ \/ Begins(p, "create") /\ Goto(p, "mint")
     \/ Begins(p, "bridge") /\ Goto(p, "mint_bridge")
  /\ id' = [id EXCEPT ![p] = bs]
  /\ UNCHANGED <<stamps, files, routes, text, fd, left, batch, pos>>

(* The text written through a .tmp that was renamed meanwhile is lost. *)
WriteTmpByName(p) ==
  /\ pc[p] = "write_tmp"
  /\ tmp' = IF fd[p] = "tmp" THEN [tmp EXCEPT ![id[p]] = text[p]] ELSE tmp
  /\ fd' = [fd EXCEPT ![p] = "none"]
  /\ Goto(p, "replace")
  /\ UNCHANGED <<stamps, manifest, data, routes, id, text, left, batch, pos>>

(* data.bin goes before the manifest says so. *)
DeleteBeginDataFirst(p, b) ==
  /\ Begins(p, "delete")
  /\ Readable(manifest[b])
  /\ id' = [id EXCEPT ![p] = b]
  /\ text' = [text EXCEPT ![p] = [manifest[b] EXCEPT !.status = "deleted"]]
  /\ Goto(p, "check_data")
  /\ UNCHANGED <<stamps, files, routes, fd, left, batch, pos>>

(* data.bin is forgotten. *)
CheckDataSkipped(p) ==
  /\ pc[p] = "check_data"
  /\ Goto(p, "mark")
  /\ UNCHANGED <<stamps, files, routes, locals>>

(* backups[keep-1:] and backups[keep+1:] instead of backups[keep:]. *)
BeyondNewestLess(S, k) == {b \in S : Cardinality(NewerIn(S, b)) >= k - 1}
BeyondNewestMore(S, k) == {b \in S : Cardinality(NewerIn(S, b)) > k}

(* Retention rewrites the manifest as it read it. *)
MarkUnchanged(p, b) ==
  /\ pc[p] = "mark"
  /\ b \in batch[p]
  /\ NewerIn(batch[p], b) = {}
  /\ Readable(manifest[b])
  /\ id' = [id EXCEPT ![p] = b]
  /\ text' = [text EXCEPT ![p] = manifest[b]]
  /\ batch' = [batch EXCEPT ![p] = @ \ {b}]
  /\ Goto(p, "open_tmp")
  /\ UNCHANGED <<stamps, files, routes, fd, left, pos>>

(* The bridge takes an upload for any id it is asked for. *)
UploadBeginUnrouted(p, b) ==
  /\ Begins(p, "upload")
  /\ created[b] # 0
  /\ data' = [data EXCEPT ![b] = 0]
  /\ id' = [id EXCEPT ![p] = b]
  /\ fd' = [fd EXCEPT ![p] = "data"]
  /\ Goto(p, "receive")
  /\ UNCHANGED <<stamps, manifest, tmp, routes, text, left, batch, pos>>

-----------------------------------------------------------------------------
(* backup.create.  An incremental first reads the manifest of its base,    *)
(* which must parse and not be deleted; nothing else about the base is     *)
(* looked at, and it is not looked at again.                               *)
CheckBase(p, bs) ==
  /\ "incremental" \in Types
  /\ Readable(manifest[bs]) /\ manifest[bs].status # "deleted"
  /\ \/ Begins(p, "create") /\ Goto(p, "mint")
     \/ Begins(p, "bridge") /\ Goto(p, "mint_bridge")
  /\ id' = [id EXCEPT ![p] = bs]
  /\ UNCHANGED <<stamps, files, routes, text, fd, left, batch, pos>>

(* new_manifest.  The id is fresh, so making its directory commutes with   *)
(* everything else.  A full backup comes here at once; the base_backup_id  *)
(* its payload may carry is recorded unread and left out of the model.     *)
NewManifest(p, s, b) ==
  /\ created[b] = 0
  /\ pc[p] = "idle" => "full" \in Types
  /\ \/ (Begins(p, "create") \/ pc[p] = "mint") /\ Goto(p, "open_data")
     \/ (Begins(p, "bridge") \/ pc[p] = "mint_bridge") /\ Goto(p, "open_route")
  /\ clock' = clock + 1
  /\ created' = [created EXCEPT ![b] = clock + 1]
  /\ source' = [source EXCEPT ![b] = s]
  /\ base' = [base EXCEPT ![b] = id[p]]
  /\ id' = [id EXCEPT ![p] = b]
  /\ UNCHANGED <<files, routes, text, fd, left, batch, pos>>

(* data.bin is opened "wb": created empty, or truncated in place. *)
OpenData(p) ==
  /\ pc[p] = "open_data"
  /\ data' = [data EXCEPT ![id[p]] = 0]
  /\ fd' = [fd EXCEPT ![p] = "data"]
  /\ Goto(p, "write_data")
  /\ UNCHANGED <<stamps, manifest, tmp, routes, id, text, left, batch, pos>>

(* One chunk at the writer's own offset, of an inline or artifact body or  *)
(* of a bridge upload.  A writer whose data.bin was unlinked writes on     *)
(* into a file nobody can open.                                            *)
WriteChunk(p) ==
  /\ pc[p] \in {"write_data", "receive"}
  /\ pos[p] < MaxChunks
  /\ pos' = [pos EXCEPT ![p] = @ + 1]
  /\ data' = IF fd[p] = "data" /\ data[id[p]] <= pos[p]
               THEN [data EXCEPT ![id[p]] = pos[p] + 1]
               ELSE data
  /\ UNCHANGED <<stamps, manifest, tmp, routes, pc, id, text, fd, left, batch>>

(* The body is complete: size_bytes is what was written. *)
CloseData(p) ==
  /\ pc[p] = "write_data"
  /\ text' = [text EXCEPT ![p] = [status |-> "active", size |-> pos[p]]]
  /\ fd' = [fd EXCEPT ![p] = "none"]
  /\ Goto(p, "open_tmp")
  /\ UNCHANGED <<stamps, files, routes, id, left, batch, pos>>

(* Bridge mode registers the POST route first and writes the manifest,     *)
(* with size_bytes 0, afterwards.                                          *)
OpenPostRoute(p) ==
  /\ pc[p] = "open_route"
  /\ routes' = routes \cup {<<id[p], "POST">>}
  /\ text' = [text EXCEPT ![p] = [status |-> "active", size |-> 0]]
  /\ Goto(p, "open_tmp")
  /\ UNCHANGED <<stamps, files, id, fd, left, batch, pos>>

(* _fail on the way: bad base64, no artifact, stream broken off, the relay *)
(* refused the route.                                                      *)
Fail(p) ==
  /\ pc[p] \in {"open_data", "write_data", "open_route", "get_route"}
  /\ Exit(p)
  /\ UNCHANGED <<stamps, files, routes>>

-----------------------------------------------------------------------------
(* write_manifest: open and truncate the one .tmp name of this backup,     *)
(* write the text, rename.  The writer holds a file, not a name: when      *)
(* another process renames the .tmp under it, its text goes to the new     *)
(* name.                                                                   *)
OpenTmp(p) ==
  /\ pc[p] = "open_tmp"
  /\ tmp' = [tmp EXCEPT ![id[p]] = Torn]
  /\ fd' = [fd EXCEPT ![p] = "tmp"]
  /\ Goto(p, "write_tmp")
  /\ UNCHANGED <<stamps, manifest, data, routes, id, text, left, batch, pos>>

WriteTmp(p) ==
  /\ pc[p] = "write_tmp"
  /\ tmp' = IF fd[p] = "tmp" THEN [tmp EXCEPT ![id[p]] = text[p]] ELSE tmp
  /\ manifest' = IF fd[p] = "manifest"
                   THEN [manifest EXCEPT ![id[p]] = text[p]] ELSE manifest
  /\ fd' = [fd EXCEPT ![p] = "none"]
  /\ Goto(p, "replace")
  /\ UNCHANGED <<stamps, data, routes, id, text, left, batch, pos>>

(* After the rename, backup.create is done; a deletion goes on to data.bin.*)
ReplaceManifest(p) ==
  /\ pc[p] = "replace"
  /\ tmp[id[p]] # NoFile
  /\ manifest' = [manifest EXCEPT ![id[p]] = tmp[id[p]]]
  /\ tmp' = [tmp EXCEPT ![id[p]] = NoFile]
  /\ fd' = [q \in Proc |->
              CASE id[q] = id[p] /\ fd[q] = "tmp"      -> "manifest"
                [] id[q] = id[p] /\ fd[q] = "manifest" -> "gone"
                [] OTHER                               -> fd[q]]
  /\ Goto(p, IF text[p].status = "active" THEN "mark" ELSE "check_data")
  /\ UNCHANGED <<stamps, data, routes, id, text, left, batch, pos>>

(* Somebody else renamed the .tmp: replace raises FileNotFoundError. *)
ReplaceRaises(p) ==
  /\ pc[p] = "replace"
  /\ tmp[id[p]] = NoFile
  /\ Exit(p)
  /\ UNCHANGED <<stamps, files, routes>>

-----------------------------------------------------------------------------
(* backup.delete reads the manifest, whatever its status, and rewrites it. *)
DeleteBegin(p, b) ==
  /\ Begins(p, "delete")
  /\ Readable(manifest[b])
  /\ id' = [id EXCEPT ![p] = b]
  /\ text' = [text EXCEPT ![p] = [manifest[b] EXCEPT !.status = "deleted"]]
  /\ Goto(p, "open_tmp")
  /\ UNCHANGED <<stamps, files, routes, fd, left, batch, pos>>

CheckData(p) ==
  /\ pc[p] = "check_data"
  /\ Goto(p, IF data[id[p]] = NoData THEN "mark" ELSE "unlink")
  /\ UNCHANGED <<stamps, files, routes, locals>>

(* Processes that have data.bin open keep the file, without a name. *)
UnlinkData(p) ==
  /\ pc[p] = "unlink"
  /\ data[id[p]] # NoData
  /\ data' = [data EXCEPT ![id[p]] = NoData]
  /\ fd' = [q \in Proc |->
              IF id[q] = id[p] /\ fd[q] = "data" THEN "gone" ELSE fd[q]]
  /\ Goto(p, "mark")
  /\ UNCHANGED <<stamps, manifest, tmp, routes, id, text, left, batch, pos>>

(* data.bin went away between is_file and unlink. *)
UnlinkRaises(p) ==
  /\ pc[p] = "unlink"
  /\ data[id[p]] = NoData
  /\ Exit(p)
  /\ UNCHANGED <<stamps, files, routes>>

-----------------------------------------------------------------------------
(* backup.retention, and one source of one pass of the watchdog.           *)
(* _load_backups reads the manifests one after the other; those of another *)
(* source, absent or torn are skipped, as are those not active.            *)
RetentionBegin(p, s) ==
  /\ Begins(p, "retention")
  /\ left' = [left EXCEPT ![p] = {b \in Backup : created[b] # 0 /\ source[b] = s}]
  /\ Goto(p, "scan")
  /\ UNCHANGED <<stamps, files, routes, id, text, fd, batch, pos>>

LoadManifest(p, b) ==
  /\ pc[p] = "scan"
  /\ b \in left[p]
  /\ left' = [left EXCEPT ![p] = @ \ {b}]
  /\ batch' = IF manifest[b].status = "active"
                THEN [batch EXCEPT ![p] = @ \cup {b}] ELSE batch
  /\ UNCHANGED <<stamps, files, routes, pc, id, text, fd, pos>>

(* The backups of S that keep_last: k deletes. *)
BeyondNewest(S, k) == {b \in S : Cardinality(NewerIn(S, b)) >= k}

ApplyKeepLast(p, k) ==
  /\ pc[p] = "scan"
  /\ left[p] = {}
  /\ batch' = [batch EXCEPT ![p] = BeyondNewest(batch[p], k)]
  /\ Goto(p, "mark")
  /\ UNCHANGED <<stamps, files, routes, id, text, fd, left, pos>>

(* _mark_deleted on the next of to_delete, newest first.  It reads the     *)
(* manifest again but not its status.                                      *)
MarkDeleted(p, b) ==
  /\ pc[p] = "mark"
  /\ b \in batch[p]
  /\ NewerIn(batch[p], b) = {}
  /\ Readable(manifest[b])
  /\ id' = [id EXCEPT ![p] = b]
  /\ text' = [text EXCEPT ![p] = [manifest[b] EXCEPT !.status = "deleted"]]
  /\ batch' = [batch EXCEPT ![p] = @ \ {b}]
  /\ Goto(p, "open_tmp")
  /\ UNCHANGED <<stamps, files, routes, fd, left, pos>>

(* json.loads raises on a torn manifest; the rest of to_delete is dropped. *)
MarkRaises(p, b) ==
  /\ pc[p] = "mark"
  /\ b \in batch[p]
  /\ NewerIn(batch[p], b) = {}
  /\ ~Readable(manifest[b])
  /\ Exit(p)
  /\ UNCHANGED <<stamps, files, routes>>

-----------------------------------------------------------------------------
(* backup.restore. *)
RestoreBegin(p, b) ==
  /\ Begins(p, "restore")
  /\ Readable(manifest[b]) /\ manifest[b].status # "deleted"
  /\ id' = [id EXCEPT ![p] = b]
  /\ Goto(p, "stat")
  /\ UNCHANGED <<stamps, files, routes, text, fd, left, batch, pos>>

RestoreStat(p) ==
  /\ pc[p] = "stat"
  /\ data[id[p]] # NoData
  /\ pos' = [pos EXCEPT ![p] = data[id[p]]]
  /\ Goto(p, IF data[id[p]] > InlineCap THEN "get_route" ELSE "read_data")
  /\ UNCHANGED <<stamps, files, routes, id, text, fd, left, batch>>

RestoreMissing(p) ==
  /\ pc[p] = "stat"
  /\ data[id[p]] = NoData
  /\ Exit(p)
  /\ UNCHANGED <<stamps, files, routes>>

OpenGetRoute(p) ==
  /\ pc[p] = "get_route"
  /\ routes' = routes \cup {<<id[p], "GET">>}
  /\ Exit(p)
  /\ UNCHANGED <<stamps, files>>

-----------------------------------------------------------------------------
(* The bridge server.  The relay admits a request only while its route is  *)
(* open; the server itself never reads the manifest.                       *)
UploadBegin(p, b) ==
  /\ Begins(p, "upload")
  /\ <<b, "POST">> \in routes
  /\ data' = [data EXCEPT ![b] = 0]
  /\ id' = [id EXCEPT ![p] = b]
  /\ fd' = [fd EXCEPT ![p] = "data"]
  /\ Goto(p, "receive")
  /\ UNCHANGED <<stamps, manifest, tmp, routes, text, left, batch, pos>>

(* Content-Length is fixed here; the file is opened when the first chunk   *)
(* is sent.                                                                *)
DownloadBegin(p, b) ==
  /\ Begins(p, "download")
  /\ <<b, "GET">> \in routes
  /\ data[b] # NoData
  /\ id' = [id EXCEPT ![p] = b]
  /\ pos' = [pos EXCEPT ![p] = data[b]]
  /\ Goto(p, "send")
  /\ UNCHANGED <<stamps, files, routes, text, fd, left, batch>>

(* Nothing left to do but answer: an upload whose body ended or broke off, *)
(* a download or restore that reads data.bin, a create, delete or          *)
(* retention at its end.                                                   *)
Finish(p) ==
  /\ \/ pc[p] \in {"receive", "send", "read_data"}
     \/ pc[p] = "mark" /\ batch[p] = {}
  /\ Exit(p)
  /\ UNCHANGED <<stamps, files, routes>>

(* The TTL of a temporary route runs out on the relay. *)
RouteExpires(r) ==
  /\ r \in routes
  /\ routes' = routes \ {r}
  /\ UNCHANGED <<stamps, files, pc, locals>>

(* A capability's timeout, a stopped container, a lost connection. *)
Kill(p) ==
  /\ p \in Killable
  /\ pc[p] # "idle"
  /\ Exit(p)
  /\ UNCHANGED <<stamps, files, routes>>

-----------------------------------------------------------------------------
(* The next call of a process that is running. *)
Step(p) ==
  \/ OpenData(p) \/ WriteChunk(p) \/ CloseData(p) \/ OpenPostRoute(p) \/ Fail(p)
  \/ OpenTmp(p) \/ WriteTmp(p) \/ ReplaceManifest(p) \/ ReplaceRaises(p)
  \/ CheckData(p) \/ UnlinkData(p) \/ UnlinkRaises(p)
  \/ \E b \in Backup : LoadManifest(p, b) \/ MarkDeleted(p, b) \/ MarkRaises(p, b)
  \/ \E k \in Keep : ApplyKeepLast(p, k)
  \/ RestoreStat(p) \/ RestoreMissing(p) \/ OpenGetRoute(p) \/ Finish(p)

(* An entry point is called, or a create with a checked base mints its id. *)
Begin(p) ==
  \/ \E s \in Source : RetentionBegin(p, s) \/ \E b \in Backup : NewManifest(p, s, b)
  \/ \E b \in Backup : \/ CheckBase(p, b) \/ DeleteBegin(p, b) \/ RestoreBegin(p, b)
                       \/ UploadBegin(p, b) \/ DownloadBegin(p, b)

Next ==
  \/ \E p \in Proc : Step(p) \/ Begin(p) \/ Kill(p)
  \/ \E r \in routes : RouteExpires(r)

Spec == Init /\ [][Next]_vars

(* A process that is running is scheduled until it ends; nobody is obliged *)
(* to call an entry point, and nobody is obliged to die.                   *)
Fairness == \A p \in Proc : WF_vars(Step(p))

FairSpec == Spec /\ Fairness

(* The watchdog loops for ever: while True, with a sleep between passes.   *)
WatchdogSpec ==
  /\ FairSpec
  /\ \A p \in Proc : Entry[p] = {"retention"} =>
       \A s \in Source : WF_vars(RetentionBegin(p, s))

-----------------------------------------------------------------------------
(* A manifest that is on disk never becomes active: once deleted, or torn  *)
(* on the way to it, a backup does not come back, in whatever order its    *)
(* deleters' opens, writes and renames of the shared .tmp fall.            *)
NeverReactivated ==
  [][\A b \in Backup :
       /\ manifest[b].status # "absent"
       /\ manifest'[b].status = "active"
       => manifest[b] = manifest'[b]]_vars

(* An active manifest that states a size_bytes describes the data.bin next *)
(* to it: complete, whoever died, failed or was deleting meanwhile.        *)
SealedIntact ==
  \A b \in Backup :
    manifest[b].status = "active" /\ manifest[b].size > 0
      => data[b] = manifest[b].size

(* Between the moment backup.restore or a bridge download has taken the    *)
(* size of a data.bin and the moment it opens the file, the file may be    *)
(* deleted but never differs from the announced size.                      *)
ReadExact ==
  \A p \in Proc :
    pc[p] \in {"read_data", "send"} /\ manifest[id[p]].size > 0
      => data[id[p]] \in {NoData, pos[p]}

(* The chain of incrementals: a base was minted before what builds on it   *)
(* and its manifest never leaves the disk, so a chain ends in a full.      *)
ChainGrounded ==
  \A b \in Backup :
    base[b] # None => /\ created[base[b]] < created[b]
                      /\ manifest[base[b]].status # "absent"

(* Every backup that retention has deleted has at least keep_last newer    *)
(* ones of its source still active, however many runs of the same policy   *)
(* race with each other, with creates and with crashes.                    *)
ActiveNewer(b) ==
  {c \in NewerIn(Backup, b) : manifest[c].status = "active" /\ source[c] = source[b]}

RetentionFloor ==
  \A b \in Backup :
    manifest[b].status \in {"torn", "deleted"}
      => \E k \in Keep : Cardinality(ActiveNewer(b)) >= k

(* While nobody is killed, a manifest is torn only as long as the writer   *)
(* that will repair it is still at work on it.                             *)
TornHasWriter ==
  \A b \in Backup :
    manifest[b].status = "torn"
      => \E p \in Proc : id[p] = b /\ pc[p] = "write_tmp" /\ fd[p] = "manifest"

(* A file is torn only by a kill between the open and the write of the     *)
(* .tmp: unless its writer dies there, a torn .tmp or manifest of b is     *)
(* still open in the process that will fill it, whoever renames it.        *)
Fills(p, b, name) == id[p] = b /\ pc[p] = "write_tmp" /\ fd[p] = name

Attended(b) ==
  /\ tmp[b].status = "torn" => \E p \in Proc : Fills(p, b, "tmp")
  /\ manifest[b].status = "torn" => \E p \in Proc : Fills(p, b, "manifest")

OnlyKillsTear ==
  [][\A b \in Backup :
       Attended(b) /\ ~Attended(b)' =>
         \E p \in Proc : Kill(p) /\ id[p] = b /\ pc[p] = "write_tmp"]_vars

(* The data.bin of a backup that is not active any more stays behind for   *)
(* two reasons only: the process that came to remove it is killed, or an   *)
(* upload through a route still open makes it anew. Deleters that lose the *)
(* race for the .tmp, fail or come late never leave it.                    *)
Removes(p, b) == id[p] = b /\ pc[p] \in {"check_data", "unlink"}

Leftover(b) ==
  /\ manifest[b].status \in {"torn", "deleted"}
  /\ data[b] # NoData
  /\ \A p \in Proc : ~Removes(p, b)

LeftoversExplained ==
  [][\A b \in Backup :
       Leftover(b)' /\ ~Leftover(b) =>
         \E p \in Proc : (Kill(p) /\ Removes(p, b)) \/ UploadBegin(p, b)]_vars

(* While nobody is killed, the data.bin of a deleted backup goes: whichever*)
(* deleter loses the race for the .tmp, one of them gets to the unlink.    *)
DeletedDataRemoved ==
  \A b \in Backup :
    manifest[b].status = "deleted" ~> data[b] = NoData

(* Whatever handlers do, the watchdog ends up with at most keep_last       *)
(* active backups of each source.                                          *)
RetentionConverges ==
  \A s \in Source :
    <>[](\E k \in Keep :
           Cardinality({b \in Backup : manifest[b].status = "active"
                                        /\ source[b] = s}) <= k)

-----------------------------------------------------------------------------
(* The abstract life of a backup: torn is on the way to deleted, and a     *)
(* manifest that states no size is open to uploads.                        *)
life ==
  [b \in Backup |->
     CASE manifest[b].status = "absent"                          -> "none"
       [] manifest[b].status = "active" /\ manifest[b].size > 0 -> "sealed"
       [] manifest[b].status = "active" /\ manifest[b].size = 0 -> "open"
       [] OTHER                                                  -> "deleted"]

content ==
  [b \in Backup |-> IF life[b] \in {"open", "sealed"} THEN data[b] ELSE NoData]

Lifecycle == INSTANCE BackupLifecycle WITH life <- life, content <- content

(* Every step of a handler, a watchdog or a bridge request is one step of  *)
(* the abstract life of at most one backup.                                *)
ImplementsLifecycle == Lifecycle!LifecycleSpec

-----------------------------------------------------------------------------
(* Statements of docstrings that the code does not keep; each is refuted   *)
(* by a run of its own.                                                    *)

(* write_manifest: "Write a manifest atomically (tmp + rename)": readers   *)
(* would find the old manifest or the new one.  Two deleters of one backup *)
(* share the .tmp: one renames it while the other has just truncated it.   *)
ManifestNeverTorn ==
  \A b \in Backup : manifest[b].status # "torn"

(* backup.delete: "The data file is removed; the manifest is kept".  Once  *)
(* nobody works on a deleted backup its data.bin stays away; but an upload *)
(* through a route still open puts it back.                                *)
DeletedStaysRemoved ==
  [][\A b \in Backup :
       /\ manifest[b].status = "deleted" /\ data[b] = NoData
       /\ \A p \in Proc : id[p] # b
       => data'[b] = NoData]_vars
=============================================================================
