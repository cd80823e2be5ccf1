----------------------------- MODULE FileStore -----------------------------
(***************************************************************************)
(* The file handlers: storage.store, fetch, delete, move, list, archive    *)
(* and extract.  Each call of a handler is a process of its own, a job     *)
(* here, that runs once; jobs work on one tree without any lock.  A step   *)
(* is one call to the file system, and a job may die before any of them.   *)
(* What a job is answerable for are the paths that nobody else has changed *)
(* since it began: the properties say what it has done there.              *)
(***************************************************************************)
EXTENDS FileTree, FiniteSets

CONSTANTS
  Job,        \* handler processes
  Asked,      \* paths that callers send
  Payloads,   \* Payloads[j][op]: file contents that the caller of j may send
  Trees,      \* what the storage tree may hold at first: [tree, node]
  TmpName,    \* TmpName[n]: the name n with ".tmp" added
  StemName,   \* StemName[n]: the name n without .tar.gz, .tgz or .tar
  NoInode     \* no file

Sibling(x, names) == Append(Front(x), names[Last(x)])

StoreOp == {"store", "unpack", "unpack_artifact"}

ASSUME FileStoreAssumption ==
  /\ Asked \subseteq Path \ {Root}
  /\ \A x \in Asked : /\ Sibling(x, TmpName) \in Path \ {x}
                     /\ Sibling(x, StemName) \in Path
  /\ \A j \in Job, op \in StoreOp :
       \A blocks \in Payloads[j][op] : blocks \in Seq(Range(blocks))
  /\ \A t \in Trees : IsTree(t.tree, t.node)
  /\ NoInode \notin Inode

VARIABLES
  job,        \* job[j]: where handler j stands
  quiet,      \* quiet[j]: paths that only j has changed since it began
  clean       \* jobs whose open file only they have changed since they opened it

files == <<tree, node>>
vars == <<files, job, quiet, clean>>

(* Files are sequences of blocks.  Those of an archive are its members and *)
(* the end of the gzip stream, all by one writer.  A "bad" member is a     *)
(* link, or its name leads out of the directory it is extracted to.        *)
MemberKind == {"file", "dir", "bad"}
Data(by) == [kind |-> "data", by |-> by]
Member(kind, by, name, blocks) ==
  [kind |-> kind, by |-> by, name |-> name, blocks |-> blocks]
End(by) == [kind |-> "end", by |-> by]
Hole == [kind |-> "hole", by |-> "nobody"]

IsMember(b) ==
  /\ b.kind \in MemberKind
  /\ b.name \in Seq(Range(b.name))
  /\ b.blocks \in Seq(Range(b.blocks))

IsArchive(blocks) ==
  /\ blocks # <<>>
  /\ Last(blocks).kind = "end"
  /\ \A i \in DOMAIN blocks : blocks[i].by = Last(blocks).by
  /\ \A i \in 1..Len(blocks) - 1 : IsMember(blocks[i])

(* op is the handler, "unpack" and "unpack_artifact" being storage.store   *)
(* with action extract.  path is what is read, moved or deleted, to what   *)
(* is made, file what is opened next and fd what is open.                  *)
NewJob ==
  [at |-> "new", op |-> "none", answer |-> "none", path |-> Root, to |-> Root,
   file |-> Root, fd |-> NoInode,
   pos |-> 0,         \* blocks written to fd
   payload |-> <<>>,  \* what is written to fd
   got |-> <<>>,      \* blocks read
   done |-> 0,        \* members of the archive got that are extracted
   dirs |-> {},       \* directories to be scanned
   found |-> {},      \* paths a scan has found, still to be looked at
   empties |-> {},    \* directories found, still to be looked at for entries
   listed |-> {},     \* the answer of a list: <<path, size>>
   stack |-> <<>>]    \* directories rmtree has open

Frame == [dir : Inode, name : Path, left : SUBSET [name : Name, dir : BOOLEAN]]

Op == {"none", "store", "unpack", "unpack_artifact", "fetch", "delete", "move",
       "list", "archive", "extract"}
Label == {"new", "mkdir", "open", "write", "open_read", "read", "target", "member",
          "unlink_tmp", "unlink", "rmtree", "look", "rename", "walk", "list", "stat",
          "pack", "size", "done"}

(* The fields of a job are what its steps take them for. *)
IsJob(r) ==
  /\ r = [at |-> r.at, op |-> r.op, answer |-> r.answer, path |-> r.path, to |-> r.to,
          file |-> r.file, fd |-> r.fd, pos |-> r.pos, payload |-> r.payload, got |-> r.got,
          done |-> r.done, dirs |-> r.dirs, found |-> r.found, empties |-> r.empties,
          listed |-> r.listed, stack |-> r.stack]
  /\ r.at \in Label /\ r.op \in Op
  /\ r.answer \in {"none", "failed", "not_found", "ok"}
  /\ r.path \in Path /\ r.to \in Path /\ r.file \in Path
  /\ r.fd \in Inode \cup {NoInode}
  /\ r.pos \in Nat /\ r.done \in Nat
  /\ r.dirs \subseteq Path /\ r.found \subseteq Path /\ r.empties \subseteq Path
  /\ \A s \in r.listed : s = <<s[1], s[2]>> /\ s[1] \in Path /\ s[2] \in Nat
  /\ r.stack \in Seq(Frame)

(* The tree is a tree whatever the jobs do: no file is without its         *)
(* directory, and every record of a job is what its steps take it for.     *)
TypeOK ==
  /\ TreeOK
  /\ DOMAIN job = Job
  /\ \A j \in Job : IsJob(job[j])
  /\ quiet \in [Job -> SUBSET Path]
  /\ clean \subseteq Job

Init ==
  /\ \E t \in Trees : tree = t.tree /\ node = t.node
  /\ job = [j \in Job |-> NewJob]
  /\ quiet = [j \in Job |-> Path]
  /\ clean = Job

-----------------------------------------------------------------------------
Running(j) == job[j].at \notin {"new", "done"}

(* Inodes that jobs have open. *)
Held ==
  UNION {{job[j].fd} \cup {job[j].stack[n].dir : n \in DOMAIN job[j].stack} :
           j \in {k \in Job : Running(k)}}

Goto(j, label) == job' = [job EXCEPT ![j].at = label]

(* The process ends, with an answer or with an error told by _fail or by a *)
(* traceback; what it had still to do is gone with it.                     *)
Ends(j, answer) ==
  job' = [job EXCEPT ![j].at = "done", ![j].answer = answer, ![j].dirs = {},
                     ![j].found = {}, ![j].empties = {}, ![j].stack = <<>>]
Fails(j) == Ends(j, "failed") /\ UNCHANGED files

(* target.parent.mkdir(parents=True, exist_ok=True) *)
AfterMkdir ==
  [store |-> "open", unpack |-> "target", unpack_artifact |-> "open",
   move |-> "look", archive |-> "open"]

MkdirParent(j) ==
  /\ job[j].at = "mkdir"
  /\ IF CanMkdir(Front(job[j].to))
       THEN Mkdir(Front(job[j].to), Held) /\ Goto(j, AfterMkdir[job[j].op])
       ELSE Fails(j)

-----------------------------------------------------------------------------
(* storage.store.  An artifact is extracted from a temporary file.         *)
StoreBegin(j, op, x, payload) ==
  /\ job[j].at = "new"
  /\ job' = [job EXCEPT ![j].at = "mkdir", ![j].op = op, ![j].to = x,
       ![j].file = IF op = "unpack_artifact" THEN Sibling(x, TmpName) ELSE x,
       ![j].payload = IF op = "unpack" THEN <<>> ELSE payload,
       ![j].got = IF op = "unpack" THEN payload ELSE <<>>]
  /\ UNCHANGED files

(* A plausible bug: a file that is there is opened without truncating it.  *)
OpenWriteKeeps(j) ==
  /\ job[j].at = "open"
  /\ LET x == job[j].file
     IN  IF CanCreate(x)
           THEN /\ IF Exists(x) THEN UNCHANGED files ELSE Create(x, Held)
                /\ job' = [job EXCEPT ![j].fd = tree'[x], ![j].pos = 0,
                     ![j].at = IF job[j].op = "archive" THEN "pack" ELSE "write",
                     ![j].dirs = IF job[j].op = "archive" THEN {job[j].path} ELSE {}]
           ELSE Fails(j)

(* open(file, "wb"), for the target of a store, a temporary file, an       *)
(* archive or a member that is extracted.                                  *)
OpenWrite(j) ==
  /\ job[j].at = "open"
  /\ LET x == job[j].file
     IN  IF CanCreate(x)
           THEN /\ Create(x, Held)
                /\ job' = [job EXCEPT ![j].fd = tree'[x], ![j].pos = 0,
                     ![j].at = IF job[j].op = "archive" THEN "pack" ELSE "write",
                     ![j].dirs = IF job[j].op = "archive" THEN {job[j].path} ELSE {}]
           ELSE Fails(j)

(* A plausible bug: the file is opened to append to it. *)
PutAppends(j, b) ==
  /\ node' = [node EXCEPT ![job[j].fd].blocks = Append(@, b)]
  /\ UNCHANGED tree

(* The next block of a file to fd. *)
Put(j, b) ==
  /\ node' = [node EXCEPT ![job[j].fd].blocks = WriteAt(@, job[j].pos + 1, b, Hole)]
  /\ UNCHANGED tree

WriteBlock(j) ==
  /\ job[j].at = "write"
  /\ job[j].pos < Len(job[j].payload)
  /\ Put(j, job[j].payload[job[j].pos + 1])
  /\ job' = [job EXCEPT ![j].pos = @ + 1]

(* A plausible bug: the temporary file is read back before it is closed.   *)
WriteEndEarly(j) ==
  /\ job[j].at = "write"
  /\ \/ job[j].pos = Len(job[j].payload)
     \/ job[j].op = "unpack_artifact" /\ job[j].file # job[j].to
  /\ CASE job[j].op = "store" -> Ends(j, "ok")
       [] job[j].op = "unpack_artifact" /\ job[j].file = Sibling(job[j].to, TmpName) ->
            Goto(j, "open_read")
       [] OTHER -> job' = [job EXCEPT ![j].at = "member", ![j].done = @ + 1]
  /\ UNCHANGED files

(* All is written: a file that was stored is answered, a temporary file is *)
(* read back, a member is followed by the next.                            *)
WriteEnd(j) ==
  /\ job[j].at = "write"
  /\ job[j].pos = Len(job[j].payload)
  /\ CASE job[j].op = "store" -> Ends(j, "ok")
       [] job[j].op = "unpack_artifact" /\ job[j].file = Sibling(job[j].to, TmpName) ->
            Goto(j, "open_read")
       [] OTHER -> job' = [job EXCEPT ![j].at = "member", ![j].done = @ + 1]
  /\ UNCHANGED files

-----------------------------------------------------------------------------
(* storage.fetch; storage.extract reads its archive the same way.          *)
ReadBegin(j, op, x) ==
  /\ job[j].at = "new"
  /\ job' = [job EXCEPT ![j].op = op, ![j].path = x, ![j].file = x,
       ![j].to = IF op = "extract" THEN Sibling(x, StemName) ELSE Root,
       ![j].at = IF IsFile(x) THEN "open_read" ELSE "done",
       ![j].answer = IF IsFile(x) THEN "none" ELSE "failed"]
  /\ UNCHANGED files

(* read_bytes *)
OpenRead(j) ==
  /\ job[j].at = "open_read"
  /\ IF IsFile(job[j].file)
       THEN /\ job' = [job EXCEPT ![j].at = "read", ![j].fd = tree[job[j].file]]
            /\ UNCHANGED files
       ELSE Fails(j)

ReadBlock(j) ==
  /\ job[j].at = "read"
  /\ Len(job[j].got) < Len(node[job[j].fd].blocks)
  /\ job' = [job EXCEPT ![j].got = Append(@, node[job[j].fd].blocks[Len(@) + 1])]
  /\ UNCHANGED files

(* A plausible bug: one read() is taken for the whole file. *)
ReadEndShort(j) ==
  /\ job[j].at = "read"
  /\ job[j].got # <<>> \/ node[job[j].fd].blocks = <<>>
  /\ IF job[j].op = "fetch" THEN Ends(j, "ok") ELSE Goto(j, "target")
  /\ UNCHANGED files

ReadEnd(j) ==
  /\ job[j].at = "read"
  /\ Len(job[j].got) >= Len(node[job[j].fd].blocks)
  /\ IF job[j].op = "fetch" THEN Ends(j, "ok") ELSE Goto(j, "target")
  /\ UNCHANGED files

-----------------------------------------------------------------------------
(* _extract_tar: the target is made before the archive is looked at, and   *)
(* all members are read before the first is extracted.                     *)
MakeTarget(j) ==
  /\ job[j].at = "target"
  /\ IF CanMkdir(job[j].to)
       THEN /\ Mkdir(job[j].to, Held)
            /\ IF IsArchive(job[j].got) THEN Goto(j, "member") ELSE Ends(j, "failed")
       ELSE Fails(j)

Members(j) == Len(job[j].got) - 1

(* Links are refused, and so is what would end up outside the target.      *)
Refused(m, to) == m.kind = "bad" \/ ~Under(to \o m.name, to)

(* A plausible bug: a bad member is passed over. *)
ExtractMemberLenient(j) ==
  /\ job[j].at = "member"
  /\ job[j].done < Members(j)
  /\ LET m == job[j].got[job[j].done + 1]
         dest == job[j].to \o m.name
     IN  IF Refused(m, job[j].to)
           THEN job' = [job EXCEPT ![j].done = @ + 1] /\ UNCHANGED files
           ELSE /\ dest \in Path
                /\ IF CanMkdir(Front(dest))
                     THEN /\ Mkdir(Front(dest), Held)
                          /\ job' = [job EXCEPT ![j].at = "open", ![j].file = dest,
                                                ![j].payload = m.blocks]
                     ELSE Fails(j)

ExtractMember(j) ==
  /\ job[j].at = "member"
  /\ job[j].done < Members(j)
  /\ LET m == job[j].got[job[j].done + 1]
         dest == job[j].to \o m.name
         dir == IF m.kind = "dir" THEN dest ELSE Front(dest)
     IN  /\ Refused(m, job[j].to) \/ dest \in Path
         /\ IF Refused(m, job[j].to) \/ ~CanMkdir(dir)
              THEN Fails(j)
              ELSE /\ Mkdir(dir, Held)
                   /\ job' = IF m.kind = "dir"
                        THEN [job EXCEPT ![j].done = @ + 1]
                        ELSE [job EXCEPT ![j].at = "open", ![j].file = dest,
                                         ![j].payload = m.blocks]

MembersEnd(j) ==
  /\ job[j].at = "member"
  /\ job[j].done = Members(j)
  /\ IF job[j].op = "unpack_artifact" THEN Goto(j, "unlink_tmp") ELSE Ends(j, "ok")
  /\ UNCHANGED files

(* unlink(missing_ok=True) *)
UnlinkTmp(j) ==
  /\ job[j].at = "unlink_tmp"
  /\ LET x == Sibling(job[j].to, TmpName)
     IN  IF IsDir(x) THEN Fails(j) ELSE Unlinked(x) /\ Ends(j, "ok")

-----------------------------------------------------------------------------
(* storage.delete.  rmtree holds the directories open that it empties and  *)
(* works through what it found in them when it opened them.                *)
DeleteBegin(j, x) ==
  /\ job[j].at = "new"
  /\ job' = [job EXCEPT ![j].op = "delete", ![j].path = x,
       ![j].at = IF IsFile(x) THEN "unlink" ELSE IF IsDir(x) THEN "rmtree" ELSE "done",
       ![j].answer = IF Exists(x) THEN "none" ELSE "not_found"]
  /\ UNCHANGED files

(* A plausible bug: the directory that has become empty is tidied away.    *)
UnlinkPrunes(j) ==
  /\ job[j].at = "unlink"
  /\ LET x == job[j].path
         gone == {x} \cup {y \in {Front(x)} : Children(y) = {x}}
     IN  IF IsFile(x)
           THEN tree' = Restrict(tree, DOMAIN tree \ gone) /\ UNCHANGED node /\ Ends(j, "ok")
           ELSE Fails(j)

Unlink(j) ==
  /\ job[j].at = "unlink"
  /\ IF IsFile(job[j].path) THEN Unlinked(job[j].path) /\ Ends(j, "ok") ELSE Fails(j)

Opened(x) == [dir |-> tree[x], name |-> x,
              left |-> {[name |-> Last(y), dir |-> IsDir(y)] : y \in Children(x)}]

RmtreeOpen(j) ==
  /\ job[j].at = "rmtree"
  /\ job[j].stack = <<>>
  /\ IF IsDir(job[j].path)
       THEN job' = [job EXCEPT ![j].stack = <<Opened(job[j].path)>>] /\ UNCHANGED files
       ELSE Fails(j)

(* The path at which an inode is linked now, if it is. *)
Linked(i) == i \in Range(tree)
PathOf(i) == CHOOSE x \in DOMAIN tree : tree[x] = i

RmtreeEntry(j) ==
  /\ job[j].at = "rmtree"
  /\ job[j].stack # <<>>
  /\ LET n == Len(job[j].stack)
         top == job[j].stack[n]
     IN  \E e \in top.left :
           LET x == Append(PathOf(top.dir), e.name)
               rest == [job EXCEPT ![j].stack[n].left = @ \ {e}]
           IN  CASE Linked(top.dir) /\ IsFile(x) /\ ~e.dir -> Unlinked(x) /\ job' = rest
                 [] Linked(top.dir) /\ IsDir(x) /\ e.dir ->
                      /\ job' = [rest EXCEPT ![j].stack = Append(@, Opened(x))]
                      /\ UNCHANGED files
                 [] OTHER -> Fails(j)

(* A plausible bug: rmtree(target, ignore_errors=True). *)
RmtreeLeaveIgnoring(j) ==
  /\ job[j].at = "rmtree"
  /\ Len(job[j].stack) = 1
  /\ job[j].stack[1].left = {}
  /\ LET x == job[j].path
     IN  IF IsDir(x) /\ Children(x) = {} THEN Unlinked(x) ELSE UNCHANGED files
  /\ Ends(j, "ok")

(* Another: a directory goes with whatever has appeared in it. *)
RmtreeLeaveBlind(j) ==
  /\ job[j].at = "rmtree"
  /\ Len(job[j].stack) = 1
  /\ job[j].stack[1].left = {}
  /\ IF IsDir(job[j].path) THEN Unlinked(job[j].path) /\ Ends(j, "ok") ELSE Fails(j)

RmtreeLeave(j) ==
  /\ job[j].at = "rmtree"
  /\ job[j].stack # <<>>
  /\ LET n == Len(job[j].stack)
         outer == job[j].stack[n - 1].dir
         x == IF n = 1 THEN job[j].path
                       ELSE Append(PathOf(outer), Last(job[j].stack[n].name))
     IN  /\ job[j].stack[n].left = {}
         /\ IF (n > 1 => Linked(outer)) /\ IsDir(x) /\ Children(x) = {}
              THEN /\ Unlinked(x)
                   /\ IF n = 1 THEN Ends(j, "ok")
                               ELSE job' = [job EXCEPT ![j].stack = Front(@)]
              ELSE Fails(j)

-----------------------------------------------------------------------------
(* storage.move: shutil.move puts the source into a directory that exists. *)
MoveBegin(j, x, y) ==
  /\ job[j].at = "new"
  /\ job' = [job EXCEPT ![j].op = "move", ![j].path = x, ![j].to = y,
       ![j].at = IF Exists(x) THEN "mkdir" ELSE "done",
       ![j].answer = IF Exists(x) THEN "none" ELSE "failed"]
  /\ UNCHANGED files

(* A plausible bug: nobody looks whether the name is taken inside.         *)
MoveLookOnce(j) ==
  /\ job[j].at = "look"
  /\ LET inside == Append(job[j].to, Last(job[j].path))
     IN  /\ inside \in Path
         /\ job' = [job EXCEPT ![j].at = "rename",
                       ![j].file = IF IsDir(job[j].to) THEN inside ELSE job[j].to]
  /\ UNCHANGED files

(* Another: the source goes beside a directory instead of into it.         *)
MoveLookBeside(j) ==
  /\ job[j].at = "look"
  /\ LET beside == Append(Front(job[j].to), Last(job[j].path))
     IN  /\ beside \in Path
         /\ job' = [job EXCEPT ![j].at = "rename",
                       ![j].file = IF IsDir(job[j].to) THEN beside ELSE job[j].to]
  /\ UNCHANGED files

MoveLook(j) ==
  /\ job[j].at = "look"
  /\ LET x == job[j].path
         y == job[j].to
         inside == Append(y, Last(x))
     IN  IF ~IsDir(y) \/ x = y
           THEN job' = [job EXCEPT ![j].at = "rename", ![j].file = y] /\ UNCHANGED files
           ELSE /\ inside \in Path
                /\ IF Exists(inside)
                     THEN Fails(j)
                     ELSE /\ job' = [job EXCEPT ![j].at = "rename", ![j].file = inside]
                          /\ UNCHANGED files

(* shutil.move would copy if the destination has become a directory, or    *)
(* its parent has gone, since it looked: these two cases are left out.     *)
MoveWouldCopy(x, y) ==
  /\ Exists(x) /\ ~Below(y, x)
  /\ IF IsDir(x) THEN ~Exists(Front(y)) ELSE IsDir(y)

MoveRename(j) ==
  /\ job[j].at = "rename"
  /\ LET x == job[j].path
         y == job[j].file
     IN  /\ ~MoveWouldCopy(x, y)
         /\ \A z \in DOMAIN tree : Under(z, x) => Rebased(z, x, y) \in Path
         /\ IF CanRename(x, y)
              THEN Rename(x, y) /\ Ends(j, "ok")
              ELSE Fails(j)

-----------------------------------------------------------------------------
(* storage.list: rglob walks the tree, then every file found is looked at. *)
ListBegin(j, x) ==
  /\ job[j].at = "new"
  /\ job' = [job EXCEPT ![j].op = "list", ![j].path = x,
       ![j].dirs = {y \in {x} : IsDir(y)},
       ![j].at = IF Exists(x) THEN "walk" ELSE "done",
       ![j].answer = IF Exists(x) THEN "none" ELSE "ok"]
  /\ UNCHANGED files

Subdirs(x) == {y \in Children(x) : IsDir(y)}

(* A plausible bug: glob for rglob. *)
WalkDirFlat(j) ==
  /\ job[j].at = "walk"
  /\ \E x \in job[j].dirs :
       job' = [job EXCEPT ![j].dirs = @ \ {x}, ![j].found = @ \cup Children(x)]
  /\ UNCHANGED files

WalkDir(j) ==
  /\ job[j].at = "walk"
  /\ \E x \in job[j].dirs :
       job' = [job EXCEPT ![j].dirs = (@ \ {x}) \cup Subdirs(x),
                          ![j].found = @ \cup Children(x)]
  /\ UNCHANGED files

WalkEnd(j) ==
  /\ job[j].at = "walk"
  /\ job[j].dirs = {}
  /\ Goto(j, "list")
  /\ UNCHANGED files

ListFile(j) ==
  /\ job[j].at = "list"
  /\ \E x \in job[j].found :
       job' = IF IsFile(x) THEN [job EXCEPT ![j].at = "stat", ![j].file = x]
                           ELSE [job EXCEPT ![j].found = @ \ {x}]
  /\ UNCHANGED files

(* stat, after is_file, raises when the path has gone. *)
ListStat(j) ==
  /\ job[j].at = "stat"
  /\ LET x == job[j].file
     IN  IF Exists(x)
           THEN /\ job' = [job EXCEPT ![j].at = "list", ![j].found = @ \ {x},
                                      ![j].listed = @ \cup {<<x, Len(Blocks(x))>>}]
                /\ UNCHANGED files
           ELSE Fails(j)

ListEnd(j) ==
  /\ job[j].at = "list"
  /\ job[j].found = {}
  /\ Ends(j, "ok")
  /\ UNCHANGED files

-----------------------------------------------------------------------------
(* storage.archive: files are packed directory by directory; a directory   *)
(* gets a member only if there is nothing in it.                           *)
ArchiveBegin(j, x, y) ==
  /\ job[j].at = "new"
  /\ job' = [job EXCEPT ![j].op = "archive", ![j].path = x, ![j].to = y, ![j].file = y,
       ![j].at = IF Exists(x) THEN "mkdir" ELSE "done",
       ![j].answer = IF Exists(x) THEN "none" ELSE "failed"]
  /\ UNCHANGED files

ArcName(j, x) == <<Last(job[j].path)>> \o SubSeq(x, Len(job[j].path) + 1, Len(x))

(* A plausible bug: the walk does not go down. *)
PackDirFlat(j) ==
  /\ job[j].at = "pack"
  /\ job[j].found = {} /\ job[j].empties = {}
  /\ \E x \in job[j].dirs :
       LET entries == IF IsDir(x) THEN Children(x) ELSE {}
       IN  job' = [job EXCEPT ![j].dirs = @ \ {x},
                              ![j].found = {y \in entries : IsFile(y)},
                              ![j].empties = {y \in entries : IsDir(y)}]
  /\ UNCHANGED files

(* os.walk: a directory that has gone, or a file, has nothing in it. *)
PackDir(j) ==
  /\ job[j].at = "pack"
  /\ job[j].found = {} /\ job[j].empties = {}
  /\ \E x \in job[j].dirs :
       LET entries == IF IsDir(x) THEN Children(x) ELSE {}
       IN  job' = [job EXCEPT ![j].dirs = (@ \ {x}) \cup {y \in entries : IsDir(y)},
                              ![j].found = {y \in entries : IsFile(y)},
                              ![j].empties = {y \in entries : IsDir(y)}]
  /\ UNCHANGED files

PackFile(j) ==
  /\ job[j].at = "pack"
  /\ \E x \in job[j].found :
       LET m == Member(IF IsDir(x) THEN "dir" ELSE "file", j, ArcName(j, x), Blocks(x))
       IN  /\ Exists(x)
           /\ Put(j, m)
           /\ job' = [job EXCEPT ![j].found = @ \ {x}, ![j].pos = @ + 1,
                                 ![j].payload = Append(@, m)]

(* A file that has gone ends the archive, which is closed all the same. *)
PackVanished(j) ==
  /\ job[j].at = "pack"
  /\ job[j].found \ DOMAIN tree # {}
  /\ IF job[j].pos > 0 THEN Put(j, End(j)) /\ Ends(j, "failed") ELSE Fails(j)

(* A plausible bug: only files are packed. *)
PackEmptyDirNot(j) ==
  /\ job[j].at = "pack"
  /\ job[j].found = {} /\ job[j].empties # {}
  /\ job' = [job EXCEPT ![j].empties = {}]
  /\ UNCHANGED files

PackEmptyDir(j) ==
  /\ job[j].at = "pack"
  /\ job[j].found = {}
  /\ \E x \in job[j].empties :
       LET m == Member("dir", j, ArcName(j, x), <<>>)
       IN  IF Children(x) = {}
             THEN /\ Put(j, m)
                  /\ job' = [job EXCEPT ![j].empties = @ \ {x}, ![j].pos = @ + 1,
                                        ![j].payload = Append(@, m)]
             ELSE job' = [job EXCEPT ![j].empties = @ \ {x}] /\ UNCHANGED files

PackEnd(j) ==
  /\ job[j].at = "pack"
  /\ job[j].dirs = {} /\ job[j].found = {} /\ job[j].empties = {}
  /\ Put(j, End(j))
  /\ job' = [job EXCEPT ![j].at = "size", ![j].pos = @ + 1, ![j].payload = Append(@, End(j))]

(* dst.stat() for the answer *)
ArchiveAnswer(j) ==
  /\ job[j].at = "size"
  /\ IF Exists(job[j].to) THEN Ends(j, "ok") /\ UNCHANGED files ELSE Fails(j)

-----------------------------------------------------------------------------
(* The job is killed at the timeout of its capability, or an error of the  *)
(* relay or of the file system ends it.                                    *)
Dies(j) ==
  /\ Running(j)
  /\ Ends(j, "none")
  /\ UNCHANGED files

Begins(j) ==
  \/ ListBegin(j, Root) \/ DeleteBegin(j, Root)
  \/ \E x \in Asked :
    \/ \E op \in StoreOp : \E payload \in Payloads[j][op] : StoreBegin(j, op, x, payload)
    \/ \E op \in {"fetch", "extract"} : ReadBegin(j, op, x)
    \/ ListBegin(j, x) \/ DeleteBegin(j, x)
    \/ \E y \in Asked : MoveBegin(j, x, y) \/ ArchiveBegin(j, x, y)

Steps(j) ==
  \/ MkdirParent(j) \/ OpenWrite(j) \/ WriteBlock(j) \/ WriteEnd(j)
  \/ OpenRead(j) \/ ReadBlock(j) \/ ReadEnd(j)
  \/ MakeTarget(j) \/ ExtractMember(j) \/ MembersEnd(j) \/ UnlinkTmp(j)
  \/ Unlink(j) \/ RmtreeOpen(j) \/ RmtreeEntry(j) \/ RmtreeLeave(j)
  \/ MoveLook(j) \/ MoveRename(j)
  \/ WalkDir(j) \/ WalkEnd(j) \/ ListFile(j) \/ ListStat(j) \/ ListEnd(j)
  \/ PackDir(j) \/ PackFile(j) \/ PackVanished(j) \/ PackEmptyDir(j) \/ PackEnd(j) \/ ArchiveAnswer(j)

(* What j changes is not quiet any more for the jobs under way or over. *)
Disturbs(j) ==
  /\ quiet' = [k \in Job |->
                 IF k = j \/ job[k].at = "new" THEN quiet[k]
                                               ELSE {x \in quiet[k] : At(x)' = At(x)}]
  /\ clean' = {k \in clean : \/ k = j \/ job[k].fd = NoInode
                             \/ node'[job[k].fd] = node[job[k].fd]}

Next == \E j \in Job : (Begins(j) \/ Steps(j) \/ Dies(j)) /\ Disturbs(j)

Spec == Init /\ [][Next]_vars

-----------------------------------------------------------------------------
(* Of a target that nobody else has touched, a store has written exactly   *)
(* the blocks it has got through, under the name it was asked for, and it  *)
(* answers only when that is all of them: a store that is under way or has *)
(* died leaves a prefix of the payload, and the file that was there before *)
(* is gone.                                                                *)
StoreExact ==
  \A j \in Job :
    job[j].op = "store" /\ job[j].fd # NoInode /\ job[j].to \in quiet[j] =>
      /\ At(job[j].to) = <<job[j].fd, File(SubSeq(job[j].payload, 1, job[j].pos))>>
      /\ job[j].answer = "ok" => job[j].pos = Len(job[j].payload)

(* A fetch answers the whole file if nobody wrote to that file while it    *)
(* was read, and it is the file at the path it was asked for if nobody     *)
(* touched the path. (If somebody did write, the answer can be a mixture.) *)
FetchExact ==
  \A j \in Job :
    job[j].op = "fetch" /\ job[j].answer = "ok" =>
      /\ j \in clean => node[job[j].fd] = File(job[j].got)
      /\ job[j].path \in quiet[j] => tree[job[j].path] = job[j].fd

(* What an artifact with action extract unpacks is what was downloaded:    *)
(* the temporary file is read back complete, unless another job has used   *)
(* its name, which depends on the target alone.                            *)
UnpacksOwn ==
  \A j \in Job :
    /\ job[j].op = "unpack_artifact" /\ job[j].at = "target"
    /\ Sibling(job[j].to, TmpName) \in quiet[j]
    => job[j].got = job[j].payload

Unpacks(j) == job[j].op \in {"extract", "unpack", "unpack_artifact"}

(* Every member that an extraction is past is there with its contents,     *)
(* unless it was overwritten by somebody else or by a later member of the  *)
(* same name; an extraction that succeeds is past them all and has removed *)
(* its temporary file. One that fails leaves those members there.          *)
ExtractExact ==
  \A j \in Job :
    Unpacks(j) =>
      /\ \A i \in 1..job[j].done :
           LET m == job[j].got[i]
               dest == job[j].to \o m.name
           IN  /\ \A k \in i + 1..job[j].done + 1 :
                     k <= Members(j) => job[j].got[k].name # m.name
               /\ dest \in quiet[j]
               => IF m.kind = "dir" THEN IsDir(dest)
                                    ELSE IsFile(dest) /\ Blocks(dest) = m.blocks
      /\ job[j].answer = "ok" =>
           /\ job[j].done = Members(j)
           /\ job[j].op = "unpack_artifact" /\ Sibling(job[j].to, TmpName) \in quiet[j]
                => ~Exists(Sibling(job[j].to, TmpName))

(* A delete that answers leaves nothing of what was at or below the path,  *)
(* but for what others have made or moved there since it began.            *)
DeleteExact ==
  \A j \in Job :
    job[j].op = "delete" /\ job[j].answer = "ok" =>
      \A x \in quiet[j] : Under(x, job[j].path) => ~Exists(x)

(* The paths that a job may change: for a target the directories above it  *)
(* as well, for they are created when they are missing; for a move into a  *)
(* directory only the entry, once the job has looked.                      *)
Footprint(j) ==
  LET r == job[j]
      tmp == IF r.op = "unpack_artifact" THEN {Sibling(r.to, TmpName)} ELSE {}
  IN  CASE r.op \in {"store", "archive"} -> {x \in Path : Under(r.to, x)}
        [] Unpacks(j) -> {x \in Path : Under(r.to, x) \/ Under(x, r.to)} \cup tmp
        [] r.op = "delete" -> {x \in Path : Under(x, r.path)}
        [] r.op = "move" ->
             {x \in Path : \/ Under(x, r.path) \/ Under(r.to, x)
                           \/ r.file # Root /\ Under(x, r.file) /\ Under(x, r.to)}
        [] OTHER -> {}

(* No job changes a path outside those it was asked to work on, unless     *)
(* others have put something there since it began: an open file is         *)
(* written, and a directory that rmtree holds open is emptied, wherever it *)
(* has been moved to meanwhile.                                            *)
Contained ==
  [][\A j \in Job :
       job'[j] # job[j] =>
         \A x \in quiet[j] \ Footprint(j) : At(x)' = At(x)]_vars

(* Whatever changes is in the footprint of a job that has begun, even when *)
(* an open file or directory of one job has been moved or replaced by      *)
(* another. So a caller who names no path at, above or below backups/ or   *)
(* channels/, and deletes nothing that these are in, leaves them alone.    *)
OnlyFootprintsChange ==
  [][\A x \in Path : At(x)' # At(x) => \E j \in Job : x \in Footprint(j)]_vars

(* A move never removes a file or directory from the tree, except the      *)
(* destination itself, and that only if it was the path asked for, or has  *)
(* been created since the move began: a file that is moved into a          *)
(* directory does not replace one that is there under its name.            *)
MoveLosesNothing ==
  [][\A j \in Job :
       job[j].at = "rename" /\ job'[j] # job[j] =>
         \A x \in DOMAIN tree :
           \/ tree[x] \in Range(tree')
           \/ /\ x = job[j].file /\ Children(x) = {}
              /\ x = job[j].to \/ x \notin quiet[j]]_vars

(* A list holds every file below its path that nobody touched while it     *)
(* ran, once and with its size, and no path that was untouched and is not  *)
(* a file.                                                                 *)
ListExact ==
  \A j \in Job :
    job[j].op = "list" /\ job[j].answer = "ok" =>
      \A x \in quiet[j] :
        {s[2] : s \in {t \in job[j].listed : t[1] = x}}
          = IF Below(x, job[j].path) /\ IsFile(x) THEN {Len(Blocks(x))} ELSE {}

(* The members of x in the archive that j has made. *)
Packed(j, x) ==
  {i \in DOMAIN Blocks(job[j].to) :
     LET m == Blocks(job[j].to)[i] IN m.kind \in MemberKind /\ m.name = ArcName(j, x)}

(* An archive that was answered is complete and has every file that nobody *)
(* touched exactly once, with its contents at this moment; of untouched    *)
(* paths that do not exist it has nothing. The archive itself is left out: *)
(* it can end up in itself when it is made below its source.               *)
ArchiveExact ==
  \A j \in Job :
    job[j].op = "archive" /\ job[j].answer = "ok" /\ job[j].to \in quiet[j] =>
      /\ IsArchive(Blocks(job[j].to))
      /\ \A x \in quiet[j] :
           Below(x, job[j].path) /\ x # job[j].to =>
             IF IsFile(x)
               THEN \E i \in Packed(j, x) :
                      /\ Packed(j, x) = {i}
                      /\ Blocks(job[j].to)[i] = Member("file", j, ArcName(j, x), Blocks(x))
               ELSE ~Exists(x) => Packed(j, x) = {}

(* What an archive packed, an extraction of that archive restores: every   *)
(* untouched file with its contents and every directory that stayed empty, *)
(* at the same place below the target. A source that is itself an empty    *)
(* directory is the exception (the comparison is of what is below it).     *)
RoundTrip ==
  \A a, e \in Job :
    /\ job[a].op = "archive" /\ job[a].answer = "ok"
    /\ job[e].op = "extract" /\ job[e].answer = "ok"
    /\ \A i \in DOMAIN job[e].got : job[e].got[i].by = a
    => \A x \in quiet[a] :
         LET dest == job[e].to \o ArcName(a, x)
         IN  /\ Below(x, job[a].path) /\ x # job[a].to
             /\ dest \in quiet[e]
             => /\ IsFile(x) => IsFile(dest) /\ Blocks(dest) = Blocks(x)
                /\ IsDir(x) /\ {y \in Path : Below(y, x)} \subseteq quiet[a] => IsDir(dest)
=============================================================================
