---------------------------- MODULE FileStoreInv ----------------------------
(***************************************************************************)
(* What holds of every job of FileStore between two of its steps: how far  *)
(* it has come, and what the tree shows of its work where nobody else has  *)
(* been.  FileInv is the strengthening with which the properties of        *)
(* FileStore are kept by every step.                                       *)
(***************************************************************************)
EXTENDS FileStore

(* The steps of each operation. *)
Stages ==
  [none |-> {"new"},
   store |-> {"mkdir", "open", "write", "done"},
   unpack |-> {"mkdir", "target", "member", "open", "write", "done"},
   unpack_artifact |-> {"mkdir", "open", "write", "open_read", "read", "target", "member",
                        "unlink_tmp", "done"},
   fetch |-> {"open_read", "read", "done"},
   delete |-> {"unlink", "rmtree", "done"},
   move |-> {"mkdir", "look", "rename", "done"},
   list |-> {"walk", "list", "stat", "done"},
   archive |-> {"mkdir", "open", "pack", "size", "done"},
   extract |-> {"open_read", "read", "target", "member", "open", "write", "done"}]

Tmp(j) == Sibling(job[j].to, TmpName)

StageOK(j) ==
  LET r == job[j]
  IN  /\ r.at \in Stages[r.op]
      /\ r.at = "new" => r = NewJob
      /\ r.at # "done" => r.answer = "none"
      /\ r.op \in StoreOp => r.to \in Asked
      /\ r.op \in {"store", "archive"} => r.file = r.to
      /\ Unpacks(j) /\ r.at \in {"open", "write"} =>
           \/ r.op = "unpack_artifact" /\ r.file = Tmp(j)
           \/ Under(r.file, r.to)

(* Where nobody else has been, the inode that is written is at the path    *)
(* that was opened and at no other.                                        *)
WriterOK(j) ==
  job[j].at \in {"write", "pack"} =>
    /\ job[j].fd \in Inode
    /\ \A x \in quiet[j] : Exists(x) /\ tree[x] = job[j].fd => x = job[j].file

(* So much of its payload has j written to file. *)
Wrote(j, blocks) ==
  job[j].file \in quiet[j] => At(job[j].file) = <<job[j].fd, File(blocks)>>

StoreOK(j) ==
  LET r == job[j]
  IN  r.op = "store" =>
        /\ r.payload \in Seq(Range(r.payload)) /\ r.pos <= Len(r.payload)
        /\ r.at \in {"mkdir", "open"} => r.fd = NoInode
        /\ r.fd # NoInode => Wrote(j, SubSeq(r.payload, 1, r.pos))
        /\ r.answer = "ok" => r.pos = Len(r.payload)

(* What was read of an inode that nobody else has written to is the        *)
(* beginning of what it holds.                                             *)
FetchOK(j) ==
  LET r == job[j]
      blocks == node[r.fd].blocks
  IN  r.op = "fetch" =>
        /\ r.file = r.path /\ r.got \in Seq(Range(r.got))
        /\ r.at = "open_read" => r.got = <<>>
        /\ r.at = "read" \/ r.answer = "ok" =>
             /\ r.fd \in Inode
             /\ r.path \in quiet[j] => Exists(r.path) /\ tree[r.path] = r.fd
             /\ j \in clean => /\ ~node[r.fd].dir
                               /\ Len(r.got) <= Len(blocks)
                               /\ r.got = SubSeq(blocks, 1, Len(r.got))
                               /\ r.answer = "ok" => Len(r.got) = Len(blocks)

(* The temporary file of an artifact holds what was written to it, and     *)
(* what is read back is the beginning of that.                             *)
ArtifactOK(j) ==
  LET r == job[j]
      x == Tmp(j)
  IN  r.op = "unpack_artifact" =>
        /\ r.at \in {"mkdir", "open_read", "read"} => r.file = x
        /\ r.file = x => r.payload \in Seq(Range(r.payload))
        /\ r.at \in {"mkdir", "open", "write", "open_read"} /\ r.file = x => r.got = <<>>
        /\ r.at = "write" /\ r.file = x =>
             /\ r.pos <= Len(r.payload)
             /\ Wrote(j, SubSeq(r.payload, 1, r.pos))
        /\ r.at \in {"open_read", "read"} /\ x \in quiet[j] =>
             IsFile(x) /\ Blocks(x) = r.payload
        /\ r.at = "read" =>
             /\ r.got \in Seq(Range(r.got))
             /\ x \in quiet[j] => /\ tree[x] = r.fd /\ Len(r.got) <= Len(r.payload)
                                  /\ r.got = SubSeq(r.payload, 1, Len(r.got))
        /\ r.at = "target" /\ x \in quiet[j] => r.got = r.payload

(* A directory that rmtree has open is not above a path outside the one    *)
(* that is deleted, unless somebody else has put it there.                 *)
RmtreeOK(j) ==
  job[j].at = "rmtree" =>
    \A n \in DOMAIN job[j].stack, z \in quiet[j] :
      Exists(z) /\ ~Under(z, job[j].path) =>
        \A y \in Above(z) : tree[y] # job[j].stack[n].dir

DeleteOK(j) ==
  job[j].op = "delete" /\ job[j].answer = "ok" =>
    \A x \in quiet[j] : Under(x, job[j].path) => ~Exists(x)

(* A source that is moved into a directory goes to a name that was free    *)
(* there.                                                                  *)
MoveOK(j) ==
  LET r == job[j]
  IN  r.at = "rename" =>
        r.file = r.to \/ (Below(r.file, r.to) /\ (r.file \in quiet[j] => ~Exists(r.file)))

(* Every path is found, or below a directory that is still to be scanned,  *)
(* and every file found is listed, or still to be looked at.               *)
ListOK(j) ==
  LET r == job[j]
      Here(x) == x \in quiet[j] /\ Below(x, r.path)
      Listed(x) == <<x, Len(Blocks(x))>> \in r.listed
  IN  r.op = "list" =>
        /\ \A y \in r.dirs : Under(y, r.path)
        /\ \A y \in r.found : Below(y, r.path)
        /\ r.at = "walk" => \A x \in DOMAIN tree : Here(x) =>
             x \in r.found \/ \E y \in r.dirs : Below(x, y)
        /\ r.at \in {"list", "stat"} => \A x \in DOMAIN tree : Here(x) /\ IsFile(x) =>
             x \in r.found \/ Listed(x)
        /\ r.at = "stat" => r.file \in r.found /\ (r.file \in quiet[j] => IsFile(r.file))
        /\ r.answer = "ok" => \A x \in DOMAIN tree : Here(x) /\ IsFile(x) => Listed(x)
        /\ \A s \in r.listed : s[1] \in quiet[j] =>
             Below(s[1], r.path) /\ IsFile(s[1]) /\ s[2] = Len(Blocks(s[1]))

JobInv(j) ==
  /\ StageOK(j) /\ WriterOK(j) /\ StoreOK(j) /\ FetchOK(j) /\ ArtifactOK(j)
  /\ RmtreeOK(j) /\ DeleteOK(j) /\ MoveOK(j) /\ ListOK(j)

(* Every job stands where its operation can stand, and the tree shows of   *)
(* its work what it has done so far, wherever nobody else has been.        *)
FileInv == \A j \in Job : JobInv(j)

(* Jobs work on what callers have named, the target of an extraction being *)
(* a name made of that.                                                    *)
AskedOK(j) ==
  LET r == job[j]
  IN  /\ r.op \in StoreOp \cup {"move", "archive"} => r.to \in Asked
      /\ r.op = "extract" => \E y \in Asked : r.to = Sibling(y, StemName)
      /\ r.op = "delete" => r.path \in Asked \cup {Root}
      /\ r.op = "move" => /\ r.path \in Asked
                          /\ r.at \in {"mkdir", "look"} => r.file = Root

(* A path that is not quiet for some job is in the footprint of another:   *)
(* what has been changed is accounted for.                                 *)
Accounted ==
  /\ \A j \in Job : AskedOK(j)
  /\ \A j \in Job : \A x \in Path \ quiet[j] : \E k \in Job : x \in Footprint(k)

-----------------------------------------------------------------------------
(* What an extraction has made of its archive, and an archive of its       *)
(* source.                                                                 *)

(* The temporary file of an artifact is written and read before.           *)
Fetching(j) ==
  \/ job[j].at \in {"mkdir", "open_read", "read", "target"}
  \/ job[j].at \in {"open", "write"} /\ job[j].op = "unpack_artifact" /\ job[j].file = Tmp(j)

Dest(j, i) == job[j].to \o job[j].got[i].name

(* A member is there unless it is of the name of one that came later, and  *)
(* so are the directories above it.                                        *)
Extracted(j, i) ==
  LET m == job[j].got[i]
      x == Dest(j, i)
      last == \A k \in i + 1..job[j].done + 1 : k <= Members(j) => job[j].got[k].name # m.name
  IN  /\ ~Refused(m, job[j].to) /\ x \in Path
      /\ last /\ x \in quiet[j] =>
           IF m.kind = "dir" THEN IsDir(x) ELSE IsFile(x) /\ Blocks(x) = m.blocks
      /\ \A y \in quiet[j] : Under(y, job[j].to) /\ Below(x, y) => IsDir(y)

ExtractStage(j) ==
  LET r == job[j]
  IN  /\ r.got \in Seq(Range(r.got))
      /\ r.at = "read" => r.fd \in Inode
      /\ Fetching(j) => r.done = 0
      /\ (r.at # "done" /\ ~Fetching(j)) \/ r.done > 0 \/ r.answer = "ok" =>
           IsArchive(r.got) /\ r.done <= Members(j)
      /\ r.at = "unlink_tmp" \/ r.answer = "ok" => r.done = Members(j)

(* The file that is being written is that of the next member. *)
NextMember(j) ==
  LET r == job[j]
      m == r.got[r.done + 1]
  IN  r.at \in {"open", "write"} /\ ~Fetching(j) =>
        /\ r.done < Members(j) /\ ~Refused(m, r.to) /\ m.kind # "dir"
        /\ r.file = Dest(j, r.done + 1) /\ r.payload = m.blocks
        /\ \A y \in quiet[j] : Under(y, r.to) /\ Below(r.file, y) => IsDir(y)
        /\ r.at = "write" => r.pos <= Len(r.payload) /\ Wrote(j, SubSeq(r.payload, 1, r.pos))

TmpGone(j) ==
  job[j].answer = "ok" /\ job[j].op = "unpack_artifact" /\ Tmp(j) \in quiet[j] => ~Exists(Tmp(j))

ExtractOK(j) ==
  Unpacks(j) => /\ ExtractStage(j) /\ NextMember(j) /\ TmpGone(j)
                /\ \A i \in 1..job[j].done : Extracted(j, i)

(* The member that m is of x. *)
MemberOf(j, m, x) ==
  /\ m.kind \in {"file", "dir"}
  /\ m = Member(m.kind, j, ArcName(j, x), m.blocks)
  /\ m.blocks \in Seq(Range(m.blocks))

IsPacked(j, x) == \E n \in DOMAIN job[j].payload : MemberOf(j, job[j].payload[n], x)

(* Below no directory that is still to be scanned has anything been found. *)
WalkOK(j) ==
  LET r == job[j]
      Seen(x) == x \in r.found \cup r.empties \/ IsPacked(j, x)
  IN  r.at = "pack" =>
        /\ \A y, z \in r.dirs : Under(y, r.path) /\ ~Below(y, z)
        /\ r.empties \subseteq r.dirs /\ r.found \cap r.empties = {}
        /\ \A x \in r.found \cup r.empties : Below(x, r.path) /\ ~IsPacked(j, x)
        /\ \A x \in r.found : x \in quiet[j] => IsFile(x)
        /\ \A x \in r.empties : x \in quiet[j] => IsDir(x)
        /\ \A x \in Path, y \in r.dirs : Below(x, r.path) /\ Seen(x) => ~Below(x, y)

Packing(j) == job[j].op = "archive" /\ (job[j].at \in {"pack", "size"} \/ job[j].answer = "ok")

(* A file is packed, or found, or below a directory to be scanned; of a    *)
(* directory that is packed nowhere something else is.                     *)
Awaited(j, x) ==
  job[j].at = "pack" /\ (x \in job[j].found \/ \E y \in job[j].dirs : Below(x, y))

SourceOK(j) ==
  \A x \in quiet[j] \ {job[j].to} :
    Below(x, job[j].path) =>
      /\ \A n \in DOMAIN job[j].payload :
           LET m == job[j].payload[n]
           IN  MemberOf(j, m, x) => /\ Exists(x)
                                    /\ m.kind = "file" <=> IsFile(x)
                                    /\ IsFile(x) => m.blocks = Blocks(x)
      /\ IsFile(x) => IsPacked(j, x) \/ Awaited(j, x)
      /\ IsDir(x) /\ {y \in Path : Below(y, x)} \subseteq quiet[j] =>
           \/ Awaited(j, x)
           \/ \E y \in Path :
                /\ Under(y, x)
                /\ \/ IsPacked(j, y)
                   \/ /\ job[j].at = "pack"
                      /\ \/ y \in job[j].found \cup job[j].empties
                         \/ y \in job[j].dirs /\ Children(y) # {}

(* What is written is a member for every path that was packed, and at the  *)
(* end the end.                                                            *)
PackedOK(j) ==
  LET r == job[j]
  IN  Packing(j) =>
        /\ r.payload \in Seq(Range(r.payload)) /\ r.pos = Len(r.payload)
        /\ Wrote(j, r.payload)
        /\ \A n \in DOMAIN r.payload :
             \/ \E x \in Path : Below(x, r.path) /\ MemberOf(j, r.payload[n], x)
             \/ r.at # "pack" /\ n = Len(r.payload)
        /\ r.at # "pack" => r.payload # <<>> /\ Last(r.payload) = End(j)
        /\ \A x \in Path, m, n \in DOMAIN r.payload :
             /\ Below(x, r.path) /\ MemberOf(j, r.payload[m], x) /\ MemberOf(j, r.payload[n], x)
             => m = n
        /\ SourceOK(j)

ArchiveOK(j) ==
  /\ job[j].op = "archive" /\ job[j].at \in {"mkdir", "open"} =>
       job[j].payload = <<>> /\ job[j].found = {} /\ job[j].empties = {}
  /\ WalkOK(j) /\ PackedOK(j)

(* Wherever nobody else has been, an extraction has made what the members  *)
(* of its archive say that it is past, and a running archive has packed,   *)
(* or will still come by, whatever is below its source.                    *)
MembersInv == \A j \in Job : ExtractOK(j) /\ ArchiveOK(j)

-----------------------------------------------------------------------------
(* Where the blocks of archives are from.                                  *)

(* A block that bears the name of a job is the one that it has put at this *)
(* place of its archive, unless the job gave up and closed its archive.    *)
Genuine(b, n) ==
  b.kind \in MemberKind \cup {"end"} /\ b.by \in Job =>
    LET r == job[b.by]
    IN  \/ r.answer = "failed"
        \/ r.op = "archive" /\ n \in DOMAIN r.payload /\ r.payload[n] = b

(* All blocks of the sequences in S are genuine, those inside of members   *)
(* included.                                                               *)
AllGenuine(S) ==
  \A s \in S :
    /\ s \in Seq(Range(s))
    /\ \A n \in DOMAIN s :
         Genuine(s[n], n) /\ (s[n].kind \in MemberKind => s[n].blocks \in S)

(* So they are, whatever the jobs do, if no job marked them: these are     *)
(* files that were there before, or come from outside.                     *)
Foreign(S) ==
  \A s \in S :
    /\ s \in Seq(Range(s))
    /\ \A n \in DOMAIN s :
         /\ s[n].kind \in MemberKind \cup {"end"} => s[n].by \notin Job
         /\ s[n].kind \in MemberKind => s[n].blocks \in S

(* What is in files and in the memory of jobs. *)
Contents ==
  {node[i].blocks : i \in Inode} \cup {job[j].payload : j \in Job} \cup {job[j].got : j \in Job}

(* S stands for everything that has been in a file or in the memory of a   *)
(* job, and inside of that.                                                *)
GenuineInv == \E S : Contents \subseteq S /\ AllGenuine(S)
=============================================================================
