-------------------------- MODULE FileStore_proofs --------------------------
(***************************************************************************)
(* Proofs about FileStore, for any paths, jobs, contents and initial       *)
(* trees: handlers that work on one tree without locks, and may die at any *)
(* step, keep FileInv, and with it what each of them answers for.          *)
(***************************************************************************)
EXTENDS FileStoreInv, FileTree_proofs

-----------------------------------------------------------------------------
(* Steps in general.                                                       *)

(* Where a job stands tells what it may be doing. *)
LEMMA StageIs ==
  ASSUME NEW j \in Job, TypeOK, StageOK(j)
  PROVE  LET r == job[j]
         IN  /\ r.at = "new" <=> r.op = "none"
             /\ r.at = "mkdir" => r.op \in {"store", "unpack", "unpack_artifact", "move", "archive"}
             /\ r.at = "open" =>
                  r.op \in {"store", "unpack", "unpack_artifact", "archive", "extract"}
             /\ r.at = "write" => r.op \in {"store", "unpack", "unpack_artifact", "extract"}
             /\ r.at \in {"open_read", "read"} => r.op \in {"unpack_artifact", "fetch", "extract"}
             /\ r.at \in {"target", "member"} => r.op \in {"unpack", "unpack_artifact", "extract"}
             /\ r.at = "unlink_tmp" => r.op = "unpack_artifact"
             /\ r.at \in {"unlink", "rmtree"} => r.op = "delete"
             /\ r.at \in {"look", "rename"} => r.op = "move"
             /\ r.at \in {"walk", "list", "stat"} => r.op = "list"
             /\ r.at \in {"pack", "size"} => r.op = "archive"
  <1>1. job[j].op \in Op /\ job[j].at \in Stages[job[j].op]
    BY DEF TypeOK, IsJob, StageOK
  <1> QED BY <1>1 DEF Op, Stages

(* A step changes one job, within its type. *)
LEMMA TypesAfter ==
  ASSUME TypeOK, NEW j \in Job, TreeOK', DOMAIN job' = Job, IsJob(job'[j]),
         \A k \in Job \ {j} : job'[k] = job[k], Disturbs(j)
  PROVE  TypeOK'
  <1>1. quiet' \in [Job -> SUBSET Path] /\ clean' \subseteq Job
    BY DEF TypeOK, Disturbs
  <1> QED BY <1>1 DEF TypeOK

LEMMA GotoIs ==
  ASSUME TypeOK, NEW j \in Job, NEW label \in Label, Goto(j, label)
  PROVE  /\ IsJob(job'[j]) /\ DOMAIN job' = Job /\ \A k \in Job \ {j} : job'[k] = job[k]
         /\ job'[j].at = label
         /\ job'[j].op = job[j].op /\ job'[j].answer = job[j].answer
         /\ job'[j].path = job[j].path /\ job'[j].to = job[j].to /\ job'[j].file = job[j].file
         /\ job'[j].fd = job[j].fd /\ job'[j].pos = job[j].pos
         /\ job'[j].payload = job[j].payload /\ job'[j].got = job[j].got
         /\ job'[j].done = job[j].done /\ job'[j].dirs = job[j].dirs
         /\ job'[j].found = job[j].found /\ job'[j].empties = job[j].empties
         /\ job'[j].listed = job[j].listed /\ job'[j].stack = job[j].stack
  <1>1. job' = [job EXCEPT ![j].at = label] /\ DOMAIN job = Job /\ IsJob(job[j])
    BY DEF Goto, TypeOK
  <1> QED BY <1>1 DEF IsJob

LEMMA EndsIs ==
  ASSUME TypeOK, NEW j \in Job, NEW answer \in {"none", "failed", "ok"}, Ends(j, answer)
  PROVE  /\ IsJob(job'[j]) /\ DOMAIN job' = Job /\ \A k \in Job \ {j} : job'[k] = job[k]
         /\ job'[j].at = "done" /\ job'[j].answer = answer
         /\ job'[j].op = job[j].op
         /\ job'[j].path = job[j].path /\ job'[j].to = job[j].to /\ job'[j].file = job[j].file
         /\ job'[j].fd = job[j].fd /\ job'[j].pos = job[j].pos
         /\ job'[j].payload = job[j].payload /\ job'[j].got = job[j].got
         /\ job'[j].done = job[j].done /\ job'[j].listed = job[j].listed
         /\ job'[j].dirs = {} /\ job'[j].found = {} /\ job'[j].empties = {}
         /\ job'[j].stack = <<>>
  <1>1. /\ job' = [job EXCEPT ![j].at = "done", ![j].answer = answer, ![j].dirs = {},
                     ![j].found = {}, ![j].empties = {}, ![j].stack = <<>>]
        /\ DOMAIN job = Job /\ IsJob(job[j])
    BY DEF Ends, TypeOK
  <1>2. <<>> \in Seq(Frame) /\ "done" \in Label
    BY EmptySeq DEF Label
  <1> DEFINE r == [at |-> "done", op |-> job[j].op, answer |-> answer, path |-> job[j].path,
                   to |-> job[j].to, file |-> job[j].file, fd |-> job[j].fd, pos |-> job[j].pos,
                   payload |-> job[j].payload, got |-> job[j].got, done |-> job[j].done,
                   dirs |-> {}, found |-> {}, empties |-> {}, listed |-> job[j].listed,
                   stack |-> <<>>]
  <1>3. job'[j] = r
    BY <1>1 DEF IsJob
  <1>4. IsJob(r)
    BY <1>1, <1>2 DEF IsJob
  <1>5. DOMAIN job' = Job /\ \A k \in Job \ {j} : job'[k] = job[k]
    BY <1>1
  <1> QED BY <1>3, <1>4, <1>5

(* What a job is answerable for is not disturbed by the steps of others:   *)
(* the paths that they change are quiet no more.                           *)
LEMMA OthersKeep ==
  ASSUME TypeOK, TypeOK', UpStays, NEW j \in Job, NEW k \in Job \ {j}, JobInv(j),
         job'[j] = job[j], Disturbs(k)
  PROVE  JobInv(j)'
  <1> USE FileStoreAssumption DEF FileStoreAssumption
  <1>1. CASE job[j].at = "new"
    <2>1. job[j] = NewJob
      BY <1>1 DEF JobInv, StageOK
    <2>2. job'[j] = NewJob /\ "none" \in Op /\ "new" \in Stages.none
      BY <2>1 DEF Op, Stages
    <2> QED BY <2>2 DEF NewJob, JobInv, StageOK, WriterOK, StoreOK, FetchOK, ArtifactOK, RmtreeOK,
                  DeleteOK, MoveOK, ListOK, Unpacks, StoreOp
  <1>2. CASE job[j].at # "new"
    <2>1. quiet'[j] = {x \in quiet[j] : At(x)' = At(x)} /\ quiet[j] \subseteq Path
      BY <1>2 DEF Disturbs, TypeOK
    <2>2. j \in clean' => j \in clean /\ (job[j].fd = NoInode \/ node'[job[j].fd] = node[job[j].fd])
      BY DEF Disturbs
    <2>3. ASSUME NEW x \in quiet'[j]
          PROVE  /\ x \in quiet[j] /\ At(x)' = At(x)
                 /\ Exists(x)' <=> Exists(x)
                 /\ Exists(x) => tree'[x] = tree[x] /\ node'[tree'[x]] = node[tree[x]]
                 /\ IsFile(x)' <=> IsFile(x)
                 /\ Exists(x) => Blocks(x)' = Blocks(x)
      <3>1. x \in quiet[j] /\ At(x)' = At(x)
        BY <2>1
      <3>2. /\ Exists(x)' <=> Exists(x)
            /\ Exists(x) => tree'[x] = tree[x] /\ node'[tree'[x]] = node[tree[x]]
        BY <3>1, SameAt
      <3> QED BY <3>1, <3>2 DEF IsFile, Blocks
    <2>4. StageOK(j)'
      BY DEF JobInv, StageOK, Unpacks, Tmp
    <2>5. WriterOK(j)'
      BY <2>3 DEF JobInv, WriterOK
    <2>6. StoreOK(j)'
      <3>1. \A blocks : Wrote(j, blocks) => Wrote(j, blocks)'
        BY <2>3 DEF Wrote
      <3> QED BY <3>1 DEF JobInv, StoreOK
    <2>7. FetchOK(j)'
      BY <2>2, <2>3 DEF JobInv, FetchOK
    <2>8. ArtifactOK(j)'
      <3>1. \A blocks : Wrote(j, blocks) => Wrote(j, blocks)'
        BY <2>3 DEF Wrote
      <3>2. Tmp(j)' = Tmp(j)
        BY DEF Tmp
      <3> QED BY <2>3, <3>1, <3>2 DEF JobInv, ArtifactOK, IsFile, Exists
    <2>9. RmtreeOK(j)'
      <3> SUFFICES ASSUME job[j].at = "rmtree", NEW n \in DOMAIN job[j].stack, NEW z \in quiet'[j],
                          Exists(z)', ~Under(z, job[j].path), NEW y \in Above(z)
                   PROVE  tree'[y] # job[j].stack[n].dir
        BY DEF RmtreeOK
      <3>1. z \in DOMAIN tree /\ z \in DOMAIN tree' /\ tree'[z] = tree[z] /\ z \in Path
        BY <2>1, <2>3 DEF Exists
      <3>2. y \in Path /\ Below(z, y)
        BY <3>1, AboveIs
      <3>3. tree'[y] = tree[y]
        BY <3>1, <3>2 DEF UpStays
      <3> QED BY <2>3, <3>1, <3>3 DEF JobInv, RmtreeOK, Exists
    <2>10. DeleteOK(j)'
      BY <2>3 DEF JobInv, DeleteOK
    <2>11. MoveOK(j)'
      BY <2>3 DEF JobInv, MoveOK
    <2>12. ListOK(j)'
      <3> SUFFICES ASSUME job[j].op = "list"
                   PROVE  ListOK(j)'
        BY DEF ListOK
      <3>1. \A x \in quiet'[j] : x \in DOMAIN tree' => x \in DOMAIN tree
        BY <2>3 DEF Exists
      <3>2. \A x \in quiet'[j] : IsFile(x)' => IsFile(x) /\ Blocks(x)' = Blocks(x)
        BY <2>3 DEF IsFile
      <3>3. \A x \in quiet'[j] : IsFile(x) => IsFile(x)' /\ Blocks(x)' = Blocks(x)
        BY <2>3 DEF IsFile
      <3> QED BY <2>3, <3>1, <3>2, <3>3 DEF JobInv, ListOK
    <2> QED BY <2>4, <2>5, <2>6, <2>7, <2>8, <2>9, <2>10, <2>11, <2>12 DEF JobInv
  <1> QED BY <1>1, <1>2

-----------------------------------------------------------------------------
(* The steps of a job itself.                                              *)

(* What a step of j has to keep. *)
StepOK(j) ==
  /\ TypeOK' /\ UpStays
  /\ \A k \in Job \ {j} : job'[k] = job[k]
  /\ JobInv(j)'

LEMMA OwnPaths ==
  ASSUME TypeOK, NEW j \in Job, Disturbs(j)
  PROVE  /\ quiet'[j] = quiet[j] /\ quiet[j] \subseteq Path
         /\ j \in clean' <=> j \in clean
  BY DEF TypeOK, Disturbs

(* A job that ends without success has not changed what it answers for. *)
LEMMA EndsBadly ==
  ASSUME TypeOK, NEW j \in Job, JobInv(j), Disturbs(j), job[j].at # "new",
         NEW answer \in {"none", "failed"}, Ends(j, answer), UNCHANGED files
  PROVE  StepOK(j)
  <1>1. /\ IsJob(job'[j]) /\ DOMAIN job' = Job /\ \A k \in Job \ {j} : job'[k] = job[k]
        /\ job'[j].at = "done" /\ job'[j].answer = answer
        /\ job'[j].op = job[j].op
        /\ job'[j].path = job[j].path /\ job'[j].to = job[j].to /\ job'[j].file = job[j].file
        /\ job'[j].fd = job[j].fd /\ job'[j].pos = job[j].pos
        /\ job'[j].payload = job[j].payload /\ job'[j].got = job[j].got
        /\ job'[j].done = job[j].done /\ job'[j].listed = job[j].listed
        /\ job'[j].dirs = {} /\ job'[j].found = {} /\ job'[j].empties = {}
        /\ job'[j].stack = <<>>
    BY EndsIs
  <1>2. tree' = tree /\ node' = node
    BY DEF files
  <1>3. TypeOK' /\ UpStays
    BY <1>1, <1>2, TypesAfter, UnchangedTree DEF TypeOK
  <1>4. quiet'[j] = quiet[j] /\ (j \in clean' <=> j \in clean)
    BY OwnPaths
  <1>5. StageOK(j)'
    <2>1. job[j].op \in Op \ {"none"}
      BY StageIs DEF JobInv, TypeOK, IsJob
    <2>2. "done" \in Stages[job[j].op]
      BY <2>1 DEF Op, Stages
    <2> QED BY <1>1, <2>2 DEF JobInv, StageOK, Unpacks
  <1>6. StoreOK(j)'
    BY <1>1, <1>2, <1>4 DEF JobInv, StoreOK, Wrote, At, Exists, StageOK
  <1>7. ListOK(j)'
    BY <1>1, <1>2, <1>4 DEF JobInv, ListOK, IsFile, Exists, Blocks
  <1>8. FetchOK(j)' /\ ArtifactOK(j)'
    BY <1>1 DEF JobInv, FetchOK, ArtifactOK, Tmp
  <1>9. WriterOK(j)' /\ RmtreeOK(j)' /\ DeleteOK(j)' /\ MoveOK(j)'
    BY <1>1 DEF WriterOK, RmtreeOK, DeleteOK, MoveOK
  <1> QED BY <1>1, <1>3, <1>5, <1>6, <1>7, <1>8, <1>9 DEF StepOK, JobInv

(* Nor is there more to be said, at its end, of a job of these operations. *)
LEMMA EndsAnyhow ==
  ASSUME TypeOK, NEW j \in Job, JobInv(j), Disturbs(j),
         job[j].op \in {"unpack", "unpack_artifact", "extract", "move", "archive"},
         NEW answer \in {"none", "failed", "ok"}, Ends(j, answer), TreeOK', UpStays
  PROVE  StepOK(j)
  <1>1. /\ IsJob(job'[j]) /\ DOMAIN job' = Job /\ \A k \in Job \ {j} : job'[k] = job[k]
        /\ job'[j].at = "done" /\ job'[j].op = job[j].op
        /\ job'[j].to = job[j].to /\ job'[j].file = job[j].file
        /\ job'[j].payload = job[j].payload
    BY EndsIs
  <1>2. TypeOK'
    BY <1>1, TypesAfter
  <1>3. StageOK(j)'
    <2>1. "done" \in Stages[job[j].op]
      BY DEF Stages
    <2> QED BY <1>1, <2>1 DEF JobInv, StageOK, Unpacks
  <1>4. ArtifactOK(j)'
    BY <1>1 DEF JobInv, ArtifactOK, Tmp
  <1>5. /\ WriterOK(j)' /\ StoreOK(j)' /\ FetchOK(j)' /\ RmtreeOK(j)' /\ DeleteOK(j)'
        /\ MoveOK(j)' /\ ListOK(j)'
    BY <1>1 DEF WriterOK, StoreOK, FetchOK, RmtreeOK, DeleteOK, MoveOK, ListOK
  <1> QED BY <1>1, <1>2, <1>3, <1>4, <1>5 DEF StepOK, JobInv

LEMMA FrontOrRoot ==
  ASSUME NEW x \in Path
  PROVE  Front(x) \in Path
  <1>1. CASE x # Root
    BY <1>1, FrontIs
  <1>2. CASE x = Root
    <2>1. Front(x) = <<>>
      BY <1>2, SubSeqEmpty, EmptySeq DEF Front, Root
    <2> QED BY <2>1, PathAssumption DEF Root
  <1> QED BY <1>1, <1>2

(* The temporary file is beside the target, not in it. *)
LEMMA TmpAside ==
  ASSUME NEW x \in Asked, NEW y \in Path, Under(y, x)
  PROVE  Sibling(x, TmpName) \in Path /\ y # Sibling(x, TmpName)
  <1> USE FileStoreAssumption DEF FileStoreAssumption
  <1> DEFINE tmp == Sibling(x, TmpName)
  <1>1. tmp \in Path /\ tmp # x /\ x \in Path /\ x # Root
    OBVIOUS
  <1>2. Front(x) \in Path /\ Below(x, Front(x))
    BY <1>1, FrontIs
  <1>3. tmp # Root /\ Front(tmp) = Front(x)
    BY <1>1, <1>2, AppendIs DEF Sibling
  <1> HIDE DEF tmp
  <1>4. SUFFICES ASSUME Under(tmp, x) PROVE FALSE
    BY <1>1 DEF tmp
  <1>5. x \in Seq(Name) /\ tmp \in Seq(Name) /\ Front(x) \in Seq(Name)
    BY <1>1, <1>2, PathIsSeq
  <1>6. Below(tmp, x)
    BY <1>1, <1>4, <1>5, UnderOrder
  <1>7. Under(Front(x), x)
    BY <1>1, <1>3, <1>6, FrontIs
  <1>8. Below(x, x)
    BY <1>2, <1>5, <1>7, UnderOrder
  <1> QED BY <1>5, <1>8, UnderOrder

LEMMA MkdirParentStep ==
  ASSUME TypeOK, NEW j \in Job, JobInv(j), Disturbs(j), MkdirParent(j)
  PROVE  StepOK(j)
  <1> USE FileStoreAssumption DEF FileStoreAssumption
  <1> DEFINE x == Front(job[j].to)
             label == AfterMkdir[job[j].op]
  <1>1. /\ job[j].at = "mkdir"
        /\ job[j].op \in {"store", "unpack", "unpack_artifact", "move", "archive"}
    BY StageIs DEF MkdirParent, JobInv
  <1>2. CASE CanMkdir(x)
    <2>1. Mkdir(x, Held) /\ Goto(j, label)
      BY <1>2 DEF MkdirParent
    <2>2. /\ label \in Label /\ label \in Stages[job[j].op]
          /\ job[j].op = "store" => label = "open"
          /\ label \in {"open", "target", "look"}
          /\ job[j].op = "unpack_artifact" => label = "open"
          /\ label = "open" => job[j].op \in {"store", "unpack_artifact", "archive"}
      BY <1>1 DEF AfterMkdir, Label, Stages
    <2>3. x \in Path
      BY FrontOrRoot DEF TypeOK, IsJob
    <2> HIDE DEF x, label
    <2>4. TreeOK' /\ UpStays
      BY <1>2, <2>1, <2>3, MkdirKeeps DEF TypeOK
    <2>5. /\ IsJob(job'[j]) /\ DOMAIN job' = Job /\ \A k \in Job \ {j} : job'[k] = job[k]
          /\ job'[j].at = label
          /\ job'[j].op = job[j].op /\ job'[j].answer = job[j].answer
          /\ job'[j].path = job[j].path /\ job'[j].to = job[j].to /\ job'[j].file = job[j].file
          /\ job'[j].fd = job[j].fd /\ job'[j].pos = job[j].pos
          /\ job'[j].payload = job[j].payload /\ job'[j].got = job[j].got
      BY <2>1, <2>2, GotoIs
    <2>6. TypeOK'
      BY <2>4, <2>5, TypesAfter
    <2>7. StageOK(j)'
      BY <1>1, <2>2, <2>5 DEF JobInv, StageOK, Unpacks, Tmp, ArtifactOK
    <2>8. StoreOK(j)' /\ ArtifactOK(j)'
      BY <1>1, <2>2, <2>5 DEF JobInv, StageOK, StoreOK, ArtifactOK, Tmp
    <2>9. /\ WriterOK(j)' /\ FetchOK(j)' /\ RmtreeOK(j)' /\ DeleteOK(j)'
          /\ MoveOK(j)' /\ ListOK(j)'
      BY <1>1, <2>2, <2>5 DEF WriterOK, FetchOK, RmtreeOK, DeleteOK, MoveOK, ListOK
    <2> QED BY <2>4, <2>5, <2>6, <2>7, <2>8, <2>9 DEF StepOK, JobInv
  <1>3. CASE ~CanMkdir(x)
    BY <1>1, <1>3, EndsBadly DEF MkdirParent, Fails
  <1> QED BY <1>2, <1>3

LEMMA StoreBeginStep ==
  ASSUME TypeOK, NEW j \in Job, JobInv(j), Disturbs(j), NEW op \in StoreOp, NEW x \in Asked,
         NEW payload \in Payloads[j][op], StoreBegin(j, op, x, payload)
  PROVE  StepOK(j)
  <1> USE FileStoreAssumption DEF FileStoreAssumption
  <1> DEFINE tmp == Sibling(x, TmpName)
  <1>1. /\ job[j] = NewJob /\ IsJob(job[j]) /\ DOMAIN job = Job
        /\ tree' = tree /\ node' = node
        /\ job' = [job EXCEPT ![j].at = "mkdir", ![j].op = op, ![j].to = x,
             ![j].file = IF op = "unpack_artifact" THEN tmp ELSE x,
             ![j].payload = IF op = "unpack" THEN <<>> ELSE payload,
             ![j].got = IF op = "unpack" THEN payload ELSE <<>>]
    BY DEF StoreBegin, JobInv, StageOK, TypeOK, files
  <1>2. tmp \in Path /\ tmp # x /\ x \in Path
    OBVIOUS
  <1>3. payload \in Seq(Range(payload))
    OBVIOUS
  <1> HIDE DEF tmp
  <1>4. "mkdir" \in Label /\ op \in Op /\ "mkdir" \in Stages[op]
    BY DEF Label, Op, Stages, StoreOp
  <1>5. /\ IsJob(job'[j]) /\ DOMAIN job' = Job /\ \A k \in Job \ {j} : job'[k] = job[k]
        /\ job'[j].at = "mkdir" /\ job'[j].op = op /\ job'[j].answer = "none"
        /\ job'[j].to = x /\ job'[j].file = IF op = "unpack_artifact" THEN tmp ELSE x
        /\ job'[j].fd = NoInode /\ job'[j].pos = 0
        /\ job'[j].payload = IF op = "unpack" THEN <<>> ELSE payload
        /\ job'[j].got = IF op = "unpack" THEN payload ELSE <<>>
    BY <1>1, <1>2, <1>4 DEF IsJob, NewJob
  <1>6. TypeOK' /\ UpStays
    BY <1>1, <1>5, TypesAfter, UnchangedTree DEF TypeOK
  <1>7. StageOK(j)'
    BY <1>4, <1>5 DEF StageOK, Unpacks, StoreOp
  <1>8. StoreOK(j)'
    <2>1. Len(payload) \in Nat
      BY <1>3, LenProperties
    <2> QED BY <1>3, <1>5, <2>1 DEF StoreOK
  <1>9. ArtifactOK(j)'
    BY <1>3, <1>5 DEF ArtifactOK, Tmp, tmp
  <1>10. /\ WriterOK(j)' /\ FetchOK(j)' /\ RmtreeOK(j)' /\ DeleteOK(j)'
         /\ MoveOK(j)' /\ ListOK(j)'
    BY <1>5 DEF WriterOK, FetchOK, RmtreeOK, DeleteOK, MoveOK, ListOK, StoreOp
  <1> QED BY <1>5, <1>6, <1>7, <1>8, <1>9, <1>10 DEF StepOK, JobInv

LEMMA OpenWriteStep ==
  ASSUME TypeOK, NEW j \in Job, JobInv(j), Disturbs(j), OpenWrite(j)
  PROVE  StepOK(j)
  <1> USE FileStoreAssumption DEF FileStoreAssumption
  <1>1. PICK x \in Path : x = job[j].file
    BY DEF TypeOK, IsJob
  <1>2. /\ job[j].at = "open"
        /\ job[j].op \in {"store", "unpack", "unpack_artifact", "archive", "extract"}
    BY StageIs DEF OpenWrite, JobInv
  <1>3. CASE CanCreate(x)
    <2> DEFINE label == IF job[j].op = "archive" THEN "pack" ELSE "write"
               dirs == IF job[j].op = "archive" THEN {job[j].path} ELSE {}
    <2>1. /\ Create(x, Held) /\ IsJob(job[j]) /\ DOMAIN job = Job
          /\ job' = [job EXCEPT ![j].fd = tree'[x], ![j].pos = 0, ![j].at = label, ![j].dirs = dirs]
      BY <1>1, <1>3 DEF OpenWrite, TypeOK
    <2>2. /\ TreeOK' /\ UpStays /\ tree'[x] \in Inode
          /\ At(x)' = <<tree'[x], File(<<>>)>>
      BY <1>3, <2>1, CreateKeeps DEF TypeOK
    <2>3. label \in Label /\ label \in Stages[job[j].op] /\ dirs \subseteq Path
      BY <1>2, <2>1 DEF Label, Stages, IsJob
    <2> HIDE DEF dirs
    <2>4. /\ IsJob(job'[j]) /\ DOMAIN job' = Job /\ \A k \in Job \ {j} : job'[k] = job[k]
          /\ job'[j].at = label /\ job'[j].op = job[j].op /\ job'[j].answer = job[j].answer
          /\ job'[j].to = job[j].to /\ job'[j].file = x
          /\ job'[j].fd = tree'[x] /\ job'[j].pos = 0
          /\ job'[j].payload = job[j].payload /\ job'[j].got = job[j].got
      BY <1>1, <2>1, <2>2, <2>3 DEF IsJob
    <2>5. TypeOK'
      BY <2>2, <2>4, TypesAfter
    <2>6. StageOK(j)'
      BY <1>1, <1>2, <2>3, <2>4 DEF JobInv, StageOK, Unpacks, Tmp
    <2>7. WriterOK(j)'
      <3>1. \A z \in DOMAIN tree' : tree'[z] = tree'[x] => z = x
        BY <2>2 DEF TreeOK, IsTree, IsInjective, At, Exists
      <3> QED BY <2>2, <2>4, <3>1 DEF WriterOK, Exists
    <2>8. Wrote(j, SubSeq(job[j].payload, 1, 0))'
      <3>1. SubSeq(job'[j].payload, 1, 0) = <<>>
        BY SubSeqEmpty
      <3> QED BY <2>2, <2>4, <3>1 DEF Wrote, At, Exists
    <2>9. StoreOK(j)'
      <3>1. job[j].op = "store" => Len(job[j].payload) \in Nat
        BY LenProperties DEF JobInv, StoreOK
      <3> QED BY <1>2, <2>4, <2>8, <3>1 DEF JobInv, StageOK, StoreOK
    <2>10. ArtifactOK(j)'
      <3>1. job[j].op = "unpack_artifact" /\ x = Tmp(j) => Len(job[j].payload) \in Nat
        BY <1>1, LenProperties DEF JobInv, ArtifactOK
      <3> QED BY <1>1, <1>2, <2>4, <2>8, <3>1 DEF JobInv, ArtifactOK, Tmp
    <2>11. FetchOK(j)' /\ RmtreeOK(j)' /\ DeleteOK(j)' /\ MoveOK(j)' /\ ListOK(j)'
      BY <1>2, <2>4 DEF FetchOK, RmtreeOK, DeleteOK, MoveOK, ListOK
    <2> QED BY <2>2, <2>4, <2>5, <2>6, <2>7, <2>9, <2>10, <2>11 DEF StepOK, JobInv
  <1>4. CASE ~CanCreate(x)
    BY <1>1, <1>2, <1>4, EndsBadly DEF OpenWrite, Fails
  <1> QED BY <1>3, <1>4

(* The next block continues what was written, where nobody else has been.  *)
LEMMA WroteMore ==
  ASSUME TreeOK, NEW x \in Path, NEW fd \in Inode, NEW S, NEW payload \in Seq(S),
         NEW n \in Nat, n < Len(payload), At(x) = <<fd, File(SubSeq(payload, 1, n))>>,
         node' = [node EXCEPT ![fd].blocks = WriteAt(@, n + 1, payload[n + 1], Hole)],
         UNCHANGED tree
  PROVE  At(x)' = <<fd, File(SubSeq(payload, 1, n + 1))>>
  <1>1. x \in DOMAIN tree /\ tree[x] = fd /\ node[fd] = File(SubSeq(payload, 1, n))
    BY DEF At, Exists
  <1> DEFINE new == WriteAt(node[fd].blocks, n + 1, payload[n + 1], Hole)
  <1>2. node' = [node EXCEPT ![fd].blocks = new]
    OBVIOUS
  <1> HIDE DEF new
  <1>3. node'[fd] = File(new) /\ new = WriteAt(SubSeq(payload, 1, n), n + 1, payload[n + 1], Hole)
    <2>1. DOMAIN node = Inode /\ node[fd].blocks = SubSeq(payload, 1, n)
      BY <1>1 DEF TreeOK, IsTree, File
    <2>2. IsNode(node[fd]) /\ ~node[fd].dir
      <3>1. IsNode(node[fd])
        BY DEF TreeOK, IsTree
      <3>2. ~node[fd].dir
        BY <1>1 DEF File
      <3> QED BY <3>1, <3>2
    <2>3. node'[fd] = [dir |-> node[fd].dir, blocks |-> new]
      BY <1>2, <2>1, <2>2 DEF IsNode
    <2>4. node'[fd] = File(new)
      BY <2>2, <2>3 DEF File, IsNode
    <2> QED BY <2>1, <2>4 DEF new
  <1>4. node'[fd] = File(SubSeq(payload, 1, n + 1))
    BY <1>3, NextWritten
  <1> QED BY <1>1, <1>4 DEF At, Exists

LEMMA WriteBlockStep ==
  ASSUME TypeOK, NEW j \in Job, JobInv(j), Disturbs(j), WriteBlock(j)
  PROVE  StepOK(j)
  <1>1. /\ job[j].at = "write" /\ job[j].pos < Len(job[j].payload)
        /\ job[j].op \in {"store", "unpack", "unpack_artifact", "extract"}
        /\ IsJob(job[j]) /\ DOMAIN job = Job /\ job[j].fd \in Inode
    BY StageIs DEF WriteBlock, JobInv, WriterOK, TypeOK
  <1>2. PICK x \in Path, fd \in Inode, payload \in {job[j].payload}, n \in Nat :
          x = job[j].file /\ fd = job[j].fd /\ payload = job[j].payload /\ n = job[j].pos
    BY <1>1 DEF IsJob
  <1>3. /\ node' = [node EXCEPT ![fd].blocks = WriteAt(@, n + 1, payload[n + 1], Hole)]
        /\ tree' = tree /\ job' = [job EXCEPT ![j].pos = n + 1]
    BY <1>1, <1>2 DEF WriteBlock, Put
  <1>4. TreeOK' /\ UpStays
    BY <1>3, PutKeeps DEF TypeOK
  <1>5. /\ IsJob(job'[j]) /\ DOMAIN job' = Job /\ \A k \in Job \ {j} : job'[k] = job[k]
        /\ job'[j].at = "write" /\ job'[j].op = job[j].op /\ job'[j].answer = job[j].answer
        /\ job'[j].to = job[j].to /\ job'[j].file = x /\ job'[j].fd = fd
        /\ job'[j].pos = n + 1 /\ job'[j].payload = payload /\ job'[j].got = job[j].got
    BY <1>1, <1>2, <1>3 DEF IsJob
  <1>6. TypeOK'
    BY <1>4, <1>5, TypesAfter
  <1>7. quiet'[j] = quiet[j]
    BY OwnPaths
  <1>8. StageOK(j)'
    BY <1>1, <1>2, <1>5 DEF JobInv, StageOK, Unpacks, Tmp
  <1>9. WriterOK(j)'
    BY <1>1, <1>2, <1>3, <1>5, <1>7 DEF JobInv, WriterOK, Exists
  <1>10. ASSUME payload \in Seq(Range(payload)), Wrote(j, SubSeq(payload, 1, n))
         PROVE  Wrote(j, SubSeq(payload, 1, n + 1))' /\ n + 1 <= Len(payload)
    <2>1. Len(payload) \in Nat
      BY <1>10, LenProperties
    <2>2. ASSUME x \in quiet[j]
          PROVE  At(x)' = <<fd, File(SubSeq(payload, 1, n + 1))>>
      <3>1. At(x) = <<fd, File(SubSeq(payload, 1, n))>>
        BY <1>2, <1>10, <2>2 DEF Wrote
      <3>2. n < Len(payload)
        BY <1>1, <1>2
      <3> QED BY <1>3, <1>10, <3>1, <3>2, WroteMore DEF TypeOK
    <2> QED BY <1>1, <1>2, <1>5, <1>7, <2>1, <2>2 DEF Wrote, At, Exists
  <1>11. StoreOK(j)'
    BY <1>1, <1>2, <1>5, <1>10 DEF JobInv, StoreOK, StageOK
  <1>12. ArtifactOK(j)'
    BY <1>1, <1>2, <1>5, <1>10 DEF JobInv, ArtifactOK, Tmp
  <1>13. FetchOK(j)' /\ RmtreeOK(j)' /\ DeleteOK(j)' /\ MoveOK(j)' /\ ListOK(j)'
    BY <1>1, <1>5 DEF FetchOK, RmtreeOK, DeleteOK, MoveOK, ListOK
  <1> QED BY <1>4, <1>5, <1>6, <1>8, <1>9, <1>11, <1>12, <1>13 DEF StepOK, JobInv

LEMMA WriteEndStep ==
  ASSUME TypeOK, NEW j \in Job, JobInv(j), Disturbs(j), WriteEnd(j)
  PROVE  StepOK(j)
  <1>1. /\ job[j].at = "write" /\ job[j].pos = Len(job[j].payload)
        /\ job[j].op \in {"store", "unpack", "unpack_artifact", "extract"}
        /\ IsJob(job[j]) /\ DOMAIN job = Job /\ tree' = tree /\ node' = node
        /\ job[j].answer = "none"
    BY StageIs DEF WriteEnd, JobInv, StageOK, TypeOK, files
  <1>2. quiet'[j] = quiet[j] /\ quiet[j] \subseteq Path
    BY OwnPaths
  <1>3. TreeOK' /\ UpStays
    BY <1>1, UnchangedTree DEF TypeOK
  <1>4. CASE job[j].op = "store"
    <2>1. Ends(j, "ok")
      BY <1>4 DEF WriteEnd
    <2>2. /\ IsJob(job'[j]) /\ DOMAIN job' = Job /\ \A k \in Job \ {j} : job'[k] = job[k]
          /\ job'[j].at = "done" /\ job'[j].answer = "ok"
          /\ job'[j].op = job[j].op
          /\ job'[j].to = job[j].to /\ job'[j].file = job[j].file
          /\ job'[j].fd = job[j].fd /\ job'[j].pos = job[j].pos
          /\ job'[j].payload = job[j].payload
      BY <2>1, EndsIs
    <2>3. TypeOK'
      BY <1>3, <2>2, TypesAfter
    <2>4. StageOK(j)'
      BY <1>4, <2>2 DEF JobInv, StageOK, Unpacks, Stages
    <2>5. StoreOK(j)'
      BY <1>1, <1>2, <2>2 DEF JobInv, StoreOK, Wrote, At, Exists
    <2>6. /\ WriterOK(j)' /\ FetchOK(j)' /\ ArtifactOK(j)' /\ RmtreeOK(j)' /\ DeleteOK(j)'
          /\ MoveOK(j)' /\ ListOK(j)'
      BY <1>4, <2>2 DEF WriterOK, FetchOK, ArtifactOK, RmtreeOK, DeleteOK, MoveOK, ListOK
    <2> QED BY <1>3, <2>2, <2>3, <2>4, <2>5, <2>6 DEF StepOK, JobInv
  <1>5. CASE job[j].op = "unpack_artifact" /\ job[j].file = Tmp(j)
    <2>1. Goto(j, "open_read") /\ "open_read" \in Label
      BY <1>5 DEF WriteEnd, Tmp, Label
    <2>2. /\ IsJob(job'[j]) /\ DOMAIN job' = Job /\ \A k \in Job \ {j} : job'[k] = job[k]
          /\ job'[j].at = "open_read" /\ job'[j].answer = "none"
          /\ job'[j].op = "unpack_artifact"
          /\ job'[j].to = job[j].to /\ job'[j].file = job[j].file
          /\ job'[j].payload = job[j].payload /\ job'[j].got = job[j].got
      BY <1>1, <1>5, <2>1, GotoIs
    <2>3. TypeOK'
      BY <1>3, <2>2, TypesAfter
    <2>4. StageOK(j)'
      BY <1>5, <2>2 DEF JobInv, StageOK, Unpacks, Stages
    <2>5. ArtifactOK(j)'
      <3>1. /\ job[j].payload \in Seq(Range(job[j].payload)) /\ job[j].got = <<>>
            /\ Wrote(j, SubSeq(job[j].payload, 1, job[j].pos))
        BY <1>1, <1>5 DEF JobInv, ArtifactOK
      <3>2. SubSeq(job[j].payload, 1, job[j].pos) = job[j].payload
        BY <1>1, <3>1, SubSeqFull
      <3>3. Tmp(j)' = Tmp(j)
        BY <2>2 DEF Tmp
      <3>4. ASSUME Tmp(j) \in quiet[j]
            PROVE  IsFile(Tmp(j)) /\ Blocks(Tmp(j)) = job[j].payload
        <4>1. At(Tmp(j)) = <<job[j].fd, File(job[j].payload)>>
          BY <1>5, <3>1, <3>2, <3>4 DEF Wrote
        <4> QED BY <4>1 DEF At, Exists, IsFile, Blocks, File
      <3>5. \A x : (IsFile(x)' <=> IsFile(x)) /\ Blocks(x)' = Blocks(x)
        BY <1>1 DEF IsFile, Exists, Blocks
      <3> QED BY <1>2, <1>5, <2>2, <3>1, <3>3, <3>4, <3>5 DEF ArtifactOK, IsFile, Exists, Blocks
    <2>6. /\ WriterOK(j)' /\ StoreOK(j)' /\ FetchOK(j)' /\ RmtreeOK(j)' /\ DeleteOK(j)'
          /\ MoveOK(j)' /\ ListOK(j)'
      BY <2>2 DEF WriterOK, StoreOK, FetchOK, RmtreeOK, DeleteOK, MoveOK, ListOK
    <2> QED BY <1>3, <2>2, <2>3, <2>4, <2>5, <2>6 DEF StepOK, JobInv
  <1>6. CASE job[j].op # "store" /\ ~(job[j].op = "unpack_artifact" /\ job[j].file = Tmp(j))
    <2>1. job' = [job EXCEPT ![j].at = "member", ![j].done = @ + 1]
      BY <1>6 DEF WriteEnd, Tmp
    <2>2. /\ IsJob(job'[j]) /\ DOMAIN job' = Job /\ \A k \in Job \ {j} : job'[k] = job[k]
          /\ job'[j].at = "member" /\ job'[j].answer = "none" /\ job'[j].op = job[j].op
          /\ job'[j].to = job[j].to /\ job'[j].file = job[j].file
          /\ job'[j].payload = job[j].payload
      <3>1. "member" \in Label
        BY DEF Label
      <3> QED BY <1>1, <2>1, <3>1 DEF IsJob
    <2>3. TypeOK'
      BY <1>3, <2>2, TypesAfter
    <2>4. StageOK(j)'
      <3>1. "member" \in Stages[job[j].op]
        BY <1>1, <1>6 DEF Stages
      <3> QED BY <1>1, <1>6, <2>2, <3>1 DEF JobInv, StageOK, Unpacks
    <2>5. ArtifactOK(j)'
      BY <1>6, <2>2 DEF ArtifactOK, Tmp
    <2>6. /\ WriterOK(j)' /\ StoreOK(j)' /\ FetchOK(j)' /\ RmtreeOK(j)' /\ DeleteOK(j)'
          /\ MoveOK(j)' /\ ListOK(j)'
      BY <1>1, <1>6, <2>2 DEF WriterOK, StoreOK, FetchOK, RmtreeOK, DeleteOK, MoveOK, ListOK
    <2> QED BY <1>3, <2>2, <2>3, <2>4, <2>5, <2>6 DEF StepOK, JobInv
  <1> QED BY <1>4, <1>5, <1>6

(* A sequence extended is a sequence, and the beginning of another one     *)
(* extended by the next element is a longer beginning of it.               *)
LEMMA AppendedIsSeq ==
  ASSUME NEW s, s \in Seq(Range(s)), NEW e
  PROVE  Append(s, e) \in Seq(Range(Append(s, e))) /\ Len(Append(s, e)) = Len(s) + 1
  <1> DEFINE S == Range(s) \cup {e}
  <1>1. s \in Seq(S) /\ e \in S
    BY SeqMonotonic
  <1> HIDE DEF S
  <1>2. Append(s, e) \in Seq(S) /\ Len(Append(s, e)) = Len(s) + 1
    BY <1>1, AppendProperties
  <1> QED BY <1>2, SeqOfRange

LEMMA NextRead ==
  ASSUME NEW S, NEW blocks \in Seq(S), NEW n \in Nat, n < Len(blocks)
  PROVE  Append(SubSeq(blocks, 1, n), blocks[n + 1]) = SubSeq(blocks, 1, n + 1)
  <1> DEFINE k == n + 1
  <1>1. Len(blocks) \in Nat /\ k \in 1..Len(blocks) /\ 1 \in 1..Len(blocks) /\ k \in 1..Len(blocks)
        /\ k - 1 = n /\ blocks[k] \in S
    BY LenProperties, ElementOfSeq
  <1> HIDE DEF k
  <1>2. SubSeq(blocks, 1, k) = SubSeq(blocks, 1, k - 1) \o <<blocks[k]>>
    BY <1>1, SubSeqRecursiveSecond
  <1>3. SubSeq(blocks, 1, n) \in Seq(S)
    BY <1>1, SubSeqProperties, ElementOfSeq
  <1>4. Append(SubSeq(blocks, 1, n), blocks[k]) = SubSeq(blocks, 1, n) \o <<blocks[k]>>
    BY <1>1, <1>3, AppendIsConcat
  <1> QED BY <1>1, <1>2, <1>4 DEF k

LEMMA ReadBeginStep ==
  ASSUME TypeOK, NEW j \in Job, JobInv(j), Disturbs(j), NEW op \in {"fetch", "extract"},
         NEW x \in Asked, ReadBegin(j, op, x)
  PROVE  StepOK(j)
  <1> USE FileStoreAssumption DEF FileStoreAssumption
  <1> DEFINE to == IF op = "extract" THEN Sibling(x, StemName) ELSE Root
             label == IF IsFile(x) THEN "open_read" ELSE "done"
             answer == IF IsFile(x) THEN "none" ELSE "failed"
  <1>1. /\ job[j] = NewJob /\ IsJob(job[j]) /\ DOMAIN job = Job
        /\ tree' = tree /\ node' = node
        /\ job' = [job EXCEPT ![j].op = op, ![j].path = x, ![j].file = x, ![j].to = to,
                              ![j].at = label, ![j].answer = answer]
    BY DEF ReadBegin, JobInv, StageOK, TypeOK, files
  <1>2. to \in Path /\ x \in Path
    BY PathAssumption
  <1>3. /\ label \in Label /\ op \in Op /\ label \in Stages[op] /\ label \in {"open_read", "done"}
        /\ answer \in {"none", "failed"} /\ (label # "done" => answer = "none")
    BY DEF Label, Op, Stages
  <1> HIDE DEF to, label, answer
  <1>4. /\ IsJob(job'[j]) /\ DOMAIN job' = Job /\ \A k \in Job \ {j} : job'[k] = job[k]
        /\ job'[j].at = label /\ job'[j].op = op /\ job'[j].answer = answer
        /\ job'[j].path = x /\ job'[j].file = x /\ job'[j].got = <<>>
    BY <1>1, <1>2, <1>3 DEF IsJob, NewJob
  <1>5. TypeOK' /\ UpStays
    BY <1>1, <1>4, TypesAfter, UnchangedTree DEF TypeOK
  <1>6. StageOK(j)'
    BY <1>3, <1>4 DEF StageOK, StoreOp
  <1>7. FetchOK(j)'
    <2>1. <<>> \in Seq(Range(<<>>))
      BY EmptySeq
    <2> QED BY <1>3, <1>4, <2>1 DEF FetchOK
  <1>8. /\ WriterOK(j)' /\ StoreOK(j)' /\ ArtifactOK(j)' /\ RmtreeOK(j)' /\ DeleteOK(j)'
        /\ MoveOK(j)' /\ ListOK(j)'
    BY <1>3, <1>4 DEF WriterOK, StoreOK, ArtifactOK, RmtreeOK, DeleteOK, MoveOK, ListOK
  <1> QED BY <1>4, <1>5, <1>6, <1>7, <1>8 DEF StepOK, JobInv

LEMMA OpenReadStep ==
  ASSUME TypeOK, NEW j \in Job, JobInv(j), Disturbs(j), OpenRead(j)
  PROVE  StepOK(j)
  <1>1. PICK x \in Path : x = job[j].file
    BY DEF TypeOK, IsJob
  <1>2. /\ job[j].at = "open_read" /\ job[j].op \in {"unpack_artifact", "fetch", "extract"}
        /\ IsJob(job[j]) /\ DOMAIN job = Job /\ job[j].answer = "none"
    BY StageIs DEF OpenRead, JobInv, StageOK, TypeOK
  <1>3. CASE IsFile(x)
    <2>1. /\ job' = [job EXCEPT ![j].at = "read", ![j].fd = tree[x]]
          /\ tree' = tree /\ node' = node
      BY <1>1, <1>3 DEF OpenRead, files
    <2>2. tree[x] \in Inode /\ IsNode(node[tree[x]]) /\ ~node[tree[x]].dir
      BY <1>3 DEF IsFile, Exists, TypeOK, TreeOK, IsTree
    <2>3. /\ IsJob(job'[j]) /\ DOMAIN job' = Job /\ \A k \in Job \ {j} : job'[k] = job[k]
          /\ job'[j].at = "read" /\ job'[j].op = job[j].op /\ job'[j].answer = "none"
          /\ job'[j].path = job[j].path /\ job'[j].to = job[j].to /\ job'[j].file = x
          /\ job'[j].fd = tree[x] /\ job'[j].payload = job[j].payload /\ job'[j].got = job[j].got
      <3>1. "read" \in Label
        BY DEF Label
      <3> QED BY <1>1, <1>2, <2>1, <2>2, <3>1 DEF IsJob
    <2>4. TypeOK' /\ UpStays
      BY <2>1, <2>3, TypesAfter, UnchangedTree DEF TypeOK
    <2>5. quiet'[j] = quiet[j] /\ (j \in clean' <=> j \in clean)
      BY OwnPaths
    <2>6. StageOK(j)'
      <3>1. "read" \in Stages[job[j].op]
        BY <1>2 DEF Stages
      <3> QED BY <1>2, <2>3, <3>1 DEF JobInv, StageOK, Unpacks
    <2>7. ASSUME NEW got, got = <<>>
          PROVE  /\ got \in Seq(Range(got)) /\ Len(got) = 0
                 /\ \A blocks : SubSeq(blocks, 1, Len(got)) = got
      <3>1. Len(got) = 0 /\ got \in Seq(Range(got))
        BY <2>7, EmptySeq
      <3>2. \A blocks : SubSeq(blocks, 1, 0) = <<>>
        BY SubSeqEmpty
      <3> QED BY <2>7, <3>1, <3>2
    <2>9. FetchOK(j)'
      <3> SUFFICES ASSUME job[j].op = "fetch" PROVE FetchOK(j)'
        BY <2>3 DEF FetchOK
      <3>1. job[j].got = <<>> /\ job[j].path = x
        BY <1>1, <1>2 DEF JobInv, FetchOK
      <3>2. Len(node[tree[x]].blocks) \in Nat
        BY <2>2, LenProperties DEF IsNode
      <3>3. /\ job'[j].got \in Seq(Range(job'[j].got)) /\ Len(job'[j].got) = 0
            /\ SubSeq(node[tree[x]].blocks, 1, Len(job'[j].got)) = job'[j].got
        BY <2>3, <2>7, <3>1
      <3> QED BY <1>3, <2>1, <2>2, <2>3, <2>5, <3>1, <3>2, <3>3 DEF FetchOK, IsFile, Exists
    <2>10. ArtifactOK(j)'
      <3> SUFFICES ASSUME job[j].op = "unpack_artifact" PROVE ArtifactOK(j)'
        BY <2>3 DEF ArtifactOK
      <3>1. /\ job[j].got = <<>> /\ x = Tmp(j) /\ job[j].payload \in Seq(Range(job[j].payload))
            /\ x \in quiet[j] => IsFile(x) /\ Blocks(x) = job[j].payload
        BY <1>1, <1>2 DEF JobInv, ArtifactOK
      <3>2. Len(job[j].payload) \in Nat
        BY <3>1, LenProperties
      <3>3. Tmp(j)' = x
        BY <2>3, <3>1 DEF Tmp
      <3>4. (IsFile(x)' <=> IsFile(x)) /\ Blocks(x)' = Blocks(x)
        BY <2>1 DEF IsFile, Exists, Blocks
      <3>5. /\ job'[j].got \in Seq(Range(job'[j].got)) /\ Len(job'[j].got) = 0
            /\ SubSeq(job[j].payload, 1, Len(job'[j].got)) = job'[j].got
        BY <2>3, <2>7, <3>1
      <3> QED BY <2>1, <2>3, <2>5, <3>1, <3>2, <3>3, <3>4, <3>5 DEF ArtifactOK
    <2>11. /\ WriterOK(j)' /\ StoreOK(j)' /\ RmtreeOK(j)' /\ DeleteOK(j)'
           /\ MoveOK(j)' /\ ListOK(j)'
      BY <1>2, <2>3 DEF WriterOK, StoreOK, RmtreeOK, DeleteOK, MoveOK, ListOK
    <2> QED BY <2>3, <2>4, <2>6, <2>9, <2>10, <2>11 DEF StepOK, JobInv
  <1>4. CASE ~IsFile(x)
    BY <1>1, <1>2, <1>4, EndsBadly DEF OpenRead, Fails
  <1> QED BY <1>3, <1>4

LEMMA ReadBlockStep ==
  ASSUME TypeOK, NEW j \in Job, JobInv(j), Disturbs(j), ReadBlock(j)
  PROVE  StepOK(j)
  <1> DEFINE blocks == node[job[j].fd].blocks
             n == Len(job[j].got)
             got == Append(job[j].got, blocks[n + 1])
  <1>1. /\ job[j].at = "read" /\ job[j].op \in {"unpack_artifact", "fetch", "extract"}
        /\ IsJob(job[j]) /\ DOMAIN job = Job /\ job[j].answer = "none"
        /\ n < Len(blocks) /\ tree' = tree /\ node' = node
        /\ job' = [job EXCEPT ![j].got = got]
    BY StageIs DEF ReadBlock, JobInv, StageOK, TypeOK, files
  <1> HIDE DEF got
  <1>2. /\ IsJob(job'[j]) /\ DOMAIN job' = Job /\ \A k \in Job \ {j} : job'[k] = job[k]
        /\ job'[j].at = "read" /\ job'[j].op = job[j].op /\ job'[j].answer = "none"
        /\ job'[j].path = job[j].path /\ job'[j].to = job[j].to /\ job'[j].file = job[j].file
        /\ job'[j].fd = job[j].fd /\ job'[j].payload = job[j].payload /\ job'[j].got = got
    BY <1>1 DEF IsJob
  <1>3. TypeOK' /\ UpStays
    BY <1>1, <1>2, TypesAfter, UnchangedTree DEF TypeOK
  <1>4. quiet'[j] = quiet[j] /\ (j \in clean' <=> j \in clean)
    BY OwnPaths
  <1>5. StageOK(j)'
    BY <1>1, <1>2 DEF JobInv, StageOK, Unpacks
  <1>6. ASSUME job[j].got \in Seq(Range(job[j].got))
        PROVE  n \in Nat /\ got \in Seq(Range(got)) /\ Len(got) = n + 1
    BY <1>6, AppendedIsSeq, LenProperties DEF got
  <1>7. ASSUME NEW whole, whole \in Seq(Range(whole)), whole = blocks,
               job[j].got \in Seq(Range(job[j].got)), job[j].got = SubSeq(whole, 1, n)
        PROVE  Len(got) <= Len(whole) /\ got = SubSeq(whole, 1, Len(got))
    <2>1. n \in Nat /\ Len(got) = n + 1 /\ Len(whole) \in Nat /\ n < Len(whole)
      BY <1>1, <1>6, <1>7, LenProperties
    <2>2. got = Append(SubSeq(whole, 1, n), whole[n + 1])
      BY <1>7 DEF got
    <2>3. got = SubSeq(whole, 1, n + 1)
      <3> HIDE DEF n
      <3> QED BY <1>7, <2>1, <2>2, NextRead
    <2> QED BY <2>1, <2>3
  <1> HIDE DEF n
  <1>8. FetchOK(j)'
    <2> SUFFICES ASSUME job[j].op = "fetch" PROVE FetchOK(j)'
      BY <1>2 DEF FetchOK
    <2>1. /\ job[j].file = job[j].path /\ job[j].got \in Seq(Range(job[j].got))
          /\ job[j].fd \in Inode
          /\ job[j].path \in quiet[j] => Exists(job[j].path) /\ tree[job[j].path] = job[j].fd
          /\ j \in clean => ~node[job[j].fd].dir /\ job[j].got = SubSeq(blocks, 1, n)
      BY <1>1 DEF JobInv, FetchOK, n
    <2>2. blocks \in Seq(Range(blocks))
      BY <2>1 DEF TypeOK, TreeOK, IsTree, IsNode
    <2>3. /\ got \in Seq(Range(got))
          /\ j \in clean => Len(got) <= Len(blocks) /\ got = SubSeq(blocks, 1, Len(got))
      BY <1>6, <1>7, <2>1, <2>2
    <2> QED BY <1>1, <1>2, <1>4, <2>1, <2>3 DEF FetchOK, Exists
  <1>9. ArtifactOK(j)'
    <2> SUFFICES ASSUME job[j].op = "unpack_artifact" PROVE ArtifactOK(j)'
      BY <1>2 DEF ArtifactOK
    <2>1. /\ job[j].file = Tmp(j) /\ job[j].got \in Seq(Range(job[j].got))
          /\ job[j].payload \in Seq(Range(job[j].payload))
          /\ Tmp(j) \in quiet[j] =>
               /\ IsFile(Tmp(j)) /\ Blocks(Tmp(j)) = job[j].payload /\ tree[Tmp(j)] = job[j].fd
               /\ job[j].got = SubSeq(job[j].payload, 1, n)
      BY <1>1 DEF JobInv, ArtifactOK, n
    <2>2. /\ got \in Seq(Range(got))
          /\ Tmp(j) \in quiet[j] =>
               Len(got) <= Len(job[j].payload) /\ got = SubSeq(job[j].payload, 1, Len(got))
      BY <1>6, <1>7, <2>1 DEF Blocks
    <2>3. Tmp(j)' = Tmp(j)
      BY <1>2 DEF Tmp
    <2>4. \A x : (IsFile(x)' <=> IsFile(x)) /\ Blocks(x)' = Blocks(x)
      BY <1>1 DEF IsFile, Exists, Blocks
    <2>5. (IsFile(Tmp(j))' <=> IsFile(Tmp(j))) /\ Blocks(Tmp(j))' = Blocks(Tmp(j))
      BY <1>1, <2>3 DEF IsFile, Exists, Blocks
    <2> QED BY <1>1, <1>2, <1>4, <2>1, <2>2, <2>3, <2>5 DEF ArtifactOK
  <1>10. /\ WriterOK(j)' /\ StoreOK(j)' /\ RmtreeOK(j)' /\ DeleteOK(j)'
         /\ MoveOK(j)' /\ ListOK(j)'
    BY <1>1, <1>2 DEF WriterOK, StoreOK, RmtreeOK, DeleteOK, MoveOK, ListOK
  <1> QED BY <1>2, <1>3, <1>5, <1>8, <1>9, <1>10 DEF StepOK, JobInv

LEMMA ReadEndStep ==
  ASSUME TypeOK, NEW j \in Job, JobInv(j), Disturbs(j), ReadEnd(j)
  PROVE  StepOK(j)
  <1> DEFINE blocks == node[job[j].fd].blocks
  <1>1. /\ job[j].at = "read" /\ job[j].op \in {"unpack_artifact", "fetch", "extract"}
        /\ IsJob(job[j]) /\ DOMAIN job = Job /\ job[j].answer = "none"
        /\ Len(job[j].got) >= Len(blocks) /\ tree' = tree /\ node' = node
    BY StageIs DEF ReadEnd, JobInv, StageOK, TypeOK, files
  <1>2. TreeOK' /\ UpStays
    BY <1>1, UnchangedTree DEF TypeOK
  <1>3. quiet'[j] = quiet[j] /\ (j \in clean' <=> j \in clean)
    BY OwnPaths
  <1>4. CASE job[j].op = "fetch"
    <2>1. Ends(j, "ok")
      BY <1>4 DEF ReadEnd
    <2>2. /\ IsJob(job'[j]) /\ DOMAIN job' = Job /\ \A k \in Job \ {j} : job'[k] = job[k]
          /\ job'[j].at = "done" /\ job'[j].answer = "ok" /\ job'[j].op = "fetch"
          /\ job'[j].path = job[j].path /\ job'[j].to = job[j].to /\ job'[j].file = job[j].file
          /\ job'[j].fd = job[j].fd /\ job'[j].got = job[j].got
      BY <1>4, <2>1, EndsIs
    <2>3. TypeOK'
      BY <1>2, <2>2, TypesAfter
    <2>4. StageOK(j)'
      BY <1>4, <2>2 DEF StageOK, Unpacks, Stages, StoreOp
    <2>5. FetchOK(j)'
      <3>1. /\ job[j].file = job[j].path /\ job[j].got \in Seq(Range(job[j].got))
            /\ job[j].fd \in Inode
            /\ job[j].path \in quiet[j] => Exists(job[j].path) /\ tree[job[j].path] = job[j].fd
            /\ j \in clean => /\ ~node[job[j].fd].dir /\ Len(job[j].got) <= Len(blocks)
                               /\ job[j].got = SubSeq(blocks, 1, Len(job[j].got))
        BY <1>1, <1>4 DEF JobInv, FetchOK
      <3>2. Len(job[j].got) \in Nat /\ Len(blocks) \in Nat
        BY <3>1, LenProperties DEF TypeOK, TreeOK, IsTree, IsNode
      <3>3. j \in clean => Len(job[j].got) = Len(blocks)
        BY <1>1, <3>1, <3>2
      <3> QED BY <1>1, <1>3, <2>2, <3>1, <3>3 DEF FetchOK, Exists
    <2>6. /\ WriterOK(j)' /\ StoreOK(j)' /\ ArtifactOK(j)' /\ RmtreeOK(j)' /\ DeleteOK(j)'
          /\ MoveOK(j)' /\ ListOK(j)'
      BY <2>2 DEF WriterOK, StoreOK, ArtifactOK, RmtreeOK, DeleteOK, MoveOK, ListOK
    <2> QED BY <1>2, <2>2, <2>3, <2>4, <2>5, <2>6 DEF StepOK, JobInv
  <1>5. CASE job[j].op # "fetch"
    <2>1. Goto(j, "target") /\ "target" \in Label
      BY <1>5 DEF ReadEnd, Label
    <2>2. /\ IsJob(job'[j]) /\ DOMAIN job' = Job /\ \A k \in Job \ {j} : job'[k] = job[k]
          /\ job'[j].at = "target" /\ job'[j].answer = "none" /\ job'[j].op = job[j].op
          /\ job'[j].to = job[j].to /\ job'[j].file = job[j].file
          /\ job'[j].payload = job[j].payload /\ job'[j].got = job[j].got
      BY <1>1, <2>1, GotoIs
    <2>3. TypeOK'
      BY <1>2, <2>2, TypesAfter
    <2>4. StageOK(j)'
      <3>1. "target" \in Stages[job[j].op]
        BY <1>1, <1>5 DEF Stages
      <3> QED BY <1>1, <2>2, <3>1 DEF JobInv, StageOK, Unpacks
    <2>5. ArtifactOK(j)'
      <3> SUFFICES ASSUME job[j].op = "unpack_artifact" PROVE ArtifactOK(j)'
        BY <2>2 DEF ArtifactOK
      <3>1. /\ job[j].file = Tmp(j) /\ job[j].got \in Seq(Range(job[j].got))
            /\ job[j].payload \in Seq(Range(job[j].payload))
            /\ Tmp(j) \in quiet[j] =>
                 /\ Blocks(Tmp(j)) = job[j].payload /\ tree[Tmp(j)] = job[j].fd
                 /\ Len(job[j].got) <= Len(job[j].payload)
                 /\ job[j].got = SubSeq(job[j].payload, 1, Len(job[j].got))
        BY <1>1 DEF JobInv, ArtifactOK
      <3>2. Len(job[j].got) \in Nat /\ Len(job[j].payload) \in Nat
        BY <3>1, LenProperties
      <3>3. ASSUME Tmp(j) \in quiet[j]
            PROVE  job[j].got = job[j].payload
        <4>1. blocks = job[j].payload
          BY <3>1, <3>3 DEF Blocks
        <4>2. Len(job[j].got) = Len(job[j].payload)
          BY <1>1, <3>1, <3>2, <3>3, <4>1
        <4> QED BY <3>1, <3>3, <4>2, SubSeqFull
      <3>4. Tmp(j)' = Tmp(j)
        BY <2>2 DEF Tmp
      <3> QED BY <1>3, <2>2, <3>1, <3>3, <3>4 DEF ArtifactOK
    <2>6. /\ WriterOK(j)' /\ StoreOK(j)' /\ FetchOK(j)' /\ RmtreeOK(j)' /\ DeleteOK(j)'
          /\ MoveOK(j)' /\ ListOK(j)'
      BY <1>1, <1>5, <2>2 DEF WriterOK, StoreOK, FetchOK, RmtreeOK, DeleteOK, MoveOK, ListOK
    <2> QED BY <1>2, <2>2, <2>3, <2>4, <2>5, <2>6 DEF StepOK, JobInv
  <1> QED BY <1>4, <1>5

LEMMA MakeTargetStep ==
  ASSUME TypeOK, NEW j \in Job, JobInv(j), Disturbs(j), MakeTarget(j)
  PROVE  StepOK(j)
  <1>1. PICK x \in Path : x = job[j].to
    BY DEF TypeOK, IsJob
  <1>2. /\ job[j].at = "target" /\ job[j].op \in {"unpack", "unpack_artifact", "extract"}
        /\ job[j].answer = "none"
    BY StageIs DEF MakeTarget, JobInv, StageOK
  <1>3. CASE CanMkdir(x)
    <2>1. Mkdir(x, Held) /\ IF IsArchive(job[j].got) THEN Goto(j, "member") ELSE Ends(j, "failed")
      BY <1>1, <1>3 DEF MakeTarget
    <2>2. TreeOK' /\ UpStays
      BY <1>3, <2>1, MkdirKeeps DEF TypeOK
    <2>3. CASE IsArchive(job[j].got)
      <3>1. Goto(j, "member") /\ "member" \in Label
        BY <2>1, <2>3 DEF Label
      <3>2. /\ IsJob(job'[j]) /\ DOMAIN job' = Job /\ \A k \in Job \ {j} : job'[k] = job[k]
            /\ job'[j].at = "member" /\ job'[j].answer = "none" /\ job'[j].op = job[j].op
            /\ job'[j].to = job[j].to /\ job'[j].file = job[j].file
            /\ job'[j].payload = job[j].payload
        BY <1>2, <3>1, GotoIs
      <3>3. TypeOK'
        BY <2>2, <3>2, TypesAfter
      <3>4. StageOK(j)'
        <4>1. "member" \in Stages[job[j].op]
          BY <1>2 DEF Stages
        <4> QED BY <1>2, <3>2, <4>1 DEF JobInv, StageOK, Unpacks
      <3>5. ArtifactOK(j)'
        BY <3>2 DEF JobInv, ArtifactOK, Tmp
      <3>6. /\ WriterOK(j)' /\ StoreOK(j)' /\ FetchOK(j)' /\ RmtreeOK(j)' /\ DeleteOK(j)'
            /\ MoveOK(j)' /\ ListOK(j)'
        BY <1>2, <3>2 DEF WriterOK, StoreOK, FetchOK, RmtreeOK, DeleteOK, MoveOK, ListOK
      <3> QED BY <2>2, <3>2, <3>3, <3>4, <3>5, <3>6 DEF StepOK, JobInv
    <2>4. CASE ~IsArchive(job[j].got)
      BY <1>2, <2>1, <2>2, <2>4, EndsAnyhow
    <2> QED BY <2>3, <2>4
  <1>4. CASE ~CanMkdir(x)
    BY <1>1, <1>2, <1>4, EndsBadly DEF MakeTarget, Fails
  <1> QED BY <1>3, <1>4

LEMMA ExtractMemberStep ==
  ASSUME TypeOK, NEW j \in Job, JobInv(j), Disturbs(j), ExtractMember(j)
  PROVE  StepOK(j)
  <1> DEFINE m == job[j].got[job[j].done + 1]
             dest == job[j].to \o m.name
             dir == IF m.kind = "dir" THEN dest ELSE Front(dest)
             blocks == m.blocks
  <1>1. /\ job[j].at = "member" /\ job[j].op \in {"unpack", "unpack_artifact", "extract"}
        /\ job[j].answer = "none" /\ IsJob(job[j]) /\ DOMAIN job = Job
    BY StageIs DEF ExtractMember, JobInv, StageOK, TypeOK
  <1>2. CASE ~Refused(m, job[j].to) /\ CanMkdir(dir)
    <2>1. /\ dest \in Path /\ Under(dest, job[j].to) /\ Mkdir(dir, Held)
          /\ job' = IF m.kind = "dir"
                      THEN [job EXCEPT ![j].done = @ + 1]
                      ELSE [job EXCEPT ![j].at = "open", ![j].file = dest, ![j].payload = blocks]
      BY <1>2 DEF ExtractMember, Refused
    <2>2. dir \in Path
      BY <2>1, FrontOrRoot
    <2>3. TreeOK' /\ UpStays
      <3> HIDE DEF dir
      <3> QED BY <1>2, <2>1, <2>2, MkdirKeeps DEF TypeOK
    <2> HIDE DEF dest, dir, blocks
    <2>4. CASE m.kind = "dir"
      <3>1. job' = [job EXCEPT ![j].done = @ + 1]
        BY <2>1, <2>4
      <3> HIDE DEF m
      <3>2. /\ IsJob(job'[j]) /\ DOMAIN job' = Job /\ \A k \in Job \ {j} : job'[k] = job[k]
            /\ job'[j].at = "member" /\ job'[j].answer = "none" /\ job'[j].op = job[j].op
            /\ job'[j].to = job[j].to /\ job'[j].file = job[j].file
            /\ job'[j].payload = job[j].payload
        BY <1>1, <3>1 DEF IsJob
      <3>3. TypeOK'
        BY <2>3, <3>2, TypesAfter
      <3>4. StageOK(j)'
        BY <1>1, <3>2 DEF JobInv, StageOK, Unpacks
      <3>5. ArtifactOK(j)'
        BY <1>1, <3>2 DEF JobInv, ArtifactOK, Tmp
      <3>6. /\ WriterOK(j)' /\ StoreOK(j)' /\ FetchOK(j)' /\ RmtreeOK(j)' /\ DeleteOK(j)'
            /\ MoveOK(j)' /\ ListOK(j)'
        BY <1>1, <3>2 DEF WriterOK, StoreOK, FetchOK, RmtreeOK, DeleteOK, MoveOK, ListOK
      <3> QED BY <2>3, <3>2, <3>3, <3>4, <3>5, <3>6 DEF StepOK, JobInv
    <2>5. CASE m.kind # "dir"
      <3>1. job' = [job EXCEPT ![j].at = "open", ![j].file = dest, ![j].payload = blocks]
        BY <2>1, <2>5
      <3> HIDE DEF m
      <3>2. /\ IsJob(job'[j]) /\ DOMAIN job' = Job /\ \A k \in Job \ {j} : job'[k] = job[k]
            /\ job'[j].at = "open" /\ job'[j].answer = "none" /\ job'[j].op = job[j].op
            /\ job'[j].to = job[j].to /\ job'[j].file = dest
        <4>1. "open" \in Label
          BY DEF Label
        <4>2. dest \in Path
          BY <2>1
        <4> HIDE DEF dest, blocks
        <4> QED BY <1>1, <3>1, <4>1, <4>2 DEF IsJob
      <3>3. TypeOK'
        BY <2>3, <3>2, TypesAfter
      <3>4. StageOK(j)'
        <4>1. "open" \in Stages[job[j].op] \/ job[j].op = "unpack_artifact"
          BY <1>1 DEF Stages
        <4>2. "open" \in Stages.unpack_artifact
          BY DEF Stages
        <4> QED BY <1>1, <2>1, <3>2, <4>1, <4>2 DEF JobInv, StageOK
      <3>5. ArtifactOK(j)'
        <4> SUFFICES ASSUME job[j].op = "unpack_artifact" PROVE ArtifactOK(j)'
          BY <3>2 DEF ArtifactOK
        <4>1. job[j].to \in Asked
          BY DEF JobInv, StageOK, StoreOp
        <4>2. dest # Tmp(j)
          BY <2>1, <4>1, TmpAside DEF Tmp
        <4> QED BY <3>2, <4>2 DEF ArtifactOK, Tmp
      <3>6. /\ WriterOK(j)' /\ StoreOK(j)' /\ FetchOK(j)' /\ RmtreeOK(j)' /\ DeleteOK(j)'
            /\ MoveOK(j)' /\ ListOK(j)'
        BY <1>1, <3>2 DEF WriterOK, StoreOK, FetchOK, RmtreeOK, DeleteOK, MoveOK, ListOK
      <3> QED BY <2>3, <3>2, <3>3, <3>4, <3>5, <3>6 DEF StepOK, JobInv
    <2> QED BY <2>4, <2>5
  <1>3. CASE Refused(m, job[j].to) \/ ~CanMkdir(dir)
    BY <1>1, <1>3, EndsBadly DEF ExtractMember, Fails
  <1> QED BY <1>2, <1>3

LEMMA MembersEndStep ==
  ASSUME TypeOK, NEW j \in Job, JobInv(j), Disturbs(j), MembersEnd(j)
  PROVE  StepOK(j)
  <1>1. /\ job[j].at = "member" /\ job[j].op \in {"unpack", "unpack_artifact", "extract"}
        /\ job[j].answer = "none" /\ tree' = tree /\ node' = node
    BY StageIs DEF MembersEnd, JobInv, StageOK, files
  <1>2. TreeOK' /\ UpStays
    BY <1>1, UnchangedTree DEF TypeOK
  <1>3. CASE job[j].op = "unpack_artifact"
    <2>1. Goto(j, "unlink_tmp") /\ "unlink_tmp" \in Label
      BY <1>3 DEF MembersEnd, Label
    <2>2. /\ IsJob(job'[j]) /\ DOMAIN job' = Job /\ \A k \in Job \ {j} : job'[k] = job[k]
          /\ job'[j].at = "unlink_tmp" /\ job'[j].answer = "none"
          /\ job'[j].op = "unpack_artifact"
          /\ job'[j].to = job[j].to /\ job'[j].file = job[j].file
          /\ job'[j].payload = job[j].payload
      BY <1>1, <1>3, <2>1, GotoIs
    <2>3. TypeOK'
      BY <1>2, <2>2, TypesAfter
    <2>4. StageOK(j)'
      <3>1. "unlink_tmp" \in Stages.unpack_artifact
        BY DEF Stages
      <3> QED BY <1>3, <2>2, <3>1 DEF JobInv, StageOK
    <2>5. ArtifactOK(j)'
      BY <1>3, <2>2 DEF JobInv, ArtifactOK, Tmp
    <2>6. /\ WriterOK(j)' /\ StoreOK(j)' /\ FetchOK(j)' /\ RmtreeOK(j)' /\ DeleteOK(j)'
          /\ MoveOK(j)' /\ ListOK(j)'
      BY <2>2 DEF WriterOK, StoreOK, FetchOK, RmtreeOK, DeleteOK, MoveOK, ListOK
    <2> QED BY <1>2, <2>2, <2>3, <2>4, <2>5, <2>6 DEF StepOK, JobInv
  <1>4. CASE job[j].op # "unpack_artifact"
    BY <1>1, <1>2, <1>4, EndsAnyhow DEF MembersEnd
  <1> QED BY <1>3, <1>4

LEMMA UnlinkTmpStep ==
  ASSUME TypeOK, NEW j \in Job, JobInv(j), Disturbs(j), UnlinkTmp(j)
  PROVE  StepOK(j)
  <1>1. job[j].at = "unlink_tmp" /\ job[j].op = "unpack_artifact"
    BY StageIs DEF UnlinkTmp, JobInv
  <1>2. PICK x \in Path : x = Tmp(j)
    BY <1>1, FileStoreAssumption DEF JobInv, StageOK, StoreOp, Tmp, FileStoreAssumption
  <1>3. CASE IsDir(x)
    BY <1>1, <1>2, <1>3, EndsBadly DEF UnlinkTmp, Fails, Tmp
  <1>4. CASE ~IsDir(x)
    <2>1. Unlinked(x) /\ Ends(j, "ok")
      BY <1>2, <1>4 DEF UnlinkTmp, Tmp
    <2>2. TreeOK' /\ UpStays
      BY <1>4, <2>1, UnlinkedKeeps DEF TypeOK
    <2> QED BY <1>1, <2>1, <2>2, EndsAnyhow
  <1> QED BY <1>3, <1>4

LEMMA DeleteBeginStep ==
  ASSUME TypeOK, NEW j \in Job, JobInv(j), Disturbs(j), NEW x \in Path, DeleteBegin(j, x)
  PROVE  StepOK(j)
  <1> DEFINE label == IF IsFile(x) THEN "unlink" ELSE IF IsDir(x) THEN "rmtree" ELSE "done"
             answer == IF Exists(x) THEN "none" ELSE "not_found"
  <1>1. /\ job[j] = NewJob /\ IsJob(job[j]) /\ DOMAIN job = Job
        /\ tree' = tree /\ node' = node
        /\ job' = [job EXCEPT ![j].op = "delete", ![j].path = x,
                              ![j].at = label, ![j].answer = answer]
    BY DEF DeleteBegin, JobInv, StageOK, TypeOK, files
  <1>2. /\ label \in Label /\ "delete" \in Op /\ label \in Stages["delete"]
        /\ label \in {"unlink", "rmtree", "done"} /\ answer \in {"none", "not_found"}
        /\ label # "done" => answer = "none"
    BY DEF Label, Op, Stages, IsFile, IsDir
  <1> HIDE DEF label, answer
  <1>3. /\ IsJob(job'[j]) /\ DOMAIN job' = Job /\ \A k \in Job \ {j} : job'[k] = job[k]
        /\ job'[j].at = label /\ job'[j].op = "delete" /\ job'[j].answer = answer
        /\ job'[j].path = x /\ job'[j].stack = <<>>
    BY <1>1, <1>2 DEF IsJob, NewJob
  <1>4. TypeOK' /\ UpStays
    BY <1>1, <1>3, TypesAfter, UnchangedTree DEF TypeOK
  <1>5. StageOK(j)'
    BY <1>2, <1>3 DEF StageOK, StoreOp, Unpacks
  <1>6. RmtreeOK(j)'
    <2>1. DOMAIN job'[j].stack = {}
      BY <1>3
    <2> QED BY <2>1 DEF RmtreeOK
  <1>7. /\ WriterOK(j)' /\ StoreOK(j)' /\ FetchOK(j)' /\ ArtifactOK(j)' /\ DeleteOK(j)'
        /\ MoveOK(j)' /\ ListOK(j)'
    BY <1>2, <1>3 DEF WriterOK, StoreOK, FetchOK, ArtifactOK, DeleteOK, MoveOK, ListOK
  <1> QED BY <1>3, <1>4, <1>5, <1>6, <1>7 DEF StepOK, JobInv

(* The last step of a delete, after which there is nothing below the path. *)
LEMMA DeleteEnds ==
  ASSUME TypeOK, NEW j \in Job, JobInv(j), Disturbs(j), job[j].op = "delete", Ends(j, "ok"),
         NEW x \in Path, x = job[j].path, Unlinked(x),
         IsFile(x) \/ (IsDir(x) /\ Children(x) = {})
  PROVE  StepOK(j)
  <1>1. /\ IsJob(job'[j]) /\ DOMAIN job' = Job /\ \A k \in Job \ {j} : job'[k] = job[k]
        /\ job'[j].at = "done" /\ job'[j].op = "delete"
        /\ job'[j].path = x
    BY EndsIs
  <1>2. TreeOK' /\ UpStays /\ ~Exists(x)' /\ \A y \in Path \ {x} : At(y)' = At(y)
    BY UnlinkedKeeps DEF TypeOK, IsFile, IsDir
  <1>3. TypeOK'
    BY <1>1, <1>2, TypesAfter
  <1>4. StageOK(j)'
    BY <1>1 DEF StageOK, Stages, StoreOp, Unpacks
  <1>5. ASSUME NEW z \in Path, Under(z, x)
        PROVE  ~Exists(z)'
    <2>1. CASE z = x
      BY <1>2, <2>1 DEF Exists
    <2>2. CASE z # x
      <3>1. Below(z, x)
        BY <1>5, <2>2, PathIsSeq, UnderOrder
      <3>2. ~Exists(z)
        BY <3>1, NoneBelow DEF TypeOK, Exists
      <3> QED BY <1>2, <2>2, <3>2, SameAt
    <2> QED BY <2>1, <2>2
  <1>6. DeleteOK(j)'
    BY <1>1, <1>3, <1>5 DEF DeleteOK, Exists, TypeOK
  <1>7. /\ WriterOK(j)' /\ StoreOK(j)' /\ FetchOK(j)' /\ ArtifactOK(j)' /\ RmtreeOK(j)'
        /\ MoveOK(j)' /\ ListOK(j)'
    BY <1>1 DEF WriterOK, StoreOK, FetchOK, ArtifactOK, RmtreeOK, MoveOK, ListOK
  <1> QED BY <1>1, <1>2, <1>3, <1>4, <1>6, <1>7 DEF StepOK, JobInv

LEMMA UnlinkStep ==
  ASSUME TypeOK, NEW j \in Job, JobInv(j), Disturbs(j), Unlink(j)
  PROVE  StepOK(j)
  <1>1. PICK x \in Path : x = job[j].path
    BY DEF TypeOK, IsJob
  <1>2. job[j].at = "unlink" /\ job[j].op = "delete"
    BY StageIs DEF Unlink, JobInv
  <1>3. CASE IsFile(x)
    BY <1>1, <1>2, <1>3, DeleteEnds DEF Unlink
  <1>4. CASE ~IsFile(x)
    BY <1>1, <1>2, <1>4, EndsBadly DEF Unlink, Fails
  <1> QED BY <1>3, <1>4

(* A directory that rmtree opens, and the ones it has open.                *)
LEMMA OpenedIs ==
  ASSUME TreeOK, NEW x \in Path, IsDir(x)
  PROVE  Opened(x) \in Frame /\ Opened(x).dir = tree[x]
  <1>1. tree[x] \in Inode
    BY DEF IsDir, Exists, TreeOK, IsTree
  <1>2. {[name |-> Last(y), dir |-> IsDir(y)] : y \in Children(x)}
          \subseteq [name : Name, dir : BOOLEAN]
    <2>1. ASSUME NEW y \in Children(x)
          PROVE  [name |-> Last(y), dir |-> IsDir(y)] \in [name : Name, dir : BOOLEAN]
      <3>1. y \in Path /\ y # Root /\ y \in DOMAIN tree
        BY DEF Children, TreeOK, IsTree
      <3>2. IsNode(node[tree[y]])
        BY <3>1 DEF TreeOK, IsTree
      <3>3. IsDir(y) \in BOOLEAN
        BY <3>2 DEF IsDir
      <3> QED BY <3>1, <3>3, FrontIs
    <2> QED BY <2>1
  <1> QED BY <1>1, <1>2 DEF Opened, Frame

(* What rmtree may hold open next to what it has open. *)
Outside(j, dir) ==
  \A z \in quiet[j] :
    Exists(z) /\ ~Under(z, job[j].path) => \A y \in Above(z) : tree[y] # dir

(* A step of rmtree that goes on. *)
LEMMA RmtreeGoesOn ==
  ASSUME TypeOK, NEW j \in Job, JobInv(j), Disturbs(j), job[j].at = "rmtree",
         NEW stack \in Seq(Frame), job' = [job EXCEPT ![j].stack = stack],
         TreeOK', UpStays, \A z \in DOMAIN tree' : z \in DOMAIN tree /\ tree'[z] = tree[z],
         \A n \in DOMAIN stack :
           \/ \E k \in DOMAIN job[j].stack : stack[n].dir = job[j].stack[k].dir
           \/ Outside(j, stack[n].dir)
  PROVE  StepOK(j)
  <1>1. /\ job[j].at = "rmtree" /\ job[j].op = "delete"
        /\ job[j].answer = "none" /\ IsJob(job[j]) /\ DOMAIN job = Job
    BY StageIs DEF JobInv, StageOK, TypeOK
  <1>2. /\ IsJob(job'[j]) /\ DOMAIN job' = Job /\ \A k \in Job \ {j} : job'[k] = job[k]
        /\ job'[j].at = "rmtree" /\ job'[j].answer = "none" /\ job'[j].op = "delete"
        /\ job'[j].path = job[j].path /\ job'[j].stack = stack
    BY <1>1 DEF IsJob
  <1>3. TypeOK'
    BY <1>2, TypesAfter
  <1>4. StageOK(j)'
    BY <1>1, <1>2 DEF StageOK, Stages, StoreOp, Unpacks
  <1>5. RmtreeOK(j)'
    <2> SUFFICES ASSUME NEW n \in DOMAIN stack, NEW z \in quiet[j], z \in DOMAIN tree',
                        ~Under(z, job[j].path), NEW y \in Above(z)
                 PROVE  tree'[y] # stack[n].dir
      BY <1>2, OwnPaths DEF RmtreeOK, Exists
    <2>1. z \in DOMAIN tree /\ z \in Path /\ y \in Path
      BY AboveIs, OwnPaths
    <2>2. y \in DOMAIN tree' /\ tree'[y] = tree[y]
      BY <2>1 DEF TreeOK, IsTree
    <2>3. Outside(j, stack[n].dir)
      BY <1>1 DEF JobInv, RmtreeOK, Outside
    <2> QED BY <2>1, <2>2, <2>3 DEF Outside, Exists
  <1>6. /\ WriterOK(j)' /\ StoreOK(j)' /\ FetchOK(j)' /\ ArtifactOK(j)' /\ DeleteOK(j)'
        /\ MoveOK(j)' /\ ListOK(j)'
    BY <1>2 DEF WriterOK, StoreOK, FetchOK, ArtifactOK, DeleteOK, MoveOK, ListOK
  <1> QED BY <1>2, <1>3, <1>4, <1>5, <1>6 DEF StepOK, JobInv

LEMMA RmtreeOpenStep ==
  ASSUME TypeOK, NEW j \in Job, JobInv(j), Disturbs(j), RmtreeOpen(j)
  PROVE  StepOK(j)
  <1>1. PICK x \in Path : x = job[j].path
    BY DEF TypeOK, IsJob
  <1>2. job[j].at = "rmtree" /\ job[j].stack = <<>>
    BY DEF RmtreeOpen
  <1>3. CASE IsDir(x)
    <2> DEFINE stack == <<Opened(x)>>
    <2>1. job' = [job EXCEPT ![j].stack = stack] /\ tree' = tree /\ node' = node
      BY <1>1, <1>3 DEF RmtreeOpen, files
    <2>2. stack \in Seq(Frame) /\ DOMAIN stack = {1} /\ stack[1].dir = tree[x]
      BY <1>3, OpenedIs DEF TypeOK
    <2>3. Outside(j, tree[x])
      <3> SUFFICES ASSUME NEW z \in quiet[j], Exists(z), ~Under(z, x), NEW y \in Above(z)
                   PROVE  tree[y] # tree[x]
        BY <1>1 DEF Outside
      <3>1. z \in Path /\ y \in Path /\ Below(z, y) /\ y \in DOMAIN tree /\ x \in DOMAIN tree
        BY <1>3, AboveIs, OwnPaths DEF TypeOK, TreeOK, IsTree, Exists, IsDir
      <3>2. y # x
        BY <3>1, PathIsSeq, UnderIs
      <3> QED BY <3>1, <3>2 DEF TypeOK, TreeOK, IsTree, IsInjective
    <2> HIDE DEF stack
    <2>4. TreeOK' /\ UpStays
      BY <2>1, UnchangedTree DEF TypeOK
    <2> QED BY <1>2, <2>1, <2>2, <2>3, <2>4, RmtreeGoesOn
  <1>4. CASE ~IsDir(x)
    BY <1>1, <1>2, <1>4, EndsBadly DEF RmtreeOpen, Fails
  <1> QED BY <1>3, <1>4

LEMMA RmtreeEntryStep ==
  ASSUME TypeOK, NEW j \in Job, JobInv(j), Disturbs(j), RmtreeEntry(j)
  PROVE  StepOK(j)
  <1>1. /\ job[j].at = "rmtree" /\ job[j].stack # <<>> /\ job[j].stack \in Seq(Frame)
        /\ TreeOK
    BY DEF RmtreeEntry, TypeOK, IsJob
  <1> DEFINE n == Len(job[j].stack)
             top == job[j].stack[n]
             p == PathOf(top.dir)
  <1>2. n \in Nat /\ n \in 1..n /\ DOMAIN job[j].stack = 1..n /\ top \in Frame
    BY <1>1, LenProperties, EmptySeq, ElementOfSeq
  <1>3. PICK e \in top.left :
          LET x == Append(p, e.name)
              rest == [job EXCEPT ![j].stack[n].left = @ \ {e}]
          IN  CASE Linked(top.dir) /\ IsFile(x) /\ ~e.dir -> Unlinked(x) /\ job' = rest
                [] Linked(top.dir) /\ IsDir(x) /\ e.dir ->
                     /\ job' = [rest EXCEPT ![j].stack = Append(@, Opened(x))]
                     /\ UNCHANGED files
                [] OTHER -> Fails(j)
    BY DEF RmtreeEntry
  <1> DEFINE x == Append(p, e.name)
             frame == [top EXCEPT !.left = @ \ {e}]
             stack == [job[j].stack EXCEPT ![n] = frame]
  <1>4. frame \in Frame /\ frame.dir = top.dir
    BY <1>2 DEF Frame
  <1>5. /\ stack \in Seq(Frame) /\ DOMAIN stack = 1..n /\ Len(stack) = n
        /\ \A k \in 1..n : stack[k].dir = job[j].stack[k].dir
    <2>1. \A k \in 1..n : stack[k] = IF k = n THEN frame ELSE job[j].stack[k]
      BY <1>1, <1>2, <1>4, ExceptSeq
    <2>2. stack \in Seq(Frame) /\ Len(stack) = n
      BY <1>1, <1>2, <1>4, ExceptSeq
    <2>3. DOMAIN stack = 1..n
      BY <2>2, LenProperties
    <2> QED BY <1>4, <2>1, <2>2, <2>3
  <1>6. CASE Linked(top.dir) /\ Exists(x)
    <2>1. p \in DOMAIN tree /\ tree[p] = top.dir
      BY <1>6 DEF Linked, PathOf, Range
    <2>2. p \in Path /\ x \in Path
      BY <1>1, <1>6, <2>1 DEF TreeOK, IsTree, Exists
    <2>3. x # Root /\ Front(x) = p /\ Below(x, p)
      BY <2>2, AppendIs, FrontIs
    <2>4. CASE IsFile(x) /\ ~e.dir
      <3>1. Unlinked(x) /\ job' = [job EXCEPT ![j].stack = stack]
        BY <1>3, <1>6, <2>4
      <3>2. TreeOK' /\ UpStays
        BY <1>1, <2>2, <2>4, <3>1, UnlinkedKeeps DEF IsFile, IsDir
      <3>3. \A z \in DOMAIN tree' : z \in DOMAIN tree /\ tree'[z] = tree[z]
        BY <3>1 DEF Unlinked, Restrict
      <3>4. \A k \in DOMAIN stack : \E i \in DOMAIN job[j].stack :
              stack[k].dir = job[j].stack[i].dir
        BY <1>2, <1>5
      <3> HIDE DEF stack, x, n
      <3> QED BY <1>1, <1>5, <3>1, <3>2, <3>3, <3>4, RmtreeGoesOn
    <2>5. CASE IsDir(x) /\ e.dir
      <3> DEFINE more == Append(stack, Opened(x))
      <3>1. job' = [job EXCEPT ![j].stack = more] /\ tree' = tree /\ node' = node
        <4>1. ~(IsFile(x) /\ ~e.dir)
          BY <2>5 DEF IsFile, IsDir
        <4>2. job' = [[job EXCEPT ![j].stack = stack] EXCEPT ![j].stack = Append(@, Opened(x))]
              /\ UNCHANGED files
          BY <1>3, <1>6, <2>5, <4>1
        <4>3. DOMAIN job = Job /\ IsJob(job[j])
          BY DEF TypeOK
        <4> HIDE DEF stack, x
        <4> QED BY <4>2, <4>3 DEF files, IsJob
      <3>2. Opened(x) \in Frame /\ Opened(x).dir = tree[x]
        BY <1>1, <2>2, <2>5, OpenedIs
      <3>3. Outside(j, tree[x])
        <4> SUFFICES ASSUME NEW z \in quiet[j], Exists(z), ~Under(z, job[j].path), NEW y \in Above(z),
                            tree[y] = tree[x]
                     PROVE  FALSE
          BY DEF Outside
        <4>1. z \in Path /\ y \in Path /\ Below(z, y) /\ y \in DOMAIN tree /\ x \in DOMAIN tree
          BY <1>1, <1>6, AboveIs, OwnPaths DEF TreeOK, IsTree, Exists
        <4>2. y = x
          BY <1>1, <4>1 DEF TreeOK, IsTree, IsInjective
        <4>3. Below(z, p)
          <5> HIDE DEF x, p
          <5> QED BY <2>2, <2>3, <4>1, <4>2, PathIsSeq, UnderOrder
        <4>4. p \in Above(z)
          BY <2>2, <4>1, <4>3, AboveIs
        <4> QED BY <1>1, <1>2, <2>1, <4>4 DEF JobInv, RmtreeOK
      <3>4. /\ more \in Seq(Frame) /\ DOMAIN more = 1..n + 1
            /\ \A k \in 1..n : more[k] = stack[k]
            /\ more[n + 1] = Opened(x)
        <4> HIDE DEF stack, x, n
        <4>1. /\ more \in Seq(Frame) /\ Len(more) = n + 1
              /\ \A k \in 1..n : more[k] = stack[k]
              /\ more[n + 1] = Opened(x)
          BY <1>5, <3>2, AppendProperties
        <4> QED BY <4>1, LenProperties
      <3>5. TreeOK' /\ UpStays
        BY <1>1, <3>1, UnchangedTree
      <3>6. ASSUME NEW k \in DOMAIN more
            PROVE  \/ \E i \in DOMAIN job[j].stack : more[k].dir = job[j].stack[i].dir
                   \/ Outside(j, more[k].dir)
        <4> HIDE DEF more, stack, x, n
        <4>1. CASE k \in 1..n
          BY <1>2, <1>5, <3>4, <4>1
        <4>2. CASE k = n + 1
          BY <3>2, <3>3, <3>4, <4>2
        <4> QED BY <1>2, <3>4, <3>6, <4>1, <4>2
      <3> HIDE DEF more
      <3> QED BY <1>1, <3>1, <3>4, <3>5, <3>6, RmtreeGoesOn
    <2>6. CASE ~(IsFile(x) /\ ~e.dir) /\ ~(IsDir(x) /\ e.dir)
      <3>1. Fails(j)
        BY <1>3, <2>6
      <3> QED BY <1>1, <3>1, EndsBadly DEF Fails
    <2> QED BY <2>4, <2>5, <2>6
  <1>7. CASE ~(Linked(top.dir) /\ Exists(x))
    <2>1. Fails(j)
      BY <1>3, <1>7 DEF IsFile, IsDir
    <2> QED BY <1>1, <2>1, EndsBadly DEF Fails
  <1> QED BY <1>6, <1>7

LEMMA RmtreeLeaveStep ==
  ASSUME TypeOK, NEW j \in Job, JobInv(j), Disturbs(j), RmtreeLeave(j)
  PROVE  StepOK(j)
  <1>1. /\ job[j].at = "rmtree" /\ job[j].op = "delete" /\ job[j].stack # <<>>
        /\ job[j].stack \in Seq(Frame) /\ job[j].path \in Path /\ TreeOK
    BY StageIs DEF RmtreeLeave, JobInv, TypeOK, IsJob
  <1> DEFINE n == Len(job[j].stack)
             outer == job[j].stack[n - 1].dir
             x == IF n = 1 THEN job[j].path
                           ELSE Append(PathOf(outer), Last(job[j].stack[n].name))
  <1>2. n \in Nat /\ n \in 1..n /\ DOMAIN job[j].stack = 1..n
    BY <1>1, LenProperties, EmptySeq
  <1>3. CASE (n > 1 => Linked(outer)) /\ IsDir(x) /\ Children(x) = {}
    <2>1. x \in Path
      BY <1>1, <1>3 DEF IsDir, Exists, TreeOK, IsTree
    <2>2. /\ Unlinked(x)
          /\ IF n = 1 THEN Ends(j, "ok") ELSE job' = [job EXCEPT ![j].stack = Front(@)]
      BY <1>3 DEF RmtreeLeave
    <2>3. CASE n = 1
      BY <1>1, <1>3, <2>2, <2>3, DeleteEnds
    <2>4. CASE n # 1
      <3> DEFINE stack == Front(job[j].stack)
      <3>1. job' = [job EXCEPT ![j].stack = stack]
        BY <2>2, <2>4
      <3>2. /\ stack \in Seq(Frame) /\ DOMAIN stack = 1..n - 1
            /\ \A k \in 1..n - 1 : stack[k] = job[j].stack[k]
        <4>1. \A k \in 1..n - 1 : job[j].stack[k] \in Frame
          BY <1>1, <1>2, ElementOfSeq
        <4>2. /\ SubSeq(job[j].stack, 1, n - 1) \in Seq(Frame)
              /\ Len(SubSeq(job[j].stack, 1, n - 1)) = IF 1 <= n - 1 THEN n - 1 - 1 + 1 ELSE 0
              /\ \A k \in 1..n - 1 - 1 + 1 : SubSeq(job[j].stack, 1, n - 1)[k] = job[j].stack[1 + k - 1]
          BY <1>2, <4>1, SubSeqProperties
        <4> HIDE DEF n
        <4>3. SubSeq(job[j].stack, 1, n - 1) = stack
          BY DEF n, Front
        <4> HIDE DEF stack
        <4>4. Len(stack) = n - 1
          BY <1>2, <4>2, <4>3
        <4>5. \A k \in 1..n - 1 : stack[k] = job[j].stack[k]
          BY <1>2, <4>2, <4>3
        <4> QED BY <4>2, <4>3, <4>4, <4>5, LenProperties
      <3>3. TreeOK' /\ UpStays
        BY <1>1, <1>3, <2>1, <2>2, UnlinkedKeeps
      <3>4. \A z \in DOMAIN tree' : z \in DOMAIN tree /\ tree'[z] = tree[z]
        BY <2>2 DEF Unlinked, Restrict
      <3>5. ASSUME NEW k \in DOMAIN stack
            PROVE  \E i \in DOMAIN job[j].stack : stack[k].dir = job[j].stack[i].dir
        <4> HIDE DEF stack, n
        <4> QED BY <1>2, <3>2, <3>5
      <3> HIDE DEF stack
      <3> QED BY <1>1, <3>1, <3>2, <3>3, <3>4, <3>5, RmtreeGoesOn
    <2> QED BY <2>3, <2>4
  <1>4. CASE ~((n > 1 => Linked(outer)) /\ IsDir(x) /\ Children(x) = {})
    <2>1. Fails(j)
      BY <1>4 DEF RmtreeLeave
    <2> QED BY <1>1, <2>1, EndsBadly DEF Fails
  <1> QED BY <1>3, <1>4

LEMMA MoveBeginStep ==
  ASSUME TypeOK, NEW j \in Job, JobInv(j), Disturbs(j), NEW x \in Asked, NEW y \in Asked,
         MoveBegin(j, x, y)
  PROVE  StepOK(j)
  <1> DEFINE label == IF Exists(x) THEN "mkdir" ELSE "done"
             answer == IF Exists(x) THEN "none" ELSE "failed"
  <1>1. /\ job[j] = NewJob /\ IsJob(job[j]) /\ DOMAIN job = Job
        /\ tree' = tree /\ node' = node
        /\ job' = [job EXCEPT ![j].op = "move", ![j].path = x, ![j].to = y,
                              ![j].at = label, ![j].answer = answer]
    BY DEF MoveBegin, JobInv, StageOK, TypeOK, files
  <1>2. /\ label \in Label /\ "move" \in Op /\ label \in Stages["move"]
        /\ label \in {"mkdir", "done"} /\ answer \in {"none", "failed"}
        /\ label # "done" => answer = "none"
    BY DEF Label, Op, Stages
  <1>3. x \in Path /\ y \in Path
    BY FileStoreAssumption DEF FileStoreAssumption
  <1> HIDE DEF label, answer
  <1>4. /\ IsJob(job'[j]) /\ DOMAIN job' = Job /\ \A k \in Job \ {j} : job'[k] = job[k]
        /\ job'[j].at = label /\ job'[j].op = "move" /\ job'[j].answer = answer
    BY <1>1, <1>2, <1>3 DEF IsJob, NewJob
  <1>5. TypeOK' /\ UpStays
    BY <1>1, <1>4, TypesAfter, UnchangedTree DEF TypeOK
  <1>6. StageOK(j)'
    BY <1>2, <1>4 DEF StageOK, StoreOp, Unpacks
  <1>7. /\ WriterOK(j)' /\ StoreOK(j)' /\ FetchOK(j)' /\ ArtifactOK(j)' /\ RmtreeOK(j)'
        /\ DeleteOK(j)' /\ MoveOK(j)' /\ ListOK(j)'
    BY <1>2, <1>4 DEF WriterOK, StoreOK, FetchOK, ArtifactOK, RmtreeOK, DeleteOK, MoveOK, ListOK
  <1> QED BY <1>4, <1>5, <1>6, <1>7 DEF StepOK, JobInv

LEMMA MoveLookStep ==
  ASSUME TypeOK, NEW j \in Job, JobInv(j), Disturbs(j), MoveLook(j)
  PROVE  StepOK(j)
  <1>1. PICK x \in Path, y \in Path : x = job[j].path /\ y = job[j].to
    BY DEF TypeOK, IsJob
  <1>2. /\ job[j].at = "look" /\ job[j].op = "move" /\ job[j].answer = "none"
        /\ IsJob(job[j]) /\ DOMAIN job = Job
    BY StageIs DEF MoveLook, JobInv, StageOK, TypeOK
  <1> DEFINE inside == Append(y, Last(x))
  <1>3. ASSUME NEW file \in Path, job' = [job EXCEPT ![j].at = "rename", ![j].file = file],
               UNCHANGED files, file = y \/ (Below(file, y) /\ ~Exists(file))
        PROVE  StepOK(j)
    <2>1. tree' = tree /\ node' = node
      BY <1>3 DEF files
    <2>2. /\ IsJob(job'[j]) /\ DOMAIN job' = Job /\ \A k \in Job \ {j} : job'[k] = job[k]
          /\ job'[j].at = "rename" /\ job'[j].op = "move" /\ job'[j].answer = "none"
          /\ job'[j].to = y /\ job'[j].file = file
      <3>1. "rename" \in Label
        BY DEF Label
      <3> QED BY <1>1, <1>2, <1>3, <3>1 DEF IsJob
    <2>3. TypeOK' /\ UpStays
      BY <2>1, <2>2, TypesAfter, UnchangedTree DEF TypeOK
    <2>4. StageOK(j)'
      BY <2>2 DEF StageOK, StoreOp, Unpacks, Stages
    <2>5. MoveOK(j)'
      BY <1>3, <2>1, <2>2 DEF MoveOK, Exists
    <2>6. /\ WriterOK(j)' /\ StoreOK(j)' /\ FetchOK(j)' /\ ArtifactOK(j)' /\ RmtreeOK(j)'
          /\ DeleteOK(j)' /\ ListOK(j)'
      BY <2>2 DEF WriterOK, StoreOK, FetchOK, ArtifactOK, RmtreeOK, DeleteOK, ListOK
    <2> QED BY <2>2, <2>3, <2>4, <2>5, <2>6 DEF StepOK, JobInv
  <1>4. CASE ~IsDir(y) \/ x = y
    BY <1>1, <1>3, <1>4 DEF MoveLook
  <1>5. CASE ~(~IsDir(y) \/ x = y) /\ Exists(inside)
    <2>1. Fails(j)
      BY <1>1, <1>5 DEF MoveLook
    <2> QED BY <1>2, <2>1, EndsBadly DEF Fails
  <1>6. CASE ~(~IsDir(y) \/ x = y) /\ ~Exists(inside)
    <2>1. /\ inside \in Path
          /\ job' = [job EXCEPT ![j].at = "rename", ![j].file = inside] /\ UNCHANGED files
      BY <1>1, <1>6 DEF MoveLook
    <2>2. Below(inside, y)
      <3>1. inside # Root /\ Front(inside) = y
        BY <1>1, <2>1, AppendIs
      <3> HIDE DEF inside
      <3> QED BY <2>1, <3>1, FrontIs
    <2> HIDE DEF inside
    <2> QED BY <1>3, <1>6, <2>1, <2>2
  <1> QED BY <1>4, <1>5, <1>6

LEMMA MoveRenameStep ==
  ASSUME TypeOK, NEW j \in Job, JobInv(j), Disturbs(j), MoveRename(j)
  PROVE  StepOK(j)
  <1>1. PICK x \in Path, y \in Path : x = job[j].path /\ y = job[j].file
    BY DEF TypeOK, IsJob
  <1>2. job[j].at = "rename" /\ job[j].op = "move"
    BY StageIs DEF MoveRename, JobInv
  <1>3. CASE CanRename(x, y)
    <2>1. /\ Rename(x, y) /\ Ends(j, "ok")
          /\ \A z \in DOMAIN tree : Under(z, x) => Rebased(z, x, y) \in Path
      BY <1>1, <1>3 DEF MoveRename
    <2>2. TreeOK' /\ UpStays
      BY <1>3, <2>1, RenameKeeps DEF TypeOK
    <2> QED BY <1>2, <2>1, <2>2, EndsAnyhow
  <1>4. CASE ~CanRename(x, y)
    BY <1>1, <1>2, <1>4, EndsBadly DEF MoveRename, Fails
  <1> QED BY <1>3, <1>4

(* A step of a list that answers what it looks like. *)
LEMMA ListGoesOn ==
  ASSUME TypeOK, NEW j \in Job, Disturbs(j), UNCHANGED files,
         IsJob(job'[j]), DOMAIN job' = Job, \A k \in Job \ {j} : job'[k] = job[k],
         job'[j].op = "list", job'[j].at \in {"walk", "list", "stat", "done"},
         job'[j].answer \in {"none", "ok"}, job'[j].at # "done" => job'[j].answer = "none",
         ListOK(j)'
  PROVE  StepOK(j)
  <1>1. tree' = tree /\ node' = node
    BY DEF files
  <1>2. TypeOK' /\ UpStays
    BY <1>1, TypesAfter, UnchangedTree DEF TypeOK
  <1>3. StageOK(j)'
    BY DEF StageOK, StoreOp, Unpacks, Stages
  <1>4. /\ WriterOK(j)' /\ StoreOK(j)' /\ FetchOK(j)' /\ ArtifactOK(j)' /\ RmtreeOK(j)'
        /\ DeleteOK(j)' /\ MoveOK(j)'
    BY DEF WriterOK, StoreOK, FetchOK, ArtifactOK, RmtreeOK, DeleteOK, MoveOK
  <1> QED BY <1>2, <1>3, <1>4 DEF StepOK, JobInv

(* What lies below a directory of the tree lies below it all the way. *)
LEMMA UpIsDir ==
  ASSUME TreeOK, NEW z \in DOMAIN tree, NEW x \in Path, Below(z, x)
  PROVE  IsDir(x) /\ x \in DOMAIN tree
  BY AboveIs DEF TreeOK, IsTree, IsDir, Exists

LEMMA ListBeginStep ==
  ASSUME TypeOK, NEW j \in Job, JobInv(j), Disturbs(j), NEW x \in Path, ListBegin(j, x)
  PROVE  StepOK(j)
  <1> DEFINE label == IF Exists(x) THEN "walk" ELSE "done"
             answer == IF Exists(x) THEN "none" ELSE "ok"
             dirs == {y \in {x} : IsDir(y)}
  <1>1. /\ job[j] = NewJob /\ IsJob(job[j]) /\ DOMAIN job = Job
        /\ tree' = tree /\ node' = node
        /\ job' = [job EXCEPT ![j].op = "list", ![j].path = x, ![j].dirs = dirs,
                              ![j].at = label, ![j].answer = answer]
    BY DEF ListBegin, JobInv, StageOK, TypeOK, files
  <1>2. /\ label \in Label /\ "list" \in Op
        /\ label \in {"walk", "done"} /\ answer \in {"none", "ok"}
        /\ label # "done" => answer = "none"
        /\ answer = "ok" => ~Exists(x)
        /\ dirs \subseteq {x} /\ (IsDir(x) => x \in dirs)
    BY DEF Label, Op
  <1> HIDE DEF label, answer, dirs
  <1>3. /\ IsJob(job'[j]) /\ DOMAIN job' = Job /\ \A k \in Job \ {j} : job'[k] = job[k]
        /\ job'[j].at = label /\ job'[j].op = "list" /\ job'[j].answer = answer
        /\ job'[j].path = x /\ job'[j].dirs = dirs /\ job'[j].found = {} /\ job'[j].listed = {}
    BY <1>1, <1>2 DEF IsJob, NewJob
  <1>4. \A z \in DOMAIN tree : Below(z, x) => IsDir(x) /\ Exists(x)
    BY UpIsDir DEF TypeOK, IsDir
  <1>5. Under(x, x)
    BY PathIsSeq, UnderOrder
  <1>6. ListOK(j)'
    BY <1>1, <1>2, <1>3, <1>4, <1>5 DEF ListOK
  <1> QED BY <1>1, <1>2, <1>3, <1>6, ListGoesOn DEF files

LEMMA WalkDirStep ==
  ASSUME TypeOK, NEW j \in Job, JobInv(j), Disturbs(j), WalkDir(j)
  PROVE  StepOK(j)
  <1>1. /\ job[j].at = "walk" /\ job[j].op = "list" /\ job[j].answer = "none"
        /\ IsJob(job[j]) /\ DOMAIN job = Job /\ tree' = tree /\ node' = node
    BY StageIs DEF WalkDir, JobInv, StageOK, TypeOK, files
  <1>2. PICK x \in job[j].dirs :
          job' = [job EXCEPT ![j].dirs = (@ \ {x}) \cup Subdirs(x),
                             ![j].found = @ \cup Children(x)]
    BY DEF WalkDir
  <1>3. PICK p \in Path : p = job[j].path
    BY <1>1 DEF IsJob
  <1>4. /\ x \in Path /\ Under(x, p) /\ Children(x) \subseteq Path /\ Subdirs(x) \subseteq Children(x)
        /\ quiet'[j] = quiet[j] /\ quiet[j] \subseteq Path
    BY <1>1, <1>3, OwnPaths DEF IsJob, JobInv, ListOK, Children, Subdirs, TypeOK, TreeOK, IsTree
  <1>5. /\ IsJob(job'[j]) /\ DOMAIN job' = Job /\ \A k \in Job \ {j} : job'[k] = job[k]
        /\ job'[j].at = "walk" /\ job'[j].op = "list" /\ job'[j].answer = "none"
        /\ job'[j].path = p /\ job'[j].dirs = (job[j].dirs \ {x}) \cup Subdirs(x)
        /\ job'[j].found = job[j].found \cup Children(x) /\ job'[j].listed = job[j].listed
    BY <1>1, <1>2, <1>3, <1>4 DEF IsJob
  <1>6. \A y \in Children(x) : Below(y, p) /\ Under(y, p)
    <2> SUFFICES ASSUME NEW y \in Children(x) PROVE Below(y, p) /\ Under(y, p)
      OBVIOUS
    <2>1. y \in Path /\ Below(y, x)
      BY <1>4, FrontIs DEF Children
    <2>2. y \in Seq(Name) /\ x \in Seq(Name) /\ p \in Seq(Name)
      BY <1>4, <2>1, PathIsSeq
    <2>3. Below(y, p)
      BY <1>4, <2>1, <2>2, UnderOrder
    <2> QED BY <2>2, <2>3, UnderOrder
  <1>7. ASSUME NEW z \in DOMAIN tree, z \in quiet[j], Below(z, p)
        PROVE  z \in job'[j].found \/ \E y \in job'[j].dirs : Below(z, y)
    <2>1. z \in job[j].found \/ \E y \in job[j].dirs : Below(z, y)
      BY <1>1, <1>3, <1>7 DEF JobInv, ListOK
    <2>2. CASE Below(z, x)
      <3>1. z \in Path
        BY <1>4, <1>7
      <3>2. PICK y \in Path : y # Root /\ Front(y) = x /\ Under(z, y)
        BY <1>4, <2>2, <3>1, ChildTowards
      <3>3. CASE z = y
        BY <1>5, <3>2, <3>3 DEF Children
      <3>4. CASE z # y
        <4>1. Below(z, y)
          BY <3>1, <3>2, <3>4, PathIsSeq, UnderOrder
        <4>2. y \in Subdirs(x)
          BY <3>2, <4>1, UpIsDir DEF Subdirs, Children, TypeOK
        <4> QED BY <1>5, <4>1, <4>2
      <3> QED BY <3>3, <3>4
    <2>3. CASE ~Below(z, x)
      BY <1>5, <2>1, <2>3
    <2> QED BY <2>2, <2>3
  <1>8. ListOK(j)'
    <2>1. /\ \A y \in job'[j].dirs : Under(y, p)
          /\ \A y \in job'[j].found : Below(y, p)
      BY <1>1, <1>3, <1>4, <1>5, <1>6 DEF JobInv, ListOK
    <2>2. \A s \in job[j].listed : s[1] \in quiet[j] =>
            Below(s[1], p) /\ IsFile(s[1]) /\ s[2] = Len(Blocks(s[1]))
      BY <1>1, <1>3 DEF JobInv, ListOK
    <2> QED BY <1>1, <1>4, <1>5, <1>7, <2>1, <2>2 DEF ListOK, IsFile, Exists, Blocks
  <1> QED BY <1>1, <1>5, <1>8, ListGoesOn DEF files

LEMMA WalkEndStep ==
  ASSUME TypeOK, NEW j \in Job, JobInv(j), Disturbs(j), WalkEnd(j)
  PROVE  StepOK(j)
  <1>1. /\ job[j].at = "walk" /\ job[j].op = "list" /\ job[j].answer = "none"
        /\ job[j].dirs = {} /\ Goto(j, "list") /\ "list" \in Label
        /\ tree' = tree /\ node' = node
    BY StageIs DEF WalkEnd, JobInv, StageOK, files, Label
  <1>2. /\ IsJob(job'[j]) /\ DOMAIN job' = Job /\ \A k \in Job \ {j} : job'[k] = job[k]
        /\ job'[j].at = "list" /\ job'[j].op = "list" /\ job'[j].answer = "none"
        /\ job'[j].path = job[j].path /\ job'[j].dirs = {} /\ job'[j].found = job[j].found
        /\ job'[j].listed = job[j].listed
    BY <1>1, GotoIs
  <1>3. quiet'[j] = quiet[j]
    BY OwnPaths
  <1>4. ListOK(j)'
    BY <1>1, <1>2, <1>3 DEF JobInv, ListOK, IsFile, Exists, Blocks
  <1> QED BY <1>1, <1>2, <1>4, ListGoesOn DEF files

LEMMA ListFileStep ==
  ASSUME TypeOK, NEW j \in Job, JobInv(j), Disturbs(j), ListFile(j)
  PROVE  StepOK(j)
  <1>1. /\ job[j].at = "list" /\ job[j].op = "list" /\ job[j].answer = "none"
        /\ IsJob(job[j]) /\ DOMAIN job = Job /\ tree' = tree /\ node' = node
    BY StageIs DEF ListFile, JobInv, StageOK, TypeOK, files
  <1>2. PICK x \in job[j].found :
          job' = IF IsFile(x) THEN [job EXCEPT ![j].at = "stat", ![j].file = x]
                              ELSE [job EXCEPT ![j].found = @ \ {x}]
    BY DEF ListFile
  <1>3. x \in Path /\ "stat" \in Label
    BY <1>1 DEF IsJob, Label
  <1>4. quiet'[j] = quiet[j]
    BY OwnPaths
  <1>5. CASE IsFile(x)
    <2>1. job' = [job EXCEPT ![j].at = "stat", ![j].file = x]
      BY <1>2, <1>5
    <2>2. /\ IsJob(job'[j]) /\ DOMAIN job' = Job /\ \A k \in Job \ {j} : job'[k] = job[k]
          /\ job'[j].at = "stat" /\ job'[j].op = "list" /\ job'[j].answer = "none"
          /\ job'[j].path = job[j].path /\ job'[j].dirs = job[j].dirs
          /\ job'[j].found = job[j].found /\ job'[j].listed = job[j].listed
          /\ job'[j].file = x
      BY <1>1, <1>3, <2>1 DEF IsJob
    <2>3. ListOK(j)'
      BY <1>1, <1>4, <1>5, <2>2 DEF JobInv, ListOK, IsFile, Exists, Blocks
    <2> QED BY <1>1, <2>2, <2>3, ListGoesOn DEF files
  <1>6. CASE ~IsFile(x)
    <2>1. job' = [job EXCEPT ![j].found = @ \ {x}]
      BY <1>2, <1>6
    <2>2. /\ IsJob(job'[j]) /\ DOMAIN job' = Job /\ \A k \in Job \ {j} : job'[k] = job[k]
          /\ job'[j].at = "list" /\ job'[j].op = "list" /\ job'[j].answer = "none"
          /\ job'[j].path = job[j].path /\ job'[j].dirs = job[j].dirs
          /\ job'[j].found = job[j].found \ {x} /\ job'[j].listed = job[j].listed
      BY <1>1, <2>1 DEF IsJob
    <2>3. ListOK(j)'
      BY <1>1, <1>4, <1>6, <2>2 DEF JobInv, ListOK, IsFile, Exists, Blocks
    <2> QED BY <1>1, <2>2, <2>3, ListGoesOn DEF files
  <1> QED BY <1>5, <1>6

LEMMA ListStatStep ==
  ASSUME TypeOK, NEW j \in Job, JobInv(j), Disturbs(j), ListStat(j)
  PROVE  StepOK(j)
  <1>1. /\ job[j].at = "stat" /\ job[j].op = "list" /\ job[j].answer = "none"
        /\ IsJob(job[j]) /\ DOMAIN job = Job
    BY StageIs DEF ListStat, JobInv, StageOK, TypeOK
  <1>2. CASE ~Exists(job[j].file)
    BY <1>1, <1>2, EndsBadly DEF ListStat, Fails
  <1>3. CASE Exists(job[j].file)
    <2>1. PICK x \in Path : x = job[j].file
      BY <1>1 DEF IsJob
    <2> DEFINE entry(z) == <<z, Len(Blocks(z))>>
               more == job[j].listed \cup {entry(x)}
    <2>2. /\ job' = [job EXCEPT ![j].at = "list", ![j].found = @ \ {x}, ![j].listed = more]
          /\ tree' = tree /\ node' = node
      BY <1>3, <2>1 DEF ListStat, files
    <2>3. Len(Blocks(x)) \in Nat
      BY <1>3, <2>1, LenProperties DEF Exists, Blocks, TypeOK, TreeOK, IsTree, IsNode
    <2>4. \A s \in more : s = <<s[1], s[2]>> /\ s[1] \in Path /\ s[2] \in Nat
      BY <1>1, <2>3 DEF IsJob
    <2>5. /\ \A y \in job[j].dirs : Under(y, job[j].path)
          /\ \A y \in job[j].found : Below(y, job[j].path)
          /\ \A z \in DOMAIN tree : z \in quiet[j] /\ Below(z, job[j].path) /\ IsFile(z) =>
               z \in job[j].found \/ entry(z) \in job[j].listed
          /\ x \in job[j].found /\ (x \in quiet[j] => IsFile(x))
          /\ \A s \in job[j].listed : s[1] \in quiet[j] =>
               Below(s[1], job[j].path) /\ IsFile(s[1]) /\ s[2] = Len(Blocks(s[1]))
      BY <1>1, <2>1 DEF JobInv, ListOK
    <2>6. \A z \in DOMAIN tree : z \in quiet[j] /\ Below(z, job[j].path) /\ IsFile(z) =>
            z \in job[j].found \ {x} \/ entry(z) \in more
      BY <2>5
    <2>7. \A s \in more : s[1] \in quiet[j] =>
            Below(s[1], job[j].path) /\ IsFile(s[1]) /\ s[2] = Len(Blocks(s[1]))
      BY <2>5
    <2> HIDE DEF more
    <2>8. /\ IsJob(job'[j]) /\ DOMAIN job' = Job /\ \A k \in Job \ {j} : job'[k] = job[k]
          /\ job'[j].at = "list" /\ job'[j].op = "list" /\ job'[j].answer = "none"
          /\ job'[j].path = job[j].path /\ job'[j].dirs = job[j].dirs
          /\ job'[j].found = job[j].found \ {x} /\ job'[j].listed = more
      <3>1. "list" \in Label
        BY DEF Label
      <3> QED BY <1>1, <2>2, <2>4, <3>1 DEF IsJob
    <2>9. quiet'[j] = quiet[j]
      BY OwnPaths
    <2>10. ListOK(j)'
      BY <1>1, <2>2, <2>5, <2>6, <2>7, <2>8, <2>9 DEF ListOK, IsFile, Exists, Blocks
    <2> QED BY <2>2, <2>8, <2>10, ListGoesOn DEF files
  <1> QED BY <1>2, <1>3

LEMMA ListEndStep ==
  ASSUME TypeOK, NEW j \in Job, JobInv(j), Disturbs(j), ListEnd(j)
  PROVE  StepOK(j)
  <1>1. /\ job[j].at = "list" /\ job[j].op = "list" /\ job[j].found = {}
        /\ Ends(j, "ok") /\ tree' = tree /\ node' = node
    BY StageIs DEF ListEnd, JobInv, files
  <1>2. /\ IsJob(job'[j]) /\ DOMAIN job' = Job /\ \A k \in Job \ {j} : job'[k] = job[k]
        /\ job'[j].at = "done" /\ job'[j].op = "list" /\ job'[j].answer = "ok"
        /\ job'[j].path = job[j].path /\ job'[j].dirs = {} /\ job'[j].found = {}
        /\ job'[j].listed = job[j].listed
    BY <1>1, EndsIs
  <1>3. quiet'[j] = quiet[j]
    BY OwnPaths
  <1>4. ListOK(j)'
    BY <1>1, <1>2, <1>3 DEF JobInv, ListOK, IsFile, Exists, Blocks
  <1> QED BY <1>1, <1>2, <1>4, ListGoesOn DEF files

LEMMA ArchiveBeginStep ==
  ASSUME TypeOK, NEW j \in Job, JobInv(j), Disturbs(j), NEW x \in Asked, NEW y \in Asked,
         ArchiveBegin(j, x, y)
  PROVE  StepOK(j)
  <1> DEFINE label == IF Exists(x) THEN "mkdir" ELSE "done"
             answer == IF Exists(x) THEN "none" ELSE "failed"
  <1>1. /\ job[j] = NewJob /\ IsJob(job[j]) /\ DOMAIN job = Job
        /\ tree' = tree /\ node' = node
        /\ job' = [job EXCEPT ![j].op = "archive", ![j].path = x, ![j].to = y, ![j].file = y,
                              ![j].at = label, ![j].answer = answer]
    BY DEF ArchiveBegin, JobInv, StageOK, TypeOK, files
  <1>2. /\ label \in Label /\ "archive" \in Op /\ label \in Stages["archive"]
        /\ label \in {"mkdir", "done"} /\ answer \in {"none", "failed"}
        /\ label # "done" => answer = "none"
    BY DEF Label, Op, Stages
  <1>3. x \in Path /\ y \in Path
    BY FileStoreAssumption DEF FileStoreAssumption
  <1> HIDE DEF label, answer
  <1>4. /\ IsJob(job'[j]) /\ DOMAIN job' = Job /\ \A k \in Job \ {j} : job'[k] = job[k]
        /\ job'[j].at = label /\ job'[j].op = "archive" /\ job'[j].answer = answer
        /\ job'[j].to = y /\ job'[j].file = y
    BY <1>1, <1>2, <1>3 DEF IsJob, NewJob
  <1>5. TypeOK' /\ UpStays
    BY <1>1, <1>4, TypesAfter, UnchangedTree DEF TypeOK
  <1>6. StageOK(j)'
    BY <1>2, <1>4 DEF StageOK, StoreOp, Unpacks
  <1>7. /\ WriterOK(j)' /\ StoreOK(j)' /\ FetchOK(j)' /\ ArtifactOK(j)' /\ RmtreeOK(j)'
        /\ DeleteOK(j)' /\ MoveOK(j)' /\ ListOK(j)'
    BY <1>2, <1>4 DEF WriterOK, StoreOK, FetchOK, ArtifactOK, RmtreeOK, DeleteOK, MoveOK, ListOK
  <1> QED BY <1>4, <1>5, <1>6, <1>7 DEF StepOK, JobInv

(* A step of an archive that writes to its file at most. *)
LEMMA ArchiveGoesOn ==
  ASSUME TypeOK, NEW j \in Job, JobInv(j), Disturbs(j), job[j].at = "pack",
         TreeOK', UpStays, UNCHANGED tree,
         IsJob(job'[j]), DOMAIN job' = Job, \A k \in Job \ {j} : job'[k] = job[k],
         job'[j].at \in {"pack", "size"}, job'[j].op = job[j].op, job'[j].answer = job[j].answer,
         job'[j].to = job[j].to, job'[j].file = job[j].file, job'[j].fd = job[j].fd
  PROVE  StepOK(j)
  <1>1. job[j].op = "archive"
    BY StageIs DEF JobInv
  <1>2. TypeOK'
    BY TypesAfter
  <1>3. StageOK(j)'
    BY <1>1 DEF JobInv, StageOK, StoreOp, Unpacks, Stages
  <1>4. WriterOK(j)'
    BY OwnPaths DEF JobInv, WriterOK, Exists
  <1>5. /\ StoreOK(j)' /\ FetchOK(j)' /\ ArtifactOK(j)' /\ RmtreeOK(j)'
        /\ DeleteOK(j)' /\ MoveOK(j)' /\ ListOK(j)'
    BY <1>1 DEF StoreOK, FetchOK, ArtifactOK, RmtreeOK, DeleteOK, MoveOK, ListOK
  <1> QED BY <1>1, <1>2, <1>3, <1>4, <1>5 DEF StepOK, JobInv

LEMMA PackDirStep ==
  ASSUME TypeOK, NEW j \in Job, JobInv(j), Disturbs(j), PackDir(j)
  PROVE  StepOK(j)
  <1>1. /\ job[j].at = "pack" /\ IsJob(job[j]) /\ DOMAIN job = Job
        /\ tree' = tree /\ node' = node
    BY DEF PackDir, TypeOK, files
  <1>2. PICK x \in job[j].dirs :
          LET entries == IF IsDir(x) THEN Children(x) ELSE {}
          IN  job' = [job EXCEPT ![j].dirs = (@ \ {x}) \cup {y \in entries : IsDir(y)},
                                 ![j].found = {y \in entries : IsFile(y)},
                                 ![j].empties = {y \in entries : IsDir(y)}]
    BY DEF PackDir
  <1> DEFINE entries == IF IsDir(x) THEN Children(x) ELSE {}
             folders == {y \in entries : IsDir(y)}
             others == {y \in entries : IsFile(y)}
  <1>3. entries \subseteq Path
    BY DEF Children, TypeOK, TreeOK, IsTree
  <1>4. folders \subseteq Path /\ others \subseteq Path
    BY <1>3
  <1>5. job' = [job EXCEPT ![j].dirs = (@ \ {x}) \cup folders, ![j].found = others,
                           ![j].empties = folders]
    BY <1>2
  <1> HIDE DEF folders, others
  <1>6. /\ IsJob(job'[j]) /\ DOMAIN job' = Job /\ \A k \in Job \ {j} : job'[k] = job[k]
        /\ job'[j].at = "pack" /\ job'[j].op = job[j].op /\ job'[j].answer = job[j].answer
        /\ job'[j].to = job[j].to /\ job'[j].file = job[j].file /\ job'[j].fd = job[j].fd
    BY <1>1, <1>4, <1>5 DEF IsJob
  <1>7. TreeOK' /\ UpStays
    BY <1>1, UnchangedTree DEF TypeOK
  <1> QED BY <1>1, <1>6, <1>7, ArchiveGoesOn

(* What an archive writes goes to the file that it has open. *)
LEMMA PutIs ==
  ASSUME TypeOK, NEW j \in Job, JobInv(j), job[j].at = "pack", NEW b, Put(j, b)
  PROVE  TreeOK' /\ UpStays /\ tree' = tree
  <1>1. PICK fd \in Inode, n \in Nat : fd = job[j].fd /\ n = job[j].pos
    BY DEF JobInv, WriterOK, TypeOK, IsJob
  <1>2. /\ node' = [node EXCEPT ![fd].blocks = WriteAt(@, n + 1, b, Hole)]
        /\ UNCHANGED tree
    BY <1>1 DEF Put
  <1> QED BY <1>2, PutKeeps DEF TypeOK

LEMMA PackFileStep ==
  ASSUME TypeOK, NEW j \in Job, JobInv(j), Disturbs(j), PackFile(j)
  PROVE  StepOK(j)
  <1>1. job[j].at = "pack" /\ IsJob(job[j]) /\ DOMAIN job = Job
    BY DEF PackFile, TypeOK
  <1>2. PICK x \in job[j].found :
          \E m : Put(j, m) /\ job' = [job EXCEPT ![j].found = @ \ {x}, ![j].pos = @ + 1,
                                                 ![j].payload = Append(@, m)]
    BY DEF PackFile
  <1>3. /\ IsJob(job'[j]) /\ DOMAIN job' = Job /\ \A k \in Job \ {j} : job'[k] = job[k]
        /\ job'[j].at = "pack" /\ job'[j].op = job[j].op /\ job'[j].answer = job[j].answer
        /\ job'[j].to = job[j].to /\ job'[j].file = job[j].file /\ job'[j].fd = job[j].fd
    BY <1>1, <1>2 DEF IsJob
  <1>4. TreeOK' /\ UpStays /\ tree' = tree
    BY <1>1, <1>2, PutIs
  <1> QED BY <1>1, <1>3, <1>4, ArchiveGoesOn

LEMMA PackVanishedStep ==
  ASSUME TypeOK, NEW j \in Job, JobInv(j), Disturbs(j), PackVanished(j)
  PROVE  StepOK(j)
  <1>1. job[j].at = "pack" /\ job[j].op = "archive"
    BY StageIs DEF PackVanished, JobInv
  <1>2. CASE job[j].pos > 0
    <2>1. Put(j, End(j)) /\ Ends(j, "failed")
      BY <1>2 DEF PackVanished
    <2>2. TreeOK' /\ UpStays
      BY <1>1, <2>1, PutIs
    <2> QED BY <1>1, <2>1, <2>2, EndsAnyhow
  <1>3. CASE ~(job[j].pos > 0)
    BY <1>1, <1>3, EndsBadly DEF PackVanished, Fails
  <1> QED BY <1>2, <1>3

LEMMA PackEmptyDirStep ==
  ASSUME TypeOK, NEW j \in Job, JobInv(j), Disturbs(j), PackEmptyDir(j)
  PROVE  StepOK(j)
  <1>1. job[j].at = "pack" /\ IsJob(job[j]) /\ DOMAIN job = Job
    BY DEF PackEmptyDir, TypeOK
  <1>2. PICK x \in job[j].empties :
          IF Children(x) = {}
            THEN \E m : /\ Put(j, m)
                        /\ job' = [job EXCEPT ![j].empties = @ \ {x}, ![j].pos = @ + 1,
                                              ![j].payload = Append(@, m)]
            ELSE job' = [job EXCEPT ![j].empties = @ \ {x}] /\ UNCHANGED files
    BY DEF PackEmptyDir
  <1>3. /\ IsJob(job'[j]) /\ DOMAIN job' = Job /\ \A k \in Job \ {j} : job'[k] = job[k]
        /\ job'[j].at = "pack" /\ job'[j].op = job[j].op /\ job'[j].answer = job[j].answer
        /\ job'[j].to = job[j].to /\ job'[j].file = job[j].file /\ job'[j].fd = job[j].fd
    <2>1. CASE Children(x) = {}
      <3>1. PICK m : job' = [job EXCEPT ![j].empties = @ \ {x}, ![j].pos = @ + 1,
                                       ![j].payload = Append(@, m)]
        BY <1>2, <2>1
      <3> QED BY <1>1, <3>1 DEF IsJob
    <2>2. CASE Children(x) # {}
      <3>1. job' = [job EXCEPT ![j].empties = @ \ {x}]
        BY <1>2, <2>2
      <3> QED BY <1>1, <3>1 DEF IsJob
    <2> QED BY <2>1, <2>2
  <1>4. TreeOK' /\ UpStays /\ tree' = tree
    <2>1. CASE Children(x) = {}
      BY <1>1, <1>2, <2>1, PutIs
    <2>2. CASE Children(x) # {}
      BY <1>2, <2>2, UnchangedTree DEF TypeOK, files
    <2> QED BY <2>1, <2>2
  <1> QED BY <1>1, <1>3, <1>4, ArchiveGoesOn

LEMMA PackEndStep ==
  ASSUME TypeOK, NEW j \in Job, JobInv(j), Disturbs(j), PackEnd(j)
  PROVE  StepOK(j)
  <1>1. /\ job[j].at = "pack" /\ IsJob(job[j]) /\ DOMAIN job = Job /\ Put(j, End(j))
        /\ job' = [job EXCEPT ![j].at = "size", ![j].pos = @ + 1,
                              ![j].payload = Append(@, End(j))]
        /\ "size" \in Label
    BY DEF PackEnd, Label, TypeOK
  <1>2. /\ IsJob(job'[j]) /\ DOMAIN job' = Job /\ \A k \in Job \ {j} : job'[k] = job[k]
        /\ job'[j].at = "size" /\ job'[j].op = job[j].op /\ job'[j].answer = job[j].answer
        /\ job'[j].to = job[j].to /\ job'[j].file = job[j].file /\ job'[j].fd = job[j].fd
    BY <1>1 DEF IsJob
  <1>3. TreeOK' /\ UpStays /\ tree' = tree
    BY <1>1, PutIs
  <1> QED BY <1>1, <1>2, <1>3, ArchiveGoesOn

LEMMA ArchiveAnswerStep ==
  ASSUME TypeOK, NEW j \in Job, JobInv(j), Disturbs(j), ArchiveAnswer(j)
  PROVE  StepOK(j)
  <1>1. job[j].at = "size" /\ job[j].op = "archive" /\ tree' = tree /\ node' = node
    BY StageIs DEF ArchiveAnswer, JobInv, Fails, files
  <1>2. TreeOK' /\ UpStays
    BY <1>1, UnchangedTree DEF TypeOK
  <1> QED BY <1>1, <1>2, EndsAnyhow DEF ArchiveAnswer, Fails

LEMMA DiesStep ==
  ASSUME TypeOK, NEW j \in Job, JobInv(j), Disturbs(j), Dies(j)
  PROVE  StepOK(j)
  BY EndsBadly DEF Dies, Running

LEMMA OwnStep ==
  ASSUME TypeOK, NEW j \in Job, JobInv(j), Disturbs(j), Begins(j) \/ Steps(j) \/ Dies(j)
  PROVE  StepOK(j)
  <1>1. CASE Begins(j)
    <2>1. Root \in Path /\ Asked \subseteq Path
      BY PathAssumption, FileStoreAssumption DEF FileStoreAssumption
    <2>2. CASE ListBegin(j, Root) \/ DeleteBegin(j, Root)
      BY <2>1, <2>2, ListBeginStep, DeleteBeginStep
    <2>3. CASE \E x \in Asked : \E op \in StoreOp : \E payload \in Payloads[j][op] :
                 StoreBegin(j, op, x, payload)
      BY <2>3, StoreBeginStep
    <2>4. CASE \E x \in Asked : \E op \in {"fetch", "extract"} : ReadBegin(j, op, x)
      BY <2>4, ReadBeginStep
    <2>5. CASE \E x \in Asked : ListBegin(j, x) \/ DeleteBegin(j, x)
      BY <2>1, <2>5, ListBeginStep, DeleteBeginStep
    <2>6. CASE \E x, y \in Asked : MoveBegin(j, x, y) \/ ArchiveBegin(j, x, y)
      BY <2>6, MoveBeginStep, ArchiveBeginStep
    <2> QED BY <1>1, <2>2, <2>3, <2>4, <2>5, <2>6 DEF Begins
  <1>2. CASE Steps(j)
    <2>1. CASE MkdirParent(j) \/ OpenWrite(j) \/ WriteBlock(j) \/ WriteEnd(j)
      BY <2>1, MkdirParentStep, OpenWriteStep, WriteBlockStep, WriteEndStep
    <2>2. CASE OpenRead(j) \/ ReadBlock(j) \/ ReadEnd(j)
      BY <2>2, OpenReadStep, ReadBlockStep, ReadEndStep
    <2>3. CASE MakeTarget(j) \/ ExtractMember(j) \/ MembersEnd(j) \/ UnlinkTmp(j)
      BY <2>3, MakeTargetStep, ExtractMemberStep, MembersEndStep, UnlinkTmpStep
    <2>4. CASE Unlink(j) \/ RmtreeOpen(j) \/ RmtreeEntry(j) \/ RmtreeLeave(j)
      BY <2>4, UnlinkStep, RmtreeOpenStep, RmtreeEntryStep, RmtreeLeaveStep
    <2>5. CASE MoveLook(j) \/ MoveRename(j)
      BY <2>5, MoveLookStep, MoveRenameStep
    <2>6. CASE WalkDir(j) \/ WalkEnd(j) \/ ListFile(j) \/ ListStat(j) \/ ListEnd(j)
      BY <2>6, WalkDirStep, WalkEndStep, ListFileStep, ListStatStep, ListEndStep
    <2>7. CASE \/ PackDir(j) \/ PackFile(j) \/ PackVanished(j) \/ PackEmptyDir(j) \/ PackEnd(j)
               \/ ArchiveAnswer(j)
      BY <2>7, PackDirStep, PackFileStep, PackVanishedStep, PackEmptyDirStep, PackEndStep,
         ArchiveAnswerStep
    <2> QED BY <1>2, <2>1, <2>2, <2>3, <2>4, <2>5, <2>6, <2>7 DEF Steps
  <1>3. CASE Dies(j)
    BY <1>3, DiesStep
  <1> QED BY <1>1, <1>2, <1>3

-----------------------------------------------------------------------------
(* The invariant.                                                          *)

LEMMA InitKeeps == Init => TypeOK /\ FileInv
  <1> USE FileStoreAssumption DEF FileStoreAssumption
  <1> SUFFICES ASSUME Init PROVE TypeOK /\ FileInv
    OBVIOUS
  <1>1. TreeOK
    BY DEF Init, TreeOK
  <1>2. NewJob = [at |-> "new", op |-> "none", answer |-> "none", path |-> Root, to |-> Root,
                  file |-> Root, fd |-> NoInode, pos |-> 0, payload |-> <<>>, got |-> <<>>,
                  done |-> 0, dirs |-> {}, found |-> {}, empties |-> {}, listed |-> {},
                  stack |-> <<>>]
    BY DEF NewJob
  <1>3. IsJob(NewJob)
    <2>1. "new" \in Label /\ "none" \in Op /\ Root \in Path /\ <<>> \in Seq(Frame)
      BY PathAssumption, EmptySeq DEF Label, Op
    <2> QED BY <1>2, <2>1 DEF IsJob
  <1>4. TypeOK
    BY <1>1, <1>3 DEF Init, TypeOK
  <1>5. ASSUME NEW j \in Job
        PROVE  JobInv(j)
    <2>1. job[j] = NewJob /\ "new" \in Stages.none
      BY DEF Init, Stages
    <2>2. StageOK(j)
      BY <1>2, <2>1 DEF StageOK, Unpacks, StoreOp
    <2>3. /\ WriterOK(j) /\ StoreOK(j) /\ FetchOK(j) /\ ArtifactOK(j) /\ RmtreeOK(j)
          /\ DeleteOK(j) /\ MoveOK(j) /\ ListOK(j)
      BY <1>2, <2>1 DEF WriterOK, StoreOK, FetchOK, ArtifactOK, RmtreeOK, DeleteOK, MoveOK, ListOK
    <2> QED BY <2>2, <2>3 DEF JobInv
  <1> QED BY <1>4, <1>5 DEF FileInv

(* Idle time changes nothing. *)
LEMMA StutterKeeps ==
  ASSUME TypeOK, FileInv, UNCHANGED vars
  PROVE  TypeOK' /\ FileInv'
  <1>1. /\ tree' = tree /\ node' = node /\ job' = job /\ quiet' = quiet /\ clean' = clean
    BY DEF vars, files
  <1>2. TreeOK'
    BY <1>1, UnchangedTree DEF TypeOK
  <1>3. TypeOK'
    BY <1>1, <1>2 DEF TypeOK
  <1>4. ASSUME NEW j \in Job
        PROVE  JobInv(j)'
    <2>1. JobInv(j)
      BY DEF FileInv
    <2>2. \A x : (IsFile(x)' <=> IsFile(x)) /\ (Exists(x)' <=> Exists(x)) /\ Blocks(x)' = Blocks(x)
                 /\ At(x)' = At(x)
      BY <1>1 DEF IsFile, Exists, Blocks, At
    <2>3. StageOK(j)' /\ WriterOK(j)' /\ RmtreeOK(j)' /\ DeleteOK(j)' /\ MoveOK(j)'
      BY <1>1, <2>1 DEF JobInv, StageOK, WriterOK, RmtreeOK, DeleteOK, MoveOK, Exists, Unpacks, Tmp
    <2>4. StoreOK(j)' /\ FetchOK(j)'
      BY <1>1, <2>1 DEF JobInv, StoreOK, FetchOK, Wrote, At, Exists
    <2>5. ArtifactOK(j)'
      BY <1>1, <2>1 DEF JobInv, ArtifactOK, Wrote, At, Exists, IsFile, Blocks, Tmp
    <2>6. ListOK(j)'
      BY <1>1, <2>1 DEF JobInv, ListOK, Exists, IsFile, Blocks
    <2> QED BY <2>3, <2>4, <2>5, <2>6 DEF JobInv
  <1> QED BY <1>3, <1>4 DEF FileInv

LEMMA NextKeeps ==
  ASSUME TypeOK, FileInv, Next
  PROVE  TypeOK' /\ FileInv'
  <1>1. PICK j \in Job : (Begins(j) \/ Steps(j) \/ Dies(j)) /\ Disturbs(j)
    BY DEF Next
  <1>2. StepOK(j)
    BY <1>1, OwnStep DEF FileInv
  <1>3. ASSUME NEW k \in Job \ {j}
        PROVE  JobInv(k)'
    BY <1>1, <1>2, OthersKeep DEF StepOK, FileInv
  <1> QED BY <1>2, <1>3 DEF StepOK, FileInv

(* Whatever handlers run at once, in whatever order their calls reach the  *)
(* file system and whichever of them are killed, the storage directory     *)
(* stays a tree and every handler is where the paths that nobody else has  *)
(* touched say it is.                                                      *)
THEOREM FileInvariance == Spec => [](TypeOK /\ FileInv)
  <1>1. Init => TypeOK /\ FileInv
    BY InitKeeps
  <1>2. TypeOK /\ FileInv /\ [Next]_vars => TypeOK' /\ FileInv'
    BY NextKeeps, StutterKeeps
  <1> QED BY <1>1, <1>2, PTL DEF Spec

(* Every file has its directory, no inode has two names, and every step    *)
(* finds in the record of its job what it takes it for: rmtree only holds  *)
(* directories open, a list only sizes.                                    *)
THEOREM FileTypes == Spec => []TypeOK
  <1>1. TypeOK /\ FileInv => TypeOK
    OBVIOUS
  <1> QED BY <1>1, FileInvariance, PTL

(* At the target of storage.store that nobody else has touched there is    *)
(* exactly the part of the payload that it has got through, and all of it  *)
(* once it has answered.                                                   *)
THEOREM StoresExact == Spec => []StoreExact
  <1>1. TypeOK /\ FileInv => StoreExact
    BY DEF FileInv, JobInv, StoreExact, StoreOK, StageOK, Wrote
  <1> QED BY <1>1, FileInvariance, PTL

(* What storage.fetch answers is the whole file, if nobody wrote to it     *)
(* while it was read, and the file of the path that it was asked for.      *)
THEOREM FetchesExact == Spec => []FetchExact
  <1>1. ASSUME TypeOK, FileInv
        PROVE  FetchExact
    <2> SUFFICES ASSUME NEW j \in Job, job[j].op = "fetch", job[j].answer = "ok"
                 PROVE  /\ j \in clean => node[job[j].fd] = File(job[j].got)
                        /\ job[j].path \in quiet[j] => tree[job[j].path] = job[j].fd
      BY DEF FetchExact
    <2>1. FetchOK(j)
      BY <1>1 DEF FileInv, JobInv
    <2>2. ASSUME j \in clean
          PROVE  node[job[j].fd] = File(job[j].got)
      <3> DEFINE i == job[j].fd
      <3>1. /\ i \in Inode /\ ~node[i].dir /\ Len(job[j].got) = Len(node[i].blocks)
            /\ job[j].got = SubSeq(node[i].blocks, 1, Len(job[j].got))
        BY <2>1, <2>2 DEF FetchOK
      <3>2. IsNode(node[i])
        BY <1>1, <3>1 DEF TypeOK, TreeOK, IsTree
      <3>3. node[i].blocks = job[j].got
        BY <3>1, <3>2, SubSeqFull DEF IsNode
      <3> QED BY <3>1, <3>2, <3>3 DEF IsNode, File
    <2> QED BY <2>1, <2>2 DEF FetchOK
  <1> QED BY <1>1, FileInvariance, PTL

(* An artifact is unpacked as it was downloaded, unless another handler    *)
(* has touched the name of its temporary file.                             *)
THEOREM ArtifactsOwn == Spec => []UnpacksOwn
  <1>1. TypeOK /\ FileInv => UnpacksOwn
    BY DEF FileInv, JobInv, UnpacksOwn, ArtifactOK, Tmp
  <1> QED BY <1>1, FileInvariance, PTL

(* A storage.delete that answers has left nothing at or below its path but *)
(* what others have made there meanwhile, however deep the tree.           *)
THEOREM DeletesExact == Spec => []DeleteExact
  <1>1. TypeOK /\ FileInv => DeleteExact
    BY DEF FileInv, JobInv, DeleteExact, DeleteOK
  <1> QED BY <1>1, FileInvariance, PTL

(* storage.list answers every file below its path that nobody touched,     *)
(* with its size, whatever the order in which it walks the tree and        *)
(* whatever is stored, moved and deleted beside it.                        *)
THEOREM ListsExact == Spec => []ListExact
  <1>1. ASSUME TypeOK, FileInv
        PROVE  ListExact
    <2> SUFFICES ASSUME NEW j \in Job, job[j].op = "list", job[j].answer = "ok", NEW x \in quiet[j]
                 PROVE  {s[2] : s \in {t \in job[j].listed : t[1] = x}}
                          = IF Below(x, job[j].path) /\ IsFile(x) THEN {Len(Blocks(x))} ELSE {}
      BY DEF ListExact
    <2>1. /\ Below(x, job[j].path) /\ IsFile(x) => <<x, Len(Blocks(x))>> \in job[j].listed
          /\ \A s \in job[j].listed : s[1] = x =>
               Below(x, job[j].path) /\ IsFile(x) /\ s[2] = Len(Blocks(x))
      BY <1>1 DEF FileInv, JobInv, ListOK, IsFile, Exists
    <2>2. CASE Below(x, job[j].path) /\ IsFile(x)
      BY <2>1, <2>2
    <2>3. CASE ~(Below(x, job[j].path) /\ IsFile(x))
      BY <2>1, <2>3
    <2> QED BY <2>2, <2>3
  <1> QED BY <1>1, FileInvariance, PTL

-----------------------------------------------------------------------------
(* What a step may do to the tree.                                         *)

(* A job that changes its record took the step itself. *)
LEMMA WhoseStep ==
  ASSUME TypeOK, FileInv, Next, NEW j \in Job, job'[j] # job[j]
  PROVE  (Begins(j) \/ Steps(j) \/ Dies(j)) /\ Disturbs(j)
  <1>1. PICK k \in Job : (Begins(k) \/ Steps(k) \/ Dies(k)) /\ Disturbs(k)
    BY DEF Next
  <1>2. StepOK(k)
    BY <1>1, OwnStep DEF FileInv
  <1>3. k = j
    BY <1>2 DEF StepOK
  <1> QED BY <1>1, <1>3

LEMMA BeginsNew ==
  ASSUME NEW j \in Job, Begins(j)
  PROVE  job[j].at = "new" /\ UNCHANGED files
  <1>1. \A x : ListBegin(j, x) \/ DeleteBegin(j, x) => job[j].at = "new" /\ UNCHANGED files
    BY DEF ListBegin, DeleteBegin
  <1>2. \A op, x, payload : StoreBegin(j, op, x, payload) => job[j].at = "new" /\ UNCHANGED files
    BY DEF StoreBegin
  <1>3. \A op, x : ReadBegin(j, op, x) => job[j].at = "new" /\ UNCHANGED files
    BY DEF ReadBegin
  <1>4. \A x, y : MoveBegin(j, x, y) \/ ArchiveBegin(j, x, y) => job[j].at = "new" /\ UNCHANGED files
    BY DEF MoveBegin, ArchiveBegin
  <1> QED BY <1>1, <1>2, <1>3, <1>4 DEF Begins

(* A storage.move never takes a file or a directory out of the tree,       *)
(* except the destination that was asked for, or one that has been created *)
(* since the handler looked for it, and then only a file or a directory    *)
(* without entries.                                                        *)
THEOREM MovesLoseNothing == Spec => MoveLosesNothing
  <1> DEFINE Kept(j) ==
        job[j].at = "rename" /\ job'[j] # job[j] =>
          \A x \in DOMAIN tree :
            \/ tree[x] \in Range(tree')
            \/ /\ x = job[j].file /\ Children(x) = {}
               /\ x = job[j].to \/ x \notin quiet[j]
  <1>1. ASSUME TypeOK, FileInv, Next, NEW j \in Job
        PROVE  Kept(j)
    <2> SUFFICES ASSUME job[j].at = "rename", job'[j] # job[j], NEW z \in DOMAIN tree
                 PROVE  \/ tree[z] \in Range(tree')
                        \/ /\ z = job[j].file /\ Children(z) = {}
                           /\ z = job[j].to \/ z \notin quiet[j]
      OBVIOUS
    <2>1. PICK x \in Path, y \in Path : x = job[j].path /\ y = job[j].file
      BY <1>1 DEF TypeOK, IsJob
    <2>2. Steps(j) \/ Dies(j)
      BY <1>1, WhoseStep, BeginsNew
    <2>3. MoveRename(j) \/ Dies(j)
      BY <2>2 DEF Steps, MkdirParent, OpenWrite, WriteBlock, WriteEnd, OpenRead, ReadBlock, ReadEnd,
         MakeTarget, ExtractMember, MembersEnd, UnlinkTmp, Unlink, RmtreeOpen, RmtreeEntry,
         RmtreeLeave, MoveLook, WalkDir, WalkEnd, ListFile, ListStat, ListEnd, PackDir, PackFile,
         PackVanished, PackEmptyDir, PackEnd, ArchiveAnswer
    <2>4. CASE MoveRename(j) /\ CanRename(x, y)
      <3>1. /\ Rename(x, y)
            /\ \A w \in DOMAIN tree : Under(w, x) => Rebased(w, x, y) \in Path
        BY <2>1, <2>4 DEF MoveRename
      <3>2. tree[z] \in Range(tree') \/ (z = y /\ Children(y) = {})
        BY <1>1, <2>4, <3>1, RenameKeeps DEF TypeOK
      <3>3. MoveOK(j)
        BY <1>1 DEF FileInv, JobInv
      <3> QED BY <2>1, <3>2, <3>3 DEF MoveOK, Exists
    <2>5. CASE tree' = tree
      BY <2>5 DEF Range
    <2> QED BY <2>1, <2>3, <2>4, <2>5 DEF MoveRename, Dies, Fails, files
  <1>2. UNCHANGED vars => \A j \in Job : Kept(j)
    BY DEF vars
  <1>3. TypeOK /\ FileInv /\ [Next]_vars => [\A j \in Job : Kept(j)]_vars
    BY <1>1, <1>2
  <1>4. Spec => [][\A j \in Job : Kept(j)]_vars
    <2> HIDE DEF Kept
    <2> QED BY <1>3, FileInvariance, PTL DEF Spec
  <1> QED BY <1>4 DEF MoveLosesNothing

(* What a path that a job may not change is not. *)
LEMMA NotInFootprint ==
  ASSUME NEW j \in Job, NEW x \in Path, x \notin Footprint(j)
  PROVE  /\ job[j].op \in {"store", "archive"} => ~Under(job[j].to, x)
         /\ job[j].op \in {"unpack", "unpack_artifact", "extract"} =>
              ~Under(job[j].to, x) /\ ~Under(x, job[j].to)
         /\ job[j].op = "unpack_artifact" => x # Tmp(j)
         /\ job[j].op = "delete" => ~Under(x, job[j].path)
         /\ job[j].op = "move" =>
              /\ ~Under(x, job[j].path) /\ ~Under(job[j].to, x)
              /\ ~(job[j].file # Root /\ Under(x, job[j].file) /\ Under(x, job[j].to))
  <1>1. CASE job[j].op \in {"store", "archive"}
    BY <1>1 DEF Footprint
  <1>2. CASE job[j].op \in {"unpack", "unpack_artifact", "extract"}
    <2>1. x \notin {y \in Path : Under(job[j].to, y) \/ Under(y, job[j].to)}
             \cup (IF job[j].op = "unpack_artifact" THEN {Tmp(j)} ELSE {})
      BY <1>2 DEF Footprint, Unpacks, Tmp
    <2> QED BY <1>2, <2>1
  <1>3. CASE job[j].op = "delete"
    BY <1>3 DEF Footprint, Unpacks
  <1>4. CASE job[j].op = "move"
    BY <1>4 DEF Footprint, Unpacks
  <1> QED BY <1>1, <1>2, <1>3, <1>4

(* What is made for a file or directory lies above it. *)
LEMMA FrontAbove ==
  ASSUME NEW x \in Path, NEW y \in Path, Under(Front(x), y)
  PROVE  Under(x, y)
  <1>1. CASE x # Root
    <2>1. Front(x) \in Path /\ Below(x, Front(x))
      BY <1>1, FrontIs
    <2>2. Below(x, y)
      BY <2>1, PathIsSeq, UnderOrder
    <2> QED BY <2>2, PathIsSeq, UnderOrder
  <1>2. CASE x = Root
    <2>1. Front(x) = x
      BY <1>2, SubSeqEmpty, EmptySeq DEF Front, Root
    <2> QED BY <2>1
  <1> QED BY <1>1, <1>2

LEMMA MkdirInside ==
  ASSUME TypeOK, NEW j \in Job, NEW x \in quiet[j], x \notin Footprint(j),
         NEW dir \in Path, CanMkdir(dir), Mkdir(dir, Held),
         \/ /\ dir = Front(job[j].to)
            /\ job[j].op \in {"store", "unpack", "unpack_artifact", "move", "archive"}
         \/ /\ job[j].op \in {"unpack", "unpack_artifact", "extract"}
            /\ \E y \in Path : Under(y, job[j].to) /\ (dir = y \/ dir = Front(y))
  PROVE  At(x)' = At(x)
  <1>1. x \in Path /\ job[j].to \in Path
    BY DEF TypeOK, IsJob
  <1>2. SUFFICES ASSUME Under(dir, x) PROVE FALSE
    BY <1>1, MkdirKeeps DEF TypeOK
  <1>3. CASE dir = Front(job[j].to)
    <2>1. Under(job[j].to, x)
      BY <1>1, <1>2, <1>3, FrontAbove
    <2> QED BY <1>1, <2>1, NotInFootprint
  <1>4. CASE dir # Front(job[j].to)
    <2>1. PICK y \in Path : Under(y, job[j].to) /\ (dir = y \/ dir = Front(y))
      BY <1>4
    <2>2. Under(y, x)
      BY <1>1, <1>2, <2>1, FrontAbove
    <2>3. Under(job[j].to, x) \/ Below(x, job[j].to)
      BY <1>1, <2>1, <2>2, PathIsSeq, UnderOrder
    <2>4. Under(job[j].to, x) \/ Under(x, job[j].to)
      BY <1>1, <2>3, PathIsSeq, UnderOrder
    <2> QED BY <1>1, <1>4, <2>4, NotInFootprint
  <1> QED BY <1>3, <1>4

(* What is opened to be written, and is written, is inside.                *)
LEMMA FileInside ==
  ASSUME TypeOK, NEW j \in Job, JobInv(j), job[j].at \in {"open", "write", "pack"}
  PROVE  job[j].file \in Footprint(j) /\ job[j].file \in Path
  <1>1. job[j].file \in Path /\ job[j].to \in Path
    BY DEF TypeOK, IsJob
  <1>2. job[j].op \in {"store", "unpack", "unpack_artifact", "archive", "extract"}
    BY StageIs DEF JobInv
  <1>3. CASE job[j].op \in {"store", "archive"}
    <2>1. job[j].file = job[j].to
      BY <1>3 DEF JobInv, StageOK
    <2>2. Under(job[j].to, job[j].file)
      BY <1>1, <2>1, PathIsSeq, UnderOrder
    <2> QED BY <1>1, <1>3, <2>2, NotInFootprint
  <1>4. CASE job[j].op \in {"unpack", "unpack_artifact", "extract"}
    <2>1. job[j].at \in {"open", "write"}
      BY <1>4, StageIs DEF JobInv
    <2>2. \/ job[j].op = "unpack_artifact" /\ job[j].file = Tmp(j)
          \/ Under(job[j].file, job[j].to)
      BY <1>4, <2>1 DEF JobInv, StageOK, Unpacks
    <2> QED BY <1>1, <1>4, <2>2, NotInFootprint
  <1> QED BY <1>2, <1>3, <1>4

LEMMA PutInside ==
  ASSUME TypeOK, NEW j \in Job, JobInv(j), job[j].at \in {"write", "pack"}, NEW b, Put(j, b),
         NEW x \in quiet[j], x \notin Footprint(j)
  PROVE  At(x)' = At(x)
  <1>1. PICK fd \in Inode, n \in Nat : fd = job[j].fd /\ n = job[j].pos
    BY DEF JobInv, WriterOK, TypeOK, IsJob
  <1>2. /\ node' = [node EXCEPT ![fd].blocks = WriteAt(@, n + 1, b, Hole)]
        /\ UNCHANGED tree
    BY <1>1 DEF Put
  <1>3. x \in Path
    BY DEF TypeOK
  <1>4. ~(Exists(x) /\ tree[x] = fd)
    BY <1>1, FileInside DEF JobInv, WriterOK
  <1> QED BY <1>2, <1>3, <1>4, PutKeeps DEF TypeOK

LEMMA RmtreeInside ==
  ASSUME TypeOK, NEW j \in Job, JobInv(j), NEW n \in DOMAIN job[j].stack, job[j].at = "rmtree",
         NEW name, LET dir == job[j].stack[n].dir
                   IN  Linked(dir) /\ Exists(Append(PathOf(dir), name)),
         NEW x \in quiet[j], x \notin Footprint(j)
  PROVE  x # Append(PathOf(job[j].stack[n].dir), name)
  <1> DEFINE dir == job[j].stack[n].dir
             p == PathOf(dir)
             y == Append(p, name)
  <1>1. p \in DOMAIN tree /\ tree[p] = dir
    BY DEF Linked, PathOf, Range
  <1>2. p \in Path /\ y \in Path
    BY <1>1 DEF TypeOK, TreeOK, IsTree, Exists
  <1>3. y # Root /\ Front(y) = p /\ Below(y, p)
    BY <1>2, AppendIs, FrontIs
  <1>4. SUFFICES ASSUME x = y PROVE FALSE
    OBVIOUS
  <1>5. Exists(x)
    BY <1>4
  <1> HIDE DEF y
  <1>6. p \in Above(x)
    BY <1>2, <1>3, <1>4, AboveIs
  <1>7. ~Under(x, job[j].path)
    BY <1>2, <1>4, NotInFootprint, StageIs DEF JobInv
  <1> QED BY <1>1, <1>5, <1>6, <1>7 DEF JobInv, RmtreeOK

LEMMA StaysInside ==
  ASSUME TypeOK, NEW j \in Job, JobInv(j), Begins(j) \/ Steps(j) \/ Dies(j),
         NEW x \in quiet[j], x \notin Footprint(j)
  PROVE  At(x)' = At(x)
  <1>1. CASE UNCHANGED files
    BY <1>1, UnchangedTree DEF TypeOK, files
  <1>2. x \in Path /\ job[j].to \in Path /\ job[j].path \in Path /\ job[j].file \in Path /\ TreeOK
    BY DEF TypeOK, IsJob
  <1>3. CASE MkdirParent(j)
    <2>1. job[j].op \in {"store", "unpack", "unpack_artifact", "move", "archive"}
      BY <1>3, StageIs DEF MkdirParent, JobInv
    <2>2. CASE CanMkdir(Front(job[j].to))
      <3>1. Mkdir(Front(job[j].to), Held) /\ Front(job[j].to) \in Path
        BY <1>2, <1>3, <2>2, FrontOrRoot DEF MkdirParent
      <3> QED BY <2>1, <2>2, <3>1, MkdirInside
    <2> QED BY <1>1, <1>3, <2>2 DEF MkdirParent, Fails
  <1>4. CASE OpenWrite(j)
    <2>1. job[j].file # x
      BY <1>4, FileInside DEF OpenWrite
    <2>2. CASE CanCreate(job[j].file)
      <3>1. Create(job[j].file, Held)
        BY <1>4, <2>2 DEF OpenWrite
      <3> QED BY <1>2, <2>1, <2>2, <3>1, CreateKeeps
    <2> QED BY <1>1, <1>4, <2>2 DEF OpenWrite, Fails
  <1>5. CASE WriteBlock(j)
    BY <1>5, PutInside DEF WriteBlock
  <1>6. CASE MakeTarget(j)
    <2>1. job[j].op \in {"unpack", "unpack_artifact", "extract"}
      BY <1>6, StageIs DEF MakeTarget, JobInv
    <2>2. CASE CanMkdir(job[j].to)
      <3>1. Mkdir(job[j].to, Held)
        BY <1>6, <2>2 DEF MakeTarget
      <3>2. Under(job[j].to, job[j].to)
        BY <1>2, PathIsSeq, UnderOrder
      <3> QED BY <1>2, <2>1, <2>2, <3>1, <3>2, MkdirInside
    <2> QED BY <1>1, <1>6, <2>2 DEF MakeTarget, Fails
  <1>7. CASE ExtractMember(j)
    <2> DEFINE m == job[j].got[job[j].done + 1]
               dest == job[j].to \o m.name
               dir == IF m.kind = "dir" THEN dest ELSE Front(dest)
    <2>1. job[j].op \in {"unpack", "unpack_artifact", "extract"}
      BY <1>7, StageIs DEF ExtractMember, JobInv
    <2>2. CASE ~Refused(m, job[j].to) /\ CanMkdir(dir)
      <3>1. dest \in Path /\ Under(dest, job[j].to) /\ Mkdir(dir, Held)
        BY <1>7, <2>2 DEF ExtractMember, Refused
      <3>2. dir = dest \/ dir = Front(dest)
        OBVIOUS
      <3>3. CanMkdir(dir)
        BY <2>2
      <3> HIDE DEF dir, dest
      <3>4. dir \in Path
        BY <3>1, <3>2, FrontOrRoot
      <3> QED BY <2>1, <3>1, <3>2, <3>3, <3>4, MkdirInside
    <2>3. CASE ~(~Refused(m, job[j].to) /\ CanMkdir(dir))
      BY <1>1, <1>7, <2>3 DEF ExtractMember, Fails
    <2> QED BY <2>2, <2>3
  <1>8. CASE UnlinkTmp(j)
    <2>1. job[j].op = "unpack_artifact" /\ job[j].to \in Asked
      BY <1>8, StageIs DEF UnlinkTmp, JobInv, StageOK, StoreOp
    <2>2. Tmp(j) \in Path /\ x # Tmp(j)
      BY <1>2, <2>1, NotInFootprint, FileStoreAssumption DEF FileStoreAssumption, Tmp
    <2>3. CASE ~IsDir(Tmp(j))
      <3>1. Unlinked(Tmp(j))
        BY <1>8, <2>3 DEF UnlinkTmp, Tmp
      <3> QED BY <1>2, <2>2, <2>3, <3>1, UnlinkedKeeps
    <2> QED BY <1>1, <1>8, <2>3 DEF UnlinkTmp, Fails, Tmp
  <1>9. CASE Unlink(j)
    <2>1. x # job[j].path
      <3>1. ~Under(x, job[j].path)
        BY <1>2, <1>9, NotInFootprint, StageIs DEF Unlink, JobInv
      <3> QED BY <1>2, <3>1, PathIsSeq, UnderOrder
    <2>2. CASE IsFile(job[j].path)
      <3>1. Unlinked(job[j].path) /\ ~IsDir(job[j].path)
        BY <1>9, <2>2 DEF Unlink, IsFile, IsDir
      <3> QED BY <1>2, <2>1, <3>1, UnlinkedKeeps
    <2> QED BY <1>1, <1>9, <2>2 DEF Unlink, Fails
  <1>10. CASE RmtreeEntry(j)
    <2> DEFINE n == Len(job[j].stack)
               dir == job[j].stack[n].dir
    <2>1. /\ job[j].at = "rmtree" /\ n \in DOMAIN job[j].stack
      BY <1>10, LenProperties, EmptySeq DEF RmtreeEntry, TypeOK, IsJob
    <2>2. PICK e \in job[j].stack[n].left :
            LET y == Append(PathOf(dir), e.name)
            IN  \/ Linked(dir) /\ IsFile(y) /\ Unlinked(y)
                \/ UNCHANGED files
      BY <1>10 DEF RmtreeEntry, Fails
    <2> DEFINE y == Append(PathOf(dir), e.name)
    <2>3. CASE Linked(dir) /\ IsFile(y) /\ Unlinked(y)
      <3>1. y \in Path /\ ~IsDir(y) /\ Exists(y)
        BY <1>2, <2>3 DEF IsFile, IsDir, Exists, TreeOK, IsTree
      <3>2. x # y
        <4> HIDE DEF n
        <4> QED BY <2>1, <2>3, <3>1, RmtreeInside
      <3> HIDE DEF y
      <3> QED BY <1>2, <2>3, <3>1, <3>2, UnlinkedKeeps
    <2> QED BY <1>1, <2>2, <2>3
  <1>11. CASE RmtreeLeave(j)
    <2> DEFINE n == Len(job[j].stack)
               outer == job[j].stack[n - 1].dir
               name == Last(job[j].stack[n].name)
               y == IF n = 1 THEN job[j].path ELSE Append(PathOf(outer), name)
    <2>1. /\ job[j].at = "rmtree" /\ job[j].op = "delete" /\ n \in Nat \ {0}
          /\ DOMAIN job[j].stack = 1..n
      BY <1>11, StageIs, LenProperties, EmptySeq DEF RmtreeLeave, TypeOK, IsJob, JobInv
    <2>2. CASE (n > 1 => Linked(outer)) /\ IsDir(y) /\ Children(y) = {}
      <3>1. Unlinked(y)
        BY <1>11, <2>2 DEF RmtreeLeave
      <3>2. y \in Path /\ Exists(y)
        BY <1>2, <2>2 DEF IsDir, Exists, TreeOK, IsTree
      <3>3. x # y
        <4>1. CASE n = 1
          <5>1. ~Under(x, job[j].path)
            BY <1>2, <2>1, NotInFootprint
          <5> QED BY <1>2, <4>1, <5>1, PathIsSeq, UnderOrder
        <4>2. CASE n # 1
          <5> DEFINE k == n - 1
          <5>1. k \in DOMAIN job[j].stack /\ n > 1
            <6>1. n - 1 \in 1..n /\ n > 1
              <7> HIDE DEF n
              <7> QED BY <2>1, <4>2
            <6> QED BY <2>1, <6>1
          <5>2. y = Append(PathOf(job[j].stack[k].dir), name) /\ Linked(job[j].stack[k].dir)
            BY <2>2, <4>2, <5>1
          <5> HIDE DEF k, name, n, y
          <5> QED BY <2>1, <3>2, <5>1, <5>2, RmtreeInside
        <4> QED BY <4>1, <4>2
      <3> HIDE DEF y
      <3> QED BY <1>2, <2>2, <3>1, <3>2, <3>3, UnlinkedKeeps
    <2>3. CASE ~((n > 1 => Linked(outer)) /\ IsDir(y) /\ Children(y) = {})
      BY <1>1, <1>11, <2>3 DEF RmtreeLeave, Fails
    <2> QED BY <2>2, <2>3
  <1>12. CASE MoveRename(j)
    <2>1. PICK y \in Path, z \in Path : y = job[j].path /\ z = job[j].file
      BY <1>2
    <2>2. /\ ~Under(x, y)
          /\ z # Root /\ Under(x, z) => ~Under(x, job[j].to)
          /\ z = job[j].to \/ Below(z, job[j].to)
      BY <1>2, <1>12, <2>1, NotInFootprint, StageIs DEF MoveRename, JobInv, MoveOK
    <2>3. CASE CanRename(y, z)
      <3>2. ~Under(x, z)
        <4>1. z # Root
          BY <2>3 DEF CanRename
        <4>2. Under(x, z) => Under(x, job[j].to)
          BY <1>2, <2>1, <2>2, PathIsSeq, UnderOrder
        <4> QED BY <2>2, <4>1, <4>2
      <3>1. /\ Rename(y, z)
            /\ \A w \in DOMAIN tree : Under(w, y) => Rebased(w, y, z) \in Path
        BY <1>12, <2>1, <2>3 DEF MoveRename
      <3> QED BY <1>2, <2>2, <2>3, <3>1, <3>2, RenameKeeps
    <2> QED BY <1>1, <1>12, <2>1, <2>3 DEF MoveRename, Fails
  <1>13. CASE \/ PackFile(j) \/ PackVanished(j) \/ PackEmptyDir(j) \/ PackEnd(j)
    <2>1. job[j].at = "pack" /\ (UNCHANGED files \/ \E b : Put(j, b))
      BY <1>13 DEF PackFile, PackVanished, PackEmptyDir, PackEnd, Fails
    <2> QED BY <1>1, <2>1, PutInside
  <1>14. CASE \/ WriteEnd(j) \/ OpenRead(j) \/ ReadBlock(j) \/ ReadEnd(j) \/ MembersEnd(j)
              \/ RmtreeOpen(j) \/ MoveLook(j) \/ WalkDir(j) \/ WalkEnd(j) \/ ListFile(j) \/ ListStat(j)
              \/ ListEnd(j) \/ PackDir(j) \/ ArchiveAnswer(j)
    BY <1>1, <1>14 DEF WriteEnd, OpenRead, ReadBlock, ReadEnd, MembersEnd, RmtreeOpen, MoveLook,
       WalkDir, WalkEnd, ListFile, ListStat, ListEnd, PackDir, ArchiveAnswer, Fails
  <1> QED BY <1>1, <1>3, <1>4, <1>5, <1>6, <1>7, <1>8, <1>9, <1>10, <1>11, <1>12, <1>13, <1>14,
         BeginsNew DEF Steps, Dies

(* No handler changes a path that it was not asked to work on, unless      *)
(* others have put something there since it began.                         *)
THEOREM HandlersContained == Spec => Contained
  <1> DEFINE Inside(j) ==
        job'[j] # job[j] => \A x \in quiet[j] \ Footprint(j) : At(x)' = At(x)
  <1>1. ASSUME TypeOK, FileInv, Next, NEW j \in Job
        PROVE  Inside(j)
    <2>1. JobInv(j)
      BY <1>1 DEF FileInv
    <2> QED BY <1>1, <2>1, WhoseStep, StaysInside
  <1>2. UNCHANGED vars => \A j \in Job : Inside(j)
    BY DEF vars
  <1>3. TypeOK /\ FileInv /\ [Next]_vars => [\A j \in Job : Inside(j)]_vars
    BY <1>1, <1>2
  <1>4. Spec => [][\A j \in Job : Inside(j)]_vars
    <2> HIDE DEF Inside
    <2> QED BY <1>3, FileInvariance, PTL DEF Spec
  <1> QED BY <1>4 DEF Contained

-----------------------------------------------------------------------------
(* Who is accountable for what has changed.                                *)

(* What a job works on is settled when it begins, but for where a move     *)
(* goes to, which is settled when it has looked.                           *)
LEMMA KeepsItsPaths ==
  ASSUME TypeOK, NEW j \in Job, JobInv(j), Steps(j) \/ Dies(j)
  PROVE  /\ job'[j].op = job[j].op /\ job'[j].path = job[j].path /\ job'[j].to = job[j].to
         /\ job[j].op = "move" /\ job[j].at # "look" => job'[j].file = job[j].file
         /\ job'[j].at \in {"mkdir", "look"} => job[j].at = "mkdir"
  <1>1. /\ DOMAIN job = Job /\ IsJob(job[j])
        /\ job[j].at \in {"open", "write", "open_read", "read", "target", "member",
             "unlink_tmp", "unlink", "rmtree", "walk", "list", "stat", "pack", "size"}
             => job[j].op # "move"
    BY StageIs DEF TypeOK, JobInv
  <1>2. ASSUME NEW answer, Ends(j, answer)
        PROVE  /\ job'[j].op = job[j].op /\ job'[j].path = job[j].path /\ job'[j].to = job[j].to
               /\ job'[j].file = job[j].file /\ job'[j].at = "done"
    BY <1>1, <1>2 DEF Ends, IsJob
  <1>3. CASE \E answer : Ends(j, answer)
    BY <1>2, <1>3
  <1>4. CASE \E label \in Label \ {"mkdir", "look"} : Goto(j, label)
    BY <1>1, <1>4 DEF Goto, IsJob
  <1>5. CASE MkdirParent(j)
    <2>1. CASE \E label \in {"open", "target", "look"} : Goto(j, label)
      BY <1>1, <1>5, <2>1 DEF MkdirParent, Goto, IsJob
    <2>2. job[j].op \in {"store", "unpack", "unpack_artifact", "move", "archive"}
      BY <1>5, StageIs DEF MkdirParent, JobInv
    <2> QED BY <1>3, <1>5, <2>1, <2>2 DEF MkdirParent, AfterMkdir, Fails
  <1>6. CASE OpenWrite(j) \/ WriteBlock(j) \/ WriteEnd(j) \/ OpenRead(j) \/ ReadBlock(j)
    BY <1>1, <1>3, <1>4, <1>6 DEF OpenWrite, WriteBlock, WriteEnd, OpenRead, ReadBlock, Fails, IsJob,
       Label
  <1>7. CASE \/ ReadEnd(j) \/ MakeTarget(j) \/ MembersEnd(j) \/ UnlinkTmp(j) \/ Unlink(j)
             \/ MoveRename(j) \/ WalkEnd(j) \/ ListEnd(j) \/ ArchiveAnswer(j) \/ Dies(j)
             \/ PackVanished(j)
    BY <1>3, <1>4, <1>7 DEF ReadEnd, MakeTarget, MembersEnd, UnlinkTmp, Unlink, MoveRename, WalkEnd,
       ListEnd, ArchiveAnswer, Dies, PackVanished, Fails, Label
  <1>8. CASE ExtractMember(j)
    BY <1>1, <1>3, <1>8 DEF ExtractMember, Fails, IsJob
  <1>9. CASE RmtreeOpen(j) \/ RmtreeEntry(j) \/ RmtreeLeave(j)
    <2>1. CASE RmtreeOpen(j)
      BY <1>1, <1>3, <2>1 DEF RmtreeOpen, Fails, IsJob
    <2>2. CASE RmtreeEntry(j)
      <3> DEFINE n == Len(job[j].stack)
      <3>1. PICK e \in job[j].stack[n].left :
              \/ job' = [job EXCEPT ![j].stack[n].left = @ \ {e}]
              \/ \E s : job' = [[job EXCEPT ![j].stack[n].left = @ \ {e}] EXCEPT
                                ![j].stack = Append(@, s)]
              \/ Fails(j)
        BY <2>2 DEF RmtreeEntry
      <3> HIDE DEF n
      <3>2. CASE job' = [job EXCEPT ![j].stack[n].left = @ \ {e}]
        BY <1>1, <2>2, <3>2 DEF RmtreeEntry, IsJob
      <3>3. CASE \E s : job' = [[job EXCEPT ![j].stack[n].left = @ \ {e}] EXCEPT
                                 ![j].stack = Append(@, s)]
        BY <1>1, <2>2, <3>3 DEF RmtreeEntry, IsJob
      <3> QED BY <1>3, <3>1, <3>2, <3>3 DEF Fails
    <2>3. CASE RmtreeLeave(j)
      BY <1>1, <1>3, <2>3 DEF RmtreeLeave, Fails, IsJob
    <2> QED BY <1>9, <2>1, <2>2, <2>3
  <1>10. CASE MoveLook(j)
    BY <1>1, <1>3, <1>10 DEF MoveLook, Fails, IsJob
  <1>11. CASE WalkDir(j) \/ ListFile(j) \/ ListStat(j)
    <2>1. CASE WalkDir(j)
      BY <1>1, <2>1 DEF WalkDir, IsJob
    <2>2. CASE ListFile(j)
      BY <1>1, <2>2 DEF ListFile, IsJob
    <2>3. CASE ListStat(j)
      BY <1>1, <1>3, <2>3 DEF ListStat, Fails, IsJob
    <2> QED BY <1>11, <2>1, <2>2, <2>3
  <1>12. CASE PackDir(j) \/ PackFile(j) \/ PackEmptyDir(j) \/ PackEnd(j)
    <2>1. CASE PackDir(j)
      <3> DEFINE entries(x) == IF IsDir(x) THEN Children(x) ELSE {}
      <3>1. PICK x \in job[j].dirs :
              job' = [job EXCEPT ![j].dirs = (@ \ {x}) \cup {y \in entries(x) : IsDir(y)},
                                 ![j].found = {y \in entries(x) : IsFile(y)},
                                 ![j].empties = {y \in entries(x) : IsDir(y)}]
        BY <2>1 DEF PackDir
      <3> HIDE DEF entries
      <3> QED BY <1>1, <2>1, <3>1 DEF PackDir, IsJob
    <2>2. CASE PackFile(j)
      BY <1>1, <2>2 DEF PackFile, IsJob
    <2>3. CASE PackEmptyDir(j)
      BY <1>1, <2>3 DEF PackEmptyDir, IsJob
    <2>4. CASE PackEnd(j)
      BY <1>1, <2>4 DEF PackEnd, IsJob
    <2> QED BY <1>12, <2>1, <2>2, <2>3, <2>4
  <1> QED BY <1>5, <1>6, <1>7, <1>8, <1>9, <1>10, <1>11, <1>12 DEF Steps

(* So a footprint only grows. *)
LEMMA FootprintGrows ==
  ASSUME TypeOK, NEW j \in Job, JobInv(j), AskedOK(j), Begins(j) \/ Steps(j) \/ Dies(j)
  PROVE  Footprint(j) \subseteq Footprint(j)'
  <1>1. CASE Begins(j)
    <2>1. job[j].op = "none"
      BY <1>1, BeginsNew, StageIs DEF JobInv
    <2> QED BY <2>1 DEF Footprint, Unpacks
  <1>2. CASE Steps(j) \/ Dies(j)
    <2>1. /\ job'[j].op = job[j].op /\ job'[j].path = job[j].path /\ job'[j].to = job[j].to
          /\ job[j].op = "move" => job[j].file = Root \/ job'[j].file = job[j].file
      BY <1>2, KeepsItsPaths DEF AskedOK
    <2>2. CASE job[j].op = "move"
      BY <2>1, <2>2 DEF Footprint, Unpacks
    <2>3. CASE job[j].op # "move"
      BY <2>1, <2>3 DEF Footprint, Unpacks
    <2> QED BY <2>2, <2>3
  <1> QED BY <1>1, <1>2

LEMMA AskedKept ==
  ASSUME TypeOK, NEW j \in Job, JobInv(j), AskedOK(j), Begins(j) \/ Steps(j) \/ Dies(j)
  PROVE  AskedOK(j)'
  <1>1. CASE Begins(j)
    <2>1. DOMAIN job = Job /\ IsJob(job[j]) /\ job[j] = NewJob /\ job[j].file = Root
      BY <1>1, BeginsNew DEF TypeOK, JobInv, StageOK, NewJob
    <2>2. ASSUME NEW x \in Asked \cup {Root}, ListBegin(j, x) \/ DeleteBegin(j, x)
          PROVE  AskedOK(j)'
      <3>1. CASE ListBegin(j, x)
        BY <2>1, <2>2, <3>1 DEF ListBegin, AskedOK, StoreOp, IsJob
      <3>2. CASE DeleteBegin(j, x)
        BY <2>1, <2>2, <3>2 DEF DeleteBegin, AskedOK, StoreOp, IsJob
      <3> QED BY <2>2, <3>1, <3>2
    <2>3. ASSUME NEW x \in Asked, NEW op \in StoreOp, NEW payload, StoreBegin(j, op, x, payload)
          PROVE  AskedOK(j)'
      BY <2>1, <2>3 DEF StoreBegin, AskedOK, StoreOp, IsJob
    <2>4. ASSUME NEW x \in Asked, NEW op \in {"fetch", "extract"}, ReadBegin(j, op, x)
          PROVE  AskedOK(j)'
      BY <2>1, <2>4 DEF ReadBegin, AskedOK, StoreOp, IsJob
    <2>5. ASSUME NEW x \in Asked, NEW y \in Asked, MoveBegin(j, x, y) \/ ArchiveBegin(j, x, y)
          PROVE  AskedOK(j)'
      BY <2>1, <2>5 DEF MoveBegin, ArchiveBegin, AskedOK, StoreOp, IsJob
    <2> QED BY <1>1, <2>2, <2>3, <2>4, <2>5 DEF Begins
  <1>2. CASE Steps(j) \/ Dies(j)
    BY <1>2, KeepsItsPaths DEF AskedOK
  <1> QED BY <1>1, <1>2

(* A step of j changes what j may change, or what somebody is accountable  *)
(* for already.                                                            *)
LEMMA StepAccounted ==
  ASSUME TypeOK, FileInv, Accounted, NEW j \in Job, Begins(j) \/ Steps(j) \/ Dies(j),
         NEW x \in Path, At(x)' # At(x)
  PROVE  \E k \in Job : x \in Footprint(k)
  <1>1. CASE x \in quiet[j]
    BY <1>1, StaysInside DEF FileInv
  <1>2. CASE x \notin quiet[j]
    BY <1>2 DEF Accounted
  <1> QED BY <1>1, <1>2

(* The inductive invariant: who has been disturbed somewhere was disturbed *)
(* by a job that has that path in its footprint.                           *)
THEOREM ChangesAccounted == Spec => []Accounted
  <1>1. Init => Accounted
    BY DEF Init, Accounted, AskedOK, NewJob, StoreOp
  <1>2. ASSUME TypeOK, FileInv, Accounted, Next
        PROVE  Accounted'
    <2>1. PICK j \in Job : (Begins(j) \/ Steps(j) \/ Dies(j)) /\ Disturbs(j)
      BY <1>2 DEF Next
    <2>2. StepOK(j) /\ AskedOK(j)'
      BY <1>2, <2>1, OwnStep, AskedKept DEF FileInv, Accounted
    <2>3. ASSUME NEW k \in Job \ {j}
          PROVE  AskedOK(k)' /\ Footprint(k)' = Footprint(k)
      <3>1. job'[k] = job[k] /\ AskedOK(k)
        BY <1>2, <2>2 DEF StepOK, Accounted
      <3>2. AskedOK(k)'
        BY <3>1 DEF AskedOK
      <3>3. Footprint(k)' = Footprint(k)
        BY <3>1 DEF Footprint, Unpacks
      <3> QED BY <3>2, <3>3
    <2>4. \A k \in Job : Footprint(k) \subseteq Footprint(k)'
      BY <1>2, <2>1, <2>3, FootprintGrows DEF FileInv, Accounted
    <2>5. ASSUME NEW k \in Job, NEW x \in Path \ quiet'[k]
          PROVE  \E m \in Job : x \in Footprint(m)'
      <3>1. x \notin quiet[k] \/ At(x)' # At(x)
        BY <2>1 DEF Disturbs
      <3>2. \E m \in Job : x \in Footprint(m)
        BY <1>2, <2>1, <3>1, StepAccounted DEF Accounted
      <3> QED BY <2>4, <3>2
    <2> QED BY <2>2, <2>3, <2>5 DEF Accounted
  <1>3. UNCHANGED vars /\ Accounted => Accounted'
    BY DEF vars, Accounted, AskedOK, Footprint, Unpacks
  <1> QED BY <1>1, <1>2, <1>3, FileInvariance, PTL DEF Spec

(* Whatever jobs do to the files and directories that others have open,    *)
(* nothing changes that none of them was asked to work on.                 *)
THEOREM NothingElseChanges == Spec => OnlyFootprintsChange
  <1> DEFINE Explained == \A x \in Path : At(x)' # At(x) => \E j \in Job : x \in Footprint(j)
  <1>1. TypeOK /\ FileInv /\ Accounted /\ [Next]_vars => [Explained]_vars
    BY StepAccounted DEF Next
  <1>2. Spec => [][Explained]_vars
    <2> HIDE DEF Explained
    <2> QED BY <1>1, FileInvariance, ChangesAccounted, PTL DEF Spec
  <1> QED BY <1>2 DEF OnlyFootprintsChange

(* What callers name, and what handlers make of those names.               *)
Named ==
  Asked \cup {Sibling(x, TmpName) : x \in Asked} \cup {Sibling(x, StemName) : x \in Asked}

Apart(x) == \A y \in Named : ~Under(x, y) /\ ~Under(y, x)

LEMMA ApartOutside ==
  ASSUME TypeOK, FileInv, NEW j \in Job, AskedOK(j), job[j].op = "delete" => job[j].path # Root,
         NEW x \in Path, Apart(x)
  PROVE  x \notin Footprint(j)
  <1>1. /\ \A y \in Asked : /\ ~Under(x, y) /\ ~Under(y, x)
                           /\ x # Sibling(y, TmpName)
                           /\ ~Under(x, Sibling(y, StemName)) /\ ~Under(Sibling(y, StemName), x)
    <2>1. \A y \in Path : ~Under(x, y) => x # y
      BY PathIsSeq, UnderOrder
    <2>2. \A y \in Asked : Sibling(y, TmpName) \in Path
      BY FileStoreAssumption DEF FileStoreAssumption
    <2> QED BY <2>1, <2>2 DEF Apart, Named
  <1>2. CASE job[j].op \in {"store", "archive"}
    BY <1>1, <1>2 DEF Footprint, AskedOK, StoreOp
  <1>3. CASE job[j].op \in {"unpack", "unpack_artifact", "extract"}
    <2>1. ~Under(job[j].to, x) /\ ~Under(x, job[j].to)
      BY <1>1, <1>3 DEF AskedOK, StoreOp
    <2>2. job[j].op = "unpack_artifact" => x # Sibling(job[j].to, TmpName)
      BY <1>1 DEF AskedOK, StoreOp
    <2> QED BY <1>3, <2>1, <2>2 DEF Footprint, Unpacks
  <1>4. CASE job[j].op = "delete"
    BY <1>1, <1>4 DEF Footprint, Unpacks, AskedOK
  <1>5. CASE job[j].op = "move"
    BY <1>1, <1>5 DEF Footprint, Unpacks, AskedOK
  <1>6. CASE job[j].op \in {"none", "fetch", "list"}
    BY <1>6 DEF Footprint, Unpacks
  <1> QED BY <1>2, <1>3, <1>4, <1>5, <1>6 DEF TypeOK, IsJob, Op

(* What BackupStore and Channel assume of the file handlers: as long as no *)
(* job has deleted the whole tree, a path that is neither above nor below  *)
(* anything callers name, nor any temporary file or target of extraction   *)
(* that handlers make of those names, is left alone.                       *)
THEOREM OutsidersLeftAlone ==
  Spec => [][(\A j \in Job : job[j].op = "delete" => job[j].path # Root) =>
               \A x \in Path : Apart(x) => At(x)' = At(x)]_vars
  <1> DEFINE Alone ==
        (\A j \in Job : job[j].op = "delete" => job[j].path # Root) =>
          \A x \in Path : Apart(x) => At(x)' = At(x)
  <1>1. ASSUME TypeOK, FileInv, Accounted, Next PROVE Alone
    <2> SUFFICES ASSUME \A j \in Job : job[j].op = "delete" => job[j].path # Root,
                        NEW x \in Path, Apart(x), At(x)' # At(x)
                 PROVE  FALSE
      OBVIOUS
    <2>1. PICK j \in Job : x \in Footprint(j)
      BY <1>1, StepAccounted DEF Next
    <2> QED BY <1>1, <2>1, ApartOutside DEF Accounted
  <1>2. UNCHANGED vars => Alone
    BY DEF vars, files, At, Exists
  <1>3. TypeOK /\ FileInv /\ Accounted /\ [Next]_vars => [Alone]_vars
    BY <1>1, <1>2
  <1> HIDE DEF Alone
  <1>4. Spec => [][Alone]_vars
    BY <1>3, FileInvariance, ChangesAccounted, PTL DEF Spec
  <1> QED BY <1>4 DEF Alone
=============================================================================
