------------------------- MODULE FileMembers_proofs -------------------------
(***************************************************************************)
(* Proofs about archives in FileStore, for any paths, jobs, contents and   *)
(* initial trees: what storage.archive packs, directory by directory,      *)
(* while others work on the same tree, and what an extraction, member by   *)
(* member, makes of an archive.                                            *)
(***************************************************************************)
EXTENDS FileStore_proofs

-----------------------------------------------------------------------------
(* Names and members.                                                      *)

(* Below one path, different names lead to different paths. *)
LEMMA NamesApart ==
  ASSUME NEW x \in Path, NEW m, m \in Seq(Range(m)), NEW n, n \in Seq(Range(n)),
         x \o m = x \o n
  PROVE  m = n
  <1> DEFINE S == Name \cup Range(m) \cup Range(n)
  <1>1. x \in Seq(S) /\ m \in Seq(S) /\ n \in Seq(S)
    BY PathIsSeq, SeqMonotonic
  <1> HIDE DEF S
  <1>2. /\ Len(x) \in Nat /\ Len(m) \in Nat /\ Len(n) \in Nat
        /\ Len(x \o m) = Len(x) + Len(m) /\ Len(x \o n) = Len(x) + Len(n)
        /\ \A i \in 1..Len(x) + Len(m) : (x \o m)[i] = IF i <= Len(x) THEN x[i] ELSE m[i - Len(x)]
        /\ \A i \in 1..Len(x) + Len(n) : (x \o n)[i] = IF i <= Len(x) THEN x[i] ELSE n[i - Len(x)]
    BY <1>1, ConcatProperties, LenProperties
  <1>3. Len(m) = Len(n)
    BY <1>2
  <1>4. ASSUME NEW i \in 1..Len(m)
        PROVE  m[i] = n[i]
    <2>1. Len(x) + i \in 1..Len(x) + Len(m) /\ ~(Len(x) + i <= Len(x)) /\ Len(x) + i - Len(x) = i
      BY <1>2
    <2> QED BY <1>2, <1>3, <2>1
  <1> QED BY <1>1, <1>3, <1>4, SeqEqual

(* What an archive has before its end are members. *)
LEMMA MembersAre ==
  ASSUME NEW blocks, blocks \in Seq(Range(blocks)), IsArchive(blocks), NEW i \in 1..Len(blocks) - 1
  PROVE  /\ blocks[i].kind \in MemberKind
         /\ blocks[i].name \in Seq(Range(blocks[i].name))
         /\ blocks[i].blocks \in Seq(Range(blocks[i].blocks))
  BY DEF IsArchive, IsMember

-----------------------------------------------------------------------------
(* What has been extracted.                                                *)

(* A member stays where it was put as long as nothing below the target     *)
(* changes but the file that the next member is written to.                *)
LEMMA ExtractedStays ==
  ASSUME TypeOK, NEW j \in Job, job[j].got \in Seq(Range(job[j].got)), IsArchive(job[j].got),
         job[j].done <= Members(j),
         job'[j].to = job[j].to, job'[j].got = job[j].got,
         job'[j].done \in {job[j].done, job[j].done + 1}, quiet'[j] \subseteq quiet[j],
         \A x \in quiet'[j] : Exists(x) /\ Under(x, job[j].to) =>
           \/ At(x)' = At(x)
           \/ job[j].done < Members(j) /\ x = Dest(j, job[j].done + 1) /\ ~IsDir(x),
         NEW i \in 1..job[j].done, Extracted(j, i)
  PROVE  Extracted(j, i)'
  <1> DEFINE m == job[j].got[i]
             x == job[j].to \o m.name
             to == job[j].to
             n == job[j].done
             Latest(k) == \A l \in i + 1..k + 1 : l <= Members(j) => job[j].got[l].name # m.name
             There == IF m.kind = "dir" THEN IsDir(x) ELSE IsFile(x) /\ Blocks(x) = m.blocks
             Up == \A y \in quiet[j] : Under(y, to) /\ Below(x, y) => IsDir(y)
  <1>1. /\ ~Refused(m, to) /\ x \in Path
        /\ Latest(n) /\ x \in quiet[j] => There
        /\ Up
    BY DEF Extracted, Dest
  <1>2. n \in Nat /\ Len(job[j].got) \in Nat /\ Members(j) = Len(job[j].got) - 1 /\ i \in 1..Members(j)
    BY LenProperties DEF TypeOK, IsJob, Members
  <1>3. Under(x, to)
    BY <1>1 DEF Refused
  <1>4. \A y \in quiet'[j] : At(y)' = At(y) /\ Exists(y) =>
          /\ IsDir(y)' <=> IsDir(y)
          /\ IsFile(y)' <=> IsFile(y)
          /\ Blocks(y)' = Blocks(y)
    BY SameAt DEF IsDir, IsFile, Blocks
  <1>5. ASSUME Latest(job'[j].done), x \in quiet'[j]
        PROVE  There'
    <2>1. Latest(n)
      BY <1>2, <1>5
    <2>2. There
      BY <1>1, <1>5, <2>1
    <2>3. Exists(x)
      BY <2>2 DEF IsDir, IsFile
    <2>4. ~(n < Members(j) /\ x = Dest(j, n + 1))
      <3> SUFFICES ASSUME n < Members(j), x = Dest(j, n + 1) PROVE FALSE
        OBVIOUS
      <3>1. n + 1 \in i + 1..n + 1 /\ n + 1 <= Members(j) /\ n + 1 \in 1..Len(job[j].got) - 1
        BY <1>2
      <3>2. job[j].got[n + 1].name # m.name
        BY <2>1, <3>1
      <3>3. /\ m.name \in Seq(Range(m.name))
            /\ job[j].got[n + 1].name \in Seq(Range(job[j].got[n + 1].name))
        BY <1>2, <3>1, MembersAre
      <3>4. to \in Path
        BY DEF TypeOK, IsJob
      <3> QED BY <3>2, <3>3, <3>4, NamesApart DEF Dest
    <2>5. At(x)' = At(x)
      BY <1>3, <1>5, <2>3, <2>4
    <2> QED BY <1>4, <1>5, <2>2, <2>3, <2>5
  <1>6. ASSUME NEW y \in quiet'[j], Under(y, to), Below(x, y)
        PROVE  IsDir(y)'
    <2>1. IsDir(y)
      BY <1>1, <1>6
    <2> QED BY <1>4, <1>6, <2>1 DEF IsDir
  <1> QED BY <1>1, <1>5, <1>6 DEF Extracted, Dest, Members

(* What others do leaves it as it was. *)
LEMMA ExtractOthers ==
  ASSUME TypeOK, NEW j \in Job, NEW k \in Job \ {j}, StageOK(j), ExtractOK(j),
         job'[j] = job[j], Disturbs(k)
  PROVE  ExtractOK(j)'
  <1> SUFFICES ASSUME Unpacks(j)'
               PROVE  /\ ExtractStage(j)' /\ NextMember(j)' /\ TmpGone(j)'
                      /\ \A i \in 1..job'[j].done : Extracted(j, i)'
    BY DEF ExtractOK
  <1>1. /\ Unpacks(j) /\ ExtractStage(j) /\ NextMember(j) /\ TmpGone(j)
        /\ \A i \in 1..job[j].done : Extracted(j, i)
    BY DEF ExtractOK, Unpacks
  <1>2. quiet'[j] = {x \in quiet[j] : At(x)' = At(x)} /\ quiet[j] \subseteq Path
    BY <1>1, StageIs DEF Disturbs, TypeOK, Unpacks
  <1>3. ASSUME NEW x \in quiet'[j]
        PROVE  /\ x \in quiet[j] /\ At(x)' = At(x)
               /\ Exists(x)' <=> Exists(x)
               /\ IsDir(x)' <=> IsDir(x)
    <2>1. x \in quiet[j] /\ At(x)' = At(x)
      BY <1>2
    <2> QED BY <2>1, SameAt DEF IsDir
  <1>4. /\ Tmp(j)' = Tmp(j) /\ (Fetching(j)' <=> Fetching(j)) /\ Members(j)' = Members(j)
        /\ \A i : Dest(j, i)' = Dest(j, i)
        /\ \A blocks : Wrote(j, blocks) => Wrote(j, blocks)'
    BY <1>3 DEF Tmp, Fetching, Members, Dest, Wrote
  <1>5. ExtractStage(j)'
    BY <1>1, <1>4 DEF ExtractStage
  <1>6. NextMember(j)'
    BY <1>1, <1>3, <1>4 DEF NextMember
  <1>7. TmpGone(j)'
    BY <1>1, <1>3, <1>4 DEF TmpGone
  <1>8. ASSUME NEW i \in 1..job'[j].done
        PROVE  Extracted(j, i)'
    <2>1. /\ job[j].got \in Seq(Range(job[j].got)) /\ IsArchive(job[j].got)
          /\ job[j].done <= Members(j) /\ i \in 1..job[j].done
      BY <1>1 DEF ExtractStage, TypeOK, IsJob
    <2> QED BY <1>1, <1>2, <2>1, ExtractedStays
  <1> QED BY <1>5, <1>6, <1>7, <1>8

(* The same for what is there before a step of the job itself. *)
LEMMA ExtractedKept ==
  ASSUME TypeOK, NEW j \in Job, ExtractStage(j), Disturbs(j),
         \A i \in 1..job[j].done : Extracted(j, i),
         job'[j].to = job[j].to, job'[j].got = job[j].got,
         job'[j].done \in {job[j].done, job[j].done + 1},
         \A x \in quiet[j] : Exists(x) /\ Under(x, job[j].to) =>
           \/ At(x)' = At(x)
           \/ job[j].done < Members(j) /\ x = Dest(j, job[j].done + 1) /\ ~IsDir(x)
  PROVE  \A i \in 1..job[j].done : Extracted(j, i)'
  <1> SUFFICES ASSUME NEW i \in 1..job[j].done PROVE Extracted(j, i)'
    OBVIOUS
  <1>1. quiet'[j] = quiet[j]
    BY OwnPaths
  <1>2. /\ job[j].got \in Seq(Range(job[j].got)) /\ IsArchive(job[j].got)
        /\ job[j].done <= Members(j)
    BY DEF ExtractStage, TypeOK, IsJob
  <1> QED BY <1>1, <1>2, ExtractedStays

(* A job that ends without success leaves what it has extracted. *)
LEMMA ExtractFails ==
  ASSUME TypeOK, NEW j \in Job, ExtractOK(j), Disturbs(j), NEW answer \in {"none", "failed"},
         Ends(j, answer), UNCHANGED files \/ job[j].done = 0
  PROVE  ExtractOK(j)'
  <1>1. /\ job'[j].at = "done" /\ job'[j].answer = answer /\ job'[j].op = job[j].op
        /\ job'[j].to = job[j].to /\ job'[j].got = job[j].got /\ job'[j].done = job[j].done
    BY EndsIs
  <1> SUFFICES ASSUME Unpacks(j)
               PROVE  /\ ExtractStage(j)' /\ NextMember(j)' /\ TmpGone(j)'
                      /\ \A i \in 1..job'[j].done : Extracted(j, i)'
    BY <1>1 DEF ExtractOK, Unpacks
  <1>2. ExtractStage(j) /\ \A i \in 1..job[j].done : Extracted(j, i)
    BY DEF ExtractOK
  <1>3. ExtractStage(j)'
    BY <1>1, <1>2 DEF ExtractStage, Members, Fetching
  <1>4. NextMember(j)' /\ TmpGone(j)'
    BY <1>1 DEF NextMember, TmpGone
  <1>5. \A i \in 1..job'[j].done : Extracted(j, i)'
    <2>1. CASE UNCHANGED files
      <3>1. \A x : At(x)' = At(x)
        BY <2>1, UnchangedTree DEF files, TypeOK
      <3> QED BY <1>1, <1>2, <3>1, ExtractedKept DEF TypeOK, IsJob
    <2>2. CASE job[j].done = 0
      BY <1>1, <2>2
    <2> QED BY <2>1, <2>2
  <1> QED BY <1>3, <1>4, <1>5

(* As long as an archive is being fetched nothing is extracted. *)
LEMMA ExtractFetching ==
  ASSUME NEW j \in Job, ExtractStage(j), Fetching(j), Fetching(j)', Unpacks(j),
         job'[j].answer = "none", job'[j].done = job[j].done,
         job'[j].got \in Seq(Range(job'[j].got)),
         job'[j].at = "read" => job'[j].fd \in Inode
  PROVE  ExtractOK(j)'
  <1>1. job'[j].done = 0 /\ job'[j].at # "unlink_tmp"
    BY DEF ExtractStage, Fetching
  <1>2. ExtractStage(j)' /\ NextMember(j)' /\ TmpGone(j)'
    BY <1>1 DEF ExtractStage, NextMember, TmpGone
  <1> QED BY <1>1, <1>2 DEF ExtractOK

LEMMA ExtractMkdirParent ==
  ASSUME TypeOK, NEW j \in Job, JobInv(j), ExtractOK(j), Disturbs(j), MkdirParent(j), Unpacks(j)
  PROVE  ExtractOK(j)'
  <1>1. /\ job[j].at = "mkdir" /\ job[j].op \in {"unpack", "unpack_artifact"}
        /\ ExtractStage(j) /\ job[j].answer = "none"
    BY StageIs DEF MkdirParent, JobInv, ExtractOK, Unpacks, StageOK
  <1>2. Fetching(j) /\ job[j].done = 0
    BY <1>1 DEF ExtractStage, Fetching
  <1> DEFINE label == AfterMkdir[job[j].op]
  <1>3. CASE Goto(j, label)
    <2>1. label \in Label /\ (label = "target" \/ (label = "open" /\ job[j].op = "unpack_artifact"))
      BY <1>1 DEF AfterMkdir, Label
    <2> HIDE DEF label
    <2>2. /\ job'[j].at = label /\ job'[j].op = job[j].op /\ job'[j].answer = "none"
          /\ job'[j].to = job[j].to /\ job'[j].file = job[j].file
          /\ job'[j].got = job[j].got /\ job'[j].done = job[j].done
      BY <1>1, <1>3, <2>1, GotoIs
    <2>3. job[j].op = "unpack_artifact" => job[j].file = Tmp(j)
      BY <1>1 DEF JobInv, ArtifactOK
    <2>4. Fetching(j)'
      BY <2>1, <2>2, <2>3 DEF Fetching, Tmp
    <2> QED BY <1>1, <1>2, <2>1, <2>2, <2>4, ExtractFetching DEF ExtractStage
  <1>4. CASE Ends(j, "failed")
    BY <1>2, <1>4, ExtractFails
  <1> QED BY <1>3, <1>4 DEF MkdirParent, Fails

(* What is opened, to be written, below the target is the file of the next *)
(* member; it is empty then.                                               *)
LEMMA ExtractOpenWrite ==
  ASSUME TypeOK, NEW j \in Job, JobInv(j), ExtractOK(j), Disturbs(j), OpenWrite(j), Unpacks(j)
  PROVE  ExtractOK(j)'
  <1>1. PICK x \in Path : x = job[j].file
    BY DEF TypeOK, IsJob
  <1>2. /\ job[j].at = "open" /\ job[j].op \in {"unpack", "unpack_artifact", "extract"}
        /\ ExtractStage(j) /\ NextMember(j) /\ \A i \in 1..job[j].done : Extracted(j, i)
        /\ job[j].answer = "none" /\ IsJob(job[j]) /\ DOMAIN job = Job
    BY StageIs DEF OpenWrite, JobInv, ExtractOK, Unpacks, StageOK, TypeOK
  <1>3. CASE CanCreate(x)
    <2>1. /\ Create(x, Held)
          /\ job' = [job EXCEPT ![j].fd = tree'[x], ![j].pos = 0, ![j].at = "write",
                                ![j].dirs = {}]
      BY <1>1, <1>2, <1>3 DEF OpenWrite
    <2>2. /\ job'[j].at = "write" /\ job'[j].op = job[j].op /\ job'[j].answer = "none"
          /\ job'[j].to = job[j].to /\ job'[j].file = x /\ job'[j].fd = tree'[x]
          /\ job'[j].pos = 0 /\ job'[j].payload = job[j].payload
          /\ job'[j].got = job[j].got /\ job'[j].done = job[j].done
      BY <1>1, <1>2, <2>1 DEF IsJob
    <2>3. /\ At(x)' = <<tree'[x], File(<<>>)>>
          /\ \A y \in Path \ {x} : At(y)' = At(y)
      BY <1>3, <2>1, CreateKeeps DEF TypeOK
    <2>4. quiet'[j] = quiet[j] /\ quiet[j] \subseteq Path
      BY OwnPaths
    <2>5. /\ Fetching(j)' <=> Fetching(j)
          /\ Members(j)' = Members(j) /\ \A i : Dest(j, i)' = Dest(j, i)
      BY <1>1, <1>2, <2>2 DEF Fetching, Tmp, Members, Dest
    <2>6. CASE Fetching(j)
      BY <1>2, <2>2, <2>5, <2>6, ExtractFetching DEF ExtractStage
    <2>7. CASE ~Fetching(j)
      <3> DEFINE n == job[j].done + 1
      <3>1. /\ job[j].done < Members(j) /\ ~Refused(job[j].got[n], job[j].to)
            /\ job[j].got[n].kind # "dir" /\ x = Dest(j, n)
            /\ job[j].payload = job[j].got[n].blocks
            /\ \A y \in quiet[j] : Under(y, job[j].to) /\ Below(x, y) => IsDir(y)
            /\ IsArchive(job[j].got) /\ job[j].got \in Seq(Range(job[j].got))
        BY <1>1, <1>2, <2>7 DEF NextMember, ExtractStage
      <3>2. ~IsDir(x)
        BY <1>3 DEF CanCreate
      <3>3. \A i \in 1..job[j].done : Extracted(j, i)'
        BY <1>2, <2>2, <2>3, <2>4, <3>1, <3>2, ExtractedKept DEF TypeOK, IsJob
      <3>4. Len(job[j].payload) \in Nat
        <4>1. n \in 1..Len(job[j].got) - 1
          BY <1>2, <3>1, LenProperties DEF Members, IsJob
        <4> HIDE DEF n
        <4> QED BY <3>1, <4>1, MembersAre, LenProperties
      <3>5. Wrote(j, SubSeq(job[j].payload, 1, job[j].pos))'
        <4>1. SubSeq(job'[j].payload, 1, 0) = <<>>
          BY SubSeqEmpty
        <4> QED BY <2>2, <2>3, <4>1 DEF Wrote
      <3>6. ASSUME NEW y \in quiet[j], Under(y, job[j].to), Below(x, y)
            PROVE  IsDir(y)'
        <4>1. IsDir(y) /\ y # x
          BY <3>1, <3>2, <3>6
        <4>2. At(y)' = At(y)
          BY <2>3, <2>4, <4>1
        <4> QED BY <4>1, <4>2, SameAt DEF IsDir
      <3>7. NextMember(j)'
        BY <2>2, <2>4, <2>5, <3>1, <3>4, <3>5, <3>6 DEF NextMember
      <3>8. ExtractStage(j)' /\ TmpGone(j)'
        BY <1>2, <2>2, <2>5, <2>7, <3>1 DEF ExtractStage, TmpGone
      <3> QED BY <2>2, <3>3, <3>7, <3>8 DEF ExtractOK
    <2> QED BY <2>6, <2>7
  <1>4. CASE ~CanCreate(x)
    BY <1>1, <1>4, ExtractFails DEF OpenWrite, Fails
  <1> QED BY <1>3, <1>4

LEMMA ExtractWriteBlock ==
  ASSUME TypeOK, NEW j \in Job, JobInv(j), ExtractOK(j), Disturbs(j), WriteBlock(j), Unpacks(j)
  PROVE  ExtractOK(j)'
  <1>1. /\ job[j].at = "write" /\ job[j].pos < Len(job[j].payload)
        /\ ExtractStage(j) /\ NextMember(j) /\ \A i \in 1..job[j].done : Extracted(j, i)
        /\ job[j].answer = "none" /\ IsJob(job[j]) /\ DOMAIN job = Job /\ job[j].fd \in Inode
    BY DEF WriteBlock, JobInv, ExtractOK, StageOK, TypeOK, WriterOK
  <1>2. PICK x \in Path, fd \in Inode, payload \in {job[j].payload}, n \in Nat :
          x = job[j].file /\ fd = job[j].fd /\ payload = job[j].payload /\ n = job[j].pos
    BY <1>1 DEF IsJob
  <1>3. /\ node' = [node EXCEPT ![fd].blocks = WriteAt(@, n + 1, payload[n + 1], Hole)]
        /\ UNCHANGED tree /\ job' = [job EXCEPT ![j].pos = n + 1]
    BY <1>1, <1>2 DEF WriteBlock, Put
  <1>4. /\ job'[j].at = "write" /\ job'[j].op = job[j].op /\ job'[j].answer = "none"
        /\ job'[j].to = job[j].to /\ job'[j].file = x /\ job'[j].fd = fd
        /\ job'[j].pos = n + 1 /\ job'[j].payload = payload
        /\ job'[j].got = job[j].got /\ job'[j].done = job[j].done
    BY <1>1, <1>2, <1>3 DEF IsJob
  <1>5. quiet'[j] = quiet[j] /\ quiet[j] \subseteq Path
    BY OwnPaths
  <1>6. /\ Fetching(j)' <=> Fetching(j)
        /\ Members(j)' = Members(j) /\ \A i : Dest(j, i)' = Dest(j, i)
    BY <1>1, <1>2, <1>4 DEF Fetching, Tmp, Members, Dest
  <1>7. CASE Fetching(j)
    BY <1>1, <1>4, <1>6, <1>7, ExtractFetching DEF ExtractStage
  <1>8. CASE ~Fetching(j)
    <2> DEFINE k == job[j].done + 1
    <2>1. /\ job[j].done < Members(j) /\ ~Refused(job[j].got[k], job[j].to)
          /\ job[j].got[k].kind # "dir" /\ x = Dest(j, k) /\ payload = job[j].got[k].blocks
          /\ \A y \in quiet[j] : Under(y, job[j].to) /\ Below(x, y) => IsDir(y)
          /\ Wrote(j, SubSeq(payload, 1, n))
          /\ IsArchive(job[j].got) /\ job[j].got \in Seq(Range(job[j].got))
      BY <1>1, <1>2, <1>8 DEF NextMember, ExtractStage
    <2>2. \A y \in quiet[j] : y # x => At(y)' = At(y)
      <3>1. \A y \in quiet[j] : Exists(y) /\ tree[y] = fd => y = x
        BY <1>1, <1>2 DEF JobInv, WriterOK
      <3> QED BY <1>3, <1>5, <3>1, PutKeeps DEF TypeOK
    <2>3. x \in quiet[j] => ~IsDir(x)
      BY <1>2, <2>1 DEF Wrote, At, Exists, IsDir, File
    <2>4. \A i \in 1..job[j].done : Extracted(j, i)'
      BY <1>1, <1>4, <2>1, <2>2, <2>3, ExtractedKept DEF TypeOK, IsJob
    <2>5. payload \in Seq(Range(payload)) /\ Len(payload) \in Nat
      <3>1. k \in 1..Len(job[j].got) - 1
        BY <1>1, <2>1, LenProperties DEF Members, IsJob
      <3> HIDE DEF k
      <3> QED BY <2>1, <3>1, MembersAre, LenProperties
    <2>6. Wrote(j, SubSeq(payload, 1, n + 1))'
      <3>1. ASSUME x \in quiet[j]
            PROVE  At(x)' = <<fd, File(SubSeq(payload, 1, n + 1))>>
        <4>1. At(x) = <<fd, File(SubSeq(payload, 1, n))>> /\ n < Len(payload)
          BY <1>1, <1>2, <2>1, <3>1 DEF Wrote
        <4> QED BY <1>3, <2>5, <4>1, WroteMore DEF TypeOK
      <3> QED BY <1>4, <1>5, <3>1 DEF Wrote, At, Exists
    <2>7. ASSUME NEW y \in quiet[j], Under(y, job[j].to), Below(x, y)
          PROVE  IsDir(y)'
      <3>1. IsDir(y)
        BY <2>1, <2>7
      <3>2. At(y)' = At(y)
        BY <2>2, <2>3, <3>1
      <3> QED BY <3>1, <3>2, SameAt DEF IsDir
    <2>8. NextMember(j)'
      BY <1>1, <1>2, <1>4, <1>5, <1>6, <2>1, <2>5, <2>6, <2>7 DEF NextMember
    <2>9. ExtractStage(j)' /\ TmpGone(j)'
      BY <1>1, <1>4, <1>6, <1>8, <2>1 DEF ExtractStage, TmpGone
    <2> QED BY <1>4, <2>4, <2>8, <2>9 DEF ExtractOK
  <1> QED BY <1>7, <1>8

(* A member that is written is extracted. *)
LEMMA ExtractWriteEnd ==
  ASSUME TypeOK, NEW j \in Job, JobInv(j), ExtractOK(j), Disturbs(j), WriteEnd(j), Unpacks(j)
  PROVE  ExtractOK(j)'
  <1>1. /\ job[j].at = "write" /\ job[j].pos = Len(job[j].payload)
        /\ job[j].op \in {"unpack", "unpack_artifact", "extract"}
        /\ ExtractStage(j) /\ NextMember(j) /\ \A i \in 1..job[j].done : Extracted(j, i)
        /\ job[j].answer = "none" /\ IsJob(job[j]) /\ DOMAIN job = Job
        /\ UNCHANGED files /\ tree' = tree /\ node' = node
    BY DEF WriteEnd, JobInv, ExtractOK, StageOK, TypeOK, Unpacks, files
  <1>2. CASE Fetching(j)
    <2>1. Goto(j, "open_read") /\ "open_read" \in Label
      BY <1>1, <1>2 DEF WriteEnd, Fetching, Tmp, Label
    <2>2. /\ job'[j].at = "open_read" /\ job'[j].op = job[j].op /\ job'[j].answer = "none"
          /\ job'[j].got = job[j].got /\ job'[j].done = job[j].done
      BY <1>1, <2>1, GotoIs
    <2>3. Fetching(j)'
      BY <2>2 DEF Fetching
    <2> QED BY <1>1, <1>2, <2>2, <2>3, ExtractFetching DEF ExtractStage
  <1>3. CASE ~Fetching(j)
    <2>1. job' = [job EXCEPT ![j].at = "member", ![j].done = @ + 1]
      BY <1>1, <1>3 DEF WriteEnd, Fetching, Tmp
    <2>2. PICK k \in Nat : k = job[j].done + 1
      BY <1>1 DEF IsJob
    <2>3. PICK m : m = job[j].got[k]
      OBVIOUS
    <2>4. PICK x : x = Dest(j, k)
      OBVIOUS
    <2>5. /\ job'[j].at = "member" /\ job'[j].op = job[j].op /\ job'[j].answer = "none"
          /\ job'[j].to = job[j].to /\ job'[j].got = job[j].got /\ job'[j].done = k
      BY <1>1, <2>1, <2>2 DEF IsJob
    <2>6. /\ job[j].done < Members(j) /\ ~Refused(m, job[j].to) /\ m.kind # "dir"
          /\ job[j].file = x /\ job[j].payload = m.blocks
          /\ \A y \in quiet[j] : Under(y, job[j].to) /\ Below(x, y) => IsDir(y)
          /\ Wrote(j, SubSeq(m.blocks, 1, job[j].pos))
          /\ IsArchive(job[j].got) /\ job[j].got \in Seq(Range(job[j].got))
      BY <1>1, <1>3, <2>2, <2>3, <2>4 DEF NextMember, ExtractStage
    <2>7. k \in Nat /\ k \in 1..Len(job[j].got) - 1 /\ Members(j) = Len(job[j].got) - 1
      BY <1>1, <2>6, <2>2, LenProperties DEF Members, IsJob
    <2>8. \A y : At(y)' = At(y) /\ (IsDir(y)' <=> IsDir(y)) /\ (IsFile(y)' <=> IsFile(y))
                 /\ Blocks(y)' = Blocks(y)
      BY <1>1 DEF At, IsDir, IsFile, Exists, Blocks
    <2>9. \A i \in 1..job[j].done : Extracted(j, i)'
      <3>1. /\ job'[j].done \in {job[j].done, job[j].done + 1}
            /\ \A y \in quiet[j] : Exists(y) /\ Under(y, job[j].to) => At(y)' = At(y)
        BY <2>2, <2>5, <2>8
      <3> QED BY <1>1, <2>5, <3>1, ExtractedKept
    <2>10. x \in Path /\ quiet'[j] = quiet[j]
      BY <1>1, <2>6, OwnPaths DEF IsJob
    <2>11. ASSUME x \in quiet[j]
           PROVE  IsFile(x) /\ Blocks(x) = m.blocks
      <3>1. SubSeq(m.blocks, 1, job[j].pos) = m.blocks
        <4>1. m.blocks \in Seq(Range(m.blocks))
          BY <2>6, <2>7, <2>3, MembersAre
        <4> QED BY <1>1, <2>6, <4>1, SubSeqFull
      <3>2. At(x) = <<job[j].fd, File(m.blocks)>>
        BY <2>6, <2>11, <3>1 DEF Wrote
      <3> QED BY <3>2 DEF At, Exists, IsFile, Blocks, File
    <2>12. Extracted(j, k)'
      <3>1. /\ job'[j].got[k] = m /\ Dest(j, k)' = x
        BY <2>5, <2>3, <2>4 DEF Dest
      <3> QED BY <2>5, <2>6, <2>8, <2>10, <2>11, <3>1 DEF Extracted
    <2>13. ExtractStage(j)' /\ NextMember(j)' /\ TmpGone(j)'
      BY <2>5, <2>6, <2>7 DEF ExtractStage, NextMember, TmpGone, Fetching, Members
    <2>14. ASSUME NEW i \in 1..job'[j].done
           PROVE  Extracted(j, i)'
      <3>1. i = k \/ i \in 1..job[j].done
        BY <1>1, <2>2, <2>5 DEF IsJob
      <3> QED BY <2>9, <2>12, <3>1
    <2> QED BY <2>13, <2>14 DEF ExtractOK
  <1> QED BY <1>2, <1>3

LEMMA ExtractReads ==
  ASSUME TypeOK, NEW j \in Job, JobInv(j), ExtractOK(j), Disturbs(j),
         OpenRead(j) \/ ReadBlock(j) \/ ReadEnd(j), Unpacks(j)
  PROVE  ExtractOK(j)'
  <1>1. /\ job[j].at \in {"open_read", "read"} /\ job[j].op # "fetch"
        /\ ExtractStage(j) /\ job[j].answer = "none" /\ IsJob(job[j]) /\ DOMAIN job = Job
    BY DEF OpenRead, ReadBlock, ReadEnd, JobInv, ExtractOK, StageOK, TypeOK, Unpacks
  <1>2. Fetching(j) /\ job[j].got \in Seq(Range(job[j].got))
    BY <1>1 DEF Fetching, ExtractStage
  <1>3. CASE OpenRead(j) /\ IsFile(job[j].file)
    <2>1. job' = [job EXCEPT ![j].at = "read", ![j].fd = tree[job[j].file]]
      BY <1>3 DEF OpenRead
    <2>2. /\ job'[j].at = "read" /\ job'[j].answer = "none"
          /\ job'[j].got = job[j].got /\ job'[j].done = job[j].done
          /\ job'[j].fd = tree[job[j].file]
      BY <1>1, <2>1 DEF IsJob
    <2>3. tree[job[j].file] \in Inode
      BY <1>3 DEF IsFile, Exists, TypeOK, TreeOK, IsTree
    <2> QED BY <1>1, <1>2, <2>2, <2>3, ExtractFetching DEF Fetching
  <1>4. CASE ReadBlock(j)
    <2> DEFINE b == node[job[j].fd].blocks[Len(job[j].got) + 1]
    <2>1. job' = [job EXCEPT ![j].got = Append(@, b)]
      BY <1>4 DEF ReadBlock
    <2> HIDE DEF b
    <2>2. /\ job'[j].at = job[j].at /\ job'[j].answer = "none"
          /\ job'[j].got = Append(job[j].got, b) /\ job'[j].done = job[j].done
          /\ job'[j].fd = job[j].fd
      BY <1>1, <2>1 DEF IsJob
    <2>3. job'[j].got \in Seq(Range(job'[j].got))
      BY <1>2, <2>2, AppendedIsSeq
    <2>4. job'[j].fd \in Inode
      BY <1>1, <1>4, <2>2 DEF ReadBlock, ExtractStage
    <2> QED BY <1>1, <1>2, <2>2, <2>3, <2>4, ExtractFetching DEF Fetching
  <1>5. CASE ReadEnd(j)
    <2>1. Goto(j, "target") /\ "target" \in Label
      BY <1>1, <1>5 DEF ReadEnd, Label
    <2>2. /\ job'[j].at = "target" /\ job'[j].answer = "none"
          /\ job'[j].got = job[j].got /\ job'[j].done = job[j].done
      BY <1>1, <2>1, GotoIs
    <2> QED BY <1>1, <1>2, <2>2, ExtractFetching DEF Fetching
  <1>6. CASE OpenRead(j) /\ ~IsFile(job[j].file)
    BY <1>6, ExtractFails DEF OpenRead, Fails
  <1> QED BY <1>3, <1>4, <1>5, <1>6

(* An archive that is complete is extracted from its first member on. *)
LEMMA ExtractMakeTarget ==
  ASSUME TypeOK, NEW j \in Job, JobInv(j), ExtractOK(j), Disturbs(j), MakeTarget(j), Unpacks(j)
  PROVE  ExtractOK(j)'
  <1>1. /\ job[j].at = "target" /\ ExtractStage(j) /\ job[j].answer = "none"
    BY DEF MakeTarget, JobInv, ExtractOK, StageOK
  <1>2. job[j].done = 0 /\ job[j].got \in Seq(Range(job[j].got))
    BY <1>1 DEF ExtractStage, Fetching
  <1>3. CASE Ends(j, "failed")
    BY <1>2, <1>3, ExtractFails
  <1>4. CASE Goto(j, "member") /\ IsArchive(job[j].got)
    <2>1. /\ job'[j].at = "member" /\ job'[j].answer = "none"
          /\ job'[j].got = job[j].got /\ job'[j].done = 0
      BY <1>1, <1>2, <1>4, GotoIs DEF Label
    <2>2. Len(job[j].got) \in Nat \ {0}
      BY <1>2, <1>4, LenProperties, EmptySeq DEF IsArchive
    <2>3. ExtractStage(j)' /\ NextMember(j)' /\ TmpGone(j)'
      BY <1>2, <1>4, <2>1, <2>2 DEF ExtractStage, NextMember, TmpGone, Fetching, Members
    <2> QED BY <2>1, <2>3 DEF ExtractOK
  <1> QED BY <1>3, <1>4 DEF MakeTarget, Fails

(* With a directory there are those above it. *)
LEMMA MkdirAbove ==
  ASSUME TreeOK, NEW x \in Path, NEW held, CanMkdir(x), Mkdir(x, held),
         NEW y \in Path, Under(x, y)
  PROVE  IsDir(y)'
  <1>1. TreeOK' /\ IsDir(x)'
    BY MkdirKeeps
  <1>2. CASE Below(x, y)
    <2>1. y \in Above(x)
      BY <1>2, AboveIs
    <2> QED BY <1>1, <2>1 DEF TreeOK, IsTree, IsDir, Exists
  <1>3. CASE x = y
    BY <1>1, <1>3
  <1> QED BY <1>2, <1>3, PathIsSeq, UnderOrder

(* A directory is extracted at once, a file is opened where it belongs. *)
LEMMA ExtractMemberNext ==
  ASSUME TypeOK, NEW j \in Job, JobInv(j), ExtractOK(j), Disturbs(j), ExtractMember(j), Unpacks(j)
  PROVE  ExtractOK(j)'
  <1>1. /\ job[j].at = "member" /\ job[j].done < Members(j)
        /\ ExtractStage(j) /\ \A i \in 1..job[j].done : Extracted(j, i)
        /\ job[j].answer = "none" /\ IsJob(job[j]) /\ DOMAIN job = Job
    BY DEF ExtractMember, JobInv, ExtractOK, StageOK, TypeOK
  <1>2. PICK k \in Nat : k = job[j].done + 1
    BY <1>1 DEF IsJob
  <1>3. PICK m : m = job[j].got[k]
    OBVIOUS
  <1>4. PICK x : x = job[j].to \o m.name
    OBVIOUS
  <1>5. PICK d : d = IF m.kind = "dir" THEN x ELSE Front(x)
    OBVIOUS
  <1>6. /\ IsArchive(job[j].got) /\ job[j].got \in Seq(Range(job[j].got))
        /\ k \in 1..Len(job[j].got) - 1 /\ Members(j) = Len(job[j].got) - 1
    BY <1>1, <1>2, LenProperties DEF ExtractStage, Fetching, Members, IsJob
  <1>7. CASE Refused(m, job[j].to) \/ ~CanMkdir(d)
    <2>1. Fails(j)
      BY <1>2, <1>3, <1>4, <1>5, <1>7 DEF ExtractMember
    <2> QED BY <2>1, ExtractFails DEF Fails
  <1>8. CASE ~Refused(m, job[j].to) /\ CanMkdir(d)
    <2>1. /\ x \in Path /\ Mkdir(d, Held)
          /\ job' = IF m.kind = "dir"
                      THEN [job EXCEPT ![j].done = @ + 1]
                      ELSE [job EXCEPT ![j].at = "open", ![j].file = x, ![j].payload = m.blocks]
      BY <1>2, <1>3, <1>4, <1>5, <1>8 DEF ExtractMember
    <2>2. d \in Path /\ quiet'[j] = quiet[j] /\ quiet[j] \subseteq Path
      BY <1>5, <2>1, FrontOrRoot, OwnPaths
    <2>3. \A y \in quiet[j] : Exists(y) => At(y)' = At(y)
      <3>1. \A y \in Path : Exists(y) => At(y) # <<>>
        BY DEF At
      <3> QED BY <1>8, <2>1, <2>2, <3>1, MkdirKeeps DEF TypeOK
    <2>4. ASSUME NEW y \in quiet[j], Below(x, y)
          PROVE  IsDir(y)'
      <3>1. x \in Seq(Name) /\ y \in Seq(Name) /\ y \in Path
        BY <2>1, <2>2, PathIsSeq
      <3>2. x # Root
        BY <2>4, <3>1, UnderOrder
      <3>3. Under(x, y)
        BY <2>4, <3>1, UnderOrder
      <3>4. Under(d, y)
        BY <1>5, <2>1, <2>4, <3>1, <3>2, <3>3, FrontIs
      <3> QED BY <1>8, <2>1, <2>2, <3>1, <3>4, MkdirAbove DEF TypeOK
    <2>5. CASE m.kind = "dir"
      <3>1. /\ job'[j].at = "member" /\ job'[j].answer = "none" /\ job'[j].to = job[j].to
            /\ job'[j].got = job[j].got /\ job'[j].done = k
        BY <1>1, <1>2, <2>1, <2>5 DEF IsJob
      <3>2. \A i \in 1..job[j].done : Extracted(j, i)'
        <4>1. job'[j].done \in {job[j].done, job[j].done + 1}
          BY <1>2, <3>1
        <4> QED BY <1>1, <2>3, <3>1, <4>1, ExtractedKept
      <3>3. Extracted(j, k)'
        <4>1. IsDir(x)'
          BY <1>5, <1>8, <2>1, <2>2, <2>5, MkdirKeeps DEF TypeOK
        <4>2. job'[j].got[k] = m /\ Dest(j, k)' = x
          BY <1>3, <1>4, <3>1 DEF Dest
        <4> QED BY <1>8, <2>1, <2>2, <2>4, <2>5, <3>1, <4>1, <4>2 DEF Extracted
      <3>4. ASSUME NEW i \in 1..job'[j].done
            PROVE  Extracted(j, i)'
        <4>1. i = k \/ i \in 1..job[j].done
          BY <1>1, <1>2, <3>1 DEF IsJob
        <4> QED BY <3>2, <3>3, <4>1
      <3>5. ExtractStage(j)' /\ NextMember(j)' /\ TmpGone(j)'
        BY <1>6, <3>1 DEF ExtractStage, NextMember, TmpGone, Fetching, Members
      <3> QED BY <3>4, <3>5 DEF ExtractOK
    <2>6. CASE m.kind # "dir"
      <3> DEFINE blocks == m.blocks
      <3>1. job' = [job EXCEPT ![j].at = "open", ![j].file = x, ![j].payload = blocks]
        BY <2>1, <2>6
      <3> HIDE DEF blocks
      <3>2. /\ job'[j].at = "open" /\ job'[j].answer = "none" /\ job'[j].to = job[j].to
            /\ job'[j].got = job[j].got /\ job'[j].done = job[j].done
            /\ job'[j].file = x /\ job'[j].payload = m.blocks /\ job'[j].op = job[j].op
        BY <1>1, <3>1 DEF IsJob, blocks
      <3>3. \A i \in 1..job[j].done : Extracted(j, i)'
        BY <1>1, <2>3, <3>2, ExtractedKept
      <3>4. NextMember(j)'
        <4>1. /\ job'[j].got[job'[j].done + 1] = m /\ Dest(j, job[j].done + 1)' = x
              /\ Members(j)' = Members(j)
          BY <1>2, <1>3, <1>4, <3>2 DEF Dest, Members
        <4> QED BY <1>1, <1>8, <2>2, <2>4, <2>6, <3>2, <4>1 DEF NextMember
      <3>5. ExtractStage(j)' /\ TmpGone(j)'
        <4>1. ~Fetching(j)'
          <5>1. Under(x, job[j].to)
            BY <1>4, <1>8 DEF Refused
          <5>2. job[j].op = "unpack_artifact" => job[j].to \in Asked
            BY DEF JobInv, StageOK, StoreOp
          <5>3. job[j].op = "unpack_artifact" => x # Tmp(j)
            BY <2>1, <5>1, <5>2, TmpAside DEF Tmp
          <5> QED BY <3>2, <5>3 DEF Fetching, Tmp
        <4> QED BY <1>1, <1>2, <1>6, <3>2, <4>1 DEF ExtractStage, TmpGone, Members
      <3> QED BY <3>2, <3>3, <3>4, <3>5 DEF ExtractOK
    <2> QED BY <2>5, <2>6
  <1> QED BY <1>7, <1>8

(* The end: all members are extracted, and a temporary file is removed,    *)
(* which is beside what was extracted.                                     *)
LEMMA ExtractMembersEnd ==
  ASSUME TypeOK, NEW j \in Job, JobInv(j), ExtractOK(j), Disturbs(j), MembersEnd(j), Unpacks(j)
  PROVE  ExtractOK(j)'
  <1>1. /\ job[j].at = "member" /\ job[j].done = Members(j) /\ tree' = tree /\ node' = node
        /\ ExtractStage(j) /\ \A i \in 1..job[j].done : Extracted(j, i)
        /\ job[j].answer = "none"
        /\ (Goto(j, "unlink_tmp") /\ job[j].op = "unpack_artifact")
             \/ (Ends(j, "ok") /\ job[j].op # "unpack_artifact")
    BY DEF MembersEnd, JobInv, ExtractOK, StageOK, files
  <1>2. /\ job'[j].at \in {"unlink_tmp", "done"} /\ job'[j].to = job[j].to
        /\ job'[j].got = job[j].got /\ job'[j].done = job[j].done /\ job'[j].op = job[j].op
        /\ job'[j].op = "unpack_artifact" => job'[j].answer = "none"
    BY <1>1, GotoIs, EndsIs DEF Label
  <1>3. \A i \in 1..job'[j].done : Extracted(j, i)'
    BY <1>1, <1>2, ExtractedKept DEF At, Exists
  <1>4. ExtractStage(j)' /\ NextMember(j)' /\ TmpGone(j)'
    BY <1>1, <1>2 DEF ExtractStage, NextMember, TmpGone, Fetching, Members, TypeOK, IsJob
  <1> QED BY <1>3, <1>4 DEF ExtractOK

LEMMA ExtractUnlinkTmp ==
  ASSUME TypeOK, NEW j \in Job, JobInv(j), ExtractOK(j), Disturbs(j), UnlinkTmp(j), Unpacks(j)
  PROVE  ExtractOK(j)'
  <1>1. /\ job[j].at = "unlink_tmp" /\ job[j].op = "unpack_artifact" /\ job[j].answer = "none"
        /\ ExtractStage(j) /\ \A i \in 1..job[j].done : Extracted(j, i)
        /\ job[j].to \in Asked /\ IsJob(job[j])
    BY StageIs DEF UnlinkTmp, JobInv, ExtractOK, StageOK, StoreOp, TypeOK
  <1>2. PICK x \in Path : x = Tmp(j)
    BY <1>1, FileStoreAssumption DEF Tmp, FileStoreAssumption
  <1>3. CASE IsDir(x)
    BY <1>2, <1>3, ExtractFails DEF UnlinkTmp, Fails, Tmp
  <1>4. CASE ~IsDir(x)
    <2>1. Unlinked(x) /\ Ends(j, "ok")
      BY <1>2, <1>4 DEF UnlinkTmp, Tmp
    <2>2. /\ job'[j].at = "done" /\ job'[j].answer = "ok" /\ job'[j].to = job[j].to
          /\ job'[j].got = job[j].got /\ job'[j].done = job[j].done
      BY <2>1, EndsIs
    <2>3. ~Exists(x)' /\ \A y \in Path \ {x} : At(y)' = At(y)
      BY <1>4, <2>1, UnlinkedKeeps DEF TypeOK
    <2>4. \A y \in Path : Under(y, job[j].to) => y # x
      BY <1>1, <1>2, TmpAside DEF Tmp
    <2>5. \A i \in 1..job'[j].done : Extracted(j, i)'
      BY <1>1, <2>2, <2>3, <2>4, ExtractedKept, OwnPaths
    <2>6. Tmp(j)' = x
      BY <1>2, <2>2 DEF Tmp
    <2>7. ExtractStage(j)' /\ NextMember(j)' /\ TmpGone(j)'
      BY <1>1, <2>2, <2>3, <2>6 DEF ExtractStage, NextMember, TmpGone, Fetching, Members
    <2> QED BY <2>5, <2>7 DEF ExtractOK
  <1> QED BY <1>3, <1>4

(* The beginning: nothing is extracted yet. *)
LEMMA ExtractBegins ==
  ASSUME TypeOK, NEW j \in Job, JobInv(j), Disturbs(j), Begins(j)
  PROVE  ExtractOK(j)'
  <1>1. job[j] = NewJob /\ IsJob(job[j]) /\ DOMAIN job = Job
    BY BeginsNew DEF JobInv, StageOK, TypeOK
  <1> SUFFICES ASSUME Unpacks(j)' PROVE ExtractOK(j)'
    BY DEF ExtractOK
  <1>2. ASSUME NEW op \in StoreOp, NEW x \in Asked, NEW payload \in Payloads[j][op],
               StoreBegin(j, op, x, payload)
        PROVE  ExtractOK(j)'
    <2> DEFINE file == IF op = "unpack_artifact" THEN Sibling(x, TmpName) ELSE x
               got == IF op = "unpack" THEN payload ELSE <<>>
               new == IF op = "unpack" THEN <<>> ELSE payload
    <2>1. job' = [job EXCEPT ![j].at = "mkdir", ![j].op = op, ![j].to = x, ![j].file = file,
                             ![j].payload = new, ![j].got = got]
      BY <1>2 DEF StoreBegin
    <2>2. got \in Seq(Range(got))
      <3>1. payload \in Seq(Range(payload))
        BY <1>2, FileStoreAssumption DEF FileStoreAssumption
      <3>2. <<>> \in Seq(Range(<<>>))
        BY EmptySeq
      <3> QED BY <3>1, <3>2
    <2> HIDE DEF file, got, new
    <2>3. /\ job'[j].at = "mkdir" /\ job'[j].answer = "none" /\ job'[j].got = got
          /\ job'[j].done = 0
      BY <1>1, <2>1 DEF NewJob, IsJob
    <2>4. ExtractStage(j)' /\ NextMember(j)' /\ TmpGone(j)'
      BY <2>2, <2>3 DEF ExtractStage, NextMember, TmpGone, Fetching
    <2> QED BY <2>3, <2>4 DEF ExtractOK
  <1>3. ASSUME NEW op \in {"fetch", "extract"}, NEW x \in Asked, ReadBegin(j, op, x)
        PROVE  ExtractOK(j)'
    <2> DEFINE to == IF op = "extract" THEN Sibling(x, StemName) ELSE Root
               label == IF IsFile(x) THEN "open_read" ELSE "done"
               answer == IF IsFile(x) THEN "none" ELSE "failed"
    <2>1. job' = [job EXCEPT ![j].op = op, ![j].path = x, ![j].file = x, ![j].to = to,
                             ![j].at = label, ![j].answer = answer]
      BY <1>3 DEF ReadBegin
    <2>2. /\ label \in {"open_read", "done"} /\ answer \in {"none", "failed"}
      OBVIOUS
    <2> HIDE DEF to, label, answer
    <2>3. /\ job'[j].at = label /\ job'[j].answer = answer /\ job'[j].got = <<>>
          /\ job'[j].done = 0
      BY <1>1, <2>1 DEF NewJob, IsJob
    <2>4. <<>> \in Seq(Range(<<>>))
      BY EmptySeq
    <2>5. ExtractStage(j)' /\ NextMember(j)' /\ TmpGone(j)'
      BY <2>2, <2>3, <2>4 DEF ExtractStage, NextMember, TmpGone, Fetching
    <2> QED BY <2>3, <2>5 DEF ExtractOK
  <1>4. ASSUME NEW x, ListBegin(j, x)
        PROVE  job'[j].op = "list"
    <2> DEFINE dirs == {y \in {x} : IsDir(y)}
               label == IF Exists(x) THEN "walk" ELSE "done"
               answer == IF Exists(x) THEN "none" ELSE "ok"
    <2>1. job' = [job EXCEPT ![j].op = "list", ![j].path = x, ![j].dirs = dirs,
                             ![j].at = label, ![j].answer = answer]
      BY <1>4 DEF ListBegin
    <2> HIDE DEF dirs, label, answer
    <2> QED BY <1>1, <2>1 DEF IsJob
  <1>5. ASSUME NEW x, DeleteBegin(j, x)
        PROVE  job'[j].op = "delete"
    BY <1>1, <1>5 DEF DeleteBegin, IsJob
  <1>6. \A x, y : MoveBegin(j, x, y) => job'[j].op = "move"
    BY <1>1 DEF MoveBegin, IsJob
  <1>7. \A x, y : ArchiveBegin(j, x, y) => job'[j].op = "archive"
    BY <1>1 DEF ArchiveBegin, IsJob
  <1> QED BY <1>2, <1>3, <1>4, <1>5, <1>6, <1>7 DEF Begins, Unpacks

(* A job stays with its operation. *)
LEMMA OpStays ==
  ASSUME TypeOK, NEW j \in Job, Steps(j) \/ Dies(j)
  PROVE  job'[j].op = job[j].op
  <1>1. IsJob(job[j]) /\ DOMAIN job = Job
    BY DEF TypeOK
  <1>2. \A label : Goto(j, label) => job'[j].op = job[j].op
    BY <1>1 DEF Goto, IsJob
  <1>3. \A answer : Ends(j, answer) => job'[j].op = job[j].op
    BY <1>1 DEF Ends, IsJob
  <1>4. CASE MkdirParent(j) \/ OpenWrite(j)
    <2> DEFINE label == IF job[j].op = "archive" THEN "pack" ELSE "write"
               dirs == IF job[j].op = "archive" THEN {job[j].path} ELSE {}
    <2>1. \/ job' = [job EXCEPT ![j].fd = tree'[job[j].file], ![j].pos = 0, ![j].at = label,
                                ![j].dirs = dirs]
          \/ Ends(j, "failed") \/ Goto(j, AfterMkdir[job[j].op])
      BY <1>4 DEF MkdirParent, OpenWrite, Fails
    <2> HIDE DEF label, dirs
    <2> QED BY <1>1, <1>2, <1>3, <2>1 DEF IsJob
  <1>5. CASE WriteBlock(j) \/ WriteEnd(j) \/ MembersEnd(j) \/ UnlinkTmp(j) \/ Dies(j)
    BY <1>1, <1>2, <1>3, <1>5 DEF WriteBlock, WriteEnd, MembersEnd, UnlinkTmp, Dies, Fails, IsJob
  <1>6. CASE OpenRead(j) \/ ReadBlock(j) \/ ReadEnd(j)
    BY <1>1, <1>2, <1>3, <1>6 DEF OpenRead, ReadBlock, ReadEnd, Fails, IsJob
  <1>7. CASE MakeTarget(j) \/ ExtractMember(j)
    <2>1. ASSUME NEW file, NEW payload, \/ job' = [job EXCEPT ![j].done = @ + 1]
                                        \/ job' = [job EXCEPT ![j].at = "open", ![j].file = file,
                                                              ![j].payload = payload]
          PROVE  job'[j].op = job[j].op
      BY <1>1, <2>1 DEF IsJob
    <2> QED BY <1>2, <1>3, <1>7, <2>1 DEF MakeTarget, ExtractMember, Fails
  <1>8. CASE Unlink(j) \/ RmtreeOpen(j) \/ RmtreeLeave(j)
    <2>1. ASSUME NEW stack, job' = [job EXCEPT ![j].stack = stack]
          PROVE  job'[j].op = job[j].op
      BY <1>1, <2>1 DEF IsJob
    <2> QED BY <1>3, <1>8, <2>1 DEF Unlink, RmtreeOpen, RmtreeLeave, Fails
  <1>9. CASE RmtreeEntry(j)
    <2>1. PICK e : LET n == Len(job[j].stack)
                       x == Append(PathOf(job[j].stack[n].dir), e.name)
                       rest == [job EXCEPT ![j].stack[n].left = @ \ {e}]
                   IN  \/ job' = rest
                       \/ job' = [rest EXCEPT ![j].stack = Append(@, Opened(x))]
                       \/ Ends(j, "failed")
      BY <1>9 DEF RmtreeEntry, Fails
    <2> DEFINE n == Len(job[j].stack)
               opened == Opened(Append(PathOf(job[j].stack[n].dir), e.name))
    <2> HIDE DEF n, opened
    <2>2. \/ job' = [job EXCEPT ![j].stack[n].left = @ \ {e}]
          \/ job' = [[job EXCEPT ![j].stack[n].left = @ \ {e}]
                       EXCEPT ![j].stack = Append(@, opened)]
          \/ Ends(j, "failed")
      BY <2>1 DEF n, opened
    <2> QED BY <1>1, <1>3, <2>2 DEF IsJob
  <1>10. CASE MoveLook(j) \/ MoveRename(j) \/ WalkEnd(j) \/ ListEnd(j)
    BY <1>1, <1>2, <1>3, <1>10 DEF MoveLook, MoveRename, WalkEnd, ListEnd, Fails, IsJob
  <1>11. CASE WalkDir(j) \/ ListFile(j) \/ ListStat(j)
    <2>1. ASSUME NEW dirs, NEW found,
                 job' = [job EXCEPT ![j].dirs = dirs, ![j].found = found]
          PROVE  job'[j].op = job[j].op
      BY <1>1, <2>1 DEF IsJob
    <2> QED BY <1>1, <1>3, <1>11, <2>1 DEF WalkDir, ListFile, ListStat, Fails, IsJob
  <1>12. CASE PackDir(j)
    <2>1. PICK x \in job[j].dirs :
            LET entries == IF IsDir(x) THEN Children(x) ELSE {}
            IN  job' = [job EXCEPT ![j].dirs = (@ \ {x}) \cup {y \in entries : IsDir(y)},
                                   ![j].found = {y \in entries : IsFile(y)},
                                   ![j].empties = {y \in entries : IsDir(y)}]
      BY <1>12 DEF PackDir
    <2> DEFINE entries == IF IsDir(x) THEN Children(x) ELSE {}
               folders == {y \in entries : IsDir(y)}
               others == {y \in entries : IsFile(y)}
    <2>2. job' = [job EXCEPT ![j].dirs = (@ \ {x}) \cup folders, ![j].found = others,
                             ![j].empties = folders]
      BY <2>1
    <2> HIDE DEF folders, others
    <2> QED BY <1>1, <2>2 DEF IsJob
  <1>13. CASE PackFile(j)
    <2>1. PICK x \in job[j].found :
            \E m : job' = [job EXCEPT ![j].found = @ \ {x}, ![j].pos = @ + 1,
                                      ![j].payload = Append(@, m)]
      BY <1>13 DEF PackFile
    <2> QED BY <1>1, <2>1 DEF IsJob
  <1>14. CASE PackEmptyDir(j)
    <2>1. PICK x \in job[j].empties :
            \/ \E m : job' = [job EXCEPT ![j].empties = @ \ {x}, ![j].pos = @ + 1,
                                         ![j].payload = Append(@, m)]
            \/ job' = [job EXCEPT ![j].empties = @ \ {x}]
      BY <1>14 DEF PackEmptyDir
    <2> QED BY <1>1, <2>1 DEF IsJob
  <1>15. CASE PackVanished(j) \/ PackEnd(j) \/ ArchiveAnswer(j)
    BY <1>1, <1>3, <1>15 DEF PackVanished, PackEnd, ArchiveAnswer, Fails, IsJob
  <1> QED BY <1>4, <1>5, <1>6, <1>7, <1>8, <1>9, <1>10, <1>11, <1>12, <1>13, <1>14, <1>15
        DEF Steps

LEMMA ExtractOwn ==
  ASSUME TypeOK, NEW j \in Job, JobInv(j), ExtractOK(j), Disturbs(j),
         Begins(j) \/ Steps(j) \/ Dies(j)
  PROVE  ExtractOK(j)'
  <1>1. CASE Begins(j)
    BY <1>1, ExtractBegins
  <1>2. CASE (Steps(j) \/ Dies(j)) /\ ~Unpacks(j)
    BY <1>2, OpStays DEF ExtractOK, Unpacks
  <1>3. CASE Steps(j) /\ Unpacks(j)
    <2>1. CASE MkdirParent(j) \/ OpenWrite(j) \/ WriteBlock(j) \/ WriteEnd(j)
      BY <1>3, <2>1, ExtractMkdirParent, ExtractOpenWrite, ExtractWriteBlock, ExtractWriteEnd
    <2>2. CASE OpenRead(j) \/ ReadBlock(j) \/ ReadEnd(j)
      BY <1>3, <2>2, ExtractReads
    <2>3. CASE MakeTarget(j) \/ ExtractMember(j) \/ MembersEnd(j) \/ UnlinkTmp(j)
      BY <1>3, <2>3, ExtractMakeTarget, ExtractMemberNext, ExtractMembersEnd, ExtractUnlinkTmp
    <2>4. job[j].at \notin {"unlink", "rmtree", "look", "rename", "walk", "list", "stat", "pack", "size"}
      BY <1>3, StageIs DEF JobInv, Unpacks
    <2> QED BY <1>3, <2>1, <2>2, <2>3, <2>4 DEF Steps, Unlink, RmtreeOpen, RmtreeEntry, RmtreeLeave,
              MoveLook, MoveRename, WalkDir, WalkEnd, ListFile, ListStat, ListEnd,
              PackDir, PackFile, PackVanished, PackEmptyDir, PackEnd, ArchiveAnswer
  <1>4. CASE Dies(j)
    BY <1>4, ExtractFails DEF Dies
  <1> QED BY <1>1, <1>2, <1>3, <1>4
-----------------------------------------------------------------------------
(* The names of members.                                                   *)

(* A member is named by the last name of the source and what comes after   *)
(* the source in its path. *)
LEMMA ArcNameIs ==
  ASSUME NEW p \in Path, NEW x \in Path, Under(x, p), NEW v, NEW name,
         name = <<v>> \o SubSeq(x, Len(p) + 1, Len(x))
  PROVE  /\ name \in Seq(Range(name)) /\ name[1] = v
         /\ Len(name) = Len(x) - Len(p) + 1
         /\ \A i \in 1..Len(x) - Len(p) : name[i + 1] = x[Len(p) + i]
  <1>1. PICK m \in Nat, n \in Nat : m = Len(p) + 1 /\ n = Len(x)
    BY PathIsSeq
  <1>2. x \in Seq(Name) /\ p \in Seq(Name) /\ DOMAIN x = 1..n /\ Len(p) \in Nat /\ m <= n + 1
    BY <1>1, PathIsSeq, UnderIs
  <1>3. PICK rest : rest = SubSeq(x, m, n)
    OBVIOUS
  <1>4. /\ rest \in Seq(Name)
        /\ Len(rest) = IF m <= n THEN n - m + 1 ELSE 0
        /\ \A i \in 1..n - m + 1 : rest[i] = x[m + i - 1]
    <2>1. \A i \in m..n : x[i] \in Name
      BY <1>1, <1>2, ElementOfSeq
    <2> QED BY <1>3, <2>1, SubSeqProperties
  <1>5. Len(rest) = n - m + 1 /\ Len(rest) \in Nat
    BY <1>1, <1>2, <1>4
  <1> DEFINE S == Name \cup {v}
  <1>6. rest \in Seq(S) /\ <<v>> \in Seq(S) /\ Len(<<v>>) = 1
    BY <1>4, SeqMonotonic
  <1> HIDE DEF S
  <1>7. PICK first \in Seq(S) : first = <<v>>
    BY <1>6
  <1>8. Len(first) = 1 /\ name = first \o rest
    BY <1>1, <1>3, <1>6, <1>7
  <1>9. /\ name \in Seq(S) /\ Len(name) = Len(first) + Len(rest)
        /\ \A i \in 1..Len(first) + Len(rest) :
             name[i] = IF i <= Len(first) THEN first[i] ELSE rest[i - Len(first)]
    <2>1. rest \in Seq(S) /\ name = first \o rest
      BY <1>6, <1>8
    <2> QED BY <2>1, ConcatProperties
  <1>10. ASSUME NEW i \in 1..n - m + 1
         PROVE  name[i + 1] = x[m + i - 1]
    <2>1. /\ i + 1 \in 1..Len(first) + Len(rest) /\ ~(i + 1 <= Len(first))
          /\ i + 1 - Len(first) = i
      BY <1>5, <1>8
    <2>2. name[i + 1] = rest[i]
      BY <1>9, <2>1
    <2> QED BY <1>4, <2>2
  <1>11. /\ Len(name) = Len(x) - Len(p) + 1
         /\ \A i \in 1..Len(x) - Len(p) : name[i + 1] = x[Len(p) + i]
    BY <1>1, <1>2, <1>5, <1>8, <1>9, <1>10
  <1>12. name[1] = v
    <2>1. 1 \in 1..Len(first) + Len(rest) /\ first[1] = v
      BY <1>5, <1>7, <1>8
    <2> QED BY <1>8, <1>9, <2>1
  <1> QED BY <1>9, <1>11, <1>12, SeqOfRange

(* So different paths below the source have different names. *)
LEMMA ArcNamesApart ==
  ASSUME TypeOK, NEW j \in Job, NEW x \in Path, NEW y \in Path,
         Below(x, job[j].path), Below(y, job[j].path), ArcName(j, x) = ArcName(j, y)
  PROVE  x = y
  <1>1. PICK p \in Path : p = job[j].path
    BY DEF TypeOK, IsJob
  <1>2. PICK name : name = ArcName(j, x)
    OBVIOUS
  <1>3. /\ x \in Seq(Name) /\ y \in Seq(Name) /\ p \in Seq(Name)
        /\ Len(x) \in Nat /\ Len(y) \in Nat /\ Len(p) \in Nat
    BY PathIsSeq
  <1>4. /\ Under(x, p) /\ Len(p) < Len(x) /\ Under(y, p) /\ Len(p) < Len(y)
        /\ \A i \in 1..Len(p) : x[i] = p[i] /\ y[i] = p[i]
    BY <1>1, <1>3, UnderIs
  <1> DEFINE v == Last(p)
  <1>5. /\ Len(name) = Len(x) - Len(p) + 1
        /\ \A i \in 1..Len(x) - Len(p) : name[i + 1] = x[Len(p) + i]
    <2>1. name = <<v>> \o SubSeq(x, Len(p) + 1, Len(x))
      BY <1>1, <1>2 DEF ArcName
    <2> HIDE DEF v
    <2> QED BY <1>4, <2>1, ArcNameIs
  <1>6. /\ Len(name) = Len(y) - Len(p) + 1
        /\ \A i \in 1..Len(y) - Len(p) : name[i + 1] = y[Len(p) + i]
    <2>1. name = <<v>> \o SubSeq(y, Len(p) + 1, Len(y))
      BY <1>1, <1>2 DEF ArcName
    <2> HIDE DEF v
    <2> QED BY <1>4, <2>1, ArcNameIs
  <1>7. Len(x) = Len(y)
    BY <1>3, <1>5, <1>6
  <1>8. ASSUME NEW i \in 1..Len(x)
        PROVE  x[i] = y[i]
    <2>1. CASE i <= Len(p)
      BY <1>3, <1>4, <2>1
    <2>2. CASE ~(i <= Len(p))
      <3>1. i - Len(p) \in 1..Len(x) - Len(p) /\ Len(p) + (i - Len(p)) = i
        BY <1>3, <2>2
      <3> QED BY <1>5, <1>6, <1>7, <3>1
    <2> QED BY <2>1, <2>2
  <1> QED BY <1>3, <1>7, <1>8, PathsEqual

(* A member is of one path. *)
LEMMA MemberOfOne ==
  ASSUME TypeOK, NEW j \in Job, NEW m, NEW x \in Path, NEW y \in Path,
         Below(x, job[j].path), Below(y, job[j].path), MemberOf(j, m, x), MemberOf(j, m, y)
  PROVE  x = y
  <1>1. m.name = ArcName(j, x) /\ m.name = ArcName(j, y)
    BY DEF MemberOf, Member
  <1> QED BY <1>1, ArcNamesApart

(* What members are does not change while a job works on the same source.  *)
LEMMA SameMembers ==
  ASSUME NEW j \in Job, job'[j].path = job[j].path
  PROVE  /\ \A m, x : MemberOf(j, m, x)' <=> MemberOf(j, m, x)
         /\ job'[j].payload = job[j].payload => \A x : IsPacked(j, x)' <=> IsPacked(j, x)
  <1>1. \A x : ArcName(j, x)' = ArcName(j, x)
    BY DEF ArcName
  <1>2. \A m, x : MemberOf(j, m, x)' <=> MemberOf(j, m, x)
    BY <1>1 DEF MemberOf
  <1> QED BY <1>2 DEF IsPacked

(* One member more makes one path more packed. *)
LEMMA MorePacked ==
  ASSUME NEW j \in Job, job'[j].path = job[j].path,
         job[j].payload \in Seq(Range(job[j].payload)), NEW b,
         job'[j].payload = Append(job[j].payload, b)
  PROVE  /\ job'[j].payload \in Seq(Range(job'[j].payload))
         /\ Len(job[j].payload) \in Nat /\ Len(job'[j].payload) = Len(job[j].payload) + 1
         /\ DOMAIN job[j].payload = 1..Len(job[j].payload)
         /\ DOMAIN job'[j].payload = 1..Len(job[j].payload) + 1
         /\ \A n \in DOMAIN job[j].payload : job'[j].payload[n] = job[j].payload[n]
         /\ job'[j].payload[Len(job[j].payload) + 1] = b
         /\ \A x : IsPacked(j, x)' <=> IsPacked(j, x) \/ MemberOf(j, b, x)
  <1>1. PICK s, t : s = job[j].payload /\ t = job'[j].payload
    OBVIOUS
  <1>2. /\ s \in Seq(Range(s)) /\ t = Append(s, b)
        /\ t \in Seq(Range(t)) /\ Len(t) = Len(s) + 1
    BY <1>1, AppendedIsSeq
  <1>3. Len(s) \in Nat /\ DOMAIN s = 1..Len(s) /\ DOMAIN t = 1..Len(s) + 1
    BY <1>2, LenProperties
  <1>4. (\A n \in 1..Len(s) : t[n] = s[n]) /\ t[Len(s) + 1] = b
    <2> DEFINE S == Range(s) \cup {b}
    <2>1. s \in Seq(S) /\ b \in S
      BY <1>2, SeqMonotonic
    <2> HIDE DEF S
    <2> QED BY <1>2, <2>1, AppendProperties
  <1>5. ASSUME NEW x
        PROVE  IsPacked(j, x)' <=> IsPacked(j, x) \/ MemberOf(j, b, x)
    <2>1. IsPacked(j, x)' <=> \E n \in 1..Len(s) + 1 : MemberOf(j, t[n], x)
      BY <1>1, <1>3, SameMembers DEF IsPacked
    <2>2. IsPacked(j, x) <=> \E n \in 1..Len(s) : MemberOf(j, s[n], x)
      BY <1>1, <1>3 DEF IsPacked
    <2>3. Len(s) + 1 \in 1..Len(s) + 1 /\ \A n \in 1..Len(s) + 1 : n \in 1..Len(s) \/ n = Len(s) + 1
      BY <1>3
    <2>4. \A n \in 1..Len(s) : n \in 1..Len(s) + 1
      BY <1>3
    <2> QED BY <1>4, <2>1, <2>2, <2>3, <2>4
  <1> QED BY <1>1, <1>2, <1>3, <1>4, <1>5
-----------------------------------------------------------------------------
(* What has been packed.                                                   *)

(* What others do is not at paths that are quiet afterwards. *)
LEMMA ArchiveOthers ==
  ASSUME TypeOK, NEW j \in Job, NEW k \in Job \ {j}, StageOK(j), ArchiveOK(j),
         job'[j] = job[j], Disturbs(k)
  PROVE  ArchiveOK(j)'
  <1>1. CASE job[j].at = "new"
    BY <1>1 DEF StageOK, NewJob, ArchiveOK, WalkOK, PackedOK, Packing
  <1>2. CASE job[j].at # "new"
    <2>1. quiet'[j] = {x \in quiet[j] : At(x)' = At(x)} /\ quiet[j] \subseteq Path
      BY <1>2 DEF Disturbs, TypeOK
    <2>2. ASSUME NEW x \in quiet'[j]
          PROVE  /\ x \in quiet[j] /\ At(x)' = At(x) /\ (Exists(x)' <=> Exists(x))
                 /\ (IsFile(x)' <=> IsFile(x)) /\ (IsDir(x)' <=> IsDir(x))
                 /\ IsFile(x) => Blocks(x)' = Blocks(x)
      <3>1. x \in quiet[j] /\ At(x)' = At(x)
        BY <2>1
      <3> QED BY <3>1, SameAt DEF IsFile, IsDir, Blocks
    <2>3. /\ \A m, x : MemberOf(j, m, x)' <=> MemberOf(j, m, x)
          /\ \A x : IsPacked(j, x)' <=> IsPacked(j, x)
          /\ \A x : Awaited(j, x)' <=> Awaited(j, x)
          /\ \A blocks : Wrote(j, blocks) => Wrote(j, blocks)'
      BY <2>2, SameMembers DEF Awaited, Wrote
    <2>4. WalkOK(j)'
      BY <2>2, <2>3 DEF ArchiveOK, WalkOK
    <2>5. ASSUME SourceOK(j)
          PROVE  SourceOK(j)'
      <3> SUFFICES ASSUME NEW x \in quiet'[j] \ {job[j].to}, Below(x, job[j].path)
                   PROVE  /\ \A n \in DOMAIN job[j].payload :
                               LET m == job[j].payload[n]
                               IN  MemberOf(j, m, x) => /\ Exists(x)'
                                                        /\ m.kind = "file" <=> IsFile(x)'
                                                        /\ IsFile(x)' => m.blocks = Blocks(x)'
                          /\ IsFile(x)' => IsPacked(j, x) \/ Awaited(j, x)
                          /\ IsDir(x)' /\ {y \in Path : Below(y, x)} \subseteq quiet'[j] =>
                               \/ Awaited(j, x)
                               \/ \E y \in Path :
                                    /\ Under(y, x)
                                    /\ \/ IsPacked(j, y)
                                       \/ /\ job[j].at = "pack"
                                          /\ \/ y \in job[j].found \cup job[j].empties
                                             \/ y \in job[j].dirs /\ Children(y)' # {}
        BY <2>3 DEF SourceOK
      <3>1. x \in quiet[j] \ {job[j].to} /\ x \in Path
        BY <2>1, <2>2
      <3>2. /\ \A n \in DOMAIN job[j].payload :
                 LET m == job[j].payload[n]
                 IN  MemberOf(j, m, x) => /\ Exists(x)
                                          /\ m.kind = "file" <=> IsFile(x)
                                          /\ IsFile(x) => m.blocks = Blocks(x)
            /\ IsFile(x) => IsPacked(j, x) \/ Awaited(j, x)
        BY <2>5, <3>1 DEF SourceOK
      <3>3. ASSUME IsDir(x)', {y \in Path : Below(y, x)} \subseteq quiet'[j], ~Awaited(j, x)
            PROVE  \E y \in Path :
                     /\ Under(y, x)
                     /\ \/ IsPacked(j, y)
                        \/ /\ job[j].at = "pack"
                           /\ \/ y \in job[j].found \cup job[j].empties
                              \/ y \in job[j].dirs /\ Children(y)' # {}
        <4>1. IsDir(x) /\ {y \in Path : Below(y, x)} \subseteq quiet[j]
          BY <2>2, <3>3
        <4>2. PICK y \in Path :
                /\ Under(y, x)
                /\ \/ IsPacked(j, y)
                   \/ /\ job[j].at = "pack"
                      /\ \/ y \in job[j].found \cup job[j].empties
                         \/ y \in job[j].dirs /\ Children(y) # {}
          BY <2>5, <3>1, <3>3, <4>1 DEF SourceOK
        <4>3. ASSUME Children(y) # {}
              PROVE  Children(y)' # {}
          <5>1. PICK c \in DOMAIN tree \ {Root} : Front(c) = y
            BY <4>3 DEF Children
          <5>2. c \in Path
            BY DEF TypeOK, TreeOK, IsTree
          <5>3. Below(c, x)
            BY <3>1, <4>2, <5>1, <5>2, FrontIs, PathIsSeq, UnderOrder
          <5>4. c \in DOMAIN tree'
            BY <2>2, <3>3, <5>2, <5>3 DEF Exists
          <5> QED BY <5>1, <5>4 DEF Children
        <4> QED BY <4>2, <4>3
      <3> QED BY <2>2, <3>2, <3>3
    <2>6. PackedOK(j)'
      BY <2>3, <2>5 DEF ArchiveOK, PackedOK, Packing
    <2> QED BY <2>4, <2>6 DEF ArchiveOK
  <1> QED BY <1>1, <1>2

(* A job that ends without success answers for no archive, nor does one of *)
(* another operation.                                                      *)
LEMMA ArchiveFails ==
  ASSUME TypeOK, NEW j \in Job, NEW answer \in {"none", "failed"}, Ends(j, answer)
  PROVE  ArchiveOK(j)'
  BY EndsIs DEF ArchiveOK, WalkOK, PackedOK, Packing

LEMMA ArchiveBegins ==
  ASSUME TypeOK, NEW j \in Job, JobInv(j), NEW x, NEW y, ArchiveBegin(j, x, y)
  PROVE  ArchiveOK(j)'
  <1>1. job[j] = NewJob /\ IsJob(job[j]) /\ DOMAIN job = Job
    BY DEF ArchiveBegin, JobInv, StageOK, TypeOK
  <1> DEFINE label == IF Exists(x) THEN "mkdir" ELSE "done"
             answer == IF Exists(x) THEN "none" ELSE "failed"
  <1>2. job' = [job EXCEPT ![j].op = "archive", ![j].path = x, ![j].to = y, ![j].file = y,
                           ![j].at = label, ![j].answer = answer]
    BY DEF ArchiveBegin
  <1>3. label \in {"mkdir", "done"} /\ answer \in {"none", "failed"}
    OBVIOUS
  <1> HIDE DEF label, answer
  <1>4. /\ job'[j].at = label /\ job'[j].answer = answer /\ job'[j].payload = <<>>
        /\ job'[j].found = {} /\ job'[j].empties = {}
    BY <1>1, <1>2 DEF NewJob, IsJob
  <1> QED BY <1>3, <1>4 DEF ArchiveOK, WalkOK, PackedOK, Packing

LEMMA ArchiveMkdirParent ==
  ASSUME TypeOK, NEW j \in Job, JobInv(j), ArchiveOK(j), MkdirParent(j), job[j].op = "archive"
  PROVE  ArchiveOK(j)'
  <1>1. job[j].at = "mkdir" /\ job[j].answer = "none" /\ AfterMkdir["archive"] = "open"
    BY DEF MkdirParent, JobInv, StageOK, AfterMkdir
  <1>2. CASE Goto(j, "open")
    <2>1. /\ job'[j].at = "open" /\ job'[j].answer = "none" /\ job'[j].payload = job[j].payload
          /\ job'[j].found = job[j].found /\ job'[j].empties = job[j].empties
      BY <1>1, <1>2, GotoIs DEF Label
    <2> QED BY <1>1, <2>1 DEF ArchiveOK, WalkOK, PackedOK, Packing
  <1> QED BY <1>1, <1>2, ArchiveFails DEF MkdirParent, Fails

(* When the archive is opened all of its source is still to come. *)
LEMMA ArchiveOpenWrite ==
  ASSUME TypeOK, NEW j \in Job, JobInv(j), ArchiveOK(j), Disturbs(j), OpenWrite(j),
         job[j].op = "archive"
  PROVE  ArchiveOK(j)'
  <1>1. PICK x \in Path, p \in Path : x = job[j].file /\ p = job[j].path
    BY DEF TypeOK, IsJob
  <1>2. /\ job[j].at = "open" /\ job[j].answer = "none" /\ IsJob(job[j]) /\ DOMAIN job = Job
        /\ job[j].payload = <<>> /\ job[j].found = {} /\ job[j].empties = {}
    BY DEF OpenWrite, JobInv, StageOK, TypeOK, ArchiveOK
  <1>3. CASE CanCreate(x)
    <2>1. /\ Create(x, Held)
          /\ job' = [job EXCEPT ![j].fd = tree'[x], ![j].pos = 0, ![j].at = "pack",
                                ![j].dirs = {p}]
      BY <1>1, <1>3 DEF OpenWrite
    <2>2. /\ job'[j].at = "pack" /\ job'[j].path = p /\ job'[j].to = job[j].to
          /\ job'[j].file = x /\ job'[j].fd = tree'[x] /\ job'[j].pos = 0
          /\ job'[j].payload = <<>> /\ job'[j].dirs = {p} /\ job'[j].found = {}
          /\ job'[j].empties = {}
      BY <1>1, <1>2, <2>1 DEF IsJob
    <2>3. At(x)' = <<tree'[x], File(<<>>)>>
      BY <1>3, <2>1, CreateKeeps DEF TypeOK
    <2>4. Under(p, p) /\ ~Below(p, p)
      BY PathIsSeq, UnderOrder
    <2>5. DOMAIN job'[j].payload = {} /\ Len(job'[j].payload) = 0
          /\ job'[j].payload \in Seq(Range(job'[j].payload))
      BY <2>2, EmptySeq
    <2>6. \A y : ~IsPacked(j, y)'
      BY <2>5 DEF IsPacked
    <2>7. WalkOK(j)'
      BY <2>2, <2>4, <2>6 DEF WalkOK
    <2>8. SourceOK(j)'
      BY <2>2, <2>5 DEF SourceOK, Awaited
    <2>9. PackedOK(j)'
      <3>1. Wrote(j, job[j].payload)'
        BY <1>2, <2>2, <2>3 DEF Wrote
      <3>2. job'[j].payload = job[j].payload
        BY <1>2, <2>2
      <3> QED BY <2>2, <2>5, <2>8, <3>1, <3>2 DEF PackedOK
    <2> QED BY <2>2, <2>7, <2>9 DEF ArchiveOK
  <1>4. CASE ~CanCreate(x)
    BY <1>1, <1>4, ArchiveFails DEF OpenWrite, Fails
  <1> QED BY <1>3, <1>4

(* A directory that is scanned gives way to what is in it. *)
LEMMA ArchivePackDir ==
  ASSUME TypeOK, NEW j \in Job, JobInv(j), ArchiveOK(j), Disturbs(j), PackDir(j)
  PROVE  ArchiveOK(j)'
  <1>1. /\ job[j].at = "pack" /\ job[j].op = "archive" /\ IsJob(job[j]) /\ DOMAIN job = Job
        /\ job[j].found = {} /\ job[j].empties = {}
        /\ tree' = tree /\ node' = node /\ TreeOK /\ WalkOK(j)
        /\ job[j].answer = "none"
    BY StageIs DEF PackDir, JobInv, TypeOK, files, ArchiveOK, StageOK
  <1>2. PICK x \in job[j].dirs :
          LET entries == IF IsDir(x) THEN Children(x) ELSE {}
          IN  job' = [job EXCEPT ![j].dirs = (@ \ {x}) \cup {y \in entries : IsDir(y)},
                                 ![j].found = {y \in entries : IsFile(y)},
                                 ![j].empties = {y \in entries : IsDir(y)}]
    BY DEF PackDir
  <1> DEFINE entries == IF IsDir(x) THEN Children(x) ELSE {}
  <1>3. PICK folders, others : /\ folders = {y \in entries : IsDir(y)}
                               /\ others = {y \in entries : IsFile(y)}
    OBVIOUS
  <1>4. job' = [job EXCEPT ![j].dirs = (@ \ {x}) \cup folders, ![j].found = others,
                           ![j].empties = folders]
    BY <1>2, <1>3
  <1>5. PICK dirs, p : dirs = job[j].dirs /\ p = job[j].path
    OBVIOUS
  <1>6. /\ job'[j].at = "pack" /\ job'[j].op = "archive" /\ job'[j].path = p
        /\ job'[j].to = job[j].to /\ job'[j].file = job[j].file /\ job'[j].fd = job[j].fd
        /\ job'[j].pos = job[j].pos /\ job'[j].payload = job[j].payload
        /\ job'[j].dirs = (dirs \ {x}) \cup folders
        /\ job'[j].found = others /\ job'[j].empties = folders /\ job'[j].answer = "none"
    BY <1>1, <1>4, <1>5 DEF IsJob
  <1>7. /\ quiet'[j] = quiet[j] /\ quiet[j] \subseteq Path
        /\ \A y : (IsFile(y)' <=> IsFile(y)) /\ (IsDir(y)' <=> IsDir(y))
                  /\ (Exists(y)' <=> Exists(y)) /\ Blocks(y)' = Blocks(y) /\ At(y)' = At(y)
                  /\ Children(y)' = Children(y)
    BY <1>1, OwnPaths DEF IsFile, IsDir, Exists, Blocks, At, Children
  <1>8. /\ \A m, y : MemberOf(j, m, y)' <=> MemberOf(j, m, y)
        /\ \A y : IsPacked(j, y)' <=> IsPacked(j, y)
    BY <1>5, <1>6, SameMembers
  <1>9. /\ x \in dirs /\ dirs \subseteq Path /\ p \in Path
        /\ \A y \in dirs : Under(y, p)
        /\ \A y, z \in dirs : ~Below(y, z)
        /\ \A y \in Path, z \in dirs : Below(y, p) /\ IsPacked(j, y) => ~Below(y, z)
    BY <1>1, <1>2, <1>5 DEF WalkOK, IsJob
  <1>10. ASSUME NEW y \in entries
         PROVE  /\ y \in Path /\ y \in DOMAIN tree /\ Below(y, x) /\ Below(y, p)
                /\ \A z \in Path : Below(y, z) => Under(x, z)
    <2>1. y \in DOMAIN tree /\ y # Root /\ Front(y) = x
      BY DEF Children
    <2>2. y \in Path
      BY <1>1, <2>1 DEF TreeOK, IsTree
    <2> QED BY <1>9, <2>1, <2>2, FrontIs, PathIsSeq, UnderOrder
  <1> HIDE DEF entries
  <1>11. /\ folders \subseteq entries /\ others \subseteq entries
         /\ \A y \in entries : (y \in folders <=> IsDir(y)) /\ (y \in others <=> IsFile(y))
    BY <1>3
  <1>12. \A y \in entries : y \in folders \/ y \in others
    BY <1>10, <1>11 DEF IsDir, IsFile, Exists
  <1>13. WalkOK(j)'
    <2>1. ASSUME NEW y \in (dirs \ {x}) \cup folders, NEW z \in (dirs \ {x}) \cup folders
          PROVE  Under(y, p) /\ ~Below(y, z)
      <3>0. \A w \in Path : w \in Seq(Name)
        BY PathIsSeq
      <3>1. Under(y, p)
        BY <1>9, <1>10, <1>11, <3>0, UnderOrder
      <3>2. CASE y \in dirs /\ z \in dirs
        BY <1>9, <3>2
      <3>3. CASE y \in dirs /\ z \in folders
        BY <1>9, <1>10, <1>11, <3>0, <3>3, UnderOrder
      <3>4. CASE y \in folders
        <4> SUFFICES ASSUME Below(y, z) PROVE FALSE
          BY <3>1
        <4>1. z \in Path /\ Under(x, z)
          BY <1>9, <1>10, <1>11, <3>4
        <4>2. CASE z \in dirs \ {x}
          BY <1>9, <3>0, <4>1, <4>2, UnderOrder
        <4>3. CASE z \in folders
          <5>1. Below(z, x)
            BY <1>10, <1>11, <4>3
          <5> QED BY <1>9, <3>0, <4>1, <5>1, UnderOrder
        <4> QED BY <4>2, <4>3
      <3> QED BY <3>1, <3>2, <3>3, <3>4
    <2>2. ASSUME NEW y \in folders \cup others
          PROVE  Below(y, p) /\ ~IsPacked(j, y)
      BY <1>9, <1>10, <1>11
    <2>3. ASSUME NEW w \in Path, NEW y \in (dirs \ {x}) \cup folders, Below(w, p),
                 w \in others \cup folders \/ IsPacked(j, w)
          PROVE  ~Below(w, y)
      <3> SUFFICES ASSUME Below(w, y) PROVE FALSE
        OBVIOUS
      <3>0. \A z \in Path : z \in Seq(Name)
        BY PathIsSeq
      <3>1. y \in Path
        BY <1>9, <1>10, <1>11
      <3>2. CASE w \in entries
        <4>1. Under(x, y)
          BY <1>10, <3>1, <3>2
        <4>2. CASE y \in dirs \ {x}
          BY <1>9, <3>0, <4>1, <4>2, UnderOrder
        <4>3. CASE y \in folders
          <5>1. Below(y, x)
            BY <1>10, <1>11, <4>3
          <5> QED BY <1>9, <3>0, <3>1, <4>1, <5>1, UnderOrder
        <4> QED BY <4>2, <4>3
      <3>3. CASE IsPacked(j, w)
        <4>1. CASE y \in dirs
          BY <1>9, <2>3, <3>3, <4>1
        <4>2. CASE y \in folders
          <5>1. Below(w, x)
            BY <1>9, <1>10, <1>11, <3>0, <3>1, <4>2, UnderOrder
          <5> QED BY <1>9, <2>3, <3>3, <5>1
        <4> QED BY <4>1, <4>2
      <3> QED BY <1>11, <2>3, <3>2, <3>3
    <2>4. folders \cap others = {}
      BY <1>11 DEF IsDir, IsFile
    <2>5. \A y \in folders : IsDir(y)
      BY <1>11
    <2>6. \A y \in others : IsFile(y)
      BY <1>11
    <2> QED BY <1>6, <1>7, <1>8, <2>1, <2>2, <2>3, <2>4, <2>5, <2>6 DEF WalkOK
  <1>14. ASSUME NEW z \in DOMAIN tree, Awaited(j, z)
         PROVE  z \in entries \/ \E y \in (dirs \ {x}) \cup folders : Below(z, y)
    <2>1. PICK y \in dirs : Below(z, y)
      BY <1>1, <1>5, <1>14 DEF Awaited
    <2>2. z \in Path /\ z \in Seq(Name)
      BY <1>1, PathIsSeq DEF TreeOK, IsTree
    <2>3. CASE y # x
      BY <2>1, <2>3
    <2>4. CASE y = x
      <3>1. IsDir(x)
        BY <1>1, <1>9, <2>1, <2>2, <2>4, UpIsDir
      <3>2. PICK c \in Path : c # Root /\ Front(c) = x /\ Under(z, c)
        BY <1>9, <2>1, <2>2, <2>4, ChildTowards
      <3>3. CASE c = z
        BY <3>1, <3>2, <3>3 DEF entries, Children
      <3>4. CASE Below(z, c)
        <4>1. IsDir(c) /\ c \in DOMAIN tree
          BY <1>1, <3>4, UpIsDir
        <4>2. c \in folders
          BY <1>11, <3>1, <3>2, <4>1 DEF entries, Children
        <4> QED BY <3>4, <4>2
      <3> QED BY <2>2, <3>2, <3>3, <3>4, PathIsSeq, UnderOrder
    <2> QED BY <2>3, <2>4
  <1>15. ASSUME SourceOK(j)
         PROVE  SourceOK(j)'
    <2> SUFFICES ASSUME NEW z \in quiet[j] \ {job[j].to}, Below(z, p)
                 PROVE  /\ \A n \in DOMAIN job[j].payload :
                             LET m == job[j].payload[n]
                             IN  MemberOf(j, m, z) => /\ Exists(z)
                                                      /\ m.kind = "file" <=> IsFile(z)
                                                      /\ IsFile(z) => m.blocks = Blocks(z)
                        /\ IsFile(z) => IsPacked(j, z) \/ Awaited(j, z)'
                        /\ IsDir(z) /\ {y \in Path : Below(y, z)} \subseteq quiet[j] =>
                             \/ Awaited(j, z)'
                             \/ \E y \in Path :
                                  /\ Under(y, z)
                                  /\ \/ IsPacked(j, y)
                                     \/ y \in others \cup folders
                                     \/ y \in (dirs \ {x}) \cup folders /\ Children(y) # {}
      BY <1>6, <1>7, <1>8 DEF SourceOK
    <2>1. /\ \A n \in DOMAIN job[j].payload :
               LET m == job[j].payload[n]
               IN  MemberOf(j, m, z) => /\ Exists(z)
                                        /\ m.kind = "file" <=> IsFile(z)
                                        /\ IsFile(z) => m.blocks = Blocks(z)
          /\ IsFile(z) => IsPacked(j, z) \/ Awaited(j, z)
      BY <1>5, <1>15 DEF SourceOK
    <2>2. z \in Path /\ Under(z, z)
      BY <1>7, PathIsSeq, UnderOrder
    <2>3. Awaited(j, z)' <=> z \in others \/ \E y \in (dirs \ {x}) \cup folders : Below(z, y)
      BY <1>6 DEF Awaited
    <2>4. IsFile(z) => IsPacked(j, z) \/ Awaited(j, z)'
      BY <1>11, <1>14, <2>1, <2>3 DEF IsFile, Exists
    <2>5. ASSUME IsDir(z), {y \in Path : Below(y, z)} \subseteq quiet[j]
          PROVE  \/ Awaited(j, z)'
                 \/ \E y \in Path :
                      /\ Under(y, z)
                      /\ \/ IsPacked(j, y)
                         \/ y \in others \cup folders
                         \/ y \in (dirs \ {x}) \cup folders /\ Children(y) # {}
      <3>1. CASE Awaited(j, z)
        <4>1. z \in DOMAIN tree
          BY <2>5 DEF IsDir, Exists
        <4>2. z \in entries => z \in folders
          BY <1>11, <2>5
        <4> QED BY <1>14, <2>2, <2>3, <3>1, <4>1, <4>2
      <3>2. CASE ~Awaited(j, z)
        <4>1. PICK y \in Path : Under(y, z) /\ (IsPacked(j, y) \/ (y \in dirs /\ Children(y) # {}))
          BY <1>1, <1>5, <1>15, <2>5, <3>2 DEF SourceOK
        <4>2. CASE y = x /\ Children(x) # {}
          <5>1. PICK c \in DOMAIN tree : c # Root /\ Front(c) = x
            BY <4>2 DEF Children
          <5>2. c \in Path
            BY <1>1 DEF TreeOK, IsTree
          <5>3. Below(c, x) /\ IsDir(x)
            BY <1>1, <1>9, <5>1, <5>2, FrontIs, UpIsDir
          <5>4. c \in entries
            BY <5>1, <5>3 DEF entries, Children
          <5>5. Under(c, z)
            BY <1>9, <2>2, <4>1, <4>2, <5>2, <5>3, PathIsSeq, UnderOrder
          <5> QED BY <1>12, <5>2, <5>4, <5>5
        <4> QED BY <4>1, <4>2
      <3> QED BY <3>1, <3>2
    <2> QED BY <2>1, <2>4, <2>5
  <1>16. PackedOK(j)'
    <2>1. PackedOK(j) /\ Packing(j)
      BY <1>1 DEF ArchiveOK, Packing
    <2>2. \A blocks : Wrote(j, blocks)' <=> Wrote(j, blocks)
      BY <1>6, <1>7 DEF Wrote
    <2> QED BY <1>1, <1>5, <1>6, <1>8, <1>15, <2>1, <2>2 DEF PackedOK
  <1> QED BY <1>1, <1>6, <1>13, <1>16 DEF ArchiveOK

(* What is written goes to the archive alone, and at its end. *)
LEMMA ArchivePut ==
  ASSUME TypeOK, NEW j \in Job, JobInv(j), ArchiveOK(j), Disturbs(j), job[j].at = "pack",
         NEW b, Put(j, b), IsJob(job'[j]), job'[j].path = job[j].path, job'[j].to = job[j].to,
         job'[j].file = job[j].file, job'[j].fd = job[j].fd, job'[j].pos = job[j].pos + 1,
         job'[j].payload = Append(job[j].payload, b)
  PROVE  /\ quiet'[j] = quiet[j] /\ quiet[j] \subseteq Path
         /\ \A x : Children(x)' = Children(x) /\ (Exists(x)' <=> Exists(x))
         /\ \A x \in Path : (IsDir(x)' <=> IsDir(x)) /\ (IsFile(x)' <=> IsFile(x))
         /\ \A x \in quiet[j] \ {job[j].to} : IsFile(x) => Blocks(x)' = Blocks(x)
         /\ job'[j].payload \in Seq(Range(job'[j].payload))
         /\ job'[j].pos = Len(job'[j].payload)
         /\ Wrote(j, job[j].payload)'
  <1>1. PICK x \in Path, fd \in Inode, n \in Nat :
          x = job[j].to /\ fd = job[j].fd /\ n = job[j].pos
    BY DEF JobInv, WriterOK, TypeOK, IsJob
  <1>2. PICK s, t : s = job[j].payload /\ t = job'[j].payload
    OBVIOUS
  <1>3. /\ tree' = tree /\ node' = [node EXCEPT ![fd].blocks = WriteAt(@, n + 1, b, Hole)]
        /\ job[j].file = x /\ TreeOK
    BY <1>1, StageIs DEF Put, JobInv, StageOK, TypeOK
  <1>4. /\ s \in Seq(Range(s)) /\ n = Len(s) /\ Wrote(j, s)
    BY <1>1, <1>2, StageIs DEF ArchiveOK, PackedOK, Packing, JobInv
  <1>5. /\ t \in Seq(Range(t)) /\ Len(t) = n + 1 /\ t[n + 1] = b /\ n < Len(t)
        /\ \A i \in 1..n : t[i] = s[i]
    <2>1. t = job'[j].payload /\ s = job[j].payload /\ s \in Seq(Range(s))
      BY <1>2, <1>4
    <2>2. /\ t \in Seq(Range(t)) /\ Len(t) = Len(s) + 1 /\ t[Len(s) + 1] = b /\ Len(s) \in Nat
          /\ \A i \in 1..Len(s) : t[i] = s[i]
      BY <2>1, MorePacked
    <2> QED BY <1>4, <2>2
  <1>6. quiet'[j] = quiet[j] /\ quiet[j] \subseteq Path
    BY OwnPaths
  <1>7. /\ \A y : Children(y)' = Children(y) /\ (Exists(y)' <=> Exists(y))
        /\ \A y \in Path : (IsDir(y)' <=> IsDir(y))
        /\ \A y \in Path : ~(Exists(y) /\ tree[y] = fd) => At(y)' = At(y)
    BY <1>3, PutKeeps DEF Children, Exists
  <1>8. \A y \in Path : IsFile(y)' <=> IsFile(y)
    BY <1>7 DEF IsFile, IsDir
  <1>9. \A y \in quiet[j] \ {x} : IsFile(y) => Blocks(y)' = Blocks(y)
    <2>1. \A y \in quiet[j] : Exists(y) /\ tree[y] = fd => y = x
      BY <1>1, <1>3 DEF JobInv, WriterOK
    <2> QED BY <1>6, <1>7, <2>1, SameAt DEF IsFile, Blocks
  <1>10. ASSUME x \in quiet[j]
         PROVE  At(x)' = <<fd, File(t)>>
    <2>1. SubSeq(t, 1, n) = s
      <3> DEFINE S == Range(t) \cup Range(s)
      <3>1. t \in Seq(S) /\ s \in Seq(S) /\ n \in 0..Len(t)
        BY <1>4, <1>5, SeqMonotonic
      <3> HIDE DEF S
      <3>2. \A i \in 1..n : t[i] \in S
        BY <3>1, <1>5, ElementOfSeq
      <3>3. /\ SubSeq(t, 1, n) \in Seq(S) /\ Len(SubSeq(t, 1, n)) = n
            /\ \A i \in 1..n : SubSeq(t, 1, n)[i] = t[i]
        <4>1. /\ SubSeq(t, 1, n) \in Seq(S)
              /\ Len(SubSeq(t, 1, n)) = IF 1 <= n THEN n - 1 + 1 ELSE 0
              /\ \A i \in 1..n - 1 + 1 : SubSeq(t, 1, n)[i] = t[1 + i - 1]
          BY <3>2, SubSeqProperties
        <4> QED BY <4>1
      <3> QED BY <1>4, <1>5, <3>1, <3>3, SeqEqual
    <2>2. At(x) = <<fd, File(SubSeq(t, 1, n))>>
      BY <1>1, <1>3, <1>4, <1>10, <2>1 DEF Wrote
    <2>3. At(x)' = <<fd, File(SubSeq(t, 1, n + 1))>>
      BY <1>3, <1>5, <2>2, WroteMore
    <2>4. SubSeq(t, 1, n + 1) = t
      BY <1>5, SubSeqFull
    <2> QED BY <2>3, <2>4
  <1>11. Wrote(j, job[j].payload)'
    BY <1>1, <1>2, <1>3, <1>6, <1>10 DEF Wrote
  <1> QED BY <1>1, <1>2, <1>5, <1>6, <1>7, <1>8, <1>9, <1>11

(* A path that is packed is not looked at any more. *)
LEMMA ArchivePacks ==
  ASSUME TypeOK, NEW j \in Job, JobInv(j), ArchiveOK(j), Disturbs(j), job[j].at = "pack",
         NEW x \in job[j].found \cup job[j].empties, NEW m, MemberOf(j, m, x), Put(j, m),
         x \in quiet[j] => /\ Exists(x)
                           /\ m.kind = "file" <=> IsFile(x)
                           /\ IsFile(x) => m.blocks = Blocks(x),
         IsJob(job'[j]), job'[j].at = "pack", job'[j].op = job[j].op,
         job'[j].path = job[j].path, job'[j].to = job[j].to, job'[j].file = job[j].file,
         job'[j].fd = job[j].fd, job'[j].pos = job[j].pos + 1,
         job'[j].payload = Append(job[j].payload, m), job'[j].dirs = job[j].dirs,
         job'[j].found = job[j].found \ {x}, job'[j].empties = job[j].empties \ {x},
         job'[j].answer = job[j].answer
  PROVE  ArchiveOK(j)'
  <1>1. /\ job[j].op = "archive" /\ WalkOK(j) /\ PackedOK(j) /\ Packing(j) /\ IsJob(job[j])
        /\ job[j].payload \in Seq(Range(job[j].payload)) /\ SourceOK(j)
    BY StageIs DEF JobInv, ArchiveOK, PackedOK, Packing, TypeOK
  <1> PICK s, t : s = job[j].payload /\ t = job'[j].payload
    OBVIOUS
  <1>2. PICK p \in Path : s = job[j].payload /\ t = job'[j].payload /\ p = job[j].path
    BY <1>1 DEF IsJob
  <1>3. /\ quiet'[j] = quiet[j] /\ quiet[j] \subseteq Path
        /\ \A y : Children(y)' = Children(y) /\ (Exists(y)' <=> Exists(y))
        /\ \A y \in Path : (IsDir(y)' <=> IsDir(y)) /\ (IsFile(y)' <=> IsFile(y))
        /\ \A y \in quiet[j] \ {job[j].to} : IsFile(y) => Blocks(y)' = Blocks(y)
        /\ t \in Seq(Range(t)) /\ job'[j].pos = Len(t) /\ Wrote(j, job[j].payload)'
    BY <1>2, ArchivePut
  <1>4. PICK k \in Nat : k = Len(s)
    BY <1>1, <1>2, LenProperties
  <1>5. /\ DOMAIN s = 1..k /\ DOMAIN t = 1..k + 1 /\ t[k + 1] = m
        /\ \A n \in 1..k : t[n] = s[n]
        /\ \A y : IsPacked(j, y)' <=> IsPacked(j, y) \/ MemberOf(j, m, y)
        /\ \A b, y : MemberOf(j, b, y)' <=> MemberOf(j, b, y)
    BY <1>1, <1>2, <1>4, MorePacked, SameMembers
  <1>6. x \in Path /\ Below(x, p) /\ ~IsPacked(j, x)
    BY <1>1, <1>2 DEF WalkOK, IsJob
  <1>7. \A y \in Path : Below(y, p) /\ MemberOf(j, m, y) => y = x
    BY <1>2, <1>6, MemberOfOne
  <1>8. WalkOK(j)'
    <2>1. \A y \in (job[j].found \ {x}) \cup (job[j].empties \ {x}) :
             y \in Path /\ Below(y, p) /\ ~IsPacked(j, y)'
      BY <1>1, <1>2, <1>5, <1>7 DEF WalkOK, IsJob
    <2>2. \A y \in job[j].found \ {x} : y \in quiet[j] => IsFile(y)'
      BY <1>1, <1>3 DEF WalkOK
    <2>3. \A y \in job[j].empties \ {x} : y \in quiet[j] => IsDir(y)'
      BY <1>1, <1>3 DEF WalkOK
    <2>4. \A w \in Path, y \in job[j].dirs :
             /\ Below(w, p)
             /\ w \in (job[j].found \ {x}) \cup (job[j].empties \ {x}) \/ IsPacked(j, w)'
             => ~Below(w, y)
      BY <1>1, <1>2, <1>5, <1>7 DEF WalkOK
    <2>5. /\ \A y, z \in job[j].dirs : Under(y, p) /\ ~Below(y, z)
          /\ job[j].empties \ {x} \subseteq job[j].dirs
          /\ (job[j].found \ {x}) \cap (job[j].empties \ {x}) = {}
      BY <1>1, <1>2 DEF WalkOK
    <2> QED BY <1>2, <1>3, <2>1, <2>2, <2>3, <2>4, <2>5 DEF WalkOK
  <1>9. SourceOK(j)'
    <2> SUFFICES ASSUME NEW z \in quiet[j] \ {job[j].to}, Below(z, p)
                 PROVE  /\ \A n \in DOMAIN t :
                             MemberOf(j, t[n], z) => /\ Exists(z)'
                                                     /\ t[n].kind = "file" <=> IsFile(z)'
                                                     /\ IsFile(z)' => t[n].blocks = Blocks(z)'
                        /\ IsFile(z)' => IsPacked(j, z)' \/ Awaited(j, z)'
                        /\ IsDir(z)' /\ {y \in Path : Below(y, z)} \subseteq quiet[j] =>
                             \/ Awaited(j, z)'
                             \/ \E y \in Path :
                                  /\ Under(y, z)
                                  /\ \/ IsPacked(j, y)'
                                     \/ y \in (job[j].found \ {x}) \cup (job[j].empties \ {x})
                                     \/ y \in job[j].dirs /\ Children(y)' # {}
      BY <1>2, <1>3, <1>5 DEF SourceOK
    <2>1. /\ \A n \in DOMAIN s :
               MemberOf(j, s[n], z) => /\ Exists(z)
                                       /\ s[n].kind = "file" <=> IsFile(z)
                                       /\ IsFile(z) => s[n].blocks = Blocks(z)
          /\ IsFile(z) => IsPacked(j, z) \/ Awaited(j, z)
          /\ IsDir(z) /\ {y \in Path : Below(y, z)} \subseteq quiet[j] =>
               \/ Awaited(j, z)
               \/ \E y \in Path :
                    /\ Under(y, z)
                    /\ \/ IsPacked(j, y)
                       \/ y \in job[j].found \cup job[j].empties
                       \/ y \in job[j].dirs /\ Children(y) # {}
      BY <1>1, <1>2 DEF SourceOK
    <2>2. z \in Path /\ Under(z, z)
      BY <1>3, PathIsSeq, UnderOrder
    <2>3. (IsFile(z)' <=> IsFile(z)) /\ (IsDir(z)' <=> IsDir(z)) /\ (Exists(z)' <=> Exists(z))
          /\ (IsFile(z) => Blocks(z)' = Blocks(z))
      BY <1>3, <2>2
    <2>4. ASSUME NEW n \in DOMAIN t, MemberOf(j, t[n], z)
          PROVE  /\ Exists(z)'
                 /\ t[n].kind = "file" <=> IsFile(z)'
                 /\ IsFile(z)' => t[n].blocks = Blocks(z)'
      <3>1. CASE n \in 1..k
        BY <1>5, <2>1, <2>3, <2>4, <3>1
      <3>2. CASE n = k + 1
        <4>1. t[n] = m /\ z = x
          BY <1>5, <1>7, <2>2, <2>4, <3>2
        <4> QED BY <2>3, <4>1
      <3> QED BY <1>5, <3>1, <3>2
    <2>5. Awaited(j, z) => Awaited(j, z)' \/ z = x
      BY DEF Awaited
    <2>6. IsPacked(j, x)'
      BY <1>5
    <2>7. IsFile(z)' => IsPacked(j, z)' \/ Awaited(j, z)'
      BY <1>5, <2>1, <2>3, <2>5, <2>6
    <2>8. ASSUME IsDir(z)', {y \in Path : Below(y, z)} \subseteq quiet[j]
          PROVE  \/ Awaited(j, z)'
                 \/ \E y \in Path :
                      /\ Under(y, z)
                      /\ \/ IsPacked(j, y)'
                         \/ y \in (job[j].found \ {x}) \cup (job[j].empties \ {x})
                         \/ y \in job[j].dirs /\ Children(y)' # {}
      BY <1>3, <1>5, <1>6, <2>1, <2>2, <2>3, <2>5, <2>6, <2>8
    <2> QED BY <2>4, <2>7, <2>8
  <1>10. PackedOK(j)'
    <2>1. ASSUME NEW n \in DOMAIN t
          PROVE  \E y \in Path : Below(y, p) /\ MemberOf(j, t[n], y)
      <3>1. CASE n \in 1..k
        BY <1>1, <1>2, <1>5, <3>1 DEF PackedOK
      <3>2. CASE n = k + 1
        BY <1>5, <1>6, <3>2
      <3> QED BY <1>5, <3>1, <3>2
    <2>2. ASSUME NEW y \in Path, NEW a \in DOMAIN t, NEW b \in DOMAIN t, Below(y, p),
                 MemberOf(j, t[a], y), MemberOf(j, t[b], y)
          PROVE  a = b
      <3>1. CASE a \in 1..k /\ b \in 1..k
        BY <1>1, <1>2, <1>5, <2>2, <3>1 DEF PackedOK
      <3>2. ASSUME a = k + 1 \/ b = k + 1, a \in 1..k \/ b \in 1..k
            PROVE  FALSE
        <4>1. y = x
          BY <1>5, <1>7, <2>2, <3>2
        <4>2. IsPacked(j, y)
          BY <1>2, <1>5, <2>2, <3>2 DEF IsPacked
        <4> QED BY <1>6, <4>1, <4>2
      <3> QED BY <1>5, <3>1, <3>2
    <2> QED BY <1>1, <1>2, <1>3, <1>5, <1>9, <2>1, <2>2 DEF PackedOK
  <1> QED BY <1>1, <1>8, <1>10 DEF ArchiveOK

LEMMA ArchivePackFile ==
  ASSUME TypeOK, NEW j \in Job, JobInv(j), ArchiveOK(j), Disturbs(j), PackFile(j)
  PROVE  ArchiveOK(j)'
  <1>1. job[j].at = "pack" /\ IsJob(job[j]) /\ DOMAIN job = Job /\ WalkOK(j)
    BY DEF PackFile, TypeOK, ArchiveOK
  <1> PICK x \in job[j].found :
         LET m == Member(IF IsDir(x) THEN "dir" ELSE "file", j, ArcName(j, x), Blocks(x))
         IN  /\ Exists(x) /\ Put(j, m)
             /\ job' = [job EXCEPT ![j].found = @ \ {x}, ![j].pos = @ + 1,
                                   ![j].payload = Append(@, m)]
    BY DEF PackFile
  <1>2. PICK m :
          /\ m = Member(IF IsDir(x) THEN "dir" ELSE "file", j, ArcName(j, x), Blocks(x))
          /\ Exists(x) /\ Put(j, m)
          /\ job' = [job EXCEPT ![j].found = @ \ {x}, ![j].pos = @ + 1,
                                ![j].payload = Append(@, m)]
    OBVIOUS
  <1>3. /\ IsJob(job'[j]) /\ job'[j].at = "pack" /\ job'[j].op = job[j].op
        /\ job'[j].path = job[j].path /\ job'[j].to = job[j].to /\ job'[j].file = job[j].file
        /\ job'[j].fd = job[j].fd /\ job'[j].pos = job[j].pos + 1
        /\ job'[j].payload = Append(job[j].payload, m) /\ job'[j].dirs = job[j].dirs
        /\ job'[j].found = job[j].found \ {x} /\ job'[j].empties = job[j].empties
        /\ job'[j].answer = job[j].answer
    BY <1>1, <1>2 DEF IsJob
  <1>4. job[j].empties = job[j].empties \ {x}
    BY <1>1 DEF WalkOK
  <1>5. Blocks(x) \in Seq(Range(Blocks(x)))
    BY <1>2 DEF Exists, Blocks, TypeOK, TreeOK, IsTree, IsNode
  <1>6. /\ MemberOf(j, m, x) /\ Exists(x)
        /\ m.kind = "file" <=> IsFile(x)
        /\ m.blocks = Blocks(x)
    <2>1. /\ m.kind = IF IsDir(x) THEN "dir" ELSE "file"
          /\ m.blocks = Blocks(x)
      BY <1>2 DEF Member
    <2>2. m.kind \in {"file", "dir"} /\ m = Member(m.kind, j, ArcName(j, x), m.blocks)
      BY <1>2, <2>1 DEF Member
    <2> QED BY <1>2, <1>5, <2>1, <2>2 DEF MemberOf, IsDir, IsFile
  <1> QED BY <1>1, <1>2, <1>3, <1>4, <1>6, ArchivePacks

LEMMA ArchivePackEmptyDir ==
  ASSUME TypeOK, NEW j \in Job, JobInv(j), ArchiveOK(j), Disturbs(j), PackEmptyDir(j)
  PROVE  ArchiveOK(j)'
  <1>1. /\ job[j].at = "pack" /\ job[j].op = "archive" /\ IsJob(job[j]) /\ DOMAIN job = Job
        /\ job[j].found = {} /\ WalkOK(j) /\ PackedOK(j) /\ Packing(j) /\ SourceOK(j)
    BY StageIs DEF PackEmptyDir, TypeOK, ArchiveOK, JobInv, PackedOK, Packing
  <1> PICK x \in job[j].empties :
         LET m == Member("dir", j, ArcName(j, x), <<>>)
         IN  IF Children(x) = {}
               THEN /\ Put(j, m)
                    /\ job' = [job EXCEPT ![j].empties = @ \ {x}, ![j].pos = @ + 1,
                                          ![j].payload = Append(@, m)]
               ELSE job' = [job EXCEPT ![j].empties = @ \ {x}] /\ UNCHANGED files
    BY DEF PackEmptyDir
  <1>2. CASE Children(x) = {}
    <2>1. PICK m :
            /\ m = Member("dir", j, ArcName(j, x), <<>>) /\ Put(j, m)
            /\ job' = [job EXCEPT ![j].empties = @ \ {x}, ![j].pos = @ + 1,
                                  ![j].payload = Append(@, m)]
      BY <1>2
    <2>2. /\ IsJob(job'[j]) /\ job'[j].at = "pack" /\ job'[j].op = job[j].op
          /\ job'[j].path = job[j].path /\ job'[j].to = job[j].to /\ job'[j].file = job[j].file
          /\ job'[j].fd = job[j].fd /\ job'[j].pos = job[j].pos + 1
          /\ job'[j].payload = Append(job[j].payload, m) /\ job'[j].dirs = job[j].dirs
          /\ job'[j].found = job[j].found /\ job'[j].empties = job[j].empties \ {x}
          /\ job'[j].answer = job[j].answer
      BY <1>1, <2>1 DEF IsJob
    <2>3. job[j].found = job[j].found \ {x}
      BY <1>1
    <2>4. MemberOf(j, m, x) /\ m.kind = "dir"
      <3>1. <<>> \in Seq(Range(<<>>))
        BY EmptySeq
      <3>2. m.kind = "dir" /\ m.blocks = <<>>
        BY <2>1 DEF Member
      <3> QED BY <2>1, <3>1, <3>2 DEF MemberOf
    <2>5. x \in quiet[j] => Exists(x) /\ ~IsFile(x)
      BY <1>1 DEF WalkOK, IsDir, IsFile
    <2> QED BY <1>1, <2>1, <2>2, <2>3, <2>4, <2>5, ArchivePacks
  <1>3. CASE Children(x) # {}
    <2>1. job' = [job EXCEPT ![j].empties = @ \ {x}] /\ tree' = tree /\ node' = node
      BY <1>3 DEF files
    <2>2. /\ job'[j].at = "pack" /\ job'[j].op = "archive" /\ job'[j].path = job[j].path
          /\ job'[j].to = job[j].to /\ job'[j].file = job[j].file /\ job'[j].fd = job[j].fd
          /\ job'[j].pos = job[j].pos /\ job'[j].payload = job[j].payload
          /\ job'[j].dirs = job[j].dirs /\ job'[j].found = {}
          /\ job'[j].empties = job[j].empties \ {x} /\ job'[j].answer = job[j].answer
      BY <1>1, <2>1 DEF IsJob
    <2>3. /\ quiet'[j] = quiet[j] /\ quiet[j] \subseteq Path
          /\ \A y : (IsFile(y)' <=> IsFile(y)) /\ (IsDir(y)' <=> IsDir(y))
                    /\ (Exists(y)' <=> Exists(y)) /\ Blocks(y)' = Blocks(y) /\ At(y)' = At(y)
                    /\ Children(y)' = Children(y)
      BY <2>1, OwnPaths DEF IsFile, IsDir, Exists, Blocks, At, Children
    <2>4. /\ \A m, y : MemberOf(j, m, y)' <=> MemberOf(j, m, y)
          /\ \A y : IsPacked(j, y)' <=> IsPacked(j, y)
      BY <2>2, SameMembers
    <2>5. WalkOK(j)'
      BY <1>1, <2>2, <2>3, <2>4 DEF WalkOK
    <2>6. x \in job[j].dirs
      BY <1>1 DEF WalkOK
    <2>7. \A y : Awaited(j, y)' <=> Awaited(j, y)
      BY <1>1, <2>2 DEF Awaited
    <2>8. SourceOK(j)'
      BY <1>1, <1>3, <2>2, <2>3, <2>4, <2>6, <2>7 DEF SourceOK
    <2>9. \A blocks : Wrote(j, blocks)' <=> Wrote(j, blocks)
      BY <2>2, <2>3 DEF Wrote
    <2>10. PackedOK(j)'
      BY <1>1, <2>2, <2>4, <2>8, <2>9 DEF PackedOK
    <2> QED BY <2>2, <2>5, <2>10 DEF ArchiveOK
  <1> QED BY <1>2, <1>3

(* The end is not a member, and nothing was still awaited. *)
LEMMA ArchivePackEnd ==
  ASSUME TypeOK, NEW j \in Job, JobInv(j), ArchiveOK(j), Disturbs(j), PackEnd(j)
  PROVE  ArchiveOK(j)'
  <1>1. /\ job[j].at = "pack" /\ job[j].op = "archive" /\ IsJob(job[j]) /\ DOMAIN job = Job
        /\ job[j].dirs = {} /\ job[j].found = {} /\ job[j].empties = {}
        /\ PackedOK(j) /\ Packing(j) /\ SourceOK(j)
        /\ job[j].payload \in Seq(Range(job[j].payload))
    BY StageIs DEF PackEnd, TypeOK, ArchiveOK, JobInv, PackedOK, Packing
  <1> PICK s, t, m : s = job[j].payload /\ t = job'[j].payload /\ m = End(j)
    OBVIOUS
  <1>2. PICK p \in Path : s = job[j].payload /\ t = job'[j].payload /\ m = End(j)
                          /\ p = job[j].path
    BY <1>1 DEF IsJob
  <1>3. /\ Put(j, m)
        /\ job' = [job EXCEPT ![j].at = "size", ![j].pos = @ + 1, ![j].payload = Append(@, m)]
    BY <1>2 DEF PackEnd
  <1>4. /\ IsJob(job'[j]) /\ job'[j].at = "size" /\ job'[j].op = job[j].op
        /\ job'[j].path = job[j].path /\ job'[j].to = job[j].to /\ job'[j].file = job[j].file
        /\ job'[j].fd = job[j].fd /\ job'[j].pos = job[j].pos + 1
        /\ job'[j].payload = Append(job[j].payload, m)
    BY <1>1, <1>3 DEF IsJob, Label
  <1>5. /\ quiet'[j] = quiet[j] /\ quiet[j] \subseteq Path
        /\ \A y : Children(y)' = Children(y) /\ (Exists(y)' <=> Exists(y))
        /\ \A y \in Path : (IsDir(y)' <=> IsDir(y)) /\ (IsFile(y)' <=> IsFile(y))
        /\ \A y \in quiet[j] \ {job[j].to} : IsFile(y) => Blocks(y)' = Blocks(y)
        /\ t \in Seq(Range(t)) /\ job'[j].pos = Len(t) /\ Wrote(j, job[j].payload)'
    BY <1>1, <1>2, <1>3, <1>4, ArchivePut
  <1>6. PICK k \in Nat : k = Len(s)
    BY <1>1, <1>2, LenProperties
  <1>7. /\ DOMAIN s = 1..k /\ DOMAIN t = 1..k + 1 /\ Len(t) = k + 1 /\ t[k + 1] = m
        /\ \A n \in 1..k : t[n] = s[n]
        /\ \A y : IsPacked(j, y)' <=> IsPacked(j, y) \/ MemberOf(j, m, y)
        /\ \A b, y : MemberOf(j, b, y)' <=> MemberOf(j, b, y)
    <2>1. /\ job'[j].path = job[j].path /\ s = job[j].payload /\ t = job'[j].payload
          /\ s \in Seq(Range(s)) /\ t = Append(s, m)
      BY <1>1, <1>2, <1>4
    <2>2. /\ DOMAIN s = 1..k /\ DOMAIN t = 1..k + 1 /\ Len(t) = k + 1 /\ t[k + 1] = m
          /\ \A n \in 1..k : t[n] = s[n]
      BY <1>6, <2>1, MorePacked
    <2>3. \A y : IsPacked(j, y)' <=> IsPacked(j, y) \/ MemberOf(j, m, y)
      BY <1>1, <1>4, MorePacked
    <2> QED BY <1>4, <2>2, <2>3, SameMembers
  <1>8. \A y : ~MemberOf(j, m, y)
    BY <1>2 DEF MemberOf, End
  <1>9. SourceOK(j)'
    <2> SUFFICES ASSUME NEW z \in quiet[j] \ {job[j].to}, Below(z, p)
                 PROVE  /\ \A n \in DOMAIN t :
                             MemberOf(j, t[n], z) => /\ Exists(z)'
                                                     /\ t[n].kind = "file" <=> IsFile(z)'
                                                     /\ IsFile(z)' => t[n].blocks = Blocks(z)'
                        /\ IsFile(z)' => IsPacked(j, z)'
                        /\ IsDir(z)' /\ {y \in Path : Below(y, z)} \subseteq quiet[j] =>
                             \E y \in Path : Under(y, z) /\ IsPacked(j, y)'
      BY <1>2, <1>4, <1>5, <1>7 DEF SourceOK
    <2>1. /\ \A n \in DOMAIN s :
               MemberOf(j, s[n], z) => /\ Exists(z)
                                       /\ s[n].kind = "file" <=> IsFile(z)
                                       /\ IsFile(z) => s[n].blocks = Blocks(z)
          /\ IsFile(z) => IsPacked(j, z)
          /\ IsDir(z) /\ {y \in Path : Below(y, z)} \subseteq quiet[j] =>
               \E y \in Path : Under(y, z) /\ IsPacked(j, y)
      BY <1>1, <1>2 DEF SourceOK, Awaited
    <2>2. (IsFile(z)' <=> IsFile(z)) /\ (IsDir(z)' <=> IsDir(z)) /\ (Exists(z)' <=> Exists(z))
          /\ (IsFile(z) => Blocks(z)' = Blocks(z))
      BY <1>5
    <2>3. \A n \in DOMAIN t : MemberOf(j, t[n], z) => n \in 1..k
      BY <1>7, <1>8
    <2> QED BY <1>7, <2>1, <2>2, <2>3
  <1>10. PackedOK(j)'
    <2>1. ASSUME NEW n \in DOMAIN t
          PROVE  (\E y \in Path : Below(y, p) /\ MemberOf(j, t[n], y)) \/ n = Len(t)
      BY <1>1, <1>2, <1>7 DEF PackedOK
    <2>2. ASSUME NEW y \in Path, NEW a \in DOMAIN t, NEW b \in DOMAIN t, Below(y, p),
                 MemberOf(j, t[a], y), MemberOf(j, t[b], y)
          PROVE  a = b
      <3>1. a \in 1..k /\ b \in 1..k
        BY <1>7, <1>8, <2>2
      <3> QED BY <1>1, <1>2, <1>7, <2>2, <3>1 DEF PackedOK
    <2>3. t # <<>> /\ Last(t) = End(j)
      BY <1>2, <1>5, <1>6, <1>7, EmptySeq DEF Last
    <2> QED BY <1>2, <1>4, <1>5, <1>7, <1>9, <2>1, <2>2, <2>3 DEF PackedOK
  <1> QED BY <1>1, <1>4, <1>10 DEF ArchiveOK, WalkOK

LEMMA ArchiveAnswers ==
  ASSUME TypeOK, NEW j \in Job, JobInv(j), ArchiveOK(j), Disturbs(j), ArchiveAnswer(j)
  PROVE  ArchiveOK(j)'
  <1>1. CASE Fails(j)
    BY <1>1, ArchiveFails DEF Fails
  <1>2. CASE Ends(j, "ok") /\ UNCHANGED files
    <2>1. /\ job[j].at = "size" /\ job[j].op = "archive" /\ PackedOK(j) /\ Packing(j)
          /\ SourceOK(j) /\ tree' = tree /\ node' = node
      BY <1>2, StageIs DEF ArchiveAnswer, ArchiveOK, JobInv, PackedOK, Packing, files
    <2>2. /\ job'[j].at = "done" /\ job'[j].op = "archive" /\ job'[j].path = job[j].path
          /\ job'[j].to = job[j].to /\ job'[j].file = job[j].file /\ job'[j].fd = job[j].fd
          /\ job'[j].pos = job[j].pos /\ job'[j].payload = job[j].payload
      BY <1>2, <2>1, EndsIs
    <2>3. /\ quiet'[j] = quiet[j]
          /\ \A y : (IsFile(y)' <=> IsFile(y)) /\ (IsDir(y)' <=> IsDir(y))
                    /\ (Exists(y)' <=> Exists(y)) /\ Blocks(y)' = Blocks(y) /\ At(y)' = At(y)
      BY <2>1, OwnPaths DEF IsFile, IsDir, Exists, Blocks, At
    <2>4. /\ \A m, y : MemberOf(j, m, y)' <=> MemberOf(j, m, y)
          /\ \A y : IsPacked(j, y)' <=> IsPacked(j, y)
      BY <2>2, SameMembers
    <2>5. \A y : ~Awaited(j, y)
      BY <2>1 DEF Awaited
    <2>6. SourceOK(j)'
      BY <2>1, <2>2, <2>3, <2>4, <2>5 DEF SourceOK
    <2>7. \A blocks : Wrote(j, blocks)' <=> Wrote(j, blocks)
      BY <2>2, <2>3 DEF Wrote
    <2>8. PackedOK(j)'
      BY <2>1, <2>2, <2>4, <2>6, <2>7 DEF PackedOK
    <2> QED BY <2>2, <2>8 DEF ArchiveOK, WalkOK
  <1> QED BY <1>1, <1>2 DEF ArchiveAnswer

LEMMA ArchiveOwn ==
  ASSUME TypeOK, NEW j \in Job, JobInv(j), ArchiveOK(j), Disturbs(j),
         Begins(j) \/ Steps(j) \/ Dies(j)
  PROVE  ArchiveOK(j)'
  <1>1. StepOK(j)
    BY OwnStep
  <1>2. CASE job'[j].op # "archive"
    <2>1. job'[j].at # "pack"
      <3>1. job'[j].op \in Op /\ job'[j].at \in Stages[job'[j].op]
        BY <1>1 DEF StepOK, JobInv, StageOK, TypeOK, IsJob
      <3> QED BY <1>2, <3>1 DEF Op, Stages
    <2> QED BY <1>2, <2>1 DEF ArchiveOK, WalkOK, PackedOK, Packing
  <1>3. CASE job'[j].op = "archive" /\ Begins(j)
    <2>1. job[j] = NewJob /\ IsJob(job[j]) /\ DOMAIN job = Job
      BY <1>3, BeginsNew DEF JobInv, StageOK, TypeOK
    <2>2. \A x : ~ListBegin(j, x)
      <3> SUFFICES ASSUME NEW x, ListBegin(j, x) PROVE FALSE
        OBVIOUS
      <3> DEFINE dirs == {y \in {x} : IsDir(y)}
                 label == IF Exists(x) THEN "walk" ELSE "done"
                 answer == IF Exists(x) THEN "none" ELSE "ok"
      <3>1. job' = [job EXCEPT ![j].op = "list", ![j].path = x, ![j].dirs = dirs,
                               ![j].at = label, ![j].answer = answer]
        BY DEF ListBegin
      <3> HIDE DEF dirs, label, answer
      <3> QED BY <1>3, <2>1, <3>1 DEF IsJob
    <2>3. \A x : ~DeleteBegin(j, x)
      BY <1>3, <2>1 DEF DeleteBegin, IsJob
    <2>4. \A op \in StoreOp : \A x, payload : ~StoreBegin(j, op, x, payload)
      BY <1>3, <2>1 DEF StoreBegin, IsJob, StoreOp
    <2>5. \A op \in {"fetch", "extract"} : \A x : ~ReadBegin(j, op, x)
      BY <1>3, <2>1 DEF ReadBegin, IsJob
    <2>6. \A x, y : ~MoveBegin(j, x, y)
      BY <1>3, <2>1 DEF MoveBegin, IsJob
    <2>7. PICK x, y : ArchiveBegin(j, x, y)
      BY <1>3, <2>2, <2>3, <2>4, <2>5, <2>6 DEF Begins
    <2> QED BY <2>7, ArchiveBegins
  <1>4. CASE job'[j].op = "archive" /\ Steps(j)
    <2>1. job[j].op = "archive"
      BY <1>4, OpStays
    <2>2. job[j].at \in {"mkdir", "open", "pack", "size", "done"}
      BY <2>1 DEF JobInv, StageOK, Stages
    <2>3. CASE MkdirParent(j) \/ OpenWrite(j)
      BY <2>1, <2>3, ArchiveMkdirParent, ArchiveOpenWrite
    <2>4. CASE PackDir(j) \/ PackFile(j) \/ PackEmptyDir(j) \/ PackEnd(j) \/ ArchiveAnswer(j)
      BY <2>4, ArchivePackDir, ArchivePackFile, ArchivePackEmptyDir, ArchivePackEnd, ArchiveAnswers
    <2>5. CASE PackVanished(j)
      BY <2>5, ArchiveFails DEF PackVanished, Fails
    <2> QED BY <1>4, <2>2, <2>3, <2>4, <2>5 DEF Steps, WriteBlock, WriteEnd, OpenRead, ReadBlock,
              ReadEnd, MakeTarget, ExtractMember, MembersEnd, UnlinkTmp, Unlink, RmtreeOpen,
              RmtreeEntry, RmtreeLeave, MoveLook, MoveRename, WalkDir, WalkEnd, ListFile, ListStat,
              ListEnd
  <1>5. CASE Dies(j)
    BY <1>5, ArchiveFails DEF Dies
  <1> QED BY <1>2, <1>3, <1>4, <1>5

-----------------------------------------------------------------------------
(* The invariant.                                                          *)

LEMMA MembersInit ==
  ASSUME Init
  PROVE  MembersInv
  <1> SUFFICES ASSUME NEW j \in Job PROVE ExtractOK(j) /\ ArchiveOK(j)
    BY DEF MembersInv
  <1>1. /\ job[j].op = "none" /\ job[j].at = "new" /\ job[j].answer = "none"
    BY DEF Init, NewJob
  <1> QED BY <1>1 DEF ExtractOK, Unpacks, ArchiveOK, WalkOK, PackedOK, Packing

LEMMA MembersStutter ==
  ASSUME TypeOK, MembersInv, UNCHANGED vars
  PROVE  MembersInv'
  <1> SUFFICES ASSUME NEW j \in Job PROVE ExtractOK(j)' /\ ArchiveOK(j)'
    BY DEF MembersInv
  <1>1. /\ tree' = tree /\ node' = node /\ job' = job /\ quiet' = quiet
        /\ ExtractOK(j) /\ ArchiveOK(j)
    BY DEF vars, files, MembersInv
  <1>2. /\ \A x : (IsFile(x)' <=> IsFile(x)) /\ (IsDir(x)' <=> IsDir(x))
                  /\ (Exists(x)' <=> Exists(x)) /\ Blocks(x)' = Blocks(x)
                  /\ At(x)' = At(x) /\ Children(x)' = Children(x)
        /\ \A blocks : Wrote(j, blocks)' <=> Wrote(j, blocks)
    BY <1>1 DEF IsFile, IsDir, Exists, Blocks, At, Children, Wrote
  <1>3. /\ \A i : Extracted(j, i)' <=> Extracted(j, i)
        /\ \A i : Dest(j, i)' = Dest(j, i)
        /\ Members(j)' = Members(j) /\ Tmp(j)' = Tmp(j) /\ (Fetching(j)' <=> Fetching(j))
    BY <1>1, <1>2 DEF Extracted, Dest, Members, Tmp, Fetching
  <1>4. ExtractStage(j)' <=> ExtractStage(j)
    BY <1>1, <1>3 DEF ExtractStage
  <1>5. NextMember(j)' <=> NextMember(j)
    BY <1>1, <1>2, <1>3 DEF NextMember
  <1>6. ExtractOK(j)'
    BY <1>1, <1>2, <1>3, <1>4, <1>5 DEF ExtractOK, Unpacks, TmpGone
  <1>7. /\ \A m, x : MemberOf(j, m, x)' <=> MemberOf(j, m, x)
        /\ \A x : IsPacked(j, x)' <=> IsPacked(j, x)
        /\ \A x : Awaited(j, x)' <=> Awaited(j, x)
    BY <1>1, SameMembers DEF Awaited
  <1>8. WalkOK(j)'
    BY <1>1, <1>2, <1>7 DEF ArchiveOK, WalkOK
  <1>9. SourceOK(j) => SourceOK(j)'
    BY <1>1, <1>2, <1>7 DEF SourceOK
  <1>10. PackedOK(j)'
    BY <1>1, <1>2, <1>7, <1>9 DEF ArchiveOK, PackedOK, Packing
  <1> QED BY <1>1, <1>6, <1>8, <1>10 DEF ArchiveOK

LEMMA MembersNext ==
  ASSUME TypeOK, FileInv, MembersInv, Next
  PROVE  MembersInv'
  <1>1. PICK j \in Job : (Begins(j) \/ Steps(j) \/ Dies(j)) /\ Disturbs(j)
    BY DEF Next
  <1>2. StepOK(j) /\ JobInv(j)
    BY <1>1, OwnStep DEF FileInv
  <1>3. ExtractOK(j)' /\ ArchiveOK(j)'
    BY <1>1, <1>2, ExtractOwn, ArchiveOwn DEF MembersInv
  <1>4. ASSUME NEW k \in Job \ {j}
        PROVE  ExtractOK(k)' /\ ArchiveOK(k)'
    <2>1. /\ StageOK(k) /\ ExtractOK(k) /\ ArchiveOK(k) /\ job'[k] = job[k]
      BY <1>2 DEF FileInv, JobInv, MembersInv, StepOK
    <2> QED BY <1>1, <2>1, ExtractOthers, ArchiveOthers
  <1> QED BY <1>3, <1>4 DEF MembersInv

(* Wherever nobody else has been, an extraction has made what the members  *)
(* of its archive say that it is past, and a running archive has packed or *)
(* will still come by whatever is below its source, whatever the other     *)
(* handlers do beside it.                                                  *)
THEOREM MembersInvariance == Spec => []MembersInv
  <1>1. Init => MembersInv
    BY MembersInit
  <1>2. TypeOK /\ FileInv /\ MembersInv /\ [Next]_vars => MembersInv'
    BY MembersNext, MembersStutter
  <1> QED BY <1>1, <1>2, FileInvariance, PTL DEF Spec

(* Every member that an extraction is past is there with its contents,     *)
(* unless somebody else or a later member of the same name has overwritten *)
(* it, and an extraction that succeeds is past them all.                   *)
THEOREM ExtractsExact == Spec => []ExtractExact
  <1>1. ASSUME TypeOK, FileInv, MembersInv
        PROVE  ExtractExact
    <2> SUFFICES ASSUME NEW j \in Job, Unpacks(j)
                 PROVE  /\ \A i \in 1..job[j].done :
                             LET m == job[j].got[i]
                                 dest == job[j].to \o m.name
                             IN  /\ \A k \in i + 1..job[j].done + 1 :
                                       k <= Members(j) => job[j].got[k].name # m.name
                                 /\ dest \in quiet[j]
                                 => IF m.kind = "dir" THEN IsDir(dest)
                                                      ELSE IsFile(dest) /\ Blocks(dest) = m.blocks
                        /\ job[j].answer = "ok" =>
                             /\ job[j].done = Members(j)
                             /\ job[j].op = "unpack_artifact" /\ Tmp(j) \in quiet[j]
                                  => ~Exists(Tmp(j))
      BY DEF ExtractExact, Tmp
    <2>1. ExtractOK(j)
      BY <1>1 DEF MembersInv
    <2>2. \A i \in 1..job[j].done : Extracted(j, i)
      BY <2>1 DEF ExtractOK
    <2>3. ExtractStage(j) /\ TmpGone(j)
      BY <2>1 DEF ExtractOK
    <2> QED BY <2>2, <2>3 DEF Extracted, Dest, ExtractStage, TmpGone
  <1> QED BY <1>1, FileInvariance, MembersInvariance, PTL

(* An archive that is answered is complete, has every file of its source   *)
(* that nobody touched exactly once and with its contents, and nothing of  *)
(* untouched paths that do not exist.                                      *)
THEOREM ArchivesExact == Spec => []ArchiveExact
  <1>1. ASSUME TypeOK, FileInv, MembersInv
        PROVE  ArchiveExact
    <2> SUFFICES ASSUME NEW j \in Job, job[j].op = "archive", job[j].answer = "ok",
                        job[j].to \in quiet[j]
                 PROVE  /\ IsArchive(Blocks(job[j].to))
                        /\ \A x \in quiet[j] :
                             Below(x, job[j].path) /\ x # job[j].to =>
                               IF IsFile(x)
                                 THEN \E i \in Packed(j, x) :
                                        /\ Packed(j, x) = {i}
                                        /\ Blocks(job[j].to)[i]
                                             = Member("file", j, ArcName(j, x), Blocks(x))
                                 ELSE ~Exists(x) => Packed(j, x) = {}
      BY DEF ArchiveExact
    <2> PICK s : s = job[j].payload
      OBVIOUS
    <2>1. PICK p \in Path, to \in Path : p = job[j].path /\ to = job[j].to
      BY <1>1 DEF TypeOK, IsJob
    <2>2. /\ job[j].at = "done" /\ job[j].file = to /\ PackedOK(j) /\ Packing(j)
          /\ quiet[j] \subseteq Path
      BY <1>1, <2>1 DEF FileInv, JobInv, StageOK, MembersInv, ArchiveOK, Packing, TypeOK
    <2>3. /\ s = job[j].payload /\ s \in Seq(Range(s)) /\ s # <<>> /\ Last(s) = End(j)
          /\ Wrote(j, s) /\ SourceOK(j)
          /\ \A n \in DOMAIN s :
               (\E x \in Path : Below(x, p) /\ MemberOf(j, s[n], x)) \/ n = Len(s)
          /\ \A x \in Path, m, n \in DOMAIN s :
               Below(x, p) /\ MemberOf(j, s[m], x) /\ MemberOf(j, s[n], x) => m = n
      BY <2>1, <2>2 DEF PackedOK
    <2>4. Exists(to) /\ Blocks(to) = s
      BY <2>1, <2>2, <2>3 DEF Wrote, At, File, Blocks, Exists
    <2>5. PICK k \in Nat \ {0} : k = Len(s) /\ DOMAIN s = 1..k /\ s[k] = End(j)
      <3>1. Len(s) \in Nat \ {0} /\ DOMAIN s = 1..Len(s)
        BY <2>3, EmptySeq, LenProperties
      <3> QED BY <2>3, <3>1 DEF Last
    <2>6. ASSUME NEW n \in 1..k - 1
          PROVE  IsMember(s[n]) /\ s[n].by = j
      <3>1. PICK x \in Path : Below(x, p) /\ MemberOf(j, s[n], x)
        BY <2>3, <2>5
      <3>2. /\ s[n].kind \in {"file", "dir"} /\ s[n].blocks \in Seq(Range(s[n].blocks))
            /\ s[n] = Member(s[n].kind, j, ArcName(j, x), s[n].blocks)
        BY <3>1 DEF MemberOf
      <3>3. s[n].by = j /\ s[n].name = ArcName(j, x)
        BY <3>2 DEF Member
      <3>4. Under(x, p)
        BY <3>1, PathIsSeq, UnderOrder
      <3>5. PICK name : name = s[n].name
        OBVIOUS
      <3> DEFINE v == Last(p)
      <3>6. name \in Seq(Range(name))
        <4>1. name = <<v>> \o SubSeq(x, Len(p) + 1, Len(x))
          BY <2>1, <3>3, <3>5 DEF ArcName
        <4> HIDE DEF v
        <4> QED BY <3>4, <4>1, ArcNameIs
      <3> QED BY <3>2, <3>3, <3>5, <3>6 DEF IsMember, MemberKind
    <2>7. IsArchive(s)
      <3>1. Last(s) = s[k] /\ s[k].kind = "end" /\ s[k].by = j
        BY <2>3, <2>5 DEF End
      <3>2. \A n \in 1..k : s[n].by = j
        BY <2>6, <3>1
      <3> QED BY <2>3, <2>5, <2>6, <3>1, <3>2 DEF IsArchive
    <2>8. ASSUME NEW x \in quiet[j], Below(x, p), x # to
          PROVE  /\ IsFile(x) => \E i \in Packed(j, x) :
                                   /\ Packed(j, x) = {i}
                                   /\ s[i] = Member("file", j, ArcName(j, x), Blocks(x))
                 /\ ~Exists(x) => Packed(j, x) = {}
      <3>1. x \in Path
        BY <2>2
      <3>2. ASSUME NEW n \in Packed(j, x)
            PROVE  n \in DOMAIN s /\ MemberOf(j, s[n], x)
        <4>1. n \in DOMAIN s /\ s[n].kind \in MemberKind /\ s[n].name = ArcName(j, x)
          BY <2>1, <2>4 DEF Packed
        <4>2. n # k
          BY <2>5, <4>1 DEF End, MemberKind
        <4>3. PICK y \in Path : Below(y, p) /\ MemberOf(j, s[n], y)
          BY <2>3, <2>5, <4>1, <4>2
        <4>4. s[n].name = ArcName(j, y)
          BY <4>3 DEF MemberOf, Member
        <4>5. y = x
          BY <1>1, <2>1, <2>8, <3>1, <4>1, <4>3, <4>4, ArcNamesApart
        <4> QED BY <4>1, <4>3, <4>5
      <3>3. ASSUME NEW n \in DOMAIN s, MemberOf(j, s[n], x)
            PROVE  n \in Packed(j, x)
        <4>1. s[n].kind \in MemberKind /\ s[n].name = ArcName(j, x)
          BY <3>3 DEF MemberOf, Member, MemberKind
        <4> QED BY <2>1, <2>4, <4>1 DEF Packed
      <3>4. ASSUME NEW n \in DOMAIN s, MemberOf(j, s[n], x)
            PROVE  /\ Exists(x) /\ (s[n].kind = "file" <=> IsFile(x))
                   /\ IsFile(x) => s[n].blocks = Blocks(x)
        BY <2>1, <2>3, <2>8, <3>4 DEF SourceOK
      <3>5. ASSUME IsFile(x)
            PROVE  \E i \in Packed(j, x) :
                     /\ Packed(j, x) = {i}
                     /\ s[i] = Member("file", j, ArcName(j, x), Blocks(x))
        <4>1. PICK i \in DOMAIN s : MemberOf(j, s[i], x)
          BY <2>1, <2>2, <2>3, <2>8, <3>5 DEF SourceOK, Awaited, IsPacked
        <4>2. s[i] = Member("file", j, ArcName(j, x), Blocks(x))
          BY <3>4, <3>5, <4>1 DEF MemberOf
        <4>3. \A n \in Packed(j, x) : n = i
          BY <2>3, <2>8, <3>1, <3>2, <4>1
        <4> QED BY <3>3, <4>1, <4>2, <4>3
      <3>6. ~Exists(x) => Packed(j, x) = {}
        BY <3>2, <3>4
      <3> QED BY <3>5, <3>6
    <2> QED BY <2>1, <2>4, <2>7, <2>8
  <1> QED BY <1>1, FileInvariance, MembersInvariance, PTL

-----------------------------------------------------------------------------
(* Where the blocks of archives are from.                                  *)

(* A job that is over does nothing any more. *)
LEMMA DoneStops ==
  ASSUME NEW j \in Job, Begins(j) \/ Steps(j) \/ Dies(j)
  PROVE  job[j].at # "done"
  BY BeginsNew DEF Steps, Dies, Running, MkdirParent, OpenWrite, WriteBlock, WriteEnd, OpenRead,
     ReadBlock, ReadEnd, MakeTarget, ExtractMember, MembersEnd, UnlinkTmp, Unlink, RmtreeOpen,
     RmtreeEntry, RmtreeLeave, MoveLook, MoveRename, WalkDir, WalkEnd, ListFile, ListStat, ListEnd,
     PackDir, PackFile, PackVanished, PackEmptyDir, PackEnd, ArchiveAnswer

(* What changes what a job writes or has read. *)
Remembers(j) ==
  \/ ReadBlock(j) \/ ExtractMember(j) \/ PackFile(j) \/ PackEmptyDir(j) \/ PackEnd(j)

LEMMA MemoryStays ==
  ASSUME TypeOK, NEW j \in Job, Steps(j) \/ Dies(j), ~Remembers(j)
  PROVE  job'[j].payload = job[j].payload /\ job'[j].got = job[j].got
  <1> DEFINE Same == job'[j].payload = job[j].payload /\ job'[j].got = job[j].got
  <1> SUFFICES Same
    OBVIOUS
  <1>1. IsJob(job[j]) /\ DOMAIN job = Job
    BY DEF TypeOK
  <1>2. \A label : Goto(j, label) => Same
    BY <1>1 DEF Goto, IsJob
  <1>3. \A answer : Ends(j, answer) => Same
    BY <1>1 DEF Ends, IsJob
  <1>4. CASE MkdirParent(j) \/ OpenWrite(j)
    <2> DEFINE label == IF job[j].op = "archive" THEN "pack" ELSE "write"
               dirs == IF job[j].op = "archive" THEN {job[j].path} ELSE {}
    <2>1. \/ job' = [job EXCEPT ![j].fd = tree'[job[j].file], ![j].pos = 0, ![j].at = label,
                                ![j].dirs = dirs]
          \/ Ends(j, "failed") \/ Goto(j, AfterMkdir[job[j].op])
      BY <1>4 DEF MkdirParent, OpenWrite, Fails
    <2> HIDE DEF label, dirs
    <2> QED BY <1>1, <1>2, <1>3, <2>1 DEF IsJob
  <1>5. CASE WriteBlock(j) \/ WriteEnd(j) \/ MembersEnd(j) \/ UnlinkTmp(j) \/ Dies(j)
    BY <1>1, <1>2, <1>3, <1>5 DEF WriteBlock, WriteEnd, MembersEnd, UnlinkTmp, Dies, Fails, IsJob
  <1>6. CASE OpenRead(j) \/ ReadEnd(j) \/ MakeTarget(j)
    BY <1>1, <1>2, <1>3, <1>6 DEF OpenRead, ReadEnd, MakeTarget, Fails, IsJob
  <1>7. CASE Unlink(j) \/ RmtreeOpen(j) \/ RmtreeLeave(j)
    <2>1. ASSUME NEW stack, job' = [job EXCEPT ![j].stack = stack]
          PROVE  Same
      BY <1>1, <2>1 DEF IsJob
    <2> QED BY <1>3, <1>7, <2>1 DEF Unlink, RmtreeOpen, RmtreeLeave, Fails
  <1>8. CASE RmtreeEntry(j)
    <2>1. PICK e : LET n == Len(job[j].stack)
                       x == Append(PathOf(job[j].stack[n].dir), e.name)
                       rest == [job EXCEPT ![j].stack[n].left = @ \ {e}]
                   IN  \/ job' = rest
                       \/ job' = [rest EXCEPT ![j].stack = Append(@, Opened(x))]
                       \/ Ends(j, "failed")
      BY <1>8 DEF RmtreeEntry, Fails
    <2> DEFINE n == Len(job[j].stack)
               opened == Opened(Append(PathOf(job[j].stack[n].dir), e.name))
    <2> HIDE DEF n, opened
    <2>2. \/ job' = [job EXCEPT ![j].stack[n].left = @ \ {e}]
          \/ job' = [[job EXCEPT ![j].stack[n].left = @ \ {e}]
                       EXCEPT ![j].stack = Append(@, opened)]
          \/ Ends(j, "failed")
      BY <2>1 DEF n, opened
    <2> QED BY <1>1, <1>3, <2>2 DEF IsJob
  <1>9. CASE MoveLook(j) \/ MoveRename(j) \/ WalkEnd(j) \/ ListEnd(j)
    BY <1>1, <1>2, <1>3, <1>9 DEF MoveLook, MoveRename, WalkEnd, ListEnd, Fails, IsJob
  <1>10. CASE WalkDir(j) \/ ListFile(j) \/ ListStat(j)
    <2>1. ASSUME NEW dirs, NEW found,
                 job' = [job EXCEPT ![j].dirs = dirs, ![j].found = found]
          PROVE  Same
      BY <1>1, <2>1 DEF IsJob
    <2>2. CASE WalkDir(j)
      BY <2>1, <2>2 DEF WalkDir
    <2>3. CASE ListFile(j)
      <3>1. PICK x : \/ job' = [job EXCEPT ![j].at = "stat", ![j].file = x]
                     \/ job' = [job EXCEPT ![j].found = @ \ {x}]
        BY <2>3 DEF ListFile
      <3> QED BY <1>1, <3>1 DEF IsJob
    <2>4. CASE ListStat(j)
      <3>1. \/ \E s : job' = [job EXCEPT ![j].at = "list", ![j].found = @ \ {job[j].file},
                                         ![j].listed = @ \cup {s}]
            \/ Ends(j, "failed")
        BY <2>4 DEF ListStat, Fails
      <3> QED BY <1>1, <1>3, <3>1 DEF IsJob
    <2> QED BY <1>10, <2>2, <2>3, <2>4
  <1>11. CASE PackDir(j)
    <2>1. PICK x \in job[j].dirs :
            LET entries == IF IsDir(x) THEN Children(x) ELSE {}
            IN  job' = [job EXCEPT ![j].dirs = (@ \ {x}) \cup {y \in entries : IsDir(y)},
                                   ![j].found = {y \in entries : IsFile(y)},
                                   ![j].empties = {y \in entries : IsDir(y)}]
      BY <1>11 DEF PackDir
    <2> DEFINE entries == IF IsDir(x) THEN Children(x) ELSE {}
               folders == {y \in entries : IsDir(y)}
               others == {y \in entries : IsFile(y)}
    <2>2. job' = [job EXCEPT ![j].dirs = (@ \ {x}) \cup folders, ![j].found = others,
                             ![j].empties = folders]
      BY <2>1
    <2> HIDE DEF folders, others
    <2> QED BY <1>1, <2>2 DEF IsJob
  <1>12. CASE PackVanished(j) \/ ArchiveAnswer(j)
    BY <1>1, <1>3, <1>12 DEF PackVanished, ArchiveAnswer, Fails, IsJob
  <1> QED BY <1>4, <1>5, <1>6, <1>7, <1>8, <1>9, <1>10, <1>11, <1>12 DEF Steps, Remembers

(* An archive is only added to. *)
LEMMA PayloadGrows ==
  ASSUME TypeOK, NEW j \in Job, JobInv(j), ArchiveOK(j), job[j].op = "archive",
         Steps(j) \/ Dies(j)
  PROVE  /\ job'[j].op = "archive"
         /\ \A n \in DOMAIN job[j].payload : /\ n \in DOMAIN job'[j].payload
                                             /\ job'[j].payload[n] = job[j].payload[n]
  <1>1. job'[j].op = "archive"
    BY OpStays
  <1>2. CASE ~Remembers(j)
    BY <1>1, <1>2, MemoryStays
  <1>3. CASE Remembers(j)
    <2>1. job[j].at = "pack"
      <3>1. job[j].at \in {"mkdir", "open", "pack", "size", "done"}
        BY DEF JobInv, StageOK, Stages
      <3> QED BY <1>3, <3>1 DEF Remembers, ReadBlock, ExtractMember, PackFile, PackEmptyDir, PackEnd
    <2>2. IsJob(job[j]) /\ DOMAIN job = Job /\ job[j].payload \in Seq(Range(job[j].payload))
      BY <2>1 DEF TypeOK, ArchiveOK, PackedOK, Packing
    <2>3. \/ job'[j].payload = job[j].payload /\ job'[j].path = job[j].path
          \/ \E m : job'[j].payload = Append(job[j].payload, m) /\ job'[j].path = job[j].path
      <3>1. CASE PackFile(j)
        <4>1. PICK x \in job[j].found :
                \E m : job' = [job EXCEPT ![j].found = @ \ {x}, ![j].pos = @ + 1,
                                          ![j].payload = Append(@, m)]
          BY <3>1 DEF PackFile
        <4> QED BY <2>2, <4>1 DEF IsJob
      <3>2. CASE PackEmptyDir(j)
        <4>1. PICK x \in job[j].empties :
                \/ \E m : job' = [job EXCEPT ![j].empties = @ \ {x}, ![j].pos = @ + 1,
                                             ![j].payload = Append(@, m)]
                \/ job' = [job EXCEPT ![j].empties = @ \ {x}]
          BY <3>2 DEF PackEmptyDir
        <4> QED BY <2>2, <4>1 DEF IsJob
      <3>3. CASE PackEnd(j)
        BY <2>2, <3>3 DEF PackEnd, IsJob
      <3> QED BY <1>3, <2>1, <3>1, <3>2, <3>3 DEF Remembers, ReadBlock, ExtractMember
    <2>4. ASSUME NEW m, job'[j].payload = Append(job[j].payload, m), job'[j].path = job[j].path,
                 NEW n \in DOMAIN job[j].payload
          PROVE  n \in DOMAIN job'[j].payload /\ job'[j].payload[n] = job[j].payload[n]
      <3>1. /\ Len(job[j].payload) \in Nat
            /\ DOMAIN job[j].payload = 1..Len(job[j].payload)
            /\ DOMAIN job'[j].payload = 1..Len(job[j].payload) + 1
            /\ job'[j].payload[n] = job[j].payload[n]
        BY <2>2, <2>4, MorePacked
      <3> QED BY <3>1
    <2> QED BY <1>1, <2>3, <2>4
  <1> QED BY <1>2, <1>3

(* So what was genuine stays so. *)
LEMMA GenuineStays ==
  ASSUME TypeOK, NEW j \in Job, JobInv(j), ArchiveOK(j), StepOK(j),
         Begins(j) \/ Steps(j) \/ Dies(j), NEW b, NEW n, Genuine(b, n)
  PROVE  Genuine(b, n)'
  <1> SUFFICES ASSUME b.kind \in MemberKind \cup {"end"}, b.by \in Job
               PROVE  \/ job'[b.by].answer = "failed"
                      \/ /\ job'[b.by].op = "archive" /\ n \in DOMAIN job'[b.by].payload
                         /\ job'[b.by].payload[n] = b
    BY DEF Genuine
  <1>1. \/ job[b.by].answer = "failed"
        \/ job[b.by].op = "archive" /\ n \in DOMAIN job[b.by].payload /\ job[b.by].payload[n] = b
    BY DEF Genuine
  <1>2. CASE b.by # j
    BY <1>1, <1>2 DEF StepOK
  <1>3. CASE b.by = j
    <2>1. job[j].answer # "failed"
      BY DoneStops DEF JobInv, StageOK
    <2>2. job[j].op = "archive" /\ job[j].at # "new"
      BY <1>1, <1>3, <2>1, StageIs DEF JobInv
    <2> QED BY <1>1, <1>3, <2>1, <2>2, PayloadGrows, BeginsNew
  <1> QED BY <1>2, <1>3

(* New contents are genuine when their blocks are. *)
LEMMA GenuineGrows ==
  ASSUME TypeOK, NEW j \in Job, JobInv(j), ArchiveOK(j), StepOK(j),
         Begins(j) \/ Steps(j) \/ Dies(j),
         NEW S, Contents \subseteq S, AllGenuine(S), NEW T,
         \A t \in T : /\ t \in Seq(Range(t))
                      /\ \A n \in DOMAIN t :
                           /\ Genuine(t[n], n)'
                           /\ t[n].kind \in MemberKind => t[n].blocks \in S \cup T,
         \A i \in Inode : node'[i].blocks \in S \cup T,
         job'[j].payload \in S \cup T, job'[j].got \in S \cup T
  PROVE  GenuineInv'
  <1>1. Contents' \subseteq S \cup T
    BY DEF Contents, StepOK
  <1>2. AllGenuine(S \cup T)'
    BY GenuineStays DEF AllGenuine
  <1> QED BY <1>1, <1>2 DEF GenuineInv

(* What files hold after a step that does not write a block. *)
Writes(j) ==
  WriteBlock(j) \/ PackFile(j) \/ PackVanished(j) \/ PackEmptyDir(j) \/ PackEnd(j)

LEMMA NoNewBlocks ==
  ASSUME TypeOK, NEW j \in Job, Steps(j) \/ Dies(j), ~Writes(j) \/ UNCHANGED files,
         NEW i \in Inode
  PROVE  node'[i].blocks \in {node[i].blocks, <<>>}
  <1>1. IsNode(node[i]) /\ DOMAIN node = Inode /\ TreeOK
    BY DEF TypeOK, TreeOK, IsTree
  <1>2. ASSUME NEW S, NEW held, LinkNew(S, held, Directory) \/ LinkNew(S, held, File(<<>>))
        PROVE  node'[i].blocks \in {node[i].blocks, <<>>}
    <2>1. ASSUME NEW content, LinkNew(S, held, content), content.blocks = <<>>
          PROVE  node'[i].blocks \in {node[i].blocks, <<>>}
      <3> DEFINE R == Range(CHOOSE f \in Fresh(S, held) : TRUE)
      <3>1. node' = [k \in Inode |-> IF k \in R THEN content ELSE node[k]]
        BY <2>1 DEF LinkNew
      <3> HIDE DEF R
      <3> QED BY <2>1, <3>1
    <2> QED BY <1>2, <2>1 DEF Directory, File
  <1>3. CASE UNCHANGED node
    BY <1>3
  <1>4. CASE MkdirParent(j) \/ MakeTarget(j) \/ ExtractMember(j)
    BY <1>2, <1>3, <1>4 DEF MkdirParent, MakeTarget, ExtractMember, Mkdir, Fails, files
  <1>5. CASE OpenWrite(j)
    <2>1. ASSUME NEW x, Exists(x), node' = [node EXCEPT ![tree[x]].blocks = <<>>]
          PROVE  node'[i].blocks \in {node[i].blocks, <<>>}
      BY <1>1, <2>1 DEF IsNode
    <2> QED BY <1>2, <1>3, <1>5, <2>1 DEF OpenWrite, Create, Fails, files
  <1>6. CASE Writes(j)
    BY <1>3, <1>6 DEF files
  <1>7. CASE \/ WriteEnd(j) \/ OpenRead(j) \/ ReadBlock(j) \/ ReadEnd(j) \/ MembersEnd(j)
             \/ UnlinkTmp(j) \/ Unlink(j) \/ RmtreeOpen(j) \/ RmtreeEntry(j) \/ RmtreeLeave(j)
    BY <1>3, <1>7 DEF WriteEnd, OpenRead, ReadBlock, ReadEnd, MembersEnd, UnlinkTmp, Unlink,
       RmtreeOpen, RmtreeEntry, RmtreeLeave, Unlinked, Fails, files
  <1>8. CASE \/ MoveLook(j) \/ MoveRename(j) \/ WalkDir(j) \/ WalkEnd(j) \/ ListFile(j) \/ ListStat(j)
             \/ ListEnd(j) \/ PackDir(j) \/ ArchiveAnswer(j) \/ Dies(j)
    BY <1>3, <1>8 DEF MoveLook, MoveRename, Rename, WalkDir, WalkEnd, ListFile, ListStat,
       ListEnd, PackDir, ArchiveAnswer, Dies, Fails, files
  <1> QED BY <1>4, <1>5, <1>6, <1>7, <1>8 DEF Steps, Writes

(* What files hold after a block was written: one of them something new.   *)
OneNew(S, T) ==
  \E t : /\ \A i \in Inode : node'[i].blocks \in S \cup {t}
        /\ t \in Seq(Range(t))
        /\ \A n \in DOMAIN t :
             /\ Genuine(t[n], n)'
             /\ t[n].kind \in MemberKind => t[n].blocks \in S \cup T

LEMMA PutGenuine ==
  ASSUME TypeOK, NEW j \in Job, JobInv(j), job[j].at \in {"write", "pack"}, NEW b, Put(j, b),
         NEW S, Contents \subseteq S, AllGenuine(S), \A c, n : Genuine(c, n) => Genuine(c, n)',
         NEW p \in Nat, p = job[j].pos, Genuine(b, p + 1)',
         NEW T, b.kind \in MemberKind => b.blocks \in S \cup T
  PROVE  OneNew(S, T)
  <1>1. PICK fd \in Inode : fd = job[j].fd
    BY DEF JobInv, WriterOK
  <1>2. PICK s : s = node[fd].blocks
    OBVIOUS
  <1>3. s \in S /\ s \in Seq(Range(s))
    BY <1>1, <1>2 DEF Contents, AllGenuine
  <1>4. PICK t : t = WriteAt(s, p + 1, b, Hole)
    OBVIOUS
  <1>5. \A i \in Inode : node'[i].blocks \in S \cup {t}
    <2>1. node' = [node EXCEPT ![fd].blocks = t]
      BY <1>1, <1>2, <1>4 DEF Put
    <2>2. \A i \in Inode : node[i].blocks \in S /\ IsNode(node[i])
      BY DEF Contents, TypeOK, TreeOK, IsTree
    <2>3. DOMAIN node = Inode
      BY DEF TypeOK, TreeOK, IsTree
    <2> QED BY <2>1, <2>2, <2>3 DEF IsNode
  <1>6. t \in Seq(Range(t))
    <2>1. p + 1 \in Nat \ {0}
      OBVIOUS
    <2> QED BY <1>3, <1>4, <2>1, WriteAtIs
  <1>7. Len(s) \in Nat /\ DOMAIN s = 1..Len(s)
    BY <1>3, LenProperties
  <1>8. ASSUME NEW n \in DOMAIN t
        PROVE  /\ Genuine(t[n], n)'
               /\ t[n].kind \in MemberKind => t[n].blocks \in S \cup T
    <2>1. n \in Nat \ {0} /\ (n = p + 1 \/ n \in DOMAIN s \/ t[n] = Hole)
          /\ t[n] = IF n = p + 1 THEN b ELSE IF n <= Len(s) THEN s[n] ELSE Hole
      <3>1. Max({p + 1, Len(s)}) \in Nat
        BY <1>7, MaxOfTwo
      <3>2. n \in 1..Max({p + 1, Len(s)})
        BY <1>4, <1>8 DEF WriteAt
      <3> QED BY <1>4, <1>7, <3>1, <3>2 DEF WriteAt
    <2>2. CASE n = p + 1
      BY <2>1, <2>2
    <2>3. CASE n # p + 1 /\ n \in DOMAIN s
      <3>1. t[n] = s[n]
        BY <1>7, <2>1, <2>3
      <3>2. Genuine(s[n], n) /\ (s[n].kind \in MemberKind => s[n].blocks \in S)
        BY <1>3, <2>3 DEF AllGenuine
      <3> QED BY <3>1, <3>2
    <2>4. CASE t[n] = Hole
      BY <2>4 DEF Hole, Genuine, MemberKind
    <2> QED BY <2>1, <2>2, <2>3, <2>4
  <1> QED BY <1>5, <1>6, <1>8 DEF OneNew

LEMMA GenuineBegins ==
  ASSUME TypeOK, NEW j \in Job, JobInv(j), ArchiveOK(j), StepOK(j), Begins(j), GenuineInv,
         NEW G, AllGenuine(G)', \A op \in StoreOp : Payloads[j][op] \subseteq G
  PROVE  GenuineInv'
  <1>1. PICK S : Contents \subseteq S /\ AllGenuine(S)
    BY DEF GenuineInv
  <1>2. /\ job[j] = NewJob /\ IsJob(job[j]) /\ DOMAIN job = Job /\ node' = node
        /\ <<>> \in S
    <2>1. job[j] = NewJob /\ node' = node
      BY BeginsNew DEF JobInv, StageOK, files
    <2>2. job[j].payload = <<>>
      BY <2>1 DEF NewJob
    <2>3. job[j].payload \in S
      BY <1>1 DEF Contents
    <2> QED BY <2>1, <2>2, <2>3 DEF TypeOK
  <1>3. \A i \in Inode : node'[i].blocks \in S
    BY <1>1, <1>2 DEF Contents
  <1>4. job'[j].payload \in S \cup G /\ job'[j].got \in S \cup G
    <2> DEFINE Here == job'[j].payload \in S \cup G /\ job'[j].got \in S \cup G
    <2>1. \A x : ListBegin(j, x) => Here
      <3> SUFFICES ASSUME NEW x, ListBegin(j, x) PROVE Here
        OBVIOUS
      <3> DEFINE dirs == {y \in {x} : IsDir(y)}
                 label == IF Exists(x) THEN "walk" ELSE "done"
                 answer == IF Exists(x) THEN "none" ELSE "ok"
      <3>1. job' = [job EXCEPT ![j].op = "list", ![j].path = x, ![j].dirs = dirs,
                               ![j].at = label, ![j].answer = answer]
        BY DEF ListBegin
      <3> HIDE DEF dirs, label, answer
      <3> QED BY <1>2, <3>1 DEF IsJob, NewJob
    <2>2. \A x : DeleteBegin(j, x) => Here
      BY <1>2 DEF DeleteBegin, IsJob, NewJob
    <2>3. \A op, x : ReadBegin(j, op, x) => Here
      BY <1>2 DEF ReadBegin, IsJob, NewJob
    <2>4. \A x, y : MoveBegin(j, x, y) \/ ArchiveBegin(j, x, y) => Here
      BY <1>2 DEF MoveBegin, ArchiveBegin, IsJob, NewJob
    <2>5. ASSUME NEW op \in StoreOp, NEW x, NEW payload \in Payloads[j][op],
                 StoreBegin(j, op, x, payload)
          PROVE  Here
      <3> DEFINE file == IF op = "unpack_artifact" THEN Sibling(x, TmpName) ELSE x
                 got == IF op = "unpack" THEN payload ELSE <<>>
                 new == IF op = "unpack" THEN <<>> ELSE payload
      <3>1. job' = [job EXCEPT ![j].at = "mkdir", ![j].op = op, ![j].to = x, ![j].file = file,
                               ![j].payload = new, ![j].got = got]
        BY <2>5 DEF StoreBegin
      <3>2. got \in S \cup G /\ new \in S \cup G
        BY <1>2
      <3> HIDE DEF file, got, new
      <3>3. job'[j].payload = new /\ job'[j].got = got
        BY <1>2, <3>1 DEF IsJob
      <3> QED BY <3>2, <3>3
    <2> HIDE DEF Here
    <2>6. Here
      BY <2>1, <2>2, <2>3, <2>4, <2>5 DEF Begins
    <2> QED BY <2>6 DEF Here
  <1>5. \A t \in G : /\ t \in Seq(Range(t))
                     /\ \A n \in DOMAIN t :
                          /\ Genuine(t[n], n)'
                          /\ t[n].kind \in MemberKind => t[n].blocks \in S \cup G
    BY DEF AllGenuine
  <1> QED BY <1>1, <1>3, <1>4, <1>5, GenuineGrows

(* A step that writes no block. *)
LEMMA GenuineIdle ==
  ASSUME TypeOK, NEW j \in Job, JobInv(j), ArchiveOK(j), StepOK(j), Steps(j) \/ Dies(j),
         ~Writes(j) \/ UNCHANGED files,
         NEW S, Contents \subseteq S, AllGenuine(S), job'[j].payload \in S, job'[j].got \in S
  PROVE  GenuineInv'
  <1> DEFINE T == {<<>>}
  <1>1. \A i \in Inode : node'[i].blocks \in S \cup T
    BY NoNewBlocks DEF Contents
  <1>2. \A t \in T : /\ t \in Seq(Range(t))
                     /\ \A n \in DOMAIN t :
                          /\ Genuine(t[n], n)'
                          /\ t[n].kind \in MemberKind => t[n].blocks \in S \cup T
    BY EmptySeq
  <1>3. job'[j].payload \in S \cup T /\ job'[j].got \in S \cup T
    OBVIOUS
  <1> HIDE DEF T
  <1> QED BY <1>1, <1>2, <1>3, GenuineGrows

(* One that reads a block. *)
LEMMA GenuineRead ==
  ASSUME TypeOK, NEW j \in Job, JobInv(j), ExtractOK(j), ArchiveOK(j), StepOK(j), ReadBlock(j),
         NEW S, Contents \subseteq S, AllGenuine(S)
  PROVE  GenuineInv'
  <1> PICK s, t, blocks : s = job[j].got /\ t = job'[j].got /\ blocks = node[job[j].fd].blocks
    OBVIOUS
  <1>1. /\ s = job[j].got /\ t = job'[j].got /\ blocks = node[job[j].fd].blocks
        /\ job[j].at = "read" /\ IsJob(job[j]) /\ DOMAIN job = Job /\ node' = node
    BY DEF ReadBlock, TypeOK, files
  <1>2. job[j].fd \in Inode
    <2>1. job[j].op \in {"unpack_artifact", "fetch", "extract"}
      BY <1>1, StageIs DEF JobInv
    <2> QED BY <1>1, <2>1 DEF JobInv, FetchOK, ExtractOK, ExtractStage, Unpacks
  <1>3. s \in S /\ blocks \in S /\ s \in Seq(Range(s)) /\ blocks \in Seq(Range(blocks))
    BY <1>1, <1>2 DEF Contents, AllGenuine
  <1>4. PICK b : b = blocks[Len(s) + 1]
    OBVIOUS
  <1>5. /\ Len(s) \in Nat /\ Len(s) + 1 \in DOMAIN blocks
        /\ job' = [job EXCEPT ![j].got = Append(@, b)]
    <2>1. Len(s) \in Nat /\ Len(blocks) \in Nat /\ DOMAIN blocks = 1..Len(blocks)
      BY <1>3, LenProperties
    <2> QED BY <1>1, <1>4, <2>1 DEF ReadBlock
  <1>6. t = Append(s, b) /\ job'[j].payload = job[j].payload
    BY <1>1, <1>5 DEF IsJob
  <1>7. /\ t \in Seq(Range(t)) /\ DOMAIN t = 1..Len(s) + 1 /\ DOMAIN s = 1..Len(s)
        /\ t[Len(s) + 1] = b /\ \A n \in 1..Len(s) : t[n] = s[n]
    <2> DEFINE R == Range(s) \cup {b}
    <2>1. s \in Seq(R) /\ b \in R
      BY <1>3, SeqMonotonic
    <2> HIDE DEF R
    <2>2. /\ t \in Seq(R) /\ Len(t) = Len(s) + 1 /\ t[Len(s) + 1] = b
          /\ \A n \in 1..Len(s) : t[n] = s[n]
      BY <1>6, <2>1, AppendProperties
    <2> QED BY <1>3, <2>2, LenProperties, SeqOfRange
  <1>8. ASSUME NEW n \in DOMAIN t
        PROVE  Genuine(t[n], n)' /\ (t[n].kind \in MemberKind => t[n].blocks \in S)
    <2>1. Genuine(t[n], n) /\ (t[n].kind \in MemberKind => t[n].blocks \in S)
      <3>1. CASE n \in 1..Len(s)
        BY <1>3, <1>7, <3>1 DEF AllGenuine
      <3>2. CASE n = Len(s) + 1
        BY <1>3, <1>4, <1>5, <1>7, <3>2 DEF AllGenuine
      <3> QED BY <1>5, <1>7, <3>1, <3>2
    <2> QED BY <2>1, GenuineStays DEF Steps
  <1>9. job'[j].payload \in S
    BY <1>6 DEF Contents
  <1>10. /\ \A i \in Inode : node'[i].blocks \in S \cup {t}
         /\ job'[j].payload \in S \cup {t} /\ job'[j].got \in S \cup {t}
    BY <1>1, <1>9 DEF Contents
  <1>11. \A u \in {t} : /\ u \in Seq(Range(u))
                        /\ \A n \in DOMAIN u :
                             /\ Genuine(u[n], n)'
                             /\ u[n].kind \in MemberKind => u[n].blocks \in S \cup {t}
    BY <1>7, <1>8
  <1> QED BY <1>10, <1>11, GenuineGrows DEF Steps

(* One that writes a block of what is in memory. *)
LEMMA GenuineWrite ==
  ASSUME TypeOK, NEW j \in Job, JobInv(j), ArchiveOK(j), StepOK(j), WriteBlock(j),
         NEW S, Contents \subseteq S, AllGenuine(S)
  PROVE  GenuineInv'
  <1> PICK s : s = job[j].payload
    OBVIOUS
  <1>1. PICK p \in Nat : p = job[j].pos
    BY DEF TypeOK, IsJob
  <1>2. /\ job[j].at = "write" /\ p < Len(s) /\ Put(j, s[p + 1])
        /\ job' = [job EXCEPT ![j].pos = @ + 1] /\ IsJob(job[j]) /\ DOMAIN job = Job
    BY <1>1 DEF WriteBlock, TypeOK
  <1>3. s \in S /\ s \in Seq(Range(s)) /\ job[j].got \in S
    BY <1>1 DEF Contents, AllGenuine
  <1>4. p + 1 \in DOMAIN s
    BY <1>2, <1>3, LenProperties
  <1> PICK b : b = s[p + 1]
    OBVIOUS
  <1>5. Genuine(b, p + 1) /\ (b.kind \in MemberKind => b.blocks \in S)
    BY <1>3, <1>4 DEF AllGenuine
  <1>6. \A c, n : Genuine(c, n) => Genuine(c, n)'
    BY GenuineStays DEF Steps
  <1> DEFINE E == {<<>>}
  <1> HIDE DEF E
  <1>7. PICK t : /\ \A i \in Inode : node'[i].blocks \in S \cup {t}
                 /\ t \in Seq(Range(t))
                 /\ \A n \in DOMAIN t :
                      /\ Genuine(t[n], n)'
                      /\ t[n].kind \in MemberKind => t[n].blocks \in S \cup E
    <2>1. Put(j, b) /\ Genuine(b, p + 1)' /\ (b.kind \in MemberKind => b.blocks \in S \cup E)
      BY <1>2, <1>5, <1>6
    <2>2. job[j].at \in {"write", "pack"}
      BY <1>2
    <2>3. OneNew(S, E)
      BY <1>1, <1>6, <2>1, <2>2, PutGenuine
    <2> QED BY <2>3 DEF OneNew
  <1>8. job'[j].payload = s /\ job'[j].got = job[j].got
    BY <1>1, <1>2 DEF IsJob
  <1> DEFINE T == {t, <<>>}
  <1>9. /\ \A i \in Inode : node'[i].blocks \in S \cup T
        /\ job'[j].payload \in S \cup T /\ job'[j].got \in S \cup T
    BY <1>3, <1>7, <1>8
  <1>10. \A u \in T : /\ u \in Seq(Range(u))
                      /\ \A n \in DOMAIN u :
                           /\ Genuine(u[n], n)'
                           /\ u[n].kind \in MemberKind => u[n].blocks \in S \cup T
    <2>1. <<>> \in Seq(Range(<<>>)) /\ DOMAIN <<>> = {}
      BY EmptySeq
    <2> QED BY <1>7, <2>1 DEF E
  <1> HIDE DEF T
  <1> QED BY <1>9, <1>10, GenuineGrows DEF Steps

(* One that puts a block of its own at the end of an archive. *)
LEMMA GenuinePack ==
  ASSUME TypeOK, NEW j \in Job, JobInv(j), ArchiveOK(j), StepOK(j), Steps(j),
         job[j].at = "pack", NEW m, Put(j, m), job'[j].op = "archive",
         job'[j].payload = Append(job[j].payload, m), job'[j].got = job[j].got,
         NEW S, Contents \subseteq S, AllGenuine(S),
         m.by = j, m.kind \in MemberKind => m.blocks \in S \cup {<<>>}
  PROVE  GenuineInv'
  <1> PICK s, u : s = job[j].payload /\ u = job'[j].payload
    OBVIOUS
  <1>1. PICK p \in Nat : p = job[j].pos /\ p = Len(s) /\ s \in Seq(Range(s))
    BY StageIs DEF JobInv, ArchiveOK, PackedOK, Packing, TypeOK, IsJob
  <1>2. u = Append(s, m) /\ s \in S /\ job[j].got \in S
    BY DEF Contents
  <1>3. /\ u \in Seq(Range(u)) /\ DOMAIN u = 1..p + 1 /\ DOMAIN s = 1..p
        /\ u[p + 1] = m /\ \A n \in 1..p : u[n] = s[n]
    <2> DEFINE R == Range(s) \cup {m}
    <2>1. s \in Seq(R) /\ m \in R
      BY <1>1, SeqMonotonic
    <2> HIDE DEF R
    <2>2. /\ u \in Seq(R) /\ Len(u) = p + 1 /\ u[p + 1] = m
          /\ \A n \in 1..p : u[n] = s[n]
      BY <1>1, <1>2, <2>1, AppendProperties
    <2> QED BY <1>1, <2>2, LenProperties, SeqOfRange
  <1>4. \A c, n : Genuine(c, n) => Genuine(c, n)'
    BY GenuineStays
  <1>5. Genuine(m, p + 1)'
    <2>1. p + 1 \in DOMAIN u
      BY <1>3
    <2> QED BY <1>3, <2>1 DEF Genuine
  <1> DEFINE E == {<<>>}
  <1>6. PICK t : /\ \A i \in Inode : node'[i].blocks \in S \cup {t}
                 /\ t \in Seq(Range(t))
                 /\ \A n \in DOMAIN t :
                      /\ Genuine(t[n], n)'
                      /\ t[n].kind \in MemberKind => t[n].blocks \in S \cup E
    <2> HIDE DEF E
    <2>1. m.kind \in MemberKind => m.blocks \in S \cup E
      BY DEF E
    <2>2. job[j].at \in {"write", "pack"}
      OBVIOUS
    <2>3. p \in Nat /\ p = job[j].pos
      BY <1>1
    <2>4. OneNew(S, E)
      BY <1>4, <1>5, <2>1, <2>2, <2>3, PutGenuine
    <2> QED BY <2>4 DEF OneNew
  <1>7. \A n \in DOMAIN u :
          /\ Genuine(u[n], n)'
          /\ u[n].kind \in MemberKind => u[n].blocks \in S \cup E
    <2> TAKE n \in DOMAIN u
    <2>1. CASE n \in 1..p
      BY <1>2, <1>3, <1>4, <2>1 DEF AllGenuine
    <2>2. CASE n = p + 1
      BY <1>3, <1>5, <2>2
    <2> QED BY <1>3, <2>1, <2>2
  <1> DEFINE T == {t, u, <<>>}
  <1>8. <<>> \in Seq(Range(<<>>)) /\ DOMAIN <<>> = {}
    BY EmptySeq
  <1>9. /\ \A i \in Inode : node'[i].blocks \in S \cup T
        /\ job'[j].payload \in S \cup T /\ job'[j].got \in S \cup T
    BY <1>2, <1>6
  <1>10. \A v \in T : /\ v \in Seq(Range(v))
                      /\ \A n \in DOMAIN v :
                           /\ Genuine(v[n], n)'
                           /\ v[n].kind \in MemberKind => v[n].blocks \in S \cup T
    BY <1>3, <1>6, <1>7, <1>8
  <1> HIDE DEF T
  <1> QED BY <1>9, <1>10, GenuineGrows

(* One that packs what it has found, or closes the archive. *)
LEMMA GenuinePackFile ==
  ASSUME TypeOK, NEW j \in Job, JobInv(j), ArchiveOK(j), StepOK(j), PackFile(j),
         NEW S, Contents \subseteq S, AllGenuine(S)
  PROVE  GenuineInv'
  <1>1. IsJob(job[j]) /\ DOMAIN job = Job /\ job[j].op = "archive" /\ job[j].at = "pack"
    BY StageIs DEF PackFile, TypeOK, JobInv
  <1>2. PICK x \in job[j].found :
          LET m == Member(IF IsDir(x) THEN "dir" ELSE "file", j, ArcName(j, x), Blocks(x))
          IN  /\ Exists(x)
              /\ Put(j, m)
              /\ job' = [job EXCEPT ![j].found = @ \ {x}, ![j].pos = @ + 1,
                                    ![j].payload = Append(@, m)]
    BY DEF PackFile
  <1> PICK m : m = Member(IF IsDir(x) THEN "dir" ELSE "file", j, ArcName(j, x), Blocks(x))
    OBVIOUS
  <1>3. /\ Exists(x) /\ Put(j, m)
        /\ job' = [job EXCEPT ![j].found = @ \ {x}, ![j].pos = @ + 1, ![j].payload = Append(@, m)]
    BY <1>2
  <1>4. job'[j].op = "archive" /\ job'[j].got = job[j].got
        /\ job'[j].payload = Append(job[j].payload, m)
    BY <1>1, <1>3 DEF IsJob
  <1>5. tree[x] \in Inode
    BY <1>3 DEF TypeOK, TreeOK, IsTree, Exists
  <1>6. m.by = j /\ m.blocks \in S
    BY <1>5 DEF Member, Blocks, Contents
  <1> QED BY <1>1, <1>3, <1>4, <1>6, GenuinePack DEF Steps

LEMMA GenuinePackEmptyDir ==
  ASSUME TypeOK, NEW j \in Job, JobInv(j), ArchiveOK(j), StepOK(j), PackEmptyDir(j),
         NEW S, Contents \subseteq S, AllGenuine(S)
  PROVE  GenuineInv'
  <1>1. IsJob(job[j]) /\ DOMAIN job = Job /\ job[j].op = "archive" /\ job[j].at = "pack"
    BY StageIs DEF PackEmptyDir, TypeOK, JobInv
  <1>2. PICK x \in job[j].empties :
          LET m == Member("dir", j, ArcName(j, x), <<>>)
          IN  IF Children(x) = {}
                THEN /\ Put(j, m)
                     /\ job' = [job EXCEPT ![j].empties = @ \ {x}, ![j].pos = @ + 1,
                                           ![j].payload = Append(@, m)]
                ELSE job' = [job EXCEPT ![j].empties = @ \ {x}] /\ UNCHANGED files
    BY DEF PackEmptyDir
  <1> PICK m : m = Member("dir", j, ArcName(j, x), <<>>)
    OBVIOUS
  <1>3. CASE job' = [job EXCEPT ![j].empties = @ \ {x}] /\ UNCHANGED files
    <2>1. job'[j].payload = job[j].payload /\ job'[j].got = job[j].got
      BY <1>1, <1>3 DEF IsJob
    <2>2. job'[j].payload \in S /\ job'[j].got \in S
      BY <2>1 DEF Contents
    <2> QED BY <1>3, <2>2, GenuineIdle DEF Steps
  <1>4. CASE Put(j, m) /\ job' = [job EXCEPT ![j].empties = @ \ {x}, ![j].pos = @ + 1,
                                             ![j].payload = Append(@, m)]
    <2>1. job'[j].op = "archive" /\ job'[j].got = job[j].got
          /\ job'[j].payload = Append(job[j].payload, m)
      BY <1>1, <1>4 DEF IsJob
    <2>2. m.by = j /\ m.blocks = <<>>
      BY DEF Member
    <2> QED BY <1>1, <1>4, <2>1, <2>2, GenuinePack DEF Steps
  <1> QED BY <1>2, <1>3, <1>4

LEMMA GenuinePackEnd ==
  ASSUME TypeOK, NEW j \in Job, JobInv(j), ArchiveOK(j), StepOK(j), PackEnd(j),
         NEW S, Contents \subseteq S, AllGenuine(S)
  PROVE  GenuineInv'
  <1>1. IsJob(job[j]) /\ DOMAIN job = Job /\ job[j].op = "archive" /\ job[j].at = "pack"
    BY StageIs DEF PackEnd, TypeOK, JobInv
  <1> PICK m : m = End(j)
    OBVIOUS
  <1>2. /\ Put(j, m)
        /\ job' = [job EXCEPT ![j].at = "size", ![j].pos = @ + 1, ![j].payload = Append(@, m)]
    BY DEF PackEnd
  <1>3. job'[j].op = "archive" /\ job'[j].got = job[j].got
        /\ job'[j].payload = Append(job[j].payload, m)
    BY <1>1, <1>2 DEF IsJob
  <1>4. m.by = j /\ m.kind \notin MemberKind
    BY DEF End, MemberKind
  <1> QED BY <1>1, <1>2, <1>3, <1>4, GenuinePack DEF Steps

(* One that gives up: the end that it writes is that of a job that failed. *)
LEMMA GenuinePackVanished ==
  ASSUME TypeOK, NEW j \in Job, JobInv(j), ArchiveOK(j), StepOK(j), PackVanished(j),
         NEW S, Contents \subseteq S, AllGenuine(S)
  PROVE  GenuineInv'
  <1>1. IsJob(job[j]) /\ DOMAIN job = Job
    BY DEF TypeOK
  <1>2. job'[j].payload \in S /\ job'[j].got \in S
    <2>1. job'[j].payload = job[j].payload /\ job'[j].got = job[j].got
      BY <1>1 DEF PackVanished, Fails, Ends, IsJob
    <2> QED BY <2>1 DEF Contents
  <1>3. CASE UNCHANGED files
    BY <1>2, <1>3, GenuineIdle DEF Steps
  <1>4. CASE Put(j, End(j)) /\ Ends(j, "failed")
    <2> PICK b : b = End(j)
      OBVIOUS
    <2>1. b.kind \notin MemberKind /\ b.by = j /\ Put(j, b)
      BY <1>4 DEF End, MemberKind
    <2>2. PICK p \in Nat : p = job[j].pos
      BY <1>1 DEF IsJob
    <2>3. job'[j].answer = "failed"
      BY <1>1, <1>4 DEF Ends, IsJob
    <2>4. Genuine(b, p + 1)'
      BY <2>1, <2>3 DEF Genuine
    <2>5. \A c, n : Genuine(c, n) => Genuine(c, n)'
      BY GenuineStays DEF Steps
    <2>6. job[j].at \in {"write", "pack"}
      BY DEF PackVanished
    <2> DEFINE E == {<<>>}
    <2> HIDE DEF E
    <2>7. PICK t : /\ \A i \in Inode : node'[i].blocks \in S \cup {t}
                   /\ t \in Seq(Range(t))
                   /\ \A n \in DOMAIN t :
                        /\ Genuine(t[n], n)'
                        /\ t[n].kind \in MemberKind => t[n].blocks \in S \cup E
      <3>1. OneNew(S, E)
        BY <2>1, <2>2, <2>4, <2>5, <2>6, PutGenuine
      <3> QED BY <3>1 DEF OneNew
    <2> DEFINE T == {t, <<>>}
    <2>8. /\ \A i \in Inode : node'[i].blocks \in S \cup T
          /\ job'[j].payload \in S \cup T /\ job'[j].got \in S \cup T
      BY <1>2, <2>7
    <2>9. \A u \in T : /\ u \in Seq(Range(u))
                       /\ \A n \in DOMAIN u :
                            /\ Genuine(u[n], n)'
                            /\ u[n].kind \in MemberKind => u[n].blocks \in S \cup T
      <3>1. <<>> \in Seq(Range(<<>>)) /\ DOMAIN <<>> = {}
        BY EmptySeq
      <3> QED BY <2>7, <3>1 DEF E
    <2> HIDE DEF T
    <2> QED BY <2>8, <2>9, GenuineGrows DEF Steps
  <1> QED BY <1>3, <1>4 DEF PackVanished, Fails

(* One that takes a member from an archive. *)
LEMMA GenuineExtract ==
  ASSUME TypeOK, NEW j \in Job, JobInv(j), ExtractOK(j), ArchiveOK(j), StepOK(j),
         ExtractMember(j), NEW S, Contents \subseteq S, AllGenuine(S)
  PROVE  GenuineInv'
  <1>1. IsJob(job[j]) /\ DOMAIN job = Job /\ job[j].at = "member" /\ Unpacks(j)
    BY StageIs DEF ExtractMember, TypeOK, JobInv, Unpacks
  <1> PICK d \in Nat : d = job[j].done
    BY <1>1 DEF IsJob
  <1> PICK got : got = job[j].got
    OBVIOUS
  <1>2. got \in S /\ got \in Seq(Range(got)) /\ IsArchive(got) /\ d + 1 \in 1..Len(got) - 1
    <2>1. got \in Seq(Range(got)) /\ IsArchive(got)
      BY <1>1 DEF ExtractOK, ExtractStage, Fetching
    <2>2. d < Len(got) - 1 /\ Len(got) \in Nat
      BY <2>1, LenProperties DEF ExtractMember, Members
    <2> QED BY <2>1, <2>2 DEF Contents
  <1> PICK m : m = got[d + 1]
    OBVIOUS
  <1>3. m.blocks \in S
    <2>1. m.kind \in MemberKind /\ d + 1 \in DOMAIN got
      <3>1. DOMAIN got = 1..Len(got) /\ Len(got) \in Nat
        BY <1>2, LenProperties
      <3> QED BY <1>2, <3>1 DEF IsArchive, IsMember
    <2> QED BY <1>2, <2>1 DEF AllGenuine
  <1>4. job'[j].got = job[j].got /\ job'[j].payload \in {job[j].payload, m.blocks}
    <2> DEFINE Same == job'[j].got = job[j].got
                       /\ job'[j].payload \in {job[j].payload, m.blocks}
    <2>1. \/ Ends(j, "failed")
          \/ job' = [job EXCEPT ![j].done = @ + 1]
          \/ job' = [job EXCEPT ![j].at = "open", ![j].file = Dest(j, d + 1),
                                ![j].payload = m.blocks]
      BY DEF ExtractMember, Fails, Dest
    <2>2. CASE Ends(j, "failed")
      BY <1>1, <2>2 DEF Ends, IsJob
    <2>3. CASE job' = [job EXCEPT ![j].done = @ + 1]
      BY <1>1, <2>3 DEF IsJob
    <2> DEFINE file == Dest(j, d + 1)
    <2> HIDE DEF file
    <2>4. CASE job' = [job EXCEPT ![j].at = "open", ![j].file = file, ![j].payload = m.blocks]
      BY <1>1, <2>4 DEF IsJob
    <2> QED BY <2>1, <2>2, <2>3, <2>4 DEF file
  <1>5. job'[j].payload \in S /\ job'[j].got \in S
    BY <1>3, <1>4 DEF Contents
  <1>6. ~Writes(j)
    BY <1>1 DEF Writes, WriteBlock, PackFile, PackVanished, PackEmptyDir, PackEnd
  <1> QED BY <1>5, <1>6, GenuineIdle DEF Steps

LEMMA GenuineOwn ==
  ASSUME TypeOK, NEW j \in Job, JobInv(j), ExtractOK(j), ArchiveOK(j), StepOK(j),
         Begins(j) \/ Steps(j) \/ Dies(j), GenuineInv,
         NEW G, AllGenuine(G)', \A op \in StoreOp : Payloads[j][op] \subseteq G
  PROVE  GenuineInv'
  <1>1. PICK S : Contents \subseteq S /\ AllGenuine(S)
    BY DEF GenuineInv
  <1>2. CASE Begins(j)
    BY <1>2, GenuineBegins
  <1>3. CASE ReadBlock(j) \/ WriteBlock(j) \/ ExtractMember(j)
    BY <1>1, <1>3, GenuineRead, GenuineWrite, GenuineExtract
  <1>4. CASE PackFile(j) \/ PackEmptyDir(j) \/ PackEnd(j) \/ PackVanished(j)
    BY <1>1, <1>4, GenuinePackFile, GenuinePackEmptyDir, GenuinePackEnd, GenuinePackVanished
  <1>5. CASE (Steps(j) \/ Dies(j)) /\ ~Remembers(j) /\ ~Writes(j)
    <2>1. job'[j].payload = job[j].payload /\ job'[j].got = job[j].got
      BY <1>5, MemoryStays
    <2>2. job'[j].payload \in S /\ job'[j].got \in S
      BY <1>1, <2>1 DEF Contents
    <2> QED BY <1>1, <1>5, <2>2, GenuineIdle
  <1> QED BY <1>2, <1>3, <1>4, <1>5 DEF Remembers, Writes
-----------------------------------------------------------------------------
(* Nothing that is there before the jobs, or comes from outside, is marked *)
(* as made by one of them: Given is all of that.                           *)
LEMMA ForeignIsGenuine ==
  ASSUME NEW G, Foreign(G)
  PROVE  AllGenuine(G) /\ AllGenuine(G)'
  <1>1. ASSUME NEW s \in G, NEW n \in DOMAIN s
        PROVE  Genuine(s[n], n) /\ Genuine(s[n], n)'
    <2> PICK b : b = s[n]
      OBVIOUS
    <2>1. b.kind \in MemberKind \cup {"end"} => b.by \notin Job
      BY <1>1 DEF Foreign
    <2> QED BY <2>1 DEF Genuine
  <1> QED BY <1>1 DEF Foreign, AllGenuine

LEMMA GenuineInit ==
  ASSUME NEW Given, Foreign(Given), \A t \in Trees, i \in Inode : t.node[i].blocks \in Given, Init
  PROVE  GenuineInv
  <1> DEFINE S == Given \cup {<<>>}
  <1>1. Contents \subseteq S
    <2>1. \A i \in Inode : node[i].blocks \in S
      BY DEF Init
    <2>2. \A j \in Job : job[j].payload \in S /\ job[j].got \in S
      BY DEF Init, NewJob
    <2> HIDE DEF S
    <2> QED BY <2>1, <2>2 DEF Contents
  <1>2. AllGenuine(S)
    <2>1. AllGenuine(Given)
      BY ForeignIsGenuine
    <2>2. <<>> \in Seq(Range(<<>>)) /\ DOMAIN <<>> = {}
      BY EmptySeq
    <2> QED BY <2>1, <2>2 DEF AllGenuine
  <1> HIDE DEF S
  <1> QED BY <1>1, <1>2 DEF GenuineInv

LEMMA GenuineStutter ==
  ASSUME GenuineInv, UNCHANGED vars
  PROVE  GenuineInv'
  <1>1. PICK S : Contents \subseteq S /\ AllGenuine(S)
    BY DEF GenuineInv
  <1>2. node' = node /\ job' = job
    BY DEF vars, files
  <1>3. Contents' = Contents /\ \A b, n : Genuine(b, n)' <=> Genuine(b, n)
    BY <1>2 DEF Contents, Genuine
  <1>4. Contents' \subseteq S /\ AllGenuine(S)'
    BY <1>1, <1>3 DEF AllGenuine
  <1> QED BY <1>4 DEF GenuineInv

LEMMA GenuineNext ==
  ASSUME NEW Given, Foreign(Given), \A j \in Job, op \in StoreOp : Payloads[j][op] \subseteq Given,
         TypeOK, FileInv, MembersInv, GenuineInv, Next
  PROVE  GenuineInv'
  <1>1. PICK j \in Job : (Begins(j) \/ Steps(j) \/ Dies(j)) /\ Disturbs(j)
    BY DEF Next
  <1>2. StepOK(j) /\ JobInv(j)
    BY <1>1, OwnStep DEF FileInv
  <1>3. AllGenuine(Given)'
    BY ForeignIsGenuine
  <1> QED BY <1>1, <1>2, <1>3, GenuineOwn DEF MembersInv

(* Every member that bears the name of a job, in whatever file it ends up  *)
(* and in whatever archive inside of another, is the one that this job has *)
(* packed at this place of its archive.                                    *)
THEOREM GenuineInvariance ==
  ASSUME NEW CONSTANT Given, Foreign(Given),
         \A t \in Trees, i \in Inode : t.node[i].blocks \in Given,
         \A j \in Job, op \in StoreOp : Payloads[j][op] \subseteq Given
  PROVE  Spec => []GenuineInv
  <1>1. Init => GenuineInv
    BY GenuineInit
  <1>2. TypeOK /\ FileInv /\ MembersInv /\ GenuineInv /\ [Next]_vars => GenuineInv'
    BY GenuineNext, GenuineStutter
  <1> QED BY <1>1, <1>2, FileInvariance, MembersInvariance, PTL DEF Spec

-----------------------------------------------------------------------------
(* Packing and extracting.                                                 *)
LEMMA ConcatIs ==
  ASSUME NEW x \in Path, NEW m, m \in Seq(Range(m))
  PROVE  /\ Len(x \o m) = Len(x) + Len(m) /\ Len(m) \in Nat
         /\ \A i \in 1..Len(x) : (x \o m)[i] = x[i]
         /\ \A i \in 1..Len(m) : (x \o m)[Len(x) + i] = m[i]
  <1> DEFINE S == Name \cup Range(m)
  <1>1. x \in Seq(S) /\ m \in Seq(S)
    BY PathIsSeq, SeqMonotonic
  <1> HIDE DEF S
  <1>2. /\ Len(x) \in Nat /\ Len(m) \in Nat /\ Len(x \o m) = Len(x) + Len(m)
        /\ \A i \in 1..Len(x) + Len(m) : (x \o m)[i] = IF i <= Len(x) THEN x[i] ELSE m[i - Len(x)]
    BY <1>1, ConcatProperties, LenProperties
  <1>3. ASSUME NEW i \in 1..Len(m)
        PROVE  (x \o m)[Len(x) + i] = m[i]
    <2>1. Len(x) + i \in 1..Len(x) + Len(m) /\ ~(Len(x) + i <= Len(x)) /\ Len(x) + i - Len(x) = i
      BY <1>2
    <2> QED BY <1>2, <2>1
  <1> QED BY <1>2, <1>3

LEMMA ArcNameOf ==
  ASSUME TypeOK, NEW j \in Job, NEW x \in Path, Under(x, job[j].path)
  PROVE  \E name, p :
           /\ p = job[j].path /\ name = ArcName(j, x)
           /\ name \in Seq(Range(name)) /\ name[1] = Last(p)
           /\ Len(name) = Len(x) - Len(p) + 1
           /\ \A i \in 1..Len(x) - Len(p) : name[i + 1] = x[Len(p) + i]
  <1>1. PICK p \in Path : p = job[j].path
    BY DEF TypeOK, IsJob
  <1>2. PICK name : name = ArcName(j, x)
    OBVIOUS
  <1>3. Under(x, p)
    BY <1>1
  <1> DEFINE v == Last(p)
  <1>4. name = <<v>> \o SubSeq(x, Len(p) + 1, Len(x))
    BY <1>1, <1>2 DEF ArcName
  <1> HIDE DEF v
  <1>5. name \in Seq(Range(name))
    BY <1>3, <1>4, ArcNameIs
  <1>6. name[1] = v
    BY <1>3, <1>4, ArcNameIs
  <1>7. /\ Len(name) = Len(x) - Len(p) + 1
        /\ \A i \in 1..Len(x) - Len(p) : name[i + 1] = x[Len(p) + i]
    BY <1>3, <1>4, ArcNameIs
  <1> QED BY <1>1, <1>2, <1>5, <1>6, <1>7 DEF v

(* What is below a directory of the source is below it in the target.      *)
LEMMA ArcNameBelow ==
  ASSUME TypeOK, NEW j \in Job, NEW x \in Path, NEW y \in Path, Below(x, job[j].path), Below(y, x),
         NEW to \in Path, to \o ArcName(j, x) \in Path, to \o ArcName(j, y) \in Path
  PROVE  Under(to \o ArcName(j, x), to) /\ Below(to \o ArcName(j, y), to \o ArcName(j, x))
  <1>1. PICK p \in Path : p = job[j].path
    BY DEF TypeOK, IsJob
  <1>2. /\ x \in Seq(Name) /\ y \in Seq(Name) /\ p \in Seq(Name) /\ to \in Seq(Name)
        /\ Len(x) \in Nat /\ Len(y) \in Nat /\ Len(p) \in Nat /\ Len(to) \in Nat
    BY <1>1, PathIsSeq
  <1>3. Under(x, p) /\ Under(y, p) /\ Len(p) < Len(x) /\ Len(x) < Len(y)
        /\ \A i \in 1..Len(x) : y[i] = x[i]
    BY <1>1, <1>2, UnderIs, UnderOrder
  <1>4. PICK m : /\ m = ArcName(j, x)
                 /\ m \in Seq(Range(m)) /\ m[1] = Last(p)
                 /\ Len(m) = Len(x) - Len(p) + 1
                 /\ \A i \in 1..Len(x) - Len(p) : m[i + 1] = x[Len(p) + i]
    <2>1. Under(x, job[j].path)
      BY <1>1, <1>3
    <2>2. PICK name, q : /\ q = job[j].path /\ name = ArcName(j, x)
                         /\ name \in Seq(Range(name)) /\ name[1] = Last(q)
                         /\ Len(name) = Len(x) - Len(q) + 1
                         /\ \A i \in 1..Len(x) - Len(q) : name[i + 1] = x[Len(q) + i]
      BY <2>1, ArcNameOf
    <2>3. q = p
      BY <1>1, <2>2
    <2> QED BY <2>2, <2>3
  <1>5. PICK n : /\ n = ArcName(j, y)
                 /\ n \in Seq(Range(n)) /\ n[1] = Last(p)
                 /\ Len(n) = Len(y) - Len(p) + 1
                 /\ \A i \in 1..Len(y) - Len(p) : n[i + 1] = y[Len(p) + i]
    <2>1. Under(y, job[j].path)
      BY <1>1, <1>3
    <2>2. PICK name, q : /\ q = job[j].path /\ name = ArcName(j, y)
                         /\ name \in Seq(Range(name)) /\ name[1] = Last(q)
                         /\ Len(name) = Len(y) - Len(q) + 1
                         /\ \A i \in 1..Len(y) - Len(q) : name[i + 1] = y[Len(q) + i]
      BY <2>1, ArcNameOf
    <2>3. q = p
      BY <1>1, <2>2
    <2> QED BY <2>2, <2>3
  <1>6. ASSUME NEW i \in 1..Len(m)
        PROVE  m[i] = n[i]
    <2>1. CASE i = 1
      BY <1>4, <1>5, <2>1
    <2>2. CASE i # 1
      <3>1. /\ i - 1 \in 1..Len(x) - Len(p) /\ i - 1 \in 1..Len(y) - Len(p) /\ (i - 1) + 1 = i
            /\ Len(p) + (i - 1) \in 1..Len(x)
        BY <1>2, <1>3, <1>4, <2>2
      <3> QED BY <1>3, <1>4, <1>5, <3>1
    <2> QED BY <2>1, <2>2
  <1> PICK u \in Path, w \in Path : u = to \o m /\ w = to \o n
    BY <1>4, <1>5
  <1>7. /\ Len(u) = Len(to) + Len(m) /\ Len(m) \in Nat
        /\ \A i \in 1..Len(to) : u[i] = to[i]
        /\ \A i \in 1..Len(m) : u[Len(to) + i] = m[i]
    <2>1. m \in Seq(Range(m))
      BY <1>4
    <2> QED BY <2>1, ConcatIs
  <1>8. /\ Len(w) = Len(to) + Len(n) /\ Len(n) \in Nat
        /\ \A i \in 1..Len(to) : w[i] = to[i]
        /\ \A i \in 1..Len(n) : w[Len(to) + i] = n[i]
    <2>1. n \in Seq(Range(n))
      BY <1>5
    <2> QED BY <2>1, ConcatIs
  <1>9. u \in Seq(Name) /\ w \in Seq(Name) /\ Len(u) \in Nat /\ Len(w) \in Nat
    BY PathIsSeq
  <1>10. Under(u, to)
    <2>1. Len(to) <= Len(u)
      BY <1>2, <1>7
    <2> QED BY <1>2, <1>7, <1>9, <2>1, UnderIs
  <1>11. Len(u) < Len(w)
    BY <1>2, <1>3, <1>4, <1>5, <1>7, <1>8
  <1>12. ASSUME NEW i \in 1..Len(u)
         PROVE  w[i] = u[i]
    <2>1. CASE i <= Len(to)
      BY <1>2, <1>7, <1>8, <2>1
    <2>2. CASE ~(i <= Len(to))
      <3>1. i - Len(to) \in 1..Len(m) /\ i - Len(to) \in 1..Len(n) /\ Len(to) + (i - Len(to)) = i
        BY <1>2, <1>3, <1>4, <1>5, <1>7, <1>9, <2>2
      <3> QED BY <1>6, <1>7, <1>8, <3>1
    <2> QED BY <2>1, <2>2
  <1>13. Below(w, u)
    <2>1. Len(u) <= Len(w)
      BY <1>9, <1>11
    <2>2. Under(w, u)
      BY <1>9, <1>12, <2>1, UnderIs
    <2> QED BY <1>9, <1>11, <2>2, UnderIs
  <1> QED BY <1>4, <1>5, <1>10, <1>13

(* What an extraction has read of an archive that was answered is all that *)
(* its job has packed.                                                     *)
LEMMA ReadsAll ==
  ASSUME TypeOK, MembersInv, GenuineInv, NEW a \in Job, NEW e \in Job,
         job[a].op = "archive", job[a].answer = "ok", job[a].at = "done",
         job[e].op = "extract", job[e].answer = "ok",
         \A n \in DOMAIN job[e].got : job[e].got[n].by = a
  PROVE  job[e].got = job[a].payload
  <1> PICK s, g : s = job[a].payload /\ g = job[e].got
    OBVIOUS
  <1>1. /\ PackedOK(a) /\ Packing(a) /\ IsArchive(g) /\ g \in Seq(Range(g)) /\ job[a].answer # "failed"
    BY DEF MembersInv, ExtractOK, ExtractStage, Unpacks, ArchiveOK, Packing
  <1>2. /\ s \in Seq(Range(s)) /\ s # <<>> /\ Last(s).kind = "end"
        /\ \A n \in DOMAIN s : n = Len(s) \/ s[n].kind # "end"
    <2>1. /\ s \in Seq(Range(s)) /\ s # <<>> /\ Last(s) = End(a)
          /\ \A n \in DOMAIN s : (\E x \in Path : MemberOf(a, s[n], x)) \/ n = Len(s)
      BY <1>1 DEF PackedOK
    <2> QED BY <2>1 DEF MemberOf, End
  <1>3. PICK k \in Nat, l \in Nat :
          /\ k = Len(g) /\ DOMAIN g = 1..k /\ k > 0
          /\ l = Len(s) /\ DOMAIN s = 1..l /\ l > 0
    <2>1. Len(g) \in Nat /\ DOMAIN g = 1..Len(g) /\ Len(s) \in Nat /\ DOMAIN s = 1..Len(s)
      BY <1>1, <1>2, LenProperties
    <2>2. Len(g) # 0 /\ Len(s) # 0
      BY <1>1, <1>2, EmptySeq DEF IsArchive
    <2> QED BY <2>1, <2>2
  <1>4. g[k].kind = "end" /\ \A n \in 1..k : g[n].kind \in MemberKind \cup {"end"} /\ g[n].by = a
    <2>1. /\ g[k].kind = "end" /\ \A n \in 1..k - 1 : g[n].kind \in MemberKind
      BY <1>1, <1>3 DEF IsArchive, IsMember, Last
    <2> QED BY <1>3, <2>1
  <1>5. \A n \in 1..k : n \in 1..l /\ s[n] = g[n]
    <2>1. PICK S : g \in S /\ AllGenuine(S)
      BY DEF GenuineInv, Contents
    <2>2. \A n \in 1..k : Genuine(g[n], n)
      BY <1>3, <2>1 DEF AllGenuine
    <2> QED BY <1>1, <1>3, <1>4, <2>2 DEF Genuine
  <1>6. k = l
    <2>1. k \in 1..k
      BY <1>3
    <2> QED BY <1>2, <1>3, <1>4, <1>5, <2>1
  <1> QED BY <1>1, <1>2, <1>3, <1>5, <1>6, SeqEqual

(* Each packed path below the source has been extracted.                   *)
LEMMA PackedIsExtracted ==
  ASSUME TypeOK, MembersInv, NEW a \in Job, NEW e \in Job,
         job[a].op = "archive", job[a].answer = "ok", job[a].at = "done",
         job[e].op = "extract", job[e].answer = "ok", job[e].got = job[a].payload,
         NEW y \in Path, Below(y, job[a].path),
         NEW n \in DOMAIN job[a].payload, MemberOf(a, job[a].payload[n], y),
         NEW x, x = job[e].to \o ArcName(a, y)
  PROVE  /\ x \in Path
         /\ x \in quiet[e] => IF job[a].payload[n].kind = "dir"
                                THEN IsDir(x)
                                ELSE IsFile(x) /\ Blocks(x) = job[a].payload[n].blocks
         /\ \A z \in quiet[e] : Under(z, job[e].to) /\ Below(x, z) => IsDir(z)
  <1> PICK s : s = job[a].payload
    OBVIOUS
  <1>1. /\ PackedOK(a) /\ s \in Seq(Range(s)) /\ s # <<>> /\ Last(s) = End(a)
        /\ \A m \in DOMAIN s :
             (\E z \in Path : Below(z, job[a].path) /\ MemberOf(a, s[m], z)) \/ m = Len(s)
        /\ \A z \in Path, k, m \in DOMAIN s :
             Below(z, job[a].path) /\ MemberOf(a, s[k], z) /\ MemberOf(a, s[m], z) => k = m
    BY DEF MembersInv, ArchiveOK, PackedOK, Packing
  <1>2. PICK l \in Nat : l = Len(s) /\ DOMAIN s = 1..l
    BY <1>1, LenProperties
  <1>3. n \in 1..l /\ n # l /\ s[n].name = ArcName(a, y)
    <2>1. s[n].kind # "end" /\ s[n].name = ArcName(a, y)
      BY DEF MemberOf, Member
    <2> QED BY <1>1, <1>2, <2>1 DEF End, Last
  <1>4. /\ job[e].done = l - 1 /\ Members(e) = l - 1
        /\ Extracted(e, n)
    <2>1. ExtractStage(e) /\ \A i \in 1..job[e].done : Extracted(e, i)
      BY DEF MembersInv, ExtractOK, Unpacks
    <2>2. job[e].done = Members(e) /\ Members(e) = l - 1
      BY <1>2, <2>1 DEF ExtractStage, Members
    <2> QED BY <1>2, <1>3, <2>1, <2>2
  <1>5. ASSUME NEW k \in n + 1..job[e].done + 1, k <= Members(e)
        PROVE  job[e].got[k].name # s[n].name
    <2>1. k \in DOMAIN s /\ k # Len(s) /\ k # n
      BY <1>2, <1>3, <1>4, <1>5
    <2>2. PICK z \in Path : Below(z, job[a].path) /\ MemberOf(a, s[k], z)
      BY <1>1, <2>1
    <2>3. s[k].name = ArcName(a, z)
      BY <2>2 DEF MemberOf, Member
    <2>4. z # y
      BY <1>1, <2>1, <2>2
    <2> QED BY <1>3, <2>2, <2>3, <2>4, ArcNamesApart
  <1>6. Dest(e, n) = x /\ job[e].got[n] = s[n]
    BY <1>3 DEF Dest
  <1> QED BY <1>4, <1>5, <1>6 DEF Extracted

(* What an archive has packed, an extraction of that archive restores:     *)
(* every file that nobody touched with its contents, and every directory,  *)
(* provided that no file is there at the start, or is sent, that pretends  *)
(* to be made by one of the jobs.                                          *)
THEOREM RoundTrips ==
  ASSUME NEW CONSTANT Given, Foreign(Given),
         \A t \in Trees, i \in Inode : t.node[i].blocks \in Given,
         \A j \in Job, op \in StoreOp : Payloads[j][op] \subseteq Given
  PROVE  Spec => []RoundTrip
  <1>1. ASSUME TypeOK, FileInv, MembersInv, GenuineInv
        PROVE  RoundTrip
    <2> SUFFICES ASSUME NEW a \in Job, NEW e \in Job,
                        job[a].op = "archive", job[a].answer = "ok",
                        job[e].op = "extract", job[e].answer = "ok",
                        \A i \in DOMAIN job[e].got : job[e].got[i].by = a,
                        NEW x \in quiet[a], Below(x, job[a].path), x # job[a].to,
                        NEW dest, dest = job[e].to \o ArcName(a, x), dest \in quiet[e]
                 PROVE  /\ IsFile(x) => IsFile(dest) /\ Blocks(dest) = Blocks(x)
                        /\ IsDir(x) /\ {y \in Path : Below(y, x)} \subseteq quiet[a] => IsDir(dest)
      BY DEF RoundTrip
    <2> PICK s : s = job[a].payload
      OBVIOUS
    <2>1. /\ job[a].at = "done" /\ x \in Path /\ dest \in Path
          /\ job[a].path \in Path /\ job[e].to \in Path
      BY <1>1 DEF FileInv, JobInv, StageOK, TypeOK, IsJob
    <2>2. job[e].got = s
      BY <1>1, <2>1, ReadsAll
    <2>3. SourceOK(a) /\ \A y : ~Awaited(a, y)
      BY <1>1, <2>1 DEF MembersInv, ArchiveOK, PackedOK, Packing, Awaited
    <2>4. \A n \in DOMAIN s : MemberOf(a, s[n], x) =>
            /\ s[n].kind = "file" <=> IsFile(x)
            /\ IsFile(x) => s[n].blocks = Blocks(x)
      BY <2>3 DEF SourceOK
    <2>5. ASSUME NEW y \in Path, Below(y, job[a].path),
                 NEW n \in DOMAIN s, MemberOf(a, s[n], y), NEW z, z = job[e].to \o ArcName(a, y)
          PROVE  /\ z \in Path
                 /\ z \in quiet[e] => IF s[n].kind = "dir"
                                        THEN IsDir(z) ELSE IsFile(z) /\ Blocks(z) = s[n].blocks
                 /\ \A w \in quiet[e] : Under(w, job[e].to) /\ Below(z, w) => IsDir(w)
      <3>1. n \in DOMAIN job[a].payload /\ MemberOf(a, job[a].payload[n], y)
        BY <2>5
      <3>2. job[e].got = job[a].payload
        BY <2>2
      <3>3. z \in Path
        BY <1>1, <2>1, <2>5, <3>1, <3>2, PackedIsExtracted
      <3>4. z \in quiet[e] => IF job[a].payload[n].kind = "dir"
                                THEN IsDir(z)
                                ELSE IsFile(z) /\ Blocks(z) = job[a].payload[n].blocks
        BY <1>1, <2>1, <2>5, <3>1, <3>2, PackedIsExtracted
      <3>5. \A w \in quiet[e] : Under(w, job[e].to) /\ Below(z, w) => IsDir(w)
        BY <1>1, <2>1, <2>5, <3>1, <3>2, PackedIsExtracted
      <3> QED BY <3>3, <3>4, <3>5
    <2>6. ASSUME IsFile(x)
          PROVE  IsFile(dest) /\ Blocks(dest) = Blocks(x)
      <3>1. PICK n \in DOMAIN s : MemberOf(a, s[n], x)
        BY <2>3, <2>6 DEF SourceOK, IsPacked
      <3>2. s[n].kind = "file" /\ s[n].blocks = Blocks(x)
        BY <2>4, <2>6, <3>1
      <3> QED BY <2>1, <2>5, <3>1, <3>2
    <2>7. ASSUME IsDir(x), {y \in Path : Below(y, x)} \subseteq quiet[a]
          PROVE  IsDir(dest)
      <3>1. PICK y \in Path : Under(y, x) /\ IsPacked(a, y)
        BY <2>1, <2>3, <2>7 DEF SourceOK
      <3>2. PICK n \in DOMAIN s : MemberOf(a, s[n], y)
        BY <3>1 DEF IsPacked
      <3>3. /\ x \in Seq(Name) /\ y \in Seq(Name) /\ job[a].path \in Seq(Name)
        BY <2>1, <3>1, PathIsSeq
      <3>4. Below(y, job[a].path) /\ (y = x \/ Below(y, x))
        BY <3>1, <3>3, UnderOrder
      <3>5. CASE y = x
        <4>1. s[n].kind = "dir"
          BY <2>4, <2>7, <3>2, <3>5 DEF IsDir, IsFile, MemberOf
        <4> QED BY <2>1, <2>5, <3>2, <3>5, <4>1
      <3>6. CASE Below(y, x)
        <4>1. PICK z : z = job[e].to \o ArcName(a, y)
          OBVIOUS
        <4>2. z \in Path /\ \A w \in quiet[e] : Under(w, job[e].to) /\ Below(z, w) => IsDir(w)
          BY <2>5, <3>2, <3>4, <4>1
        <4>3. PICK to \in Path : to = job[e].to
          BY <2>1
        <4>4. to \o ArcName(a, x) \in Path /\ to \o ArcName(a, y) \in Path
          BY <2>1, <4>1, <4>2, <4>3
        <4>5. Under(to \o ArcName(a, x), to) /\ Below(to \o ArcName(a, y), to \o ArcName(a, x))
          BY <1>1, <2>1, <3>6, <4>3, <4>4, ArcNameBelow
        <4> QED BY <4>1, <4>2, <4>3, <4>5
      <3> QED BY <3>4, <3>5, <3>6
    <2> QED BY <2>6, <2>7
  <1>2. Spec => []GenuineInv
    BY GenuineInvariance
  <1> QED BY <1>1, <1>2, FileInvariance, MembersInvariance, PTL
=============================================================================
