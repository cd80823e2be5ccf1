--------------------- MODULE BackupStoreRetention_proofs ---------------------
(***************************************************************************)
(* Proofs about BackupStore, continued: racing retention runs leave        *)
(* keep_last newer backups active above every one they delete; a torn      *)
(* manifest has a writer that will repair it, and data of a deleted backup *)
(* one that will remove it, unless somebody is killed or uploads it anew.  *)
(***************************************************************************)
EXTENDS BackupStoreLife_proofs, FiniteSetTheorems

-----------------------------------------------------------------------------
(* A torn file has its writer.                                             *)

(* Who is writing to a .tmp is in write_manifest, past its opening; only a *)
(* kill takes it away from there before it has written, and no step of     *)
(* another process does.                                                   *)
LEMMA AttendedStep ==
  ASSUME FullInv, TypeOK', NEW p \in Proc, Step(p) \/ Begin(p) \/ Kill(p),
         NEW b \in Backup, Attended(b),
         ~(Kill(p) /\ id[p] = b /\ pc[p] = "write_tmp")
  PROVE  Attended(b)'
  <1> USE DEF Goto
  <1>1. TypeOK /\ LocalsOK
    BY DEF FullInv, IndInv
  <1>2. ASSUME UNCHANGED <<manifest, tmp>>,
               \A q \in Proc, name \in {"tmp", "manifest"} :
                 Fills(q, b, name) => Fills(q, b, name)'
        PROVE  Attended(b)'
    BY <1>2 DEF Attended
  <1>3. CASE OpenTmp(p)
    <2>1. id[p] \in Backup
      BY <1>1, <1>3 DEF OpenTmp, LocalsOK
    <2>2. /\ id' = id /\ Fills(p, id[p], "tmp")' /\ manifest' = manifest
          /\ b # id[p] => tmp'[b] = tmp[b]
          /\ \A q \in Proc, name \in {"tmp", "manifest"} :
               Fills(q, b, name) => Fills(q, b, name)'
      BY <1>1, <1>3, <2>1 DEF OpenTmp, Fills, TypeOK
    <2>3. CASE b = id[p]
      BY <2>2, <2>3 DEF Attended
    <2>4. CASE b # id[p]
      BY <2>2, <2>4 DEF Attended
    <2> QED
      BY <2>3, <2>4
  <1>4. CASE WriteTmp(p)
    <2>1. id[p] \in Backup /\ text[p].status \in {"active", "deleted"}
      BY <1>1, <1>4 DEF WriteTmp, LocalsOK, InWriteManifest
    <2>2. \A q \in Proc, name \in {"tmp", "manifest"} :
            q # p /\ Fills(q, b, name) => Fills(q, b, name)'
      BY <1>1, <1>4 DEF WriteTmp, Fills, TypeOK
    <2>3. /\ tmp'[b].status = "torn" => tmp[b].status = "torn" /\ ~Fills(p, b, "tmp")
          /\ manifest'[b].status = "torn"
               => manifest[b].status = "torn" /\ ~Fills(p, b, "manifest")
      BY <1>1, <1>4, <2>1 DEF WriteTmp, Fills, TypeOK
    <2> QED
      BY <2>2, <2>3 DEF Attended
  <1>5. CASE ReplaceManifest(p)
    <2>1. /\ id[p] \in Backup /\ pc[p] = "replace"
          /\ manifest' = [manifest EXCEPT ![id[p]] = tmp[id[p]]]
          /\ tmp' = [tmp EXCEPT ![id[p]] = NoFile]
      BY <1>1, <1>5 DEF ReplaceManifest, LocalsOK
    <2>2. id' = id /\ \A q \in Proc : Fills(q, id[p], "tmp") => Fills(q, id[p], "manifest")'
      BY <1>1, <1>5 DEF ReplaceManifest, Fills, TypeOK
    <2>3. \A q \in Proc, name \in {"tmp", "manifest"} :
            b # id[p] /\ Fills(q, b, name) => Fills(q, b, name)'
      BY <1>1, <1>5 DEF ReplaceManifest, Fills, TypeOK
    <2>4. /\ tmp'[id[p]].status = "absent" /\ manifest'[id[p]] = tmp[id[p]]
          /\ b # id[p] => tmp'[b] = tmp[b] /\ manifest'[b] = manifest[b]
      BY <1>1, <2>1, PresentIsSome DEF TypeOK
    <2> QED
      BY <2>2, <2>3, <2>4 DEF Attended
  <1>6. CASE UnlinkData(p)
    <2>1. \A q \in Proc, name \in {"tmp", "manifest"} :
            Fills(q, b, name) => Fills(q, b, name)'
      BY <1>1, <1>6 DEF UnlinkData, Fills, TypeOK
    <2> QED
      BY <1>2, <1>6, <2>1 DEF UnlinkData
  <1>7. CASE OpenData(p) \/ WriteChunk(p) \/ CloseData(p) \/ OpenPostRoute(p)
    <2>1. \A q \in Proc, name \in {"tmp", "manifest"} :
            Fills(q, b, name) => Fills(q, b, name)'
      BY <1>1, <1>7 DEF OpenData, WriteChunk, CloseData, OpenPostRoute, Fills, TypeOK, files
    <2> QED
      BY <1>2, <1>7, <2>1 DEF OpenData, WriteChunk, CloseData, OpenPostRoute, files
  <1>8. ASSUME NEW c \in Backup,
               UploadBegin(p, c) \/ \E s \in Source : NewManifest(p, s, c)
        PROVE  Attended(b)'
    <2>1. pc[p] # "write_tmp" /\ UNCHANGED <<manifest, tmp>>
      BY <1>8 DEF UploadBegin, NewManifest, Begins, files
    <2>2. \A q \in Proc : q # p => /\ pc'[q] = pc[q] /\ id'[q] = id[q] /\ fd'[q] = fd[q]
      BY <1>1, <1>8 DEF UploadBegin, NewManifest, TypeOK
    <2> QED
      BY <1>2, <2>1, <2>2 DEF Fills
  <1>9. CASE Leaves(p)
    <2>1. ~Fills(p, b, "tmp") /\ ~Fills(p, b, "manifest")
      <3>1. CASE Kill(p)
        BY <3>1 DEF Fills
      <3>2. CASE Step(p) \/ Begin(p)
        <4>1. ~OpenTmp(p) /\ ~WriteTmp(p) => pc[p] # "write_tmp"
          BY <3>2 DEF Step, Begin, Begins, OpenData, WriteChunk, CloseData, OpenPostRoute, Fail,
               ReplaceManifest, ReplaceRaises, CheckData, UnlinkData, UnlinkRaises,
               LoadManifest, MarkDeleted, MarkRaises, ApplyKeepLast, RestoreStat, RestoreMissing,
               OpenGetRoute, Finish, RetentionBegin, NewManifest, CheckBase, DeleteBegin,
               RestoreBegin, UploadBegin, DownloadBegin
        <4>2. ~OpenTmp(p) /\ ~WriteTmp(p)
          BY <1>1, <1>9 DEF Leaves, OpenTmp, WriteTmp, TypeOK
        <4> QED
          BY <4>1, <4>2 DEF Fills
      <3> QED
        BY <3>1, <3>2
    <2>2. \A q \in Proc : q # p => /\ pc'[q] = pc[q] /\ id'[q] = id[q] /\ fd'[q] = fd[q]
      BY <1>1, <1>9 DEF Leaves, TypeOK
    <2>3. UNCHANGED <<manifest, tmp>>
      BY <1>9 DEF Leaves
    <2> QED
      BY <1>2, <2>1, <2>2, <2>3 DEF Fills
  <1> QED
    BY LeavesOrWrites, <1>3, <1>4, <1>5, <1>6, <1>7, <1>8, <1>9 DEF Writes

LEMMA AttendedApart ==
  ASSUME (\E r \in routes : RouteExpires(r)) \/ UNCHANGED vars, NEW b \in Backup, Attended(b)
  PROVE  Attended(b)'
  BY DEF RouteExpires, vars, files, locals, Attended, Fills

(* Whatever the rename of a shared .tmp does to the files that others have *)
(* open: a manifest or .tmp is left torn only by a kill between the open   *)
(* and the write in write_manifest.                                        *)
THEOREM TornByKillsOnly == Spec => OnlyKillsTear
  <1> DEFINE Explained(b) ==
        Attended(b) /\ ~Attended(b)' =>
          \E p \in Proc : Kill(p) /\ id[p] = b /\ pc[p] = "write_tmp"
  <1>1. ASSUME FullInv, [Next]_vars, NEW b \in Backup PROVE Explained(b)
    <2>1. TypeOK'
      BY <1>1, NextStep DEF FullInv, IndInv
    <2>2. ASSUME NEW p \in Proc, Step(p) \/ Begin(p) \/ Kill(p) PROVE Explained(b)
      BY <1>1, <2>1, <2>2, AttendedStep
    <2>3. CASE (\E r \in routes : RouteExpires(r)) \/ UNCHANGED vars
      BY <2>3, AttendedApart
    <2> QED
      BY <1>1, <2>2, <2>3 DEF Next
  <1>2. FullInv /\ [Next]_vars => [\A b \in Backup : Explained(b)]_vars
    BY <1>1
  <1> QED
    BY <1>2, FullInvariance, PTL DEF Spec, OnlyKillsTear

(* The inductive invariant: whoever has truncated a .tmp is still about to *)
(* write it, and goes on to do so when somebody else has renamed it.       *)
THEOREM TornInvariance ==
  ASSUME Killable = {}
  PROVE  Spec => []TornInv
  <1>1. Init => TornInv
    BY PresentIsSome DEF Init, TornInv, Attended
  <1>2. FullInv /\ TornInv /\ [Next]_vars => TornInv'
    <2> SUFFICES ASSUME FullInv, TornInv, [Next]_vars, NEW b \in Backup PROVE Attended(b)'
      BY DEF TornInv
    <2>1. TypeOK' /\ Attended(b)
      BY NextStep DEF FullInv, IndInv, TornInv
    <2>2. ASSUME NEW p \in Proc, Step(p) \/ Begin(p) \/ Kill(p) PROVE Attended(b)'
      <3>1. ~Kill(p)
        BY DEF Kill
      <3> QED
        BY <2>1, <2>2, <3>1, AttendedStep
    <2>3. CASE (\E r \in routes : RouteExpires(r)) \/ UNCHANGED vars
      BY <2>1, <2>3, AttendedApart
    <2> QED
      BY <2>2, <2>3 DEF Next
  <1> QED
    BY <1>1, <1>2, FullInvariance, PTL DEF Spec

(* As long as nobody is killed, a reader that finds a manifest torn finds  *)
(* it while write_manifest is still under way: whoever renamed the .tmp,   *)
(* its writer goes on to fill the file.                                    *)
THEOREM TornIsUnderWay ==
  ASSUME Killable = {}
  PROVE  Spec => []TornHasWriter
  <1>1. TornInv => TornHasWriter
    BY DEF TornInv, Attended, Fills, TornHasWriter
  <1> QED
    BY <1>1, TornInvariance, PTL

-----------------------------------------------------------------------------
(* What stays behind of a deleted backup.                                  *)

(* No step takes a data.bin away from under a process without taking its   *)
(* name from the file that the process holds.                              *)
LEMMA DataHeldStep ==
  ASSUME FullInv, TypeOK', DataHeld, NEW p \in Proc, Step(p) \/ Begin(p) \/ Kill(p)
  PROVE  DataHeld'
  <1> USE DEF Goto
  <1>1. TypeOK /\ LocalsOK
    BY DEF FullInv, IndInv
  <1>2. CASE OpenData(p)
    BY <1>1, <1>2 DEF OpenData, DataHeld, TypeOK, LocalsOK, NoData
  <1>3. CASE WriteChunk(p)
    BY <1>1, <1>3 DEF WriteChunk, DataHeld, TypeOK, LocalsOK, NoData
  <1>4. CASE CloseData(p) \/ OpenPostRoute(p)
    BY <1>1, <1>4 DEF CloseData, OpenPostRoute, DataHeld, TypeOK, files
  <1>5. CASE OpenTmp(p) \/ WriteTmp(p)
    BY <1>1, <1>5 DEF OpenTmp, WriteTmp, DataHeld, TypeOK
  <1>6. CASE ReplaceManifest(p)
    BY <1>1, <1>6 DEF ReplaceManifest, DataHeld, TypeOK
  <1>7. CASE UnlinkData(p)
    BY <1>1, <1>7 DEF UnlinkData, DataHeld, TypeOK, LocalsOK
  <1>8. ASSUME NEW c \in Backup, UploadBegin(p, c)
        PROVE  DataHeld'
    BY <1>1, <1>8 DEF UploadBegin, DataHeld, TypeOK, NoData
  <1>9. ASSUME NEW c \in Backup, NEW s \in Source, NewManifest(p, s, c)
        PROVE  DataHeld'
    <2>1. /\ pc[p] \in {"idle", "mint", "mint_bridge"} /\ data' = data /\ fd' = fd
          /\ \A q \in Proc : q # p => pc'[q] = pc[q] /\ id'[q] = id[q]
      BY <1>1, <1>9 DEF NewManifest, Begins, files, TypeOK
    <2> QED
      BY <2>1 DEF DataHeld
  <1>10. CASE Leaves(p) /\ ~Writes(p)
    <2>1. fd'[p] # "data" \/ (fd'[p] = fd[p] /\ pc[p] \notin {"write_data", "receive"})
      <3>1. Exit(p) => fd'[p] # "data"
        BY <1>1 DEF Exit, TypeOK
      <3>2. CASE Step(p) /\ ~Exit(p)
        BY <1>10, <3>2 DEF Step, Writes, Fail, ReplaceRaises, CheckData, UnlinkRaises, LoadManifest,
             MarkDeleted, MarkRaises, ApplyKeepLast, RestoreStat, RestoreMissing, OpenGetRoute,
             Finish, locals
      <3>3. CASE Begin(p) /\ ~Exit(p)
        BY <1>10, <3>3 DEF Begin, Begins, Writes, RetentionBegin, CheckBase, DeleteBegin,
             RestoreBegin, DownloadBegin
      <3> QED
        BY <3>1, <3>2, <3>3 DEF Kill
    <2>2. /\ data' = data
          /\ \A q \in Proc : q # p => /\ pc'[q] = pc[q] /\ id'[q] = id[q] /\ fd'[q] = fd[q]
      BY <1>1, <1>10 DEF Leaves, TypeOK
    <2> QED
      BY <2>1, <2>2 DEF DataHeld
  <1> QED
    BY LeavesOrWrites, <1>2, <1>3, <1>4, <1>5, <1>6, <1>7, <1>8, <1>9, <1>10 DEF Writes

(* Nobody writes through a handle to a data.bin that is not there.         *)
LEMMA DataHeldInvariance == Spec => []DataHeld
  <1>1. Init => DataHeld
    BY DEF Init, DataHeld
  <1>2. FullInv /\ DataHeld /\ [Next]_vars => DataHeld'
    <2> SUFFICES ASSUME FullInv, DataHeld, [Next]_vars PROVE DataHeld'
      OBVIOUS
    <2>1. TypeOK'
      BY NextStep DEF FullInv, IndInv
    <2>2. ASSUME NEW p \in Proc, Step(p) \/ Begin(p) \/ Kill(p) PROVE DataHeld'
      BY <2>1, <2>2, DataHeldStep
    <2>3. CASE (\E r \in routes : RouteExpires(r)) \/ UNCHANGED vars
      BY <2>3 DEF RouteExpires, vars, files, locals, DataHeld
    <2> QED
      BY <2>2, <2>3 DEF Next
  <1> QED
    BY <1>1, <1>2, FullInvariance, PTL DEF Spec

(* Whoever makes a manifest that is not active goes on to data.bin, and    *)
(* leaves only when there is none, if it is not killed.                    *)
LEMMA LeftoverStep ==
  ASSUME FullInv, TypeOK', DataHeld, NEW p \in Proc, Step(p) \/ Begin(p) \/ Kill(p),
         NEW b \in Backup, ~Leftover(b),
         ~(Kill(p) /\ Removes(p, b)), ~UploadBegin(p, b)
  PROVE  ~Leftover(b)'
  <1> USE DEF Goto
  <1>1. TypeOK /\ LocalsOK /\ CreatorAlone /\ TmpNotStale /\ CreatorHoldsTmp
    BY DEF FullInv, IndInv
  <1>2. ASSUME manifest'[b].status \in {"torn", "deleted"} => manifest[b].status \in {"torn", "deleted"},
               data'[b] # NoData => data[b] # NoData,
               \A q \in Proc : Removes(q, b) => Removes(q, b)' \/ data'[b] = NoData
        PROVE  ~Leftover(b)'
    BY <1>2 DEF Leftover
  <1>3. CASE OpenData(p)
    <2>1. id[p] \in Backup /\ manifest[id[p]].status = "absent"
      BY <1>1, <1>3, PresentIsSome DEF OpenData, LocalsOK, CreatorAlone, Creating
    <2>2. /\ manifest' = manifest /\ (b # id[p] => data'[b] = data[b])
          /\ \A q \in Proc : Removes(q, b) => Removes(q, b)'
      BY <1>1, <1>3, <2>1 DEF OpenData, Removes, TypeOK
    <2>3. CASE b = id[p]
      BY <2>1, <2>2, <2>3 DEF Leftover
    <2>4. CASE b # id[p]
      BY <1>2, <2>2, <2>4
    <2> QED
      BY <2>3, <2>4
  <1>4. CASE WriteChunk(p)
    <2>1. /\ manifest' = manifest /\ (data'[b] # NoData => data[b] # NoData)
          /\ \A q \in Proc : Removes(q, b) => Removes(q, b)'
      BY <1>1, <1>4 DEF WriteChunk, Removes, DataHeld, TypeOK, LocalsOK, NoData
    <2> QED
      BY <1>2, <2>1
  <1>5. CASE CloseData(p) \/ OpenPostRoute(p) \/ OpenTmp(p)
    <2>1. /\ manifest' = manifest /\ data' = data
          /\ \A q \in Proc : Removes(q, b) => Removes(q, b)'
      BY <1>1, <1>5 DEF CloseData, OpenPostRoute, OpenTmp, Removes, TypeOK, files
    <2> QED
      BY <1>2, <2>1
  <1>6. CASE WriteTmp(p)
    <2>1. data' = data /\ \A q \in Proc : Removes(q, b) => Removes(q, b)'
      BY <1>1, <1>6 DEF WriteTmp, Removes, TypeOK
    <2>2. manifest'[b].status \in {"torn", "deleted"} => manifest[b].status \in {"torn", "deleted"}
      BY <1>1, <1>6 DEF WriteTmp, TypeOK, TmpNotStale
    <2> QED
      BY <1>2, <2>1, <2>2
  <1>7. CASE ReplaceManifest(p)
    <2>1. /\ id[p] \in Backup /\ text[p].status \in {"active", "deleted"} /\ data' = data
          /\ manifest' = [manifest EXCEPT ![id[p]] = tmp[id[p]]] /\ id' = id
      BY <1>1, <1>7 DEF ReplaceManifest, LocalsOK, InWriteManifest
    <2>2. CASE b # id[p]
      <3>1. \A q \in Proc : Removes(q, b) => Removes(q, b)'
        BY <1>1, <1>7, <2>2 DEF ReplaceManifest, Removes, TypeOK
      <3> QED
        BY <1>1, <1>2, <2>1, <2>2, <3>1 DEF TypeOK
    <2>3. CASE b = id[p] /\ text[p].status = "active"
      <3>1. tmp[id[p]] = text[p]
        BY <1>1, <1>7, <2>3 DEF ReplaceManifest, CreatorHoldsTmp, Creating, InWriteManifest
      <3>2. manifest'[b].status = "active"
        BY <1>1, <2>1, <2>3, <3>1 DEF TypeOK
      <3> QED
        BY <3>2 DEF Leftover
    <2>4. CASE b = id[p] /\ text[p].status # "active"
      <3>1. Removes(p, b)'
        BY <1>1, <1>7, <2>1, <2>4 DEF ReplaceManifest, Removes, TypeOK
      <3> QED
        BY <3>1 DEF Leftover
    <2> QED
      BY <2>2, <2>3, <2>4
  <1>8. CASE UnlinkData(p)
    <2>1. /\ manifest' = manifest /\ (data'[b] # NoData => data[b] # NoData)
          /\ \A q \in Proc : Removes(q, b) => Removes(q, b)' \/ data'[b] = NoData
      BY <1>1, <1>8 DEF UnlinkData, Removes, TypeOK, LocalsOK
    <2> QED
      BY <1>2, <2>1
  <1>9. ASSUME NEW c \in Backup, UploadBegin(p, c)
        PROVE  ~Leftover(b)'
    <2>1. c # b
      BY <1>9
    <2>2. /\ manifest' = manifest /\ data'[b] = data[b]
          /\ \A q \in Proc : Removes(q, b) => Removes(q, b)'
      BY <1>1, <1>9, <2>1 DEF UploadBegin, Begins, Removes, TypeOK
    <2> QED
      BY <1>2, <2>2
  <1>10. ASSUME NEW c \in Backup, NEW s \in Source, NewManifest(p, s, c)
         PROVE  ~Leftover(b)'
    <2>1. /\ pc[p] \in {"idle", "mint", "mint_bridge"} /\ manifest' = manifest /\ data' = data
          /\ \A q \in Proc : q # p => pc'[q] = pc[q] /\ id'[q] = id[q]
      BY <1>1, <1>10 DEF NewManifest, Begins, files, TypeOK
    <2> QED
      BY <1>2, <2>1 DEF Removes
  <1>11. CASE Leaves(p)
    <2>1. Removes(p, b) => Removes(p, b)' \/ data[b] = NoData
      <3> SUFFICES ASSUME Removes(p, b), data[b] # NoData PROVE Removes(p, b)'
        OBVIOUS
      <3>1. ~Kill(p) /\ pc[p] \in {"check_data", "unlink"} /\ id[p] = b
        BY DEF Removes
      <3>2. CheckData(p) \/ UnlinkData(p)
        BY <3>1 DEF Step, Begin, Begins, OpenData, WriteChunk, CloseData, OpenPostRoute,
             Fail, OpenTmp, WriteTmp, ReplaceManifest, ReplaceRaises, UnlinkRaises,
             LoadManifest, MarkDeleted, MarkRaises, ApplyKeepLast, RestoreStat,
             RestoreMissing, OpenGetRoute, Finish, RetentionBegin, NewManifest, CheckBase,
             DeleteBegin, RestoreBegin, UploadBegin, DownloadBegin
      <3>3. ~UnlinkData(p)
        BY <1>1, <1>11, <3>1 DEF Leaves, UnlinkData, TypeOK
      <3> QED
        BY <1>1, <3>1, <3>2, <3>3 DEF CheckData, Removes, locals, TypeOK
    <2>2. /\ manifest' = manifest /\ data' = data
          /\ \A q \in Proc : q # p => pc'[q] = pc[q] /\ id'[q] = id[q]
      BY <1>1, <1>11 DEF Leaves, TypeOK
    <2> QED
      BY <1>2, <2>1, <2>2 DEF Removes
  <1> QED
    BY LeavesOrWrites, <1>3, <1>4, <1>5, <1>6, <1>7, <1>8, <1>9, <1>10, <1>11 DEF Writes

(* Whichever deleter wins the race for the .tmp, one that renames goes on  *)
(* to data.bin: it stays only if that one is killed there, or if an upload *)
(* makes it anew.                                                          *)
THEOREM LeftoversHaveCauses == Spec => LeftoversExplained
  <1> DEFINE Explained(b) ==
        Leftover(b)' /\ ~Leftover(b) =>
          \E p \in Proc : (Kill(p) /\ Removes(p, b)) \/ UploadBegin(p, b)
  <1>1. ASSUME FullInv, DataHeld, [Next]_vars, NEW b \in Backup PROVE Explained(b)
    <2>1. TypeOK'
      BY <1>1, NextStep DEF FullInv, IndInv
    <2>2. ASSUME NEW p \in Proc, Step(p) \/ Begin(p) \/ Kill(p) PROVE Explained(b)
      BY <1>1, <2>1, <2>2, LeftoverStep
    <2>3. CASE (\E r \in routes : RouteExpires(r)) \/ UNCHANGED vars
      BY <2>3 DEF RouteExpires, vars, files, locals, Leftover, Removes
    <2> QED
      BY <1>1, <2>2, <2>3 DEF Next
  <1>2. FullInv /\ DataHeld /\ [Next]_vars => [\A b \in Backup : Explained(b)]_vars
    BY <1>1
  <1> QED
    BY <1>2, FullInvariance, DataHeldInvariance, PTL DEF Spec, LeftoversExplained

-----------------------------------------------------------------------------
(* The floor of active backups above a deleted one.                        *)

(* A finite set that has k members in a part of it has k members.          *)
LEMMA EnoughInPart ==
  ASSUME NEW T, IsFiniteSet(T), NEW S \in SUBSET T, NEW k \in Nat, Cardinality(S) >= k
  PROVE  Cardinality(T) >= k
  <1>1. IsFiniteSet(S) /\ Cardinality(S) <= Cardinality(T)
    BY FS_Subset
  <1>2. Cardinality(S) \in Nat /\ Cardinality(T) \in Nat
    BY <1>1, FS_CardinalityType
  <1> QED
    BY <1>1, <1>2

(* What is newer than a backup is minted, so there are finitely many.      *)
LEMMA NewerFinite ==
  ASSUME TypeOK, IsFiniteSet(Minted), NEW b \in Backup
  PROVE  IsFiniteSet(ActiveNewer(b))
  <1>1. ActiveNewer(b) \subseteq Minted
    BY DEF ActiveNewer, NewerIn, Minted, TypeOK
  <1> QED
    BY <1>1, FS_Subset

(* What has its floor hands it down to the older backups of its source.    *)
LEMMA FloorInherited ==
  ASSUME TypeOK, IsFiniteSet(Minted), NEW b \in Backup, NEW c \in NewerIn(Backup, b),
         source[c] = source[b], HasFloor(c)
  PROVE  HasFloor(b)
  <1>1. ActiveNewer(c) \subseteq ActiveNewer(b)
    BY DEF ActiveNewer, NewerIn, TypeOK
  <1>2. PICK k \in Keep : Cardinality(ActiveNewer(c)) >= k
    BY DEF HasFloor
  <1>3. k \in Nat
    BY ConstantsAssumption DEF ConstantsAssumption
  <1> QED
    BY <1>1, <1>2, <1>3, NewerFinite, EnoughInPart DEF HasFloor

(* At most one backup ceases to be active at a step.  If that one has its  *)
(* floor, nobody loses theirs: a backup it was counted for has at least    *)
(* the ones above it.                                                      *)
LEMMA FloorKept ==
  ASSUME TypeOK, TypeOK', IsFiniteSet(Minted), UNCHANGED <<created, source>>,
         NEW c \in Backup,
         \A d \in Backup : manifest[d].status = "active" /\ d # c
                             => manifest'[d].status = "active",
         manifest[c].status = "active" => manifest'[c].status = "active" \/ HasFloor(c),
         NEW b \in Backup, HasFloor(b)
  PROVE  HasFloor(b)'
  <1>1. IsFiniteSet(ActiveNewer(b)')
    <2>1. ActiveNewer(b)' \subseteq Minted
      BY DEF ActiveNewer, NewerIn, Minted, TypeOK
    <2> QED
      BY <2>1, FS_Subset
  <1>2. CASE ActiveNewer(b) \subseteq ActiveNewer(b)'
    <2>1. PICK k \in Keep : Cardinality(ActiveNewer(b)) >= k
      BY DEF HasFloor
    <2>2. k \in Nat
      BY ConstantsAssumption DEF ConstantsAssumption
    <2> QED
      BY <1>1, <1>2, <2>1, <2>2, EnoughInPart DEF HasFloor
  <1>3. CASE ~(ActiveNewer(b) \subseteq ActiveNewer(b)')
    <2>1. c \in ActiveNewer(b) /\ HasFloor(c)
      BY <1>3 DEF ActiveNewer, NewerIn
    <2>2. ActiveNewer(c) \subseteq ActiveNewer(b)'
      BY <2>1 DEF ActiveNewer, NewerIn, TypeOK
    <2>3. PICK k \in Keep : Cardinality(ActiveNewer(c)) >= k
      BY <2>1 DEF HasFloor
    <2>4. k \in Nat
      BY ConstantsAssumption DEF ConstantsAssumption
    <2> QED
      BY <1>1, <2>2, <2>3, <2>4, EnoughInPart DEF HasFloor
  <1> QED
    BY <1>2, <1>3

(* keep_last picks only backups that have their floor: above each there    *)
(* are k in what the run has seen, and if one of those is not active any   *)
(* more, then it had a floor itself.                                       *)
LEMMA PickedHaveFloor ==
  ASSUME FullInv, FloorInv, NEW p \in Proc, NEW k \in Keep, ApplyKeepLast(p, k),
         NEW b \in BeyondNewest(batch[p], k)
  PROVE  HasFloor(b)
  <1>1. TypeOK /\ SnapshotsOK /\ IsFiniteSet(Minted)
    BY DEF FullInv, IndInv, FloorInv, Minted
  <1>2. /\ pc[p] = "scan" /\ batch[p] \subseteq Backup /\ b \in batch[p]
        /\ Cardinality(NewerIn(batch[p], b)) >= k
    BY <1>1 DEF ApplyKeepLast, BeyondNewest, TypeOK
  <1>3. \A c \in NewerIn(batch[p], b) : c \in NewerIn(Backup, b) /\ source[c] = source[b]
    BY <1>1, <1>2 DEF SnapshotsOK, NewerIn
  <1>4. CASE NewerIn(batch[p], b) \subseteq ActiveNewer(b)
    <2>1. k \in Nat
      BY ConstantsAssumption DEF ConstantsAssumption
    <2> QED
      BY <1>1, <1>2, <1>4, <2>1, NewerFinite, EnoughInPart DEF HasFloor
  <1>5. CASE ~(NewerIn(batch[p], b) \subseteq ActiveNewer(b))
    <2>1. PICK c \in NewerIn(batch[p], b) : manifest[c].status # "active"
      BY <1>3, <1>5 DEF ActiveNewer
    <2>2. c \in Backup /\ c \in batch[p]
      BY <1>2, <2>1 DEF NewerIn
    <2>3. manifest[c].status \in {"torn", "deleted"}
      BY <1>1, <2>1, <2>2, AbsentIsNoFile DEF SnapshotsOK, TypeOK
    <2>4. HasFloor(c)
      BY <2>2, <2>3 DEF FloorInv, Doomed
    <2> QED
      BY <1>1, <1>2, <1>3, <2>1, <2>4, FloorInherited
  <1> QED
    BY <1>4, <1>5

-----------------------------------------------------------------------------
(* What a step does to the lists of retention runs.                        *)

(* The process keeps its lists, or ends and drops them. *)
KeepsLists(p) ==
  /\ \A q \in Proc : q # p => /\ left'[q] = left[q] /\ batch'[q] = batch[q] /\ pc'[q] = pc[q]
  /\ \/ left'[p] = {} /\ batch'[p] = {} /\ pc'[p] = "idle"
     \/ /\ left'[p] = left[p] /\ batch'[p] = batch[p]
        /\ pc[p] # "scan" /\ pc'[p] \notin {"idle", "scan"}

(* Only four steps of retention do anything else. *)
Retains(p) ==
  \/ \E s \in Source : RetentionBegin(p, s)
  \/ \E b \in Backup : LoadManifest(p, b) \/ MarkDeleted(p, b)
  \/ \E k \in Keep : ApplyKeepLast(p, k)

LEMMA KeepsListsStep ==
  ASSUME FullInv, TypeOK', NEW p \in Proc, Step(p) \/ Begin(p) \/ Kill(p), ~Retains(p)
  PROVE  KeepsLists(p)
  <1> USE DEF Goto
  <1>1. TypeOK
    BY DEF FullInv, IndInv
  <1>2. Exit(p) => KeepsLists(p)
    BY <1>1 DEF Exit, KeepsLists, TypeOK
  <1>3. CASE \/ Fail(p) \/ ReplaceRaises(p) \/ UnlinkRaises(p) \/ RestoreMissing(p)
             \/ OpenGetRoute(p) \/ Finish(p) \/ Kill(p) \/ \E b \in Backup : MarkRaises(p, b)
    BY <1>2, <1>3 DEF Fail, ReplaceRaises, UnlinkRaises, RestoreMissing, OpenGetRoute,
                      Finish, Kill, MarkRaises
  <1>4. CASE OpenData(p) \/ WriteChunk(p) \/ CloseData(p) \/ OpenPostRoute(p) \/ OpenTmp(p)
    BY <1>1, <1>4 DEF OpenData, WriteChunk, CloseData, OpenPostRoute, OpenTmp, KeepsLists, TypeOK
  <1>5. CASE WriteTmp(p) \/ UnlinkData(p)
    BY <1>1, <1>5 DEF WriteTmp, UnlinkData, KeepsLists, TypeOK
  <1>6. CASE ReplaceManifest(p) \/ CheckData(p) \/ RestoreStat(p)
    BY <1>1, <1>6 DEF ReplaceManifest, CheckData, RestoreStat, KeepsLists, TypeOK, locals
  <1>7. ASSUME NEW b \in Backup, NEW s \in Source, NewManifest(p, s, b)
        PROVE  KeepsLists(p)
    BY <1>1, <1>7 DEF NewManifest, Begins, KeepsLists, TypeOK
  <1>8. ASSUME NEW b \in Backup, CheckBase(p, b) \/ DeleteBegin(p, b) \/ RestoreBegin(p, b)
        PROVE  KeepsLists(p)
    BY <1>1, <1>8 DEF CheckBase, DeleteBegin, RestoreBegin, Begins, KeepsLists, TypeOK
  <1>9. ASSUME NEW b \in Backup, UploadBegin(p, b) \/ DownloadBegin(p, b)
        PROVE  KeepsLists(p)
    BY <1>1, <1>9 DEF UploadBegin, DownloadBegin, Begins, KeepsLists, TypeOK
  <1> QED
    BY <1>3, <1>4, <1>5, <1>6, <1>7, <1>8, <1>9 DEF Step, Begin, Retains

(* Only a new id touches created and source, and only the writes of        *)
(* write_manifest touch a manifest.                                        *)
LEMMA StampsKept ==
  ASSUME NEW p \in Proc, Step(p) \/ Begin(p) \/ Kill(p),
         \A b \in Backup, s \in Source : ~NewManifest(p, s, b)
  PROVE  UNCHANGED <<created, source>>
  BY DEF Step, Begin, Kill, stamps, OpenData, WriteChunk, CloseData, OpenPostRoute, Fail,
         OpenTmp, WriteTmp, ReplaceManifest, ReplaceRaises, CheckData, UnlinkData,
         UnlinkRaises, LoadManifest, MarkDeleted, MarkRaises, ApplyKeepLast, RestoreStat,
         RestoreMissing, OpenGetRoute, Finish, RetentionBegin, CheckBase, DeleteBegin,
         RestoreBegin, UploadBegin, DownloadBegin

LEMMA ManifestKept ==
  ASSUME NEW p \in Proc, Step(p) \/ Begin(p) \/ Kill(p), ~WriteTmp(p), ~ReplaceManifest(p)
  PROVE  UNCHANGED manifest
  BY DEF Step, Begin, Kill, files, OpenData, WriteChunk, CloseData, OpenPostRoute, Fail,
         OpenTmp, ReplaceRaises, CheckData, UnlinkData, UnlinkRaises, LoadManifest,
         MarkDeleted, MarkRaises, ApplyKeepLast, RestoreStat, RestoreMissing, OpenGetRoute,
         Finish, RetentionBegin, NewManifest, CheckBase, DeleteBegin, RestoreBegin,
         UploadBegin, DownloadBegin

(* No id that is minted is one that a run has on its lists, and what it    *)
(* has seen keeps a manifest.                                              *)
LEMMA SnapshotsStep ==
  ASSUME FullInv, FloorInv, TypeOK', NEW p \in Proc, Step(p) \/ Begin(p) \/ Kill(p)
  PROVE  SnapshotsOK'
  <1> USE DEF Goto
  <1>1. TypeOK /\ UnmintedUnknown /\ SnapshotsOK
    BY DEF FullInv, IndInv, FloorInv
  <1>2. \A b \in Backup : manifest[b].status # "absent" => manifest'[b].status # "absent"
    BY <1>1, LeavesOrWrites, ManifestStays, PresentIsSome, AbsentIsNoFile DEF TypeOK
  <1>3. \A b \in Backup : created[b] # 0 => created'[b] # 0 /\ source'[b] = source[b]
    <2>1. ASSUME NEW b \in Backup, NEW s \in Source, NewManifest(p, s, b),
                 NEW c \in Backup, created[c] # 0
          PROVE  created'[c] # 0 /\ source'[c] = source[c]
      BY <1>1, <2>1 DEF NewManifest, TypeOK
    <2> QED
      BY <2>1, StampsKept
  <1>4. \A q \in Proc : \A b \in left[q] \cup batch[q] : b \in Backup /\ created[b] # 0
    <2>1. ASSUME NEW b \in Backup, manifest[b].status # "absent" PROVE created[b] # 0
      BY <1>1, <2>1, PresentIsSome DEF UnmintedUnknown
    <2>2. \A q \in Proc : left[q] \subseteq Backup /\ batch[q] \subseteq Backup
      BY <1>1 DEF TypeOK
    <2> QED
      BY <1>1, <2>1, <2>2 DEF SnapshotsOK
  <1> DEFINE ListOK(l, m, label) ==
        /\ label = "idle" => m = {}
        /\ \A b \in l : created'[b] # 0
        /\ \A b \in m : manifest'[b].status # "absent"
        /\ label = "scan" => \A b, c \in l \cup m : source'[b] = source'[c]
  <1>5. \A q \in Proc : ListOK(left[q], batch[q], pc[q])
    BY <1>1, <1>2, <1>3, <1>4 DEF SnapshotsOK
  <1>6. ASSUME NEW q \in Proc PROVE ListOK(left'[q], batch'[q], pc'[q])
    <2>1. CASE KeepsLists(p)
      BY <1>5, <2>1 DEF KeepsLists
    <2>2. ASSUME NEW s \in Source, RetentionBegin(p, s)
          PROVE  ListOK(left'[q], batch'[q], pc'[q])
      <3>1. CASE q = p
        <4>1. /\ left'[p] = {b \in Backup : created[b] # 0 /\ source[b] = s}
              /\ batch'[p] = {} /\ pc'[p] = "scan"
          BY <1>1, <2>2 DEF RetentionBegin, Begins, TypeOK, SnapshotsOK
        <4> QED
          BY <1>3, <3>1, <4>1
      <3>2. CASE q # p
        BY <1>1, <1>5, <2>2, <3>2 DEF RetentionBegin, TypeOK
      <3> QED
        BY <3>1, <3>2
    <2>3. ASSUME NEW b \in Backup, LoadManifest(p, b)
          PROVE  ListOK(left'[q], batch'[q], pc'[q])
      <3>1. /\ left'[q] \subseteq left[q] /\ batch'[q] \subseteq batch[q] \cup left[q]
            /\ pc'[q] = pc[q] /\ (q # p => batch'[q] = batch[q])
            /\ pc[p] = "scan"
        BY <1>1, <2>3 DEF LoadManifest, TypeOK
      <3>2. \A c \in batch'[q] : c \in batch[q] \/ manifest[c].status = "active"
        BY <1>1, <2>3 DEF LoadManifest, TypeOK
      <3>3. \A c \in batch'[q] : manifest'[c].status # "absent"
        BY <1>2, <1>4, <1>5, <3>1, <3>2
      <3> QED
        BY <1>5, <3>1, <3>3
    <2>4. ASSUME NEW b \in Backup, MarkDeleted(p, b)
          PROVE  ListOK(left'[q], batch'[q], pc'[q])
      <3>1. /\ left'[q] = left[q] /\ batch'[q] \subseteq batch[q]
            /\ pc'[q] = pc[q] \/ pc'[q] = "open_tmp"
        BY <1>1, <2>4 DEF MarkDeleted, TypeOK
      <3> QED
        BY <1>5, <3>1
    <2>5. ASSUME NEW k \in Keep, ApplyKeepLast(p, k)
          PROVE  ListOK(left'[q], batch'[q], pc'[q])
      <3>1. /\ left'[q] = left[q] /\ batch'[q] \subseteq batch[q]
            /\ pc'[q] = pc[q] \/ pc'[q] = "mark"
        BY <1>1, <2>5 DEF ApplyKeepLast, BeyondNewest, TypeOK
      <3> QED
        BY <1>5, <3>1
    <2> QED
      BY KeepsListsStep, <2>1, <2>2, <2>3, <2>4, <2>5 DEF Retains
  <1> QED
    BY <1>6 DEF SnapshotsOK

-----------------------------------------------------------------------------
(* The step theorem and the floor.                                         *)

(* Without backup.delete only _mark_deleted sets out to rewrite a manifest *)
(* as deleted.                                                             *)
LEMMA MarksKept ==
  ASSUME FullInv, TypeOK', NEW p \in Proc, Step(p) \/ Begin(p) \/ Kill(p),
         \A b \in Backup : ~MarkDeleted(p, b) /\ ~DeleteBegin(p, b),
         NEW q \in Proc, NEW b \in Backup, Marks(q, b)'
  PROVE  Marks(q, b)
  <1> USE DEF Goto
  <1>1. TypeOK
    BY DEF FullInv, IndInv
  <1>2. CASE q # p
    <2>1. Leaves(p) \/ Writes(p)
      BY LeavesOrWrites
    <2>2. pc'[q] = pc[q] /\ id'[q] = id[q] /\ text'[q] = text[q]
      BY <1>1, <1>2, <2>1, WritersApart DEF Leaves, TypeOK
    <2> QED
      BY <2>2 DEF Marks, InWriteManifest
  <1>3. CASE q = p
    <2>1. CASE OpenTmp(p) \/ WriteTmp(p)
      BY <1>1, <1>3, <2>1 DEF OpenTmp, WriteTmp, Marks, InWriteManifest, TypeOK
    <2>2. CASE CloseData(p) \/ OpenPostRoute(p)
      <3>1. text'[p].status = "active"
        BY <1>1, <2>2 DEF CloseData, OpenPostRoute, TypeOK
      <3> QED
        BY <1>3, <3>1 DEF Marks
    <2>3. Exit(p) => ~InWriteManifest(p)'
      BY <1>1 DEF Exit, InWriteManifest, TypeOK
    <2>4. CASE \/ Fail(p) \/ ReplaceRaises(p) \/ UnlinkRaises(p) \/ RestoreMissing(p)
               \/ OpenGetRoute(p) \/ Finish(p) \/ Kill(p) \/ \E c \in Backup : MarkRaises(p, c)
      BY <1>3, <2>3, <2>4 DEF Fail, ReplaceRaises, UnlinkRaises, RestoreMissing, OpenGetRoute,
                              Finish, Kill, MarkRaises, Marks
    <2>5. CASE \/ OpenData(p) \/ WriteChunk(p) \/ ReplaceManifest(p) \/ CheckData(p)
               \/ UnlinkData(p) \/ RestoreStat(p)
      <3>1. ~InWriteManifest(p)'
        BY <1>1, <2>5 DEF OpenData, WriteChunk, ReplaceManifest, CheckData, UnlinkData,
                          RestoreStat, InWriteManifest, TypeOK
      <3> QED
        BY <1>3, <3>1 DEF Marks
    <2>6. CASE \/ \E k \in Keep : ApplyKeepLast(p, k)
               \/ \E s \in Source : RetentionBegin(p, s)
               \/ \E c \in Backup : LoadManifest(p, c)
      <3>1. ~InWriteManifest(p)'
        BY <1>1, <2>6 DEF ApplyKeepLast, RetentionBegin, LoadManifest, InWriteManifest, TypeOK
      <3> QED
        BY <1>3, <3>1 DEF Marks
    <2>7. ASSUME NEW c \in Backup,
                 (\E s \in Source : NewManifest(p, s, c)) \/ CheckBase(p, c)
          PROVE  Marks(q, b)
      <3>1. pc'[p] \in {"open_data", "open_route", "mint", "mint_bridge"}
        BY <1>1, <2>7 DEF NewManifest, CheckBase, TypeOK
      <3> QED
        BY <1>3, <3>1 DEF Marks, InWriteManifest
    <2>8. ASSUME NEW c \in Backup,
                 RestoreBegin(p, c) \/ UploadBegin(p, c) \/ DownloadBegin(p, c)
          PROVE  Marks(q, b)
      <3>1. pc'[p] \in {"stat", "receive", "send"}
        BY <1>1, <2>8 DEF RestoreBegin, UploadBegin, DownloadBegin, TypeOK
      <3> QED
        BY <1>3, <3>1 DEF Marks, InWriteManifest
    <2> QED
      BY <2>1, <2>2, <2>4, <2>5, <2>6, <2>7, <2>8 DEF Step, Begin
  <1> QED
    BY <1>2, <1>3

(* A manifest that is torn or deleted was so before, or is written by one  *)
(* who marks it: what a creator renames is its own text, an active one.    *)
LEMMA WrittenDoomed ==
  ASSUME FullInv, TypeOK', NEW p \in Proc, WriteTmp(p) \/ ReplaceManifest(p),
         NEW b \in Backup, manifest'[b].status \in {"torn", "deleted"}
  PROVE  Doomed(b)
  <1>1. TypeOK /\ LocalsOK /\ TmpNotStale /\ CreatorHoldsTmp
    BY DEF FullInv, IndInv
  <1>2. CASE manifest'[b] = manifest[b]
    BY <1>2 DEF Doomed
  <1>3. CASE manifest'[b] # manifest[b]
    <2>1. CASE WriteTmp(p)
      <3>1. id[p] = b /\ fd[p] = "manifest" /\ pc[p] = "write_tmp"
        BY <1>1, <1>3, <2>1 DEF WriteTmp, TypeOK
      <3>2. Marks(p, b)
        BY <1>1, <3>1 DEF TmpNotStale, Marks, InWriteManifest
      <3> QED
        BY <3>2 DEF Doomed
    <2>2. CASE ReplaceManifest(p)
      <3>1. id[p] = b /\ pc[p] = "replace" /\ manifest'[b] = tmp[b]
        BY <1>1, <1>3, <2>2 DEF ReplaceManifest, TypeOK
      <3>2. text[p].status # "active"
        BY <1>1, <3>1 DEF CreatorHoldsTmp, Creating, InWriteManifest
      <3>3. Marks(p, b)
        BY <1>1, <3>1, <3>2 DEF LocalsOK, Marks, InWriteManifest
      <3> QED
        BY <3>3 DEF Doomed
    <2> QED
      BY <2>1, <2>2
  <1> QED
    BY <1>2, <1>3

(* Retention dooms a backup only by picking it, at keep_last. *)
LEMMA DoomedStep ==
  ASSUME FullInv, FloorInv, TypeOK', NEW p \in Proc, Step(p) \/ Begin(p) \/ Kill(p),
         \A c \in Backup : ~DeleteBegin(p, c),
         NEW b \in Backup, Doomed(b)'
  PROVE  Doomed(b) \/ \E k \in Keep : ApplyKeepLast(p, k) /\ b \in BeyondNewest(batch[p], k)
  <1> USE DEF Goto
  <1>1. TypeOK /\ SnapshotsOK
    BY DEF FullInv, IndInv, FloorInv
  <1>2. CASE manifest'[b].status \in {"torn", "deleted"}
    BY <1>2, ManifestKept, WrittenDoomed DEF Doomed
  <1>3. ASSUME NEW q \in Proc, Marks(q, b)'
        PROVE  Doomed(b)
    <2>1. CASE \A c \in Backup : ~MarkDeleted(p, c)
      BY <1>3, <2>1, MarksKept DEF Doomed
    <2>2. ASSUME NEW c \in Backup, MarkDeleted(p, c) PROVE Doomed(b)
      <3>1. CASE q = p
        <4>1. c = b /\ pc[p] = "mark" /\ b \in batch[p]
          BY <1>1, <1>3, <2>2, <3>1 DEF MarkDeleted, Marks, TypeOK
        <4> QED
          BY <4>1 DEF Doomed
      <3>2. CASE q # p
        <4>1. Marks(q, b)
          BY <1>1, <1>3, <2>2, <3>2 DEF MarkDeleted, Marks, InWriteManifest, TypeOK
        <4> QED
          BY <4>1 DEF Doomed
      <3> QED
        BY <3>1, <3>2
    <2> QED
      BY <2>1, <2>2
  <1>4. ASSUME NEW q \in Proc, pc'[q] # "scan", b \in batch'[q]
        PROVE  Doomed(b) \/ \E k \in Keep : ApplyKeepLast(p, k) /\ b \in BeyondNewest(batch[p], k)
    <2>1. CASE KeepsLists(p)
      <3>1. b \in batch[q] /\ pc[q] # "scan"
        BY <1>4, <2>1 DEF KeepsLists
      <3> QED
        BY <3>1 DEF Doomed
    <2>2. CASE (\E s \in Source : RetentionBegin(p, s)) \/ \E c \in Backup : LoadManifest(p, c)
      <3>1. b \in batch[q] /\ pc[q] # "scan"
        BY <1>1, <1>4, <2>2 DEF RetentionBegin, LoadManifest, TypeOK
      <3> QED
        BY <3>1 DEF Doomed
    <2>3. CASE \E c \in Backup : MarkDeleted(p, c)
      <3>1. b \in batch[q] /\ pc[q] # "scan"
        BY <1>1, <1>4, <2>3 DEF MarkDeleted, TypeOK
      <3> QED
        BY <3>1 DEF Doomed
    <2>4. ASSUME NEW k \in Keep, ApplyKeepLast(p, k)
          PROVE  Doomed(b) \/ b \in BeyondNewest(batch[p], k)
      <3>1. (q # p /\ b \in batch[q] /\ pc[q] # "scan") \/ b \in BeyondNewest(batch[p], k)
        BY <1>1, <1>4, <2>4 DEF ApplyKeepLast, TypeOK
      <3> QED
        BY <3>1 DEF Doomed
    <2> QED
      BY KeepsListsStep, <2>1, <2>2, <2>3, <2>4 DEF Retains
  <1>5. Doomed(b)' <=> \/ manifest'[b].status \in {"torn", "deleted"}
                       \/ \E q \in Proc : \/ Marks(q, b)'
                                          \/ (pc'[q] # "scan" /\ b \in batch'[q])
    BY DEF Doomed
  <1> QED
    BY <1>2, <1>3, <1>4, <1>5

(* Who is doomed has a manifest. *)
LEMMA DoomedKnown ==
  ASSUME FullInv, FloorInv, NEW b \in Backup, Doomed(b)
  PROVE  manifest[b] # NoFile /\ created[b] # 0
  <1>1. manifest[b] # NoFile
    BY PresentIsSome DEF FullInv, IndInv, DeletersSeeManifest, FloorInv, SnapshotsOK, Doomed, Marks
  <1> QED
    BY <1>1 DEF FullInv, IndInv, UnmintedUnknown

(* A doomed backup keeps its floor at every step. *)
LEMMA FloorStays ==
  ASSUME FullInv, FloorInv, TypeOK', NEW p \in Proc, Step(p) \/ Begin(p) \/ Kill(p),
         NEW b \in Backup, Doomed(b), HasFloor(b)
  PROVE  HasFloor(b)'
  <1>1. TypeOK /\ LocalsOK /\ UnmintedUnknown /\ IsFiniteSet(Minted)
    BY DEF FullInv, IndInv, FloorInv
  <1>2. ASSUME NEW s \in Source, NEW c \in Backup, NewManifest(p, s, c)
        PROVE  HasFloor(b)'
    <2>1. /\ created' = [created EXCEPT ![c] = clock + 1] /\ source' = [source EXCEPT ![c] = s]
          /\ manifest' = manifest /\ created[c] = 0
      BY <1>2 DEF NewManifest, files
    <2>2. c # b /\ manifest[c].status # "active"
      BY <1>1, <2>1, DoomedKnown, PresentIsSome DEF UnmintedUnknown
    <2>3. ActiveNewer(b)' = ActiveNewer(b)
      BY <1>1, <2>1, <2>2 DEF ActiveNewer, NewerIn, TypeOK
    <2> QED
      BY <2>3 DEF HasFloor
  <1>3. CASE \A c \in Backup, s \in Source : ~NewManifest(p, s, c)
    <2>1. UNCHANGED <<created, source>>
      BY <1>3, StampsKept
    <2>2. CASE UNCHANGED manifest
      BY <1>1, <2>1, <2>2, FloorKept
    <2>3. CASE WriteTmp(p) \/ ReplaceManifest(p)
      <3>1. id[p] \in Backup /\ \A d \in Backup : d # id[p] => manifest'[d] = manifest[d]
        BY <1>1, <2>3 DEF WriteTmp, ReplaceManifest, LocalsOK, TypeOK
      <3>2. ASSUME manifest[id[p]].status = "active", manifest'[id[p]].status # "active"
            PROVE  HasFloor(id[p])
        <4>1. manifest[id[p]] # NoFile
          BY <3>2, PresentIsSome
        <4>2. manifest'[id[p]] # NoFile
          BY <3>1, <4>1, LeavesOrWrites, ManifestStays
        <4>3. manifest'[id[p]].status \in {"torn", "deleted"}
          BY <3>1, <3>2, <4>2, AbsentIsNoFile DEF TypeOK
        <4> QED
          BY <2>3, <3>1, <4>3, WrittenDoomed DEF FloorInv
      <3> QED
        BY <1>1, <2>1, <3>1, <3>2, FloorKept
    <2> QED
      BY <2>2, <2>3, ManifestKept
  <1> QED
    BY <1>2, <1>3

(* One step of any handler but backup.delete. *)
LEMMA FloorStep ==
  ASSUME FullInv, FloorInv, TypeOK', NEW p \in Proc, "delete" \notin Entry[p],
         Step(p) \/ Begin(p) \/ Kill(p)
  PROVE  FloorInv'
  <1>1. TypeOK
    BY DEF FullInv, IndInv
  <1>2. \A b \in Backup : ~DeleteBegin(p, b)
    BY DEF DeleteBegin, Begins
  <1>3. IsFiniteSet(Minted')
    <2>1. CASE UNCHANGED created
      BY <2>1 DEF FloorInv, Minted
    <2>2. ASSUME NEW b \in Backup, NEW s \in Source, NewManifest(p, s, b)
          PROVE  IsFiniteSet(Minted')
      <3>1. created' = [created EXCEPT ![b] = clock + 1]
        BY <2>2 DEF NewManifest
      <3>2. Minted' = Minted \cup {b}
        BY <1>1, <3>1 DEF Minted, TypeOK
      <3> QED
        BY <3>2, FS_AddElement DEF FloorInv
    <2> QED
      BY <2>1, <2>2, StampsKept
  <1>4. ASSUME NEW b \in Backup, Doomed(b)' PROVE HasFloor(b)'
    <2>1. CASE Doomed(b)
      BY <2>1, FloorStays DEF FloorInv
    <2>2. ASSUME NEW k \in Keep, ApplyKeepLast(p, k), b \in BeyondNewest(batch[p], k)
          PROVE  HasFloor(b)'
      <3>1. HasFloor(b)
        BY <2>2, PickedHaveFloor
      <3>2. UNCHANGED <<created, source, manifest>>
        BY <2>2 DEF ApplyKeepLast, stamps, files
      <3> QED
        BY <1>1, <3>1, <3>2, FloorKept DEF FloorInv
    <2> QED
      BY <1>2, <1>4, <2>1, <2>2, DoomedStep
  <1> QED
    BY <1>3, <1>4, SnapshotsStep DEF FloorInv

(* The inductive invariant of retention: from the moment a run decides to  *)
(* delete a backup, that backup has its floor.  What the run has seen and  *)
(* does not act on is active still or doomed itself, and then it has a     *)
(* floor of even newer ones.                                               *)
THEOREM FloorInvariance ==
  ASSUME \A p \in Proc : "delete" \notin Entry[p]
  PROVE  Spec => []FloorInv
  <1>1. Init => FloorInv
    <2> SUFFICES ASSUME Init PROVE FloorInv
      OBVIOUS
    <2>1. Minted = {}
      BY DEF Init, Minted
    <2>2. IsFiniteSet(Minted)
      BY <2>1, FS_EmptySet
    <2>3. SnapshotsOK
      BY DEF Init, SnapshotsOK
    <2>4. \A b \in Backup : ~Doomed(b)
      BY PresentIsSome DEF Init, Doomed, Marks, InWriteManifest
    <2> QED
      BY <2>2, <2>3, <2>4 DEF FloorInv
  <1>2. FullInv /\ FloorInv /\ [Next]_vars => FloorInv'
    <2> SUFFICES ASSUME FullInv, FloorInv, [Next]_vars PROVE FloorInv'
      OBVIOUS
    <2>1. TypeOK'
      BY NextStep DEF FullInv, IndInv
    <2>2. ASSUME NEW p \in Proc, Step(p) \/ Begin(p) \/ Kill(p) PROVE FloorInv'
      BY <2>1, <2>2, FloorStep
    <2>3. CASE (\E r \in routes : RouteExpires(r)) \/ UNCHANGED vars
      <3>1. UNCHANGED <<created, source, manifest, pc, id, text, left, batch>>
        BY <2>3 DEF RouteExpires, vars, stamps, files, locals
      <3>2. SnapshotsOK' /\ IsFiniteSet(Minted')
        BY <3>1 DEF FloorInv, SnapshotsOK, Minted
      <3>3. \A b \in Backup : Doomed(b)' => Doomed(b)
        BY <3>1 DEF Doomed, Marks, InWriteManifest
      <3>4. \A b \in Backup : ActiveNewer(b)' = ActiveNewer(b)
        BY <3>1 DEF ActiveNewer, NewerIn
      <3> QED
        BY <3>2, <3>3, <3>4 DEF FloorInv, HasFloor
    <2> QED
      BY <2>2, <2>3 DEF Next
  <1> QED
    BY <1>1, <1>2, FullInvariance, PTL DEF Spec

(* Whatever retention deletes, on request or as the watchdog, and however  *)
(* its runs race with each other, with creates, restores and the bridge    *)
(* and wherever any of them dies: above every backup that is deleted there *)
(* are as many newer active ones of its source as some policy in force     *)
(* keeps.  (backup.delete, which keeps no floor, is the one handler that   *)
(* does not run.)                                                          *)
THEOREM RetentionKeepsFloor ==
  ASSUME \A p \in Proc : "delete" \notin Entry[p]
  PROVE  Spec => []RetentionFloor
  <1>1. FloorInv => RetentionFloor
    BY DEF FloorInv, Doomed, HasFloor, RetentionFloor
  <1> QED
    BY <1>1, FloorInvariance, PTL
=============================================================================
