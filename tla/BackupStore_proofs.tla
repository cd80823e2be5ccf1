------------------------- MODULE BackupStore_proofs -------------------------
(***************************************************************************)
(* Proofs about BackupStore: however handlers, watchdog and bridge         *)
(* requests interleave, fail and die, a manifest that is not active any    *)
(* more never is again, and an active one tells the truth about data.bin.  *)
(* Both follow from IndInv, which Init establishes and every action keeps. *)
(***************************************************************************)
EXTENDS BackupStoreInv, TLAPS

-----------------------------------------------------------------------------
(* The types.                                                              *)

(* Every action of a process keeps the type invariant: what it writes to a *)
(* file, and its next label, are of their sets.                            *)
LEMMA TypeStep ==
  ASSUME TypeOK, LocalsOK, NEW p \in Proc, Step(p) \/ Begin(p) \/ Kill(p)
  PROVE  TypeOK'
  <1> USE ConstantsAssumption DEF ConstantsAssumption
  <1> USE DEF TypeOK, LocalsOK, Goto, Exit, Begins, stamps, files, locals,
              Label, File, NoFile, Torn, NoData, Readable
  <1>1. CASE OpenData(p)
    BY <1>1 DEF OpenData
  <1>2. CASE WriteChunk(p)
    BY <1>2 DEF WriteChunk
  <1>3. CASE CloseData(p)
    BY <1>3 DEF CloseData
  <1>4. CASE OpenPostRoute(p)
    BY <1>4 DEF OpenPostRoute
  <1>5. CASE Fail(p)
    BY <1>5 DEF Fail
  <1>6. CASE OpenTmp(p)
    BY <1>6 DEF OpenTmp
  <1>7. CASE WriteTmp(p)
    BY <1>7 DEF WriteTmp
  <1>8. CASE ReplaceManifest(p)
    BY <1>8 DEF ReplaceManifest
  <1>9. CASE ReplaceRaises(p)
    BY <1>9 DEF ReplaceRaises
  <1>10. CASE CheckData(p)
    BY <1>10 DEF CheckData
  <1>11. CASE UnlinkData(p)
    BY <1>11 DEF UnlinkData
  <1>12. CASE UnlinkRaises(p)
    BY <1>12 DEF UnlinkRaises
  <1>13. CASE RestoreStat(p)
    BY <1>13 DEF RestoreStat
  <1>14. CASE RestoreMissing(p)
    BY <1>14 DEF RestoreMissing
  <1>15. CASE OpenGetRoute(p)
    BY <1>15 DEF OpenGetRoute
  <1>16. CASE Finish(p)
    BY <1>16 DEF Finish
  <1>17. CASE Kill(p)
    BY <1>17 DEF Kill
  <1>18. CASE \E b \in Backup : LoadManifest(p, b)
    BY <1>18 DEF LoadManifest
  <1>19. CASE \E b \in Backup : MarkDeleted(p, b)
    BY <1>19 DEF MarkDeleted
  <1>20. CASE \E b \in Backup : MarkRaises(p, b)
    BY <1>20 DEF MarkRaises
  <1>21. CASE \E b \in Backup : DeleteBegin(p, b)
    BY <1>21 DEF DeleteBegin
  <1>22. CASE \E b \in Backup : RestoreBegin(p, b)
    BY <1>22 DEF RestoreBegin
  <1>23. CASE \E b \in Backup : UploadBegin(p, b)
    BY <1>23 DEF UploadBegin
  <1>24. CASE \E b \in Backup : DownloadBegin(p, b)
    BY <1>24 DEF DownloadBegin
  <1>25. CASE \E k \in Keep : ApplyKeepLast(p, k)
    BY <1>25 DEF ApplyKeepLast, BeyondNewest
  <1>26. CASE \E s \in Source : RetentionBegin(p, s)
    BY <1>26 DEF RetentionBegin
  <1>27. ASSUME NEW b \in Backup, CheckBase(p, b) PROVE TypeOK'
    <2>1. pc' \in [Proc -> Label]
      BY <1>27 DEF CheckBase
    <2> QED
      BY <1>27, <2>1 DEF CheckBase
  <1>28. ASSUME NEW s \in Source, NEW b \in Backup, NewManifest(p, s, b) PROVE TypeOK'
    <2>1. pc' \in [Proc -> Label]
      BY <1>28 DEF NewManifest
    <2>2. clock' \in Nat /\ created' \in [Backup -> Nat]
      BY <1>28 DEF NewManifest
    <2>3. source' \in [Backup -> Source \cup {None}] /\ base' \in [Backup -> Backup \cup {None}]
      BY <1>28 DEF NewManifest
    <2>4. id' \in [Proc -> Backup \cup {None}]
      BY <1>28 DEF NewManifest
    <2> QED
      BY <1>28, <2>1, <2>2, <2>3, <2>4 DEF NewManifest
  <1> QED
    BY <1>1, <1>2, <1>3, <1>4, <1>5, <1>6, <1>7, <1>8, <1>9, <1>10, <1>11, <1>12, <1>13, <1>14, <1>15, <1>16, <1>17, <1>18, <1>19, <1>20, <1>21, <1>22, <1>23, <1>24, <1>25, <1>26, <1>27, <1>28 DEF Step, Begin

-----------------------------------------------------------------------------
(* The invariant.                                                          *)

(* It holds of the empty tree. *)
LEMMA InitIndInv == Init => IndInv
  <1> SUFFICES ASSUME Init PROVE IndInv
    OBVIOUS
  <1>1. TypeOK
    BY ConstantsAssumption
       DEF ConstantsAssumption, Init, TypeOK, File, NoFile, Torn, NoData, Label
  <1>2. LocalsOK /\ UnmintedUnknown /\ CreatorAlone /\ DeletersSeeManifest /\ TmpNotStale
    BY ConstantsAssumption
       DEF ConstantsAssumption, Init, LocalsOK, UnmintedUnknown, CreatorAlone, DeletersSeeManifest,
           TmpNotStale, InWriteManifest, Creating, NoFile
  <1>3. SizesTrue
    BY DEF Init, SizesTrue, FilesTrue, WriterTrue, StatesSize, InWriteManifest, Closed, NoFile
  <1> QED
    BY <1>1, <1>2, <1>3 DEF IndInv

(* What most steps amount to for the invariant: the process takes its hands*)
(* off the files, or has not touched them yet.                             *)
HandsOffLabel ==
  {"idle", "mint", "mint_bridge", "scan", "mark", "stat", "read_data",
   "get_route", "send"}

HandsOff(p) ==
  /\ UNCHANGED <<created, manifest, tmp, data>>
  /\ pc' = [pc EXCEPT ![p] = pc'[p]] /\ pc'[p] \in HandsOffLabel
  /\ \A q \in Proc : q # p => /\ id'[q] = id[q] /\ text'[q] = text[q]
                              /\ fd'[q] = fd[q] /\ pos'[q] = pos[q]
  /\ fd'[p] \notin {"tmp", "manifest"}
  /\ pc'[p] \notin {"idle", "scan", "mark"} => id'[p] \in Backup
  /\ pc'[p] \in {"idle", "mint"} => pos'[p] = 0
  /\ \A b \in Backup : created[b] = 0 => id'[p] # b
  /\ \A b \in Backup, method \in {"POST", "GET"} :
       <<b, method>> \in routes'
         => <<b, method>> \in routes \/ (method = "GET" /\ created[b] # 0)

(* Such a step keeps the invariant, whatever it does to its locals. *)
LEMMA HandsOffStep ==
  ASSUME IndInv, TypeOK', NEW p \in Proc, HandsOff(p)
  PROVE IndInv'
  <1>1. /\ pc'[p] \in HandsOffLabel
        /\ \A q \in Proc : q # p => /\ pc'[q] = pc[q] /\ id'[q] = id[q]
                                    /\ text'[q] = text[q] /\ fd'[q] = fd[q]
                                    /\ pos'[q] = pos[q]
        /\ UNCHANGED <<created, manifest, tmp, data>>
    BY DEF IndInv, TypeOK, HandsOff
  <1>2. ~InWriteManifest(p)' /\ ~Creating(p)'
    BY <1>1 DEF HandsOffLabel, InWriteManifest, Creating
  <1>3. LocalsOK'
    BY <1>1, <1>2 DEF IndInv, LocalsOK, InWriteManifest, HandsOff, HandsOffLabel
  <1>4. UnmintedUnknown'
    <2>1. \A b \in Backup, method \in {"POST", "GET"} :
            created[b] = 0 => <<b, method>> \notin routes'
      BY DEF IndInv, UnmintedUnknown, HandsOff
    <2>2. ASSUME NEW b \in Backup, created[b] = 0, NEW q \in Proc PROVE id'[q] # b
      <3>1. CASE q = p
        BY <2>2, <3>1 DEF HandsOff
      <3>2. CASE q # p
        BY <1>1, <2>2, <3>2 DEF IndInv, UnmintedUnknown
      <3> QED
        BY <3>1, <3>2
    <2> QED
      BY <1>1, <2>1, <2>2 DEF IndInv, UnmintedUnknown
  <1>5. CreatorAlone'
    BY <1>1, <1>2 DEF IndInv, CreatorAlone, Creating, InWriteManifest
  <1>6. DeletersSeeManifest'
    BY <1>1, <1>2 DEF IndInv, DeletersSeeManifest, InWriteManifest, HandsOffLabel
  <1>7. TmpNotStale'
    BY <1>1 DEF IndInv, TmpNotStale, HandsOff
  <1>8. SizesTrue'
    <2>1. \A b \in Backup : <<b, "POST">> \in routes' => <<b, "POST">> \in routes
      BY DEF HandsOff
    <2>2. \A b \in Backup : Closed(b) => Closed(b)'
      BY <1>1, <2>1 DEF Closed, HandsOffLabel
    <2>3. ASSUME NEW b \in Backup PROVE FilesTrue(b)'
      BY <1>1, <2>2 DEF IndInv, SizesTrue, FilesTrue
    <2>4. ASSUME NEW q \in Proc PROVE WriterTrue(q)'
      <3>1. CASE q = p
        BY <1>1, <1>2, <3>1 DEF WriterTrue, HandsOffLabel
      <3>2. CASE q # p
        BY <1>1, <2>2, <3>2 DEF IndInv, SizesTrue, WriterTrue, InWriteManifest, LocalsOK
      <3> QED
        BY <3>1, <3>2
    <2> QED
      BY <2>3, <2>4 DEF SizesTrue
  <1> QED
    BY <1>3, <1>4, <1>5, <1>6, <1>7, <1>8 DEF IndInv

(* A backup one can read the manifest of, or has a route to, is minted.    *)
LEMMA KnownIsMinted ==
  ASSUME UnmintedUnknown, NEW b \in Backup,
         \/ Readable(manifest[b]) \/ <<b, "GET">> \in routes \/ <<b, "POST">> \in routes
  PROVE  created[b] # 0
  <1>1. CASE Readable(manifest[b])
    <2>1. NoFile.status = "absent"
      BY DEF NoFile
    <2> QED
      BY <1>1, <2>1 DEF UnmintedUnknown, Readable
  <1>2. CASE <<b, "GET">> \in routes \/ <<b, "POST">> \in routes
    BY <1>2 DEF UnmintedUnknown
  <1> QED
    BY <1>1, <1>2

(* The steps that only read, and the ends of a process: an exception, a    *)
(* _fail, a kill or a result leave the files as they are.                  *)
LEMMA ReadersStep ==
  ASSUME IndInv, TypeOK', NEW p \in Proc,
         \/ Fail(p) \/ ReplaceRaises(p) \/ UnlinkRaises(p) \/ RestoreMissing(p)
         \/ RestoreStat(p) \/ OpenGetRoute(p) \/ Finish(p) \/ Kill(p)
         \/ \E s \in Source : RetentionBegin(p, s)
         \/ \E k \in Keep : ApplyKeepLast(p, k)
         \/ \E b \in Backup : \/ CheckBase(p, b) \/ LoadManifest(p, b) \/ MarkRaises(p, b)
                              \/ RestoreBegin(p, b) \/ DownloadBegin(p, b)
  PROVE  IndInv'
  <1>1. TypeOK /\ LocalsOK /\ UnmintedUnknown
    BY DEF IndInv
  <1> SUFFICES HandsOff(p)
    BY HandsOffStep
  <1> USE <1>1 DEF HandsOff, HandsOffLabel, Goto, stamps, files, TypeOK, LocalsOK
  <1>2. \A b \in Backup : created[b] = 0 => id[p] # b
    BY DEF UnmintedUnknown
  <1>3. Exit(p) /\ UNCHANGED <<stamps, files, routes>> => HandsOff(p)
    BY ConstantsAssumption DEF ConstantsAssumption, Exit
  <1>4. CASE Fail(p) \/ ReplaceRaises(p) \/ UnlinkRaises(p) \/ RestoreMissing(p)
    BY <1>3, <1>4 DEF Fail, ReplaceRaises, UnlinkRaises, RestoreMissing
  <1>5. CASE Finish(p) \/ Kill(p)
    BY <1>3, <1>5 DEF Finish, Kill
  <1>6. CASE OpenGetRoute(p)
    BY <1>2, <1>6, ConstantsAssumption DEF ConstantsAssumption, OpenGetRoute, Exit
  <1>7. CASE RestoreStat(p)
    <2>1. pc' = [pc EXCEPT ![p] = pc'[p]] /\ pc'[p] \in {"get_route", "read_data"}
      BY <1>7 DEF RestoreStat
    <2> QED
      BY <1>2, <1>7, <2>1 DEF RestoreStat
  <1>8. ASSUME NEW s \in Source, RetentionBegin(p, s) PROVE HandsOff(p)
    BY <1>2, <1>8 DEF RetentionBegin, Begins
  <1>9. ASSUME NEW k \in Keep, ApplyKeepLast(p, k) PROVE HandsOff(p)
    BY <1>2, <1>9 DEF ApplyKeepLast
  <1>10. ASSUME NEW b \in Backup, LoadManifest(p, b) \/ MarkRaises(p, b) PROVE HandsOff(p)
    BY <1>2, <1>3, <1>10 DEF LoadManifest, MarkRaises
  <1>11. ASSUME NEW b \in Backup, CheckBase(p, b) PROVE HandsOff(p)
    <2>1. pc' = [pc EXCEPT ![p] = pc'[p]] /\ pc'[p] \in {"mint", "mint_bridge"}
      BY <1>11 DEF CheckBase
    <2>2. created[b] # 0
      BY KnownIsMinted, <1>11 DEF CheckBase
    <2>3. pc[p] = "idle" /\ id' = [id EXCEPT ![p] = b]
      BY <1>11 DEF CheckBase, Begins
    <2> QED
      BY <1>11, <2>1, <2>2, <2>3 DEF CheckBase
  <1>12. ASSUME NEW b \in Backup, RestoreBegin(p, b) PROVE HandsOff(p)
    <2>1. created[b] # 0
      BY KnownIsMinted, <1>12 DEF RestoreBegin
    <2> QED
      BY <1>12, <2>1 DEF RestoreBegin, Begins
  <1>13. ASSUME NEW b \in Backup, DownloadBegin(p, b) PROVE HandsOff(p)
    <2>1. created[b] # 0
      BY KnownIsMinted, <1>13 DEF DownloadBegin
    <2> QED
      BY <1>13, <2>1 DEF DownloadBegin, Begins
  <1> QED
    BY <1>4, <1>5, <1>6, <1>7, <1>8, <1>9, <1>10, <1>11, <1>12, <1>13

-----------------------------------------------------------------------------
(* The steps that write, one lemma each.                                   *)

(* A fresh id is known to nobody and has nothing on disk, so its creator is*)
(* alone with it. *)
LEMMA NewManifestStep ==
  ASSUME IndInv, TypeOK', NEW p \in Proc, NEW s \in Source, NEW b \in Backup,
         NewManifest(p, s, b)
  PROVE  IndInv'
  <1> USE DEF IndInv, TypeOK
  <1>1. /\ pc' = [pc EXCEPT ![p] = pc'[p]] /\ pc'[p] \in {"open_data", "open_route"}
        /\ pc'[p] = "open_data" => pc[p] \in {"idle", "mint"}
        /\ pc[p] \in {"idle", "mint", "mint_bridge"}
    BY DEF NewManifest, Goto, Begins
  <1>2. /\ id' = [id EXCEPT ![p] = b]
        /\ created' = [created EXCEPT ![b] = clock + 1]
        /\ UNCHANGED <<manifest, tmp, data, routes, text, fd, pos>>
    BY DEF NewManifest, files
  <1>3. /\ manifest[b] = NoFile /\ tmp[b] = NoFile
        /\ \A method \in {"POST", "GET"} : <<b, method>> \notin routes
        /\ \A q \in Proc : id[q] # b
    BY DEF NewManifest, UnmintedUnknown
  <1>4. LocalsOK'
    BY <1>1, <1>2 DEF LocalsOK, InWriteManifest
  <1>5. UnmintedUnknown'
    <2>1. \A c \in Backup : created'[c] = 0 => created[c] = 0 /\ c # b
      BY <1>2
    <2> QED
      BY <1>2, <2>1 DEF UnmintedUnknown
  <1>6. CreatorAlone'
    BY <1>1, <1>2, <1>3 DEF CreatorAlone, Creating, InWriteManifest
  <1>7. DeletersSeeManifest'
    BY <1>1, <1>2 DEF DeletersSeeManifest, InWriteManifest
  <1>8. TmpNotStale'
    BY <1>1, <1>2 DEF TmpNotStale, LocalsOK
  <1>9. SizesTrue'
    <2>1. \A c \in Backup : Closed(c) => Closed(c)'
      BY <1>1, <1>2 DEF Closed
    <2>2. Closed(b)'
      BY <1>1, <1>2, <1>3 DEF Closed
    <2>3. ASSUME NEW c \in Backup PROVE FilesTrue(c)'
      BY <1>2, <2>1 DEF SizesTrue, FilesTrue, StatesSize
    <2>4. ASSUME NEW q \in Proc PROVE WriterTrue(q)'
      BY <1>1, <1>2, <2>1, <2>2 DEF SizesTrue, WriterTrue, InWriteManifest, LocalsOK
    <2> QED
      BY <2>3, <2>4 DEF SizesTrue
  <1> QED
    BY <1>4, <1>5, <1>6, <1>7, <1>8, <1>9

(* The creator truncates a data.bin no manifest speaks of. *)
LEMMA OpenDataStep ==
  ASSUME IndInv, TypeOK', NEW p \in Proc, OpenData(p)
  PROVE  IndInv'
  <1> USE DEF IndInv, TypeOK, OpenData, Goto
  <1>1. LocalsOK'
    BY DEF LocalsOK, InWriteManifest
  <1>2. UnmintedUnknown'
    BY DEF UnmintedUnknown, stamps
  <1>3. CreatorAlone'
    BY DEF CreatorAlone, Creating, InWriteManifest
  <1>4. DeletersSeeManifest'
    BY DEF DeletersSeeManifest, InWriteManifest
  <1>5. TmpNotStale'
    BY DEF TmpNotStale
  <1>6. SizesTrue'
    <2>1. /\ id[p] \in Backup
          /\ manifest[id[p]] = NoFile /\ tmp[id[p]] = NoFile
          /\ \A x \in Proc : x # p /\ id[x] = id[p] => ~Creating(x)
      BY DEF CreatorAlone, Creating, InWriteManifest, LocalsOK
    <2>2. \A c \in Backup : Closed(c) => Closed(c)'
      BY DEF Closed
    <2>3. ASSUME NEW b \in Backup PROVE FilesTrue(b)'
      BY <2>1, <2>2 DEF SizesTrue, FilesTrue, StatesSize, NoFile
    <2>4. ASSUME NEW q \in Proc PROVE WriterTrue(q)'
      BY <2>1, <2>2 DEF SizesTrue, WriterTrue, StatesSize, Creating, InWriteManifest, LocalsOK
    <2> QED
      BY <2>3, <2>4 DEF SizesTrue
  <1> QED
    BY <1>1, <1>2, <1>3, <1>4, <1>5, <1>6

(* A chunk goes to a data.bin that is not stated complete: its creator is  *)
(* still at work, or it is open to uploads.                                *)
LEMMA WriteChunkStep ==
  ASSUME IndInv, TypeOK', NEW p \in Proc, WriteChunk(p)
  PROVE  IndInv'
  <1> USE DEF IndInv, TypeOK, WriteChunk
  <1>1. LocalsOK'
    BY DEF LocalsOK, InWriteManifest
  <1>2. UnmintedUnknown'
    BY DEF UnmintedUnknown, stamps
  <1>3. CreatorAlone'
    BY DEF CreatorAlone, Creating, InWriteManifest
  <1>4. DeletersSeeManifest'
    BY DEF DeletersSeeManifest, InWriteManifest
  <1>5. TmpNotStale'
    BY DEF TmpNotStale
  <1>6. SizesTrue'
    <2>1. id[p] \in Backup /\ \A c \in Backup : c # id[p] => data'[c] = data[c]
      BY DEF LocalsOK
    <2>2. \A c \in Backup : Closed(c) => Closed(c)'
      BY DEF Closed
    <2>3. CASE pc[p] = "receive"
      <3>1. ~Closed(id[p])
        BY <2>3 DEF Closed
      <3>2. ASSUME NEW b \in Backup PROVE FilesTrue(b)'
        BY <2>1, <2>2, <3>1 DEF SizesTrue, FilesTrue, StatesSize
      <3>3. ASSUME NEW q \in Proc PROVE WriterTrue(q)'
        BY <2>1, <2>2, <2>3, <3>1 DEF SizesTrue, WriterTrue, StatesSize, InWriteManifest, LocalsOK
      <3> QED
        BY <3>2, <3>3 DEF SizesTrue
    <2>4. CASE pc[p] = "write_data"
      <3>1. /\ manifest[id[p]] = NoFile /\ tmp[id[p]] = NoFile
            /\ \A x \in Proc : x # p /\ id[x] = id[p] => ~Creating(x)
        BY <2>4 DEF CreatorAlone, Creating, InWriteManifest
      <3>2. ASSUME NEW b \in Backup PROVE FilesTrue(b)'
        BY <2>1, <2>2, <3>1 DEF SizesTrue, FilesTrue, StatesSize, NoFile
      <3>3. fd[p] = "data" /\ data[id[p]] = pos[p]
        BY <2>4 DEF SizesTrue, WriterTrue
      <3>4. pos'[p] = pos[p] + 1 /\ data'[id[p]] = pos[p] + 1
        BY <2>1, <3>3
      <3>5. ASSUME NEW q \in Proc PROVE WriterTrue(q)'
        BY <2>1, <2>2, <2>4, <3>1, <3>3, <3>4
           DEF SizesTrue, WriterTrue, StatesSize, Creating, InWriteManifest, LocalsOK
      <3> QED
        BY <3>2, <3>5 DEF SizesTrue
    <2> QED
      BY <2>3, <2>4
  <1> QED
    BY <1>1, <1>2, <1>3, <1>4, <1>5, <1>6

(* size_bytes is the length of data.bin when the creator has closed it. *)
LEMMA CloseDataStep ==
  ASSUME IndInv, TypeOK', NEW p \in Proc, CloseData(p)
  PROVE  IndInv'
  <1> USE DEF IndInv, TypeOK, CloseData, Goto, files
  <1>1. LocalsOK'
    BY DEF LocalsOK, InWriteManifest
  <1>2. UnmintedUnknown'
    BY DEF UnmintedUnknown, stamps
  <1>3. CreatorAlone'
    BY DEF CreatorAlone, Creating, InWriteManifest
  <1>4. DeletersSeeManifest'
    BY DEF DeletersSeeManifest, InWriteManifest
  <1>5. TmpNotStale'
    BY DEF TmpNotStale
  <1>6. SizesTrue'
    <2>1. \A c \in Backup : Closed(c) => Closed(c)'
      BY DEF Closed
    <2>2. ASSUME NEW b \in Backup PROVE FilesTrue(b)'
      BY <2>1 DEF SizesTrue, FilesTrue, StatesSize
    <2>3. ASSUME NEW q \in Proc PROVE WriterTrue(q)'
      BY <2>1 DEF SizesTrue, WriterTrue, StatesSize, InWriteManifest, LocalsOK
    <2> QED
      BY <2>2, <2>3 DEF SizesTrue
  <1> QED
    BY <1>1, <1>2, <1>3, <1>4, <1>5, <1>6

(* A data.bin is opened to uploads by its creator, whose manifest will     *)
(* state no size, before any manifest is there.                            *)
LEMMA OpenPostRouteStep ==
  ASSUME IndInv, TypeOK', NEW p \in Proc, OpenPostRoute(p)
  PROVE  IndInv'
  <1> USE DEF IndInv, TypeOK, OpenPostRoute, Goto, files
  <1>1. LocalsOK'
    BY DEF LocalsOK, InWriteManifest
  <1>2. UnmintedUnknown'
    BY DEF UnmintedUnknown, LocalsOK, stamps
  <1>3. CreatorAlone'
    BY DEF CreatorAlone, Creating, InWriteManifest
  <1>4. DeletersSeeManifest'
    BY DEF DeletersSeeManifest, InWriteManifest
  <1>5. TmpNotStale'
    BY DEF TmpNotStale, LocalsOK
  <1>6. SizesTrue'
    <2>1. /\ id[p] \in Backup
          /\ manifest[id[p]] = NoFile /\ tmp[id[p]] = NoFile
          /\ \A x \in Proc : x # p /\ id[x] = id[p] => ~Creating(x)
      BY DEF CreatorAlone, Creating, InWriteManifest, LocalsOK
    <2>2. \A c \in Backup : Closed(c) => Closed(c)' \/ c = id[p]
      BY DEF Closed
    <2>3. ASSUME NEW b \in Backup PROVE FilesTrue(b)'
      BY <2>1, <2>2 DEF SizesTrue, FilesTrue, StatesSize, NoFile
    <2>4. ASSUME NEW q \in Proc PROVE WriterTrue(q)'
      BY <2>1, <2>2 DEF SizesTrue, WriterTrue, StatesSize, Creating, InWriteManifest, LocalsOK
    <2> QED
      BY <2>3, <2>4 DEF SizesTrue
  <1> QED
    BY <1>1, <1>2, <1>3, <1>4, <1>5, <1>6

(* Whoever truncates the .tmp is the creator, or a deleter that found a    *)
(* manifest, so no creator of that backup is at work.                      *)
LEMMA OpenTmpStep ==
  ASSUME IndInv, TypeOK', NEW p \in Proc, OpenTmp(p)
  PROVE  IndInv'
  <1> USE DEF IndInv, TypeOK, OpenTmp, Goto
  <1>1. LocalsOK'
    BY DEF LocalsOK, InWriteManifest
  <1>2. UnmintedUnknown'
    BY DEF UnmintedUnknown, LocalsOK, stamps
  <1>3. CreatorAlone'
    BY DEF CreatorAlone, Creating, InWriteManifest, DeletersSeeManifest, LocalsOK
  <1>4. DeletersSeeManifest'
    BY DEF DeletersSeeManifest, InWriteManifest
  <1>5. TmpNotStale'
    BY DEF TmpNotStale, LocalsOK, Torn
  <1>6. SizesTrue'
    <2>1. \A c \in Backup : Closed(c) => Closed(c)'
      BY DEF Closed
    <2>2. ASSUME NEW b \in Backup PROVE FilesTrue(b)'
      BY <2>1 DEF SizesTrue, FilesTrue, StatesSize, Torn
    <2>3. ASSUME NEW q \in Proc PROVE WriterTrue(q)'
      BY <2>1 DEF SizesTrue, WriterTrue, StatesSize, InWriteManifest, LocalsOK
    <2> QED
      BY <2>2, <2>3 DEF SizesTrue
  <1> QED
    BY <1>1, <1>2, <1>3, <1>4, <1>5, <1>6

(* What is written is true of data.bin, and what goes to the manifest, by  *)
(* way of a .tmp renamed under its writer, is a deletion.                  *)
LEMMA WriteTmpStep ==
  ASSUME IndInv, TypeOK', NEW p \in Proc, WriteTmp(p)
  PROVE  IndInv'
  <1> USE DEF IndInv, TypeOK, WriteTmp, Goto
  <1>1. LocalsOK'
    BY DEF LocalsOK, InWriteManifest
  <1>2. UnmintedUnknown'
    BY DEF UnmintedUnknown, LocalsOK, stamps
  <1>3. /\ id[p] \in Backup /\ text[p].status \in {"active", "deleted"}
        /\ \A c \in Backup : c # id[p] => tmp'[c] = tmp[c] /\ manifest'[c] = manifest[c]
        /\ tmp'[id[p]] \in {tmp[id[p]], text[p]}
        /\ \/ manifest'[id[p]] = manifest[id[p]]
           \/ /\ manifest'[id[p]] = text[p] /\ text[p].status = "deleted"
              /\ manifest[id[p]].status \in {"torn", "deleted"}
    BY DEF LocalsOK, InWriteManifest, TmpNotStale
  <1>4. \A c \in Backup : manifest'[c] = NoFile <=> manifest[c] = NoFile
    BY <1>3 DEF NoFile
  <1>5. pc' = [pc EXCEPT ![p] = "replace"] /\ pc[p] = "write_tmp" /\ UNCHANGED <<id, text>>
    OBVIOUS
  <1>6. CreatorAlone'
    <2>1. ASSUME NEW q \in Proc, NEW x \in Proc, Creating(q)', x # q, id'[x] = id'[q]
          PROVE  manifest'[id'[q]] = NoFile /\ ~Creating(x)'
      BY <1>3, <1>4, <1>5, <2>1 DEF CreatorAlone, Creating, InWriteManifest, LocalsOK
    <2>2. ASSUME NEW q \in Proc, Creating(q)'
          PROVE  manifest'[id'[q]] = NoFile /\ (~InWriteManifest(q)' => tmp'[id'[q]] = NoFile)
      BY <1>3, <1>4, <1>5, <2>2
         DEF CreatorAlone, Creating, InWriteManifest, LocalsOK, DeletersSeeManifest
    <2> QED
      BY <2>1, <2>2 DEF CreatorAlone
  <1>7. DeletersSeeManifest'
    BY <1>3, <1>4, <1>5 DEF DeletersSeeManifest, InWriteManifest, LocalsOK
  <1>8. TmpNotStale'
    <2>1. ASSUME NEW b \in Backup, tmp'[b].status = "active" PROVE manifest'[b] = NoFile
      BY <1>3, <1>4, <2>1 DEF TmpNotStale, CreatorAlone, Creating, InWriteManifest
    <2>2. ASSUME NEW q \in Proc, fd'[q] = "manifest"
          PROVE  text'[q].status = "deleted" /\ manifest'[id'[q]].status \in {"torn", "deleted"}
      BY <1>3, <2>2 DEF TmpNotStale, LocalsOK
    <2> QED
      BY <2>1, <2>2 DEF TmpNotStale
  <1>9. SizesTrue'
    <2>1. \A c \in Backup : Closed(c) => Closed(c)'
      BY DEF Closed
    <2>2. ASSUME NEW b \in Backup PROVE FilesTrue(b)'
      BY <1>3, <2>1 DEF SizesTrue, FilesTrue, WriterTrue, StatesSize, InWriteManifest
    <2>3. ASSUME NEW q \in Proc PROVE WriterTrue(q)'
      BY <1>5, <2>1 DEF SizesTrue, WriterTrue, StatesSize, InWriteManifest, LocalsOK
    <2> QED
      BY <2>2, <2>3 DEF SizesTrue
  <1> QED
    BY <1>1, <1>2, <1>6, <1>7, <1>8, <1>9

(* The rename gives the manifest the .tmp of its creator, or a deletion.   *)
LEMMA ReplaceManifestStep ==
  ASSUME IndInv, TypeOK', NEW p \in Proc, ReplaceManifest(p)
  PROVE  IndInv'
  <1> USE DEF IndInv, TypeOK
  <1>1. /\ pc[p] = "replace"
        /\ pc' = [pc EXCEPT ![p] = pc'[p]] /\ pc'[p] \in {"mark", "check_data"}
        /\ pc'[p] = "check_data" => text[p].status # "active"
    BY DEF ReplaceManifest, Goto
  <1>2. /\ id[p] \in Backup /\ text[p].status \in {"active", "deleted"}
        /\ tmp[id[p]] # NoFile
        /\ manifest' = [manifest EXCEPT ![id[p]] = tmp[id[p]]]
        /\ tmp' = [tmp EXCEPT ![id[p]] = NoFile]
        /\ UNCHANGED <<created, data, routes, id, text, pos>>
    BY <1>1 DEF ReplaceManifest, LocalsOK, InWriteManifest, stamps
  <1>3. \A q \in Proc : /\ id[q] = id[p] /\ fd[q] = "tmp" => fd'[q] = "manifest"
                        /\ id[q] = id[p] /\ fd[q] = "manifest" => fd'[q] = "gone"
                        /\ id[q] # id[p] \/ fd[q] \notin {"tmp", "manifest"} => fd'[q] = fd[q]
    BY DEF ReplaceManifest
  <1>4. LocalsOK'
    BY <1>1, <1>2, <1>3 DEF LocalsOK, InWriteManifest
  <1>5. UnmintedUnknown'
    BY <1>2 DEF UnmintedUnknown
  (* Nobody but p creates the backup, and p is through with it. *)
  <1>6. ASSUME NEW q \in Proc, id[q] = id[p] PROVE ~Creating(q)'
    <2>1. CASE q = p
      BY <1>1, <2>1 DEF Creating, InWriteManifest
    <2>2. CASE q # p /\ text[p].status = "active"
      BY <1>1, <1>2, <1>6, <2>2 DEF CreatorAlone, Creating, InWriteManifest
    <2>3. CASE q # p /\ text[p].status = "deleted"
      BY <1>1, <1>2, <1>6, <2>3
         DEF CreatorAlone, Creating, InWriteManifest, DeletersSeeManifest
    <2> QED
      BY <1>2, <2>1, <2>2, <2>3
  <1>7. CreatorAlone'
    BY <1>1, <1>2, <1>6 DEF CreatorAlone, Creating, InWriteManifest
  (* What p renames as a deleter is not an active text. *)
  <1>8. text[p].status = "deleted" => tmp[id[p]].status \in {"torn", "deleted"}
    BY <1>1, <1>2 DEF TmpNotStale, DeletersSeeManifest, InWriteManifest, File, Torn, NoFile
  <1>9. \A q \in Proc : id[q] = id[p] /\ q # p /\ InWriteManifest(q)
          => text[q].status = "deleted" /\ text[p].status = "deleted"
    BY <1>1, <1>2 DEF CreatorAlone, Creating, InWriteManifest, DeletersSeeManifest, LocalsOK
  <1>10. DeletersSeeManifest'
    <2>1. ASSUME NEW q \in Proc, InWriteManifest(q)', text'[q].status = "deleted"
          PROVE  manifest'[id'[q]] # NoFile
      BY <1>1, <1>2, <2>1 DEF DeletersSeeManifest, InWriteManifest, LocalsOK
    <2>2. ASSUME NEW q \in Proc, pc'[q] \in {"check_data", "unlink"}
          PROVE  manifest'[id'[q]].status \in {"torn", "deleted"}
      <3>1. CASE q = p
        BY <1>1, <1>2, <1>8, <2>2, <3>1
      <3>2. CASE q # p
        <4>1. pc[q] \in {"check_data", "unlink"} /\ id'[q] = id[q] /\ id[q] \in Backup
          BY <1>1, <1>2, <2>2, <3>2 DEF LocalsOK
        <4>2. manifest[id[q]].status \in {"torn", "deleted"}
          BY <4>1 DEF DeletersSeeManifest
        <4>3. id[q] = id[p] => text[p].status = "deleted"
          BY <1>1, <1>2, <4>2 DEF CreatorAlone, Creating, InWriteManifest, NoFile
        <4> QED
          BY <1>2, <1>8, <4>1, <4>2, <4>3
      <3> QED
        BY <3>1, <3>2
    <2> QED
      BY <2>1, <2>2 DEF DeletersSeeManifest
  <1>11. TmpNotStale'
    <2>1. NoFile.status # "active"
      BY DEF NoFile
    <2>2. ASSUME NEW q \in Proc, fd'[q] = "manifest"
          PROVE  text'[q].status = "deleted" /\ manifest'[id'[q]].status \in {"torn", "deleted"}
      BY <1>1, <1>2, <1>3, <1>8, <1>9, <2>2 DEF TmpNotStale, LocalsOK, InWriteManifest
    <2> QED
      BY <1>2, <2>1, <2>2 DEF TmpNotStale
  <1>12. SizesTrue'
    <2>1. \A c \in Backup : Closed(c) => Closed(c)'
      BY <1>1, <1>2 DEF Closed
    <2>2. ASSUME NEW b \in Backup PROVE FilesTrue(b)'
      BY <1>2, <2>1 DEF SizesTrue, FilesTrue, StatesSize, NoFile
    <2>3. ASSUME NEW q \in Proc PROVE WriterTrue(q)'
      BY <1>1, <1>2, <1>3, <2>1 DEF SizesTrue, WriterTrue, StatesSize, InWriteManifest, LocalsOK
    <2> QED
      BY <2>2, <2>3 DEF SizesTrue
  <1> QED
    BY <1>4, <1>5, <1>7, <1>10, <1>11, <1>12

(* A deleter has read the manifest it goes to rewrite. *)
LEMMA DeleterStep ==
  ASSUME IndInv, TypeOK', NEW p \in Proc, NEW b \in Backup,
         DeleteBegin(p, b) \/ MarkDeleted(p, b)
  PROVE  IndInv'
  <1> USE DEF IndInv, TypeOK
  <1>1. /\ Readable(manifest[b]) /\ pc[p] \in {"idle", "mark"}
        /\ id' = [id EXCEPT ![p] = b]
        /\ text' = [text EXCEPT ![p] = text'[p]] /\ text'[p].status = "deleted"
        /\ pc' = [pc EXCEPT ![p] = "open_tmp"]
        /\ UNCHANGED <<created, manifest, tmp, data, routes, fd, pos>>
    <2>1. Readable(manifest[b])
      BY DEF DeleteBegin, MarkDeleted
    <2>2. manifest[b] \in [status : {"active", "deleted"}, size : 0..MaxChunks]
      BY <2>1 DEF Readable, File, NoFile, Torn
    <2>3. [manifest[b] EXCEPT !.status = "deleted"].status = "deleted"
      BY <2>2
    <2>4. text' = [text EXCEPT ![p] = [manifest[b] EXCEPT !.status = "deleted"]]
      BY DEF DeleteBegin, MarkDeleted
    <2> QED
      BY <2>1, <2>3, <2>4 DEF DeleteBegin, MarkDeleted, Begins, Goto, stamps, files
  <1>2. created[b] # 0 /\ manifest[b] # NoFile
    <2>1. NoFile.status = "absent"
      BY DEF NoFile
    <2> QED
      BY <1>1, <2>1, KnownIsMinted DEF Readable
  <1>3. LocalsOK'
    BY <1>1 DEF LocalsOK, InWriteManifest
  <1>4. UnmintedUnknown'
    BY <1>1, <1>2 DEF UnmintedUnknown
  <1>5. CreatorAlone'
    BY <1>1, <1>2 DEF CreatorAlone, Creating, InWriteManifest
  <1>6. DeletersSeeManifest'
    BY <1>1, <1>2 DEF DeletersSeeManifest, InWriteManifest
  <1>7. TmpNotStale'
    BY <1>1 DEF TmpNotStale, LocalsOK
  <1>8. SizesTrue'
    <2>1. \A c \in Backup : Closed(c) => Closed(c)'
      BY <1>1 DEF Closed
    <2>2. ASSUME NEW c \in Backup PROVE FilesTrue(c)'
      BY <1>1, <2>1 DEF SizesTrue, FilesTrue, StatesSize
    <2>3. ASSUME NEW q \in Proc PROVE WriterTrue(q)'
      BY <1>1, <2>1 DEF SizesTrue, WriterTrue, StatesSize, InWriteManifest, LocalsOK
    <2> QED
      BY <2>2, <2>3 DEF SizesTrue
  <1> QED
    BY <1>3, <1>4, <1>5, <1>6, <1>7, <1>8

(* Looking whether data.bin is there. *)
LEMMA CheckDataStep ==
  ASSUME IndInv, TypeOK', NEW p \in Proc, CheckData(p)
  PROVE  IndInv'
  <1> USE DEF IndInv, TypeOK
  <1>1. /\ pc[p] = "check_data"
        /\ pc' = [pc EXCEPT ![p] = pc'[p]] /\ pc'[p] \in {"mark", "unlink"}
        /\ UNCHANGED <<created, manifest, tmp, data, routes, id, text, fd, pos>>
    BY DEF CheckData, Goto, stamps, files, locals
  <1>2. LocalsOK'
    BY <1>1 DEF LocalsOK, InWriteManifest
  <1>3. UnmintedUnknown'
    BY <1>1 DEF UnmintedUnknown
  <1>4. CreatorAlone'
    BY <1>1 DEF CreatorAlone, Creating, InWriteManifest
  <1>5. DeletersSeeManifest'
    BY <1>1 DEF DeletersSeeManifest, InWriteManifest
  <1>6. TmpNotStale'
    BY <1>1 DEF TmpNotStale
  <1>7. SizesTrue'
    <2>1. \A c \in Backup : Closed(c) => Closed(c)'
      BY <1>1 DEF Closed
    <2>2. ASSUME NEW c \in Backup PROVE FilesTrue(c)'
      BY <1>1, <2>1 DEF SizesTrue, FilesTrue, StatesSize
    <2>3. ASSUME NEW q \in Proc PROVE WriterTrue(q)'
      BY <1>1, <2>1 DEF SizesTrue, WriterTrue, StatesSize, InWriteManifest, LocalsOK
    <2> QED
      BY <2>2, <2>3 DEF SizesTrue
  <1> QED
    BY <1>2, <1>3, <1>4, <1>5, <1>6, <1>7

(* The manifest of a data.bin that is unlinked is not active, and cannot   *)
(* become so.                                                              *)
LEMMA UnlinkDataStep ==
  ASSUME IndInv, TypeOK', NEW p \in Proc, UnlinkData(p)
  PROVE  IndInv'
  <1> USE DEF IndInv, TypeOK
  <1>1. /\ pc[p] = "unlink" /\ id[p] \in Backup
        /\ pc' = [pc EXCEPT ![p] = "mark"]
        /\ data' = [data EXCEPT ![id[p]] = NoData]
        /\ UNCHANGED <<created, manifest, tmp, routes, id, text, pos>>
    BY DEF UnlinkData, Goto, LocalsOK, stamps
  <1>2. \A q \in Proc : fd'[q] \in {fd[q], "gone"} /\ (id[q] # id[p] => fd'[q] = fd[q])
    BY DEF UnlinkData
  <1>3. /\ manifest[id[p]].status \in {"torn", "deleted"}
        /\ manifest[id[p]] # NoFile /\ tmp[id[p]].status # "active"
        /\ \A q \in Proc : id[q] = id[p] => ~Creating(q)
    BY <1>1 DEF DeletersSeeManifest, TmpNotStale, CreatorAlone, NoFile
  <1>4. LocalsOK'
    BY <1>1, <1>2 DEF LocalsOK, InWriteManifest
  <1>5. UnmintedUnknown'
    BY <1>1 DEF UnmintedUnknown
  <1>6. CreatorAlone'
    BY <1>1 DEF CreatorAlone, Creating, InWriteManifest
  <1>7. DeletersSeeManifest'
    BY <1>1 DEF DeletersSeeManifest, InWriteManifest
  <1>8. TmpNotStale'
    BY <1>1, <1>2 DEF TmpNotStale
  <1>9. SizesTrue'
    <2>1. \A c \in Backup : Closed(c) => Closed(c)'
      BY <1>1 DEF Closed
    <2>2. ASSUME NEW c \in Backup PROVE FilesTrue(c)'
      BY <1>1, <1>3, <2>1 DEF SizesTrue, FilesTrue, StatesSize
    <2>3. ASSUME NEW q \in Proc PROVE WriterTrue(q)'
      BY <1>1, <1>2, <1>3, <2>1 DEF SizesTrue, WriterTrue, StatesSize, Creating, InWriteManifest, LocalsOK
    <2> QED
      BY <2>2, <2>3 DEF SizesTrue
  <1> QED
    BY <1>4, <1>5, <1>6, <1>7, <1>8, <1>9

(* An upload truncates a data.bin only where no manifest states a size. *)
LEMMA UploadBeginStep ==
  ASSUME IndInv, TypeOK', NEW p \in Proc, NEW b \in Backup, UploadBegin(p, b)
  PROVE  IndInv'
  <1> USE DEF IndInv, TypeOK, UploadBegin, Goto, Begins
  <1>1. created[b] # 0 /\ ~Closed(b)
    BY KnownIsMinted DEF Closed
  <1>2. LocalsOK'
    BY DEF LocalsOK, InWriteManifest
  <1>3. UnmintedUnknown'
    BY <1>1 DEF UnmintedUnknown, stamps
  <1>4. CreatorAlone'
    BY DEF CreatorAlone, Creating, InWriteManifest
  <1>5. DeletersSeeManifest'
    BY DEF DeletersSeeManifest, InWriteManifest
  <1>6. TmpNotStale'
    BY DEF TmpNotStale
  <1>7. SizesTrue'
    <2>1. \A c \in Backup : Closed(c) => Closed(c)'
      BY DEF Closed
    <2>2. ASSUME NEW c \in Backup PROVE FilesTrue(c)'
      BY <1>1, <2>1 DEF SizesTrue, FilesTrue, StatesSize
    <2>3. ASSUME NEW q \in Proc PROVE WriterTrue(q)'
      BY <1>1, <2>1 DEF SizesTrue, WriterTrue, StatesSize, InWriteManifest, LocalsOK
    <2> QED
      BY <2>2, <2>3 DEF SizesTrue
  <1> QED
    BY <1>2, <1>3, <1>4, <1>5, <1>6, <1>7

(* A route that expires closes, and opens nothing. *)
LEMMA RouteExpiresStep ==
  ASSUME IndInv, NEW r \in routes, RouteExpires(r)
  PROVE  IndInv'
  <1> USE DEF IndInv, RouteExpires, stamps, files, locals
  <1>1. TypeOK'
    BY DEF TypeOK
  <1>2. LocalsOK' /\ UnmintedUnknown' /\ CreatorAlone'
    BY DEF LocalsOK, UnmintedUnknown, CreatorAlone, Creating, InWriteManifest
  <1>3. DeletersSeeManifest' /\ TmpNotStale'
    BY DEF DeletersSeeManifest, TmpNotStale, InWriteManifest
  <1>4. SizesTrue'
    <2>1. \A c : Closed(c) => Closed(c)'
      BY DEF Closed
    <2> QED
      BY <2>1 DEF SizesTrue, FilesTrue, WriterTrue, StatesSize, InWriteManifest
  <1> QED
    BY <1>1, <1>2, <1>3, <1>4

-----------------------------------------------------------------------------
(* The theorems.                                                           *)

(* Every step, and stuttering, keeps the invariant. *)
LEMMA NextStep ==
  ASSUME IndInv, [Next]_vars
  PROVE  IndInv'
  <1>1. CASE UNCHANGED vars
    BY <1>1 DEF vars, stamps, files, locals, IndInv, TypeOK, LocalsOK, UnmintedUnknown,
                CreatorAlone, DeletersSeeManifest, TmpNotStale, SizesTrue, FilesTrue,
                WriterTrue, Closed, StatesSize, Creating, InWriteManifest
  <1>2. CASE \E r \in routes : RouteExpires(r)
    BY <1>2, RouteExpiresStep
  <1>3. ASSUME NEW p \in Proc, Step(p) \/ Begin(p) \/ Kill(p)
        PROVE  IndInv'
    <2>1. TypeOK'
      BY <1>3, TypeStep DEF IndInv
    <2>2. CASE Kill(p)
      BY <2>1, <2>2, ReadersStep
    <2>3. CASE Begin(p)
      BY <2>1, <2>3, ReadersStep, NewManifestStep, DeleterStep, UploadBeginStep DEF Begin
    <2>4. CASE Step(p)
      BY <2>1, <2>4, ReadersStep, OpenDataStep, WriteChunkStep, CloseDataStep,
         OpenPostRouteStep, OpenTmpStep, WriteTmpStep, ReplaceManifestStep,
         CheckDataStep, UnlinkDataStep, DeleterStep DEF Step
    <2> QED
      BY <1>3, <2>2, <2>3, <2>4
  <1> QED
    BY <1>1, <1>2, <1>3 DEF Next

(* Handlers, watchdog and bridge requests keep IndInv, however their calls *)
(* fall and wherever they die.                                             *)
THEOREM Invariance == Spec => []IndInv
  <1>1. IndInv /\ [Next]_vars => IndInv'
    BY NextStep
  <1> QED
    BY InitIndInv, <1>1, PTL DEF Spec

(* The files, routes and locals are what TypeOK says, for any set of ids,  *)
(* processes, entry points and retention policies.                         *)
THEOREM TypeCorrect == Spec => []TypeOK
  <1>1. IndInv => TypeOK
    BY DEF IndInv
  <1> QED
    BY Invariance, <1>1, PTL

(* A manifest that write_manifest has put in place as active with a        *)
(* size_bytes always lies beside a data.bin of that size.                  *)
THEOREM SealedBackupsIntact == Spec => []SealedIntact
  <1>1. IndInv => SealedIntact
    BY DEF IndInv, SizesTrue, FilesTrue, StatesSize, SealedIntact
  <1> QED
    BY Invariance, <1>1, PTL

(* backup.delete and _mark_deleted are final: whatever the order of their  *)
(* writes to the one .tmp of a backup, its manifest is never active again. *)
THEOREM DeletedForGood == Spec => NeverReactivated
  <1> DEFINE Stays ==
        \A b \in Backup :
          /\ manifest[b].status # "absent"
          /\ manifest'[b].status = "active"
          => manifest[b] = manifest'[b]
  <1>1. ASSUME IndInv, [Next]_vars PROVE [Stays]_vars
    <2>1. CASE manifest' = manifest
      BY <2>1
    <2>2. ASSUME NEW p \in Proc, WriteTmp(p) PROVE Stays
      BY <1>1, <2>2 DEF WriteTmp, IndInv, TypeOK, TmpNotStale, LocalsOK
    <2>3. ASSUME NEW p \in Proc, ReplaceManifest(p) PROVE Stays
      <3>1. NoFile.status = "absent"
        BY DEF NoFile
      <3>2. id[p] \in Backup
        BY <1>1, <2>3 DEF ReplaceManifest, IndInv, LocalsOK
      <3> QED
        BY <1>1, <2>3, <3>1, <3>2 DEF ReplaceManifest, IndInv, TypeOK, TmpNotStale
    <2>4. \/ manifest' = manifest
          \/ \E p \in Proc : WriteTmp(p) \/ ReplaceManifest(p)
      <3>1. ASSUME NEW p \in Proc, Step(p) \/ Begin(p) \/ Kill(p)
            PROVE  manifest' = manifest \/ WriteTmp(p) \/ ReplaceManifest(p)
        BY <3>1 DEF Step, Begin, Kill, files, OpenData, WriteChunk, CloseData, OpenPostRoute,
                    Fail, OpenTmp, ReplaceRaises, CheckData, UnlinkData, UnlinkRaises,
                    LoadManifest, MarkDeleted, MarkRaises, ApplyKeepLast, RestoreStat,
                    RestoreMissing, OpenGetRoute, Finish, RetentionBegin, NewManifest,
                    CheckBase, DeleteBegin, RestoreBegin, UploadBegin, DownloadBegin
      <3> QED
        BY <1>1, <3>1 DEF Next, RouteExpires, vars, files
    <2> QED
      BY <2>1, <2>2, <2>3, <2>4
  <1>2. Spec => [][Stays]_vars
    BY Invariance, <1>1, PTL DEF Spec
  <1> QED
    BY <1>2 DEF NeverReactivated
=============================================================================
