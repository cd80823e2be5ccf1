----------------------- MODULE BackupStoreLife_proofs -----------------------
(***************************************************************************)
(* Proofs about BackupStore, continued: chains of incrementals, readers,   *)
(* and that the handlers implement the abstract life of a backup.  They    *)
(* follow from FullInv, which adds to IndInv who owns a .tmp, what a base  *)
(* is and what a reader has seen.                                          *)
(***************************************************************************)
EXTENDS BackupStore_proofs

-----------------------------------------------------------------------------
(* The cases of a step.                                                    *)

(* The process leaves every file as it is: it has read, failed, died, or   *)
(* decided what to do next.                                                *)
Leaves(p) ==
  /\ UNCHANGED <<clock, created, base, manifest, tmp, data>>
  /\ pc' = [pc EXCEPT ![p] = pc'[p]]
  /\ pc'[p] \in {"idle", "mint", "mint_bridge", "scan", "mark", "unlink", "open_tmp",
                 "stat", "read_data", "get_route", "send"}
  /\ \A q \in Proc : q # p => /\ id'[q] = id[q] /\ text'[q] = text[q]
                              /\ fd'[q] = fd[q] /\ pos'[q] = pos[q]
  /\ pc'[p] = "idle" => id'[p] = None
  /\ pc'[p] \in {"mint", "mint_bridge", "stat", "read_data", "get_route", "send"}
       => manifest[id'[p]] # NoFile
  /\ pc'[p] \in {"read_data", "send"} => pos'[p] = data[id'[p]]
  /\ pc'[p] = "open_tmp" => /\ text'[p].status = "deleted"
                            /\ text'[p].size = manifest[id'[p]].size
  /\ \A b \in Backup : <<b, "POST">> \in routes' => <<b, "POST">> \in routes
  /\ \A b \in Backup : <<b, "GET">> \in routes'
       => <<b, "GET">> \in routes \/ manifest[b] # NoFile

(* The fields of an absent and of a torn file. *)
LEMMA PresentIsSome ==
  /\ NoFile.status = "absent" /\ NoFile.size = 0
  /\ Torn.status = "torn" /\ Torn.size = 0
  BY DEF NoFile, Torn

(* A file has one of four statuses, and an absent one is NoFile. *)
LEMMA AbsentIsNoFile ==
  ASSUME NEW f \in File
  PROVE  /\ f.status \in {"absent", "torn", "active", "deleted"}
         /\ f.status = "absent" => f = NoFile
  BY DEF File, NoFile, Torn

(* Every action that does not write is of this kind. *)
LEMMA LeavesStep ==
  ASSUME FullInv, TypeOK', NEW p \in Proc,
         \/ Fail(p) \/ ReplaceRaises(p) \/ UnlinkRaises(p) \/ RestoreMissing(p)
         \/ RestoreStat(p) \/ OpenGetRoute(p) \/ Finish(p) \/ Kill(p) \/ CheckData(p)
         \/ \E s \in Source : RetentionBegin(p, s)
         \/ \E k \in Keep : ApplyKeepLast(p, k)
         \/ \E b \in Backup : \/ CheckBase(p, b) \/ LoadManifest(p, b) \/ MarkRaises(p, b)
                              \/ RestoreBegin(p, b) \/ DownloadBegin(p, b)
                              \/ DeleteBegin(p, b) \/ MarkDeleted(p, b)
  PROVE  Leaves(p)
  <1>1. TypeOK /\ LocalsOK /\ ReadersTrue
    BY DEF FullInv, IndInv
  <1> USE <1>1 DEF Leaves, Goto, stamps, files, TypeOK
  <1>2. \A b \in Backup : Readable(manifest[b]) => manifest[b] # NoFile
    BY PresentIsSome DEF Readable
  <1>3. Exit(p) /\ UNCHANGED <<stamps, files, routes>> => Leaves(p)
    BY DEF Exit
  <1>4. CASE Fail(p) \/ ReplaceRaises(p) \/ UnlinkRaises(p) \/ RestoreMissing(p)
    BY <1>3, <1>4 DEF Fail, ReplaceRaises, UnlinkRaises, RestoreMissing
  <1>5. CASE Finish(p) \/ Kill(p)
    BY <1>3, <1>5 DEF Finish, Kill
  <1>6. CASE OpenGetRoute(p)
    BY <1>6 DEF OpenGetRoute, Exit, ReadersTrue, Reading
  <1>7. CASE RestoreStat(p)
    <2>1. pc' = [pc EXCEPT ![p] = pc'[p]] /\ pc'[p] \in {"get_route", "read_data"}
      BY <1>7 DEF RestoreStat
    <2>2. manifest[id[p]] # NoFile
      BY <1>7 DEF RestoreStat, ReadersTrue, Reading
    <2> QED
      BY <1>7, <2>1, <2>2 DEF RestoreStat
  <1>8. CASE CheckData(p)
    <2>1. pc' = [pc EXCEPT ![p] = pc'[p]] /\ pc'[p] \in {"mark", "unlink"}
      BY <1>8 DEF CheckData
    <2> QED
      BY <1>8, <2>1 DEF CheckData, locals
  <1>9. ASSUME NEW s \in Source, RetentionBegin(p, s) PROVE Leaves(p)
    BY <1>9 DEF RetentionBegin
  <1>10. ASSUME NEW k \in Keep, ApplyKeepLast(p, k) PROVE Leaves(p)
    BY <1>10 DEF ApplyKeepLast
  <1>11. ASSUME NEW b \in Backup, LoadManifest(p, b) \/ MarkRaises(p, b) PROVE Leaves(p)
    BY <1>3, <1>11 DEF LoadManifest, MarkRaises
  <1>12. ASSUME NEW b \in Backup, CheckBase(p, b) PROVE Leaves(p)
    <2>1. pc' = [pc EXCEPT ![p] = pc'[p]] /\ pc'[p] \in {"mint", "mint_bridge"}
      BY <1>12 DEF CheckBase
    <2> QED
      BY <1>2, <1>12, <2>1 DEF CheckBase
  <1>13. ASSUME NEW b \in Backup, RestoreBegin(p, b) PROVE Leaves(p)
    BY <1>2, <1>13 DEF RestoreBegin
  <1>14. ASSUME NEW b \in Backup, DownloadBegin(p, b) PROVE Leaves(p)
    BY <1>14 DEF DownloadBegin, ReadersTrue
  <1>15. ASSUME NEW b \in Backup, DeleteBegin(p, b) \/ MarkDeleted(p, b) PROVE Leaves(p)
    <2>1. Readable(manifest[b])
      BY <1>15 DEF DeleteBegin, MarkDeleted
    <2>2. manifest[b] \in [status : {"active", "deleted"}, size : 0..MaxChunks]
      BY <2>1, PresentIsSome DEF Readable, File
    <2>3. /\ [manifest[b] EXCEPT !.status = "deleted"].status = "deleted"
          /\ [manifest[b] EXCEPT !.status = "deleted"].size = manifest[b].size
      BY <2>2
    <2>4. /\ text' = [text EXCEPT ![p] = [manifest[b] EXCEPT !.status = "deleted"]]
          /\ pc' = [pc EXCEPT ![p] = "open_tmp"]
          /\ id' = [id EXCEPT ![p] = b]
      BY <1>15 DEF DeleteBegin, MarkDeleted
    <2> QED
      BY <1>15, <2>3, <2>4 DEF DeleteBegin, MarkDeleted
  <1> QED
    BY <1>4, <1>5, <1>6, <1>7, <1>8, <1>9, <1>10, <1>11, <1>12, <1>13, <1>14, <1>15

(* The actions that write to a file, open a route or mint an id. *)
Writes(p) ==
  \/ OpenData(p) \/ WriteChunk(p) \/ CloseData(p) \/ OpenPostRoute(p)
  \/ OpenTmp(p) \/ WriteTmp(p) \/ ReplaceManifest(p) \/ UnlinkData(p)
  \/ \E b \in Backup : UploadBegin(p, b) \/ \E s \in Source : NewManifest(p, s, b)

(* So there are eleven kinds of step of a process to look at. *)
LEMMA LeavesOrWrites ==
  ASSUME FullInv, TypeOK', NEW p \in Proc, Step(p) \/ Begin(p) \/ Kill(p)
  PROVE  Leaves(p) \/ Writes(p)
  BY LeavesStep DEF Step, Begin, Writes

(* The creator of a backup without a manifest meets nobody there but       *)
(* creates that hold no file yet: no deleter, and no reader.               *)
LEMMA CreatorMeetsNobody ==
  ASSUME FullInv, NEW p \in Proc, Creating(p), NEW q \in Proc, q # p, id[q] = id[p]
  PROVE  ~Creating(q) /\ ~InWriteManifest(q) /\ ~Reading(q)
  <1>1. manifest[id[p]] = NoFile /\ ~Creating(q)
    BY DEF FullInv, IndInv, CreatorAlone
  <1>2. ~Reading(q)
    BY <1>1 DEF FullInv, ReadersTrue
  <1>3. ~InWriteManifest(q)
    BY <1>1 DEF FullInv, IndInv, LocalsOK, DeletersSeeManifest, Creating
  <1> QED
    BY <1>1, <1>2, <1>3

(* Who writes touches no other process but the files those have open, and  *)
(* does not come out of it as a reader, a minter or idle.                  *)
LEMMA WritersApart ==
  ASSUME FullInv, TypeOK', NEW p \in Proc, Writes(p)
  PROVE  /\ \A q \in Proc : q # p => /\ pc'[q] = pc[q] /\ id'[q] = id[q]
                                     /\ text'[q] = text[q] /\ pos'[q] = pos[q]
         /\ pc'[p] \notin {"idle", "mint", "mint_bridge",
                           "stat", "read_data", "get_route", "send"}
  <1> USE DEF Goto
  <1>1. TypeOK
    BY DEF FullInv, IndInv
  <1>2. CASE OpenData(p) \/ WriteChunk(p) \/ CloseData(p) \/ OpenPostRoute(p)
    BY <1>1, <1>2 DEF OpenData, WriteChunk, CloseData, OpenPostRoute, TypeOK
  <1>3. CASE OpenTmp(p) \/ WriteTmp(p) \/ ReplaceManifest(p) \/ UnlinkData(p)
    BY <1>1, <1>3 DEF OpenTmp, WriteTmp, ReplaceManifest, UnlinkData, TypeOK
  <1>4. CASE \E b \in Backup : UploadBegin(p, b)
    BY <1>1, <1>4 DEF UploadBegin, TypeOK
  <1>5. ASSUME NEW b \in Backup, NEW s \in Source, NewManifest(p, s, b)
        PROVE  /\ \A q \in Proc : q # p => /\ pc'[q] = pc[q] /\ id'[q] = id[q]
                                           /\ text'[q] = text[q] /\ pos'[q] = pos[q]
               /\ pc'[p] \in {"open_data", "open_route"}
    BY <1>1, <1>5 DEF NewManifest, TypeOK
  <1> QED
    BY <1>2, <1>3, <1>4, <1>5 DEF Writes

-----------------------------------------------------------------------------
(* Who owns a .tmp.                                                        *)

(* No step takes the .tmp, or what is in it, away from a creator. *)
LEMMA CreatorHoldsTmpStep ==
  ASSUME FullInv, TypeOK', NEW p \in Proc, Leaves(p) \/ Writes(p)
  PROVE  CreatorHoldsTmp'
  <1> SUFFICES ASSUME NEW q \in Proc, Creating(q)'
               PROVE  /\ pc'[q] = "write_tmp" => fd'[q] = "tmp"
                      /\ pc'[q] = "replace" => tmp'[id'[q]] = text'[q]
    BY DEF CreatorHoldsTmp
  <1> USE DEF Goto
  <1>1. TypeOK /\ LocalsOK /\ CreatorHoldsTmp
    BY DEF FullInv, IndInv
  <1>2. q # p /\ Creating(q) /\ id[p] = id[q] => ~InWriteManifest(p)
    BY CreatorMeetsNobody
  <1>3. CASE Leaves(p)
    BY <1>1, <1>3 DEF Leaves, TypeOK, CreatorHoldsTmp, Creating, InWriteManifest
  <1>4. CASE OpenTmp(p)
    BY <1>1, <1>2, <1>4 DEF OpenTmp, TypeOK, LocalsOK, CreatorHoldsTmp, Creating, InWriteManifest
  <1>5. CASE WriteTmp(p)
    BY <1>1, <1>2, <1>5 DEF WriteTmp, TypeOK, LocalsOK, CreatorHoldsTmp, Creating, InWriteManifest
  <1>6. CASE ReplaceManifest(p)
    BY <1>1, <1>2, <1>6
       DEF ReplaceManifest, TypeOK, LocalsOK, CreatorHoldsTmp, Creating, InWriteManifest
  <1>7. CASE OpenData(p) \/ WriteChunk(p) \/ CloseData(p) \/ OpenPostRoute(p) \/ UnlinkData(p)
    BY <1>1, <1>7 DEF OpenData, WriteChunk, CloseData, OpenPostRoute, UnlinkData, files,
                      TypeOK, CreatorHoldsTmp, Creating, InWriteManifest
  <1>8. ASSUME NEW b \in Backup, UploadBegin(p, b)
        PROVE  /\ pc'[q] = "write_tmp" => fd'[q] = "tmp"
               /\ pc'[q] = "replace" => tmp'[id'[q]] = text'[q]
    BY <1>1, <1>8 DEF UploadBegin, TypeOK, CreatorHoldsTmp, Creating, InWriteManifest
  <1>9. ASSUME NEW b \in Backup, NEW s \in Source, NewManifest(p, s, b)
        PROVE  /\ pc'[q] = "write_tmp" => fd'[q] = "tmp"
               /\ pc'[q] = "replace" => tmp'[id'[q]] = text'[q]
    <2>1. pc' = [pc EXCEPT ![p] = pc'[p]] /\ pc'[p] \in {"open_data", "open_route"}
      BY <1>1, <1>9 DEF NewManifest, TypeOK
    <2> QED
      BY <1>1, <1>9, <2>1 DEF NewManifest, files, TypeOK, CreatorHoldsTmp, Creating, InWriteManifest
  <1> QED
    BY <1>3, <1>4, <1>5, <1>6, <1>7, <1>8, <1>9 DEF Writes

-----------------------------------------------------------------------------
(* What a base is.                                                         *)

(* A manifest that is there stays there. *)
LEMMA ManifestStays ==
  ASSUME FullInv, TypeOK', NEW p \in Proc, Leaves(p) \/ Writes(p),
         NEW b \in Backup, manifest[b] # NoFile
  PROVE  manifest'[b] # NoFile
  <1>1. TypeOK /\ LocalsOK
    BY DEF FullInv, IndInv
  <1>2. CASE WriteTmp(p)
    BY <1>1, <1>2, PresentIsSome DEF WriteTmp, TypeOK, LocalsOK, InWriteManifest
  <1>3. CASE ReplaceManifest(p)
    BY <1>1, <1>3 DEF ReplaceManifest, TypeOK
  <1>4. CASE manifest' = manifest
    BY <1>4
  <1> QED
    BY <1>2, <1>3, <1>4 DEF Leaves, Writes, OpenData, WriteChunk, CloseData, OpenPostRoute,
                            OpenTmp, UnlinkData, UploadBegin, NewManifest, files

(* A base is fixed when an id is minted: it was there, with an older stamp.*)
LEMMA BasesKeptStep ==
  ASSUME FullInv, TypeOK', NEW p \in Proc, Leaves(p) \/ Writes(p)
  PROVE  BasesKept'
  <1> USE DEF Goto
  <1>1. TypeOK /\ LocalsOK /\ UnmintedUnknown /\ BasesKept
    BY DEF FullInv, IndInv
  <1>2. \A b \in Backup : manifest[b] # NoFile => manifest'[b] # NoFile
    BY ManifestStays
  <1>3. ASSUME NEW b \in Backup, NEW s \in Source, NewManifest(p, s, b)
        PROVE  BasesKept'
    <2>1. /\ pc' = [pc EXCEPT ![p] = pc'[p]] /\ pc'[p] \in {"open_data", "open_route"}
          /\ pc[p] \in {"idle", "mint", "mint_bridge"}
      BY <1>1, <1>3 DEF NewManifest, TypeOK, Begins
    <2>2. /\ created' = [created EXCEPT ![b] = clock + 1] /\ clock' = clock + 1
          /\ base' = [base EXCEPT ![b] = id[p]] /\ id' = [id EXCEPT ![p] = b]
          /\ created[b] = 0 /\ manifest' = manifest
      BY <1>3 DEF NewManifest, files
    <2>3. manifest[b] = NoFile
      BY <1>1, <2>2 DEF UnmintedUnknown
    <2>4. id[p] # None => id[p] \in Backup /\ manifest[id[p]] # NoFile /\ id[p] # b
      BY <1>1, <2>1, <2>3 DEF BasesKept, TypeOK
    <2>5. \A c \in Backup : base[c] # None => base[c] \in Backup /\ base[c] # b
      BY <1>1, <2>3 DEF BasesKept, TypeOK
    <2>6. ASSUME NEW c \in Backup, base'[c] # None
          PROVE  created'[base'[c]] < created'[c] /\ manifest'[base'[c]] # NoFile
      <3>1. CASE c = b
        <4>1. base'[c] = id[p] /\ created'[c] = clock + 1
          BY <1>1, <2>2, <3>1 DEF TypeOK
        <4>2. created'[id[p]] = created[id[p]] /\ created[id[p]] <= clock
          BY <1>1, <2>2, <2>4, <2>6, <4>1 DEF TypeOK, BasesKept
        <4> QED
          BY <1>1, <2>2, <2>4, <2>6, <4>1, <4>2 DEF TypeOK
      <3>2. CASE c # b
        BY <1>1, <2>2, <2>5, <2>6, <3>2 DEF TypeOK, BasesKept
      <3> QED
        BY <3>1, <3>2
    <2> QED
      BY <1>1, <2>1, <2>2, <2>6 DEF BasesKept, TypeOK
  <1>4. CASE UNCHANGED <<clock, created, base>>
    <2>1. CASE Leaves(p)
      <3>1. \A q \in Proc : pc'[q] = "idle" => id'[q] = None
        BY <1>1, <2>1 DEF BasesKept, TypeOK, Leaves
      <3>2. \A q \in Proc : pc'[q] \in {"mint", "mint_bridge"} => manifest'[id'[q]] # NoFile
        BY <1>1, <2>1 DEF BasesKept, TypeOK, Leaves
      <3> QED
        BY <1>1, <1>2, <1>4, <3>1, <3>2 DEF BasesKept, TypeOK
    <2>2. CASE Writes(p)
      <3>1. \A q \in Proc : pc'[q] = "idle" => id'[q] = None
        BY <1>1, <2>2, WritersApart DEF BasesKept
      <3>2. \A q \in Proc : pc'[q] \in {"mint", "mint_bridge"} => manifest'[id'[q]] # NoFile
        BY <1>1, <1>2, <2>2, WritersApart DEF BasesKept, LocalsOK
      <3> QED
        BY <1>1, <1>2, <1>4, <3>1, <3>2 DEF BasesKept, TypeOK
    <2> QED
      BY <2>1, <2>2
  <1> QED
    BY <1>3, <1>4 DEF Leaves, Writes, OpenData, WriteChunk, CloseData, OpenPostRoute,
                      OpenTmp, WriteTmp, ReplaceManifest, UnlinkData, UploadBegin, stamps

-----------------------------------------------------------------------------
(* What a reader has seen.                                                 *)

(* Only the creator that closes data.bin brings a new size into the world. *)
LEMMA SizedStep ==
  ASSUME FullInv, TypeOK', NEW p \in Proc, Leaves(p) \/ Writes(p), NEW b \in Backup, Sized(b)'
  PROVE  Sized(b) \/ (CloseData(p) /\ b = id[p])
  <1> USE PresentIsSome DEF Goto, Sized, InWriteManifest
  <1>1. TypeOK /\ LocalsOK
    BY DEF FullInv, IndInv
  <1>2. CASE Leaves(p)
    BY <1>1, <1>2 DEF Leaves, TypeOK
  <1>3. CASE OpenData(p) \/ WriteChunk(p) \/ UnlinkData(p)
    BY <1>1, <1>3 DEF OpenData, WriteChunk, UnlinkData, TypeOK
  <1>4. CASE CloseData(p)
    BY <1>1, <1>4 DEF CloseData, files, TypeOK
  <1>5. CASE OpenPostRoute(p)
    BY <1>1, <1>5 DEF OpenPostRoute, files, TypeOK
  <1>6. CASE OpenTmp(p)
    BY <1>1, <1>6 DEF OpenTmp, TypeOK
  <1>7. CASE WriteTmp(p)
    BY <1>1, <1>7 DEF WriteTmp, TypeOK
  <1>8. CASE ReplaceManifest(p)
    BY <1>1, <1>8 DEF ReplaceManifest, TypeOK
  <1>9. ASSUME NEW c \in Backup, UploadBegin(p, c) PROVE Sized(b)
    BY <1>1, <1>9 DEF UploadBegin, TypeOK
  <1>10. ASSUME NEW c \in Backup, NEW s \in Source, NewManifest(p, s, c) PROVE Sized(b)
    <2>1. pc'[p] \in {"open_data", "open_route"} /\ \A q \in Proc : q # p => pc'[q] = pc[q]
      BY <1>1, <1>10 DEF NewManifest, TypeOK
    <2> QED
      BY <1>1, <1>10, <2>1 DEF NewManifest, files, TypeOK
  <1> QED
    BY <1>2, <1>3, <1>4, <1>5, <1>6, <1>7, <1>8, <1>9, <1>10 DEF Writes

(* A data.bin whose size is stated gets no new upload. *)
LEMMA SizedClosedStep ==
  ASSUME FullInv, TypeOK', NEW p \in Proc, Leaves(p) \/ Writes(p), NEW b \in Backup, Sized(b)'
  PROVE  Closed(b)'
  <1> USE DEF Goto, Closed
  <1>1. TypeOK /\ LocalsOK
    BY DEF FullInv, IndInv
  <1>2. Sized(b) => Closed(b)
    BY DEF FullInv, ReadersTrue
  <1>3. CASE CloseData(p) /\ b = id[p]
    <2>1. Closed(b)
      BY <1>3 DEF FullInv, IndInv, SizesTrue, WriterTrue, CloseData
    <2> QED
      BY <1>1, <1>3, <2>1 DEF CloseData, TypeOK
  <1>4. CASE Sized(b)
    <2>1. CASE Leaves(p)
      BY <1>1, <1>2, <1>4, <2>1 DEF Leaves, TypeOK
    <2>2. CASE OpenPostRoute(p)
      <3>1. b # id[p]
        <4> SUFFICES ASSUME b = id[p] PROVE FALSE
          OBVIOUS
        <4>1. Creating(p) /\ ~InWriteManifest(p)
          BY <2>2 DEF Creating, InWriteManifest, OpenPostRoute
        <4>2. manifest[b] = NoFile /\ tmp[b] = NoFile
          BY <4>1 DEF FullInv, IndInv, CreatorAlone
        <4>3. \A q \in Proc : id[q] = b => ~InWriteManifest(q)
          BY <4>1, CreatorMeetsNobody
        <4> QED
          BY <1>4, <4>2, <4>3, PresentIsSome DEF Sized
      <3> QED
        BY <1>1, <1>2, <1>4, <2>2, <3>1 DEF OpenPostRoute, TypeOK
    <2>3. ASSUME NEW c \in Backup, UploadBegin(p, c) PROVE Closed(b)'
      BY <1>1, <1>2, <1>4, <2>3 DEF UploadBegin, TypeOK
    <2>4. ASSUME NEW c \in Backup, NEW s \in Source, NewManifest(p, s, c) PROVE Closed(b)'
      <3>1. pc'[p] \in {"open_data", "open_route"} /\ \A q \in Proc : q # p => pc'[q] = pc[q]
        BY <1>1, <2>4 DEF NewManifest, TypeOK
      <3> QED
        BY <1>1, <1>2, <1>4, <2>4, <3>1 DEF NewManifest, TypeOK
    <2>5. CASE OpenData(p) \/ WriteChunk(p) \/ CloseData(p) \/ UnlinkData(p)
      BY <1>1, <1>2, <1>4, <2>5 DEF OpenData, WriteChunk, CloseData, UnlinkData, TypeOK
    <2>6. CASE OpenTmp(p) \/ WriteTmp(p) \/ ReplaceManifest(p)
      BY <1>1, <1>2, <1>4, <2>6 DEF OpenTmp, WriteTmp, ReplaceManifest, TypeOK
    <2> QED
      BY <2>1, <2>2, <2>3, <2>4, <2>5, <2>6 DEF Writes
  <1> QED
    BY <1>3, <1>4, SizedStep

(* The data.bin of a stated size that a process is about to read may go,   *)
(* but does not change.                                                    *)
LEMMA ReadersTrueStep ==
  ASSUME FullInv, IndInv', NEW p \in Proc, Leaves(p) \/ Writes(p)
  PROVE  ReadersTrue'
  <1> USE DEF Goto
  <1>1. TypeOK /\ LocalsOK /\ ReadersTrue /\ TypeOK'
    BY DEF FullInv, IndInv
  <1>2. \A b \in Backup : manifest[b] # NoFile => manifest'[b] # NoFile
    BY <1>1, ManifestStays
  <1>3. ASSUME NEW b \in Backup, <<b, "GET">> \in routes'
        PROVE  manifest'[b] # NoFile
    <2>1. CASE Leaves(p)
      BY <1>1, <1>2, <1>3, <2>1 DEF Leaves, ReadersTrue
    <2>2. CASE OpenPostRoute(p)
      BY <1>1, <1>2, <1>3, <2>2 DEF OpenPostRoute, ReadersTrue
    <2>3. CASE routes' = routes
      BY <1>1, <1>2, <1>3, <2>3 DEF ReadersTrue
    <2> QED
      BY <2>1, <2>2, <2>3 DEF Writes, OpenData, WriteChunk, CloseData, OpenTmp, WriteTmp,
                              ReplaceManifest, UnlinkData, UploadBegin, NewManifest
  <1>4. ASSUME NEW q \in Proc, Reading(q)'
        PROVE  manifest'[id'[q]] # NoFile
    <2>1. CASE Leaves(p)
      BY <1>1, <1>4, <2>1 DEF Leaves, TypeOK, Reading, ReadersTrue
    <2>2. CASE Writes(p)
      BY <1>1, <1>2, <1>4, <2>2, WritersApart DEF Reading, ReadersTrue, LocalsOK
    <2> QED
      BY <2>1, <2>2
  <1>5. ASSUME NEW q \in Proc, pc'[q] \in {"read_data", "send"},
               NEW b \in Backup, b = id'[q], Sized(b)'
        PROVE  data'[b] \in {NoData, pos'[q]}
    <2>1. CASE Leaves(p) /\ q = p
      BY <1>5, <2>1 DEF Leaves
    <2>2. CASE q # p
      <3>1. pc'[q] = pc[q] /\ id'[q] = id[q] /\ pos'[q] = pos[q]
        BY <1>1, <2>2, WritersApart DEF Leaves, TypeOK
      <3>2. Reading(q) /\ id[q] = b
        BY <1>5, <3>1 DEF Reading
      <3>3. Creating(p) => id[p] # b
        BY <2>2, <3>2, CreatorMeetsNobody
      <3>4. Sized(b) /\ Closed(b)
        <4>1. ~(CloseData(p) /\ b = id[p])
          BY <3>3 DEF CloseData, Creating
        <4> QED
          BY <1>1, <1>5, <4>1, SizedStep DEF ReadersTrue
      <3>5. data[b] \in {NoData, pos[q]}
        BY <1>1, <1>5, <3>1, <3>4 DEF ReadersTrue
      <3>6. data'[b] \in {NoData, data[b]}
        <4>1. CASE OpenData(p) \/ WriteChunk(p)
          BY <1>1, <3>2, <3>3, <3>4, <4>1 DEF OpenData, WriteChunk, Creating, Closed, TypeOK, LocalsOK
        <4>2. CASE UnlinkData(p)
          BY <1>1, <3>2, <4>2 DEF UnlinkData, TypeOK
        <4>3. ASSUME NEW c \in Backup, UploadBegin(p, c) PROVE data'[b] = data[b]
          BY <1>1, <3>2, <3>4, <4>3 DEF UploadBegin, Closed, TypeOK
        <4>4. CASE data' = data
          BY <4>4
        <4> QED
          BY <4>1, <4>2, <4>3, <4>4 DEF Leaves, Writes, CloseData, OpenPostRoute, OpenTmp, WriteTmp,
                                        ReplaceManifest, NewManifest, files
      <3> QED
        BY <3>1, <3>5, <3>6
    <2> QED
      BY <1>1, <1>5, <2>1, <2>2, WritersApart
  <1>6. \A q \in Proc : pc'[q] \in {"read_data", "send"} => id'[q] \in Backup
    BY DEF IndInv, LocalsOK
  <1>7. \A b \in Backup : Sized(b)' => Closed(b)'
    BY <1>1, SizedClosedStep DEF IndInv
  <1> QED
    BY <1>3, <1>4, <1>5, <1>6, <1>7 DEF ReadersTrue

-----------------------------------------------------------------------------
(* The invariant.                                                          *)

(* It holds of the empty tree. *)
LEMMA InitFullInv == Init => FullInv
  <1>1. Init => CreatorHoldsTmp /\ BasesKept
    BY ConstantsAssumption
       DEF ConstantsAssumption, Init, CreatorHoldsTmp, BasesKept, Creating, InWriteManifest
  <1>2. Init => ReadersTrue
    BY PresentIsSome DEF Init, ReadersTrue, Reading, Sized, InWriteManifest
  <1> QED
    BY <1>1, <1>2, InitIndInv DEF FullInv

(* A step of a process by the lemmas above; a route that expires, or       *)
(* stuttering, changes nothing FullInv asks for.                           *)
LEMMA FullNextStep ==
  ASSUME FullInv, [Next]_vars
  PROVE  FullInv'
  <1>1. IndInv' /\ TypeOK'
    BY NextStep DEF FullInv, IndInv
  <1>2. ASSUME NEW p \in Proc, Step(p) \/ Begin(p) \/ Kill(p) PROVE FullInv'
    <2>1. Leaves(p) \/ Writes(p)
      BY <1>1, <1>2, LeavesOrWrites
    <2> QED
      BY <1>1, <2>1, CreatorHoldsTmpStep, BasesKeptStep, ReadersTrueStep DEF FullInv
  <1>3. CASE UNCHANGED <<clock, created, base, files, pc, locals>> /\ routes' \subseteq routes
    <2>1. CreatorHoldsTmp' /\ BasesKept'
      BY <1>3 DEF FullInv, files, locals, CreatorHoldsTmp, BasesKept, Creating, InWriteManifest
    <2>2. \A b \in Backup : (Sized(b)' => Sized(b)) /\ (Closed(b) => Closed(b)')
      BY <1>3 DEF files, locals, Sized, Closed, InWriteManifest
    <2>3. ReadersTrue'
      BY <1>3, <2>2 DEF FullInv, IndInv, LocalsOK, files, locals, ReadersTrue, Reading
    <2> QED
      BY <1>1, <2>1, <2>3 DEF FullInv
  <1>4. (\E r \in routes : RouteExpires(r)) \/ UNCHANGED vars
          => UNCHANGED <<clock, created, base, files, pc, locals>> /\ routes' \subseteq routes
    BY DEF RouteExpires, vars, stamps
  <1> QED
    BY <1>2, <1>3, <1>4 DEF Next

(* What bases, readers and creators rely on holds however the calls fall.  *)
THEOREM FullInvariance == Spec => []FullInv
  <1>1. FullInv /\ [Next]_vars => FullInv'
    BY FullNextStep
  <1> QED
    BY InitFullInv, <1>1, PTL DEF Spec

(* A chain of incrementals always leads, over older and older backups whose*)
(* manifests are still there, to a full one: backup.create checks the base *)
(* once, and no delete or retention removes a manifest.                    *)
THEOREM ChainsGrounded == Spec => []ChainGrounded
  <1>1. FullInv => ChainGrounded
    BY PresentIsSome DEF FullInv, IndInv, TypeOK, File, BasesKept, ChainGrounded
  <1> QED
    BY FullInvariance, <1>1, PTL

(* backup.restore and the bridge download never send a body that differs   *)
(* from the size they announced, unless data.bin is gone altogether.       *)
THEOREM ReadsExact == Spec => []ReadExact
  <1>1. FullInv => ReadExact
    BY DEF FullInv, IndInv, LocalsOK, ReadersTrue, Sized, ReadExact
  <1> QED
    BY FullInvariance, <1>1, PTL

-----------------------------------------------------------------------------
(* The abstract life of a backup.                                          *)

(* The life of a backup is read off its manifest, and its data.bin counts  *)
(* from the manifest's rename to its deletion.                             *)
LEMMA LifeReadOff ==
  ASSUME TypeOK, NEW b \in Backup
  PROVE  /\ manifest[b].status = "absent" => life[b] = "none"
         /\ manifest[b].status \in {"torn", "deleted"} => life[b] = "deleted"
         /\ manifest[b].status = "active" /\ manifest[b].size > 0 => life[b] = "sealed"
         /\ manifest[b].status = "active" /\ manifest[b].size = 0 => life[b] = "open"
         /\ life[b] \in {"open", "sealed"} => content[b] = data[b]
         /\ life[b] \in {"none", "deleted"} => content[b] = NoData
         /\ manifest[b].status \in {"absent", "torn", "active", "deleted"}
         /\ manifest[b].size \in 0..MaxChunks
  BY ConstantsAssumption DEF ConstantsAssumption, TypeOK, File, NoFile, Torn, life, content

(* A step that changes one manifest and one data.bin at most is judged by  *)
(* that backup alone.                                                      *)
LEMMA OneLife ==
  ASSUME NEW b \in Backup,
         \A c \in Backup : c # b => manifest'[c] = manifest[c] /\ data'[c] = data[c]
  PROVE  /\ life' = [life EXCEPT ![b] = life'[b]]
         /\ content' = [content EXCEPT ![b] = content'[b]]
  <1>1. \A c \in Backup : c # b => life'[c] = life[c]
    BY DEF life
  <1>2. \A c \in Backup : c # b => content'[c] = content[c]
    BY <1>1 DEF content
  <1>3. /\ life = [c \in Backup |-> life[c]] /\ life' = [c \in Backup |-> life'[c]]
        /\ content = [c \in Backup |-> content[c]]
        /\ content' = [c \in Backup |-> content'[c]]
    BY DEF life, content
  <1> QED
    BY <1>1, <1>2, <1>3

(* If the life and content of that backup are the same too, nothing is to  *)
(* be seen of the step.                                                    *)
LEMMA SameLife ==
  ASSUME NEW b \in Backup,
         \A c \in Backup : c # b => manifest'[c] = manifest[c] /\ data'[c] = data[c],
         life'[b] = life[b], content'[b] = content[b]
  PROVE  life' = life /\ content' = content
  <1>1. \A c \in Backup : life'[c] = life[c]
    BY DEF life
  <1>2. \A c \in Backup : content'[c] = content[c]
    BY <1>1 DEF content
  <1> QED
    BY <1>1, <1>2 DEF life, content

AbstractStep == Lifecycle!LifecycleNext \/ UNCHANGED <<life, content>>

(* Uploads are received by open backups only; elsewhere, what happens to   *)
(* data.bin cannot be seen.                                                *)
LEMMA DataStepMaps ==
  ASSUME FullInv, FullInv', NEW b \in Backup, manifest' = manifest,
         \A c \in Backup : c # b => data'[c] = data[c],
         life[b] # "sealed"
  PROVE  AbstractStep
  <1>1. TypeOK /\ TypeOK'
    BY DEF FullInv, IndInv
  <1>2. life' = life
    BY <1>1 DEF life
  <1>3. content' = [content EXCEPT ![b] = content'[b]]
    BY OneLife
  <1>4. life[b] \in {"none", "open", "deleted"}
    BY <1>1, LifeReadOff
  <1>5. CASE life[b] = "open"
    <2>1. content'[b] \in -1..MaxChunks
      BY <1>1, <1>2, <1>5 DEF TypeOK, NoData, content
    <2>2. Lifecycle!Receive(b, content'[b])
      BY <1>2, <1>3, <1>5 DEF Lifecycle!Receive
    <2> QED
      BY <2>1, <2>2 DEF AbstractStep, Lifecycle!LifecycleNext, Lifecycle!NoContent
  <1>6. CASE life[b] # "open"
    BY <1>1, <1>2, <1>3, <1>4, <1>6 DEF AbstractStep, content
  <1> QED
    BY <1>5, <1>6

(* The rename of a manifest by its creator is Seal or Open, by the first   *)
(* deleter that gets there Delete.                                         *)
LEMMA ReplaceMaps ==
  ASSUME FullInv, FullInv', NEW p \in Proc, ReplaceManifest(p)
  PROVE  AbstractStep
  <1>1. TypeOK /\ TypeOK' /\ id[p] \in Backup /\ tmp[id[p]] # NoFile
    BY DEF FullInv, IndInv, LocalsOK, ReplaceManifest
  <1> DEFINE b == id[p]
  <1>2. /\ manifest'[b] = tmp[b] /\ data' = data
        /\ \A c \in Backup : c # b => manifest'[c] = manifest[c]
    BY <1>1 DEF ReplaceManifest, TypeOK
  <1>3. /\ life' = [life EXCEPT ![b] = life'[b]]
        /\ content' = [content EXCEPT ![b] = content'[b]]
    BY <1>1, <1>2, OneLife
  <1>4. /\ tmp[b].status # "absent" /\ tmp[b] \in File
        /\ text[p].status \in {"active", "deleted"}
    BY <1>1 DEF TypeOK, File, NoFile, Torn, FullInv, IndInv, LocalsOK, InWriteManifest, ReplaceManifest
  <1>5. CASE text[p].status = "active"
    <2>1. Creating(p)
      BY <1>5 DEF Creating, InWriteManifest, ReplaceManifest
    <2>2. manifest[b] = NoFile /\ tmp[b] = text[p]
      BY <2>1 DEF FullInv, IndInv, CreatorAlone, CreatorHoldsTmp, ReplaceManifest
    <2>3. life[b] = "none"
      BY <1>1, <2>2, LifeReadOff, PresentIsSome
    <2>4. /\ manifest'[b].size > 0 => life'[b] = "sealed" /\ data[b] = manifest'[b].size
          /\ manifest'[b].size = 0 => life'[b] = "open"
          /\ manifest'[b].size \in 0..MaxChunks
      <3>1. manifest'[b].status = "active" /\ manifest'[b].size \in 0..MaxChunks
        BY <1>1, <1>2, <1>5, <2>2 DEF TypeOK, File, NoFile, Torn
      <3>2. manifest'[b].size > 0 => data[b] = manifest'[b].size
        BY <1>2, <1>5, <2>2
           DEF FullInv, IndInv, SizesTrue, WriterTrue, StatesSize, InWriteManifest, ReplaceManifest
      <3> QED
        BY <1>1, <3>1, <3>2 DEF life
    <2>5. life'[b] \in {"open", "sealed"} => content'[b] = data[b]
      BY <1>1, <1>2 DEF content
    <2>6. CASE manifest'[b].size > 0
      <3>1. Lifecycle!Seal(b, data[b]) /\ data[b] \in 1..MaxChunks
        BY <1>3, <2>3, <2>4, <2>5, <2>6 DEF Lifecycle!Seal
      <3> QED
        BY <1>1, <3>1 DEF AbstractStep, Lifecycle!LifecycleNext
    <2>7. CASE manifest'[b].size = 0
      <3>1. Lifecycle!Open(b, data[b]) /\ data[b] \in -1..MaxChunks
        BY <1>1, <1>3, <2>3, <2>4, <2>5, <2>7 DEF Lifecycle!Open, TypeOK, NoData
      <3> QED
        BY <1>1, <3>1 DEF AbstractStep, Lifecycle!LifecycleNext, Lifecycle!NoContent
    <2> QED
      BY <2>4, <2>6, <2>7
  <1>6. CASE text[p].status = "deleted"
    <2>1. manifest[b] # NoFile
      BY <1>6 DEF FullInv, IndInv, DeletersSeeManifest, InWriteManifest, ReplaceManifest
    <2>2. manifest'[b].status \in {"torn", "deleted"}
      BY <1>1, <1>2, <1>4, <2>1 DEF FullInv, IndInv, TmpNotStale, File, NoFile, Torn
    <2>3. life'[b] = "deleted" /\ content'[b] = NoData
      BY <1>1, <2>2 DEF life, content
    <2>4. life[b] \in {"open", "sealed", "deleted"}
      <3>1. manifest[b].status # "absent"
        BY <1>1, <2>1, AbsentIsNoFile DEF TypeOK
      <3> QED
        BY <1>1, <3>1, LifeReadOff
    <2>5. CASE life[b] = "deleted"
      <3>1. content[b] = NoData
        BY <1>1, <2>5, LifeReadOff
      <3>2. life' = life /\ content' = content
        BY <1>1, <1>2, <2>3, <2>5, <3>1, SameLife
      <3> QED
        BY <3>2 DEF AbstractStep
    <2>6. CASE life[b] # "deleted"
      <3>1. Lifecycle!Delete(b)
        BY <1>3, <2>3, <2>4, <2>6 DEF Lifecycle!Delete, Lifecycle!NoContent, NoData
      <3> QED
        BY <1>1, <3>1 DEF AbstractStep, Lifecycle!LifecycleNext
    <2> QED
      BY <2>5, <2>6
  <1> QED
    BY <1>4, <1>5, <1>6

(* Every step of the implementation is one of the abstract life, or none.  *)
LEMMA StepMaps ==
  ASSUME FullInv, FullInv', NEW p \in Proc, Leaves(p) \/ Writes(p)
  PROVE  AbstractStep
  <1>1. /\ TypeOK /\ TypeOK' /\ LocalsOK
        /\ \A b \in Backup : Sized(b) => Closed(b)
    BY DEF FullInv, IndInv, ReadersTrue
  <1>2. \A b \in Backup : life[b] = "sealed" => Sized(b)
    BY <1>1, LifeReadOff DEF life, Sized
  <1>3. CASE UNCHANGED <<manifest, data>>
    BY <1>3 DEF AbstractStep, life, content
  <1>4. CASE OpenData(p)
    <2>1. /\ id[p] \in Backup /\ manifest[id[p]] = NoFile /\ manifest' = manifest
          /\ \A c \in Backup : c # id[p] => data'[c] = data[c]
      BY <1>1, <1>4 DEF OpenData, LocalsOK, FullInv, IndInv, CreatorAlone, Creating, TypeOK
    <2>2. life[id[p]] # "sealed"
      BY <1>1, <2>1, LifeReadOff, PresentIsSome
    <2> QED
      BY <2>1, <2>2, DataStepMaps
  <1>5. CASE WriteChunk(p)
    <2>1. /\ id[p] \in Backup /\ manifest' = manifest
          /\ \A c \in Backup : c # id[p] => data'[c] = data[c]
      BY <1>1, <1>5 DEF WriteChunk, LocalsOK, TypeOK
    <2>2. life[id[p]] # "sealed"
      <3>1. CASE pc[p] = "receive"
        BY <1>1, <1>2, <2>1, <3>1 DEF Closed
      <3>2. CASE pc[p] = "write_data"
        <4>1. manifest[id[p]] = NoFile
          BY <3>2 DEF FullInv, IndInv, CreatorAlone, Creating
        <4> QED
          BY <1>1, <2>1, <4>1, LifeReadOff, PresentIsSome
      <3> QED
        BY <1>5, <3>1, <3>2 DEF WriteChunk
    <2> QED
      BY <2>1, <2>2, DataStepMaps
  <1>6. CASE WriteTmp(p) /\ fd[p] = "manifest"
    <2>1. /\ id[p] \in Backup /\ data' = data
          /\ manifest'[id[p]].status = "deleted"
          /\ \A c \in Backup : c # id[p] => manifest'[c] = manifest[c]
      BY <1>1, <1>6 DEF WriteTmp, LocalsOK, TypeOK, FullInv, IndInv, TmpNotStale
    <2>2. manifest[id[p]].status \in {"torn", "deleted"}
      BY <1>6 DEF FullInv, IndInv, TmpNotStale
    <2>3. life[id[p]] = "deleted" /\ content[id[p]] = NoData
      BY <1>1, <2>1, <2>2, LifeReadOff
    <2>4. life'[id[p]] = "deleted" /\ content'[id[p]] = NoData
      BY <1>1, <2>1 DEF life, content
    <2>5. life' = life /\ content' = content
      BY <2>1, <2>3, <2>4, SameLife
    <2> QED
      BY <2>5 DEF AbstractStep
  <1>7. CASE UnlinkData(p)
    <2>1. /\ id[p] \in Backup /\ manifest' = manifest
          /\ \A c \in Backup : c # id[p] => data'[c] = data[c]
      BY <1>1, <1>7 DEF UnlinkData, LocalsOK, TypeOK
    <2>2. life[id[p]] # "sealed"
      BY <1>1, <1>7, <2>1, LifeReadOff DEF UnlinkData, FullInv, IndInv, DeletersSeeManifest
    <2> QED
      BY <2>1, <2>2, DataStepMaps
  <1>8. ASSUME NEW b \in Backup, UploadBegin(p, b) PROVE AbstractStep
    <2>1. /\ manifest' = manifest /\ ~Closed(b)
          /\ \A c \in Backup : c # b => data'[c] = data[c]
      BY <1>1, <1>8 DEF UploadBegin, TypeOK, Closed
    <2> QED
      BY <1>1, <1>2, <2>1, DataStepMaps
  <1>9. CASE ReplaceManifest(p)
    BY <1>9, ReplaceMaps
  <1>10. CASE WriteTmp(p) /\ fd[p] # "manifest"
    BY <1>3, <1>10 DEF WriteTmp
  <1> QED
    BY <1>3, <1>4, <1>5, <1>6, <1>7, <1>8, <1>9, <1>10
       DEF Leaves, Writes, CloseData, OpenPostRoute, OpenTmp, NewManifest, files

(* backup.create, delete, retention and the bridge, with their unlocked    *)
(* files and deaths half way, give every backup the abstract life: it      *)
(* appears in one step, is sealed or open, and is deleted once and for all.*)
THEOREM HandlersImplementLifecycle == Spec => ImplementsLifecycle
  <1>1. Init => Lifecycle!LifecycleInit
    BY PresentIsSome DEF Init, Lifecycle!LifecycleInit, Lifecycle!NoContent, NoData, life, content
  <1>2. ASSUME FullInv, FullInv', [Next]_vars
        PROVE  [Lifecycle!LifecycleNext]_<<life, content>>
    <2>1. ASSUME NEW p \in Proc, Step(p) \/ Begin(p) \/ Kill(p)
          PROVE  AbstractStep
      <3>1. TypeOK'
        BY <1>2 DEF FullInv, IndInv
      <3> QED
        BY <1>2, <2>1, <3>1, LeavesOrWrites, StepMaps
    <2>2. CASE UNCHANGED <<manifest, data>>
      BY <2>2 DEF life, content
    <2> QED
      BY <1>2, <2>1, <2>2 DEF AbstractStep, Next, RouteExpires, vars, files
  <1> QED
    BY FullInvariance, <1>1, <1>2, PTL DEF Spec, ImplementsLifecycle, Lifecycle!LifecycleSpec
=============================================================================
