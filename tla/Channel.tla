------------------------------ MODULE Channel ------------------------------
(***************************************************************************)
(* The large-file channels: the handlers storage.upload_channel and        *)
(* storage.download_channel register temporary routes on the relay, and    *)
(* the relay passes requests that use them to the bridge server, which     *)
(* keeps the files under channels/<channel_id>/.  The server is one event  *)
(* loop: a request runs undisturbed from one await to the next, and every  *)
(* such stretch is an action here.                                         *)
(***************************************************************************)
EXTENDS Integers, Sequences, FiniteSets, SequencesExt

CONSTANTS
  ChannelId,  \* channel ids
  Name,       \* file names, numbered in the order sorted() gives them
  DataBin,    \* the name "data.bin"
  Request,    \* slots for requests the bridge server has in progress
  MaxUploads, \* bound on the uploads ever begun
  MaxChunks   \* bound on the chunks of one body

ASSUME ChannelAssumption ==
  /\ Name \subseteq Nat /\ DataBin \in Name
  /\ MaxUploads \in Nat /\ MaxChunks \in Nat \ {0}

VARIABLES
  routes,     \* <<c, method>>: temporary routes open on the relay
  file,       \* file[c]: the files of channel c, a function on their names
  req,        \* req[r]: where request r stands
  begun,      \* uploads begun so far; they are numbered
  answer,     \* answer[k]: the size_bytes upload k was answered, or NoAnswer
  solo        \* uploads that shared their file with no other in progress

vars == <<routes, file, req, begun, answer, solo>>

(* A file remembers the upload that opened it last.  A chunk is the number *)
(* of the upload it came with, or Hole if a write beyond the end skipped it*)
Hole == 0
NoAnswer == -1
Uploads == 1..MaxUploads
Chunks == Seq({Hole} \cup Uploads)
File == [by : Uploads, chunks : Chunks]

(* pos counts the chunks written, size is the Content-Length announced, got*)
(* the chunks sent.  num is the upload received; for a download, the upload*)
(* its file held when the length was taken.                                *)
Idle == [at |-> "idle", chan |-> "none", name |-> DataBin, num |-> 0,
         pos |-> 0, size |-> 0, got |-> <<>>]
Req == [at : {"receive", "send"}, chan : ChannelId, name : Name, num : Uploads,
        pos : 0..MaxChunks, size : 0..MaxChunks, got : Chunks]

TypeOK ==
  /\ routes \subseteq ChannelId \X {"POST", "GET"}
  /\ DOMAIN file = ChannelId
  /\ \A c \in ChannelId : DOMAIN file[c] \subseteq Name
  /\ \A c \in ChannelId : \A n \in DOMAIN file[c] :
       file[c][n] \in File /\ Len(file[c][n].chunks) <= MaxChunks
  /\ req \in [Request -> {Idle} \cup Req]
  /\ begun \in 0..MaxUploads
  /\ answer \in [Uploads -> NoAnswer..MaxChunks]
  /\ solo \subseteq 1..begun

Init ==
  /\ routes = {}
  /\ file = [c \in ChannelId |-> <<>>]
  /\ req = [r \in Request |-> Idle]
  /\ begun = 0
  /\ answer = [k \in Uploads |-> NoAnswer]
  /\ solo = {}

Stored(r) == file[req[r].chan][req[r].name]

(* Files with file n opened anew. *)
With(fs, n, f) == [m \in DOMAIN fs \cup {n} |-> IF m = n THEN f ELSE fs[m]]

(* The uploads in progress on file n of channel c. *)
Writing(c, n) ==
  {req[r].num : r \in {r \in Request : /\ req[r].at = "receive"
                                       /\ req[r].chan = c /\ req[r].name = n}}

-----------------------------------------------------------------------------
(* Plausible bugs; none of them is part of the specification.  Each stands *)
(* for the definition below that its name begins with.                     *)

(* The file is opened without truncating it. *)
UploadBeginKeeps(r, c, n) ==
  LET old == IF n \in DOMAIN file[c] THEN file[c][n].chunks ELSE <<>>
  IN  /\ begun < MaxUploads /\ req[r] = Idle /\ <<c, "POST">> \in routes
      /\ begun' = begun + 1
      /\ file' = [file EXCEPT ![c] = With(@, n, [by |-> begun + 1, chunks |-> old])]
      /\ req' = [req EXCEPT ![r] = [Idle EXCEPT !.at = "receive", !.chan = c,
                                                !.name = n, !.num = begun + 1]]
      /\ solo' = IF Writing(c, n) = {} THEN solo \cup {begun + 1}
                                       ELSE solo \ Writing(c, n)
      /\ UNCHANGED <<routes, answer>>

(* The length that is announced is not that of the file that is sent. *)
DownloadBeginOtherLength(r, c) ==
  /\ req[r] = Idle
  /\ <<c, "GET">> \in routes
  /\ file[c] # <<>>
  /\ LET n == Min(DOMAIN file[c])
         f == file[c][n]
     IN  req' = [req EXCEPT ![r] = [Idle EXCEPT !.at = "send", !.chan = c, !.name = n,
                  !.num = f.by, !.size = Len(file[c][Max(DOMAIN file[c])].chunks)]]
  /\ UNCHANGED <<routes, file, begun, answer, solo>>

-----------------------------------------------------------------------------
(* storage.upload_channel and storage.download_channel: the route of the   *)
(* channel is registered, or registered anew, with the relay.  A caller    *)
(* names the channel; upload_channel makes an id up from the task's when   *)
(* there is none.  A handler that fails changes nothing.                   *)
OpenUploadChannel(c) ==
  /\ routes' = routes \cup {<<c, "POST">>}
  /\ UNCHANGED <<file, req, begun, answer, solo>>

OpenDownloadChannel(c) ==
  /\ routes' = routes \cup {<<c, "GET">>}
  /\ UNCHANGED <<file, req, begun, answer, solo>>

RouteExpires(r) ==
  /\ r \in routes
  /\ routes' = routes \ {r}
  /\ UNCHANGED <<file, req, begun, answer, solo>>

(* POST /upload/{channel_id}: the file is created or truncated in place,   *)
(* also when others write or read it.                                      *)
UploadBegin(r, c, n) ==
  /\ begun < MaxUploads
  /\ req[r] = Idle
  /\ <<c, "POST">> \in routes
  /\ begun' = begun + 1
  /\ file' = [file EXCEPT ![c] = With(@, n, [by |-> begun + 1, chunks |-> <<>>])]
  /\ req' = [req EXCEPT ![r] = [Idle EXCEPT !.at = "receive", !.chan = c, !.name = n,
                                            !.num = begun + 1]]
  /\ solo' = IF Writing(c, n) = {} THEN solo \cup {begun + 1} ELSE solo \ Writing(c, n)
  /\ UNCHANGED <<routes, answer>>

(* A chunk of the body goes to the request's own offset; what lies between *)
(* the end of the file and that offset reads as zeros.                     *)
WriteAt(chunks, i, k) ==
  [j \in 1..Max({i, Len(chunks)}) |->
     IF j = i THEN k ELSE IF j <= Len(chunks) THEN chunks[j] ELSE Hole]

WriteChunk(r) ==
  /\ req[r].at = "receive"
  /\ req[r].pos < MaxChunks
  /\ req' = [req EXCEPT ![r].pos = @ + 1]
  /\ file' = [file EXCEPT ![req[r].chan][req[r].name].chunks =
                 WriteAt(@, req[r].pos + 1, req[r].num)]
  /\ UNCHANGED <<routes, begun, answer, solo>>

(* The body has ended: {"status": "stored", "size_bytes": total}. *)
UploadEnd(r) ==
  /\ req[r].at = "receive"
  /\ answer' = [answer EXCEPT ![req[r].num] = req[r].pos]
  /\ req' = [req EXCEPT ![r] = Idle]
  /\ UNCHANGED <<routes, file, begun, solo>>

(* GET /download/{channel_id}: the first name of the channel, and the      *)
(* length of its file now.                                                 *)
DownloadBegin(r, c) ==
  /\ req[r] = Idle
  /\ <<c, "GET">> \in routes
  /\ \E n \in DOMAIN file[c] :
       LET f == file[c][n]
       IN  /\ \A other \in DOMAIN file[c] : n <= other
           /\ req' = [req EXCEPT ![r] = [Idle EXCEPT !.at = "send", !.chan = c, !.name = n,
                                         !.num = f.by, !.size = Len(f.chunks)]]
  /\ UNCHANGED <<routes, file, begun, answer, solo>>

(* The server sends no more than the length announced. *)
SendChunk(r) ==
  /\ req[r].at = "send"
  /\ LET i == Len(req[r].got) + 1
     IN  /\ i <= req[r].size /\ i <= Len(Stored(r).chunks)
         /\ req' = [req EXCEPT ![r].got = Append(@, Stored(r).chunks[i])]
  /\ UNCHANGED <<routes, file, begun, answer, solo>>

(* The end of a download, or a connection that breaks off in any request.  *)
RequestEnds(r) ==
  /\ req[r] # Idle
  /\ req' = [req EXCEPT ![r] = Idle]
  /\ UNCHANGED <<routes, file, begun, answer, solo>>

(* The bridge server restarts: all requests break off at once. *)
ServerRestarts ==
  /\ \E r \in Request : req[r] # Idle
  /\ req' = [r \in Request |-> Idle]
  /\ UNCHANGED <<routes, file, begun, answer, solo>>

Next ==
  \/ \E c \in ChannelId : OpenUploadChannel(c) \/ OpenDownloadChannel(c)
  \/ \E x \in routes : RouteExpires(x)
  \/ \E r \in Request :
       \/ \E c \in ChannelId : DownloadBegin(r, c) \/ \E n \in Name : UploadBegin(r, c, n)
       \/ WriteChunk(r) \/ UploadEnd(r) \/ SendChunk(r) \/ RequestEnds(r)
  \/ ServerRestarts

Spec == Init /\ [][Next]_vars

-----------------------------------------------------------------------------
(* An upload that was answered "stored" and shared its file with no other  *)
(* is on disk chunk by chunk, with nothing left of what the file held      *)
(* before, until the next upload of the name begins.                       *)
StoredAsAnswered ==
  \A c \in ChannelId : \A n \in DOMAIN file[c] :
    LET f == file[c][n]
    IN  f.by \in solo /\ answer[f.by] # NoAnswer
          => f.chunks = [i \in 1..answer[f.by] |-> f.by]

(* A download of a file that is only being read announces its true length  *)
(* and sends its chunks in order; only an upload that was not over when    *)
(* the length was taken, or that began later, can spoil it.                *)
DownloadFaithful ==
  \A r \in Request :
    /\ req[r].at = "send"
    /\ Stored(r).by = req[r].num
    /\ req[r].num \in solo
    /\ req[r].num \notin Writing(req[r].chan, req[r].name)
    /\ answer[req[r].num] # NoAnswer
    => /\ req[r].size <= Len(Stored(r).chunks)
       /\ IsPrefix(req[r].got, Stored(r).chunks)

-----------------------------------------------------------------------------
(* Why that is so, in an invariant that every action keeps.                *)

Receiving(r) == req[r].at = "receive"

(* Uploads are told apart by their numbers: no two requests receive the    *)
(* same one, it has no answer yet, and the file it opened last is the one  *)
(* it writes.                                                              *)
UploadsOK ==
  /\ \A k \in Uploads : k > begun => answer[k] = NoAnswer
  /\ \A c \in ChannelId : \A n \in DOMAIN file[c] : file[c][n].by <= begun
  /\ \A r \in Request :
       req[r] # Idle => req[r].num <= begun /\ req[r].name \in DOMAIN file[req[r].chan]
  /\ \A r \in Request : Receiving(r) =>
       /\ answer[req[r].num] = NoAnswer
       /\ \A q \in Request : Receiving(q) /\ req[q].num = req[r].num => q = r
       /\ \A c \in ChannelId : \A n \in DOMAIN file[c] :
            file[c][n].by = req[r].num => c = req[r].chan /\ n = req[r].name

(* A file whose last upload shared it with nobody holds what that upload   *)
(* has written and nothing else, and only that upload may be writing it.   *)
SoloOK ==
  \A c \in ChannelId : \A n \in DOMAIN file[c] :
    LET f == file[c][n]
    IN  f.by \in solo =>
          /\ \A i \in DOMAIN f.chunks : f.chunks[i] = f.by
          /\ answer[f.by] # NoAnswer => Len(f.chunks) = answer[f.by]
          /\ \A r \in Request : Receiving(r) =>
               /\ req[r].chan = c /\ req[r].name = n => req[r].num = f.by
               /\ req[r].num = f.by => req[r].pos = Len(f.chunks)

(* A download is within the length it announced, and so is the file as     *)
(* long as nobody opens it again; what it has sent is the upload's.        *)
SendersOK ==
  \A r \in Request :
    req[r].at = "send" =>
      /\ Len(req[r].got) <= req[r].size
      /\ Stored(r).by = req[r].num =>
           /\ req[r].size <= Len(Stored(r).chunks)
           /\ req[r].num \in solo => \A i \in DOMAIN req[r].got : req[r].got[i] = req[r].num

(* The inductive invariant: it is why downloads and answers are what they  *)
(* should be, whoever else uses the channel.                               *)
ChannelInv == TypeOK /\ UploadsOK /\ SoloOK /\ SendersOK

-----------------------------------------------------------------------------
(* A statement of a comment that the code does not keep, refuted by a run  *)
(* of its own.                                                             *)

(* download_channel: "Pick the stored file: prefer the named one, else     *)
(* data.bin": data.bin is served only where there is nothing else.  The    *)
(* code takes the first name in sorting order, which may be data.bin.      *)
PrefersNamed ==
  [][\A r \in Request :
       req[r].at = "idle" /\ req'[r].at = "send" /\ req'[r].name = DataBin
         => DOMAIN file[req'[r].chan] = {DataBin}]_vars
=============================================================================
