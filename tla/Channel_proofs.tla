--------------------------- MODULE Channel_proofs ---------------------------
(***************************************************************************)
(* Proofs about Channel, for any channels, names and requests and any      *)
(* bounds: requests that interleave chunk by chunk, break off and are      *)
(* restarted keep ChannelInv, and with it what uploads were answered and   *)
(* what downloads announced.                                               *)
(***************************************************************************)
EXTENDS Channel, SequenceTheorems, TLAPS

-----------------------------------------------------------------------------
(* The operators that steps are built from.                                *)

(* The maximum of two numbers. *)
LEMMA MaxOfTwo ==
  ASSUME NEW a \in Nat, NEW b \in Nat
  PROVE  Max({a, b}) = IF a >= b THEN a ELSE b
  <1>1. CASE a >= b
    <2>1. /\ a \in {a, b} /\ \A y \in {a, b} : a >= y
          /\ \A x \in {a, b} : (\A y \in {a, b} : x >= y) => x = a
      BY <1>1
    <2> QED BY <1>1, <2>1 DEF Max
  <1>2. CASE ~(a >= b)
    <2>1. /\ b \in {a, b} /\ \A y \in {a, b} : b >= y
          /\ \A x \in {a, b} : (\A y \in {a, b} : x >= y) => x = b
      BY <1>2
    <2> QED BY <1>2, <2>1 DEF Max
  <1> QED BY <1>1, <1>2

(* A chunk written at an offset makes the file as long as it has to be,    *)
(* and the first offset behind its end appends to it.                      *)
LEMMA WriteAtIs ==
  ASSUME NEW f \in Chunks, NEW i \in Nat \ {0}, NEW k \in Uploads
  PROVE  /\ WriteAt(f, i, k) \in Chunks
         /\ Len(WriteAt(f, i, k)) = IF i >= Len(f) THEN i ELSE Len(f)
         /\ i = Len(f) + 1 => WriteAt(f, i, k) = Append(f, k)
  <1> DEFINE m == IF i >= Len(f) THEN i ELSE Len(f)
  <1>1. Len(f) \in Nat /\ m \in Nat
    BY DEF Chunks
  <1>2. WriteAt(f, i, k) =
          [j \in 1..m |-> IF j = i THEN k ELSE IF j <= Len(f) THEN f[j] ELSE Hole]
    BY <1>1, MaxOfTwo DEF WriteAt
  <1>3. \A j \in 1..m : (IF j = i THEN k ELSE IF j <= Len(f) THEN f[j] ELSE Hole)
                          \in {Hole} \cup Uploads
    BY <1>1 DEF Chunks
  <1>4. WriteAt(f, i, k) \in Chunks /\ Len(WriteAt(f, i, k)) = m
    BY <1>1, <1>2, <1>3 DEF Chunks
  <1>5. ASSUME i = Len(f) + 1
        PROVE  WriteAt(f, i, k) = Append(f, k)
    <2> DEFINE g == WriteAt(f, i, k)
               S == {Hole} \cup Uploads
    <2>1. /\ f \in Seq(S) /\ k \in S /\ g \in Seq(S)
          /\ Len(g) = Len(f) + 1 /\ \A j \in 1..Len(f) : g[j] = f[j]
          /\ g[Len(f) + 1] = k
      BY <1>1, <1>2, <1>4, <1>5 DEF Chunks
    <2>2. /\ Append(f, k) \in Seq(S) /\ Len(Append(f, k)) = Len(f) + 1
          /\ \A j \in 1..Len(f) : Append(f, k)[j] = f[j]
          /\ Append(f, k)[Len(f) + 1] = k
      <3> HIDE DEF S
      <3> QED BY <2>1, AppendProperties
    <2>3. \A j \in 1..Len(g) : g[j] = Append(f, k)[j]
      <3> HIDE DEF g
      <3> QED BY <1>1, <2>1, <2>2
    <2> HIDE DEF g, S
    <2>4. g = Append(f, k)
      BY <2>1, <2>2, <2>3, SeqEqual
    <2> QED BY <2>4 DEF g
  <1> QED BY <1>4, <1>5

-----------------------------------------------------------------------------
(* Steps that change no file and begin no upload.                          *)

(* A request that ends takes nothing along that the invariant needs. *)
LEMMA RequestsGone ==
  ASSUME ChannelInv, UNCHANGED <<file, begun, solo>>,
         answer' = answer,
         req' \in [Request -> {Idle} \cup Req],
         \A r \in Request : req'[r] \in {Idle, req[r]},
         routes' \subseteq ChannelId \X {"POST", "GET"}
  PROVE  ChannelInv'
  <1> USE ChannelAssumption DEF ChannelAssumption
  <1>1. TypeOK'
    BY DEF ChannelInv, TypeOK
  <1>2. \A r \in Request : req'[r] # Idle => req'[r] = req[r]
    OBVIOUS
  <1>3. \A r \in Request : (Receiving(r))' => Receiving(r) /\ req'[r] = req[r]
    BY <1>2 DEF Receiving, Idle
  <1>4. UploadsOK'
    BY <1>2, <1>3 DEF ChannelInv, UploadsOK
  <1>5. SoloOK'
    BY <1>3 DEF ChannelInv, SoloOK
  <1>6. SendersOK'
    BY <1>2 DEF ChannelInv, SendersOK, Stored, Idle
  <1> QED BY <1>1, <1>4, <1>5, <1>6 DEF ChannelInv

(* A request that leaves a download in place only ends, or becomes one.    *)
LEMMA DownloadSteps ==
  ASSUME ChannelInv, NEW r \in Request, NEW c \in ChannelId, DownloadBegin(r, c)
  PROVE  ChannelInv'
  <1> USE ChannelAssumption DEF ChannelAssumption
  <1>1. PICK n \in DOMAIN file[c] :
          req' = [req EXCEPT ![r] = [Idle EXCEPT !.at = "send", !.chan = c, !.name = n,
                    !.num = file[c][n].by, !.size = Len(file[c][n].chunks)]]
    BY DEF DownloadBegin
  <1>2. /\ req[r] = Idle /\ UNCHANGED <<routes, file, begun, answer, solo>>
    BY DEF DownloadBegin
  <1>3. /\ file[c][n] \in File /\ Len(file[c][n].chunks) \in 0..MaxChunks /\ n \in Name
    BY DEF ChannelInv, TypeOK, File, Chunks
  <1>4. /\ req'[r] \in Req /\ req'[r].at = "send" /\ req'[r].chan = c /\ req'[r].name = n
        /\ req'[r].num = file[c][n].by /\ req'[r].size = Len(file[c][n].chunks)
        /\ req'[r].got = <<>>
    <2>1. req'[r] = [Idle EXCEPT !.at = "send", !.chan = c, !.name = n,
                       !.num = file[c][n].by, !.size = Len(file[c][n].chunks)]
      BY <1>1 DEF ChannelInv, TypeOK
    <2>2. req'[r] = [at |-> "send", chan |-> c, name |-> n, num |-> file[c][n].by,
                     pos |-> 0, size |-> Len(file[c][n].chunks), got |-> <<>>]
      BY <2>1 DEF Idle
    <2>3. <<>> \in Chunks /\ 0 \in 0..MaxChunks /\ file[c][n].by \in Uploads
      BY <1>3 DEF Chunks, File
    <2> QED BY <1>3, <2>2, <2>3 DEF Req
  <1>5. \A q \in Request : q # r => req'[q] = req[q]
    BY <1>1 DEF ChannelInv, TypeOK
  <1>6. TypeOK'
    BY <1>1, <1>2, <1>4, <1>5 DEF ChannelInv, TypeOK
  <1>7. \A q \in Request : (Receiving(q))' => Receiving(q) /\ req'[q] = req[q]
    BY <1>4, <1>5 DEF Receiving
  <1>8. UploadsOK'
    BY <1>2, <1>3, <1>4, <1>5, <1>7 DEF ChannelInv, UploadsOK
  <1>9. SoloOK'
    BY <1>2, <1>7 DEF ChannelInv, SoloOK
  <1>10. SendersOK'
    <2>1. ASSUME NEW q \in Request, q # r, req'[q].at = "send"
          PROVE  req'[q] = req[q] /\ (Stored(q))' = Stored(q)
      BY <1>2, <1>5, <2>1 DEF Stored
    <2>2. /\ (Stored(r))' = file[c][n] /\ Len(req'[r].got) = 0 /\ DOMAIN req'[r].got = {}
      BY <1>2, <1>4 DEF Stored
    <2> QED BY <1>2, <1>3, <1>4, <2>1, <2>2 DEF ChannelInv, SendersOK
  <1> QED BY <1>6, <1>8, <1>9, <1>10 DEF ChannelInv

(* A chunk that is sent is the next one of a file that has it. *)
LEMMA SendSteps ==
  ASSUME ChannelInv, NEW r \in Request, SendChunk(r)
  PROVE  ChannelInv'
  <1> USE ChannelAssumption DEF ChannelAssumption
  <1> DEFINE i == Len(req[r].got) + 1
  <1>1. /\ req[r].at = "send" /\ i <= req[r].size /\ i <= Len(Stored(r).chunks)
        /\ req' = [req EXCEPT ![r].got = Append(@, Stored(r).chunks[i])]
        /\ UNCHANGED <<routes, file, begun, answer, solo>>
    BY DEF SendChunk
  <1>2. req[r] \in Req /\ req[r] # Idle
    BY <1>1 DEF ChannelInv, TypeOK, Idle
  <1>3. Stored(r) \in File /\ i \in 1..Len(Stored(r).chunks)
    BY <1>1, <1>2 DEF ChannelInv, TypeOK, UploadsOK, Stored, Req, Chunks
  <1>4. /\ req'[r].got = Append(req[r].got, Stored(r).chunks[i])
        /\ req'[r].got \in Chunks
        /\ req'[r].at = "send" /\ req'[r].chan = req[r].chan /\ req'[r].name = req[r].name
        /\ req'[r].num = req[r].num /\ req'[r].pos = req[r].pos /\ req'[r].size = req[r].size
        /\ req'[r] \in Req
    <2>1. req'[r] = [req[r] EXCEPT !.got = Append(@, Stored(r).chunks[i])]
      BY <1>1 DEF ChannelInv, TypeOK
    <2>2. Stored(r).chunks[i] \in {Hole} \cup Uploads
      BY <1>3 DEF File, Chunks
    <2>3. req[r].got \in Chunks /\ Append(req[r].got, Stored(r).chunks[i]) \in Chunks
      BY <1>2, <2>2 DEF Req, Chunks
    <2>4. req'[r] = [at |-> "send", chan |-> req[r].chan, name |-> req[r].name,
                     num |-> req[r].num, pos |-> req[r].pos, size |-> req[r].size,
                     got |-> Append(req[r].got, Stored(r).chunks[i])]
      <3> DEFINE sent == Append(req[r].got, Stored(r).chunks[i])
      <3>1. req'[r] = [req[r] EXCEPT !.got = sent]
        BY <2>1
      <3> HIDE DEF sent
      <3>2. req'[r] = [at |-> req[r].at, chan |-> req[r].chan, name |-> req[r].name,
                       num |-> req[r].num, pos |-> req[r].pos, size |-> req[r].size, got |-> sent]
        BY <1>2, <3>1 DEF Req
      <3> QED BY <1>1, <3>2 DEF sent
    <2> QED BY <1>2, <2>3, <2>4 DEF Req
  <1>5. \A q \in Request : q # r => req'[q] = req[q]
    BY <1>1 DEF ChannelInv, TypeOK
  <1>6. TypeOK'
    BY <1>1, <1>4, <1>5 DEF ChannelInv, TypeOK
  <1>7. \A q \in Request : (Receiving(q))' => Receiving(q) /\ req'[q] = req[q]
    BY <1>4, <1>5 DEF Receiving
  <1>8. UploadsOK'
    BY <1>1, <1>2, <1>4, <1>5, <1>7 DEF ChannelInv, UploadsOK
  <1>9. SoloOK'
    BY <1>1, <1>7 DEF ChannelInv, SoloOK
  <1>10. SendersOK'
    <2>1. (Stored(r))' = Stored(r)
      BY <1>1, <1>4 DEF Stored
    <2>2. /\ Len(req'[r].got) = i
          /\ \A k \in 1..i : req'[r].got[k] = IF k = i THEN Stored(r).chunks[i] ELSE req[r].got[k]
      BY <1>2, <1>4, <1>3 DEF Req, Chunks
    <2>3. Stored(r).by = req[r].num /\ req[r].num \in solo =>
            \A k \in 1..i : req'[r].got[k] = req[r].num
      <3> SUFFICES ASSUME Stored(r).by = req[r].num, req[r].num \in solo, NEW k \in 1..i
                   PROVE  req'[r].got[k] = req[r].num
        OBVIOUS
      <3>1. CASE k = i
        <4>1. req[r].chan \in ChannelId /\ req[r].name \in DOMAIN file[req[r].chan]
          BY <1>2 DEF ChannelInv, UploadsOK, Req
        <4>2. i \in DOMAIN Stored(r).chunks
          BY <1>3 DEF File, Chunks
        <4>3. Stored(r).chunks[i] = req[r].num
          BY <4>1, <4>2 DEF ChannelInv, SoloOK, Stored
        <4> QED BY <2>2, <3>1, <4>3
      <3>2. CASE k # i
        <4>1. k \in DOMAIN req[r].got
          BY <1>2, <3>2 DEF Req, Chunks
        <4>2. req[r].got[k] = req[r].num
          BY <1>1, <4>1 DEF ChannelInv, SendersOK
        <4> QED BY <2>2, <3>2, <4>2
      <3> QED BY <3>1, <3>2
    <2>4. ASSUME NEW q \in Request, q # r, req'[q].at = "send"
          PROVE  (Stored(q))' = Stored(q) /\ req'[q] = req[q]
      BY <1>1, <1>5, <2>4 DEF Stored
    <2>5. DOMAIN req'[r].got = 1..i
      BY <1>4, <2>2 DEF Chunks
    <2> QED BY <1>1, <1>4, <2>1, <2>2, <2>3, <2>4, <2>5 DEF ChannelInv, SendersOK
  <1> QED BY <1>6, <1>8, <1>9, <1>10 DEF ChannelInv

-----------------------------------------------------------------------------
(* Uploads.                                                                *)

(* An upload begins with a new number and an empty file, and its name has  *)
(* a file of its own from now on only if nobody else writes it.            *)
LEMMA UploadSteps ==
  ASSUME ChannelInv, NEW r \in Request, NEW c \in ChannelId, NEW n \in Name,
         UploadBegin(r, c, n)
  PROVE  ChannelInv'
  <1> USE ChannelAssumption DEF ChannelAssumption
  <1> DEFINE k == begun + 1
             new == [by |-> k, chunks |-> <<>>]
  <1>1. /\ begun < MaxUploads /\ req[r] = Idle /\ begun' = k
        /\ file' = [file EXCEPT ![c] = With(@, n, new)]
        /\ solo' = IF Writing(c, n) = {} THEN solo \cup {k} ELSE solo \ Writing(c, n)
        /\ UNCHANGED <<routes, answer>>
    BY DEF UploadBegin
  <1>2. k \in Uploads /\ begun \in Nat /\ begun < k
    BY <1>1 DEF ChannelInv, TypeOK, Uploads
  <1>3. req'[r] = [at |-> "receive", chan |-> c, name |-> n, num |-> k,
                   pos |-> 0, size |-> 0, got |-> <<>>]
    BY DEF UploadBegin, ChannelInv, TypeOK, Idle
  <1>4. \A q \in Request : q # r => req'[q] = req[q]
    BY DEF UploadBegin, ChannelInv, TypeOK
  <1>5. new \in File /\ Len(new.chunks) = 0 /\ new.by = k
    BY <1>2 DEF File, Chunks
  <1>6. \A d \in ChannelId : d # c => file'[d] = file[d]
    BY <1>1 DEF ChannelInv, TypeOK
  <1>7. /\ DOMAIN file'[c] = DOMAIN file[c] \cup {n} /\ file'[c][n] = new
        /\ \A m \in DOMAIN file[c] : m # n => file'[c][m] = file[c][m]
    BY <1>1 DEF ChannelInv, TypeOK, With
  <1>8. \A d \in ChannelId : \A m \in DOMAIN file'[d] :
          \/ d = c /\ m = n /\ file'[d][m] = new
          \/ m \in DOMAIN file[d] /\ file'[d][m] = file[d][m] /\ ~(d = c /\ m = n)
    BY <1>6, <1>7
  <1>9. TypeOK'
    <2>1. req'[r] \in Req /\ req' \in [Request -> {Idle} \cup Req]
      <3>1. req'[r] \in Req
        BY <1>2, <1>3 DEF Req, Chunks
      <3> QED BY <3>1 DEF UploadBegin, ChannelInv, TypeOK
    <2>2. DOMAIN file' = ChannelId
      BY <1>1 DEF ChannelInv, TypeOK
    <2>3. \A d \in ChannelId : \A m \in DOMAIN file'[d] :
            m \in Name /\ file'[d][m] \in File /\ Len(file'[d][m].chunks) <= MaxChunks
      BY <1>5, <1>8 DEF ChannelInv, TypeOK
    <2>4. begun' \in 0..MaxUploads /\ solo' \subseteq 1..begun'
      <3>1. solo' \subseteq solo \cup {k}
        BY <1>1
      <3>2. solo \subseteq 1..begun /\ begun \in 0..MaxUploads
        BY DEF ChannelInv, TypeOK
      <3>3. begun' = begun + 1 /\ begun + 1 \in 0..MaxUploads
        BY <1>1, <3>2
      <3> QED BY <3>1, <3>2, <3>3
    <2> QED BY <1>1, <2>1, <2>2, <2>3, <2>4 DEF ChannelInv, TypeOK
  <1>10. UploadsOK'
    <2>1. \A j \in Uploads : j > begun' => answer'[j] = NoAnswer
      BY <1>1, <1>2 DEF ChannelInv, UploadsOK, Uploads
    <2>2. \A d \in ChannelId : \A m \in DOMAIN file'[d] : file'[d][m].by <= begun'
      BY <1>1, <1>2, <1>5, <1>8 DEF ChannelInv, UploadsOK, TypeOK, File, Uploads
    <2>3. \A q \in Request : req'[q] # Idle =>
            req'[q].num <= begun' /\ req'[q].name \in DOMAIN file'[req'[q].chan]
      <3> SUFFICES ASSUME NEW q \in Request, req'[q] # Idle
                   PROVE  req'[q].num <= begun' /\ req'[q].name \in DOMAIN file'[req'[q].chan]
        OBVIOUS
      <3>1. CASE q = r
        BY <1>1, <1>2, <1>3, <1>7, <3>1
      <3>2. CASE q # r
        <4>1. req'[q] = req[q] /\ req[q] \in Req
          BY <1>4, <3>2 DEF ChannelInv, TypeOK
        <4>2. /\ req[q].num <= begun /\ req[q].num \in Nat
              /\ req[q].chan \in ChannelId /\ req[q].name \in DOMAIN file[req[q].chan]
          BY <4>1 DEF ChannelInv, UploadsOK, Req, Uploads
        <4> QED BY <1>1, <1>2, <1>6, <1>7, <4>1, <4>2
      <3> QED BY <3>1, <3>2
    <2>4. \A q \in Request : (Receiving(q))' =>
            \/ q = r
            \/ Receiving(q) /\ req'[q] = req[q] /\ req[q].num < k
               /\ req[q] \in Req /\ req[q] # Idle
      BY <1>2, <1>4 DEF Receiving, Idle, ChannelInv, UploadsOK, TypeOK, Req, Uploads
    <2>5. ASSUME NEW q \in Request, (Receiving(q))'
          PROVE  /\ answer'[req'[q].num] = NoAnswer
                 /\ \A p \in Request : (Receiving(p))' /\ req'[p].num = req'[q].num => p = q
                 /\ \A d \in ChannelId : \A m \in DOMAIN file'[d] :
                      file'[d][m].by = req'[q].num => d = req'[q].chan /\ m = req'[q].name
      <3>1. answer'[req'[q].num] = NoAnswer
        BY <1>1, <1>2, <1>3, <2>4, <2>5 DEF ChannelInv, UploadsOK
      <3>2. \A p \in Request : (Receiving(p))' /\ req'[p].num = req'[q].num => p = q
        BY <1>2, <1>3, <2>4, <2>5 DEF ChannelInv, UploadsOK, Req, Uploads
      <3>3. CASE q = r
        <4>1. \A d \in ChannelId : \A m \in DOMAIN file[d] : file[d][m].by # k
          BY <1>2 DEF ChannelInv, UploadsOK, TypeOK, File, Uploads
        <4> QED BY <1>3, <1>8, <3>1, <3>2, <3>3, <4>1
      <3>4. CASE q # r
        <4>1. Receiving(q) /\ req'[q] = req[q] /\ req[q].num < k /\ req[q].num # k
          BY <2>4, <2>5, <3>4, <1>2 DEF Req, Uploads
        <4>2. ASSUME NEW d \in ChannelId, NEW m \in DOMAIN file'[d], file'[d][m].by = req[q].num
              PROVE  d = req[q].chan /\ m = req[q].name
          BY <1>5, <1>8, <4>1, <4>2 DEF ChannelInv, UploadsOK
        <4> QED BY <3>1, <3>2, <4>1, <4>2
      <3> QED BY <3>3, <3>4
    <2> QED BY <2>1, <2>2, <2>3, <2>5 DEF UploadsOK
  <1>11. SoloOK'
    <2> SUFFICES ASSUME NEW d \in ChannelId, NEW m \in DOMAIN file'[d], file'[d][m].by \in solo'
                 PROVE  /\ \A i \in DOMAIN file'[d][m].chunks : file'[d][m].chunks[i] = file'[d][m].by
                        /\ answer'[file'[d][m].by] # NoAnswer
                             => Len(file'[d][m].chunks) = answer'[file'[d][m].by]
                        /\ \A q \in Request : (Receiving(q))' =>
                             /\ req'[q].chan = d /\ req'[q].name = m => req'[q].num = file'[d][m].by
                             /\ req'[q].num = file'[d][m].by => req'[q].pos = Len(file'[d][m].chunks)
      BY DEF SoloOK
    <2>1. \A q \in Request : (Receiving(q))' /\ q # r => Receiving(q) /\ req'[q] = req[q]
      BY <1>4 DEF Receiving
    <2>2. CASE d = c /\ m = n
      <3>1. file'[d][m] = new /\ k \in solo'
        BY <1>7, <2>2, <1>5
      <3>2. Writing(c, n) = {}
        BY <1>1, <1>2, <3>1 DEF ChannelInv, TypeOK
      <3>3. \A q \in Request : Receiving(q) => ~(req[q].chan = c /\ req[q].name = n)
        BY <3>2 DEF Writing, Receiving
      <3>4. \A q \in Request : Receiving(q) => req[q].num <= begun /\ req[q].num \in Nat
        BY DEF ChannelInv, UploadsOK, TypeOK, Receiving, Idle, Req, Uploads
      <3>5. answer'[k] = NoAnswer
        BY <1>1, <1>2 DEF ChannelInv, UploadsOK
      <3> QED BY <1>2, <1>3, <1>5, <2>1, <2>2, <3>1, <3>3, <3>4, <3>5
    <2>3. CASE ~(d = c /\ m = n)
      <3>1. m \in DOMAIN file[d] /\ file'[d][m] = file[d][m]
        BY <1>8, <2>3
      <3>2. file[d][m].by # k
        BY <1>2, <3>1 DEF ChannelInv, UploadsOK, TypeOK, File, Uploads
      <3>3. file[d][m].by \in solo
        BY <1>1, <3>1, <3>2
      <3> QED BY <1>1, <1>3, <2>1, <2>3, <3>1, <3>2, <3>3 DEF ChannelInv, SoloOK
    <2> QED BY <2>2, <2>3
  <1>12. SendersOK'
    <2> SUFFICES ASSUME NEW q \in Request, req'[q].at = "send"
                 PROVE  /\ Len(req'[q].got) <= req'[q].size
                        /\ (Stored(q))'.by = req'[q].num =>
                             /\ req'[q].size <= Len((Stored(q))'.chunks)
                             /\ req'[q].num \in solo' =>
                                  \A i \in DOMAIN req'[q].got : req'[q].got[i] = req'[q].num
      BY DEF SendersOK
    <2>1. req'[q] = req[q] /\ req[q].at = "send"
      BY <1>3, <1>4
    <2>2. /\ req[q] \in Req /\ req[q].num <= begun /\ req[q].num \in Nat
          /\ req[q].chan \in ChannelId /\ req[q].name \in DOMAIN file[req[q].chan]
      BY <2>1 DEF ChannelInv, UploadsOK, TypeOK, Idle, Req, Uploads
    <2>3. req[q].num \in solo' => req[q].num \in solo
      BY <1>1, <1>2, <2>2
    <2>4. \/ (Stored(q))' = Stored(q)
          \/ (Stored(q))'.by = k
      BY <1>5, <1>6, <1>7, <2>1, <2>2 DEF Stored
    <2> QED BY <1>2, <2>1, <2>2, <2>3, <2>4 DEF ChannelInv, SendersOK
  <1> QED BY <1>9, <1>10, <1>11, <1>12 DEF ChannelInv

(* A chunk goes to the request's own offset: where nobody else writes the  *)
(* file, that is its end.                                                  *)
LEMMA WriteSteps ==
  ASSUME ChannelInv, NEW r \in Request, WriteChunk(r)
  PROVE  ChannelInv'
  <1> USE ChannelAssumption DEF ChannelAssumption
  <1> DEFINE c == req[r].chan
             n == req[r].name
             old == file[c][n]
             at == req[r].pos + 1
             chunks == WriteAt(old.chunks, at, req[r].num)
  <1>1. /\ req[r].at = "receive" /\ req[r].pos < MaxChunks
        /\ req' = [req EXCEPT ![r].pos = @ + 1]
        /\ UNCHANGED <<routes, begun, answer, solo>>
    BY DEF WriteChunk
  <1>2. /\ req[r] \in Req /\ req[r] # Idle /\ c \in ChannelId /\ n \in DOMAIN file[c]
        /\ req[r].num \in Uploads /\ req[r].pos \in Nat
    BY <1>1 DEF ChannelInv, TypeOK, UploadsOK, Idle, Req
  <1>3. old \in File /\ old.chunks \in Chunks /\ Len(old.chunks) \in 0..MaxChunks /\ n \in Name
    BY <1>2 DEF ChannelInv, TypeOK, File, Chunks
  <1>4. /\ chunks \in Chunks
        /\ Len(chunks) = IF req[r].pos + 1 >= Len(old.chunks) THEN req[r].pos + 1 ELSE Len(old.chunks)
        /\ req[r].pos = Len(old.chunks) => chunks = Append(old.chunks, req[r].num)
    <2>1. at \in Nat \ {0}
      BY <1>2
    <2>2. /\ chunks \in Chunks
          /\ Len(chunks) = IF at >= Len(old.chunks) THEN at ELSE Len(old.chunks)
          /\ at = Len(old.chunks) + 1 => chunks = Append(old.chunks, req[r].num)
      <3>1. old.chunks \in Chunks /\ req[r].num \in Uploads
        BY <1>2, <1>3
      <3> HIDE DEF at, old
      <3> QED BY <2>1, <3>1, WriteAtIs
    <2> QED BY <2>2
  <1>5. Len(chunks) \in 0..MaxChunks /\ Len(old.chunks) <= Len(chunks)
    <2> HIDE DEF old
    <2> QED BY <1>1, <1>2, <1>3, <1>4
  <1>6. /\ DOMAIN file' = ChannelId
        /\ \A d \in ChannelId : DOMAIN file'[d] = DOMAIN file[d]
        /\ file'[c][n] = [old EXCEPT !.chunks = chunks]
        /\ \A d \in ChannelId : \A m \in DOMAIN file[d] :
             ~(d = c /\ m = n) => file'[d][m] = file[d][m]
    BY <1>2 DEF WriteChunk, ChannelInv, TypeOK
  <1> HIDE DEF chunks
  <1>7. file'[c][n] \in File /\ file'[c][n].by = old.by /\ file'[c][n].chunks = chunks
    BY <1>3, <1>4, <1>6 DEF File
  <1>8. /\ req'[r] \in Req /\ req'[r].at = "receive" /\ req'[r].chan = c /\ req'[r].name = n
        /\ req'[r].num = req[r].num /\ req'[r].pos = req[r].pos + 1 /\ req'[r] # Idle
    <2>1. req'[r] = [req[r] EXCEPT !.pos = @ + 1]
      BY <1>1 DEF ChannelInv, TypeOK
    <2> QED BY <1>1, <1>2, <2>1 DEF Req, Idle
  <1>9. \A q \in Request : q # r => req'[q] = req[q]
    BY <1>1 DEF ChannelInv, TypeOK
  <1>10. TypeOK'
    <2>1. \A d \in ChannelId : \A m \in DOMAIN file'[d] :
            m \in Name /\ file'[d][m] \in File /\ Len(file'[d][m].chunks) <= MaxChunks
      <3> TAKE d \in ChannelId
      <3> TAKE m \in DOMAIN file'[d]
      <3>1. CASE d = c /\ m = n
        BY <1>3, <1>5, <1>7, <3>1
      <3>2. CASE ~(d = c /\ m = n)
        <4>1. m \in DOMAIN file[d] /\ file'[d][m] = file[d][m]
          BY <1>6, <3>2
        <4> QED BY <4>1 DEF ChannelInv, TypeOK
      <3> QED BY <3>1, <3>2
    <2>2. req' \in [Request -> {Idle} \cup Req]
      BY <1>1, <1>8, <1>9 DEF ChannelInv, TypeOK
    <2> QED BY <1>1, <1>6, <2>1, <2>2 DEF ChannelInv, TypeOK
  <1>11. \A d \in ChannelId : \A m \in DOMAIN file[d] : file'[d][m].by = file[d][m].by
    BY <1>6, <1>7
  <1>12. \A q \in Request : /\ (Receiving(q))' <=> Receiving(q)
                            /\ req'[q].num = req[q].num /\ req'[q].at = req[q].at
                            /\ req'[q].chan = req[q].chan /\ req'[q].name = req[q].name
                            /\ req'[q] # Idle <=> req[q] # Idle
    BY <1>1, <1>2, <1>8, <1>9 DEF Receiving
  <1>13. UploadsOK'
    <2>1. \A q \in Request : req[q] # Idle => req[q].chan \in ChannelId
      BY DEF ChannelInv, TypeOK, Req
    <2> QED BY <1>1, <1>6, <1>11, <1>12, <2>1 DEF ChannelInv, UploadsOK, Receiving, Idle
  <1>14. SoloOK'
    <2> SUFFICES ASSUME NEW d \in ChannelId, NEW m \in DOMAIN file[d], file[d][m].by \in solo
                 PROVE  /\ \A i \in DOMAIN file'[d][m].chunks : file'[d][m].chunks[i] = file[d][m].by
                        /\ answer[file[d][m].by] # NoAnswer
                             => Len(file'[d][m].chunks) = answer[file[d][m].by]
                        /\ \A q \in Request : Receiving(q) =>
                             /\ req[q].chan = d /\ req[q].name = m => req[q].num = file[d][m].by
                             /\ req[q].num = file[d][m].by => req'[q].pos = Len(file'[d][m].chunks)
      BY <1>1, <1>6, <1>11, <1>12 DEF SoloOK
    <2>1. CASE d = c /\ m = n
      <3>1. req[r].num = old.by /\ req[r].pos = Len(old.chunks) /\ answer[old.by] = NoAnswer
        BY <1>1, <2>1 DEF ChannelInv, SoloOK, UploadsOK, Receiving
      <3>2. \A i \in DOMAIN chunks : chunks[i] = old.by
        <4>1. \A i \in DOMAIN old.chunks : old.chunks[i] = old.by
          BY <1>2, <2>1 DEF ChannelInv, SoloOK
        <4>2. chunks = Append(old.chunks, old.by)
          BY <1>4, <3>1
        <4> HIDE DEF old
        <4> QED BY <1>3, <4>1, <4>2 DEF Chunks
      <3>3. \A q \in Request : Receiving(q) /\ req[q].num = old.by => q = r
        BY <1>1, <3>1 DEF ChannelInv, UploadsOK, Receiving
      <3>4. Len(chunks) = req[r].pos + 1
        <4> HIDE DEF old
        <4> QED BY <1>2, <1>4, <3>1
      <3> QED BY <1>7, <1>8, <2>1, <3>1, <3>2, <3>3, <3>4 DEF ChannelInv, SoloOK
    <2>2. CASE ~(d = c /\ m = n)
      <3>1. file'[d][m] = file[d][m]
        BY <1>6, <2>2
      <3>2. file[d][m].by # req[r].num
        BY <1>1, <2>2 DEF ChannelInv, UploadsOK, Receiving
      <3> QED BY <1>9, <3>1, <3>2 DEF ChannelInv, SoloOK
    <2> QED BY <2>1, <2>2
  <1>15. SendersOK'
    <2> SUFFICES ASSUME NEW q \in Request, req[q].at = "send"
                 PROVE  /\ Len(req'[q].got) <= req'[q].size
                        /\ (Stored(q))'.by = req'[q].num =>
                             /\ req'[q].size <= Len((Stored(q))'.chunks)
                             /\ req'[q].num \in solo =>
                                  \A i \in DOMAIN req'[q].got : req'[q].got[i] = req'[q].num
      BY <1>1, <1>12 DEF SendersOK
    <2>1. req'[q] = req[q]
      BY <1>1, <1>9
    <2>2. /\ req[q] \in Req /\ req[q].chan \in ChannelId /\ req[q].name \in DOMAIN file[req[q].chan]
      BY DEF ChannelInv, UploadsOK, TypeOK, Idle, Req
    <2>3. /\ (Stored(q))'.by = Stored(q).by
          /\ Len(Stored(q).chunks) \in Nat
          /\ Len((Stored(q))'.chunks) \in Nat
          /\ Len(Stored(q).chunks) <= Len((Stored(q))'.chunks)
      <3>1. CASE req[q].chan = c /\ req[q].name = n
        BY <1>3, <1>5, <1>7, <2>1, <3>1 DEF Stored
      <3>2. CASE ~(req[q].chan = c /\ req[q].name = n)
        <4>1. (Stored(q))' = Stored(q)
          BY <1>6, <2>1, <2>2, <3>2 DEF Stored
        <4>2. Stored(q) \in File
          BY <2>2 DEF Stored, ChannelInv, TypeOK
        <4> QED BY <4>1, <4>2 DEF File, Chunks
      <3> QED BY <3>1, <3>2
    <2>4. req[q].size \in Nat
      BY <2>2 DEF Req
    <2> QED BY <2>1, <2>3, <2>4 DEF ChannelInv, SendersOK
  <1> QED BY <1>10, <1>13, <1>14, <1>15 DEF ChannelInv

(* An upload is answered with the number of chunks it wrote. *)
LEMMA EndSteps ==
  ASSUME ChannelInv, NEW r \in Request, UploadEnd(r)
  PROVE  ChannelInv'
  <1> USE ChannelAssumption DEF ChannelAssumption
  <1>1. /\ req[r].at = "receive"
        /\ answer' = [answer EXCEPT ![req[r].num] = req[r].pos]
        /\ req' = [req EXCEPT ![r] = Idle]
        /\ UNCHANGED <<routes, file, begun, solo>>
    BY DEF UploadEnd
  <1>2. /\ req[r] \in Req /\ req[r] # Idle /\ req[r].num \in Uploads /\ req[r].num <= begun
        /\ req[r].pos \in 0..MaxChunks
    BY <1>1 DEF ChannelInv, TypeOK, UploadsOK, Idle, Req
  <1>3. req'[r] = Idle /\ \A q \in Request : q # r => req'[q] = req[q]
    BY <1>1 DEF ChannelInv, TypeOK
  <1>4. /\ answer'[req[r].num] = req[r].pos
        /\ \A k \in Uploads : k # req[r].num => answer'[k] = answer[k]
        /\ answer' \in [Uploads -> NoAnswer..MaxChunks]
    BY <1>1, <1>2 DEF ChannelInv, TypeOK, NoAnswer
  <1>5. TypeOK'
    BY <1>1, <1>3, <1>4 DEF ChannelInv, TypeOK
  <1>6. \A q \in Request : (Receiving(q))' =>
          Receiving(q) /\ req'[q] = req[q] /\ q # r /\ req[q].num # req[r].num /\ req[q] \in Req
    BY <1>1, <1>3 DEF Receiving, Idle, ChannelInv, UploadsOK, TypeOK
  <1>7. UploadsOK'
    <2>1. \A k \in Uploads : k > begun' => answer'[k] = NoAnswer
      BY <1>1, <1>2, <1>4 DEF ChannelInv, UploadsOK, TypeOK, Uploads
    <2>2. \A q \in Request : (Receiving(q))' => answer'[req'[q].num] = NoAnswer
      BY <1>4, <1>6 DEF ChannelInv, UploadsOK, Req
    <2> QED BY <1>1, <1>3, <1>6, <2>1, <2>2 DEF ChannelInv, UploadsOK
  <1>8. SoloOK'
    <2> SUFFICES ASSUME NEW d \in ChannelId, NEW m \in DOMAIN file[d], file[d][m].by \in solo
                 PROVE  /\ \A i \in DOMAIN file[d][m].chunks : file[d][m].chunks[i] = file[d][m].by
                        /\ answer'[file[d][m].by] # NoAnswer
                             => Len(file[d][m].chunks) = answer'[file[d][m].by]
                        /\ \A q \in Request : (Receiving(q))' =>
                             /\ req'[q].chan = d /\ req'[q].name = m => req'[q].num = file[d][m].by
                             /\ req'[q].num = file[d][m].by => req'[q].pos = Len(file[d][m].chunks)
      BY <1>1 DEF SoloOK
    <2>1. answer'[file[d][m].by] # NoAnswer => Len(file[d][m].chunks) = answer'[file[d][m].by]
      <3>1. CASE file[d][m].by = req[r].num
        BY <1>1, <1>4, <3>1 DEF ChannelInv, SoloOK, Receiving
      <3>2. CASE file[d][m].by # req[r].num
        <4>1. file[d][m].by \in Uploads
          BY DEF ChannelInv, TypeOK, File
        <4> QED BY <1>4, <3>2, <4>1 DEF ChannelInv, SoloOK
      <3> QED BY <3>1, <3>2
    <2> QED BY <1>6, <2>1 DEF ChannelInv, SoloOK
  <1>9. SendersOK'
    BY <1>1, <1>3 DEF ChannelInv, SendersOK, Stored, Idle
  <1> QED BY <1>5, <1>7, <1>8, <1>9 DEF ChannelInv

-----------------------------------------------------------------------------
(* The theorems.                                                           *)

(* An empty bridge is in the invariant. *)
LEMMA Initially == Init => ChannelInv
  <1> USE ChannelAssumption DEF ChannelAssumption
  <1> SUFFICES ASSUME Init PROVE ChannelInv
    OBVIOUS
  <1>1. \A c \in ChannelId : DOMAIN file[c] = {}
    BY DEF Init
  <1>2. TypeOK
    BY <1>1 DEF Init, TypeOK, Uploads, NoAnswer
  <1>3. \A r \in Request : req[r] = Idle /\ ~Receiving(r) /\ req[r].at # "send"
    BY DEF Init, Idle, Receiving
  <1>4. UploadsOK
    BY <1>1, <1>3 DEF Init, UploadsOK
  <1>5. SoloOK
    BY <1>1 DEF SoloOK
  <1>6. SendersOK
    BY <1>3 DEF SendersOK
  <1> QED BY <1>2, <1>4, <1>5, <1>6 DEF ChannelInv

(* Every step keeps it. *)
LEMMA InvariantKept ==
  ASSUME ChannelInv, [Next]_vars
  PROVE  ChannelInv'
  <1> USE DEF ChannelInv, TypeOK
  <1>1. ASSUME NEW c \in ChannelId, OpenUploadChannel(c) \/ OpenDownloadChannel(c)
        PROVE  ChannelInv'
    BY <1>1, RequestsGone DEF OpenUploadChannel, OpenDownloadChannel
  <1>2. ASSUME NEW x \in routes, RouteExpires(x)
        PROVE  ChannelInv'
    BY <1>2, RequestsGone DEF RouteExpires
  <1>3. ASSUME NEW r \in Request, RequestEnds(r)
        PROVE  ChannelInv'
    BY <1>3, RequestsGone DEF RequestEnds
  <1>4. CASE ServerRestarts
    BY <1>4, RequestsGone DEF ServerRestarts
  <1>5. CASE UNCHANGED vars
    BY <1>5, RequestsGone DEF vars
  <1>6. ASSUME NEW r \in Request,
               \/ \E c \in ChannelId : DownloadBegin(r, c) \/ \E n \in Name : UploadBegin(r, c, n)
               \/ WriteChunk(r) \/ UploadEnd(r) \/ SendChunk(r)
        PROVE  ChannelInv'
    BY <1>6, DownloadSteps, UploadSteps, WriteSteps, EndSteps, SendSteps
  <1> QED BY <1>1, <1>2, <1>3, <1>4, <1>5, <1>6 DEF Next

(* Whatever the callers, the connections and the server do, the invariant  *)
(* holds.                                                                  *)
THEOREM ChannelInvariance == Spec => []ChannelInv
  <1>1. Init => ChannelInv
    BY Initially
  <1>2. ChannelInv /\ [Next]_vars => ChannelInv'
    BY InvariantKept
  <1> QED BY <1>1, <1>2, PTL DEF Spec

(* Files, requests and answers are what the steps take them for. *)
THEOREM ChannelTypes == Spec => []TypeOK
  <1>1. ChannelInv => TypeOK
    BY DEF ChannelInv
  <1> QED BY <1>1, ChannelInvariance, PTL

(* An upload that had its file to itself and was answered "stored" is on   *)
(* disk as answered, until another upload of the name begins.              *)
THEOREM AnsweredIsStored == Spec => []StoredAsAnswered
  <1>1. ChannelInv => StoredAsAnswered
    <2> SUFFICES ASSUME ChannelInv, NEW c \in ChannelId, NEW n \in DOMAIN file[c],
                        file[c][n].by \in solo, answer[file[c][n].by] # NoAnswer
                 PROVE  file[c][n].chunks = [i \in 1..answer[file[c][n].by] |-> file[c][n].by]
      BY DEF StoredAsAnswered
    <2>1. file[c][n].chunks \in Chunks
      BY DEF ChannelInv, TypeOK, File
    <2>2. /\ Len(file[c][n].chunks) = answer[file[c][n].by]
          /\ \A i \in DOMAIN file[c][n].chunks : file[c][n].chunks[i] = file[c][n].by
      BY DEF ChannelInv, SoloOK
    <2> QED BY <2>1, <2>2 DEF Chunks
  <1> QED BY <1>1, ChannelInvariance, PTL

(* A download of a file that only its own, finished upload has written     *)
(* announces its true length at most and sends its chunks in order.        *)
THEOREM DownloadsFaithful == Spec => []DownloadFaithful
  <1>1. ChannelInv => DownloadFaithful
    <2> SUFFICES ASSUME ChannelInv, NEW r \in Request, req[r].at = "send",
                        Stored(r).by = req[r].num, req[r].num \in solo
                 PROVE  /\ req[r].size <= Len(Stored(r).chunks)
                        /\ IsPrefix(req[r].got, Stored(r).chunks)
      BY DEF DownloadFaithful
    <2> DEFINE got == req[r].got
               chunks == Stored(r).chunks
    <2>1. /\ req[r] \in Req /\ req[r].chan \in ChannelId
          /\ req[r].name \in DOMAIN file[req[r].chan]
      BY DEF ChannelInv, UploadsOK, TypeOK, Idle, Req
    <2>2. got \in Chunks /\ chunks \in Chunks /\ req[r].size \in Nat
      BY <2>1 DEF ChannelInv, TypeOK, Stored, File, Req
    <2>3. /\ Len(got) <= req[r].size /\ req[r].size <= Len(chunks)
          /\ \A i \in DOMAIN got : got[i] = req[r].num
      BY DEF ChannelInv, SendersOK
    <2>4. \A i \in DOMAIN chunks : chunks[i] = req[r].num
      BY <2>1 DEF ChannelInv, SoloOK, Stored
    <2>5. Len(got) <= Len(chunks) /\ \A i \in 1..Len(got) : got[i] = chunks[i]
      <3> HIDE DEF got, chunks
      <3> QED BY <2>2, <2>3, <2>4 DEF Chunks
    <2>6. IsPrefix(got, chunks)
      <3> HIDE DEF got, chunks
      <3> QED BY <2>2, <2>5 DEF IsPrefix, Chunks
    <2> QED BY <2>3, <2>6
  <1> QED BY <1>1, ChannelInvariance, PTL
=============================================================================
