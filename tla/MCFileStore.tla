---------------------------- MODULE MCFileStore ----------------------------
(* Instances of FileStore: a directory "d", a file or directory "f" in it, *)
(* "z" for "d.tmp.tar.gz", and the temporary names "t" for "d.tmp", "ft"   *)
(* for "f.tmp" and "zt" for "d.tmp.tar.gz.tmp".                            *)
EXTENDS FileStoreInv

CONSTANTS n1, n2, n3, n4, n5, n6, n7, n8, n9

Inodes == <<n1, n2, n3, n4, n5, n6, n7, n8, n9>>
MCInode == ToSet(Inodes)

Names == {"d", "f", "z", "t", "ft", "zt"}
MCTmpName == [n \in Names |-> CASE n = "d" -> "t" [] n = "z" -> "zt" [] OTHER -> "ft"]
MCStemName == [n \in Names |-> IF n = "z" THEN "t" ELSE n]

d == <<"d">>
z == <<"z">>
MCPath ==
  {Root} \cup {<<n>> : n \in Names}
    \cup {x \o <<n>> : x \in {d, z, <<"t">>, <<"d", "d">>, <<"t", "d">>}, n \in {"d", "f"}}
    \cup {<<"d", "ft">>, <<"d", "z">>, <<"d", "f", "f">>, <<"d", "z", "f">>}

MCAsked == {d, z, <<"d", "f">>}

(* What callers send: data, an archive whose second member is bad and, as  *)
(* an artifact, a good one.                                                *)
Sent(kind, name) == Member(kind, "sent", name, <<Data("sent")>>)
Bundle(members) == Append(members, End("sent"))
Good == Bundle(<<Sent("file", <<"f">>)>>)
Bad == Bundle(<<Sent("file", <<"f">>), Sent("bad", <<>>)>>)
MCPayloads ==
  [j \in Job |-> [store |-> {<<Data(j), Data(j)>>}, unpack |-> {Bad},
                  unpack_artifact |-> {Good}]]

(* What the tree may hold at first: nothing; a directory of two files and  *)
(* an archive; a directory of a file and an empty directory; only files.   *)
old == File(<<Data("old"), Data("old")>>)
Start ==
  LET root == Root :> Directory
      f == <<"d", "f">> :> old
  IN  {root,
       root @@ d :> Directory @@ f @@ <<"d", "d">> :> old @@ z :> File(Good),
       root @@ d :> Directory @@ f @@ <<"d", "d">> :> Directory,
       root @@ d :> old @@ z :> old}

(* The inodes of a tree are numbered. *)
WithInodes(t) ==
  LET paths == SetToSeq(DOMAIN t)
      Number(x) == CHOOSE i \in DOMAIN paths : paths[i] = x
  IN  [tree |-> [x \in DOMAIN t |-> Inodes[Number(x)]],
       node |-> [n \in MCInode |->
                   IF \E x \in DOMAIN t : Inodes[Number(x)] = n
                     THEN t[CHOOSE x \in DOMAIN t : Inodes[Number(x)] = n]
                     ELSE File(<<>>)]]

MCTrees == {WithInodes(t) : t \in Start}

(* Sequences and, down to the third level, those inside of them. *)
Inside(S) ==
  S \cup UNION {{s[n].blocks : n \in {k \in DOMAIN s : s[k].kind \in MemberKind}} : s \in S}
Within(S) == Inside(Inside(Inside(S)))

(* Every block of an archive is the one that its job has packed: with this *)
(* set GenuineInv holds.                                                   *)
GenuineInside == AllGenuine(Within(Contents))

(* No caller sends, and no file is there at first, that pretends to be     *)
(* made by one of the jobs: of all runs with such files, RoundTrips.       *)
Given ==
  Within(UNION {Payloads[j][op] : j \in Job, op \in StoreOp}
           \cup UNION {{t.node[i].blocks : i \in Inode} : t \in Trees})
ASSUME GivenIsForeign == Foreign(Given)

Symmetry == Permutations(Job)
=============================================================================
