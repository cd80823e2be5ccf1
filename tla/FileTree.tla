------------------------------ MODULE FileTree ------------------------------
(***************************************************************************)
(* The storage tree and the file-system calls that the handlers make       *)
(* through pathlib, os and shutil.  A name leads to an inode, so a process *)
(* that holds a file or a directory open keeps hold of it when it is       *)
(* renamed or unlinked.  Symbolic links and special files are left out:    *)
(* no handler makes any.                                                   *)
(***************************************************************************)
EXTENDS Integers, SequencesExt

CONSTANTS
  Path,       \* the paths of the tree, sequences of names: a bound
  Inode       \* files and directories

Root == <<>>    \* STORAGE_PATH itself

Name == UNION {Range(x) : x \in Path}

ASSUME PathAssumption ==
  /\ Root \in Path
  /\ \A x \in Path : x \in Seq(Range(x))
  /\ \A x \in Path : \A n \in 0..Len(x) : SubSeq(x, 1, n) \in Path

VARIABLES
  tree,       \* tree[x]: the inode linked at path x, for the paths there are
  node        \* node[i]: what inode i is, a directory or a file of blocks

Directory == [dir |-> TRUE, blocks |-> <<>>]
File(blocks) == [dir |-> FALSE, blocks |-> blocks]

-----------------------------------------------------------------------------
Exists(x) == x \in DOMAIN tree
IsDir(x) == Exists(x) /\ node[tree[x]].dir
IsFile(x) == Exists(x) /\ ~node[tree[x]].dir
Blocks(x) == node[tree[x]].blocks

Below(x, y) == IsStrictPrefix(y, x)
Under(x, y) == IsPrefix(y, x)
Above(x) == {SubSeq(x, 1, n) : n \in 0..Len(x) - 1}
Children(x) == {y \in DOMAIN tree \ {Root} : Front(y) = x}

(* The path of y in place of its prefix x. *)
Rebased(y, x, z) == z \o SubSeq(y, Len(x) + 1, Len(y))

(* What a path shows to those who look. *)
At(x) == IF Exists(x) THEN <<tree[x], node[tree[x]]>> ELSE <<>>

IsNode(r) ==
  /\ r = [dir |-> r.dir, blocks |-> r.blocks]
  /\ r.dir \in BOOLEAN
  /\ r.blocks \in Seq(Range(r.blocks))

(* Every path that exists lies in directories all the way up, and there    *)
(* are no hard links.                                                      *)
IsTree(t, n) ==
  /\ DOMAIN t \subseteq Path
  /\ t \in [DOMAIN t -> Inode]
  /\ IsInjective(t)
  /\ \A x \in DOMAIN t : \A y \in Above(x) : y \in DOMAIN t /\ n[t[y]].dir
  /\ DOMAIN n = Inode
  /\ \A i \in Inode : IsNode(n[i])

TreeOK == IsTree(tree, node)

-----------------------------------------------------------------------------
(* New inodes for the paths of S: an inode stays in use while it is linked *)
(* or one of those held open.  Inode bounds how many there are.            *)
Fresh(S, held) ==
  {f \in [S -> Inode \ (Range(tree) \cup held)] : IsInjective(f)}

LinkNew(S, held, content) ==
  LET new == CHOOSE f \in Fresh(S, held) : TRUE
  IN  /\ Fresh(S, held) # {}
      /\ tree' = [x \in DOMAIN tree \cup S |-> IF x \in S THEN new[x] ELSE tree[x]]
      /\ node' = [i \in Inode |-> IF i \in Range(new) THEN content ELSE node[i]]

(* mkdir(parents=True, exist_ok=True) *)
CanMkdir(x) == \A y \in {x} \cup Above(x) : ~IsFile(y)
Mkdir(x, held) == LinkNew(({x} \cup Above(x)) \ DOMAIN tree, held, Directory)

(* open(x, "wb"): the file is created, or truncated in place. *)
CanCreate(x) == ~IsDir(x) /\ IsDir(Front(x))
Create(x, held) ==
  IF Exists(x) THEN node' = [node EXCEPT ![tree[x]].blocks = <<>>] /\ UNCHANGED tree
               ELSE LinkNew({x}, held, File(<<>>))

(* A block goes to the writer's own offset; what lies between the end of   *)
(* the file and that offset reads as zeros.                                *)
WriteAt(blocks, i, b, hole) ==
  [k \in 1..Max({i, Len(blocks)}) |->
     IF k = i THEN b ELSE IF k <= Len(blocks) THEN blocks[k] ELSE hole]

(* unlink, rmdir *)
Unlinked(x) == tree' = Restrict(tree, DOMAIN tree \ {x}) /\ UNCHANGED node

(* rename(x, y), which replaces a file by a file and an empty directory by *)
(* a directory, and does not move a directory into itself.                 *)
CanRename(x, y) ==
  /\ Exists(x) /\ y # Root /\ IsDir(Front(y)) /\ ~Below(y, x)
  /\ \/ x = y
     \/ IsFile(x) /\ ~IsDir(y)
     \/ IsDir(x) /\ ~IsFile(y) /\ Children(y) = {}

Rename(x, y) ==
  LET kept == {z \in DOMAIN tree : ~Under(z, x) /\ ~Under(z, y)}
      moved == {z \in Path : Under(z, y) /\ Exists(Rebased(z, y, x))}
  IN  /\ tree' = [z \in kept \cup moved |->
                    IF Under(z, y) THEN tree[Rebased(z, y, x)] ELSE tree[z]]
      /\ UNCHANGED node
=============================================================================
