--------------------------- MODULE FileTree_proofs ---------------------------
(***************************************************************************)
(* Proofs about FileTree, for any paths and inodes: what prefixes of paths *)
(* are, that the calls of the file system keep the tree a tree, and what   *)
(* else they leave as it is.                                               *)
(***************************************************************************)
EXTENDS FileTree, SequenceTheorems, TLAPS

-----------------------------------------------------------------------------
(* Paths.                                                                  *)

(* A path is a sequence of names. *)
LEMMA PathIsSeq ==
  ASSUME NEW x \in Path
  PROVE  /\ x \in Seq(Name)
         /\ Len(x) \in Nat /\ DOMAIN x = 1..Len(x)
         /\ \A n \in 0..Len(x) : SubSeq(x, 1, n) \in Path
  <1>1. x \in Seq(Range(x)) /\ \A n \in 0..Len(x) : SubSeq(x, 1, n) \in Path
    BY PathAssumption
  <1>2. Range(x) \subseteq Name
    BY DEF Name
  <1>3. x \in Seq(Name)
    BY <1>1, <1>2, SeqMonotonic
  <1> QED BY <1>1, <1>3, LenProperties

(* Two paths are equal when they agree in length and at every place. *)
LEMMA PathsEqual ==
  ASSUME NEW x \in Seq(Name), NEW y \in Seq(Name), Len(x) = Len(y),
         \A i \in 1..Len(x) : x[i] = y[i]
  PROVE  x = y
  BY SeqEqual

(* The first n names of a path. *)
LEMMA PrefixIs ==
  ASSUME NEW x \in Seq(Name), NEW n \in Nat, n <= Len(x)
  PROVE  /\ SubSeq(x, 1, n) \in Seq(Name)
         /\ Len(SubSeq(x, 1, n)) = n
         /\ \A i \in 1..n : SubSeq(x, 1, n)[i] = x[i]
  <1>1. \A i \in 1..n : x[i] \in Name
    BY ElementOfSeq, LenProperties
  <1>2. /\ SubSeq(x, 1, n) \in Seq(Name)
        /\ Len(SubSeq(x, 1, n)) = IF 1 <= n THEN n - 1 + 1 ELSE 0
        /\ \A i \in 1..n - 1 + 1 : SubSeq(x, 1, n)[i] = x[1 + i - 1]
    BY <1>1, SubSeqProperties
  <1> QED BY <1>2

(* To lie at or below a path is to begin with its names. *)
LEMMA UnderIs ==
  ASSUME NEW x \in Seq(Name), NEW y \in Seq(Name)
  PROVE  /\ Under(x, y) <=> Len(y) <= Len(x) /\ \A i \in 1..Len(y) : x[i] = y[i]
         /\ Below(x, y) <=> Under(x, y) /\ Len(y) < Len(x)
  <1>1. Len(x) \in Nat /\ Len(y) \in Nat
    BY LenProperties
  <1>2. SubSeq(y, 1, Len(y)) = y
    BY SubSeqFull
  <1>3. ASSUME Len(y) <= Len(x)
        PROVE  y = SubSeq(x, 1, Len(y)) <=> \A i \in 1..Len(y) : x[i] = y[i]
    <2> DEFINE z == SubSeq(x, 1, Len(y))
    <2>1. z \in Seq(Name) /\ Len(z) = Len(y) /\ \A i \in 1..Len(y) : z[i] = x[i]
      BY <1>1, <1>3, PrefixIs
    <2> HIDE DEF z
    <2>2. (\A i \in 1..Len(y) : x[i] = y[i]) => y = z
      BY <2>1, PathsEqual
    <2>3. y = z => \A i \in 1..Len(y) : x[i] = y[i]
      BY <2>1
    <2> QED BY <2>2, <2>3 DEF z
  <1>4. Under(x, y) <=> Len(y) <= Len(x) /\ \A i \in 1..Len(y) : x[i] = y[i]
    BY <1>2, <1>3 DEF Under, IsPrefix
  <1>5. Below(x, y) <=> Under(x, y) /\ x # y
    BY DEF Below, Under, IsStrictPrefix
  <1>6. Under(x, y) /\ x # y => Len(y) < Len(x)
    BY <1>1, <1>4, PathsEqual
  <1> QED BY <1>1, <1>4, <1>5, <1>6

(* Paths below one another are ordered, and those above one path are in    *)
(* line.                                                                   *)
LEMMA UnderOrder ==
  ASSUME NEW x \in Seq(Name), NEW y \in Seq(Name), NEW z \in Seq(Name)
  PROVE  /\ Under(x, x) /\ Under(x, Root) /\ ~Below(x, x) /\ ~Below(Root, x)
         /\ Below(x, y) <=> Under(x, y) /\ x # y
         /\ Under(x, y) /\ Under(y, z) => Under(x, z)
         /\ Below(x, y) /\ Under(y, z) => Below(x, z)
         /\ Under(x, y) /\ Below(y, z) => Below(x, z)
         /\ Under(z, x) /\ Under(z, y) => Under(x, y) \/ Below(y, x)
  <1>1. Len(x) \in Nat /\ Len(y) \in Nat /\ Len(z) \in Nat /\ Root \in Seq(Name) /\ Len(Root) = 0
    BY LenProperties, EmptySeq DEF Root
  <1>2. Under(x, x) /\ Under(x, Root) /\ ~Below(x, x) /\ ~Below(Root, x)
    <2>1. Under(x, x) /\ ~Below(x, x)
      BY <1>1, UnderIs
    <2>2. ASSUME NEW r \in Seq(Name), Len(r) = 0
          PROVE  Under(x, r) /\ ~Below(r, x)
      <3>1. Len(r) <= Len(x) /\ \A i \in 1..Len(r) : x[i] = r[i]
        BY <1>1, <2>2
      <3>2. ~(Len(x) < Len(r))
        BY <1>1, <2>2
      <3>3. Under(x, r)
        BY <3>1, UnderIs
      <3> QED BY <3>2, <3>3, UnderIs
    <2> QED BY <1>1, <2>1, <2>2
  <1>3. Below(x, y) <=> Under(x, y) /\ x # y
    BY DEF Below, Under, IsStrictPrefix
  <1>4. /\ Under(x, y) /\ Under(y, z) => Under(x, z)
        /\ Below(x, y) /\ Under(y, z) => Below(x, z)
        /\ Under(x, y) /\ Below(y, z) => Below(x, z)
    BY <1>1, UnderIs
  <1>5. Under(z, x) /\ Under(z, y) => Under(x, y) \/ Below(y, x)
    <2> SUFFICES ASSUME Under(z, x), Under(z, y) PROVE Under(x, y) \/ Below(y, x)
      OBVIOUS
    <2>1. /\ \A i \in 1..Len(x) : z[i] = x[i]
          /\ \A i \in 1..Len(y) : z[i] = y[i]
      BY UnderIs
    <2>2. CASE Len(y) <= Len(x)
      BY <1>1, <2>1, <2>2, UnderIs
    <2>3. CASE Len(x) < Len(y)
      BY <1>1, <2>1, <2>3, UnderIs
    <2> QED BY <1>1, <2>2, <2>3
  <1> QED BY <1>2, <1>3, <1>4, <1>5

(* The parent of a path is the last one above it. *)
LEMMA FrontIs ==
  ASSUME NEW x \in Path, x # Root
  PROVE  /\ Front(x) \in Path /\ Below(x, Front(x))
         /\ Last(x) \in Name
         /\ \A y \in Path : Below(x, y) => Under(Front(x), y)
  <1>1. x \in Seq(Name) /\ Len(x) \in Nat \ {0}
    BY PathIsSeq, EmptySeq DEF Root
  <1>2. /\ Front(x) \in Seq(Name) /\ Len(Front(x)) = Len(x) - 1
        /\ \A i \in 1..Len(x) - 1 : Front(x)[i] = x[i]
    <2> DEFINE n == Len(x) - 1
    <2>1. n \in Nat /\ n <= Len(x)
      BY <1>1
    <2>2. Front(x) = SubSeq(x, 1, n)
      BY DEF Front
    <2> HIDE DEF n
    <2>3. /\ Front(x) \in Seq(Name) /\ Len(Front(x)) = n
          /\ \A i \in 1..n : Front(x)[i] = x[i]
      BY <1>1, <2>1, <2>2, PrefixIs
    <2> QED BY <2>3 DEF n
  <1>3. Front(x) \in Path
    BY <1>1, PathIsSeq DEF Front
  <1>4. Below(x, Front(x))
    BY <1>1, <1>2, UnderIs
  <1>5. ASSUME NEW y \in Path, Below(x, y)
        PROVE  Under(Front(x), y)
    <2>1. y \in Seq(Name) /\ Len(y) \in Nat
      BY PathIsSeq
    <2>2. Len(y) < Len(x) /\ \A i \in 1..Len(y) : x[i] = y[i]
      BY <1>1, <1>5, <2>1, UnderIs
    <2> QED BY <1>1, <1>2, <2>1, <2>2, UnderIs
  <1>6. Last(x) \in Name
    BY <1>1, ElementOfSeq DEF Last
  <1> QED BY <1>3, <1>4, <1>5, <1>6

(* What lies below a path lies at or below a path whose parent it is. *)
LEMMA ChildTowards ==
  ASSUME NEW z \in Path, NEW x \in Path, Below(z, x)
  PROVE  \E y \in Path : y # Root /\ Front(y) = x /\ Under(z, y) /\ Below(y, x)
  <1>1. z \in Seq(Name) /\ Len(z) \in Nat /\ x \in Seq(Name) /\ Len(x) \in Nat
    BY PathIsSeq
  <1>2. Len(x) < Len(z) /\ \A i \in 1..Len(x) : z[i] = x[i]
    BY <1>1, UnderIs
  <1> DEFINE n == Len(x) + 1
             y == SubSeq(z, 1, n)
  <1>3. n \in Nat /\ n \in 0..Len(z) /\ n <= Len(z)
    BY <1>1, <1>2
  <1>4. y \in Path
    BY <1>3, PathIsSeq
  <1>5. y \in Seq(Name) /\ Len(y) = n /\ \A i \in 1..n : y[i] = z[i]
    BY <1>1, <1>3, PrefixIs
  <1> HIDE DEF y
  <1>6. y # Root
    BY <1>1, <1>5, EmptySeq DEF Root
  <1>7. Front(y) = x
    <2>1. Front(y) = SubSeq(y, 1, Len(x))
      BY <1>1, <1>5 DEF Front
    <2>2. /\ Front(y) \in Seq(Name) /\ Len(Front(y)) = Len(x)
          /\ \A i \in 1..Len(x) : Front(y)[i] = y[i]
      BY <1>1, <1>5, <2>1, PrefixIs
    <2>3. \A i \in 1..Len(x) : Front(y)[i] = x[i]
      BY <1>1, <1>2, <1>5, <2>2
    <2> QED BY <1>1, <2>2, <2>3, PathsEqual
  <1>8. Under(z, y) /\ Below(y, x)
    BY <1>1, <1>2, <1>3, <1>5, UnderIs
  <1> QED BY <1>4, <1>6, <1>7, <1>8

(* The paths above a path are those it lies below. *)
LEMMA AboveIs ==
  ASSUME NEW x \in Path, NEW y
  PROVE  y \in Above(x) <=> y \in Path /\ Below(x, y)
  <1>1. x \in Seq(Name) /\ Len(x) \in Nat
    BY PathIsSeq
  <1>2. ASSUME NEW n \in 0..Len(x) - 1
        PROVE  SubSeq(x, 1, n) \in Path /\ Below(x, SubSeq(x, 1, n))
    <2>1. n \in Nat /\ n \in 0..Len(x) /\ n < Len(x)
      BY <1>1
    <2>2. SubSeq(x, 1, n) \in Path
      BY <2>1, PathIsSeq
    <2>3. /\ SubSeq(x, 1, n) \in Seq(Name) /\ Len(SubSeq(x, 1, n)) = n
          /\ \A i \in 1..n : SubSeq(x, 1, n)[i] = x[i]
      BY <1>1, <2>1, PrefixIs
    <2> DEFINE z == SubSeq(x, 1, n)
    <2> HIDE DEF z
    <2>4. z \in Seq(Name) /\ Len(z) = n /\ \A i \in 1..n : z[i] = x[i]
      BY <2>3 DEF z
    <2>5. Below(x, z)
      BY <1>1, <2>1, <2>4, UnderIs
    <2> QED BY <2>2, <2>5 DEF z
  <1>3. ASSUME y \in Path, Below(x, y)
        PROVE  \E n \in 0..Len(x) - 1 : y = SubSeq(x, 1, n)
    <2>1. y \in Seq(Name) /\ Len(y) \in Nat
      BY <1>3, PathIsSeq
    <2>2. Len(y) < Len(x) /\ SubSeq(y, 1, Len(y)) = SubSeq(x, 1, Len(y))
      BY <1>1, <1>3, <2>1, UnderIs DEF Below, IsStrictPrefix, IsPrefix
    <2>3. y = SubSeq(x, 1, Len(y))
      BY <2>1, <2>2, SubSeqFull
    <2>4. Len(y) \in 0..Len(x) - 1
      BY <1>1, <2>1, <2>2
    <2> QED BY <2>3, <2>4
  <1> QED BY <1>2, <1>3 DEF Above

(* A path extended by a name has that path for its parent. *)
LEMMA AppendIs ==
  ASSUME NEW x \in Path, NEW n, Append(x, n) \in Path
  PROVE  Append(x, n) # Root /\ Front(Append(x, n)) = x /\ Last(Append(x, n)) = n
  <1> DEFINE y == Append(x, n)
             S == Name \cup {n}
  <1>1. x \in Seq(Name) /\ Len(x) \in Nat
    BY PathIsSeq
  <1>2. x \in Seq(S) /\ n \in S
    BY <1>1, SeqMonotonic
  <1> HIDE DEF S
  <1>3. /\ y \in Seq(S) /\ Len(y) = Len(x) + 1 /\ y[Len(x) + 1] = n
        /\ \A i \in 1..Len(x) : y[i] = x[i]
    BY <1>1, <1>2, AppendProperties
  <1>4. y \in Path /\ y \in Seq(Name)
    BY PathIsSeq
  <1> HIDE DEF y
  <1>5. y # Root /\ Last(y) = n
    BY <1>1, <1>3, EmptySeq DEF Root, Last
  <1>6. Front(y) = x
    <2>1. Front(y) = SubSeq(y, 1, Len(x))
      BY <1>1, <1>3 DEF Front
    <2>2. /\ Front(y) \in Seq(Name) /\ Len(Front(y)) = Len(x)
          /\ \A i \in 1..Len(x) : Front(y)[i] = y[i]
      BY <1>1, <1>3, <1>4, <2>1, PrefixIs
    <2> QED BY <1>1, <1>3, <2>2, PathsEqual
  <1> QED BY <1>5, <1>6 DEF y

(* A path moved from below one path to below another keeps its length      *)
(* there, and moved back it is what it was.                                *)
LEMMA RebasedIs ==
  ASSUME NEW y \in Path, NEW x \in Path, NEW z \in Path, Under(y, x)
  PROVE  /\ Rebased(y, x, z) \in Seq(Name)
         /\ Len(Rebased(y, x, z)) = Len(z) + Len(y) - Len(x)
         /\ \A i \in 1..Len(z) : Rebased(y, x, z)[i] = z[i]
         /\ \A i \in 1..Len(y) - Len(x) : Rebased(y, x, z)[Len(z) + i] = y[Len(x) + i]
  <1>1. /\ y \in Seq(Name) /\ Len(y) \in Nat /\ x \in Seq(Name) /\ Len(x) \in Nat
        /\ z \in Seq(Name) /\ Len(z) \in Nat
    BY PathIsSeq
  <1>2. Len(x) <= Len(y)
    BY <1>1, UnderIs
  <1> DEFINE m == Len(x) + 1
             n == Len(y)
             rest == SubSeq(y, m, n)
  <1>3. /\ rest \in Seq(Name)
        /\ Len(rest) = IF m <= n THEN n - m + 1 ELSE 0
        /\ \A i \in 1..n - m + 1 : rest[i] = y[m + i - 1]
    <2>1. \A i \in m..n : y[i] \in Name
      BY <1>1, ElementOfSeq
    <2>2. m \in Int /\ n \in Int
      BY <1>1
    <2> HIDE DEF m, n
    <2> QED BY <2>1, <2>2, SubSeqProperties
  <1>4. Len(rest) = n - Len(x) /\ \A i \in 1..n - Len(x) : rest[i] = y[Len(x) + i]
    BY <1>1, <1>2, <1>3
  <1> DEFINE r == z \o rest
  <1>5. /\ r \in Seq(Name) /\ Len(r) = Len(z) + Len(rest)
        /\ \A i \in 1..Len(z) + Len(rest) : r[i] = IF i <= Len(z) THEN z[i] ELSE rest[i - Len(z)]
    <2> HIDE DEF rest
    <2> QED BY <1>1, <1>3, ConcatProperties
  <1>6. Rebased(y, x, z) = r
    BY DEF Rebased
  <1> HIDE DEF r, rest, m
  <1>7. Len(r) = Len(z) + Len(y) - Len(x)
    BY <1>1, <1>4, <1>5
  <1>8. \A i \in 1..Len(z) : r[i] = z[i]
    <2> SUFFICES ASSUME NEW i \in 1..Len(z) PROVE r[i] = z[i]
      OBVIOUS
    <2>1. i \in 1..Len(z) + Len(rest) /\ i <= Len(z)
      BY <1>1, <1>2, <1>4
    <2> QED BY <1>5, <2>1
  <1>9. ASSUME NEW i \in 1..Len(y) - Len(x)
        PROVE  r[Len(z) + i] = y[Len(x) + i]
    <2>1. /\ Len(z) + i \in 1..Len(z) + Len(rest) /\ ~(Len(z) + i <= Len(z))
          /\ Len(z) + i - Len(z) = i
      BY <1>1, <1>2, <1>4
    <2>2. r[Len(z) + i] = rest[i]
      BY <1>5, <2>1
    <2> QED BY <1>4, <2>2
  <1> QED BY <1>5, <1>6, <1>7, <1>8, <1>9

LEMMA RebasedBack ==
  ASSUME NEW y \in Path, NEW x \in Path, NEW z \in Path, Under(y, x),
         Rebased(y, x, z) \in Path
  PROVE  Under(Rebased(y, x, z), z) /\ Rebased(Rebased(y, x, z), z, x) = y
  <1> DEFINE r == Rebased(y, x, z)
  <1>1. /\ y \in Seq(Name) /\ Len(y) \in Nat /\ x \in Seq(Name) /\ Len(x) \in Nat
        /\ z \in Seq(Name) /\ Len(z) \in Nat
    BY PathIsSeq
  <1>2. Len(x) <= Len(y) /\ \A i \in 1..Len(x) : x[i] = y[i]
    BY <1>1, UnderIs
  <1>3. /\ r \in Seq(Name) /\ Len(r) = Len(z) + Len(y) - Len(x)
        /\ \A i \in 1..Len(z) : r[i] = z[i]
        /\ \A i \in 1..Len(y) - Len(x) : r[Len(z) + i] = y[Len(x) + i]
    BY RebasedIs
  <1>4. r \in Path
    OBVIOUS
  <1> HIDE DEF r
  <1>5. Under(r, z)
    BY <1>1, <1>2, <1>3, UnderIs
  <1> DEFINE b == Rebased(r, z, x)
  <1>6. /\ b \in Seq(Name) /\ Len(b) = Len(x) + Len(r) - Len(z)
        /\ \A i \in 1..Len(x) : b[i] = x[i]
        /\ \A i \in 1..Len(r) - Len(z) : b[Len(x) + i] = r[Len(z) + i]
    BY <1>4, <1>5, RebasedIs
  <1> HIDE DEF b
  <1>7. Len(b) = Len(y)
    BY <1>1, <1>3, <1>6
  <1>8. ASSUME NEW i \in 1..Len(y)
        PROVE  b[i] = y[i]
    <2>1. CASE i <= Len(x)
      BY <1>1, <1>2, <1>6, <2>1
    <2>2. CASE i > Len(x)
      <3> DEFINE k == i - Len(x)
      <3>1. k \in 1..Len(y) - Len(x) /\ i = Len(x) + k /\ Len(r) - Len(z) = Len(y) - Len(x)
        BY <1>1, <1>3, <2>2
      <3> HIDE DEF k
      <3> QED BY <1>3, <1>6, <3>1
    <2> QED BY <1>1, <2>1, <2>2
  <1>9. b = y
    BY <1>1, <1>6, <1>7, <1>8, PathsEqual
  <1> QED BY <1>5, <1>9 DEF b, r

LEMMA RebasedSelf ==
  ASSUME NEW y \in Path, NEW x \in Path, Under(y, x)
  PROVE  Rebased(y, x, x) = y
  <1> DEFINE r == Rebased(y, x, x)
  <1>1. /\ y \in Seq(Name) /\ Len(y) \in Nat /\ x \in Seq(Name) /\ Len(x) \in Nat
    BY PathIsSeq
  <1>2. Len(x) <= Len(y) /\ \A i \in 1..Len(x) : x[i] = y[i]
    BY <1>1, UnderIs
  <1>3. /\ r \in Seq(Name) /\ Len(r) = Len(x) + Len(y) - Len(x)
        /\ \A i \in 1..Len(x) : r[i] = x[i]
        /\ \A i \in 1..Len(y) - Len(x) : r[Len(x) + i] = y[Len(x) + i]
    BY RebasedIs
  <1> HIDE DEF r
  <1>4. Len(r) = Len(y)
    BY <1>1, <1>3
  <1>5. ASSUME NEW i \in 1..Len(y)
        PROVE  r[i] = y[i]
    <2>1. CASE i <= Len(x)
      BY <1>1, <1>2, <1>3, <2>1
    <2>2. CASE i > Len(x)
      <3> DEFINE k == i - Len(x)
      <3>1. k \in 1..Len(y) - Len(x) /\ i = Len(x) + k
        BY <1>1, <2>2
      <3> HIDE DEF k
      <3> QED BY <1>3, <3>1
    <2> QED BY <1>1, <2>1, <2>2
  <1>6. r = y
    BY <1>1, <1>3, <1>4, <1>5, PathsEqual
  <1> QED BY <1>6 DEF r

(* Moving keeps what lies below what. *)
LEMMA RebasedUnder ==
  ASSUME NEW y \in Path, NEW w \in Path, NEW x \in Path, NEW z \in Path,
         Under(w, x), Under(y, w), Rebased(y, x, z) \in Path
  PROVE  /\ Rebased(w, x, z) \in Path
         /\ Below(y, w) => Below(Rebased(y, x, z), Rebased(w, x, z))
  <1> DEFINE r == Rebased(y, x, z)
             q == Rebased(w, x, z)
  <1>1. /\ y \in Seq(Name) /\ Len(y) \in Nat /\ x \in Seq(Name) /\ Len(x) \in Nat
        /\ z \in Seq(Name) /\ Len(z) \in Nat /\ w \in Seq(Name) /\ Len(w) \in Nat
    BY PathIsSeq
  <1>2. Under(y, x)
    BY <1>1, UnderOrder
  <1>3. /\ Len(x) <= Len(w) /\ \A i \in 1..Len(x) : x[i] = w[i]
        /\ Len(w) <= Len(y) /\ \A i \in 1..Len(w) : w[i] = y[i]
        /\ Below(y, w) => Len(w) < Len(y)
    BY <1>1, UnderIs
  <1>4. /\ r \in Seq(Name) /\ Len(r) = Len(z) + Len(y) - Len(x)
        /\ \A i \in 1..Len(z) : r[i] = z[i]
        /\ \A i \in 1..Len(y) - Len(x) : r[Len(z) + i] = y[Len(x) + i]
    <2>1. r \in Seq(Name)
      BY <1>2, RebasedIs
    <2>2. Len(r) = Len(z) + Len(y) - Len(x)
      BY <1>2, RebasedIs
    <2>3. \A i \in 1..Len(z) : r[i] = z[i]
      BY <1>2, RebasedIs
    <2>4. \A i \in 1..Len(y) - Len(x) : r[Len(z) + i] = y[Len(x) + i]
      BY <1>2, RebasedIs
    <2> QED BY <2>1, <2>2, <2>3, <2>4
  <1>5. /\ q \in Seq(Name) /\ Len(q) = Len(z) + Len(w) - Len(x)
        /\ \A i \in 1..Len(z) : q[i] = z[i]
        /\ \A i \in 1..Len(w) - Len(x) : q[Len(z) + i] = w[Len(x) + i]
    <2>1. q \in Seq(Name)
      BY RebasedIs
    <2>2. Len(q) = Len(z) + Len(w) - Len(x)
      BY RebasedIs
    <2>3. \A i \in 1..Len(z) : q[i] = z[i]
      BY RebasedIs
    <2>4. \A i \in 1..Len(w) - Len(x) : q[Len(z) + i] = w[Len(x) + i]
      BY RebasedIs
    <2> QED BY <2>1, <2>2, <2>3, <2>4
  <1>6. r \in Path
    OBVIOUS
  <1> HIDE DEF r, q
  <1>7. Len(q) \in 0..Len(r)
    BY <1>1, <1>3, <1>4, <1>5
  <1>8. ASSUME NEW i \in 1..Len(q)
        PROVE  q[i] = r[i]
    <2>1. CASE i <= Len(z)
      BY <1>1, <1>4, <1>5, <2>1
    <2>2. CASE i > Len(z)
      <3> DEFINE k == i - Len(z)
      <3>1. /\ k \in 1..Len(w) - Len(x) /\ k \in 1..Len(y) - Len(x)
            /\ i = Len(z) + k /\ Len(x) + k \in 1..Len(w)
        BY <1>1, <1>3, <1>5, <2>2
      <3> HIDE DEF k
      <3> QED BY <1>3, <1>4, <1>5, <3>1
    <2> QED BY <1>1, <2>1, <2>2
  <1>9. q \in Path
    <2> DEFINE n == Len(q)
    <2>1. n \in Nat /\ n <= Len(r) /\ n \in 0..Len(r)
      BY <1>7
    <2> HIDE DEF n
    <2>2. /\ SubSeq(r, 1, n) \in Path /\ SubSeq(r, 1, n) \in Seq(Name)
          /\ Len(SubSeq(r, 1, n)) = n
          /\ \A i \in 1..n : SubSeq(r, 1, n)[i] = r[i]
      BY <1>4, <1>6, <2>1, PathIsSeq, PrefixIs
    <2>3. SubSeq(r, 1, n) = q
      <3>1. \A i \in 1..n : SubSeq(r, 1, n)[i] = q[i]
        BY <1>8, <2>2 DEF n
      <3> QED BY <1>5, <2>2, <3>1, PathsEqual DEF n
    <2> QED BY <2>2, <2>3
  <1>10. ASSUME Below(y, w)
         PROVE  Below(r, q)
    <2>1. Len(q) < Len(r)
      BY <1>1, <1>3, <1>4, <1>5, <1>10
    <2>2. Under(r, q)
      BY <1>4, <1>5, <1>7, <1>8, UnderIs
    <2> QED BY <1>4, <1>5, <2>1, <2>2, UnderIs
  <1> QED BY <1>9, <1>10 DEF r, q

-----------------------------------------------------------------------------
(* The tree.                                                               *)

(* A path that looks the same leads to the same inode with the same        *)
(* content.                                                                *)
LEMMA SameAt ==
  ASSUME NEW x
  PROVE  At(x)' = At(x) <=>
           /\ Exists(x)' <=> Exists(x)
           /\ Exists(x) => tree'[x] = tree[x] /\ node'[tree'[x]] = node[tree[x]]
  <1>1. \A a, b : <<a, b>> # <<>>
    OBVIOUS
  <1>2. At(x) = IF x \in DOMAIN tree THEN <<tree[x], node[tree[x]]>> ELSE <<>>
    BY DEF At, Exists
  <1>3. At(x)' = IF x \in DOMAIN tree' THEN <<tree'[x], node'[tree'[x]]>> ELSE <<>>
    BY DEF At, Exists
  <1> QED BY <1>1, <1>2, <1>3 DEF Exists

(* Nothing lies below a file, or below a directory with no entry. *)
LEMMA NoneBelow ==
  ASSUME TreeOK, NEW x \in Path, IsFile(x) \/ Children(x) = {},
         NEW z \in DOMAIN tree
  PROVE  ~Below(z, x)
  <1> SUFFICES ASSUME Below(z, x) PROVE FALSE
    OBVIOUS
  <1>1. z \in Path /\ IsDir(x)
    BY AboveIs DEF TreeOK, IsTree, IsDir, Exists
  <1>2. PICK y \in Path : y # Root /\ Front(y) = x /\ Under(z, y)
    BY <1>1, ChildTowards
  <1>3. z \in Seq(Name) /\ y \in Seq(Name)
    BY <1>1, PathIsSeq
  <1>4. y \in DOMAIN tree
    <2>1. Below(z, y) \/ z = y
      BY <1>2, <1>3, UnderOrder
    <2> QED BY <1>1, <2>1, AboveIs DEF TreeOK, IsTree
  <1> QED BY <1>1, <1>2, <1>4 DEF IsFile, IsDir, Children

(* No step moves what is above a path without moving the path itself.      *)
UpStays ==
  \A z \in DOMAIN tree \cap DOMAIN tree' :
    tree'[z] = tree[z] =>
      \A y \in Path : Below(z, y) =>
        y \in DOMAIN tree /\ y \in DOMAIN tree' /\ tree'[y] = tree[y]

LEMMA UpStaysUnlessMoved ==
  ASSUME TreeOK, TreeOK',
         \A z \in DOMAIN tree \cap DOMAIN tree' : tree'[z] = tree[z]
  PROVE  UpStays
  BY AboveIs DEF TreeOK, IsTree, UpStays

LEMMA UnchangedTree ==
  ASSUME TreeOK, UNCHANGED <<tree, node>>
  PROVE  TreeOK' /\ UpStays /\ \A x : At(x)' = At(x)
  BY AboveIs DEF TreeOK, IsTree, UpStays, IsNode, At, Exists

(* New inodes go to paths that did not exist. *)
LEMMA LinkNewKeeps ==
  ASSUME TreeOK, NEW S \in SUBSET Path, S \cap DOMAIN tree = {}, NEW held,
         NEW content, IsNode(content), LinkNew(S, held, content),
         \A x \in S : \A y \in Path :
           Below(x, y) => IsDir(y) \/ (y \in S /\ content.dir)
  PROVE  /\ TreeOK' /\ UpStays
         /\ \A x \in Path \ S : At(x)' = At(x)
         /\ \A x \in S : At(x) = <<>> /\ At(x)' = <<tree'[x], content>>
         /\ \A i \in held \cap Inode : node'[i] = node[i]
  <1> DEFINE new == CHOOSE f \in Fresh(S, held) : TRUE
  <1>1. new \in Fresh(S, held)
    BY DEF LinkNew
  <1>2. /\ tree' = [x \in DOMAIN tree \cup S |-> IF x \in S THEN new[x] ELSE tree[x]]
        /\ node' = [i \in Inode |-> IF i \in Range(new) THEN content ELSE node[i]]
    BY DEF LinkNew
  <1> HIDE DEF new
  <1>3. /\ new \in [S -> Inode \ (Range(tree) \cup held)]
        /\ \A x, y \in S : new[x] = new[y] => x = y
    BY <1>1 DEF Fresh, IsInjective
  <1>4. /\ DOMAIN tree' = DOMAIN tree \cup S
        /\ \A x \in DOMAIN tree : tree'[x] = tree[x] /\ tree[x] \in Range(tree) /\ tree[x] \in Inode
        /\ \A x \in S : tree'[x] = new[x] /\ new[x] \in Inode
                       /\ new[x] \notin Range(tree) /\ new[x] \notin held
    BY <1>2, <1>3, AboveIs DEF TreeOK, IsTree, Range
  <1>5. /\ \A x \in DOMAIN tree : node'[tree[x]] = node[tree[x]]
        /\ \A x \in S : node'[new[x]] = content
        /\ \A i \in held \cap Inode : node'[i] = node[i]
    <2>1. Range(new) = {new[x] : x \in S}
      BY <1>3 DEF Range
    <2> QED BY <1>2, <1>3, <1>4, <2>1
  <1>6. \A x \in Path \ S : At(x)' = At(x)
    BY <1>4, <1>5, SameAt DEF Exists
  <1>7. \A x \in S : At(x) = <<>> /\ At(x)' = <<tree'[x], content>>
    BY <1>4, <1>5 DEF At, Exists
  <1>8. TreeOK'
    <2>1. DOMAIN tree' \subseteq Path /\ tree' \in [DOMAIN tree' -> Inode]
      BY <1>2, <1>4, AboveIs DEF TreeOK, IsTree
    <2>2. IsInjective(tree')
      BY <1>3, <1>4, AboveIs DEF TreeOK, IsTree, IsInjective
    <2>3. ASSUME NEW x \in DOMAIN tree', NEW y \in Path, Below(x, y)
          PROVE  y \in DOMAIN tree' /\ node'[tree'[y]].dir
      <3>1. CASE x \in S
        BY <1>4, <1>5, <2>3, <3>1 DEF IsDir, Exists
      <3>2. CASE x \in DOMAIN tree
        BY <1>4, <1>5, <2>3, <3>2, AboveIs DEF TreeOK, IsTree
      <3> QED BY <1>4, <3>1, <3>2
    <2>4. DOMAIN node' = Inode /\ \A i \in Inode : node'[i] \in {content, node[i]}
      BY <1>2
    <2>5. \A i \in Inode : IsNode(node'[i])
      BY <2>4, AboveIs DEF TreeOK, IsTree
    <2> QED BY <2>1, <2>2, <2>3, <2>4, <2>5, AboveIs DEF TreeOK, IsTree
  <1>9. UpStays
    BY <1>4, <1>8, UpStaysUnlessMoved
  <1> QED BY <1>5, <1>6, <1>7, <1>8, <1>9

(* mkdir makes directories at and above its path. *)
LEMMA MkdirKeeps ==
  ASSUME TreeOK, NEW x \in Path, NEW held, CanMkdir(x), Mkdir(x, held)
  PROVE  /\ TreeOK' /\ UpStays /\ IsDir(x)'
         /\ \A y \in Path : At(y)' = At(y) \/ (Under(x, y) /\ At(y) = <<>> /\ IsDir(y)')
         /\ \A i \in held \cap Inode : node'[i] = node[i]
  <1> DEFINE S == ({x} \cup Above(x)) \ DOMAIN tree
  <1>0. \A y : y \in {x} \cup Above(x) <=> y \in Path /\ Under(x, y)
    <2>1. \A y \in Path : Under(x, y) <=> y = x \/ Below(x, y)
      BY PathIsSeq, UnderOrder
    <2> QED BY <2>1, AboveIs
  <1>1. S \in SUBSET Path /\ S \cap DOMAIN tree = {} /\ LinkNew(S, held, Directory)
    BY <1>0 DEF Mkdir
  <1>2. IsNode(Directory) /\ Directory.dir
    <2>1. <<>> \in Seq(Range(<<>>))
      BY EmptySeq
    <2> QED BY <2>1 DEF IsNode, Directory
  <1>3. ASSUME NEW y \in Path, Under(x, y)
        PROVE  y \in S \/ IsDir(y)
    BY <1>0, <1>3 DEF CanMkdir, IsFile, IsDir, Exists
  <1>4. \A y \in S : \A z \in Path : Below(y, z) => IsDir(z) \/ (z \in S /\ Directory.dir)
    <2> SUFFICES ASSUME NEW y \in S, NEW z \in Path, Below(y, z)
                 PROVE  IsDir(z) \/ z \in S
      BY <1>2
    <2>1. y \in Path /\ Under(x, y)
      BY <1>0
    <2>2. x \in Seq(Name) /\ y \in Seq(Name) /\ z \in Seq(Name)
      BY <2>1, PathIsSeq
    <2>3. Under(x, z)
      BY <2>1, <2>2, UnderOrder
    <2> QED BY <1>3, <2>3
  <1>5. \A y \in S : Under(x, y)
    BY <1>0
  <1>6. Under(x, x)
    BY PathIsSeq, UnderOrder
  <1> HIDE DEF S
  <1>7. /\ TreeOK' /\ UpStays
        /\ \A y \in Path \ S : At(y)' = At(y)
        /\ \A y \in S : At(y) = <<>> /\ At(y)' = <<tree'[y], Directory>>
        /\ \A i \in held \cap Inode : node'[i] = node[i]
    BY <1>1, <1>2, <1>4, LinkNewKeeps
  <1>8. \A y \in S : IsDir(y)'
    <2> SUFFICES ASSUME NEW y \in S PROVE IsDir(y)'
      OBVIOUS
    <2>1. At(y)' = <<tree'[y], Directory>>
      BY <1>7
    <2>2. y \in DOMAIN tree' /\ node'[tree'[y]] = Directory
      BY <2>1 DEF At, Exists
    <2> QED BY <1>2, <2>2 DEF IsDir, Exists
  <1>9. \A y \in Path \ S : IsDir(y) => IsDir(y)'
    BY <1>7, SameAt DEF IsDir
  <1> QED BY <1>3, <1>5, <1>6, <1>7, <1>8, <1>9

(* A file that is opened for writing is empty, and nothing else changes.   *)
LEMMA CreateKeeps ==
  ASSUME TreeOK, NEW x \in Path, NEW held, CanCreate(x), Create(x, held)
  PROVE  /\ TreeOK' /\ UpStays
         /\ At(x)' = <<tree'[x], File(<<>>)>> /\ tree'[x] \in Inode
         /\ \A y \in Path \ {x} : At(y)' = At(y)
         /\ ~Exists(x) => \A i \in held \cap Inode : node'[i] = node[i]
         /\ ~Exists(x) => tree'[x] \notin held
  <1>1. <<>> \in Seq(Range(<<>>)) /\ IsNode(File(<<>>))
    BY EmptySeq DEF IsNode, File
  <1>2. CASE Exists(x)
    <2>1. tree' = tree /\ node' = [node EXCEPT ![tree[x]].blocks = <<>>]
      BY <1>2 DEF Create
    <2>2. tree[x] \in Inode /\ IsNode(node[tree[x]]) /\ ~node[tree[x]].dir /\ DOMAIN node = Inode
      BY <1>2, AboveIs DEF TreeOK, IsTree, Exists, CanCreate, IsDir
    <2>3. node'[tree[x]] = File(<<>>)
      BY <2>1, <2>2 DEF IsNode, File
    <2>4. DOMAIN node' = Inode /\ \A i \in Inode : i # tree[x] => node'[i] = node[i]
      BY <2>1, <2>2
    <2>5. ASSUME NEW i \in Inode
          PROVE  IsNode(node'[i]) /\ node'[i].dir = node[i].dir
      <3>1. CASE i = tree[x]
        <4>1. node'[i].dir = FALSE /\ node[i].dir = FALSE
          BY <2>2, <2>3, <3>1 DEF File, IsNode
        <4> QED BY <1>1, <2>3, <3>1, <4>1
      <3>2. CASE i # tree[x]
        BY <2>4, <3>2, AboveIs DEF TreeOK, IsTree
      <3> QED BY <3>1, <3>2
    <2>6. TreeOK'
      BY <2>1, <2>4, <2>5, AboveIs DEF TreeOK, IsTree
    <2>7. \A y \in Path \ {x} : At(y)' = At(y)
      <3> SUFFICES ASSUME NEW y \in Path, y # x, Exists(y)
                   PROVE  tree[y] \in Inode /\ tree[y] # tree[x]
        BY <2>1, <2>4, SameAt DEF Exists
      <3> QED BY <1>2, AboveIs DEF TreeOK, IsTree, IsInjective, Exists
    <2>8. At(x)' = <<tree'[x], File(<<>>)>>
      BY <1>2, <2>1, <2>3 DEF At, Exists
    <2>9. UpStays
      BY <2>1, <2>6, UpStaysUnlessMoved
    <2> QED BY <1>2, <2>1, <2>2, <2>6, <2>7, <2>8, <2>9
  <1>3. CASE ~Exists(x)
    <2>1. LinkNew({x}, held, File(<<>>)) /\ {x} \cap DOMAIN tree = {} /\ {x} \in SUBSET Path
      BY <1>3 DEF Create, Exists
    <2>2. \A z \in {x} : \A y \in Path : Below(z, y) => IsDir(y) \/ (y \in {x} /\ File(<<>>).dir)
      <3> SUFFICES ASSUME NEW y \in Path, Below(x, y)
                   PROVE  IsDir(y)
        OBVIOUS
      <3>1. x \in Seq(Name) /\ y \in Seq(Name) /\ x # Root
        BY PathIsSeq, UnderOrder
      <3>2. Front(x) \in Path /\ Front(x) \in Seq(Name) /\ Under(Front(x), y)
        BY <3>1, FrontIs, PathIsSeq
      <3>3. IsDir(Front(x))
        BY DEF CanCreate
      <3>4. CASE Front(x) = y
        BY <3>3, <3>4
      <3>5. CASE Below(Front(x), y)
        BY <3>3, <3>5, AboveIs DEF TreeOK, IsTree, IsDir, Exists
      <3> QED BY <3>1, <3>2, <3>4, <3>5, UnderOrder
    <2>3. /\ TreeOK' /\ UpStays
          /\ \A y \in Path \ {x} : At(y)' = At(y)
          /\ At(x)' = <<tree'[x], File(<<>>)>>
          /\ \A i \in held \cap Inode : node'[i] = node[i]
      BY <1>1, <2>1, <2>2, LinkNewKeeps
    <2>4. tree'[x] \in Inode /\ tree'[x] \notin held
      <3> DEFINE new == CHOOSE f \in Fresh({x}, held) : TRUE
      <3>1. new \in Fresh({x}, held) /\ tree'[x] = new[x]
        BY <2>1 DEF LinkNew
      <3> QED BY <3>1 DEF Fresh
    <2> QED BY <1>3, <2>3, <2>4
  <1> QED BY <1>2, <1>3

(* The maximum of two numbers. *)
LEMMA MaxOfTwo ==
  ASSUME NEW a \in Nat, NEW b \in Nat
  PROVE  Max({a, b}) = IF a >= b THEN a ELSE b
  <1>1. CASE a >= b
    <2>1. /\ a \in {a, b} /\ \A y \in {a, b} : a >= y
          /\ \A x \in {a, b} : (\A y \in {a, b} : x >= y) => x = a
      BY <1>1
    <2> QED BY <1>1, <2>1 DEF Max
  <1>2. CASE ~(a >= b)
    <2>1. /\ b \in {a, b} /\ \A y \in {a, b} : b >= y
          /\ \A x \in {a, b} : (\A y \in {a, b} : x >= y) => x = b
      BY <1>2
    <2> QED BY <1>2, <2>1 DEF Max
  <1> QED BY <1>1, <1>2

(* A block written leaves a sequence of blocks, and one that is written    *)
(* behind the end of what was written so far continues it.                 *)
LEMMA WriteAtIs ==
  ASSUME NEW S, NEW blocks \in Seq(S), NEW i \in Nat \ {0}, NEW b, NEW hole
  PROVE  /\ WriteAt(blocks, i, b, hole) \in Seq(Range(WriteAt(blocks, i, b, hole)))
         /\ i = Len(blocks) + 1 =>
              /\ Len(WriteAt(blocks, i, b, hole)) = i
              /\ \A k \in 1..i - 1 : WriteAt(blocks, i, b, hole)[k] = blocks[k]
              /\ WriteAt(blocks, i, b, hole)[i] = b
  <1> DEFINE m == IF i >= Len(blocks) THEN i ELSE Len(blocks)
             f == WriteAt(blocks, i, b, hole)
  <1>1. Len(blocks) \in Nat /\ m \in Nat
    BY LenProperties
  <1>2. f = [k \in 1..m |-> IF k = i THEN b ELSE IF k <= Len(blocks) THEN blocks[k] ELSE hole]
    BY <1>1, MaxOfTwo DEF WriteAt
  <1>3. f \in [1..m -> Range(f)]
    BY <1>2 DEF Range
  <1>4. f \in Seq(Range(f)) /\ Len(f) = m
    BY <1>1, <1>3, SeqDef
  <1>5. ASSUME i = Len(blocks) + 1
        PROVE  m = i /\ f[i] = b /\ \A k \in 1..i - 1 : f[k] = blocks[k]
    BY <1>1, <1>2, <1>5
  <1> QED BY <1>4, <1>5

LEMMA NextWritten ==
  ASSUME NEW S, NEW payload \in Seq(S), NEW n \in Nat, n < Len(payload), NEW hole
  PROVE  WriteAt(SubSeq(payload, 1, n), n + 1, payload[n + 1], hole)
           = SubSeq(payload, 1, n + 1)
  <1> DEFINE old == SubSeq(payload, 1, n)
             new == SubSeq(payload, 1, n + 1)
             f == WriteAt(old, n + 1, payload[n + 1], hole)
  <1>1. Len(payload) \in Nat /\ n + 1 \in Nat \ {0} /\ \A i \in 1..n + 1 : payload[i] \in S
    BY LenProperties, ElementOfSeq
  <1>2. old \in Seq(S) /\ Len(old) = n /\ \A i \in 1..n : old[i] = payload[i]
    <2>1. /\ old \in Seq(S) /\ Len(old) = IF 1 <= n THEN n - 1 + 1 ELSE 0
          /\ \A i \in 1..n - 1 + 1 : old[i] = payload[1 + i - 1]
      BY <1>1, SubSeqProperties
    <2> QED BY <2>1
  <1>3. new \in Seq(S) /\ Len(new) = n + 1 /\ \A i \in 1..n + 1 : new[i] = payload[i]
    <2> DEFINE k == n + 1
    <2>1. k \in Int /\ 1 <= k /\ \A i \in 1..k : payload[i] \in S
      BY <1>1
    <2> HIDE DEF k
    <2>2. /\ SubSeq(payload, 1, k) \in Seq(S)
          /\ Len(SubSeq(payload, 1, k)) = IF 1 <= k THEN k - 1 + 1 ELSE 0
          /\ \A i \in 1..k - 1 + 1 : SubSeq(payload, 1, k)[i] = payload[1 + i - 1]
      BY <2>1, SubSeqProperties
    <2>3. /\ SubSeq(payload, 1, k) \in Seq(S) /\ Len(SubSeq(payload, 1, k)) = k
          /\ \A i \in 1..k : SubSeq(payload, 1, k)[i] = payload[i]
      BY <2>1, <2>2
    <2> QED BY <2>3 DEF k
  <1> HIDE DEF old, new
  <1>4. /\ f \in Seq(Range(f)) /\ Len(f) = n + 1 /\ f[n + 1] = payload[n + 1]
        /\ \A i \in 1..n : f[i] = old[i]
    <2>1. n + 1 = Len(old) + 1 /\ n + 1 - 1 = n
      BY <1>2
    <2> QED BY <1>1, <1>2, <2>1, WriteAtIs
  <1> HIDE DEF f
  <1>5. \A i \in 1..n + 1 : f[i] = new[i]
    BY <1>2, <1>3, <1>4
  <1>6. f \in Seq(S \cup Range(f)) /\ new \in Seq(S \cup Range(f))
    BY <1>3, <1>4, SeqMonotonic
  <1>7. f = new
    BY <1>3, <1>4, <1>5, <1>6, SeqEqual
  <1> QED BY <1>7 DEF f, new, old

(* A block that is written changes the contents of one inode.              *)
LEMMA PutKeeps ==
  ASSUME TreeOK, NEW i \in Inode, NEW n \in Nat, NEW b, NEW hole,
         node' = [node EXCEPT ![i].blocks = WriteAt(@, n + 1, b, hole)],
         UNCHANGED tree
  PROVE  /\ TreeOK' /\ UpStays
         /\ \A x \in Path : ~(Exists(x) /\ tree[x] = i) => At(x)' = At(x)
         /\ \A x \in Path : IsDir(x)' <=> IsDir(x)
         /\ node'[i] = [dir |-> node[i].dir, blocks |-> WriteAt(node[i].blocks, n + 1, b, hole)]
         /\ \A k \in Inode \ {i} : node'[k] = node[k]
  <1> DEFINE new == WriteAt(node[i].blocks, n + 1, b, hole)
  <1>1. IsNode(node[i]) /\ DOMAIN node = Inode
    BY AboveIs DEF TreeOK, IsTree
  <1>2. new \in Seq(Range(new))
    BY <1>1, WriteAtIs DEF IsNode
  <1> HIDE DEF new
  <1>3. node' = [node EXCEPT ![i].blocks = new]
    BY DEF new
  <1>4. /\ node'[i] = [dir |-> node[i].dir, blocks |-> new]
        /\ DOMAIN node' = Inode /\ \A k \in Inode \ {i} : node'[k] = node[k]
    BY <1>1, <1>3 DEF IsNode
  <1>5. \A k \in Inode : IsNode(node'[k]) /\ node'[k].dir = node[k].dir
    BY <1>1, <1>2, <1>4, AboveIs DEF TreeOK, IsTree, IsNode
  <1>6. TreeOK'
    BY <1>4, <1>5, AboveIs DEF TreeOK, IsTree
  <1>7. \A x \in Path : Exists(x) => tree[x] \in Inode
    BY AboveIs DEF TreeOK, IsTree, Exists
  <1>8. \A x \in Path : ~(Exists(x) /\ tree[x] = i) => At(x)' = At(x)
    BY <1>4, <1>7, SameAt DEF Exists
  <1>9. \A x \in Path : IsDir(x)' <=> IsDir(x)
    BY <1>5, <1>7 DEF IsDir, Exists
  <1>10. UpStays
    BY <1>6, UpStaysUnlessMoved
  <1> QED BY <1>4, <1>6, <1>8, <1>9, <1>10 DEF new

(* What is unlinked is gone, and nothing else changes. *)
LEMMA UnlinkedKeeps ==
  ASSUME TreeOK, NEW x \in Path, ~IsDir(x) \/ Children(x) = {}, Unlinked(x)
  PROVE  /\ TreeOK' /\ UpStays /\ ~Exists(x)'
         /\ \A y \in Path \ {x} : At(y)' = At(y)
  <1>1. /\ node' = node /\ DOMAIN tree' = DOMAIN tree \ {x}
        /\ \A y \in DOMAIN tree' : tree'[y] = tree[y]
        /\ tree' \in [DOMAIN tree' -> Inode]
    BY AboveIs DEF Unlinked, Restrict, TreeOK, IsTree
  <1>2. \A z \in DOMAIN tree : ~Below(z, x)
    <2>1. CASE Exists(x)
      BY <2>1, NoneBelow DEF IsFile, IsDir
    <2>2. CASE ~Exists(x)
      BY <2>2, AboveIs DEF TreeOK, IsTree, Exists
    <2> QED BY <2>1, <2>2
  <1>3. TreeOK'
    BY <1>1, <1>2, AboveIs DEF TreeOK, IsTree, IsInjective
  <1>4. \A y \in Path \ {x} : At(y)' = At(y)
    BY <1>1, SameAt DEF Exists
  <1>5. ~Exists(x)'
    BY <1>1 DEF Exists
  <1>6. UpStays
    BY <1>1, <1>3, UpStaysUnlessMoved
  <1> QED BY <1>3, <1>4, <1>5, <1>6

(* A rename takes what is at or below its source to its destination, where *)
(* at most a file or a directory with no entry was, and changes nothing    *)
(* else.                                                                   *)
LEMMA RenameKeeps ==
  ASSUME TreeOK, NEW x \in Path, NEW y \in Path, CanRename(x, y), Rename(x, y),
         \A z \in DOMAIN tree : Under(z, x) => Rebased(z, x, y) \in Path
  PROVE  /\ TreeOK' /\ UpStays
         /\ \A z \in Path : ~Under(z, x) /\ ~Under(z, y) => At(z)' = At(z)
         /\ \A z \in DOMAIN tree : tree[z] \in Range(tree') \/ (z = y /\ x # y /\ Children(y) = {})
  <1> DEFINE kept == {z \in DOMAIN tree : ~Under(z, x) /\ ~Under(z, y)}
             moved == {z \in Path : Under(z, y) /\ Exists(Rebased(z, y, x))}
  <1>1. /\ node' = node
        /\ tree' = [z \in kept \cup moved |->
                       IF Under(z, y) THEN tree[Rebased(z, y, x)] ELSE tree[z]]
    BY DEF Rename
  <1>2. /\ DOMAIN tree \subseteq Path /\ tree \in [DOMAIN tree -> Inode]
        /\ \A u, v \in DOMAIN tree : tree[u] = tree[v] => u = v
    BY AboveIs DEF TreeOK, IsTree, IsInjective
  <1>3. x \in DOMAIN tree /\ y # Root /\ IsDir(Front(y)) /\ ~Below(y, x)
    BY DEF CanRename, Exists
  <1>4. \A z \in Path : z \in Seq(Name)
    BY PathIsSeq
  <1>5. DOMAIN tree' = kept \cup moved
    BY <1>1
  <1>6. \A z \in kept : z \in Path /\ ~Under(z, x) /\ ~Under(z, y) /\ z \in DOMAIN tree /\ tree'[z] = tree[z]
    BY <1>1, <1>2
  (* What has moved was below the source.                                  *)
  <1>7. ASSUME NEW z \in moved
        PROVE  /\ z \in Path /\ Under(z, y)
               /\ Rebased(z, y, x) \in DOMAIN tree /\ Rebased(z, y, x) \in Path
               /\ Under(Rebased(z, y, x), x)
               /\ Rebased(Rebased(z, y, x), x, y) = z
               /\ tree'[z] = tree[Rebased(z, y, x)]
    <2>1. z \in Path /\ Under(z, y) /\ Rebased(z, y, x) \in DOMAIN tree
      BY DEF Exists
    <2>2. Rebased(z, y, x) \in Path
      BY <1>2, <2>1
    <2>3. Under(Rebased(z, y, x), x) /\ Rebased(Rebased(z, y, x), x, y) = z
      BY <2>1, <2>2, RebasedBack
    <2> QED BY <1>1, <2>1, <2>2, <2>3
  <1>8. ASSUME NEW z \in DOMAIN tree, Under(z, x)
        PROVE  Rebased(z, x, y) \in moved /\ tree'[Rebased(z, x, y)] = tree[z]
    <2>1. z \in Path /\ Rebased(z, x, y) \in Path
      BY <1>2, <1>8
    <2>2. Under(Rebased(z, x, y), y) /\ Rebased(Rebased(z, x, y), y, x) = z
      BY <1>8, <2>1, RebasedBack
    <2>3. Rebased(z, x, y) \in moved
      BY <2>1, <2>2 DEF Exists
    <2> QED BY <1>7, <2>2, <2>3
  <1> HIDE DEF kept, moved
  (* The directories above the destination stay where they are.            *)
  <1>9. ASSUME NEW w \in Path, Below(y, w)
        PROVE  w \in DOMAIN tree /\ node[tree[w]].dir /\ w \in kept
    <2>1. Under(Front(y), w) /\ Front(y) \in Path
      BY <1>3, <1>9, FrontIs
    <2>2. Front(y) = w \/ Below(Front(y), w)
      BY <1>4, <2>1, UnderOrder
    <2>3. w \in DOMAIN tree /\ node[tree[w]].dir
      BY <1>3, <2>2, AboveIs DEF TreeOK, IsTree, IsDir, Exists
    <2>4. ~Under(w, y)
      BY <1>4, <1>9, UnderOrder
    <2>5. ~Under(w, x)
      BY <1>3, <1>4, <1>9, UnderOrder
    <2> QED BY <2>3, <2>4, <2>5 DEF kept
  <1>10. ASSUME NEW z \in moved, NEW w \in Path, Below(z, w), Under(w, y)
         PROVE  w \in moved /\ Below(Rebased(z, y, x), Rebased(w, y, x))
    <2>1. Under(z, w)
      BY <1>4, <1>7, <1>10, UnderOrder
    <2>2. Rebased(w, y, x) \in Path /\ Below(Rebased(z, y, x), Rebased(w, y, x))
      BY <1>7, <1>10, <2>1, RebasedUnder
    <2>3. Rebased(w, y, x) \in DOMAIN tree
      BY <1>7, <2>2, AboveIs DEF TreeOK, IsTree
    <2> QED BY <1>10, <2>2, <2>3 DEF moved, Exists
  <1>11. ASSUME NEW z \in moved, NEW w \in Path, Below(z, w)
         PROVE  w \in DOMAIN tree' /\ node'[tree'[w]].dir
    <2>1. Under(w, y) \/ Below(y, w)
      <3>1. Under(z, y) /\ Under(z, w)
        BY <1>4, <1>7, <1>11, UnderOrder
      <3> QED BY <1>4, <1>7, <3>1, UnderOrder
    <2>2. CASE Under(w, y)
      <3>1. w \in moved /\ Below(Rebased(z, y, x), Rebased(w, y, x))
        BY <1>10, <1>11, <2>2
      <3>2. Rebased(w, y, x) \in Path /\ node[tree[Rebased(w, y, x)]].dir
        BY <1>7, <3>1, AboveIs DEF TreeOK, IsTree
      <3> QED BY <1>1, <1>5, <1>7, <3>1, <3>2
    <2>3. CASE Below(y, w)
      BY <1>1, <1>5, <1>6, <1>9, <2>3
    <2> QED BY <2>1, <2>2, <2>3
  <1>12. ASSUME NEW z \in kept, NEW w \in Path, Below(z, w)
         PROVE  w \in kept /\ node[tree[w]].dir
    <2>1. w \in DOMAIN tree /\ node[tree[w]].dir
      BY <1>6, <1>12, AboveIs DEF TreeOK, IsTree
    <2>2. ~Under(w, x) /\ ~Under(w, y)
      BY <1>4, <1>6, <1>12, UnderOrder
    <2> QED BY <2>1, <2>2 DEF kept
  <1>13. TreeOK'
    <2>1. DOMAIN tree' \subseteq Path
      BY <1>5, <1>6, <1>7
    <2>2. \A z \in DOMAIN tree' : tree'[z] \in Inode
      BY <1>2, <1>5, <1>6, <1>7
    <2>3. tree' \in [DOMAIN tree' -> Inode]
      BY <1>1, <2>2
    <2>4. ASSUME NEW u \in DOMAIN tree', NEW v \in DOMAIN tree', tree'[u] = tree'[v]
          PROVE  u = v
      <3>1. CASE u \in kept /\ v \in kept
        BY <1>2, <1>6, <2>4, <3>1
      <3>2. CASE u \in moved /\ v \in moved
        <4>1. Rebased(u, y, x) = Rebased(v, y, x)
          BY <1>2, <1>7, <2>4, <3>2
        <4> QED BY <1>7, <3>2, <4>1
      <3>3. ASSUME NEW a \in kept, NEW b \in moved, tree'[a] = tree'[b]
            PROVE  FALSE
        <4>1. a = Rebased(b, y, x)
          BY <1>2, <1>6, <1>7, <3>3
        <4> QED BY <1>6, <1>7, <4>1
      <3> QED BY <1>5, <2>4, <3>1, <3>2, <3>3
    <2>5. IsInjective(tree')
      BY <2>4 DEF IsInjective
    <2>6. ASSUME NEW z \in DOMAIN tree', NEW w \in Path, Below(z, w)
          PROVE  w \in DOMAIN tree' /\ node'[tree'[w]].dir
      BY <1>1, <1>5, <1>6, <1>11, <1>12, <2>6
    <2> QED BY <1>1, <2>1, <2>3, <2>5, <2>6, AboveIs DEF TreeOK, IsTree
  <1>14. ASSUME NEW z \in Path, ~Under(z, x), ~Under(z, y)
         PROVE  At(z)' = At(z)
    <2>1. z \in DOMAIN tree' <=> z \in DOMAIN tree
      BY <1>5, <1>6, <1>7, <1>14 DEF kept
    <2>2. z \in DOMAIN tree => z \in kept
      BY <1>14 DEF kept
    <2> QED BY <1>1, <1>6, <2>1, <2>2, SameAt DEF Exists
  <1>15. ASSUME NEW z \in DOMAIN tree
         PROVE  tree[z] \in Range(tree') \/ (z = y /\ x # y /\ Children(y) = {})
    <2>1. CASE Under(z, x)
      BY <1>5, <1>8, <2>1 DEF Range
    <2>2. CASE ~Under(z, x) /\ ~Under(z, y)
      BY <1>5, <1>6, <2>2 DEF Range, kept
    <2>3. CASE ~Under(z, x) /\ Under(z, y)
      <3>1. x # y
        BY <2>3
      <3>2. ASSUME IsFile(y)
            PROVE  Children(y) = {}
        <4> SUFFICES ASSUME NEW w \in Children(y) PROVE FALSE
          OBVIOUS
        <4>1. w \in DOMAIN tree /\ w \in Path /\ w # Root /\ Front(w) = y
          BY <1>2 DEF Children
        <4>2. Below(w, y)
          BY <4>1, FrontIs
        <4> QED BY <3>2, <4>1, <4>2, NoneBelow
      <3>3. IsFile(y) \/ Children(y) = {}
        <4>1. y \in DOMAIN tree
          <5>1. z = y \/ Below(z, y)
            BY <1>2, <1>4, <2>3, UnderOrder
          <5> QED BY <5>1, AboveIs DEF TreeOK, IsTree
        <4> QED BY <3>1, <4>1 DEF CanRename, IsFile, IsDir, Exists
      <3>4. ~Below(z, y)
        BY <3>3, NoneBelow
      <3>5. z = y
        BY <1>2, <1>4, <2>3, <3>4, UnderOrder
      <3> QED BY <3>1, <3>2, <3>3, <3>5
    <2> QED BY <2>1, <2>2, <2>3
  <1>16. UpStays
    <2> SUFFICES ASSUME NEW z \in DOMAIN tree, z \in DOMAIN tree', tree'[z] = tree[z],
                        NEW w \in Path, Below(z, w)
                 PROVE  w \in DOMAIN tree /\ w \in DOMAIN tree' /\ tree'[w] = tree[w]
      BY DEF UpStays
    <2>1. CASE z \in kept
      BY <1>5, <1>6, <1>12, <2>1
    (* Only a rename to the same path leaves what it has moved in place.   *)
    <2>2. CASE z \in moved
      <3>1. Rebased(z, y, x) = z
        BY <1>2, <1>7, <2>2
      <3>2. Under(z, x) /\ Under(z, y)
        BY <1>7, <2>2, <3>1
      <3>3. Len(x) = Len(y)
        <4>1. Len(Rebased(z, y, x)) = Len(x) + Len(z) - Len(y)
          BY <1>2, <3>2, RebasedIs
        <4>2. Len(x) \in Nat /\ Len(y) \in Nat /\ Len(z) \in Nat
          BY <1>2, PathIsSeq
        <4> QED BY <3>1, <4>1, <4>2
      <3>4. x = y
        <4>1. (\A i \in 1..Len(x) : z[i] = x[i]) /\ (\A i \in 1..Len(y) : z[i] = y[i])
          BY <1>2, <1>4, <3>2, UnderIs
        <4>2. \A i \in 1..Len(x) : x[i] = y[i]
          BY <3>3, <4>1
        <4> QED BY <1>4, <3>3, <4>2, PathsEqual
      <3>5. ASSUME NEW u \in DOMAIN tree, Under(u, x)
            PROVE  u \in DOMAIN tree' /\ tree'[u] = tree[u]
        <4>1. Rebased(u, x, x) = u
          BY <1>2, <1>7, <1>8, <3>4, <3>5, RebasedSelf
        <4> QED BY <1>5, <1>8, <3>4, <3>5, <4>1
      <3>6. w \in DOMAIN tree
        BY AboveIs DEF TreeOK, IsTree
      <3>7. CASE Under(w, x)
        BY <3>5, <3>6, <3>7
      <3>8. CASE ~Under(w, x)
        <4>1. w \in kept
          BY <3>4, <3>6, <3>8 DEF kept
        <4> QED BY <1>5, <1>6, <4>1
      <3> QED BY <3>7, <3>8
    <2> QED BY <1>5, <2>1, <2>2
  <1> QED BY <1>13, <1>14, <1>15, <1>16
=============================================================================
