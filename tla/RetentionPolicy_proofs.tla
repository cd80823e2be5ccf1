------------------------ MODULE RetentionPolicy_proofs ------------------------
(***************************************************************************)
(* Proofs about RetentionPolicy: what _apply of backup_retention.py        *)
(* deletes and keeps, for any number of backups, any calendar and any      *)
(* policies.  The properties are about one state, so they follow from the  *)
(* type of the state; what they need is what the operators of the model    *)
(* compute.                                                                *)
(***************************************************************************)
EXTENDS RetentionPolicy, SequenceTheorems, FunctionTheorems, FiniteSetTheorems,
        WellFoundedInduction, TLAPS

-----------------------------------------------------------------------------
(* Arrangements.                                                           *)

(* ahead is a strict linear order of the finite set I. *)
Linear(I, ahead) ==
  /\ IsFiniteSet(I)
  /\ \A i \in I : ahead[i] \subseteq I /\ i \notin ahead[i]
  /\ \A i, j \in I : i # j => i \in ahead[j] \/ j \in ahead[i]
  /\ \A i, j \in I : i \in ahead[j] => ahead[i] \subseteq ahead[j]

(* e lists I in that order. *)
Enumerates(e, I, ahead) ==
  /\ Cardinality(I) \in Nat
  /\ e \in [1..Cardinality(I) -> I]
  /\ \A m, n \in 1..Cardinality(I) : e[m] \in ahead[e[n]] <=> m < n
  /\ \A i \in I : \E n \in 1..Cardinality(I) : e[n] = i

(* Ranked puts every element at the place its rank gives it. *)
LEMMA RankedEnumerates ==
  ASSUME NEW I, NEW ahead, Linear(I, ahead)
  PROVE  Enumerates(Ranked(I, ahead), I, ahead)
<1> DEFINE N == Cardinality(I)
           Rank == [i \in I |-> Cardinality(ahead[i]) + 1]
           e == Ranked(I, ahead)
<1>1. N \in Nat
  BY FS_CardinalityType DEF Linear
<1>2. ASSUME NEW i \in I
      PROVE  /\ IsFiniteSet(ahead[i])
             /\ Cardinality(ahead[i]) \in Nat
             /\ Cardinality(ahead[i]) < N
  <2>1. IsFiniteSet(ahead[i]) /\ Cardinality(ahead[i]) <= N /\ Cardinality(ahead[i]) # N
    BY FS_Subset DEF Linear
  <2>2. Cardinality(ahead[i]) \in Nat
    BY <2>1, FS_CardinalityType
  <2> QED BY <1>1, <2>1, <2>2
<1>3. ASSUME NEW i \in I, NEW j \in I, i \in ahead[j]
      PROVE  Cardinality(ahead[i]) < Cardinality(ahead[j])
  <2>1. ahead[i] \subseteq ahead[j] /\ ahead[i] # ahead[j]
    BY <1>3 DEF Linear
  <2>2. /\ Cardinality(ahead[i]) <= Cardinality(ahead[j])
        /\ Cardinality(ahead[i]) # Cardinality(ahead[j])
    BY <1>2, <2>1, FS_Subset
  <2> QED BY <1>2, <2>2
<1>4. Rank \in [I -> 1..N]
  BY <1>1, <1>2
<1>5. ASSUME NEW i \in I, NEW j \in I
      PROVE  Rank[i] < Rank[j] <=> i \in ahead[j]
  <2>1. CASE i = j
    BY <1>2, <2>1 DEF Linear
  <2>2. CASE i # j
    <3>1. CASE i \in ahead[j]
      BY <1>2, <1>3, <3>1
    <3>2. CASE j \in ahead[i] /\ i \notin ahead[j]
      BY <1>2, <1>3, <3>2
    <3> QED BY <2>2, <3>1, <3>2 DEF Linear
  <2> QED BY <2>1, <2>2
<1>6. \A i, j \in I : Rank[i] = Rank[j] => i = j
  BY <1>1, <1>4, <1>5 DEF Linear
<1>7. Rank \in Injection(I, 1..N)
  BY <1>4, <1>6, Fun_IsInj
<1>8. Cardinality(1..N) = N /\ IsFiniteSet(1..N)
  BY <1>1, FS_Interval
<1>9. \A n \in 1..N : \E i \in I : Rank[i] = n
  <2> HIDE DEF Rank
  <2>1. Rank \in Surjection(I, 1..N)
    BY <1>7, <1>8, FS_Injection
  <2> QED BY <2>1, Fun_SurjectionProperties
<1>10. ASSUME NEW n \in 1..N
       PROVE  e[n] \in I /\ Rank[e[n]] = n
  <2>1. \E i \in I : Cardinality(ahead[i]) = n - 1
    BY <1>1, <1>2, <1>9
  <2>2. e[n] \in I /\ Cardinality(ahead[e[n]]) = n - 1
    BY <2>1 DEF Ranked
  <2> QED BY <1>1, <2>2
<1>11. e \in [1..N -> I]
  BY <1>10 DEF Ranked
<1> HIDE DEF e
<1>12. ASSUME NEW m \in 1..N, NEW n \in 1..N
       PROVE  e[m] \in ahead[e[n]] <=> m < n
  <2> HIDE DEF Rank, N
  <2>1. e[m] \in I /\ Rank[e[m]] = m /\ e[n] \in I /\ Rank[e[n]] = n
    BY <1>10
  <2>2. Rank[e[m]] < Rank[e[n]] <=> e[m] \in ahead[e[n]]
    BY <1>5, <2>1
  <2> QED BY <2>1, <2>2
<1>13. ASSUME NEW i \in I
       PROVE  \E n \in 1..N : e[n] = i
  <2> HIDE DEF Rank, N
  <2>1. Rank[i] \in 1..N
    BY <1>4
  <2>2. e[Rank[i]] \in I /\ Rank[e[Rank[i]]] = Rank[i]
    BY <1>10, <2>1
  <2>3. e[Rank[i]] = i
    BY <1>6, <2>2
  <2> QED BY <2>1, <2>3
<1> QED BY <1>1, <1>11, <1>12, <1>13 DEF Enumerates, e

(* e leads from the places of p to those places I of s where its elements  *)
(* come from, without changing their order.                                *)
Embeds(e, p, s, I) ==
  /\ Cardinality(I) \in Nat /\ p = [n \in 1..Cardinality(I) |-> s[e[n]]]
  /\ e \in [1..Cardinality(I) -> I]
  /\ \A m, n \in 1..Cardinality(I) : m < n <=> e[m] < e[n]
  /\ \A i \in I : \E n \in 1..Cardinality(I) : e[n] = i

LEMMA FinitePositions ==
  ASSUME NEW X, NEW s \in Seq(X), NEW I \in SUBSET (DOMAIN s)
  PROVE  IsFiniteSet(I)
<1>1. IsFiniteSet(1..Len(s))
  BY FS_Interval
<1>2. I \in SUBSET (1..Len(s))
  OBVIOUS
<1> QED BY <1>1, <1>2, FS_Subset

LEMMA PickedEmbeds ==
  ASSUME NEW X, NEW s \in Seq(X), NEW I \in SUBSET (DOMAIN s)
  PROVE  \E e : Embeds(e, Picked(s, I), s, I)
<1> DEFINE ahead == [i \in I |-> {j \in I : j < i}]
<1>1. Len(s) \in Nat /\ DOMAIN s = 1..Len(s)
  OBVIOUS
<1>2. IsFiniteSet(I)
  BY FinitePositions
<1>3. Linear(I, ahead)
  BY <1>1, <1>2 DEF Linear
<1>4. Enumerates(Ranked(I, ahead), I, ahead)
  BY <1>3, RankedEnumerates
<1> DEFINE e == Ranked(I, ahead)
<1>5. /\ Cardinality(I) \in Nat
      /\ e \in [1..Cardinality(I) -> I]
      /\ \A i \in I : \E n \in 1..Cardinality(I) : e[n] = i
  BY <1>4 DEF Enumerates
<1>6. \A m, n \in 1..Cardinality(I) : m < n <=> e[m] < e[n]
  BY <1>4, <1>5 DEF Enumerates
<1>7. Picked(s, I) = [n \in 1..Cardinality(I) |-> s[e[n]]]
  BY DEF Picked, Arranged
<1> QED BY <1>5, <1>6, <1>7 DEF Embeds

(* What is picked of a sequence is a sequence of the picked elements. *)
LEMMA PickedSeq ==
  ASSUME NEW X, NEW s \in Seq(X), NEW I \in SUBSET (DOMAIN s)
  PROVE  /\ Picked(s, I) \in Seq(X)
         /\ ToSet(Picked(s, I)) = {s[i] : i \in I}
         /\ Picked(s, I) = <<>> <=> I = {}
<1>1. PICK e : Embeds(e, Picked(s, I), s, I)
  BY PickedEmbeds
<1> DEFINE N == Cardinality(I)
           p == Picked(s, I)
<1>2. N \in Nat /\ e \in [1..N -> I]
  BY <1>1 DEF Embeds
<1>3. p = [n \in 1..N |-> s[e[n]]]
  BY <1>1 DEF Embeds
<1>4. \A i \in I : \E n \in 1..N : e[n] = i
  BY <1>1 DEF Embeds
<1>5. \A i \in I : s[i] \in X
  OBVIOUS
<1>6. p \in [1..N -> X]
  BY <1>2, <1>3, <1>5
<1> HIDE DEF p, N
<1>7. p \in Seq(X) /\ Len(p) = N /\ DOMAIN p = 1..N
  BY <1>2, <1>6
<1>8. ToSet(p) = {s[i] : i \in I}
  BY <1>2, <1>3, <1>4, <1>7 DEF ToSet
<1>9. p = <<>> <=> I = {}
  <2>1. p = <<>> <=> Len(p) = 0
    BY <1>7
  <2>2. IsFiniteSet(I)
    BY FinitePositions
  <2>3. N = 0 <=> I = {}
    BY <2>2, FS_EmptySet DEF N
  <2> QED BY <1>7, <2>1, <2>3
<1> QED BY <1>7, <1>8, <1>9 DEF p

-----------------------------------------------------------------------------
(* _load_backups.                                                          *)

Backup ==
  [id : Nat, source : Source, status : {"active", "deleted"}, created : Nat]

(* A directory of backups: no two of them are equal. *)
IsDir(d) ==
  /\ d \in Seq(Backup)
  /\ \A i, j \in DOMAIN d : d[i].id = d[j].id => i = j

ActiveOf(d, s) == {m \in ToSet(d) : m.source = s /\ m.status = "active"}

Before(d, i, j) ==
  \/ StampKey(d[i].created) > StampKey(d[j].created)
  \/ StampKey(d[i].created) = StampKey(d[j].created) /\ i < j

LEMMA StampKeyType ==
  ASSUME NEW t \in Nat
  PROVE  StampKey(t) \in Int
<1>1. Ticks \in Nat \ {0}
  BY PolicyAssumption
<1>2. t \div Ticks \in Int /\ t % Ticks \in Int
  BY <1>1
<1>3. (t \div Ticks) * (Ticks + 1) \in Int
  BY <1>1, <1>2
<1> QED BY <1>1, <1>2, <1>3 DEF StampKey

LEMMA BackupStamped ==
  ASSUME NEW m \in Backup
  PROVE  StampKey(m.created) \in Int
BY StampKeyType DEF Backup

(* e leads from the places of the loaded backups to those of the directory.*)
Loads(e, d, s) ==
  LET N == Cardinality(Mine(d, s))
  IN  /\ N \in Nat /\ LoadBackups(d, s) = [n \in 1..N |-> d[e[n]]]
      /\ e \in [1..N -> Mine(d, s)]
      /\ \A m, n \in 1..N : m < n <=> Before(d, e[m], e[n])
      /\ \A i \in Mine(d, s) : \E n \in 1..N : e[n] = i

LEMMA LoadBackupsLoads ==
  ASSUME NEW d, IsDir(d), NEW s
  PROVE  \E e : Loads(e, d, s)
<1> DEFINE I == Mine(d, s)
           Key(i) == StampKey(d[i].created)
           ahead == [i \in I |-> {j \in I : Key(j) > Key(i) \/ (Key(j) = Key(i) /\ j < i)}]
           e == Ranked(I, ahead)
<1>1. d \in Seq(Backup) /\ I \in SUBSET (DOMAIN d)
  BY DEF IsDir, Mine
<1>2. \A i \in I : i \in Int
  BY <1>1
<1>3. \A i \in I : Key(i) \in Int
  BY <1>1, BackupStamped
<1>4. IsFiniteSet(I)
  BY <1>1, FinitePositions
<1>5. \A i \in I : ahead[i] \subseteq I
  OBVIOUS
<1>6. \A i, j \in I : j \in ahead[i] <=> Key(j) > Key(i) \/ (Key(j) = Key(i) /\ j < i)
  OBVIOUS
<1>7. \A i, j \in I : j \in ahead[i] <=> Before(d, j, i)
  BY <1>6 DEF Before
<1>8. LoadBackups(d, s) = [n \in 1..Cardinality(I) |-> d[e[n]]]
  BY DEF LoadBackups, Arranged
<1> HIDE DEF I, Key, ahead
<1>9. Linear(I, ahead)
  BY <1>2, <1>3, <1>4, <1>5, <1>6 DEF Linear
<1>10. Enumerates(e, I, ahead)
  BY <1>9, RankedEnumerates
<1> HIDE DEF e
<1>11. \A m, n \in 1..Cardinality(I) : m < n <=> Before(d, e[m], e[n])
  BY <1>7, <1>10 DEF Enumerates
<1> QED BY <1>8, <1>10, <1>11 DEF Enumerates, Loads, I

(* B lists the backups A without repetition, newest stamp first. *)
Lists(B, A) ==
  /\ B \in Seq(Backup)
  /\ \A i, j \in DOMAIN B : B[i] = B[j] => i = j
  /\ \A i, j \in DOMAIN B : i <= j => StampKey(B[i].created) >= StampKey(B[j].created)
  /\ ToSet(B) = A

LEMMA LoadBackupsLists ==
  ASSUME NEW d, IsDir(d), NEW s
  PROVE  Lists(LoadBackups(d, s), ActiveOf(d, s))
<1> DEFINE B == LoadBackups(d, s)
           I == Mine(d, s)
           N == Cardinality(I)
<1>1. PICK e : Loads(e, d, s)
  BY LoadBackupsLoads
<1>2. N \in Nat /\ e \in [1..N -> I] /\ B = [n \in 1..N |-> d[e[n]]]
  BY <1>1 DEF Loads
<1>3. \A m, n \in 1..N : m < n <=> Before(d, e[m], e[n])
  BY <1>1 DEF Loads
<1>4. \A i \in I : \E n \in 1..N : e[n] = i
  BY <1>1 DEF Loads
<1> HIDE DEF N
<1>5. d \in Seq(Backup) /\ I \subseteq DOMAIN d
  BY DEF IsDir, Mine
<1>6. \A i \in I : d[i] \in Backup
  BY <1>5
<1>7. \A i, j \in I : d[i] = d[j] => i = j
  BY <1>5 DEF IsDir
<1>8. \A n \in 1..N : e[n] \in I /\ B[n] = d[e[n]]
  BY <1>2
<1>9. B \in [1..N -> Backup]
  BY <1>2, <1>6
<1>10. ActiveOf(d, s) = {d[i] : i \in I}
  BY <1>5 DEF ActiveOf, Mine, ToSet
<1> HIDE DEF B, I
<1>11. B \in Seq(Backup) /\ Len(B) = N /\ DOMAIN B = 1..N
  BY <1>2, <1>9
<1>12. ASSUME NEW i \in 1..N, NEW j \in 1..N, B[i] = B[j]
       PROVE  i = j
  <2>1. e[i] = e[j]
    BY <1>7, <1>8, <1>12
  <2>2. i < j <=> Before(d, e[i], e[j])
    BY <1>3
  <2>3. j < i <=> Before(d, e[j], e[i])
    BY <1>3
  <2>4. ~(i < j /\ ~(j < i)) /\ ~(j < i /\ ~(i < j))
    BY <2>1, <2>2, <2>3
  <2> QED BY <1>2, <2>4
<1>13. ASSUME NEW i \in 1..N, NEW j \in 1..N, i <= j
       PROVE  StampKey(B[i].created) >= StampKey(B[j].created)
  <2>1. StampKey(B[i].created) \in Int /\ StampKey(B[j].created) \in Int
    BY <1>9, BackupStamped
  <2>2. CASE i = j
    BY <2>1, <2>2
  <2>3. CASE i < j
    <3>1. Before(d, e[i], e[j])
      BY <1>3, <2>3
    <3>2. \/ StampKey(B[i].created) > StampKey(B[j].created)
          \/ StampKey(B[i].created) = StampKey(B[j].created)
      BY <1>8, <3>1 DEF Before
    <3> QED BY <2>1, <3>2
  <2> QED BY <1>2, <1>13, <2>2, <2>3
<1>14. ToSet(B) = ActiveOf(d, s)
  <2>1. ToSet(B) = {B[n] : n \in 1..N}
    BY <1>11 DEF ToSet
  <2> QED BY <1>4, <1>8, <1>10, <2>1
<1> QED BY <1>11, <1>12, <1>13, <1>14 DEF Lists, B

LEMMA ListBijection ==
  ASSUME NEW A, NEW B, Lists(B, A)
  PROVE  /\ B \in Bijection(1..Len(B), A)
         /\ IsFiniteSet(A) /\ Cardinality(A) = Len(B)
         /\ Len(B) \in Nat /\ DOMAIN B = 1..Len(B)
<1>1. Len(B) \in Nat /\ DOMAIN B = 1..Len(B) /\ B \in [1..Len(B) -> Backup]
  BY DEF Lists
<1>2. \A i, j \in 1..Len(B) : B[i] = B[j] => i = j
  BY <1>1 DEF Lists
<1>3. A = {B[i] : i \in 1..Len(B)}
  BY <1>1 DEF Lists, ToSet
<1>4. B \in [1..Len(B) -> A] /\ \A m \in A : \E i \in 1..Len(B) : B[i] = m
  BY <1>1, <1>3
<1>5. B \in Bijection(1..Len(B), A)
  BY <1>2, <1>4, Fun_IsBij
<1>6. IsFiniteSet(1..Len(B)) /\ Cardinality(1..Len(B)) = Len(B)
  BY <1>1, FS_Interval
<1>7. ExistsBijection(1..Len(B), A)
  BY <1>5 DEF ExistsBijection
<1>8. IsFiniteSet(A) /\ Cardinality(A) = Len(B)
  BY <1>6, <1>7, FS_Bijection
<1> QED BY <1>1, <1>5, <1>8

(* With different stamps, the place of a backup is the number of later ones.*)
Later(A, m) == {x \in A : StampKey(x.created) > StampKey(m.created)}

Distinguished(A) ==
  \A m, x \in A : StampKey(m.created) = StampKey(x.created) => m = x

LEMMA PlaceIsRank ==
  ASSUME NEW A, NEW B, Lists(B, A), Distinguished(A), NEW n \in DOMAIN B
  PROVE  IsFiniteSet(Later(A, B[n])) /\ Cardinality(Later(A, B[n])) = n - 1
<1> DEFINE above == Later(A, B[n])
           f == [k \in 1..(n - 1) |-> B[k]]
<1>1. Len(B) \in Nat /\ DOMAIN B = 1..Len(B) /\ \A i \in 1..Len(B) : B[i] \in Backup
  BY DEF Lists
<1>2. A = {B[i] : i \in 1..Len(B)}
  BY <1>1 DEF Lists, ToSet
<1>3. \A i \in 1..Len(B) : StampKey(B[i].created) \in Int
  BY <1>1, BackupStamped
<1>4. \A i, j \in 1..Len(B) : i <= j => StampKey(B[i].created) >= StampKey(B[j].created)
  BY <1>1 DEF Lists
<1>5. \A i, j \in 1..Len(B) : StampKey(B[i].created) = StampKey(B[j].created) => i = j
  BY <1>1, <1>2 DEF Lists, Distinguished
<1>6. n \in 1..Len(B) /\ \A k \in 1..(n - 1) : k \in 1..Len(B) /\ k < n
  BY <1>1
<1>7. ASSUME NEW k \in 1..Len(B)
      PROVE  StampKey(B[k].created) > StampKey(B[n].created) <=> k < n
  <2>1. CASE k < n
    BY <1>3, <1>4, <1>5, <1>6, <2>1
  <2>2. CASE n <= k
    BY <1>3, <1>4, <1>6, <2>2
  <2> QED BY <1>6, <2>1, <2>2
<1>8. above = {B[k] : k \in 1..(n - 1)}
  <2>1. \A k \in 1..(n - 1) : B[k] \in above
    BY <1>2, <1>6, <1>7 DEF Later
  <2>2. ASSUME NEW x \in above
        PROVE  \E k \in 1..(n - 1) : x = B[k]
    <3>1. PICK k \in 1..Len(B) : x = B[k]
      BY <1>2 DEF Later
    <3>2. k < n
      BY <1>7, <3>1 DEF Later
    <3> QED BY <1>6, <3>1, <3>2
  <2> HIDE DEF above
  <2> QED BY <2>1, <2>2
<1>9. f \in [1..(n - 1) -> above] /\ \A x \in above : \E k \in 1..(n - 1) : f[k] = x
  BY <1>8
<1>10. \A j, k \in 1..(n - 1) : f[j] = f[k] => j = k
  BY <1>5, <1>6
<1> HIDE DEF f, above
<1>11. f \in Bijection(1..(n - 1), above)
  BY <1>9, <1>10, Fun_IsBij
<1>12. IsFiniteSet(1..(n - 1)) /\ Cardinality(1..(n - 1)) = n - 1
  <2>1. n \in Int /\ n >= 1
    BY <1>6
  <2> QED BY <2>1, FS_Interval
<1>13. ExistsBijection(1..(n - 1), above)
  BY <1>11 DEF ExistsBijection
<1>14. IsFiniteSet(above) /\ Cardinality(above) = n - 1
  BY <1>12, <1>13, FS_Bijection
<1> QED BY <1>14 DEF above

(* So there is only one way to list them. *)
LEMMA ListUnique ==
  ASSUME NEW A, NEW B, NEW C, Lists(B, A), Lists(C, A), Distinguished(A)
  PROVE  B = C
<1>1. /\ Len(B) = Cardinality(A) /\ Len(C) = Cardinality(A) /\ Len(B) \in Nat
      /\ DOMAIN B = 1..Len(B) /\ DOMAIN C = 1..Len(B)
  BY ListBijection
<1>2. \A n \in 1..Len(B) : B[n] \in A /\ C[n] \in A
  BY <1>1 DEF Lists, ToSet
<1>3. \A m \in A : StampKey(m.created) \in Int
  <2>1. \A m \in A : m \in Backup
    BY <1>1 DEF Lists, ToSet
  <2> QED BY <2>1, BackupStamped
<1>4. ASSUME NEW m \in A, NEW x \in A, StampKey(m.created) > StampKey(x.created),
             IsFiniteSet(Later(A, x)),
             Cardinality(Later(A, m)) = Cardinality(Later(A, x))
      PROVE  FALSE
  <2>1. Later(A, m) \subseteq Later(A, x)
    BY <1>3, <1>4 DEF Later
  <2>2. m \in Later(A, x) /\ m \notin Later(A, m)
    BY <1>3, <1>4 DEF Later
  <2>3. Later(A, m) = Later(A, x)
    BY <1>4, <2>1, FS_Subset
  <2> QED BY <2>2, <2>3
<1>5. ASSUME NEW n \in 1..Len(B)
      PROVE  B[n] = C[n]
  <2>1. /\ IsFiniteSet(Later(A, B[n])) /\ Cardinality(Later(A, B[n])) = n - 1
        /\ IsFiniteSet(Later(A, C[n])) /\ Cardinality(Later(A, C[n])) = n - 1
    BY <1>1, PlaceIsRank
  <2>2. ~(StampKey(B[n].created) > StampKey(C[n].created))
    BY <1>2, <1>4, <2>1
  <2>3. ~(StampKey(C[n].created) > StampKey(B[n].created))
    BY <1>2, <1>4, <2>1
  <2>4. StampKey(B[n].created) = StampKey(C[n].created)
    BY <1>2, <1>3, <2>2, <2>3
  <2> QED BY <1>2, <2>4 DEF Distinguished
<1> QED BY <1>1, <1>5 DEF Lists

-----------------------------------------------------------------------------
(* What _apply deletes, as positions in the list of backups.               *)

LEMMA Least ==
  ASSUME NEW S \in SUBSET Nat, S # {}
  PROVE  \E n \in S : \A m \in S : n <= m
<1> DEFINE R == OpToRel(<, Nat)
<1>1. \A m, n \in Nat : m < n => <<m, n>> \in R
  BY DEF OpToRel
<1> HIDE DEF R
<1>2. IsWellFoundedOn(R, Nat)
  BY NatLessThanWellFounded DEF R
<1>3. PICK n \in S : \A m \in S : ~ (<<m, n>> \in R)
  BY <1>2, WFMin
<1>4. n \in Nat /\ \A m \in S : m \in Nat /\ ~(m < n)
  BY <1>1, <1>3
<1>5. \A m \in S : n <= m
  BY <1>4
<1> QED BY <1>5

LEMMA ConcatSet ==
  ASSUME NEW X, NEW p \in Seq(X), NEW q \in Seq(X)
  PROVE  p \o q \in Seq(X) /\ ToSet(p \o q) = ToSet(p) \cup ToSet(q)
<1>1. /\ p \o q \in Seq(X) /\ Len(p \o q) = Len(p) + Len(q)
      /\ \A i \in 1..(Len(p) + Len(q)) :
           (p \o q)[i] = IF i <= Len(p) THEN p[i] ELSE q[i - Len(p)]
  BY ConcatProperties
<1>2. Len(p) \in Nat /\ Len(q) \in Nat /\ DOMAIN p = 1..Len(p) /\ DOMAIN q = 1..Len(q)
  OBVIOUS
<1>3. DOMAIN (p \o q) = 1..(Len(p) + Len(q))
  BY <1>1
<1>4. ToSet(p \o q) \subseteq ToSet(p) \cup ToSet(q)
  <2>1. SUFFICES ASSUME NEW i \in 1..(Len(p) + Len(q))
                 PROVE  (p \o q)[i] \in ToSet(p) \cup ToSet(q)
    BY <1>3 DEF ToSet
  <2>2. CASE i <= Len(p)
    BY <1>1, <1>2, <2>2 DEF ToSet
  <2>3. CASE ~(i <= Len(p))
    <3>1. i - Len(p) \in 1..Len(q) /\ (p \o q)[i] = q[i - Len(p)]
      BY <1>1, <1>2, <2>3
    <3> QED BY <1>2, <3>1 DEF ToSet
  <2> QED BY <2>2, <2>3
<1>5. ASSUME NEW i \in 1..Len(p)
      PROVE  p[i] \in ToSet(p \o q)
  <2>1. i \in 1..(Len(p) + Len(q)) /\ (p \o q)[i] = p[i]
    BY <1>1, <1>2
  <2> QED BY <1>3, <2>1 DEF ToSet
<1>6. ASSUME NEW i \in 1..Len(q)
      PROVE  q[i] \in ToSet(p \o q)
  <2>1. /\ i + Len(p) \in 1..(Len(p) + Len(q)) /\ ~(i + Len(p) <= Len(p))
        /\ (i + Len(p)) - Len(p) = i
    BY <1>2
  <2>2. (p \o q)[i + Len(p)] = q[i]
    BY <1>1, <2>1
  <2> QED BY <1>3, <2>1, <2>2 DEF ToSet
<1>7. ToSet(p) \cup ToSet(q) \subseteq ToSet(p \o q)
  <2> DEFINE all == ToSet(p \o q)
  <2> HIDE DEF all
  <2> QED BY <1>2, <1>5, <1>6 DEF ToSet, all
<1> QED BY <1>1, <1>4, <1>7

(* dict.fromkeys keeps every element, once. *)
LEMMA DedupedSeq ==
  ASSUME NEW X, NEW s \in Seq(X)
  PROVE  /\ Deduped(s) \in Seq(X)
         /\ ToSet(Deduped(s)) = ToSet(s)
         /\ Cardinality(ToSet(Deduped(s))) = Len(Deduped(s))
         /\ Deduped(s) = <<>> <=> ToSet(s) = {}
<1> DEFINE I == {n \in DOMAIN s : \A k \in 1..(n - 1) : s[k] # s[n]}
           p == Deduped(s)
           N == Cardinality(I)
<1>1. I \in SUBSET (DOMAIN s) /\ p = Picked(s, I)
  BY DEF Deduped
<1>2. Len(s) \in Nat /\ DOMAIN s = 1..Len(s)
  OBVIOUS
<1>3. \A n \in I : n \in 1..Len(s) /\ \A k \in 1..(n - 1) : s[k] # s[n]
  BY <1>2
<1>4. \A n \in 1..Len(s) : (\A k \in 1..(n - 1) : s[k] # s[n]) => n \in I
  BY <1>2
<1> HIDE DEF I, p, N
<1>5. /\ p \in Seq(X) /\ ToSet(p) = {s[i] : i \in I} /\ (p = <<>> <=> I = {})
  BY <1>1, PickedSeq
<1>6. ASSUME NEW n \in 1..Len(s)
      PROVE  \E i \in I : s[i] = s[n]
  <2> DEFINE S == {k \in 1..Len(s) : s[k] = s[n]}
  <2>1. S \in SUBSET Nat /\ n \in S
    OBVIOUS
  <2>2. PICK i \in S : \A k \in S : i <= k
    BY <2>1, Least
  <2>3. i \in 1..Len(s) /\ s[i] = s[n]
    BY <2>2
  <2>4. \A k \in 1..(i - 1) : k \in 1..Len(s) /\ ~(i <= k)
    BY <1>2, <2>3
  <2>5. \A k \in 1..(i - 1) : s[k] # s[i]
    BY <2>2, <2>3, <2>4
  <2> QED BY <1>4, <2>3, <2>5
<1>7. ToSet(p) = ToSet(s)
  <2>1. ToSet(s) = {s[n] : n \in 1..Len(s)}
    BY <1>2 DEF ToSet
  <2>2. \A i \in I : s[i] \in ToSet(s)
    BY <1>3, <2>1
  <2>3. \A n \in 1..Len(s) : s[n] \in ToSet(p)
    BY <1>5, <1>6
  <2>4. ToSet(p) \subseteq ToSet(s)
    BY <1>5, <2>2
  <2>5. ToSet(s) \subseteq ToSet(p)
    BY <2>1, <2>3
  <2> QED BY <2>4, <2>5
<1>8. PICK e : Embeds(e, p, s, I)
  BY <1>1, PickedEmbeds
<1>9. N \in Nat /\ e \in [1..N -> I] /\ p = [n \in 1..N |-> s[e[n]]]
  BY <1>8 DEF Embeds, N
<1>10. \A m, n \in 1..N : m < n <=> e[m] < e[n]
  BY <1>8 DEF Embeds, N
<1>11. \A n \in 1..N : e[n] \in I /\ e[n] \in 1..Len(s) /\ p[n] = s[e[n]]
  BY <1>3, <1>9
<1>12. ASSUME NEW m \in 1..N, NEW n \in 1..N, m < n
       PROVE  p[m] # p[n]
  <2>1. e[m] < e[n]
    BY <1>10, <1>12
  <2>2. e[m] \in 1..(e[n] - 1)
    BY <1>2, <1>11, <2>1
  <2> QED BY <1>3, <1>11, <2>2
<1>13. \A m, n \in 1..N : p[m] = p[n] => m = n
  BY <1>9, <1>12
<1>14. Len(p) = N /\ DOMAIN p = 1..N
  BY <1>9
<1>15. p \in [1..N -> ToSet(p)] /\ \A x \in ToSet(p) : \E n \in 1..N : p[n] = x
  BY <1>5, <1>14 DEF ToSet
<1>16. p \in Bijection(1..N, ToSet(p))
  BY <1>13, <1>15, Fun_IsBij
<1>17. IsFiniteSet(1..N) /\ Cardinality(1..N) = N
  BY <1>9, FS_Interval
<1>18. ExistsBijection(1..N, ToSet(p))
  BY <1>16 DEF ExistsBijection
<1>19. Cardinality(ToSet(p)) = N
  BY <1>17, <1>18, FS_Bijection
<1>20. I = {} <=> ToSet(s) = {}
  BY <1>2, <1>3, <1>6 DEF ToSet
<1> QED BY <1>5, <1>7, <1>14, <1>19, <1>20 DEF p

At(B, I) == {B[i] : i \in I}

(* Where backups[k:] starts. *)
SliceStart(B, k) ==
  IF k >= 0 THEN k ELSE IF Len(B) + k > 0 THEN Len(B) + k ELSE 0

LEMMA SliceSet ==
  ASSUME NEW X, NEW B \in Seq(X), NEW k \in Int
  PROVE  /\ SliceFrom(B, k) \in Seq(X)
         /\ ToSet(SliceFrom(B, k)) = At(B, {i \in DOMAIN B : i > SliceStart(B, k)})
<1> DEFINE st == SliceStart(B, k)
           p == SliceFrom(B, k)
           I == {i \in DOMAIN B : i > st}
<1>1. Len(B) \in Nat /\ DOMAIN B = 1..Len(B) /\ \A i \in 1..Len(B) : B[i] \in X
  OBVIOUS
<1>2. st \in Nat
  BY <1>1 DEF SliceStart
<1>3. p = SubSeq(B, st + 1, Len(B))
  BY DEF SliceFrom, SliceStart
<1>4. \A i \in I : i \in 1..Len(B) /\ i > st
  BY <1>1
<1>5. \A i \in 1..Len(B) : i > st => i \in I
  BY <1>1
<1> HIDE DEF st, p, I
<1>6. \A i \in (st + 1)..Len(B) : i \in 1..Len(B)
  BY <1>1, <1>2
<1>7. /\ p \in Seq(X)
      /\ Len(p) = IF st + 1 <= Len(B) THEN Len(B) - (st + 1) + 1 ELSE 0
      /\ \A j \in 1..(Len(B) - (st + 1) + 1) : p[j] = B[(st + 1) + j - 1]
  BY <1>1, <1>2, <1>3, <1>6, SubSeqProperties
<1>8. DOMAIN p = 1..Len(p) /\ Len(p) \in Nat
  BY <1>7
<1> DEFINE n == Len(B)
           N == Len(p)
<1>9. n \in Nat /\ N \in Nat /\ N = IF st + 1 <= n THEN n - (st + 1) + 1 ELSE 0
  BY <1>1, <1>7, <1>8
<1>10. \A j \in 1..N : st + 1 <= n /\ N = n - (st + 1) + 1
  <2> HIDE DEF n, N
  <2> QED BY <1>2, <1>9
<1>11. \A i \in 1..n : i > st => st + 1 <= n /\ N = n - (st + 1) + 1
  <2> HIDE DEF n, N
  <2> QED BY <1>2, <1>9
<1>12. ASSUME NEW j \in 1..Len(p)
      PROVE  p[j] \in At(B, I)
  <2>1. st + 1 <= Len(B) /\ Len(p) = Len(B) - (st + 1) + 1
    BY <1>10
  <2>2. p[j] = B[(st + 1) + j - 1]
    BY <1>7, <2>1
  <2>3. (st + 1) + j - 1 \in 1..Len(B) /\ (st + 1) + j - 1 > st
    BY <1>1, <1>2, <2>1
  <2> QED BY <1>5, <2>2, <2>3 DEF At
<1>13. ASSUME NEW i \in I
       PROVE  B[i] \in ToSet(p)
  <2>1. i \in 1..Len(B) /\ i > st
    BY <1>4
  <2>2. st + 1 <= Len(B) /\ Len(p) = Len(B) - (st + 1) + 1
    BY <1>11, <2>1
  <2>3. i - st \in 1..Len(p) /\ (st + 1) + (i - st) - 1 = i
    BY <1>1, <1>2, <2>1, <2>2
  <2>4. p[i - st] = B[i]
    BY <1>7, <2>2, <2>3
  <2> QED BY <1>8, <2>3, <2>4 DEF ToSet
<1>14. ToSet(p) \subseteq At(B, I)
  BY <1>8, <1>12 DEF ToSet
<1>15. At(B, I) \subseteq ToSet(p)
  BY <1>13 DEF At
<1> QED BY <1>7, <1>14, <1>15 DEF p, I, st

(* The positions that each rule drops. *)
DropsLast(B, policy) ==
  {i \in DOMAIN B :
     "keep_last" \in DOMAIN policy /\ i > SliceStart(B, policy["keep_last"])}

DropsOld(B, policy, t) ==
  {i \in DOMAIN B :
     "max_age_days" \in DOMAIN policy /\ B[i].created < t - policy["max_age_days"] * DayLen}

DropsGFS(B, policy) ==
  {i \in DOMAIN B :
     /\ DOMAIN policy \cap Rule # {}
     /\ KeptFor(RulesOn(policy), GFSSeen(B, RulesOn(policy))[i - 1], B[i]) = {}}

Drops(B, policy, t) ==
  DropsLast(B, policy) \cup DropsOld(B, policy, t) \cup DropsGFS(B, policy)

LEMMA RulesDeleteSet ==
  ASSUME NEW B \in Seq(Backup), NEW policy, NEW t,
         "keep_last" \in DOMAIN policy => policy["keep_last"] \in Int
  PROVE  /\ RulesDelete(B, policy, t) \in Seq(Backup)
         /\ ToSet(RulesDelete(B, policy, t)) = At(B, Drops(B, policy, t))
<1> DEFINE p == IF "keep_last" \in DOMAIN policy
                  THEN SliceFrom(B, policy["keep_last"]) ELSE <<>>
           q == IF "max_age_days" \in DOMAIN policy
                  THEN OlderThan(B, t - policy["max_age_days"] * DayLen) ELSE <<>>
           r == IF DOMAIN policy \cap Rule # {}
                  THEN GFSDeletes(B, RulesOn(policy)) ELSE <<>>
<1>1. RulesDelete(B, policy, t) = (p \o q) \o r
  BY DEF RulesDelete
<1>2. <<>> \in Seq(Backup) /\ ToSet(<<>>) = {} /\ \A I : I = {} => At(B, I) = {}
  BY DEF ToSet, At
<1>3. p \in Seq(Backup) /\ ToSet(p) = At(B, DropsLast(B, policy))
  <2>1. CASE "keep_last" \in DOMAIN policy
    <3>1. DropsLast(B, policy) = {i \in DOMAIN B : i > SliceStart(B, policy["keep_last"])}
      BY <2>1 DEF DropsLast
    <3>2. p = SliceFrom(B, policy["keep_last"]) /\ policy["keep_last"] \in Int
      BY <2>1
    <3> HIDE DEF p
    <3> QED BY <3>1, <3>2, SliceSet
  <2>2. CASE "keep_last" \notin DOMAIN policy
    <3>1. DropsLast(B, policy) = {}
      BY <2>2 DEF DropsLast
    <3> QED BY <1>2, <2>2, <3>1
  <2> QED BY <2>1, <2>2
<1>4. q \in Seq(Backup) /\ ToSet(q) = At(B, DropsOld(B, policy, t))
  <2>1. CASE "max_age_days" \in DOMAIN policy
    <3> DEFINE I == DropsOld(B, policy, t)
    <3>1. I = {i \in DOMAIN B : B[i].created < t - policy["max_age_days"] * DayLen}
      BY <2>1 DEF DropsOld
    <3>2. q = Picked(B, I)
      BY <2>1, <3>1 DEF OlderThan
    <3>3. I \in SUBSET (DOMAIN B)
      BY DEF DropsOld
    <3> HIDE DEF q, I
    <3>4. q \in Seq(Backup) /\ ToSet(q) = {B[i] : i \in I}
      BY <3>2, <3>3, PickedSeq
    <3> QED BY <3>4 DEF At, I
  <2>2. CASE "max_age_days" \notin DOMAIN policy
    <3>1. DropsOld(B, policy, t) = {}
      BY <2>2 DEF DropsOld
    <3> QED BY <1>2, <2>2, <3>1
  <2> QED BY <2>1, <2>2
<1>5. r \in Seq(Backup) /\ ToSet(r) = At(B, DropsGFS(B, policy))
  <2>1. CASE DOMAIN policy \cap Rule # {}
    <3> DEFINE I == DropsGFS(B, policy)
    <3>1. I = {n \in DOMAIN B :
                 KeptFor(RulesOn(policy), GFSSeen(B, RulesOn(policy))[n - 1], B[n]) = {}}
      BY <2>1 DEF DropsGFS
    <3>2. r = Picked(B, I)
      BY <2>1, <3>1 DEF GFSDeletes
    <3>3. I \in SUBSET (DOMAIN B)
      BY DEF DropsGFS
    <3> HIDE DEF r, I
    <3>4. r \in Seq(Backup) /\ ToSet(r) = {B[i] : i \in I}
      BY <3>2, <3>3, PickedSeq
    <3> QED BY <3>4 DEF At, I
  <2>2. CASE DOMAIN policy \cap Rule = {}
    <3>1. DropsGFS(B, policy) = {}
      BY <2>2 DEF DropsGFS
    <3> QED BY <1>2, <2>2, <3>1
  <2> QED BY <2>1, <2>2
<1> HIDE DEF p, q, r
<1>6. p \o q \in Seq(Backup) /\ ToSet(p \o q) = ToSet(p) \cup ToSet(q)
  BY <1>3, <1>4, ConcatSet
<1>7. /\ (p \o q) \o r \in Seq(Backup)
      /\ ToSet((p \o q) \o r) = ToSet(p \o q) \cup ToSet(r)
  <2> DEFINE pq == p \o q
  <2>1. pq \in Seq(Backup) /\ r \in Seq(Backup)
    BY <1>5, <1>6
  <2> HIDE DEF pq
  <2>2. pq \o r \in Seq(Backup) /\ ToSet(pq \o r) = ToSet(pq) \cup ToSet(r)
    BY <2>1, ConcatSet
  <2> QED BY <2>2 DEF pq
<1>8. At(B, Drops(B, policy, t))
        = At(B, DropsLast(B, policy)) \cup At(B, DropsOld(B, policy, t))
            \cup At(B, DropsGFS(B, policy))
  BY DEF Drops, At
<1> QED BY <1>1, <1>3, <1>4, <1>5, <1>6, <1>7, <1>8

LEMMA ApplyPolicySet ==
  ASSUME NEW B \in Seq(Backup), NEW policy, NEW t,
         "keep_last" \in DOMAIN policy => policy["keep_last"] \in Int
  PROVE  LET gone == ApplyPolicy(B, policy, t)
         IN  /\ ToSet(gone) = At(B, Drops(B, policy, t))
             /\ Cardinality(ToSet(gone)) = Len(gone)
             /\ gone = <<>> <=> Drops(B, policy, t) = {}
<1> DEFINE all == RulesDelete(B, policy, t)
<1>1. all \in Seq(Backup) /\ ToSet(all) = At(B, Drops(B, policy, t))
  BY RulesDeleteSet
<1>2. ApplyPolicy(B, policy, t) = Deduped(all)
  BY DEF ApplyPolicy
<1> HIDE DEF all
<1>3. /\ ToSet(Deduped(all)) = ToSet(all)
      /\ Cardinality(ToSet(Deduped(all))) = Len(Deduped(all))
      /\ Deduped(all) = <<>> <=> ToSet(all) = {}
  BY <1>1, DedupedSeq
<1>4. At(B, Drops(B, policy, t)) = {} <=> Drops(B, policy, t) = {}
  BY DEF At
<1> QED BY <1>1, <1>2, <1>3, <1>4

-----------------------------------------------------------------------------
(* Types.                                                                  *)

Manifest(n, t) ==
  [id : 1..n, source : Source, status : {"active", "deleted"}, created : 0..t]

LEMMA CreateTypeOK ==
  ASSUME TypeOK, NEW s \in Source, Create(s)
  PROVE  TypeOK'
<1> DEFINE n == Len(dir)
           m == [id |-> n + 1, source |-> s, status |-> "active", created |-> now]
<1>1. /\ dir \in Seq(Manifest(n, now)) /\ n \in Nat /\ DOMAIN dir = 1..n
      /\ now \in Nat /\ now' = now /\ n < MaxBackups /\ MaxBackups \in Nat
  BY PolicyAssumption DEF TypeOK, Create, Manifest, Time
<1>2. dir' = Append(dir, m) \/ dir' = <<m>> \o dir
  BY DEF Create
<1>3. m \in Manifest(n + 1, now)
  BY <1>1 DEF Manifest
<1>4. \A i \in 1..n : dir[i] \in Manifest(n + 1, now) /\ dir[i].id # n + 1
  <2>1. \A i \in 1..n : dir[i] \in Manifest(n, now)
    BY <1>1
  <2> HIDE DEF n
  <2>2. \A x \in Manifest(n, now) : x \in Manifest(n + 1, now) /\ x.id # n + 1
    BY <1>1 DEF Manifest
  <2> QED BY <2>1, <2>2
<1>5. \A i, j \in 1..n : dir[i].id = dir[j].id => i = j
  BY <1>1 DEF TypeOK
<1>6. m.id = n + 1
  OBVIOUS
<1> HIDE DEF m
<1>7. ASSUME Len(dir') = n + 1, DOMAIN dir' = 1..(n + 1),
             dir' \in Seq(Manifest(n + 1, now)),
             \A i, j \in 1..(n + 1) : dir'[i].id = dir'[j].id => i = j
      PROVE  TypeOK'
  <2>1. dir' \in Seq(Manifest(Len(dir'), now'))
    BY <1>1, <1>7
  <2>2. Len(dir') <= MaxBackups /\ now' \in Time
    <3> HIDE DEF n
    <3> QED BY <1>1, <1>7 DEF TypeOK
  <2> QED BY <1>7, <2>1, <2>2 DEF TypeOK, Manifest
<1>8. CASE dir' = Append(dir, m)
  <2>1. Len(dir') = n + 1 /\ \A i \in 1..n : dir'[i] = dir[i]
    BY <1>1, <1>8
  <2>2. dir'[n + 1] = m /\ DOMAIN dir' = 1..(n + 1)
    BY <1>1, <1>8
  <2>3. \A i \in 1..(n + 1) : i \in 1..n \/ i = n + 1
    BY <1>1
  <2>4. \A i \in 1..(n + 1) : dir'[i] \in Manifest(n + 1, now)
    BY <1>3, <1>4, <2>1, <2>2, <2>3
  <2>5. dir' \in Seq(Manifest(n + 1, now))
    BY <1>1, <1>8, <2>1, <2>2, <2>4
  <2>6. ASSUME NEW i \in 1..(n + 1), NEW j \in 1..(n + 1), dir'[i].id = dir'[j].id
        PROVE  i = j
    <3>1. CASE i \in 1..n /\ j \in 1..n
      BY <1>5, <2>1, <2>6, <3>1
    <3>2. CASE i \in 1..n /\ j = n + 1
      BY <1>4, <1>6, <2>1, <2>2, <2>6, <3>2
    <3>3. CASE i = n + 1 /\ j \in 1..n
      BY <1>4, <1>6, <2>1, <2>2, <2>6, <3>3
    <3> QED BY <2>3, <3>1, <3>2, <3>3
  <2> QED BY <1>7, <2>1, <2>2, <2>5, <2>6
<1>9. CASE dir' = <<m>> \o dir
  <2>1. Len(dir') = n + 1 /\ \A i \in 2..(n + 1) : dir'[i] = dir[i - 1]
    BY <1>1, <1>9
  <2>2. dir'[1] = m /\ DOMAIN dir' = 1..(n + 1)
    BY <1>1, <1>9
  <2>3. \A i \in 1..(n + 1) : (i \in 2..(n + 1) /\ i - 1 \in 1..n) \/ i = 1
    BY <1>1
  <2>4. \A i \in 1..(n + 1) : dir'[i] \in Manifest(n + 1, now)
    BY <1>3, <1>4, <2>1, <2>2, <2>3
  <2>5. dir' \in Seq(Manifest(n + 1, now))
    <3> DEFINE Y == Manifest(n + 1, now)
    <3>1. <<m>> \in Seq(Y) /\ dir \in Seq(Y)
      BY <1>1, <1>3, <1>4
    <3> HIDE DEF Y
    <3>2. <<m>> \o dir \in Seq(Y)
      BY <3>1, ConcatProperties
    <3> QED BY <1>9, <3>2 DEF Y
  <2>6. ASSUME NEW i \in 1..(n + 1), NEW j \in 1..(n + 1), dir'[i].id = dir'[j].id
        PROVE  i = j
    <3>1. CASE i \in 2..(n + 1) /\ j \in 2..(n + 1)
      <4>1. i - 1 \in 1..n /\ j - 1 \in 1..n /\ dir[i - 1].id = dir[j - 1].id
        BY <1>1, <2>1, <2>6, <3>1
      <4>2. i - 1 = j - 1
        BY <1>5, <4>1
      <4> QED BY <4>2
    <3>2. CASE i \in 2..(n + 1) /\ i - 1 \in 1..n /\ j = 1
      BY <1>4, <1>6, <2>1, <2>2, <2>6, <3>2
    <3>3. CASE i = 1 /\ j \in 2..(n + 1) /\ j - 1 \in 1..n
      BY <1>4, <1>6, <2>1, <2>2, <2>6, <3>3
    <3> QED BY <2>3, <3>1, <3>2, <3>3
  <2> QED BY <1>7, <2>1, <2>2, <2>5, <2>6
<1> QED BY <1>2, <1>8, <1>9

(* Marking keeps all of a manifest but its status. *)
Markable(X) == \A m \in X : m \in Backup /\ [m EXCEPT !.status = "deleted"] \in X

LEMMA MarkAllEach ==
  ASSUME NEW X, Markable(X), NEW d \in Seq(X), NEW doomed
  PROVE  LET e == MarkAll(d, doomed)
         IN  /\ e \in Seq(X) /\ Len(e) = Len(d) /\ DOMAIN e = DOMAIN d
             /\ \A i \in DOMAIN d :
                  /\ e[i].id = d[i].id /\ e[i].source = d[i].source
                  /\ e[i].created = d[i].created
                  /\ ~Contains(doomed, d[i]) => e[i] = d[i]
                  /\ Contains(doomed, d[i]) => e[i].status = "deleted"
<1> DEFINE e == MarkAll(d, doomed)
<1>1. Len(d) \in Nat /\ DOMAIN d = 1..Len(d) /\ \A i \in 1..Len(d) : d[i] \in X
  OBVIOUS
<1>2. e = [i \in 1..Len(d) |->
             IF Contains(doomed, d[i]) THEN [d[i] EXCEPT !.status = "deleted"] ELSE d[i]]
  BY <1>1 DEF MarkAll
<1>3. ASSUME NEW i \in 1..Len(d)
      PROVE  /\ e[i] \in X
             /\ e[i].id = d[i].id /\ e[i].source = d[i].source
             /\ e[i].created = d[i].created
             /\ ~Contains(doomed, d[i]) => e[i] = d[i]
             /\ Contains(doomed, d[i]) => e[i].status = "deleted"
  <2>1. d[i] \in X
    BY <1>1
  <2> DEFINE m == d[i]
  <2>2. e[i] = IF Contains(doomed, m) THEN [m EXCEPT !.status = "deleted"] ELSE m
    BY <1>2
  <2> HIDE DEF m, e
  <2>3. /\ m \in X /\ [m EXCEPT !.status = "deleted"] \in X
        /\ m \in [id : Nat, source : Source, status : {"active", "deleted"}, created : Nat]
    BY <2>1 DEF m, Markable, Backup
  <2>4. CASE Contains(doomed, m)
    <3>1. e[i] = [m EXCEPT !.status = "deleted"]
      BY <2>2, <2>4
    <3> QED BY <2>3, <2>4, <3>1 DEF m
  <2>5. CASE ~Contains(doomed, m)
    BY <2>2, <2>3, <2>5 DEF m
  <2> QED BY <2>4, <2>5 DEF m
<1>4. e \in [1..Len(d) -> X]
  BY <1>2, <1>3
<1> HIDE DEF e
<1>5. e \in Seq(X) /\ Len(e) = Len(d) /\ DOMAIN e = DOMAIN d
  <2> DEFINE n == Len(d)
  <2>1. n \in Nat /\ DOMAIN d = 1..n /\ e \in [1..n -> X]
    BY <1>1, <1>4
  <2> HIDE DEF n
  <2>2. e \in Seq(X) /\ Len(e) = n /\ DOMAIN e = 1..n
    BY <2>1
  <2> QED BY <2>1, <2>2 DEF n
<1> QED BY <1>1, <1>3, <1>5 DEF e

LEMMA RetentionTypeOK ==
  ASSUME TypeOK, NEW s \in Source, NEW policy \in Policies, Retention(s, policy)
  PROVE  TypeOK'
<1> DEFINE doomed == ApplyPolicy(LoadBackups(dir, s), policy, now)
           X == Manifest(Len(dir), now)
<1>1. now' = now /\ now \in Nat /\ dir' = MarkAll(dir, doomed) /\ dir \in Seq(X)
  BY PolicyAssumption DEF TypeOK, Retention, Manifest, Time
<1>2. Markable(X)
  <2>1. Len(dir) \in Nat
    BY <1>1
  <2> DEFINE n == Len(dir)
  <2> HIDE DEF n
  <2>2. Markable(Manifest(n, now))
    <3>1. n \in Nat /\ now \in Nat
      BY <1>1, <2>1 DEF n
    <3> QED BY <3>1 DEF Manifest, Markable, Backup
  <2> QED BY <2>2 DEF n
<1> HIDE DEF doomed, X
<1>3. /\ dir' \in Seq(X) /\ Len(dir') = Len(dir) /\ DOMAIN dir' = DOMAIN dir
      /\ \A i \in DOMAIN dir : dir'[i].id = dir[i].id
  BY <1>1, <1>2, MarkAllEach
<1>4. \A i, j \in DOMAIN dir' : dir'[i].id = dir'[j].id => i = j
  BY <1>3 DEF TypeOK
<1>5. X = [id : 1..Len(dir'), source : Source, status : {"active", "deleted"}, created : 0..now']
  BY <1>1, <1>3 DEF X, Manifest
<1> QED BY <1>1, <1>3, <1>4, <1>5 DEF TypeOK

LEMMA TickTypeOK ==
  ASSUME TypeOK, Tick
  PROVE  TypeOK'
<1>1. now \in Nat /\ now' = now + 1 /\ now' \in Time /\ dir' = dir
  BY PolicyAssumption DEF TypeOK, Tick, Time
<1>2. dir \in Seq(Manifest(Len(dir), now))
  BY DEF TypeOK, Manifest
<1>3. \A n \in Nat : Manifest(n, now) \subseteq Manifest(n, now')
  BY <1>1 DEF Manifest
<1>4. dir' \in Seq(Manifest(Len(dir'), now'))
  BY <1>1, <1>2, <1>3
<1> QED BY <1>1, <1>4 DEF TypeOK, Manifest

(* For any sources, calendar, policies and bounds: every reachable state   *)
(* is of its type, and no two manifests have the same id.                  *)
THEOREM PolicyTypes == Spec => []TypeOK
<1>1. Init => TypeOK
  BY PolicyAssumption DEF Init, TypeOK, Time
<1>2. TypeOK /\ [Next]_vars => TypeOK'
  <2> SUFFICES ASSUME TypeOK, [Next]_vars PROVE TypeOK'
    OBVIOUS
  <2>1. CASE Tick
    BY <2>1, TickTypeOK
  <2>2. ASSUME NEW s \in Source, Create(s) PROVE TypeOK'
    BY <2>2, CreateTypeOK
  <2>3. ASSUME NEW s \in Source, NEW policy \in Policies, Retention(s, policy) PROVE TypeOK'
    BY <2>3, RetentionTypeOK
  <2>4. CASE UNCHANGED vars
    BY <2>4 DEF vars, TypeOK
  <2> QED BY <2>1, <2>2, <2>3, <2>4 DEF Next
<1> QED BY <1>1, <1>2, PTL DEF Spec

LEMMA TypeIsDir ==
  ASSUME TypeOK
  PROVE  IsDir(dir)
<1>1. now \in Nat /\ Len(dir) \in Nat
  BY PolicyAssumption DEF TypeOK, Time
<1>2. Manifest(Len(dir), now) \subseteq Backup
  BY <1>1 DEF Manifest, Backup
<1>3. dir \in Seq(Manifest(Len(dir), now))
  BY DEF TypeOK, Manifest
<1>4. dir \in Seq(Backup)
  BY <1>2, <1>3
<1> QED BY <1>4 DEF TypeOK, IsDir

(* The sequence the other way round holds the same backups. *)
LEMMA ReverseIsDir ==
  ASSUME NEW d, IsDir(d)
  PROVE  IsDir(Reverse(d)) /\ ToSet(Reverse(d)) = ToSet(d)
<1> DEFINE n == Len(d)
           r == Reverse(d)
<1>1. n \in Nat /\ DOMAIN d = 1..n /\ \A i \in 1..n : d[i] \in Backup
  BY DEF IsDir
<1>2. \A i, j \in 1..n : d[i].id = d[j].id => i = j
  BY <1>1 DEF IsDir
<1>3. r = [i \in 1..n |-> d[(n - i) + 1]]
  BY DEF Reverse
<1> HIDE DEF n, r
<1>4. \A i \in 1..n : (n - i) + 1 \in 1..n /\ (n - ((n - i) + 1)) + 1 = i
  BY <1>1
<1>5. \A i \in 1..n : r[i] = d[(n - i) + 1] /\ r[i] \in Backup
  BY <1>1, <1>3, <1>4
<1>6. r \in [1..n -> Backup]
  BY <1>3, <1>5
<1>7. r \in Seq(Backup) /\ DOMAIN r = 1..n
  BY <1>1, <1>6
<1>8. \A i, j \in 1..n : r[i].id = r[j].id => i = j
  <2> SUFFICES ASSUME NEW i \in 1..n, NEW j \in 1..n, r[i].id = r[j].id PROVE i = j
    OBVIOUS
  <2>1. (n - i) + 1 = (n - j) + 1
    BY <1>2, <1>4, <1>5
  <2> QED BY <1>1, <2>1
<1>9. \A i \in 1..n : d[i] = r[(n - i) + 1]
  BY <1>4, <1>5
<1>10. \A i \in 1..n : r[i] \in ToSet(d) /\ d[i] \in ToSet(r)
  BY <1>1, <1>4, <1>5, <1>7, <1>9 DEF ToSet
<1>11. ToSet(r) \subseteq ToSet(d) /\ ToSet(d) \subseteq ToSet(r)
  BY <1>1, <1>7, <1>10 DEF ToSet
<1> QED BY <1>7, <1>8, <1>11 DEF IsDir, r

-----------------------------------------------------------------------------
(* The properties that do not look into the GFS rules.                     *)

LEMMA ActiveListed ==
  ASSUME TypeOK, NEW s
  PROVE  LET B == LoadBackups(dir, s)
         IN  /\ Lists(B, Active(s))
             /\ B \in Seq(Backup) /\ Len(B) \in Nat /\ DOMAIN B = 1..Len(B)
             /\ Active(s) = At(B, DOMAIN B)
<1>1. Lists(LoadBackups(dir, s), ActiveOf(dir, s))
  BY TypeIsDir, LoadBackupsLists
<1>2. ActiveOf(dir, s) = Active(s)
  BY DEF ActiveOf, Active
<1> DEFINE B == LoadBackups(dir, s)
<1> HIDE DEF B
<1>3. Lists(B, Active(s))
  BY <1>1, <1>2 DEF B
<1>4. B \in Seq(Backup) /\ Len(B) \in Nat /\ DOMAIN B = 1..Len(B)
  BY <1>3 DEF Lists
<1>5. Active(s) = At(B, DOMAIN B)
  BY <1>3, <1>4 DEF Lists, At, ToSet
<1> QED BY <1>3, <1>4, <1>5 DEF B

(* What is kept are the backups at the positions that no rule drops. *)
LEMMA KeptPositions ==
  ASSUME TypeOK, NEW s, NEW policy,
         "keep_last" \in DOMAIN policy => policy["keep_last"] \in Int
  PROVE  LET B == LoadBackups(dir, s)
         IN  /\ Kept(s, policy) = Active(s) \ At(B, Drops(B, policy, now))
             /\ Kept(s, policy) = At(B, DOMAIN B \ Drops(B, policy, now))
<1> DEFINE B == LoadBackups(dir, s)
           gone == ApplyPolicy(B, policy, now)
<1>1. /\ Lists(B, Active(s)) /\ B \in Seq(Backup)
      /\ Active(s) = At(B, DOMAIN B)
  BY ActiveListed
<1>2. Kept(s, policy) = Active(s) \ ToSet(gone)
  BY DEF Kept, Doomed
<1> HIDE DEF B
<1>3. ToSet(gone) = At(B, Drops(B, policy, now))
  BY <1>1, ApplyPolicySet
<1>4. Drops(B, policy, now) \subseteq DOMAIN B
  BY DEF Drops, DropsLast, DropsOld, DropsGFS
<1>5. \A i, j \in DOMAIN B : B[i] = B[j] => i = j
  BY <1>1 DEF Lists
<1>6. At(B, DOMAIN B) \ At(B, Drops(B, policy, now)) = At(B, DOMAIN B \ Drops(B, policy, now))
  <2> DEFINE D == Drops(B, policy, now)
  <2> HIDE DEF D
  <2>1. D \subseteq DOMAIN B
    BY <1>4 DEF D
  <2> QED BY <1>5, <2>1 DEF At, D
<1> QED BY <1>1, <1>2, <1>3, <1>6 DEF B

(* The directory's order does not matter: with different stamps there is   *)
(* one list of the active backups, and _apply sees nothing else.           *)
LEMMA OrderOfState == TypeOK => OrderIrrelevant
<1> SUFFICES ASSUME TypeOK, NEW s \in Source, NEW policy \in Policies,
                    IsInjective([m \in Active(s) |-> StampKey(m.created)])
             PROVE  ToSet(ApplyPolicy(LoadBackups(Reverse(dir), s), policy, now))
                      = ToSet(Doomed(s, policy))
  BY DEF OrderIrrelevant
<1>1. Distinguished(Active(s))
  BY DEF IsInjective, Distinguished
<1>2. IsDir(Reverse(dir)) /\ ToSet(Reverse(dir)) = ToSet(dir)
  BY TypeIsDir, ReverseIsDir
<1>3. ActiveOf(Reverse(dir), s) = Active(s)
  BY <1>2 DEF ActiveOf, Active
<1>4. Lists(LoadBackups(Reverse(dir), s), Active(s))
  BY <1>2, <1>3, LoadBackupsLists
<1>5. Lists(LoadBackups(dir, s), Active(s))
  BY ActiveListed
<1>6. LoadBackups(Reverse(dir), s) = LoadBackups(dir, s)
  BY <1>1, <1>4, <1>5, ListUnique
<1> QED BY <1>6 DEF Doomed

(* For any calendar and policy: what a run deletes is the same whatever    *)
(* order iterdir yields backups with different stamps in.                  *)
THEOREM OrdersIrrelevant == Spec => []OrderIrrelevant
BY PolicyTypes, OrderOfState, PTL

LEMMA RulesOfState == TypeOK => RulesAddUp
<1> SUFFICES ASSUME TypeOK, NEW s \in Source, NEW policy \in Policies
             PROVE  /\ Cardinality(ToSet(Doomed(s, policy))) = Len(Doomed(s, policy))
                    /\ Kept(s, policy) =
                         Kept(s, Restricted(policy, {"keep_last"}))
                           \cap Kept(s, Restricted(policy, {"max_age_days"}))
                           \cap Kept(s, Restricted(policy, Rule))
  BY DEF RulesAddUp
<1> DEFINE B == LoadBackups(dir, s)
           P(keys) == Restricted(policy, keys)
<1>1. B \in Seq(Backup)
  BY ActiveListed
<1>2. "keep_last" \in DOMAIN policy => policy["keep_last"] \in Int
  BY PolicyAssumption
<1>3. Cardinality(ToSet(Doomed(s, policy))) = Len(Doomed(s, policy))
  <2> HIDE DEF B
  <2>1. Cardinality(ToSet(ApplyPolicy(B, policy, now))) = Len(ApplyPolicy(B, policy, now))
    BY <1>1, <1>2, ApplyPolicySet
  <2> QED BY <2>1 DEF Doomed, B
<1>4. ASSUME NEW keys
      PROVE  /\ DOMAIN P(keys) = DOMAIN policy \cap keys
             /\ \A k \in DOMAIN policy \cap keys : P(keys)[k] = policy[k]
  BY DEF Restricted
<1>5. ASSUME NEW keys
      PROVE  "keep_last" \in DOMAIN P(keys) => P(keys)["keep_last"] \in Int
  <2> HIDE DEF P
  <2> QED BY <1>2, <1>4
<1>6. Drops(B, P({"keep_last"}), now) = DropsLast(B, policy)
  <2> DEFINE p == P({"keep_last"})
  <2>1. /\ DOMAIN p = DOMAIN policy \cap {"keep_last"}
        /\ \A x \in DOMAIN policy \cap {"keep_last"} : p[x] = policy[x]
    BY <1>4
  <2> HIDE DEF p, B
  <2>2. /\ "max_age_days" \notin DOMAIN p /\ DOMAIN p \cap Rule = {}
        /\ "keep_last" \in DOMAIN p <=> "keep_last" \in DOMAIN policy
        /\ "keep_last" \in DOMAIN policy => p["keep_last"] = policy["keep_last"]
    BY <2>1 DEF Rule
  <2>3. DropsOld(B, p, now) = {}
    BY <2>2 DEF DropsOld
  <2>4. DropsGFS(B, p) = {}
    BY <2>2 DEF DropsGFS
  <2>5. DropsLast(B, p) = DropsLast(B, policy)
    BY <2>2 DEF DropsLast
  <2>6. Drops(B, p, now) = DropsLast(B, policy)
    BY <2>3, <2>4, <2>5 DEF Drops
  <2> QED BY <2>6 DEF p
<1>7. Drops(B, P({"max_age_days"}), now) = DropsOld(B, policy, now)
  <2> DEFINE p == P({"max_age_days"})
  <2>1. /\ DOMAIN p = DOMAIN policy \cap {"max_age_days"}
        /\ \A x \in DOMAIN policy \cap {"max_age_days"} : p[x] = policy[x]
    BY <1>4
  <2> HIDE DEF p, B
  <2>2. /\ "keep_last" \notin DOMAIN p /\ DOMAIN p \cap Rule = {}
        /\ "max_age_days" \in DOMAIN p <=> "max_age_days" \in DOMAIN policy
        /\ "max_age_days" \in DOMAIN policy => p["max_age_days"] = policy["max_age_days"]
    BY <2>1 DEF Rule
  <2>3. DropsLast(B, p) = {}
    BY <2>2 DEF DropsLast
  <2>4. DropsGFS(B, p) = {}
    BY <2>2 DEF DropsGFS
  <2>5. DropsOld(B, p, now) = DropsOld(B, policy, now)
    BY <2>2 DEF DropsOld
  <2>6. Drops(B, p, now) = DropsOld(B, policy, now)
    BY <2>3, <2>4, <2>5 DEF Drops
  <2> QED BY <2>6 DEF p
<1>8. Drops(B, P(Rule), now) = DropsGFS(B, policy)
  <2> DEFINE p == P(Rule)
  <2>1. /\ DOMAIN p = DOMAIN policy \cap Rule
        /\ \A k \in DOMAIN policy \cap Rule : p[k] = policy[k]
    BY <1>4
  <2>2. "keep_last" \notin DOMAIN p /\ "max_age_days" \notin DOMAIN p
    BY <2>1 DEF Rule
  <2>3. DOMAIN p \cap Rule = DOMAIN policy \cap Rule
    BY <2>1
  <2> HIDE DEF p, B
  <2>4. DropsLast(B, p) = {}
    BY <2>2 DEF DropsLast
  <2>5. DropsOld(B, p, now) = {}
    BY <2>2 DEF DropsOld
  <2>6. RulesOn(p) = RulesOn(policy)
    BY <2>1 DEF RulesOn, RuleOn
  <2>7. DropsGFS(B, p) = DropsGFS(B, policy)
    BY <2>3, <2>6 DEF DropsGFS
  <2>8. Drops(B, p, now) = DropsGFS(B, policy)
    BY <2>4, <2>5, <2>7 DEF Drops
  <2> QED BY <2>8 DEF p
<1>9. Kept(s, policy) = Active(s) \ At(B, Drops(B, policy, now))
  BY <1>2, KeptPositions
<1>10. ASSUME NEW keys
       PROVE  Kept(s, P(keys)) = Active(s) \ At(B, Drops(B, P(keys), now))
  <2> HIDE DEF P
  <2> QED BY <1>5, KeptPositions
<1>11. At(B, Drops(B, policy, now))
         = At(B, DropsLast(B, policy)) \cup At(B, DropsOld(B, policy, now))
             \cup At(B, DropsGFS(B, policy))
  BY DEF Drops, At
<1> HIDE DEF B, P
<1>12. Kept(s, policy) = Kept(s, P({"keep_last"})) \cap Kept(s, P({"max_age_days"}))
                           \cap Kept(s, P(Rule))
  BY <1>6, <1>7, <1>8, <1>9, <1>10, <1>11
<1> QED BY <1>3, <1>12 DEF P

(* For any calendar and policy: no backup is deleted twice in a run, and a *)
(* policy keeps what each of its rules alone would keep.                   *)
THEOREM RulesIndependent == Spec => []RulesAddUp
BY PolicyTypes, RulesOfState, PTL

LEMMA AtCardinality ==
  ASSUME NEW A, NEW B, Lists(B, A), NEW I \in SUBSET (DOMAIN B)
  PROVE  /\ IsFiniteSet(I) /\ IsFiniteSet(At(B, I))
         /\ Cardinality(At(B, I)) = Cardinality(I)
<1> DEFINE f == [i \in I |-> B[i]]
<1>1. B \in Seq(Backup) /\ \A i, j \in DOMAIN B : B[i] = B[j] => i = j
  BY DEF Lists
<1>2. IsFiniteSet(I)
  BY <1>1, FinitePositions
<1>3. f \in [I -> At(B, I)] /\ \A x \in At(B, I) : \E i \in I : f[i] = x
  BY DEF At
<1>4. \A i, j \in I : f[i] = f[j] => i = j
  BY <1>1
<1> HIDE DEF f
<1>5. f \in Bijection(I, At(B, I))
  BY <1>3, <1>4, Fun_IsBij
<1>6. ExistsBijection(I, At(B, I))
  BY <1>5 DEF ExistsBijection
<1>7. IsFiniteSet(At(B, I)) /\ Cardinality(At(B, I)) = Cardinality(I)
  BY <1>2, <1>6, FS_Bijection
<1> QED BY <1>2, <1>7

LEMMA KeepLastOfState == TypeOK => KeepLastExact
<1> SUFFICES ASSUME TypeOK, NEW s \in Source, NEW policy \in Policies,
                    DOMAIN policy = {"keep_last"}, policy["keep_last"] >= 0
             PROVE  LET kept == Kept(s, policy)
                        n == Cardinality(Active(s))
                    IN  /\ Cardinality(kept) =
                             IF n < policy["keep_last"] THEN n ELSE policy["keep_last"]
                        /\ \A m \in kept, x \in Active(s) \ kept :
                             StampKey(m.created) >= StampKey(x.created)
  BY DEF KeepLastExact
<1> DEFINE B == LoadBackups(dir, s)
           k == policy["keep_last"]
           n == Len(B)
           M == IF n < k THEN n ELSE k
<1>1. Lists(B, Active(s)) /\ n \in Nat /\ DOMAIN B = 1..n /\ Active(s) = At(B, DOMAIN B)
  BY ActiveListed
<1>2. k \in Nat
  BY PolicyAssumption
<1>3. Cardinality(Active(s)) = n
  BY <1>1, ListBijection
<1>4. Drops(B, policy, now) = {i \in DOMAIN B : i > k}
  <2>1. DropsOld(B, policy, now) = {}
    BY DEF DropsOld
  <2>2. DropsGFS(B, policy) = {}
    BY DEF DropsGFS, Rule
  <2>3. DropsLast(B, policy) = {i \in DOMAIN B : i > k}
    BY <1>2 DEF DropsLast, SliceStart
  <2> QED BY <2>1, <2>2, <2>3 DEF Drops
<1>5. Kept(s, policy) = At(B, DOMAIN B \ Drops(B, policy, now))
  BY <1>2, KeptPositions
<1> HIDE DEF B, n, k
<1>6. M \in Nat /\ 1..M \subseteq 1..n
  BY <1>1, <1>2
<1>7. DOMAIN B \ Drops(B, policy, now) = 1..M
  BY <1>1, <1>2, <1>4
<1>8. Kept(s, policy) = At(B, 1..M)
  BY <1>5, <1>7
<1>9. Cardinality(1..M) = M
  <2> HIDE DEF M
  <2> QED BY <1>6, FS_Interval
<1>10. Cardinality(Kept(s, policy)) = M
  <2> HIDE DEF M
  <2>1. 1..M \in SUBSET (DOMAIN B)
    BY <1>1, <1>6
  <2>2. Cardinality(At(B, 1..M)) = Cardinality(1..M)
    BY <1>1, <2>1, AtCardinality
  <2> QED BY <1>8, <1>9, <2>2
<1>11. ASSUME NEW m \in Kept(s, policy), NEW x \in Active(s) \ Kept(s, policy)
       PROVE  StampKey(m.created) >= StampKey(x.created)
  <2>1. PICK i \in 1..M : m = B[i]
    BY <1>8 DEF At
  <2>2. PICK j \in 1..n : x = B[j] /\ j \notin 1..M
    BY <1>1, <1>8 DEF At
  <2>3. i \in 1..n /\ i <= j
    BY <1>1, <1>6, <2>1, <2>2
  <2> QED BY <1>1, <2>1, <2>2, <2>3 DEF Lists
<1> QED BY <1>3, <1>10, <1>11 DEF k

(* For any history: keep_last keeps exactly that many backups, and none    *)
(* that it deletes has a later stamp than one that it keeps.               *)
THEOREM KeepsLastExactly == Spec => []KeepLastExact
BY PolicyTypes, KeepLastOfState, PTL

-----------------------------------------------------------------------------
(* The GFS loop.                                                           *)

(* What it keeps a backup for is one bucket that was still open. *)
LEMMA KeptForOne ==
  ASSUME NEW on, on \subseteq Rule, NEW seen, NEW m
  PROVE  /\ KeptFor(on, seen, m) = {} <=> \A r \in on : Bucket(r, m) \in seen
         /\ \A q \in KeptFor(on, seen, m) :
              /\ q \notin seen
              /\ \E r \in on : q = Bucket(r, m)
              /\ KeptFor(on, seen, m) = {q}
<1> DEFINE open == {i \in 1..3 : GFSRules[i] \in on /\ Bucket(GFSRules[i], m) \notin seen}
           first == {i \in open : \A j \in open : i <= j}
<1>1. KeptFor(on, seen, m) = {Bucket(GFSRules[i], m) : i \in first}
  BY DEF KeptFor
<1>2. \A i, j \in first : i = j
  OBVIOUS
<1>3. open # {} => first # {}
  <2> SUFFICES ASSUME open # {} PROVE first # {}
    OBVIOUS
  <2>1. open \in SUBSET Nat
    OBVIOUS
  <2> HIDE DEF open
  <2> QED BY <2>1, Least
<1>4. \A r \in Rule : \E i \in 1..3 : GFSRules[i] = r
  BY DEF Rule, GFSRules
<1>5. open = {} <=> \A r \in on : Bucket(r, m) \in seen
  <2>1. ASSUME NEW r \in on, Bucket(r, m) \notin seen
        PROVE  open # {}
    <3>1. PICK i \in 1..3 : GFSRules[i] = r
      BY <1>4
    <3>2. i \in open
      BY <2>1, <3>1
    <3> QED BY <3>2
  <2>2. ASSUME NEW i \in open
        PROVE  \E r \in on : Bucket(r, m) \notin seen
    OBVIOUS
  <2> QED BY <2>1, <2>2
<1>6. \A i \in first : /\ Bucket(GFSRules[i], m) \notin seen
                       /\ GFSRules[i] \in on
  OBVIOUS
<1>7. first = {} <=> open = {}
  BY <1>3
<1> HIDE DEF first
<1>8. KeptFor(on, seen, m) = {} <=> first = {}
  BY <1>1
<1>9. ASSUME NEW q \in KeptFor(on, seen, m)
      PROVE  /\ q \notin seen
             /\ \E r \in on : q = Bucket(r, m)
             /\ KeptFor(on, seen, m) = {q}
  <2>1. PICK i \in first : q = Bucket(GFSRules[i], m)
    BY <1>1
  <2>2. first = {i}
    BY <1>2
  <2> QED BY <1>1, <1>6, <2>1, <2>2
<1> QED BY <1>5, <1>7, <1>8, <1>9

LEMMA KeptForBucket ==
  ASSUME NEW on, on \subseteq Rule, NEW seen, NEW m, NEW q \in KeptFor(on, seen, m)
  PROVE  \E r \in on : q = Bucket(r, m)
BY KeptForOne

(* The fewer buckets have been seen, the more are marked, or the same one: *)
(* a bucket that is marked instead had been seen.                          *)
LEMMA KeptForMonotone ==
  ASSUME NEW on, on \subseteq Rule, NEW seen, NEW less, less \subseteq seen, NEW m
  PROVE  /\ KeptFor(on, less, m) = {} => KeptFor(on, seen, m) = {}
         /\ KeptFor(on, less, m) \subseteq seen \cup KeptFor(on, seen, m)
<1> DEFINE open == {i \in 1..3 : GFSRules[i] \in on /\ Bucket(GFSRules[i], m) \notin seen}
           more == {i \in 1..3 : GFSRules[i] \in on /\ Bucket(GFSRules[i], m) \notin less}
<1>1. KeptFor(on, less, m) = {} => KeptFor(on, seen, m) = {}
  <2> SUFFICES ASSUME KeptFor(on, less, m) = {} PROVE KeptFor(on, seen, m) = {}
    OBVIOUS
  <2>1. \A r \in on : Bucket(r, m) \in less
    BY KeptForOne
  <2>2. \A r \in on : Bucket(r, m) \in seen
    BY <2>1
  <2> QED BY <2>2, KeptForOne
<1>2. KeptFor(on, less, m)
        = {Bucket(GFSRules[i], m) : i \in {i \in more : \A j \in more : i <= j}}
  BY DEF KeptFor
<1>3. KeptFor(on, seen, m)
        = {Bucket(GFSRules[i], m) : i \in {i \in open : \A j \in open : i <= j}}
  BY DEF KeptFor
<1>4. open \subseteq more
  OBVIOUS
<1>5. ASSUME NEW i \in more, \A j \in more : i <= j
      PROVE  Bucket(GFSRules[i], m) \in seen \cup KeptFor(on, seen, m)
  <2>1. CASE i \in open
    <3>1. \A j \in open : i <= j
      BY <1>4, <1>5
    <3> HIDE DEF open
    <3> QED BY <1>3, <2>1, <3>1
  <2>2. CASE i \notin open
    BY <2>2
  <2> QED BY <2>1, <2>2
<1> HIDE DEF more, open
<1>6. KeptFor(on, less, m) \subseteq seen \cup KeptFor(on, seen, m)
  BY <1>2, <1>5
<1> QED BY <1>1, <1>6

(* g is the recursion of GFSSeen as far as the first n rounds. *)
SeenSoFar(g, n, B, on) ==
  g = [k \in 0..n |-> IF k = 0 THEN {} ELSE g[k - 1] \cup KeptFor(on, g[k - 1], B[k])]

LEMMA SeenExists ==
  ASSUME NEW B, NEW on, NEW last \in Nat
  PROVE  \E g : SeenSoFar(g, last, B, on)
<1> DEFINE S == {n \in Nat : ~ \E g : SeenSoFar(g, n, B, on)}
<1>1. SUFFICES ASSUME last \in S PROVE FALSE
  OBVIOUS
<1>2. PICK n \in S : \A m \in S : n <= m
  BY <1>1, Least
<1>3. n \in Nat /\ ~ \E g : SeenSoFar(g, n, B, on)
  BY <1>2
<1>4. n # 0
  <2> DEFINE g == [k \in 0..0 |-> {}]
  <2>1. \A k \in 0..0 : k = 0
    OBVIOUS
  <2>2. SeenSoFar(g, 0, B, on)
    BY <2>1 DEF SeenSoFar
  <2> QED BY <1>3, <2>2
<1>5. n - 1 \in Nat /\ n - 1 \notin S
  BY <1>2, <1>3, <1>4
<1>6. PICK g : SeenSoFar(g, n - 1, B, on)
  BY <1>5
<1> DEFINE h == [k \in 0..n |-> IF k = n THEN g[n - 1] \cup KeptFor(on, g[n - 1], B[n])
                                ELSE g[k]]
<1>7. \A k \in 0..(n - 1) :
        g[k] = IF k = 0 THEN {} ELSE g[k - 1] \cup KeptFor(on, g[k - 1], B[k])
  BY <1>6 DEF SeenSoFar
<1>8. \A k \in 0..(n - 1) : k \in 0..n /\ k # n /\ h[k] = g[k]
  BY <1>3
<1>9. n \in 0..n /\ n - 1 \in 0..(n - 1) /\ h[n] = g[n - 1] \cup KeptFor(on, g[n - 1], B[n])
  BY <1>3, <1>5
<1>10. h = [k \in 0..n |-> h[k]]
  OBVIOUS
<1> HIDE DEF h
<1>11. ASSUME NEW k \in 0..n
       PROVE  h[k] = IF k = 0 THEN {} ELSE h[k - 1] \cup KeptFor(on, h[k - 1], B[k])
  <2>1. CASE k = n
    BY <1>4, <1>8, <1>9, <2>1
  <2>2. CASE k # n
    <3>1. k \in 0..(n - 1) /\ (k # 0 => k - 1 \in 0..(n - 1))
      BY <1>3, <2>2
    <3> QED BY <1>7, <1>8, <3>1
  <2> QED BY <2>1, <2>2
<1>12. SeenSoFar(h, n, B, on)
  BY <1>10, <1>11 DEF SeenSoFar
<1> QED BY <1>3, <1>12

LEMMA SeenUnfolds ==
  ASSUME NEW B, Len(B) \in Nat, NEW on
  PROVE  SeenSoFar(GFSSeen(B, on), Len(B), B, on)
<1>1. \E g : SeenSoFar(g, Len(B), B, on)
  BY SeenExists
<1>2. GFSSeen(B, on) = CHOOSE g : SeenSoFar(g, Len(B), B, on)
  BY DEF GFSSeen, SeenSoFar
<1> QED BY <1>1, <1>2

(* The rounds one by one: what is seen only grows, and it is buckets of    *)
(* the backups that came by.                                               *)
LEMMA SeenRounds ==
  ASSUME NEW B, Len(B) \in Nat, NEW on
  PROVE  LET seen == GFSSeen(B, on)
         IN  /\ seen[0] = {}
             /\ \A n \in 1..Len(B) :
                  seen[n] = seen[n - 1] \cup KeptFor(on, seen[n - 1], B[n])
<1> DEFINE seen == GFSSeen(B, on)
<1>1. SeenSoFar(seen, Len(B), B, on)
  BY SeenUnfolds
<1> HIDE DEF seen
<1>2. ASSUME NEW k \in 0..Len(B)
      PROVE  seen[k] = IF k = 0 THEN {} ELSE seen[k - 1] \cup KeptFor(on, seen[k - 1], B[k])
  BY <1>1 DEF SeenSoFar
<1>3. 0 \in 0..Len(B) /\ \A n \in 1..Len(B) : n \in 0..Len(B) /\ n # 0
  OBVIOUS
<1>4. seen[0] = {}
  BY <1>2, <1>3
<1>5. \A n \in 1..Len(B) : seen[n] = seen[n - 1] \cup KeptFor(on, seen[n - 1], B[n])
  BY <1>2, <1>3
<1> QED BY <1>4, <1>5 DEF seen

LEMMA SeenGrows ==
  ASSUME NEW B, Len(B) \in Nat, NEW on
  PROVE  LET seen == GFSSeen(B, on)
         IN  \A m, n \in 0..Len(B) : m <= n => seen[m] \subseteq seen[n]
<1> DEFINE seen == GFSSeen(B, on)
<1>1. \A n \in 1..Len(B) : seen[n] = seen[n - 1] \cup KeptFor(on, seen[n - 1], B[n])
  BY SeenRounds
<1> HIDE DEF seen
<1> SUFFICES ASSUME NEW m \in 0..Len(B)
             PROVE  \A n \in 0..Len(B) : m <= n => seen[m] \subseteq seen[n]
  BY DEF seen
<1> DEFINE S == {n \in 0..Len(B) : m <= n /\ ~(seen[m] \subseteq seen[n])}
<1>2. SUFFICES ASSUME S # {} PROVE FALSE
  OBVIOUS
<1>3. S \in SUBSET Nat
  OBVIOUS
<1>4. PICK n \in S : \A k \in S : n <= k
  <2> HIDE DEF S
  <2> QED BY <1>2, <1>3, Least
<1>5. n \in 0..Len(B) /\ m <= n /\ n # m /\ ~(seen[m] \subseteq seen[n])
  BY <1>4
<1>6. n \in 1..Len(B) /\ n - 1 \in 0..Len(B) /\ m <= n - 1 /\ ~(n <= n - 1)
  BY <1>5
<1>7. n - 1 \notin S
  <2> HIDE DEF S
  <2> QED BY <1>4, <1>6
<1>8. seen[m] \subseteq seen[n - 1]
  BY <1>6, <1>7
<1>9. seen[n - 1] \subseteq seen[n]
  BY <1>1, <1>6
<1> QED BY <1>5, <1>8, <1>9

LEMMA SeenPassed ==
  ASSUME NEW B, Len(B) \in Nat, NEW on, on \subseteq Rule, NEW n \in 0..Len(B),
         NEW q \in GFSSeen(B, on)[n]
  PROVE  \E r \in on, k \in 1..n : q = Bucket(r, B[k])
<1> DEFINE seen == GFSSeen(B, on)
           S == {k \in 0..Len(B) : q \in seen[k]}
<1>1. seen[0] = {}
  BY SeenRounds
<1>2. \A k \in 1..Len(B) : seen[k] = seen[k - 1] \cup KeptFor(on, seen[k - 1], B[k])
  BY SeenRounds
<1> HIDE DEF seen
<1>3. S \in SUBSET Nat /\ n \in S
  BY DEF seen
<1>4. PICK k \in S : \A j \in S : k <= j
  <2> HIDE DEF S
  <2> QED BY <1>3, Least
<1>5. k \in 0..Len(B) /\ q \in seen[k] /\ k # 0 /\ k <= n
  BY <1>1, <1>3, <1>4
<1>6. k \in 1..n /\ k \in 1..Len(B) /\ k - 1 \in 0..Len(B) /\ ~(k <= k - 1)
  BY <1>5
<1>7. q \notin seen[k - 1]
  BY <1>4, <1>6
<1>8. q \in KeptFor(on, seen[k - 1], B[k])
  BY <1>2, <1>5, <1>6, <1>7
<1> DEFINE before == seen[k - 1]
           m == B[k]
<1> HIDE DEF before, m
<1>9. PICK r \in on : q = Bucket(r, m)
  <2>1. q \in KeptFor(on, before, m)
    BY <1>8 DEF before, m
  <2> QED BY <2>1, KeptForBucket
<1>10. q = Bucket(r, B[k])
  BY <1>9 DEF m
<1> QED BY <1>6, <1>10

LEMMA OnlyGFS ==
  ASSUME NEW B, NEW policy, NEW t, DOMAIN policy \subseteq Rule
  PROVE  Drops(B, policy, t) = DropsGFS(B, policy)
<1>1. "keep_last" \notin DOMAIN policy /\ "max_age_days" \notin DOMAIN policy
  BY DEF Rule
<1>2. DropsLast(B, policy) = {}
  BY <1>1 DEF DropsLast
<1>3. DropsOld(B, policy, t) = {}
  BY <1>1 DEF DropsOld
<1> QED BY <1>2, <1>3 DEF Drops

LEMMA RulesOnRules == \A policy : RulesOn(policy) \subseteq Rule
BY DEF RulesOn

(* A backup before which there is none of its bucket is kept.              *)
LEMMA FirstOfBucketStays ==
  ASSUME NEW B, Len(B) \in Nat, NEW policy, NEW r \in RulesOn(policy),
         NEW i \in 1..Len(B),
         \A k \in 1..(i - 1) : Bucket(r, B[k]) # Bucket(r, B[i])
  PROVE  i \notin DropsGFS(B, policy)
<1> DEFINE on == RulesOn(policy)
           before == GFSSeen(B, on)[i - 1]
           m == B[i]
<1>1. on \subseteq Rule
  BY RulesOnRules
<1>2. i - 1 \in 0..Len(B)
  OBVIOUS
<1>3. Bucket(r, m) \notin before
  <2> SUFFICES ASSUME Bucket(r, m) \in before PROVE FALSE
    OBVIOUS
  <2>1. PICK x \in on, k \in 1..(i - 1) : Bucket(r, m) = Bucket(x, B[k])
    <3> DEFINE q == Bucket(r, m)
    <3>1. q \in GFSSeen(B, on)[i - 1]
      OBVIOUS
    <3> HIDE DEF q, on
    <3>2. \E x \in on, k \in 1..(i - 1) : q = Bucket(x, B[k])
      BY <1>1, <1>2, <3>1, SeenPassed
    <3> QED BY <3>2 DEF q
  <2>2. x = r
    BY <2>1 DEF Bucket
  <2> QED BY <2>1, <2>2
<1>4. KeptFor(on, before, m) # {}
  <2> HIDE DEF on, before, m
  <2>1. r \in on
    BY DEF on
  <2> QED BY <1>1, <1>3, <2>1, KeptForOne
<1> QED BY <1>4 DEF DropsGFS

LEMMA BucketNewestOfState == TypeOK => GFSKeepsBucketNewest
<1> SUFFICES ASSUME TypeOK, NEW s \in Source, NEW policy \in Policies, NEW r \in Rule,
                    DOMAIN policy \subseteq Rule, RuleOn(policy, r),
                    NEW b \in BucketsOf(s, r)
             PROVE  \E m \in Kept(s, policy) \cap InBucket(s, r, b) :
                      \A x \in InBucket(s, r, b) :
                        StampKey(x.created) <= StampKey(m.created)
  BY DEF GFSKeepsBucketNewest
<1> DEFINE B == LoadBackups(dir, s)
           n == Len(B)
           S == {i \in 1..n : Calendar[r][B[i].created] = b}
<1>1. Lists(B, Active(s)) /\ n \in Nat /\ DOMAIN B = 1..n /\ Active(s) = At(B, DOMAIN B)
  BY ActiveListed
<1>2. Kept(s, policy) = At(B, DOMAIN B \ DropsGFS(B, policy))
  <2>1. "keep_last" \in DOMAIN policy => policy["keep_last"] \in Int
    BY PolicyAssumption
  <2> QED BY <2>1, KeptPositions, OnlyGFS
<1> HIDE DEF B
<1>3. \A m \in Active(s) : \E i \in 1..n : m = B[i]
  BY <1>1 DEF At
<1>4. S \in SUBSET Nat /\ S # {}
  <2>1. PICK m \in Active(s) : Calendar[r][m.created] = b
    BY DEF BucketsOf
  <2> QED BY <1>3, <2>1
<1>5. PICK i \in S : \A j \in S : i <= j
  <2> HIDE DEF S
  <2> QED BY <1>4, Least
<1>6. i \in 1..n /\ Calendar[r][B[i].created] = b
  BY <1>5
<1>7. \A k \in 1..(i - 1) : k \in 1..n /\ ~(i <= k)
  BY <1>1, <1>6
<1>8. \A k \in 1..(i - 1) : Calendar[r][B[k].created] # b
  BY <1>5, <1>7
<1>9. \A k \in 1..(i - 1) : Bucket(r, B[k]) # Bucket(r, B[i])
  BY <1>6, <1>8 DEF Bucket
<1>10. r \in RulesOn(policy)
  BY DEF RulesOn
<1>11. i \notin DropsGFS(B, policy)
  BY <1>1, <1>6, <1>9, <1>10, FirstOfBucketStays
<1>12. B[i] \in Kept(s, policy)
  BY <1>1, <1>2, <1>6, <1>11 DEF At
<1>13. B[i] \in InBucket(s, r, b)
  BY <1>1, <1>6 DEF InBucket, At
<1>14. ASSUME NEW x \in InBucket(s, r, b)
       PROVE  StampKey(x.created) <= StampKey(B[i].created)
  <2>1. x \in Active(s) /\ Calendar[r][x.created] = b
    BY DEF InBucket
  <2>2. PICK j \in 1..n : x = B[j]
    BY <1>3, <2>1
  <2>3. i <= j
    BY <1>5, <2>1, <2>2
  <2>4. StampKey(B[i].created) >= StampKey(B[j].created)
    BY <1>1, <1>6, <2>3 DEF Lists
  <2>5. StampKey(B[i].created) \in Int /\ StampKey(B[j].created) \in Int
    <3>1. B[i] \in Backup /\ B[j] \in Backup
      BY <1>1, <1>6 DEF Lists
    <3> QED BY <3>1, BackupStamped
  <2> QED BY <2>2, <2>4, <2>5
<1> QED BY <1>12, <1>13, <1>14

(* For any calendar, and whatever the earlier rules take for themselves:   *)
(* every bucket of a rule that is on keeps its newest backup, by stamp.    *)
THEOREM BucketsKeepNewest == Spec => []GFSKeepsBucketNewest
BY PolicyTypes, BucketNewestOfState, PTL

(* Every backup that stays has marked a bucket that no other one marks.    *)
LEMMA MarksDiffer ==
  ASSUME NEW B, Len(B) \in Nat, NEW on, on \subseteq Rule,
         NEW i \in 1..Len(B), NEW j \in 1..Len(B), i < j,
         NEW q \in KeptFor(on, GFSSeen(B, on)[i - 1], B[i])
  PROVE  q \notin KeptFor(on, GFSSeen(B, on)[j - 1], B[j])
<1> DEFINE seen == GFSSeen(B, on)
<1>1. seen[i] = seen[i - 1] \cup KeptFor(on, seen[i - 1], B[i])
  BY SeenRounds
<1>2. i \in 0..Len(B) /\ j - 1 \in 0..Len(B) /\ i <= j - 1
  OBVIOUS
<1>3. seen[i] \subseteq seen[j - 1]
  BY <1>2, SeenGrows
<1>4. q \in seen[j - 1]
  BY <1>1, <1>3
<1> DEFINE before == seen[j - 1]
           m == B[j]
<1> HIDE DEF before, m
<1>5. q \in before
  BY <1>4 DEF before
<1>6. q \notin KeptFor(on, before, m)
  BY <1>5, KeptForOne
<1> QED BY <1>6 DEF before, m

LEMMA BoundedOfState == TypeOK => GFSBounded
<1> SUFFICES ASSUME TypeOK, NEW s \in Source, NEW policy \in Policies,
                    DOMAIN policy \subseteq Rule, DOMAIN policy # {}
             PROVE  Cardinality(Kept(s, policy)) <=
                      Cardinality({p \in Rule \X UNION {BucketsOf(s, r) : r \in Rule} :
                                     RuleOn(policy, p[1]) /\ InBucket(s, p[1], p[2]) # {}})
  BY DEF GFSBounded
<1> DEFINE B == LoadBackups(dir, s)
           n == Len(B)
           on == RulesOn(policy)
           seen == GFSSeen(B, on)
           K == DOMAIN B \ DropsGFS(B, policy)
           T == {p \in Rule \X UNION {BucketsOf(s, r) : r \in Rule} :
                   RuleOn(policy, p[1]) /\ InBucket(s, p[1], p[2]) # {}}
           U(r) == {Bucket(r, m) : m \in Active(s)}
           f == [i \in K |-> CHOOSE q : q \in KeptFor(on, seen[i - 1], B[i])]
<1>1. Lists(B, Active(s)) /\ n \in Nat /\ DOMAIN B = 1..n /\ Active(s) = At(B, DOMAIN B)
  BY ActiveListed
<1>2. Kept(s, policy) = At(B, K)
  <2>1. "keep_last" \in DOMAIN policy => policy["keep_last"] \in Int
    BY PolicyAssumption
  <2> QED BY <2>1, KeptPositions, OnlyGFS
<1>3. on \subseteq Rule
  BY RulesOnRules
<1> HIDE DEF B
<1>4. Cardinality(Kept(s, policy)) = Cardinality(K)
  <2> HIDE DEF K
  <2>1. K \in SUBSET (DOMAIN B)
    BY DEF K
  <2> QED BY <1>1, <1>2, <2>1, AtCardinality
<1>5. ASSUME NEW i \in K
      PROVE  i \in 1..n /\ KeptFor(on, seen[i - 1], B[i]) # {}
  <2>1. DOMAIN policy \cap Rule # {}
    OBVIOUS
  <2> QED BY <1>1, <2>1 DEF DropsGFS
<1>6. \A r \in Rule, m \in Active(s) : r \in on => Bucket(r, m) \in T
  BY DEF Bucket, BucketsOf, InBucket, RulesOn
<1>7. ASSUME NEW r
      PROVE  IsFiniteSet(U(r))
  <2> DEFINE g == [m \in Active(s) |-> Bucket(r, m)]
  <2>1. IsFiniteSet(Active(s))
    BY <1>1, ListBijection
  <2>2. g \in [Active(s) -> U(r)] /\ \A q \in U(r) : \E m \in Active(s) : g[m] = q
    OBVIOUS
  <2> HIDE DEF g, U
  <2>3. g \in Surjection(Active(s), U(r))
    BY <2>2, Fun_IsSurj
  <2> QED BY <2>1, <2>3, FS_Surjection
<1>8. IsFiniteSet(T)
  <2>1. T \subseteq (U("keep_daily") \cup U("keep_weekly")) \cup U("keep_monthly")
    <3> SUFFICES ASSUME NEW p \in T
                 PROVE  p \in (U("keep_daily") \cup U("keep_weekly")) \cup U("keep_monthly")
      OBVIOUS
    <3>1. p[1] \in Rule /\ p = <<p[1], p[2]>>
      OBVIOUS
    <3>2. PICK m \in Active(s) : Calendar[p[1]][m.created] = p[2]
      BY DEF InBucket
    <3>3. p = Bucket(p[1], m)
      BY <3>1, <3>2 DEF Bucket
    <3>4. p \in U(p[1])
      BY <3>3
    <3> HIDE DEF U
    <3> QED BY <3>1, <3>4 DEF Rule
  <2> HIDE DEF T, U
  <2>2. IsFiniteSet(U("keep_daily") \cup U("keep_weekly"))
    BY <1>7, FS_Union
  <2>3. IsFiniteSet((U("keep_daily") \cup U("keep_weekly")) \cup U("keep_monthly"))
    BY <1>7, <2>2, FS_Union
  <2> QED BY <2>1, <2>3, FS_Subset
<1>9. ASSUME NEW i \in K
      PROVE  f[i] \in KeptFor(on, seen[i - 1], B[i])
  <2>1. KeptFor(on, seen[i - 1], B[i]) # {}
    BY <1>5
  <2> QED BY <2>1
<1>10. ASSUME NEW i \in K
       PROVE  f[i] \in T
  <2> DEFINE q == f[i]
             before == seen[i - 1]
             m == B[i]
  <2>1. q \in KeptFor(on, before, m)
    BY <1>9
  <2>2. m \in Active(s)
    BY <1>1 DEF At
  <2> HIDE DEF q, before, m, T, on, f, K, U, n
  <2>3. \E r \in on : q = Bucket(r, m)
    BY <1>3, <2>1, KeptForBucket
  <2>4. q \in T
    BY <1>3, <1>6, <2>2, <2>3
  <2> QED BY <2>4 DEF q
<1>11. ASSUME NEW i \in K, NEW j \in K, i < j
       PROVE  f[i] # f[j]
  <2>1. /\ i \in 1..Len(B) /\ j \in 1..Len(B)
        /\ f[i] \in KeptFor(on, seen[i - 1], B[i]) /\ f[j] \in KeptFor(on, seen[j - 1], B[j])
    BY <1>5, <1>9
  <2> HIDE DEF f, on
  <2>2. f[i] \notin KeptFor(on, seen[j - 1], B[j])
    BY <1>1, <1>3, <1>11, <2>1, MarksDiffer
  <2> QED BY <2>1, <2>2
<1>12. \A i \in K : i \in Int
  BY <1>1
<1> HIDE DEF T
<1>13. f \in [K -> T]
  BY <1>10
<1> HIDE DEF f, K
<1>14. \A i, j \in K : f[i] = f[j] => i = j
  BY <1>11, <1>12
<1>15. f \in Injection(K, T)
  BY <1>13, <1>14, Fun_IsInj
<1>16. Cardinality(K) <= Cardinality(T)
  BY <1>8, <1>15, FS_Injection
<1> QED BY <1>4, <1>16 DEF T

(* For any calendar: the GFS rules keep no more backups than there are     *)
(* buckets of the rules that are on.                                       *)
THEOREM GFSKeepsFew == Spec => []GFSBounded
BY PolicyTypes, BoundedOfState, PTL

-----------------------------------------------------------------------------
(* A run that sees fewer backups.                                          *)

(* g leads from the places of C to places I of B, in order. *)
Thins(g, C, B, I) ==
  /\ Len(C) \in Nat /\ DOMAIN C = 1..Len(C)
  /\ Len(B) \in Nat /\ DOMAIN B = 1..Len(B)
  /\ g \in [1..Len(C) -> I] /\ I \subseteq 1..Len(B)
  /\ \A m, n \in 1..Len(C) : m < n => g[m] < g[n]
  /\ \A n \in 1..Len(C) : C[n] = B[g[n]]

(* What is loaded from a directory e whose active backups of s are, in the *)
(* same order, some of those of d, is what is loaded from d but for some   *)
(* left out.                                                               *)
LEMMA LoadedThin ==
  ASSUME NEW d, IsDir(d), NEW e, IsDir(e), NEW s, NEW h,
         \A i \in Mine(e, s) : h[i] \in Mine(d, s) /\ e[i] = d[h[i]],
         \A i, j \in Mine(e, s) : i < j => h[i] < h[j]
  PROVE  LET B == LoadBackups(d, s)
         IN  \E g : Thins(g, LoadBackups(e, s), B, DOMAIN B)
<1> DEFINE B == LoadBackups(d, s)
           C == LoadBackups(e, s)
           N == Cardinality(Mine(d, s))
           M == Cardinality(Mine(e, s))
<1>1. PICK x : Loads(x, d, s)
  BY LoadBackupsLoads
<1>2. PICK y : Loads(y, e, s)
  BY LoadBackupsLoads
<1>3. /\ N \in Nat /\ B = [n \in 1..N |-> d[x[n]]] /\ x \in [1..N -> Mine(d, s)]
      /\ \A m, n \in 1..N : m < n <=> Before(d, x[m], x[n])
      /\ \A i \in Mine(d, s) : \E n \in 1..N : x[n] = i
  BY <1>1 DEF Loads
<1>4. /\ M \in Nat /\ C = [n \in 1..M |-> e[y[n]]] /\ y \in [1..M -> Mine(e, s)]
      /\ \A m, n \in 1..M : m < n <=> Before(e, y[m], y[n])
  BY <1>2 DEF Loads
<1> HIDE DEF N, M
<1>5. Len(B) = N /\ DOMAIN B = 1..N
  BY <1>3
<1>6. Len(C) = M /\ DOMAIN C = 1..M
  BY <1>4
<1>7. \A n \in 1..N : B[n] = d[x[n]]
  BY <1>3
<1>8. \A n \in 1..M : y[n] \in Mine(e, s) /\ C[n] = e[y[n]]
  BY <1>4
<1> DEFINE g == [n \in 1..M |-> CHOOSE k \in 1..N : x[k] = h[y[n]]]
<1>9. ASSUME NEW n \in 1..M
      PROVE  g[n] \in 1..N /\ x[g[n]] = h[y[n]]
  <2>1. \E k \in 1..N : x[k] = h[y[n]]
    BY <1>3, <1>8
  <2> QED BY <2>1
<1> HIDE DEF B, C
<1>10. g \in [1..M -> 1..N]
  <2>1. \A n \in 1..M : g[n] \in 1..N
    BY <1>9
  <2> QED BY <2>1
<1> HIDE DEF g
<1>11. \A n \in 1..M : C[n] = B[g[n]]
  BY <1>7, <1>8, <1>9
<1>12. ASSUME NEW m \in 1..M, NEW n \in 1..M, m < n
       PROVE  g[m] < g[n]
  <2>1. Before(e, y[m], y[n]) /\ y[m] \in Mine(e, s) /\ y[n] \in Mine(e, s)
    BY <1>4, <1>8, <1>12
  <2>2. Before(d, h[y[m]], h[y[n]])
    BY <2>1 DEF Before
  <2> QED BY <1>3, <1>9, <2>2
<1>13. Thins(g, C, B, DOMAIN B)
  BY <1>3, <1>4, <1>5, <1>6, <1>10, <1>11, <1>12 DEF Thins
<1> QED BY <1>13 DEF B, C

(* Loaded after the deletions: what was kept, in the same order. *)
LEMMA LoadedAgain ==
  ASSUME NEW d, IsDir(d), NEW s, NEW gone
  PROVE  LET B == LoadBackups(d, s)
             e == MarkAll(d, gone)
         IN  /\ IsDir(e)
             /\ \E g : Thins(g, LoadBackups(e, s), B, {i \in DOMAIN B : ~Contains(gone, B[i])})
<1> DEFINE B == LoadBackups(d, s)
           e == MarkAll(d, gone)
           C == LoadBackups(e, s)
           I == {i \in DOMAIN B : ~Contains(gone, B[i])}
<1>1. d \in Seq(Backup) /\ \A i, j \in DOMAIN d : d[i].id = d[j].id => i = j
  BY DEF IsDir
<1>2. Markable(Backup)
  BY DEF Markable, Backup
<1>3. /\ e \in Seq(Backup) /\ DOMAIN e = DOMAIN d
      /\ \A i \in DOMAIN d : /\ e[i].id = d[i].id
                             /\ e[i].source = d[i].source
                             /\ ~Contains(gone, d[i]) => e[i] = d[i]
                             /\ Contains(gone, d[i]) => e[i].status = "deleted"
  BY <1>1, <1>2, MarkAllEach
<1> HIDE DEF e
<1>4. IsDir(e)
  BY <1>1, <1>3 DEF IsDir
<1>5. \A i \in Mine(e, s) : i \in Mine(d, s) /\ ~Contains(gone, d[i]) /\ e[i] = d[i]
  BY <1>3 DEF Mine
<1> DEFINE h == [i \in Mine(e, s) |-> i]
<1>6. PICK g : Thins(g, C, B, DOMAIN B)
  <2>1. /\ \A i \in Mine(e, s) : h[i] \in Mine(d, s) /\ e[i] = d[h[i]]
        /\ \A i, j \in Mine(e, s) : i < j => h[i] < h[j]
    BY <1>5
  <2> HIDE DEF h
  <2> QED BY <1>4, <2>1, LoadedThin
<1>7. ASSUME NEW n \in 1..Len(C)
      PROVE  g[n] \in I
  <2>1. Lists(C, ActiveOf(e, s))
    BY <1>4, LoadBackupsLists
  <2>2. g[n] \in DOMAIN B /\ C[n] = B[g[n]] /\ n \in DOMAIN C
    BY <1>6 DEF Thins
  <2> HIDE DEF B, C
  <2>3. C[n] \in ToSet(e) /\ C[n].source = s /\ C[n].status = "active"
    BY <2>1, <2>2 DEF Lists, ToSet, ActiveOf
  <2>4. PICK i \in DOMAIN e : e[i] = C[n]
    BY <2>3 DEF ToSet
  <2>5. i \in Mine(e, s)
    BY <2>3, <2>4 DEF Mine
  <2>6. ~Contains(gone, C[n])
    BY <1>5, <2>4, <2>5
  <2> QED BY <2>2, <2>6
<1>8. Thins(g, C, B, I)
  <2>1. g \in [1..Len(C) -> I]
    <3> HIDE DEF I
    <3> QED BY <1>6, <1>7 DEF Thins
  <2>2. I \subseteq 1..Len(B)
    BY <1>6 DEF Thins
  <2> HIDE DEF I, B, C
  <2> QED BY <1>6, <2>1, <2>2 DEF Thins
<1> QED BY <1>4, <1>8 DEF e

(* Loaded from a part of the active backups: those of the part. *)
LEMMA LoadedPartly ==
  ASSUME NEW d, IsDir(d), NEW s, NEW I \in SUBSET Mine(d, s)
  PROVE  LET B == LoadBackups(d, s)
             e == Picked(d, I)
         IN  /\ IsDir(e)
             /\ \E g : Thins(g, LoadBackups(e, s), B, DOMAIN B)
<1> DEFINE e == Picked(d, I)
           N == Cardinality(I)
<1>1. /\ d \in Seq(Backup) /\ I \in SUBSET (DOMAIN d)
      /\ \A i, j \in DOMAIN d : d[i].id = d[j].id => i = j
  BY DEF IsDir, Mine
<1>2. PICK h : Embeds(h, e, d, I)
  BY <1>1, PickedEmbeds
<1>3. e \in Seq(Backup)
  BY <1>1, PickedSeq
<1> HIDE DEF e
<1>4. /\ N \in Nat /\ e = [n \in 1..N |-> d[h[n]]] /\ h \in [1..N -> I]
      /\ \A m, n \in 1..N : m < n <=> h[m] < h[n]
  BY <1>2 DEF Embeds
<1> HIDE DEF N
<1>5. /\ DOMAIN e = 1..N
      /\ \A n \in 1..N : e[n] = d[h[n]] /\ h[n] \in I
  BY <1>4
<1>6. \A m, n \in 1..N : h[m] = h[n] => m = n
  <2>1. \A n \in 1..N : h[n] \in Int /\ n \in Int
    <3>1. DOMAIN d \subseteq Int
      BY <1>1
    <3> QED BY <1>1, <1>5, <3>1
  <2> QED BY <1>4, <2>1
<1>7. IsDir(e)
  BY <1>1, <1>3, <1>5, <1>6 DEF IsDir
<1>8. Mine(e, s) \subseteq 1..N
  BY <1>5 DEF Mine
<1>9. /\ \A i \in Mine(e, s) : h[i] \in Mine(d, s) /\ e[i] = d[h[i]]
      /\ \A i, j \in Mine(e, s) : i < j => h[i] < h[j]
  BY <1>4, <1>5, <1>8
<1>10. LET B == LoadBackups(d, s)
       IN  \E g : Thins(g, LoadBackups(e, s), B, DOMAIN B)
  BY <1>7, <1>9, LoadedThin
<1> QED BY <1>7, <1>10 DEF e

(* No backup stands earlier in the fuller list. *)
LEMMA ThinPlaces ==
  ASSUME NEW B, NEW C, NEW I, NEW g, Thins(g, C, B, I)
  PROVE  \A n \in 1..Len(C) : n <= g[n]
<1> DEFINE S == {n \in 1..Len(C) : ~(n <= g[n])}
<1>1. SUFFICES ASSUME S # {} PROVE FALSE
  OBVIOUS
<1>2. PICK n \in S : \A m \in S : n <= m
  <2>1. S \in SUBSET Nat
    OBVIOUS
  <2> HIDE DEF S
  <2> QED BY <1>1, <2>1, Least
<1>3. /\ Len(C) \in Nat
      /\ \A k \in 1..Len(C) : g[k] \in Nat /\ g[k] >= 1
      /\ \A k, l \in 1..Len(C) : k < l => g[k] < g[l]
  <2>1. \A k \in 1..Len(C) : g[k] \in 1..Len(B)
    BY DEF Thins
  <2> QED BY <2>1 DEF Thins
<1>4. n \in 1..Len(C) /\ ~(n <= g[n])
  BY <1>2
<1>5. n - 1 \in 1..Len(C) /\ n - 1 < n /\ ~(n <= n - 1)
  BY <1>3, <1>4
<1>6. n - 1 \notin S
  <2> HIDE DEF S
  <2> QED BY <1>2, <1>5
<1>7. n - 1 <= g[n - 1] /\ g[n - 1] < g[n]
  BY <1>3, <1>4, <1>5, <1>6
<1>8. n \in Nat /\ g[n] \in Nat /\ g[n - 1] \in Nat
  BY <1>3, <1>4, <1>5
<1> HIDE DEF S
<1> QED BY <1>4, <1>7, <1>8

LEMMA ThinLast ==
  ASSUME NEW B, NEW C, NEW policy, NEW I, NEW g, Thins(g, C, B, I),
         "keep_last" \in DOMAIN policy => policy["keep_last"] \in Nat,
         NEW n \in DropsLast(C, policy)
  PROVE  g[n] \in DropsLast(B, policy)
<1>1. "keep_last" \in DOMAIN policy /\ policy["keep_last"] \in Nat
  BY DEF DropsLast
<1>2. n \in 1..Len(C) /\ n \in Nat /\ n > policy["keep_last"]
  BY <1>1 DEF DropsLast, SliceStart, Thins
<1>3. n <= g[n]
  BY <1>2, ThinPlaces
<1>4. g[n] \in DOMAIN B /\ g[n] \in Nat
  <2>1. g[n] \in 1..Len(B) /\ DOMAIN B = 1..Len(B)
    BY <1>2 DEF Thins
  <2> QED BY <2>1
<1>5. g[n] > policy["keep_last"]
  BY <1>1, <1>2, <1>3, <1>4
<1> QED BY <1>1, <1>4, <1>5 DEF DropsLast, SliceStart

(* The cutoff of max_age_days moves on with the clock. *)
LEMMA ThinOld ==
  ASSUME NEW B \in Seq(Backup), NEW C, NEW policy, NEW t \in Int, NEW u \in Int, t <= u,
         NEW I, NEW g, Thins(g, C, B, I),
         "max_age_days" \in DOMAIN policy => policy["max_age_days"] \in Int,
         NEW n \in DropsOld(C, policy, t)
  PROVE  g[n] \in DropsOld(B, policy, u)
<1> DEFINE age == policy["max_age_days"] * DayLen
<1>1. "max_age_days" \in DOMAIN policy /\ age \in Int
  <2>1. "max_age_days" \in DOMAIN policy
    BY DEF DropsOld
  <2>2. policy["max_age_days"] \in Int /\ DayLen \in Int
    BY <2>1, PolicyAssumption
  <2> QED BY <2>1, <2>2
<1>2. n \in 1..Len(C) /\ C[n].created < t - age
  BY DEF DropsOld, Thins
<1>3. g[n] \in DOMAIN B /\ C[n] = B[g[n]] /\ B[g[n]] \in Backup
  <2>1. g[n] \in DOMAIN B /\ C[n] = B[g[n]]
    BY <1>2 DEF Thins
  <2> QED BY <2>1
<1>4. B[g[n]].created \in Int
  BY <1>3 DEF Backup
<1>5. DropsOld(B, policy, u) = {i \in DOMAIN B : B[i].created < u - age}
  BY <1>1 DEF DropsOld
<1> HIDE DEF age
<1>6. B[g[n]].created < u - age
  BY <1>1, <1>2, <1>3, <1>4
<1> QED BY <1>3, <1>5, <1>6

(* In the thinner list, fewer buckets are seen when a backup's turn comes. *)
LEMMA ThinSeen ==
  ASSUME NEW B, NEW C, NEW on, on \subseteq Rule, NEW I, NEW g, Thins(g, C, B, I)
  PROVE  \A n \in 1..Len(C) : GFSSeen(C, on)[n - 1] \subseteq GFSSeen(B, on)[g[n] - 1]
<1> DEFINE seenB == GFSSeen(B, on)
           seenC == GFSSeen(C, on)
           S == {n \in 1..Len(C) : ~(seenC[n - 1] \subseteq seenB[g[n] - 1])}
<1>1. Len(B) \in Nat /\ Len(C) \in Nat
  BY DEF Thins
<1>2. /\ \A n \in 1..Len(C) : g[n] \in 1..Len(B) /\ C[n] = B[g[n]]
      /\ \A m, n \in 1..Len(C) : m < n => g[m] < g[n]
  BY DEF Thins
<1>3. SUFFICES ASSUME S # {} PROVE FALSE
  OBVIOUS
<1>4. PICK n \in S : \A m \in S : n <= m
  <2>1. S \in SUBSET Nat
    OBVIOUS
  <2> HIDE DEF S
  <2> QED BY <1>3, <2>1, Least
<1>5. n \in 1..Len(C) /\ ~(seenC[n - 1] \subseteq seenB[g[n] - 1])
  BY <1>4
<1>6. seenC[0] = {} /\ seenB[0] = {}
  BY <1>1, SeenRounds
<1>7. n # 1
  <2> HIDE DEF seenC, seenB
  <2> QED BY <1>5, <1>6
<1> DEFINE p == n - 1
<1>8. p \in 1..Len(C) /\ p < n /\ ~(n <= p)
  BY <1>5, <1>7
<1>9. p \notin S
  <2> HIDE DEF S
  <2> QED BY <1>4, <1>8
<1> HIDE DEF p
<1>10. seenC[p - 1] \subseteq seenB[g[p] - 1]
  BY <1>8, <1>9
<1> DEFINE before == seenB[g[p] - 1]
           less == seenC[p - 1]
           m == C[p]
<1>11. seenC[p] = less \cup KeptFor(on, less, m)
  BY <1>1, <1>8, SeenRounds
<1>12. seenB[g[p]] = before \cup KeptFor(on, before, m)
  <2>1. g[p] \in 1..Len(B) /\ m = B[g[p]]
    BY <1>2, <1>8
  <2> HIDE DEF m
  <2>2. \A i \in 1..Len(B) : seenB[i] = seenB[i - 1] \cup KeptFor(on, seenB[i - 1], B[i])
    BY <1>1, SeenRounds
  <2> QED BY <2>1, <2>2
<1>13. less \subseteq before
  BY <1>10
<1>14. seenB[g[p]] \subseteq seenB[g[n] - 1]
  <2>1. g[p] < g[n] /\ g[p] \in 1..Len(B) /\ g[n] \in 1..Len(B)
    BY <1>2, <1>5, <1>8
  <2>2. g[p] \in 0..Len(B) /\ g[n] - 1 \in 0..Len(B) /\ g[p] <= g[n] - 1
    BY <1>1, <2>1
  <2> QED BY <1>1, <2>2, SeenGrows
<1> HIDE DEF seenB, seenC, before, less, m
<1>15. KeptFor(on, less, m) \subseteq before \cup KeptFor(on, before, m)
  BY <1>13, KeptForMonotone
<1>16. seenC[p] \subseteq seenB[g[n] - 1]
  BY <1>11, <1>12, <1>13, <1>14, <1>15
<1> QED BY <1>5, <1>16 DEF p

LEMMA ThinGFS ==
  ASSUME NEW B, NEW C, NEW policy, NEW I, NEW g, Thins(g, C, B, I),
         NEW n \in DropsGFS(C, policy)
  PROVE  g[n] \in DropsGFS(B, policy)
<1> DEFINE on == RulesOn(policy)
           less == GFSSeen(C, on)[n - 1]
           before == GFSSeen(B, on)[g[n] - 1]
           m == C[n]
<1>1. on \subseteq Rule
  BY RulesOnRules
<1>2. DOMAIN policy \cap Rule # {} /\ n \in 1..Len(C) /\ KeptFor(on, less, m) = {}
  BY DEF DropsGFS, Thins
<1>3. g[n] \in DOMAIN B /\ m = B[g[n]]
  BY <1>2 DEF Thins
<1>4. less \subseteq before
  <2> HIDE DEF on
  <2> QED BY <1>1, <1>2, ThinSeen
<1>5. KeptFor(on, before, m) = {}
  <2> HIDE DEF on, less, before, m
  <2> QED BY <1>1, <1>2, <1>4, KeptForMonotone
<1> QED BY <1>2, <1>3, <1>5 DEF DropsGFS

(* All rules together: what they drop of some of the backups, they drop of *)
(* all of them, later too.                                                 *)
LEMMA ThinDrops ==
  ASSUME NEW B \in Seq(Backup), NEW C, NEW policy, NEW t \in Int, NEW u \in Int, t <= u,
         NEW I, NEW g, Thins(g, C, B, I),
         "keep_last" \in DOMAIN policy => policy["keep_last"] \in Nat,
         "max_age_days" \in DOMAIN policy => policy["max_age_days"] \in Int,
         NEW n \in Drops(C, policy, t)
  PROVE  n \in 1..Len(C) /\ g[n] \in I /\ g[n] \in Drops(B, policy, u)
<1>1. n \in 1..Len(C) /\ g[n] \in I
  BY DEF Drops, DropsLast, DropsOld, DropsGFS, Thins
<1>2. CASE n \in DropsLast(C, policy)
  BY <1>1, <1>2, ThinLast DEF Drops
<1>3. CASE n \in DropsOld(C, policy, t)
  BY <1>1, <1>3, ThinOld DEF Drops
<1>4. CASE n \in DropsGFS(C, policy)
  BY <1>1, <1>4, ThinGFS DEF Drops
<1> QED BY <1>2, <1>3, <1>4 DEF Drops

LEMMA PolicyKeys ==
  ASSUME NEW policy \in Policies,
         IF "keep_last" \in DOMAIN policy THEN policy["keep_last"] >= 0 ELSE TRUE
  PROVE  /\ "keep_last" \in DOMAIN policy =>
              policy["keep_last"] \in Int /\ policy["keep_last"] \in Nat
         /\ "max_age_days" \in DOMAIN policy => policy["max_age_days"] \in Int
BY PolicyAssumption

LEMMA IdempotentOfState == TypeOK => Idempotent
<1> SUFFICES ASSUME TypeOK, NEW s \in Source, NEW policy \in Policies,
                    IF "keep_last" \in DOMAIN policy THEN policy["keep_last"] >= 0 ELSE TRUE
             PROVE  ApplyPolicy(LoadBackups(MarkAll(dir, Doomed(s, policy)), s), policy, now)
                      = <<>>
  BY DEF Idempotent
<1> DEFINE B == LoadBackups(dir, s)
           gone == Doomed(s, policy)
           e == MarkAll(dir, gone)
           C == LoadBackups(e, s)
           I == {i \in DOMAIN B : ~Contains(gone, B[i])}
<1>1. /\ "keep_last" \in DOMAIN policy =>
           policy["keep_last"] \in Int /\ policy["keep_last"] \in Nat
      /\ "max_age_days" \in DOMAIN policy => policy["max_age_days"] \in Int
  BY PolicyKeys
<1>2. B \in Seq(Backup) /\ now \in Int
  BY ActiveListed, PolicyAssumption DEF TypeOK, Time
<1>3. IsDir(e) /\ \E g : Thins(g, C, B, I)
  BY TypeIsDir, LoadedAgain
<1>4. PICK g : Thins(g, C, B, I)
  BY <1>3
<1>5. C \in Seq(Backup)
  <2> HIDE DEF e
  <2> QED BY <1>3, LoadBackupsLists DEF Lists
<1> HIDE DEF B, C
<1>6. ToSet(gone) = At(B, Drops(B, policy, now))
  BY <1>1, <1>2, ApplyPolicySet DEF Doomed, B
<1>7. ASSUME NEW i \in I
      PROVE  i \notin Drops(B, policy, now)
  <2> SUFFICES ASSUME i \in Drops(B, policy, now) PROVE FALSE
    OBVIOUS
  <2>1. B[i] \in ToSet(gone)
    BY <1>6 DEF At
  <2>2. gone = ApplyPolicy(B, policy, now)
    BY DEF Doomed, B
  <2> HIDE DEF gone
  <2>3. Contains(gone, B[i]) <=> B[i] \in ToSet(gone)
    <3>1. gone \in Seq(Backup)
      BY <1>1, <1>2, <2>2, RulesDeleteSet, DedupedSeq DEF ApplyPolicy
    <3> QED BY <3>1 DEF Contains, ToSet
  <2> QED BY <2>1, <2>3
<1> HIDE DEF I, gone
<1>8. Drops(C, policy, now) = {}
  <2> SUFFICES ASSUME NEW n \in Drops(C, policy, now) PROVE FALSE
    OBVIOUS
  <2>1. g[n] \in I /\ g[n] \in Drops(B, policy, now)
    BY <1>1, <1>2, <1>4, ThinDrops
  <2> QED BY <1>7, <2>1
<1>9. ApplyPolicy(C, policy, now) = <<>>
  BY <1>1, <1>5, <1>8, ApplyPolicySet
<1> QED BY <1>9 DEF C, gone

(* For any calendar and any mixture of rules without a negative keep_last: *)
(* what a run leaves, a second run with the same policy leaves alone.      *)
THEOREM RunsIdempotent == Spec => []Idempotent
BY PolicyTypes, IdempotentOfState, PTL

LEMMA PartialOfState == TypeOK => PartialListsSafe
<1> SUFFICES ASSUME TypeOK, NEW s \in Source, NEW policy \in Policies,
                    NEW I \in SUBSET Mine(dir, s), NEW t \in 0..now,
                    IF "keep_last" \in DOMAIN policy THEN policy["keep_last"] >= 0 ELSE TRUE
             PROVE  ToSet(ApplyPolicy(LoadBackups(Picked(dir, I), s), policy, t))
                      \subseteq ToSet(Doomed(s, policy))
  BY DEF PartialListsSafe
<1> DEFINE B == LoadBackups(dir, s)
           e == Picked(dir, I)
           C == LoadBackups(e, s)
<1>1. /\ "keep_last" \in DOMAIN policy =>
           policy["keep_last"] \in Int /\ policy["keep_last"] \in Nat
      /\ "max_age_days" \in DOMAIN policy => policy["max_age_days"] \in Int
  BY PolicyKeys
<1>2. now \in Int /\ t \in Int /\ t <= now
  BY PolicyAssumption DEF TypeOK, Time
<1>3. B \in Seq(Backup)
  BY ActiveListed
<1>4. IsDir(e) /\ \E g : Thins(g, C, B, DOMAIN B)
  BY TypeIsDir, LoadedPartly
<1>5. PICK g : Thins(g, C, B, DOMAIN B)
  BY <1>4
<1>6. C \in Seq(Backup)
  <2> HIDE DEF e
  <2> QED BY <1>4, LoadBackupsLists DEF Lists
<1> HIDE DEF B, C
<1>7. ToSet(Doomed(s, policy)) = At(B, Drops(B, policy, now))
  BY <1>1, <1>3, ApplyPolicySet DEF Doomed, B
<1>8. ToSet(ApplyPolicy(C, policy, t)) = At(C, Drops(C, policy, t))
  BY <1>1, <1>6, ApplyPolicySet
<1>9. ASSUME NEW n \in Drops(C, policy, t)
      PROVE  C[n] \in At(B, Drops(B, policy, now))
  <2>1. n \in 1..Len(C) /\ g[n] \in Drops(B, policy, now)
    BY <1>1, <1>2, <1>3, <1>5, ThinDrops
  <2>2. C[n] = B[g[n]]
    BY <1>5, <2>1 DEF Thins
  <2> QED BY <2>1, <2>2 DEF At
<1>10. At(C, Drops(C, policy, t)) \subseteq At(B, Drops(B, policy, now))
  BY <1>9 DEF At
<1> QED BY <1>7, <1>8, <1>10 DEF C, e

(* For any calendar and any mixture of rules without a negative keep_last: *)
(* a run that has listed only some of the backups, at any earlier instant, *)
(* deletes nothing that a run on all of them would not delete now.         *)
THEOREM PartialListsDeleteNoMore == Spec => []PartialListsSafe
BY PolicyTypes, PartialOfState, PTL

-----------------------------------------------------------------------------
(* What BackupStore makes of keep_last.                                    *)

(* backups[keep:] of a list without repetition, by falling stamp, is one.  *)
LEMMA SliceLists ==
  ASSUME NEW B, NEW A, Lists(B, A), NEW k \in Nat
  PROVE  Lists(SliceFrom(B, k), ToSet(SliceFrom(B, k)))
<1> DEFINE p == SliceFrom(B, k)
<1>1. B \in Seq(Backup) /\ Len(B) \in Nat /\ DOMAIN B = 1..Len(B)
  BY DEF Lists
<1>2. p = SubSeq(B, k + 1, Len(B))
  BY DEF SliceFrom
<1> HIDE DEF p
<1>3. /\ p \in Seq(Backup)
      /\ Len(p) = IF k + 1 <= Len(B) THEN Len(B) - (k + 1) + 1 ELSE 0
      /\ \A j \in 1..(Len(B) - (k + 1) + 1) : p[j] = B[(k + 1) + j - 1]
  <2>1. \A i \in (k + 1)..Len(B) : i \in 1..Len(B)
    BY <1>1
  <2> QED BY <1>1, <1>2, <2>1, SubSeqProperties
<1>4. ASSUME NEW i \in DOMAIN p
      PROVE  i \in Int /\ k + i \in DOMAIN B /\ p[i] = B[k + i]
  <2>1. i \in 1..Len(p)
    BY <1>3
  <2> DEFINE n == Len(B)
             N == Len(p)
  <2>2. i \in 1..(Len(B) - (k + 1) + 1)
    <3>1. n \in Nat /\ i \in 1..N /\ N = IF k + 1 <= n THEN n - (k + 1) + 1 ELSE 0
      BY <1>1, <1>3, <2>1
    <3> HIDE DEF n, N
    <3>2. i \in 1..(n - (k + 1) + 1)
      BY <3>1
    <3> QED BY <3>2 DEF n
  <2>3. p[i] = B[(k + 1) + i - 1]
    BY <1>3, <2>2
  <2>4. (k + 1) + i - 1 = k + i /\ k + i \in 1..Len(B)
    BY <1>1, <2>2
  <2> QED BY <1>1, <2>2, <2>3, <2>4
<1>5. \A i, j \in DOMAIN p : p[i] = p[j] => i = j
  <2> SUFFICES ASSUME NEW i \in Int, NEW j \in Int, i \in DOMAIN p, j \in DOMAIN p,
                      p[i] = p[j]
               PROVE  i = j
    BY <1>4
  <2>1. k + i \in DOMAIN B /\ k + j \in DOMAIN B /\ B[k + i] = B[k + j]
    BY <1>4
  <2>2. \A m, n \in DOMAIN B : B[m] = B[n] => m = n
    BY DEF Lists
  <2>3. k + i = k + j
    BY <2>1, <2>2
  <2> QED BY <2>3
<1>6. \A i, j \in DOMAIN p : i <= j => StampKey(p[i].created) >= StampKey(p[j].created)
  <2> SUFFICES ASSUME NEW i \in DOMAIN p, NEW j \in DOMAIN p, i <= j
               PROVE  StampKey(p[i].created) >= StampKey(p[j].created)
    OBVIOUS
  <2>1. k + i \in DOMAIN B /\ k + j \in DOMAIN B /\ k + i <= k + j
    BY <1>4
  <2>2. StampKey(B[k + i].created) >= StampKey(B[k + j].created)
    BY <2>1 DEF Lists
  <2> QED BY <1>4, <2>2
<1> QED BY <1>3, <1>5, <1>6 DEF Lists, p

(* The same of what is picked of such a list. *)
LEMMA PickedLists ==
  ASSUME NEW B, NEW A, Lists(B, A), NEW I \in SUBSET (DOMAIN B)
  PROVE  Lists(Picked(B, I), ToSet(Picked(B, I)))
<1> DEFINE p == Picked(B, I)
           N == Cardinality(I)
<1>1. B \in Seq(Backup)
  BY DEF Lists
<1>2. p \in Seq(Backup)
  BY <1>1, PickedSeq
<1>3. PICK e : Embeds(e, p, B, I)
  BY <1>1, PickedEmbeds
<1> HIDE DEF p
<1>4. /\ N \in Nat /\ p = [n \in 1..N |-> B[e[n]]] /\ e \in [1..N -> I]
      /\ \A m, n \in 1..N : m < n <=> e[m] < e[n]
  BY <1>3 DEF Embeds
<1> HIDE DEF N
<1>5. DOMAIN p = 1..N /\ \A n \in 1..N : p[n] = B[e[n]] /\ e[n] \in DOMAIN B
  BY <1>4
<1>6. \A n \in 1..N : e[n] \in Int
  BY <1>1, <1>5
<1>7. \A i, j \in DOMAIN p : p[i] = p[j] => i = j
  <2> SUFFICES ASSUME NEW i \in 1..N, NEW j \in 1..N, p[i] = p[j] PROVE i = j
    BY <1>5
  <2>1. e[i] = e[j]
    BY <1>5 DEF Lists
  <2> QED BY <1>4, <1>6, <2>1
<1>8. \A i, j \in DOMAIN p : i <= j => StampKey(p[i].created) >= StampKey(p[j].created)
  <2> SUFFICES ASSUME NEW i \in 1..N, NEW j \in 1..N, i <= j
               PROVE  StampKey(p[i].created) >= StampKey(p[j].created)
    BY <1>5
  <2>1. ~(e[j] < e[i])
    BY <1>4
  <2>2. e[i] <= e[j]
    BY <1>6, <2>1
  <2>3. StampKey(B[e[i]].created) >= StampKey(B[e[j]].created)
    BY <1>5, <2>2 DEF Lists
  <2> QED BY <1>5, <2>3
<1> QED BY <1>2, <1>7, <1>8 DEF Lists, p

(* BeyondNewest of BackupStore: the backups of A that keep_last: k deletes.*)
BeyondNewest(A, k) == {m \in A : Cardinality(Later(A, m)) >= k}

(* BackupStore writes keep_last with sets, and has a run delete the newest *)
(* first.  For any directory of backups with different stamps this is what *)
(* _load_backups and _apply do: they return just the backups with k later  *)
(* ones or more, each once and by falling stamp.                           *)
THEOREM KeepLastOnSets ==
  ASSUME NEW d, IsDir(d), NEW s, Distinguished(ActiveOf(d, s)),
         NEW policy, DOMAIN policy = {"keep_last"}, policy["keep_last"] \in Nat, NEW t
  PROVE  Lists(ApplyPolicy(LoadBackups(d, s), policy, t),
               BeyondNewest(ActiveOf(d, s), policy["keep_last"]))
<1> DEFINE A == ActiveOf(d, s)
           B == LoadBackups(d, s)
           k == policy["keep_last"]
           gone == ApplyPolicy(B, policy, t)
           slice == SliceFrom(B, k)
<1>1. Lists(B, A) /\ k \in Nat /\ k \in Int
  BY LoadBackupsLists
<1> HIDE DEF A, B
<1>2. B \in Seq(Backup) /\ Len(B) \in Nat /\ DOMAIN B = 1..Len(B)
  BY <1>1 DEF Lists
<1>3. gone = Deduped(slice)
  <2>1. slice \in Seq(Backup)
    BY <1>1, <1>2, SliceSet
  <2>2. RulesDelete(B, policy, t) = (slice \o <<>>) \o <<>>
    BY DEF RulesDelete, Rule
  <2> HIDE DEF slice
  <2>3. (slice \o <<>>) \o <<>> = slice
    BY <2>1
  <2> QED BY <2>2, <2>3 DEF ApplyPolicy
<1>4. Lists(gone, ToSet(gone))
  <2>1. Lists(slice, ToSet(slice))
    BY <1>1, SliceLists
  <2> HIDE DEF slice, gone
  <2>2. {n \in DOMAIN slice : \A j \in 1..(n - 1) : slice[j] # slice[n]} \in SUBSET (DOMAIN slice)
    OBVIOUS
  <2> QED BY <1>3, <2>1, <2>2, PickedLists DEF Deduped
<1>5. ToSet(gone) = At(B, Drops(B, policy, t))
  BY <1>1, <1>2, ApplyPolicySet
<1> HIDE DEF gone
<1>6. Drops(B, policy, t) = {i \in DOMAIN B : i > k}
  <2>1. DropsLast(B, policy) = {i \in DOMAIN B : i > k}
    BY <1>1 DEF DropsLast, SliceStart
  <2>2. DropsOld(B, policy, t) = {}
    BY DEF DropsOld
  <2>3. DropsGFS(B, policy) = {}
    BY DEF DropsGFS, Rule
  <2> QED BY <2>1, <2>2, <2>3 DEF Drops
<1>7. Distinguished(A)
  BY DEF A
<1> HIDE DEF k
<1>8. \A i \in DOMAIN B : Cardinality(Later(A, B[i])) >= k <=> i > k
  <2> SUFFICES ASSUME NEW i \in DOMAIN B PROVE Cardinality(Later(A, B[i])) >= k <=> i > k
    OBVIOUS
  <2>1. Cardinality(Later(A, B[i])) = i - 1
    BY <1>1, <1>7, PlaceIsRank
  <2>2. i \in Int
    BY <1>2
  <2> QED BY <1>1, <2>1, <2>2
<1>9. A = {B[i] : i \in DOMAIN B}
  BY <1>1 DEF Lists, ToSet
<1>10. ToSet(gone) = BeyondNewest(A, k)
  BY <1>5, <1>6, <1>8, <1>9 DEF At, BeyondNewest
<1> QED BY <1>4, <1>10 DEF A, B, k, gone
===============================================================================
