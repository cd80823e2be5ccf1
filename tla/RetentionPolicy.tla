-------------------------- MODULE RetentionPolicy --------------------------
(***************************************************************************)
(* What one retention run decides: _load_backups and _apply, the pure core *)
(* of backup.retention and of the watchdog.  A source gets backups as time *)
(* passes and policies are applied to it, one run at a time; how several   *)
(* runs race on disk is the business of BackupStore.                       *)
(***************************************************************************)
EXTENDS Integers, Sequences, FiniteSets, SequencesExt

CONSTANTS
  Source,     \* logical source names
  MaxBackups, \* bound on the backups ever created
  MaxTime,    \* bound on the clock
  Ticks,      \* instants per second; the first of them has microsecond 0
  DayLen,     \* instants per day of max_age_days
  Calendar,   \* Calendar[rule][t]: strftime of instant t for a GFS rule
  Policies    \* the policies callers send, functions on the keys they set

Rule == {"keep_daily", "keep_weekly", "keep_monthly"}
Time == 0..MaxTime

ASSUME PolicyAssumption ==
  /\ MaxBackups \in Nat /\ MaxTime \in Nat
  /\ Ticks \in Nat \ {0} /\ DayLen \in Nat \ {0}
  /\ DOMAIN Calendar = Rule
  /\ \A t, u \in Time :
       Calendar["keep_daily"][t] = Calendar["keep_daily"][u]
         => \A r \in Rule : Calendar[r][t] = Calendar[r][u]
  /\ \A policy \in Policies :
       /\ DOMAIN policy \subseteq Rule \cup {"keep_last", "max_age_days"}
       /\ \A key \in DOMAIN policy : policy[key] \in Int

VARIABLES
  now,        \* the clock
  dir         \* the manifests under backups/, in directory order

vars == <<now, dir>>

TypeOK ==
  /\ now \in Time
  /\ dir \in Seq([id : 1..Len(dir), source : Source,
                 status : {"active", "deleted"}, created : 0..now])
  /\ Len(dir) <= MaxBackups
  /\ \A i, j \in DOMAIN dir : dir[i].id = dir[j].id => i = j

-----------------------------------------------------------------------------
(* created_at is a string: isoformat writes the second and then, unless it *)
(* is zero, a point and the microsecond; "Z" closes it.  The strings of    *)
(* one second sort by microsecond, but "Z" sorts after "." and so the      *)
(* first instant of a second sorts last.                                   *)
StampKey(t) ==
  (t \div Ticks) * (Ticks + 1) + (IF t % Ticks = 0 THEN Ticks ELSE t % Ticks)

(* policy.get(rule, 0): any other value than 0 switches the rule on. *)
RuleOn(policy, rule) == rule \in DOMAIN policy /\ policy[rule] # 0

RulesOn(policy) == {r \in Rule : RuleOn(policy, r)}

(* The elements of s at the positions I, arranged so that those at ahead[i]*)
(* come before the one at i.                                               *)
Ranked(I, ahead) ==
  [n \in 1..Cardinality(I) |-> CHOOSE i \in I : Cardinality(ahead[i]) = n - 1]

Arranged(s, I, ahead) == [n \in 1..Cardinality(I) |-> s[Ranked(I, ahead)[n]]]

(* The elements of s at the positions I, in the order of s. *)
Picked(s, I) == Arranged(s, I, [i \in I |-> {j \in I : j < i}])

Mine(d, s) == {i \in DOMAIN d : d[i].source = s /\ d[i].status = "active"}

Bucket(r, m) == <<r, Calendar[r][m.created]>>

GFSRules == <<"keep_daily", "keep_weekly", "keep_monthly">>

-----------------------------------------------------------------------------
(* Plausible bugs; none of them is part of the specification.  Each stands *)
(* for the definition below that its name begins with.                     *)

(* backups[keep+1:] and backups[-keep:]. *)
SliceFromNext(backups, k) ==
  SubSeq(backups, (IF k >= 0 THEN k ELSE 0) + 2, Len(backups))
SliceFromEnd(backups, k) ==
  SubSeq(backups, (IF k >= Len(backups) THEN 0 ELSE Len(backups) - k) + 1, Len(backups))

(* The manifests stay in the order of the directory. *)
LoadBackupsUnsorted(d, s) == Picked(d, Mine(d, s))

(* A backup that any rule keeps marks only its day as seen. *)
KeptForItsDay(on, seen, m) ==
  {Bucket("keep_daily", m) : r \in {r \in on : Bucket(r, m) \notin seen}}

(* Another of the VALID_STATUSES. *)
MarkAllExpired(d, doomed) ==
  [i \in DOMAIN d |->
     IF Contains(doomed, d[i]) THEN [d[i] EXCEPT !.status = "expired"] ELSE d[i]]

-----------------------------------------------------------------------------
(* Active backups of s, newest stamp first; the sort is stable. *)
LoadBackups(d, s) ==
  LET Key(i) == StampKey(d[i].created)
  IN  Arranged(d, Mine(d, s),
        [i \in Mine(d, s) |->
           {j \in Mine(d, s) : Key(j) > Key(i) \/ (Key(j) = Key(i) /\ j < i)}])

(* backups[k:]; a negative k counts from the end. *)
SliceFrom(backups, k) ==
  LET n == Len(backups)
      start == IF k >= 0 THEN k ELSE IF n + k > 0 THEN n + k ELSE 0
  IN  SubSeq(backups, start + 1, n)

(* The backups created before a cutoff. *)
OlderThan(backups, cutoff) ==
  Picked(backups, {n \in DOMAIN backups : backups[n].created < cutoff})

-----------------------------------------------------------------------------
(* One round of the GFS loop: the first rule that is on and has not seen   *)
(* the bucket of m keeps it, and only that rule marks its bucket seen.  No *)
(* bucket is marked for a backup that goes.                                *)
KeptFor(on, seen, m) ==
  LET open == {i \in 1..3 : GFSRules[i] \in on /\ Bucket(GFSRules[i], m) \notin seen}
  IN  {Bucket(GFSRules[i], m) : i \in {i \in open : \A j \in open : i <= j}}

(* The buckets seen in the first n rounds. *)
GFSSeen(backups, on) ==
  LET seen[n \in 0..Len(backups)] ==
        IF n = 0 THEN {} ELSE seen[n - 1] \cup KeptFor(on, seen[n - 1], backups[n])
  IN  seen

GFSDeletes(backups, on) ==
  LET seen == GFSSeen(backups, on)
  IN  Picked(backups, {n \in DOMAIN backups : KeptFor(on, seen[n - 1], backups[n]) = {}})

-----------------------------------------------------------------------------
(* What each rule deletes, one rule after the other. *)
RulesDelete(backups, policy, t) ==
  (IF "keep_last" \in DOMAIN policy THEN SliceFrom(backups, policy["keep_last"]) ELSE <<>>)
    \o (IF "max_age_days" \in DOMAIN policy
          THEN OlderThan(backups, t - policy["max_age_days"] * DayLen) ELSE <<>>)
    \o (IF DOMAIN policy \cap Rule # {} THEN GFSDeletes(backups, RulesOn(policy)) ELSE <<>>)

(* A plausible bug: _apply without its last line. *)
ApplyPolicyWithDuplicates(backups, policy, t) == RulesDelete(backups, policy, t)

(* _apply: the deletions of all rules, without duplicates. *)
Deduped(s) == Picked(s, {n \in DOMAIN s : \A k \in 1..(n - 1) : s[k] # s[n]})

ApplyPolicy(backups, policy, t) == Deduped(RulesDelete(backups, policy, t))

-----------------------------------------------------------------------------
Init == now = 0 /\ dir = <<>>

Tick == now < MaxTime /\ now' = now + 1 /\ UNCHANGED dir

(* backup.create; iterdir lists directories in no particular order. *)
Create(s) ==
  /\ Len(dir) < MaxBackups
  /\ LET m == [id |-> Len(dir) + 1, source |-> s, status |-> "active", created |-> now]
     IN  dir' = Append(dir, m) \/ dir' = <<m>> \o dir
  /\ UNCHANGED now

(* backup.retention: every backup of the result is marked deleted. *)
MarkAll(d, doomed) ==
  [i \in DOMAIN d |->
     IF Contains(doomed, d[i]) THEN [d[i] EXCEPT !.status = "deleted"] ELSE d[i]]

Retention(s, policy) ==
  /\ dir' = MarkAll(dir, ApplyPolicy(LoadBackups(dir, s), policy, now))
  /\ UNCHANGED now

Next ==
  \/ Tick
  \/ \E s \in Source : Create(s) \/ \E policy \in Policies : Retention(s, policy)

Spec == Init /\ [][Next]_vars

-----------------------------------------------------------------------------
Active(s) == {m \in ToSet(dir) : m.source = s /\ m.status = "active"}

Doomed(s, policy) == ApplyPolicy(LoadBackups(dir, s), policy, now)

Kept(s, policy) == Active(s) \ ToSet(Doomed(s, policy))

(* keep_last: N keeps N backups, or all if there are fewer, and none that  *)
(* goes has a later stamp than one that stays.                             *)
KeepLastExact ==
  \A s \in Source, policy \in Policies :
    DOMAIN policy = {"keep_last"} /\ policy["keep_last"] >= 0 =>
      LET kept == Kept(s, policy)
          n == Cardinality(Active(s))
      IN  /\ Cardinality(kept) = IF n < policy["keep_last"] THEN n ELSE policy["keep_last"]
          /\ \A m \in kept, x \in Active(s) \ kept :
               StampKey(m.created) >= StampKey(x.created)

(* GFS: whatever the earlier rules take for themselves, every bucket of    *)
(* every rule that is on keeps a backup no later in the bucket than which  *)
(* there is none, by stamp.                                                *)
InBucket(s, r, b) == {m \in Active(s) : Calendar[r][m.created] = b}

BucketsOf(s, r) == {Calendar[r][m.created] : m \in Active(s)}

GFSKeepsBucketNewest ==
  \A s \in Source, policy \in Policies, r \in Rule :
    DOMAIN policy \subseteq Rule /\ RuleOn(policy, r) =>
      \A b \in BucketsOf(s, r) :
        \E m \in Kept(s, policy) \cap InBucket(s, r, b) :
          \A x \in InBucket(s, r, b) : StampKey(x.created) <= StampKey(m.created)

(* GFS keeps at most one backup for each rule that is on and each of its   *)
(* buckets; with a single rule then, together with the last, exactly one.  *)
GFSBounded ==
  \A s \in Source, policy \in Policies :
    DOMAIN policy \subseteq Rule /\ DOMAIN policy # {} =>
      Cardinality(Kept(s, policy)) <=
        Cardinality({p \in Rule \X UNION {BucketsOf(s, r) : r \in Rule} :
                       RuleOn(policy, p[1]) /\ InBucket(s, p[1], p[2]) # {}})

(* Applying a policy once more, at the same instant, deletes nothing: the  *)
(* watchdog and a handler with the same policy do not eat up a source by   *)
(* taking turns.  A negative keep_last is not a policy: it deletes the     *)
(* oldest backups at every run.                                            *)
Idempotent ==
  \A s \in Source, policy \in Policies :
    (IF "keep_last" \in DOMAIN policy THEN policy["keep_last"] >= 0 ELSE TRUE) =>
      ApplyPolicy(LoadBackups(MarkAll(dir, Doomed(s, policy)), s), policy, now) = <<>>

(* No backup is marked twice in a run, whichever rules agree on it, and no *)
(* rule of a policy saves what another one deletes.                        *)
Restricted(policy, keys) == [k \in DOMAIN policy \cap keys |-> policy[k]]

RulesAddUp ==
  \A s \in Source, policy \in Policies :
    /\ Cardinality(ToSet(Doomed(s, policy))) = Len(Doomed(s, policy))
    /\ Kept(s, policy) =
         Kept(s, Restricted(policy, {"keep_last"}))
           \cap Kept(s, Restricted(policy, {"max_age_days"}))
           \cap Kept(s, Restricted(policy, Rule))

(* What a run deletes does not depend on the order in which the file       *)
(* system lists backups with different stamps.                             *)
OrderIrrelevant ==
  \A s \in Source, policy \in Policies :
    IsInjective([m \in Active(s) |-> StampKey(m.created)]) =>
      ToSet(ApplyPolicy(LoadBackups(Reverse(dir), s), policy, now))
        = ToSet(Doomed(s, policy))

(* A run decides from the backups it has listed, to which others may have  *)
(* added since, and for the instant at which it began: whatever part of    *)
(* the active backups it has seen and however long ago, it deletes only    *)
(* what a run that sees all of them now would delete.                      *)
PartialListsSafe ==
  \A s \in Source : \A I \in SUBSET Mine(dir, s), policy \in Policies :
    (IF "keep_last" \in DOMAIN policy THEN policy["keep_last"] >= 0 ELSE TRUE) =>
      LET seen == LoadBackups(Picked(dir, I), s)
          doomed == ToSet(Doomed(s, policy))
      IN  \A t \in 0..now : ToSet(ApplyPolicy(seen, policy, t)) \subseteq doomed

-----------------------------------------------------------------------------
(* A statement of the docstring of backup_retention.py that the code does  *)
(* not keep, refuted by a run of its own.                                  *)

(* "keep the newest per day/week/month bucket, delete the rest": a backup  *)
(* that is newest in no bucket is kept for the next rule down.             *)
GFSDeletesTheRest ==
  \A s \in Source, policy \in Policies :
    DOMAIN policy \subseteq Rule =>
      \A m \in Kept(s, policy) :
        \E r \in Rule :
          /\ RuleOn(policy, r)
          /\ \A x \in InBucket(s, r, Calendar[r][m.created]) :
               StampKey(x.created) <= StampKey(m.created)
=============================================================================
