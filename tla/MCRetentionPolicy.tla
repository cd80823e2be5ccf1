------------------------- MODULE MCRetentionPolicy -------------------------
(* Instances of RetentionPolicy: a small calendar and the policies. *)
EXTENDS RetentionPolicy, TLC

(* A day is a second of two instants; days {0} and {1, 2} are weeks, {0, 1}*)
(* and {2} months, so that a week straddles two months.                    *)
SmallCalendar ==
  "keep_daily"   :> [t \in Time |-> t \div 2]
    @@ "keep_weekly"  :> [t \in Time |-> (t \div 2 + 1) \div 2]
    @@ "keep_monthly" :> [t \in Time |-> t \div 4]

KeepLast == [{"keep_last"} -> {0, 2}]
MaxAge == [{"max_age_days"} -> {1}]
GFS == UNION {[rules -> {1}] : rules \in SUBSET Rule \ {{}}}

Mixed ==
  { "keep_last" :> 1 @@ "max_age_days" :> 1,
    "keep_last" :> 2 @@ "keep_daily" :> 1 @@ "keep_weekly" :> 0,
    "max_age_days" :> 1 @@ "keep_weekly" :> 1 @@ "keep_monthly" :> 1 }

(* keep_last: -1 drops the oldest backup at every run. *)
Negative == [{"keep_last"} -> {-1}]

AllPolicies == KeepLast \cup MaxAge \cup GFS \cup Mixed \cup Negative
=============================================================================
