---------------------------- MODULE ModelCascade ----------------------------
(***************************************************************************)
(* src/core/model_cascade.cpp: which model tier a role is routed to.       *)
(* Decisions go to the large tier.  Chores go to the small one until it    *)
(* failed too often (they are pinned to the large tier) or its rate of     *)
(* diverging answers passed a threshold.                                   *)
(*                                                                         *)
(* The members are written as operators on the cascade's state, because    *)
(* one step of the orchestrator may record several observations; the       *)
(* module's own specification calls them one at a time.  tiers_ gets a     *)
(* key at its first record; a missing key and a row of zeros route alike.  *)
(***************************************************************************)
EXTENDS Naturals

CONSTANTS FailureLimits,  \* limits set_max_failures_before_pin is given
          Thresholds,     \* thresholds <<num, den>> set_missing_upgrade_threshold is given
          DefaultLimit,   \* max_failures_before_pin_, 3 in the code
          DefaultThreshold, \* missing_upgrade_threshold_, <<1, 10>> in the code
          MaxRecords      \* bound on what is recorded of a tier

ASSUME CascadeAssumption ==
  /\ FailureLimits \subseteq Nat
  /\ Thresholds \subseteq Nat \X (Nat \ {0})
  /\ DefaultLimit \in Nat
  /\ DefaultThreshold \in Nat \X (Nat \ {0})
  /\ DefaultThreshold[1] <= DefaultThreshold[2]
  /\ MaxRecords \in Nat

VARIABLE cascade

Tier == {"Small", "Large"}
Role == {"Chore", "Decision"}

NoRecord == [attempts |-> 0, divergences |-> 0, failures |-> 0]

NewCascade ==
  [pinned |-> FALSE, limit |-> DefaultLimit, threshold |-> DefaultThreshold,
   tiers |-> [t \in Tier |-> NoRecord]]

(* divergence_rate(tier) > missing_upgrade_threshold_                      *)
DivergesTooOften(c, t) ==
  c.tiers[t].divergences * c.threshold[2] > c.threshold[1] * c.tiers[t].attempts

RouteFor(c, role) ==
  IF role = "Decision" \/ c.pinned \/ DivergesTooOften(c, "Small")
    THEN "Large" ELSE "Small"

(* Mutant of Outcome: a good answer lifts the pin.                         *)
OutcomeUnpins(c, t, diverged) ==
  [c EXCEPT !.tiers[t].attempts = @ + 1,
            !.tiers[t].divergences = IF diverged THEN @ + 1 ELSE @,
            !.pinned = @ /\ diverged]

Outcome(c, t, diverged) ==
  [c EXCEPT !.tiers[t].attempts = @ + 1,
            !.tiers[t].divergences = IF diverged THEN @ + 1 ELSE @]

Failure(c, t) ==
  [c EXCEPT !.tiers[t].failures = @ + 1,
            !.pinned = @ \/ (t = "Small" /\ c.tiers[t].failures + 1 >= c.limit)]

-----------------------------------------------------------------------------
CascadeInit == cascade = NewCascade

RecordOutcome(t, diverged) ==
  /\ cascade.tiers[t].attempts < MaxRecords
  /\ cascade' = Outcome(cascade, t, diverged)

RecordFailure(t) ==
  /\ cascade.tiers[t].failures < MaxRecords
  /\ cascade' = Failure(cascade, t)

(* Mutant of SetMaxFailuresBeforePin: the new limit is applied to the pin. *)
SetMaxFailuresAndRepin(n) ==
  cascade' = [cascade EXCEPT !.limit = n, !.pinned = cascade.tiers["Small"].failures >= n]

SetMaxFailuresBeforePin(n) == cascade' = [cascade EXCEPT !.limit = n]

(* A threshold outside [0, 1] is refused with an exception.                *)
SetMissingUpgradeThreshold(x) ==
  /\ x[1] <= x[2]
  /\ cascade' = [cascade EXCEPT !.threshold = x]

(* Mutant of ClearPin: the pin stays on.                                   *)
ClearTallies == cascade' = [cascade EXCEPT !.tiers = [t \in Tier |-> NoRecord]]

ClearPin ==
  cascade' = [cascade EXCEPT !.pinned = FALSE, !.tiers = [t \in Tier |-> NoRecord]]

CascadeNext ==
  \/ \E t \in Tier : RecordFailure(t) \/ \E d \in BOOLEAN : RecordOutcome(t, d)
  \/ \E n \in FailureLimits : SetMaxFailuresBeforePin(n)
  \/ \E x \in Thresholds : SetMissingUpgradeThreshold(x)
  \/ ClearPin

CascadeSpec == CascadeInit /\ [][CascadeNext]_cascade

-----------------------------------------------------------------------------
CascadeTypeOK ==
  cascade \in [pinned : BOOLEAN, limit : Nat, threshold : Nat \X Nat,
               tiers : [Tier -> [attempts : Nat, divergences : Nat, failures : Nat]]]

(* A pin speaks of failures that are still on record: the small tier failed*)
(* since the last clear_pin, whatever the limit was set to afterwards.     *)
PinHasEvidence ==
  cascade.pinned => cascade.tiers["Small"].failures > 0

(* A failure moves chores up or leaves them where they are, and an answer  *)
(* of the large tier moves them nowhere: only the small tier's own good    *)
(* answers, a new threshold and clear_pin ever bring chores down again.    *)
OnlySmallAnswersBringChoresDown ==
  [][(RouteFor(cascade, "Chore") = "Large" /\ RouteFor(cascade', "Chore") = "Small")
       => \/ cascade'.tiers["Small"].attempts > cascade.tiers["Small"].attempts
          \/ cascade'.threshold # cascade.threshold
          \/ cascade'.tiers["Small"] = NoRecord]_cascade

(* A pinned cascade stays pinned until clear_pin, which forgets everything *)
(* with it: no good answer, and no raised limit, unpins it.                *)
PinEndsOnlyByClear ==
  [][cascade.pinned /\ ~ cascade'.pinned
       => cascade'.tiers = [t \in Tier |-> NoRecord]]_cascade
=============================================================================
