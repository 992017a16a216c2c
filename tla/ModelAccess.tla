---------------------------- MODULE ModelAccess ----------------------------
(***************************************************************************)
(* How the orchestrator asks a model: complete_for and observe_outcome of  *)
(* src/core/orchestrator.cpp route a request through the cascade and the   *)
(* ProviderRouter to a RetryingProvider around the provider of that tier,  *)
(* and count the outcome in the cascade.  Run counts a second record of a  *)
(* review that overrides the plan or fails.                                *)
(***************************************************************************)
EXTENDS ModelCascade, Sequences

CONSTANTS AttemptLimits,  \* the values of RetryPolicy::max_attempts looked at
          InitialBackoff, MaxBackoff, Multiplier, \* the rest of RetryPolicy
          ScriptLength    \* answers a FakeProvider is scripted with

ASSUME AccessAssumption ==
  /\ AttemptLimits \subseteq Nat
  /\ {InitialBackoff, MaxBackoff, Multiplier, ScriptLength} \subseteq Nat

VARIABLES router,       \* providers_: a provider or None for each tier
          script,       \* answers left in the FakeProvider's script
          max_attempts,
          phase,        \* idle, attempt, sleep, observe, review
          request,      \* role and tier of the request, and the cascade it found
          tried,        \* outcomes of its attempts
          backoff       \* the next wait between attempts

accessVars == <<router, script, max_attempts, phase, request, tried, backoff>>
vars == <<cascade, accessVars>>

None == "None"
Providers == {"fake", "remote"}
NoRequest == [role |-> None, tier |-> None, before |-> NewCascade]

(* The constructor with a provider gives it to both tiers; the one with a  *)
(* router looks at none.                                                   *)
Init ==
  /\ CascadeInit
  /\ router \in {[t \in Tier |-> p] : p \in Providers \cup {None}}
  /\ script = ScriptLength /\ max_attempts \in AttemptLimits
  /\ phase = "idle" /\ request = NoRequest
  /\ tried = <<>> /\ backoff = 0

-----------------------------------------------------------------------------
(* The outcomes of one call of a provider's complete.  An answer is a plan,*)
(* a plan that starts with OVERRIDE:, or no plan and tool calls.  The      *)
(* script's owner confirms every review; other providers answer, fail in a *)
(* way worth retrying or not, or throw (openai_provider.cpp:82 does for an *)
(* answer whose content is null).                                          *)
Answers == {"Plan", "Override", "ToolsAlone"}
Retryable == {"ProviderFailure"}
Final == {"Validation", "Cancelled"}

FakeComplete(role) ==
  IF role = "Decision" THEN {"Plan"} ELSE IF script > 0 THEN Answers ELSE Retryable
RemoteComplete == Answers \cup {"Thrown"} \cup Retryable \cup Final

Complete(p, role) == IF p = "fake" THEN FakeComplete(role) ELSE RemoteComplete

-----------------------------------------------------------------------------
(* ProviderRouter's has_tier and set.                                      *)
HasTier(t) == router[t] # None
SetTier(t, p) == router' = [router EXCEPT ![t] = p]

(* complete_for: the tier, and its provider if there is one.  A review may *)
(* leave two records.                                                      *)
Ask(role) ==
  LET tier == RouteFor(cascade, role)
      records == IF role = "Decision" THEN 2 ELSE 1
  IN  /\ phase = "idle"
      /\ cascade.tiers[tier].attempts + records <= MaxRecords
      /\ cascade.tiers[tier].failures + records <= MaxRecords
      /\ request' = [role |-> role, tier |-> tier, before |-> cascade]
      /\ backoff' = InitialBackoff
      /\ phase' = IF HasTier(tier) /\ max_attempts > 0 THEN "attempt" ELSE "observe"
      /\ UNCHANGED <<cascade, router, script, max_attempts, tried>>

(* The loop of RetryingProvider::complete.                                 *)
Retries(outcome) == outcome \in Retryable /\ Len(tried) + 1 < max_attempts

Attempt ==
  /\ phase = "attempt"
  /\ \E outcome \in Complete(router[request.tier], request.role) :
       /\ tried' = Append(tried, outcome)
       /\ script' = IF router[request.tier] = "fake" /\ request.role = "Chore" /\ outcome \in Answers
                      THEN script - 1 ELSE script
       /\ phase' = IF Retries(outcome) THEN "sleep" ELSE "observe"
  /\ UNCHANGED <<cascade, router, max_attempts, request, backoff>>

(* Mutant of Sleep: every attempt is counted in the cascade.               *)
SleepCounting ==
  /\ phase = "sleep"
  /\ backoff' = IF backoff * Multiplier < MaxBackoff THEN backoff * Multiplier ELSE MaxBackoff
  /\ phase' = "attempt"
  /\ RecordFailure(request.tier)
  /\ UNCHANGED <<router, script, max_attempts, request, tried>>

(* sleep_for(backoff).  The first wait is not held to max_backoff.         *)
Sleep ==
  /\ phase = "sleep"
  /\ backoff' = IF backoff * Multiplier < MaxBackoff THEN backoff * Multiplier ELSE MaxBackoff
  /\ phase' = "attempt"
  /\ UNCHANGED <<cascade, router, script, max_attempts, request, tried>>

(* The result is that of the last attempt, or a failure without any.       *)
LastOutcome == IF tried = <<>> THEN "Internal" ELSE tried[Len(tried)]

(* observe_outcome, of the tier the cascade gives chores now or of the one *)
(* that was read for the review before it; an exception passes it by.      *)
ChargedTier ==
  IF request.role = "Chore" THEN RouteFor(cascade, "Chore") ELSE request.tier

ObserveOutcome ==
  /\ phase = "observe"
  /\ CASE LastOutcome \in Answers -> RecordOutcome(ChargedTier, LastOutcome = "ToolsAlone")
       [] LastOutcome = "Thrown" -> UNCHANGED cascade
       [] OTHER -> RecordFailure(ChargedTier)
  /\ phase' = IF request.role = "Decision" /\ LastOutcome # "Thrown" THEN "review" ELSE "idle"
  /\ IF phase' = "idle" THEN request' = NoRequest /\ tried' = <<>> /\ backoff' = 0
                        ELSE UNCHANGED <<request, tried, backoff>>
  /\ UNCHANGED <<router, script, max_attempts>>

(* What run makes of a review: an override is recorded once more, as a     *)
(* divergence, and so is a failure.                                        *)
Review ==
  /\ phase = "review"
  /\ \/ LastOutcome = "Override" /\ RecordOutcome(request.tier, TRUE)
     \/ LastOutcome \in Answers \ {"Override"} /\ UNCHANGED cascade
     \/ LastOutcome \notin Answers /\ RecordFailure(request.tier)
  /\ phase' = "idle"
  /\ request' = NoRequest /\ tried' = <<>> /\ backoff' = 0
  /\ UNCHANGED <<router, script, max_attempts>>

(* Between requests: set_provider, which ignores a null one, and the       *)
(* cascade's members.                                                      *)
SetProvider(t, p) ==
  /\ phase = "idle"
  /\ IF p = None THEN UNCHANGED router ELSE SetTier(t, p)
  /\ UNCHANGED <<cascade, script, max_attempts, phase, request, tried, backoff>>

CascadeCall == phase = "idle" /\ CascadeNext /\ UNCHANGED accessVars

Next ==
  \/ \E role \in Role : Ask(role)
  \/ Attempt \/ Sleep \/ ObserveOutcome \/ Review
  \/ \E t \in Tier, p \in Providers \cup {None} : SetProvider(t, p)
  \/ CascadeCall

Spec == Init /\ [][Next]_vars

-----------------------------------------------------------------------------
(* What a request that ended with this outcome is charged with.            *)
Charge(role, outcome) ==
  LET overridden == role = "Decision" /\ outcome = "Override"
  IN  [attempts |-> IF overridden THEN 2 ELSE IF outcome \in Answers THEN 1 ELSE 0,
       divergences |-> IF overridden \/ outcome = "ToolsAlone" THEN 1 ELSE 0,
       failures |-> IF outcome \in Answers \cup {"Thrown"} THEN 0
                    ELSE IF role = "Decision" THEN 2 ELSE 1]

(* However often it was tried, a request is charged for its last attempt   *)
(* alone, to the tier that was asked: an answer once, an override of a     *)
(* review once more as a divergence, a failed chore once and a failed      *)
(* review twice, and nothing if the provider threw.                        *)
RequestChargedByRole ==
  [][phase # "idle" /\ phase' = "idle" =>
       LET old == request.before.tiers[request.tier]
           charge == Charge(request.role, LastOutcome)
       IN  /\ \A t \in Tier \ {request.tier} : cascade'.tiers[t] = request.before.tiers[t]
           /\ \A f \in DOMAIN NoRecord : cascade'.tiers[request.tier][f] = old[f] + charge[f]]_vars
=============================================================================
