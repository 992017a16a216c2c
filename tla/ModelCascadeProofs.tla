------------------------- MODULE ModelCascadeProofs -------------------------
(* Theorems about ModelCascade, and about the requests of ModelAccess that *)
(* drive it, for every limit, threshold, retry policy and bound on the     *)
(* records.                                                                *)
EXTENDS ModelAccess, TLAPS

Tally == [attempts : Nat, divergences : Nat, failures : Nat]

CascadeInv == CascadeTypeOK /\ PinHasEvidence

LEMMA OutcomeFields ==
  ASSUME CascadeTypeOK, NEW t \in Tier, NEW d \in BOOLEAN
  PROVE  LET c == Outcome(cascade, t, d)
         IN  /\ c \in [pinned : BOOLEAN, limit : Nat, threshold : Nat \X Nat,
                       tiers : [Tier -> Tally]]
             /\ c.pinned = cascade.pinned /\ c.limit = cascade.limit
             /\ c.threshold = cascade.threshold
             /\ \A s \in Tier : c.tiers[s].failures = cascade.tiers[s].failures
             /\ \A s \in Tier \ {t} : c.tiers[s] = cascade.tiers[s]
             /\ c.tiers[t].attempts = cascade.tiers[t].attempts + 1
             /\ c.tiers[t].divergences = cascade.tiers[t].divergences + (IF d THEN 1 ELSE 0)
<1> DEFINE c == Outcome(cascade, t, d)
           row == [cascade.tiers[t] EXCEPT
                     !.attempts = @ + 1,
                     !.divergences = IF d THEN @ + 1 ELSE @]
<1>1. /\ cascade.tiers \in [Tier -> Tally] /\ cascade.tiers[t] \in Tally
      /\ cascade.limit \in Nat /\ cascade.threshold \in Nat \X Nat
  BY DEF CascadeTypeOK, Tally
<1>2. cascade.pinned \in BOOLEAN
  BY DEF CascadeTypeOK
<1>3. /\ row \in Tally
      /\ row.attempts = cascade.tiers[t].attempts + 1
      /\ row.failures = cascade.tiers[t].failures
      /\ row.divergences = cascade.tiers[t].divergences + (IF d THEN 1 ELSE 0)
  <2>1. (IF d THEN cascade.tiers[t].divergences + 1 ELSE cascade.tiers[t].divergences) \in Nat
    BY <1>1 DEF Tally
  <2>2. cascade.tiers[t].attempts + 1 \in Nat
    BY <1>1 DEF Tally
  <2>3. /\ row \in Tally
        /\ row.attempts = cascade.tiers[t].attempts + 1
        /\ row.failures = cascade.tiers[t].failures
        /\ row.divergences =
             IF d THEN cascade.tiers[t].divergences + 1 ELSE cascade.tiers[t].divergences
    BY <1>1, <2>1, <2>2, Zenon DEF Tally
  <2>4. cascade.tiers[t].divergences \in Nat
    BY <1>1 DEF Tally
  <2> HIDE DEF row
  <2>5. QED
    BY <2>3, <2>4
<1>4. c = [cascade EXCEPT !.tiers = [cascade.tiers EXCEPT ![t] = row]]
  BY <1>1 DEF Outcome, CascadeTypeOK, Tally
<1> HIDE DEF c, row
<1>5. /\ c.pinned = cascade.pinned /\ c.limit = cascade.limit
      /\ c.threshold = cascade.threshold
      /\ c.tiers = [cascade.tiers EXCEPT ![t] = row]
      /\ c = [pinned |-> c.pinned, limit |-> c.limit, threshold |-> c.threshold,
              tiers |-> c.tiers]
  BY <1>4 DEF CascadeTypeOK
<1>6. c.tiers \in [Tier -> Tally]
  BY <1>1, <1>3, <1>5
<1>7. c \in [pinned : BOOLEAN, limit : Nat, threshold : Nat \X Nat, tiers : [Tier -> Tally]]
  BY <1>1, <1>2, <1>5, <1>6
<1>8. /\ \A s \in Tier : c.tiers[s].failures = cascade.tiers[s].failures
      /\ \A s \in Tier \ {t} : c.tiers[s] = cascade.tiers[s]
      /\ c.tiers[t].attempts = cascade.tiers[t].attempts + 1
      /\ c.tiers[t].divergences = cascade.tiers[t].divergences + (IF d THEN 1 ELSE 0)
  BY <1>1, <1>3, <1>5
<1>9. QED
  BY <1>5, <1>7, <1>8 DEF c

LEMMA FailureFields ==
  ASSUME CascadeTypeOK, NEW t \in Tier
  PROVE  LET c == Failure(cascade, t)
         IN  /\ c \in [pinned : BOOLEAN, limit : Nat, threshold : Nat \X Nat,
                       tiers : [Tier -> Tally]]
             /\ cascade.pinned => c.pinned
             /\ c.pinned => cascade.pinned \/ t = "Small"
             /\ c.threshold = cascade.threshold
             /\ c.tiers[t].failures = cascade.tiers[t].failures + 1
             /\ \A s \in Tier \ {t} : c.tiers[s] = cascade.tiers[s]
             /\ \A s \in Tier : /\ c.tiers[s].attempts = cascade.tiers[s].attempts
                                /\ c.tiers[s].divergences = cascade.tiers[s].divergences
<1> DEFINE c == Failure(cascade, t)
           row == [cascade.tiers[t] EXCEPT !.failures = @ + 1]
           pins == t = "Small" /\ cascade.tiers[t].failures + 1 >= cascade.limit
<1>1. /\ cascade.tiers \in [Tier -> Tally] /\ cascade.tiers[t] \in Tally
      /\ cascade.limit \in Nat /\ cascade.threshold \in Nat \X Nat
  BY DEF CascadeTypeOK, Tally
<1>3. /\ row \in Tally
      /\ row.failures = cascade.tiers[t].failures + 1
      /\ row.attempts = cascade.tiers[t].attempts
      /\ row.divergences = cascade.tiers[t].divergences
  BY <1>1 DEF Tally
<1>4. c = [cascade EXCEPT !.tiers = [cascade.tiers EXCEPT ![t] = row],
                          !.pinned = cascade.pinned \/ pins]
  BY <1>1 DEF Failure, CascadeTypeOK, Tally
<1>p. pins => t = "Small"
  OBVIOUS
<1> HIDE DEF c, row, pins
<1>5. /\ c.pinned = (cascade.pinned \/ pins) /\ c.limit = cascade.limit
      /\ c.threshold = cascade.threshold
      /\ c.tiers = [cascade.tiers EXCEPT ![t] = row]
      /\ c = [pinned |-> c.pinned, limit |-> c.limit, threshold |-> c.threshold,
              tiers |-> c.tiers]
  BY <1>4 DEF CascadeTypeOK
<1>6. c.tiers \in [Tier -> Tally]
  BY <1>1, <1>3, <1>5
<1>7. c \in [pinned : BOOLEAN, limit : Nat, threshold : Nat \X Nat, tiers : [Tier -> Tally]]
  <2>1. c.pinned \in BOOLEAN
    BY <1>5
  <2>2. QED
    BY <1>1, <1>5, <1>6, <2>1
<1>8. /\ c.tiers[t].failures = cascade.tiers[t].failures + 1
      /\ \A s \in Tier \ {t} : c.tiers[s] = cascade.tiers[s]
      /\ \A s \in Tier : /\ c.tiers[s].attempts = cascade.tiers[s].attempts
                         /\ c.tiers[s].divergences = cascade.tiers[s].divergences
  BY <1>1, <1>3, <1>5
<1>9. /\ cascade.pinned => c.pinned
      /\ c.pinned => cascade.pinned \/ t = "Small"
  BY <1>5, <1>p
<1>10. QED
  BY <1>5, <1>7, <1>8, <1>9 DEF c

LEMMA CascadeInvInit == CascadeInit => CascadeInv
BY CascadeAssumption
   DEF CascadeInit, NewCascade, NoRecord, CascadeInv, CascadeTypeOK, PinHasEvidence

LEMMA CascadeInvNext == CascadeInv /\ [CascadeNext]_cascade => CascadeInv'
<1> SUFFICES ASSUME CascadeInv, [CascadeNext]_cascade PROVE CascadeInv'
  OBVIOUS
<1>t. "Small" \in Tier
  BY DEF Tier
<1>1. ASSUME NEW t \in Tier, RecordFailure(t) PROVE CascadeInv'
  BY <1>1, <1>t, FailureFields
     DEF RecordFailure, CascadeInv, CascadeTypeOK, PinHasEvidence, Tally
<1>2. ASSUME NEW t \in Tier, NEW d \in BOOLEAN, RecordOutcome(t, d) PROVE CascadeInv'
  BY <1>2, <1>t, OutcomeFields
     DEF RecordOutcome, CascadeInv, CascadeTypeOK, PinHasEvidence, Tally
<1>3. ASSUME NEW n \in FailureLimits, SetMaxFailuresBeforePin(n) PROVE CascadeInv'
  BY <1>3, CascadeAssumption
     DEF SetMaxFailuresBeforePin, CascadeInv, CascadeTypeOK, PinHasEvidence
<1>4. ASSUME NEW x \in Thresholds, SetMissingUpgradeThreshold(x) PROVE CascadeInv'
  BY <1>4, CascadeAssumption
     DEF SetMissingUpgradeThreshold, CascadeInv, CascadeTypeOK, PinHasEvidence
<1>5. CASE ClearPin
  BY <1>5 DEF ClearPin, NoRecord, CascadeInv, CascadeTypeOK, PinHasEvidence
<1>6. CASE UNCHANGED cascade
  BY <1>6 DEF CascadeInv, CascadeTypeOK, PinHasEvidence
<1>7. QED
  BY <1>1, <1>2, <1>3, <1>4, <1>5, <1>6 DEF CascadeNext

LEMMA CascadeInvariant == CascadeSpec => []CascadeInv
BY CascadeInvInit, CascadeInvNext, PTL DEF CascadeSpec

(* A pinned cascade has a failure of the small tier on record.             *)
THEOREM PinsHaveEvidence == CascadeSpec => []PinHasEvidence
<1>1. CascadeInv => PinHasEvidence
  BY DEF CascadeInv
<1>2. QED
  BY <1>1, CascadeInvariant, PTL

(* Nothing but clear_pin ends a pin, and it forgets every tally.           *)
THEOREM OnlyClearUnpins == CascadeSpec => PinEndsOnlyByClear
<1>1. CascadeInv /\ [CascadeNext]_cascade =>
        [cascade.pinned /\ ~ cascade'.pinned
           => cascade'.tiers = [t \in Tier |-> NoRecord]]_cascade
  <2> SUFFICES ASSUME CascadeInv, CascadeNext, cascade.pinned, ~ cascade'.pinned
               PROVE  cascade'.tiers = [t \in Tier |-> NoRecord]
    OBVIOUS
  <2>1. ASSUME NEW t \in Tier, RecordFailure(t) PROVE FALSE
    BY <2>1, FailureFields DEF RecordFailure, CascadeInv
  <2>2. ASSUME NEW t \in Tier, NEW d \in BOOLEAN, RecordOutcome(t, d) PROVE FALSE
    BY <2>2, OutcomeFields DEF RecordOutcome, CascadeInv
  <2>3. ASSUME NEW n \in FailureLimits, SetMaxFailuresBeforePin(n) PROVE FALSE
    BY <2>3 DEF SetMaxFailuresBeforePin, CascadeInv, CascadeTypeOK
  <2>4. ASSUME NEW x \in Thresholds, SetMissingUpgradeThreshold(x) PROVE FALSE
    BY <2>4 DEF SetMissingUpgradeThreshold, CascadeInv, CascadeTypeOK
  <2>5. CASE ClearPin
    BY <2>5 DEF ClearPin, CascadeInv, CascadeTypeOK
  <2>6. QED
    BY <2>1, <2>2, <2>3, <2>4, <2>5 DEF CascadeNext
<1>2. QED
  BY <1>1, CascadeInvariant, PTL DEF CascadeSpec, PinEndsOnlyByClear

(* Chores come back from the large tier only by an answer of the small one,*)
(* a changed threshold, or clear_pin.                                      *)
THEOREM OnlySmallAnswersLowerChores == CascadeSpec => OnlySmallAnswersBringChoresDown
<1> DEFINE Lowers ==
      (RouteFor(cascade, "Chore") = "Large" /\ RouteFor(cascade', "Chore") = "Small")
        => \/ cascade'.tiers["Small"].attempts > cascade.tiers["Small"].attempts
           \/ cascade'.threshold # cascade.threshold
           \/ cascade'.tiers["Small"] = NoRecord
<1>1. CascadeInv /\ [CascadeNext]_cascade => [Lowers]_cascade
  <2> SUFFICES ASSUME CascadeInv, CascadeNext,
                      RouteFor(cascade, "Chore") = "Large",
                      RouteFor(cascade', "Chore") = "Small",
                      cascade'.threshold = cascade.threshold
               PROVE  \/ cascade'.tiers["Small"].attempts > cascade.tiers["Small"].attempts
                      \/ cascade'.tiers["Small"] = NoRecord
    OBVIOUS
  <2>t. /\ "Small" \in Tier
        /\ cascade.tiers["Small"].attempts \in Nat
    BY DEF Tier, CascadeInv, CascadeTypeOK
  <2>r. /\ cascade.pinned \/ DivergesTooOften(cascade, "Small")
        /\ ~ cascade'.pinned /\ ~ DivergesTooOften(cascade', "Small")
    BY DEF RouteFor
  <2>1. ASSUME NEW t \in Tier, RecordFailure(t) PROVE FALSE
    <3>1. /\ cascade.pinned => cascade'.pinned
          /\ cascade'.tiers["Small"].attempts = cascade.tiers["Small"].attempts
          /\ cascade'.tiers["Small"].divergences = cascade.tiers["Small"].divergences
      BY <2>1, <2>t, FailureFields DEF RecordFailure, CascadeInv
    <3>2. QED
      BY <3>1, <2>r DEF DivergesTooOften
  <2>2. ASSUME NEW t \in Tier, NEW d \in BOOLEAN, RecordOutcome(t, d)
        PROVE  cascade'.tiers["Small"].attempts > cascade.tiers["Small"].attempts
    <3>1. t = "Small"
      <4>1. /\ cascade'.pinned = cascade.pinned
            /\ t # "Small" => cascade'.tiers["Small"] = cascade.tiers["Small"]
        BY <2>2, <2>t, OutcomeFields DEF RecordOutcome, CascadeInv
      <4>2. QED
        BY <4>1, <2>r DEF DivergesTooOften
    <3>2. QED
      BY <2>2, <3>1, <2>t, OutcomeFields DEF RecordOutcome, CascadeInv
  <2>3. ASSUME NEW n \in FailureLimits, SetMaxFailuresBeforePin(n) PROVE FALSE
    <3>1. cascade'.pinned = cascade.pinned /\ cascade'.tiers = cascade.tiers
      BY <2>3 DEF SetMaxFailuresBeforePin, CascadeInv, CascadeTypeOK
    <3>2. QED
      BY <3>1, <2>r DEF DivergesTooOften
  <2>4. ASSUME NEW x \in Thresholds, SetMissingUpgradeThreshold(x) PROVE FALSE
    <3>1. cascade'.pinned = cascade.pinned /\ cascade'.tiers = cascade.tiers
      BY <2>4 DEF SetMissingUpgradeThreshold, CascadeInv, CascadeTypeOK
    <3>2. QED
      BY <3>1, <2>r DEF DivergesTooOften
  <2>5. CASE ClearPin
    BY <2>5, <2>t DEF ClearPin, CascadeInv, CascadeTypeOK
  <2>6. QED
    BY <2>1, <2>2, <2>3, <2>4, <2>5 DEF CascadeNext
<1>2. QED
  BY <1>1, CascadeInvariant, PTL DEF CascadeSpec, OnlySmallAnswersBringChoresDown

-----------------------------------------------------------------------------
(* A request under way asks a tier; until its outcome is observed the      *)
(* cascade is as the request found it, and only a review that did not throw*)
(* is looked at once more.                                                 *)
AccessInv ==
  /\ phase # "idle" => request.role \in Role /\ request.tier = RouteFor(request.before, request.role)
  /\ phase \in {"attempt", "sleep", "observe"} => cascade = request.before
  /\ phase = "review" => request.role = "Decision" /\ LastOutcome # "Thrown"

LEMMA AccessInvInit == Init => AccessInv
BY DEF Init, AccessInv

LEMMA AccessInvStep == AccessInv /\ [Next]_vars => AccessInv'
<1> SUFFICES ASSUME AccessInv, [Next]_vars PROVE AccessInv'
  OBVIOUS
<1>1. ASSUME NEW role \in Role, Ask(role) PROVE AccessInv'
  BY <1>1 DEF Ask, AccessInv
<1>2. CASE Attempt \/ Sleep
  BY <1>2 DEF Attempt, Sleep, AccessInv
<1>3. CASE ObserveOutcome
  BY <1>3 DEF ObserveOutcome, AccessInv, LastOutcome
<1>4. ASSUME NEW t \in Tier, NEW p \in Providers \cup {None}, SetProvider(t, p) PROVE AccessInv'
  BY <1>4 DEF SetProvider, AccessInv
<1>5. CASE CascadeCall \/ UNCHANGED vars
  BY <1>5 DEF CascadeCall, AccessInv, LastOutcome, vars, accessVars
<1>6. CASE Review
  BY <1>6 DEF Review, AccessInv
<1> QED  BY <1>1, <1>2, <1>3, <1>4, <1>5, <1>6 DEF Next

(* What observe_outcome does to the cascade.                               *)
LEMMA ObservedOutcome ==
  ASSUME AccessInv, ObserveOutcome
  PROVE  /\ LastOutcome \in Answers => RecordOutcome(request.tier, LastOutcome = "ToolsAlone")
         /\ LastOutcome = "Thrown" => UNCHANGED cascade
         /\ LastOutcome \notin Answers \cup {"Thrown"} => RecordFailure(request.tier)
         /\ cascade = request.before /\ request.tier \in Tier
<1>1. /\ cascade = request.before /\ ChargedTier = request.tier /\ request.tier \in Tier
  BY DEF ObserveOutcome, AccessInv, ChargedTier, RouteFor, Tier, Role
<1>2. CASE LastOutcome \in Answers
  BY <1>1, <1>2 DEF ObserveOutcome, Answers
<1>3. CASE LastOutcome = "Thrown"
  BY <1>1, <1>3 DEF ObserveOutcome, Answers
<1>4. CASE LastOutcome \notin Answers \cup {"Thrown"}
  BY <1>1, <1>4 DEF ObserveOutcome
<1> QED  BY <1>1, <1>2, <1>3, <1>4 DEF Answers

LEMMA AccessIsCascadeStep == AccessInv /\ [Next]_vars => [CascadeNext]_cascade
<1> SUFFICES ASSUME AccessInv, Next PROVE CascadeNext \/ UNCHANGED cascade
  BY DEF vars
<1>1. CASE ObserveOutcome
  BY <1>1, ObservedOutcome DEF CascadeNext
<1>2. CASE Review
  <2>1. request.tier \in Tier
    BY <1>2 DEF Review, AccessInv, RouteFor, Tier
  <2> QED  BY <1>2, <2>1 DEF Review, CascadeNext
<1> QED  BY <1>1, <1>2 DEF Next, Ask, Attempt, Sleep, SetProvider, CascadeCall

(* Requests, retries, provider swaps and exceptions move the cascade only  *)
(* as its own members do, so what is shown of it above holds of it there.  *)
THEOREM AccessUsesCascade == Spec => CascadeSpec
<1>1. Init => CascadeInit
  BY DEF Init
<1> QED  BY <1>1, AccessInvInit, AccessInvStep, AccessIsCascadeStep, PTL DEF Spec, CascadeSpec

-----------------------------------------------------------------------------
(* The second cascade is the first with this charge on the tier's record.  *)
ChargedTo(t, old, new, charge) ==
  /\ old.tiers[t] \in Tally
  /\ \A s \in Tier \ {t} : new.tiers[s] = old.tiers[s]
  /\ \A f \in DOMAIN NoRecord : new.tiers[t][f] = old.tiers[t][f] + charge[f]

LEMMA OutcomeCharges ==
  ASSUME CascadeTypeOK, NEW t \in Tier, NEW d \in BOOLEAN, RecordOutcome(t, d)
  PROVE  ChargedTo(t, cascade, cascade',
                   [attempts |-> 1, divergences |-> IF d THEN 1 ELSE 0, failures |-> 0])
BY OutcomeFields DEF RecordOutcome, ChargedTo, CascadeTypeOK, Tally, NoRecord

LEMMA FailureCharges ==
  ASSUME CascadeTypeOK, NEW t \in Tier, RecordFailure(t)
  PROVE  ChargedTo(t, cascade, cascade', [attempts |-> 0, divergences |-> 0, failures |-> 1])
BY FailureFields DEF RecordFailure, ChargedTo, CascadeTypeOK, Tally, NoRecord

(* A review under way has been charged as a chore would have been.         *)
ChargeInv ==
  phase = "review" =>
    ChargedTo(request.tier, request.before, cascade, Charge("Chore", LastOutcome))

LEMMA ObserveCharges ==
  ASSUME CascadeInv, AccessInv, ObserveOutcome
  PROVE  ChargedTo(request.tier, request.before, cascade', Charge("Chore", LastOutcome))
<1> DEFINE outcome == LastOutcome
           toolsAlone == outcome = "ToolsAlone"
<1>1. cascade = request.before /\ request.tier \in Tier /\ CascadeTypeOK
  BY ObservedOutcome DEF CascadeInv
<1>2. CASE outcome \in Answers
  <2>1. toolsAlone \in BOOLEAN /\ RecordOutcome(request.tier, toolsAlone)
    BY <1>2, ObservedOutcome
  <2>2. Charge("Chore", outcome) =
          [attempts |-> 1, divergences |-> IF toolsAlone THEN 1 ELSE 0, failures |-> 0]
    BY <1>2 DEF Charge
  <2> HIDE DEF toolsAlone
  <2> QED  BY <1>1, <2>1, <2>2, OutcomeCharges
<1>3. CASE outcome = "Thrown"
  <2>1. cascade' = cascade /\ Charge("Chore", outcome) =
          [attempts |-> 0, divergences |-> 0, failures |-> 0]
    BY <1>3, ObservedOutcome DEF Charge, Answers
  <2> QED  BY <1>1, <2>1 DEF ChargedTo, CascadeTypeOK, Tally, NoRecord
<1>4. CASE outcome \notin Answers \cup {"Thrown"}
  <2>1. RecordFailure(request.tier) /\ Charge("Chore", outcome) =
          [attempts |-> 0, divergences |-> 0, failures |-> 1]
    BY <1>4, ObservedOutcome DEF Charge, Answers
  <2> QED  BY <1>1, <2>1, FailureCharges
<1> QED  BY <1>2, <1>3, <1>4

LEMMA ChargeInvStep == CascadeInv /\ AccessInv /\ ChargeInv /\ [Next]_vars => ChargeInv'
<1> SUFFICES ASSUME CascadeInv, AccessInv, ChargeInv, [Next]_vars, phase' = "review"
             PROVE  ChargeInv'
  BY DEF ChargeInv
<1>1. CASE ObserveOutcome
  <2>1. UNCHANGED <<request, LastOutcome>>
    BY <1>1 DEF ObserveOutcome, LastOutcome
  <2> QED  BY <1>1, <2>1, ObserveCharges DEF ChargeInv
<1>2. CASE UNCHANGED vars
  BY <1>2 DEF ChargeInv, LastOutcome, vars, accessVars
<1> QED  BY <1>1, <1>2 DEF Next, Ask, Attempt, Sleep, Review, SetProvider, CascadeCall, accessVars

(* However often it was tried, a request is charged for its last attempt   *)
(* alone, to the tier that was asked: a chore once, an overridden or failed*)
(* review twice, nothing if the provider threw (orchestrator.cpp:112-133,  *)
(* 312 and 337, retrying_provider.cpp:18).                                 *)
THEOREM RequestsAreChargedByRole == Spec => RequestChargedByRole
<1> DEFINE outcome == LastOutcome
           Charged ==
             /\ \A t \in Tier \ {request.tier} : cascade'.tiers[t] = request.before.tiers[t]
             /\ \A f \in DOMAIN NoRecord :
                  cascade'.tiers[request.tier][f]
                    = request.before.tiers[request.tier][f] + Charge(request.role, outcome)[f]
<1>1. CascadeInv /\ AccessInv /\ ChargeInv /\ [Next]_vars
        => [phase # "idle" /\ phase' = "idle" => Charged]_vars
  <2> SUFFICES ASSUME CascadeInv, AccessInv, ChargeInv, Next, phase # "idle", phase' = "idle"
               PROVE  Charged
    OBVIOUS
  <2>1. ObserveOutcome \/ Review
    BY DEF Next, Ask, Attempt, Sleep, SetProvider, CascadeCall
  <2>2. CASE ObserveOutcome
    <3>1. request.role = "Chore" \/ outcome = "Thrown"
      BY <2>2 DEF ObserveOutcome, AccessInv, Role
    <3>2. Charge(request.role, outcome) = Charge("Chore", outcome)
      BY <3>1 DEF Charge
    <3> QED  BY <2>2, <3>2, ObserveCharges DEF ChargedTo
  <2>3. CASE Review
    <3>1. /\ request.role = "Decision" /\ outcome # "Thrown" /\ CascadeTypeOK
          /\ request.tier \in Tier
          /\ ChargedTo(request.tier, request.before, cascade, Charge("Chore", outcome))
      BY <2>3 DEF Review, AccessInv, ChargeInv, CascadeInv, RouteFor, Tier
    <3> DEFINE first == Charge("Chore", outcome)
               all == Charge("Decision", outcome)
    <3>2. PICK second \in [attempts : Nat, divergences : Nat, failures : Nat] :
            /\ ChargedTo(request.tier, cascade, cascade', second)
            /\ first \in Tally /\ \A f \in DOMAIN NoRecord : all[f] = first[f] + second[f]
      <4>1. CASE outcome = "Override"
        <5>1. RecordOutcome(request.tier, TRUE)
          BY <2>3, <4>1 DEF Review, Answers
        <5>2. ChargedTo(request.tier, cascade, cascade',
                        [attempts |-> 1, divergences |-> 1, failures |-> 0])
          BY <3>1, <5>1, OutcomeCharges
        <5> QED  BY <4>1, <5>2 DEF Charge, Answers, Tally, NoRecord
      <4>2. CASE outcome \in Answers \ {"Override"}
        <5>1. cascade' = cascade
          BY <2>3, <4>2 DEF Review
        <5>2. ChargedTo(request.tier, cascade, cascade',
                        [attempts |-> 0, divergences |-> 0, failures |-> 0])
          BY <3>1, <5>1 DEF ChargedTo, CascadeTypeOK, Tally, NoRecord
        <5> QED  BY <4>2, <5>2 DEF Charge, Answers, Tally, NoRecord
      <4>3. CASE outcome \notin Answers
        <5>1. RecordFailure(request.tier)
          BY <2>3, <4>3 DEF Review, Answers
        <5>2. ChargedTo(request.tier, cascade, cascade',
                        [attempts |-> 0, divergences |-> 0, failures |-> 1])
          BY <3>1, <5>1, FailureCharges
        <5> QED  BY <3>1, <4>3, <5>2 DEF Charge, Answers, Tally, NoRecord
      <4> QED  BY <4>1, <4>2, <4>3
    <3> HIDE DEF first, all
    <3>3. \A f \in DOMAIN NoRecord : /\ request.before.tiers[request.tier][f] \in Nat
                                     /\ first[f] \in Nat /\ second[f] \in Nat
      BY <3>1, <3>2 DEF ChargedTo, Tally, NoRecord
    <3>4. Charge(request.role, outcome) = all
      BY <3>1 DEF all
    <3>5. /\ \A t \in Tier \ {request.tier} : cascade'.tiers[t] = request.before.tiers[t]
          /\ \A f \in DOMAIN NoRecord :
               cascade'.tiers[request.tier][f] = request.before.tiers[request.tier][f] + all[f]
      BY <3>1, <3>2, <3>3 DEF ChargedTo, first
    <3> QED  BY <3>4, <3>5
  <2> QED  BY <2>1, <2>2, <2>3
<1>2. Init => ChargeInv
  BY DEF Init, ChargeInv
<1> QED  BY <1>1, <1>2, AccessInvInit, AccessInvStep, ChargeInvStep, AccessUsesCascade,
            CascadeInvariant, PTL DEF Spec, RequestChargedByRole
=============================================================================
