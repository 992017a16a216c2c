-------------------------- MODULE OrchestratorProofs --------------------------
(* What holds of a run's verdict, its overrides, its budgets and its       *)
(* routing for any tools, files, call lists, answers and bounds.           *)
EXTENDS Orchestrator, ToolCacheProofs, FiniteSetTheorems, FunctionTheorems

Kind == {"TurnStarted", "ModelRequested", "ModelResponded", "ToolCalled", "ToolFinished",
         "CacheHit", "WorkingSetRendered", "DecisionOverride", "SideEffects", "TaskEnded",
         "BudgetHit", "Degraded"}

LEMMA Bounds == MaxTurns \in Nat /\ MaxCost \in Nat
  BY OrchestratorAssumption

(* What the steps of the loop append to the log.                           *)
Asking == {<<"ModelRequested", "Degraded">>,
           <<"ModelRequested", "ModelResponded", "BudgetHit">>,
           <<"ModelRequested", "ModelResponded", "TaskEnded">>,
           <<"ModelRequested", "ModelResponded", "ToolCalled">>}
Overriding == {<<"DecisionOverride", "WorkingSetRendered">>, <<"DecisionOverride", "TaskEnded">>}
ToolPieces == {<<"CacheHit">>, <<"ToolFinished">>}
Others == {<<>>, <<"TurnStarted">>, <<"WorkingSetRendered">>, <<"SideEffects">>, <<"BudgetHit">>}
Pieces == Asking \cup Overriding \cup ToolPieces \cup Others

Verdicts(l) == {n \in DOMAIN l : l[n] \in {"TaskEnded", "BudgetHit", "Degraded"}}
ToolEvents(l) == {n \in DOMAIN l : l[n] \in {"ToolFinished", "CacheHit"}}
Overrides(l) == {n \in DOMAIN l : l[n] = "DecisionOverride"}

(* A piece that closes a run: its verdict comes last.                      *)
Closes(k, result) ==
  Len(k) > 0 /\ Verdicts(k) = {Len(k)} /\ k[Len(k)] = VerdictOf(result)

LEMMA PieceTypes == Pieces \subseteq Seq(Kind)
<1>1. Asking \subseteq Seq(Kind)
  BY DEF Asking, Kind
<1>2. Overriding \subseteq Seq(Kind)
  BY DEF Overriding, Kind
<1>3. ToolPieces \subseteq Seq(Kind)
  BY DEF ToolPieces, Kind
<1>4. Others \subseteq Seq(Kind)
  BY DEF Others, Kind
<1> QED  BY <1>1, <1>2, <1>3, <1>4 DEF Pieces

LEMMA ClosingPieces ==
  /\ Closes(<<"ModelRequested", "ModelResponded", "BudgetHit">>, "bounded")
  /\ Closes(<<"ModelRequested", "ModelResponded", "TaskEnded">>, "completed")
  /\ Closes(<<"ModelRequested", "Degraded">>, "failed")
  /\ Closes(<<"DecisionOverride", "TaskEnded">>, "completed")
  /\ Closes(<<"BudgetHit">>, "bounded")
<1>1. /\ VerdictOf("bounded") = "BudgetHit" /\ VerdictOf("completed") = "TaskEnded"
      /\ VerdictOf("failed") = "Degraded"
  BY DEF VerdictOf
<1>2. /\ Verdicts(<<"ModelRequested", "ModelResponded", "BudgetHit">>) = {3}
      /\ Verdicts(<<"ModelRequested", "ModelResponded", "TaskEnded">>) = {3}
  BY DEF Verdicts
<1>3. /\ Verdicts(<<"ModelRequested", "Degraded">>) = {2}
      /\ Verdicts(<<"DecisionOverride", "TaskEnded">>) = {2}
      /\ Verdicts(<<"BudgetHit">>) = {1}
  BY DEF Verdicts
<1> QED  BY <1>1, <1>2, <1>3 DEF Closes

LEMMA QuietPieces ==
  /\ Verdicts(<<"ModelRequested", "ModelResponded", "ToolCalled">>) = {}
  /\ Verdicts(<<"DecisionOverride", "WorkingSetRendered">>) = {}
  /\ Verdicts(<<"WorkingSetRendered">>) = {} /\ Verdicts(<<>>) = {}
  /\ Verdicts(<<"CacheHit">>) = {} /\ Verdicts(<<"ToolFinished">>) = {}
  /\ Verdicts(<<"TurnStarted">>) = {} /\ Verdicts(<<"SideEffects">>) = {}
BY DEF Verdicts

LEMMA PieceEvents ==
  /\ \A k \in Pieces \ ToolPieces : ToolEvents(k) = {}
  /\ \A k \in Pieces \ Overriding : Overrides(k) = {}
  /\ \A k \in Asking : 1 \in DOMAIN k /\ k[1] = "ModelRequested"
<1>1. \A k \in Asking : ToolEvents(k) = {} /\ Overrides(k) = {}
  BY DEF Asking, ToolEvents, Overrides
<1>2. \A k \in Overriding : ToolEvents(k) = {}
  BY DEF Overriding, ToolEvents
<1>3. \A k \in ToolPieces : Overrides(k) = {}
  BY DEF ToolPieces, Overrides
<1>4. \A k \in Others : ToolEvents(k) = {} /\ Overrides(k) = {}
  BY DEF Others, ToolEvents, Overrides
<1>5. \A k \in Asking : 1 \in DOMAIN k /\ k[1] = "ModelRequested"
  BY DEF Asking
<1> QED  BY <1>1, <1>2, <1>3, <1>4, <1>5 DEF Pieces

(* An appended piece adds its own events, further on.                      *)
LEMMA Appended ==
  ASSUME NEW l \in Seq(Kind), NEW k \in Seq(Kind)
  PROVE  /\ l \o k \in Seq(Kind) /\ Len(l \o k) = Len(l) + Len(k)
         /\ \A n \in DOMAIN l : n \in DOMAIN (l \o k) /\ (l \o k)[n] = l[n]
         /\ \A n \in DOMAIN k : Len(l) + n \in DOMAIN (l \o k) /\ (l \o k)[Len(l) + n] = k[n]
         /\ \A n \in DOMAIN (l \o k) \ DOMAIN l :
              n - Len(l) \in DOMAIN k /\ (l \o k)[n] = k[n - Len(l)]
OBVIOUS

-----------------------------------------------------------------------------
(* The types the arguments need, and money.                                *)
LoopInv ==
  /\ log \in Seq(Kind) /\ calls \in Seq(Call)
  /\ slot \in Nat \ {0} /\ cost \in Nat
  /\ pc # "over" => ~ BudgetSpent(cost)

LEMMA LoopInvInit == Init => LoopInv
  BY Bounds DEF Init, LoopInv, BudgetSpent

LEMMA LogGrows == [Next]_vars => log' = log \/ \E k \in Pieces : Emit(k)
<1> SUFFICES ASSUME Next PROVE log' = log \/ \E k \in Pieces : Emit(k)
  BY DEF vars, loopVars, turnVars
<1>1. CASE Chore
  <2>1. \E k \in Asking : Emit(k)
    BY <1>1 DEF Chore, ChoreFails, ChoreOverspends, ChoreCallsTools, ChoreFinishes, Asking
  <2> QED  BY <2>1 DEF Pieces
<1>2. CASE Review
  <2>1. \E k \in Overriding \cup Others : Emit(k)
    BY <1>2 DEF Review, DecisionFails, DecisionConfirms, DecisionOverrides, DecisionAnswers,
       Overriding, Others
  <2> QED  BY <2>1 DEF Pieces
<1>3. CASE LookupCall \/ RecordResult
  <2>1. \E k \in ToolPieces \cup Others : Emit(k)
    BY <1>3 DEF LookupCall, RecordResult, ToolPieces, Others
  <2> QED  BY <2>1 DEF Pieces
<1>4. CASE StartRun \/ TurnsSpent \/ EndTurn
  <2>1. log' = log \/ \E k \in Others : Emit(k)
    BY <1>4 DEF StartRun, TurnsSpent, EndTurn, Others
  <2> QED  BY <2>1 DEF Pieces
<1>5. CASE EndLookup \/ Execute \/ SpliceHits
  BY <1>5 DEF EndLookup, Execute, ExecuteCall, ExecutionThrows, SpliceHits
<1>6. CASE Beside \/ UNCHANGED vars
  BY <1>6 DEF Beside, ExternalWrite, InvalidateCacheDependency, turnVars, loopVars, vars
<1> QED  BY <1>1, <1>2, <1>3, <1>4, <1>5, <1>6 DEF Next, Loop

(* Every answer that leaves the loop running was priced and found within   *)
(* the budget.                                                             *)
LEMMA LoopInvStep == LoopInv /\ [Next]_vars => LoopInv'
<1> SUFFICES ASSUME LoopInv, [Next]_vars PROVE LoopInv'
  OBVIOUS
<1>1. log' \in Seq(Kind)
  BY LogGrows, PieceTypes, Appended DEF LoopInv, Emit
<1>2. calls' \in Seq(Call)
  <2>1. calls' \in {calls, <<>>} \cup CallLists
    BY DEF Next, Loop, Chore, ChoreFails, ChoreOverspends, ChoreFinishes, ChoreCallsTools,
       Review, DecisionFails, DecisionConfirms, DecisionOverrides, DecisionAnswers, StartRun,
       LookupCall, EndLookup, Execute, ExecuteCall, ExecutionThrows, SpliceHits, RecordResult, EndTurn,
       TurnsSpent, Beside, ExternalWrite, InvalidateCacheDependency, turnVars, loopVars, vars
  <2>2. CallLists \subseteq Seq(Call)
    BY OrchestratorAssumption
  <2>3. <<>> \in Seq(Call)
    OBVIOUS
  <2> QED  BY <2>1, <2>2, <2>3 DEF LoopInv
<1>3. slot' \in Nat \ {0}
  <2>1. slot' \in {slot, 1, slot + 1}
    BY DEF Next, Loop, Chore, ChoreFails, ChoreOverspends, ChoreFinishes, ChoreCallsTools,
       RequestChore, Review, DecisionFails, DecisionConfirms, DecisionOverrides, DecisionAnswers,
       ToLookup, StartRun, LookupCall, EndLookup, Execute, ExecuteCall, ExecutionThrows, SpliceHits,
       RecordResult, EndTurn, TurnsSpent, Beside, ExternalWrite, InvalidateCacheDependency,
       turnVars, loopVars, vars
  <2> QED  BY <2>1 DEF LoopInv
<1>4. cost' \in Nat /\ (pc' # "over" => ~ BudgetSpent(cost'))
  <2>1. \/ cost' = cost /\ (pc' # "over" => pc # "over")
        \/ \E price \in 0..1 :
             cost' = cost + price /\ (pc' = "over" \/ ~ BudgetSpent(cost + price))
    <3>1. CASE Chore
      BY <3>1 DEF Chore, ChoreFails, ChoreOverspends, ChoreFinishes, ChoreCallsTools, Return
    <3>2. CASE Review
      BY <3>2 DEF Review, DecisionFails, DecisionConfirms, DecisionOverrides, DecisionAnswers,
         ToLookup, ReviewFrame, Return
    <3>3. CASE StartRun \/ LookupCall \/ EndLookup \/ Execute
      BY <3>3 DEF StartRun, LookupCall, EndLookup, Execute, ExecuteCall, ExecutionThrows, Return
    <3>4. CASE SpliceHits \/ RecordResult \/ EndTurn \/ TurnsSpent
      BY <3>4 DEF SpliceHits, RecordResult, EndTurn, TurnsSpent, Return
    <3>5. CASE Beside \/ UNCHANGED vars
      BY <3>5 DEF Beside, ExternalWrite, InvalidateCacheDependency, turnVars, loopVars, vars
    <3> QED  BY <3>1, <3>2, <3>3, <3>4, <3>5 DEF Next, Loop
  <2>2. cost' \in Nat
    BY <2>1 DEF LoopInv
  <2> QED  BY <2>1, <2>2 DEF LoopInv
<1> QED  BY <1>1, <1>2, <1>3, <1>4 DEF LoopInv

-----------------------------------------------------------------------------
(* OneVerdict says nothing of where the loop is: a run that is not over    *)
(* has no outcome yet, so that whatever ends it adds the first verdict.    *)
VerdictInv ==
  /\ pc # "over" => outcome = "none"
  /\ OneVerdict

LEMMA QuietPiece ==
  ASSUME NEW l \in Seq(Kind), NEW k \in Seq(Kind), Verdicts(l) = {}, Verdicts(k) = {}
  PROVE  Verdicts(l \o k) = {}
BY Appended DEF Verdicts

LEMMA LastPiece ==
  ASSUME NEW l \in Seq(Kind), NEW k \in Seq(Kind), Verdicts(l) = {},
         Len(k) > 0, Verdicts(k) = {Len(k)}
  PROVE  Verdicts(l \o k) = {Len(l \o k)} /\ (l \o k)[Len(l \o k)] = k[Len(k)]
<1>1. Len(k) \in DOMAIN k /\ Len(l) + Len(k) = Len(l \o k)
  BY Appended
<1>2. ASSUME NEW n \in Verdicts(l \o k) PROVE n = Len(l \o k)
  <2>1. n \in DOMAIN (l \o k) \ DOMAIN l
    BY <1>2, Appended DEF Verdicts
  <2>2. n - Len(l) \in Verdicts(k)
    BY <1>2, <2>1, Appended DEF Verdicts
  <2>3. n - Len(l) = Len(k)
    BY <2>2
  <2>4. n \in Nat /\ Len(l) \in Nat
    BY <2>1, Appended
  <2> QED  BY <1>1, <2>3, <2>4
<1>3. Len(l \o k) \in Verdicts(l \o k) /\ (l \o k)[Len(l \o k)] = k[Len(k)]
  BY <1>1, Appended DEF Verdicts
<1> QED  BY <1>2, <1>3

LEMMA VerdictInvInit == Init => VerdictInv
  BY DEF Init, VerdictInv, OneVerdict

(* A step before the end either adds no verdict and gives no outcome, or   *)
(* ends the run and adds the verdict on it as the last event.              *)
LEMMA GoesOn ==
  ASSUME LoopInv, VerdictInv, pc # "over", NEW kinds \in Pieces, Emit(kinds),
         Verdicts(kinds) = {}, outcome' = outcome
  PROVE  VerdictInv'
<1>1. outcome = "none" /\ Verdicts(log) = {}
  BY DEF VerdictInv, OneVerdict, Verdicts
<1>2. Verdicts(log') = {}
  BY <1>1, QuietPiece, PieceTypes DEF LoopInv, Emit
<1> QED  BY <1>1, <1>2 DEF VerdictInv, OneVerdict, Verdicts

LEMMA Ends ==
  ASSUME LoopInv, VerdictInv, pc # "over", NEW result \in {"completed", "bounded", "failed"},
         Return(result), NEW kinds \in Pieces, Emit(kinds), Closes(kinds, result)
  PROVE  VerdictInv'
<1>1. Verdicts(log) = {}
  BY DEF VerdictInv, OneVerdict, Verdicts
<1>2. Verdicts(log') = {Len(log')} /\ log'[Len(log')] = VerdictOf(outcome')
  BY <1>1, LastPiece, PieceTypes DEF LoopInv, Emit, Return, Closes
<1> QED  BY <1>2 DEF VerdictInv, OneVerdict, Verdicts, Return

LEMMA Untouched ==
  ASSUME VerdictInv, log' = log, outcome' = outcome, pc' = "over" <=> pc = "over"
  PROVE  VerdictInv'
BY DEF VerdictInv, OneVerdict

LEMMA VerdictInvStep == LoopInv /\ VerdictInv /\ [Next]_vars => VerdictInv'
<1> SUFFICES ASSUME LoopInv, VerdictInv, [Next]_vars PROVE VerdictInv'
  OBVIOUS
<1>0. Asking \cup Overriding \cup ToolPieces \cup Others \subseteq Pieces
  BY DEF Pieces
<1>1. ASSUME NEW price \in 0..1, NEW diverged \in BOOLEAN, ChoreOverspends(price, diverged)
      PROVE  VerdictInv'
  <2>1. <<"ModelRequested", "ModelResponded", "BudgetHit">> \in Pieces
    BY <1>0 DEF Asking
  <2>2. pc # "over" /\ Emit(<<"ModelRequested", "ModelResponded", "BudgetHit">>) /\ Return("bounded")
    BY <1>1 DEF ChoreOverspends, RequestChore
  <2> QED  BY <2>1, <2>2, ClosingPieces, Ends
<1>2. ASSUME NEW price \in 0..1, ChoreFinishes(price) PROVE VerdictInv'
  <2>1. <<"ModelRequested", "ModelResponded", "TaskEnded">> \in Pieces
    BY <1>0 DEF Asking
  <2>2. pc # "over" /\ Emit(<<"ModelRequested", "ModelResponded", "TaskEnded">>) /\ Return("completed")
    BY <1>2 DEF ChoreFinishes, RequestChore
  <2> QED  BY <2>1, <2>2, ClosingPieces, Ends
<1>3. CASE ChoreFails
  <2>1. <<"ModelRequested", "Degraded">> \in Pieces
    BY <1>0 DEF Asking
  <2>2. pc # "over" /\ Emit(<<"ModelRequested", "Degraded">>) /\ Return("failed")
    BY <1>3 DEF ChoreFails, RequestChore
  <2> QED  BY <2>1, <2>2, ClosingPieces, Ends
<1>4. CASE DecisionAnswers
  <2>1. <<"DecisionOverride", "TaskEnded">> \in Pieces
    BY <1>0 DEF Overriding
  <2>2. pc # "over" /\ Emit(<<"DecisionOverride", "TaskEnded">>) /\ Return("completed")
    BY <1>4 DEF DecisionAnswers
  <2> QED  BY <2>1, <2>2, ClosingPieces, Ends
<1>5. CASE TurnsSpent
  <2>1. <<"BudgetHit">> \in Pieces
    BY <1>0 DEF Others
  <2>2. pc # "over" /\ Emit(<<"BudgetHit">>) /\ Return("bounded")
    BY <1>5 DEF TurnsSpent
  <2> QED  BY <2>1, <2>2, ClosingPieces, Ends
<1>6. ASSUME NEW price \in 0..1, NEW diverged \in BOOLEAN, NEW list \in CallLists,
             ChoreCallsTools(price, diverged, list)
      PROVE  VerdictInv'
  <2>1. <<"ModelRequested", "ModelResponded", "ToolCalled">> \in Pieces
    BY <1>0 DEF Asking
  <2>2. pc # "over" /\ Emit(<<"ModelRequested", "ModelResponded", "ToolCalled">>) /\ outcome' = outcome
    BY <1>6 DEF ChoreCallsTools, RequestChore
  <2> QED  BY <2>1, <2>2, QuietPieces, GoesOn
<1>7. CASE DecisionFails \/ (\E diverged \in BOOLEAN : DecisionConfirms(diverged))
  <2>1. <<"WorkingSetRendered">> \in Pieces
    BY <1>0 DEF Others
  <2>2. pc # "over" /\ Emit(<<"WorkingSetRendered">>) /\ outcome' = outcome
    BY <1>7 DEF DecisionFails, DecisionConfirms, ToLookup
  <2> QED  BY <2>1, <2>2, QuietPieces, GoesOn
<1>8. CASE DecisionOverrides
  <2>1. <<"DecisionOverride", "WorkingSetRendered">> \in Pieces
    BY <1>0 DEF Overriding
  <2>2. pc # "over" /\ Emit(<<"DecisionOverride", "WorkingSetRendered">>) /\ outcome' = outcome
    BY <1>8 DEF DecisionOverrides, ToLookup
  <2> QED  BY <2>1, <2>2, QuietPieces, GoesOn
<1>9. CASE LookupCall \/ RecordResult
  <2>1. PICK kinds \in {<<>>, <<"CacheHit">>, <<"ToolFinished">>} : Emit(kinds)
    BY <1>9 DEF LookupCall, RecordResult
  <2>2. kinds \in Pieces /\ Verdicts(kinds) = {}
    BY <1>0, QuietPieces DEF ToolPieces, Others
  <2>3. pc # "over" /\ outcome' = outcome
    BY <1>9 DEF LookupCall, RecordResult
  <2> QED  BY <2>1, <2>2, <2>3, GoesOn
<1>10. CASE StartRun
  <2>1. <<"TurnStarted">> \in Pieces
    BY <1>0 DEF Others
  <2>2. pc # "over" /\ Emit(<<"TurnStarted">>) /\ outcome' = outcome
    BY <1>10 DEF StartRun
  <2> QED  BY <2>1, <2>2, QuietPieces, GoesOn
<1>11. CASE EndTurn
  <2>1. pc = "record" /\ pc' = "model" /\ outcome' = outcome
    BY <1>11 DEF EndTurn
  <2>2. CASE log' = log
    BY <2>1, <2>2, Untouched
  <2>3. CASE Emit(<<"SideEffects">>)
    <3>1. <<"SideEffects">> \in Pieces
      BY <1>0 DEF Others
    <3> QED  BY <2>1, <2>3, <3>1, QuietPieces, GoesOn
  <2> QED  BY <1>11, <2>2, <2>3 DEF EndTurn
<1>12. CASE EndLookup \/ SpliceHits \/ \E p \in DOMAIN pending : ExecuteCall(p)
  BY <1>12, Untouched DEF EndLookup, ExecuteCall, SpliceHits
<1>13. CASE \E p \in DOMAIN pending : ExecutionThrows(p)
  BY <1>13 DEF ExecutionThrows, Return, VerdictInv, OneVerdict
<1>14. CASE Beside \/ UNCHANGED vars
  BY <1>14, Untouched DEF Beside, ExternalWrite, InvalidateCacheDependency, turnVars, loopVars, vars
<1> QED  BY <1>1, <1>2, <1>3, <1>4, <1>5, <1>6, <1>7, <1>8, <1>9, <1>10, <1>11, <1>12, <1>13,
            <1>14 DEF Next, Loop, Execute, Chore, Review

-----------------------------------------------------------------------------
(* An override empties the plan, so while there is a plan the chore model  *)
(* was asked since the last override.                                      *)
AskedSinceOverride(l) ==
  \A m \in DOMAIN l : l[m] = "DecisionOverride" => \E k \in m..Len(l) : l[k] = "ModelRequested"

ToolsOnlyWhenAsked(l) ==
  \A m, n \in DOMAIN l :
    m < n /\ l[m] = "DecisionOverride" /\ l[n] \in {"ToolFinished", "CacheHit"}
      => \E k \in m..n : l[k] = "ModelRequested"

PlanInv ==
  /\ ToolsOnlyWhenAsked(log)
  /\ calls # <<>> => AskedSinceOverride(log)

(* A piece without tool events keeps what is so of the tools before it.    *)
LEMMA NoTools ==
  ASSUME NEW l \in Seq(Kind), NEW k \in Seq(Kind), ToolsOnlyWhenAsked(l), ToolEvents(k) = {}
  PROVE  ToolsOnlyWhenAsked(l \o k)
<1> SUFFICES ASSUME NEW m \in DOMAIN (l \o k), NEW n \in DOMAIN (l \o k), m < n,
                    (l \o k)[m] = "DecisionOverride", (l \o k)[n] \in {"ToolFinished", "CacheHit"}
             PROVE  \E i \in m..n : (l \o k)[i] = "ModelRequested"
  BY DEF ToolsOnlyWhenAsked
<1>1. n \in DOMAIN l
  BY Appended DEF ToolEvents
<1>2. m \in DOMAIN l
  BY <1>1, Appended
<1>3. PICK i \in m..n : l[i] = "ModelRequested"
  BY <1>1, <1>2, Appended DEF ToolsOnlyWhenAsked
<1>4. i \in DOMAIN l
  BY <1>1, <1>2
<1> QED  BY <1>3, <1>4, Appended

(* A piece without overrides leaves a plan that stands standing, and its   *)
(* tool events come after the chore model was asked.                       *)
LEMMA NoOverrides ==
  ASSUME NEW l \in Seq(Kind), NEW k \in Seq(Kind), AskedSinceOverride(l), Overrides(k) = {}
  PROVE  /\ AskedSinceOverride(l \o k)
         /\ ToolsOnlyWhenAsked(l) => ToolsOnlyWhenAsked(l \o k)
<1>1. ASSUME NEW m \in DOMAIN (l \o k), (l \o k)[m] = "DecisionOverride"
      PROVE  m \in DOMAIN l /\ \E i \in m..Len(l) : (l \o k)[i] = "ModelRequested"
  <2>1. m \in DOMAIN l
    BY <1>1, Appended DEF Overrides
  <2>2. PICK i \in m..Len(l) : l[i] = "ModelRequested"
    BY <1>1, <2>1, Appended DEF AskedSinceOverride
  <2>3. i \in DOMAIN l
    BY <2>1
  <2> QED  BY <2>1, <2>2, <2>3, Appended
<1>2. AskedSinceOverride(l \o k)
  <2> SUFFICES ASSUME NEW m \in DOMAIN (l \o k), (l \o k)[m] = "DecisionOverride"
               PROVE  \E i \in m..Len(l \o k) : (l \o k)[i] = "ModelRequested"
    BY DEF AskedSinceOverride
  <2>1. PICK i \in m..Len(l) : (l \o k)[i] = "ModelRequested"
    BY <1>1
  <2>2. i \in m..Len(l \o k)
    BY <2>1, Appended
  <2> QED  BY <2>1, <2>2
<1>3. ASSUME ToolsOnlyWhenAsked(l) PROVE ToolsOnlyWhenAsked(l \o k)
  <2> SUFFICES ASSUME NEW m \in DOMAIN (l \o k), NEW n \in DOMAIN (l \o k), m < n,
                      (l \o k)[m] = "DecisionOverride",
                      (l \o k)[n] \in {"ToolFinished", "CacheHit"}
               PROVE  \E i \in m..n : (l \o k)[i] = "ModelRequested"
    BY DEF ToolsOnlyWhenAsked
  <2>1. CASE n \in DOMAIN l
    <3>1. m \in DOMAIN l /\ l[m] = "DecisionOverride" /\ l[n] \in {"ToolFinished", "CacheHit"}
      BY <1>1, <2>1, Appended
    <3>2. PICK i \in m..n : l[i] = "ModelRequested"
      BY <1>3, <2>1, <3>1 DEF ToolsOnlyWhenAsked
    <3>3. i \in DOMAIN l
      BY <2>1, <3>1
    <3> QED  BY <3>2, <3>3, Appended
  <2>2. CASE n \notin DOMAIN l
    <3>1. PICK i \in m..Len(l) : (l \o k)[i] = "ModelRequested"
      BY <1>1
    <3>2. m \in Nat /\ n \in Nat /\ Len(l) < n
      BY <2>2, Appended
    <3> QED  BY <3>1, <3>2
  <2> QED  BY <2>1, <2>2
<1> QED  BY <1>2, <1>3

(* A piece that opens with a request to the chore model answers every      *)
(* override before it.                                                     *)
LEMMA Asked ==
  ASSUME NEW l \in Seq(Kind), NEW k \in Seq(Kind), Overrides(k) = {},
         1 \in DOMAIN k, k[1] = "ModelRequested"
  PROVE  AskedSinceOverride(l \o k)
<1> SUFFICES ASSUME NEW m \in DOMAIN (l \o k), (l \o k)[m] = "DecisionOverride"
             PROVE  \E i \in m..Len(l \o k) : (l \o k)[i] = "ModelRequested"
  BY DEF AskedSinceOverride
<1>1. m \in DOMAIN l
  BY Appended DEF Overrides
<1>2. Len(l) + 1 \in m..Len(l \o k) /\ (l \o k)[Len(l) + 1] = "ModelRequested"
  BY <1>1, Appended
<1> QED  BY <1>2

LEMMA PlanInvInit == Init => PlanInv
  BY DEF Init, PlanInv, ToolsOnlyWhenAsked, AskedSinceOverride

(* The three kinds of step: the chore model is asked, something of no      *)
(* consequence is recorded, a tool's result or a hit is recorded.          *)
LEMMA ChoreAsked ==
  ASSUME LoopInv, PlanInv, NEW kinds \in Asking, Emit(kinds)
  PROVE  PlanInv'
<1>1. kinds \in Pieces /\ kinds \in Seq(Kind) /\ kinds \notin ToolPieces /\ kinds \notin Overriding
  BY PieceTypes DEF Asking, Pieces, ToolPieces, Overriding
<1> QED  BY <1>1, NoTools, Asked, PieceEvents DEF LoopInv, PlanInv, Emit

LEMMA NothingDropped ==
  ASSUME LoopInv, PlanInv, NEW kinds \in Others \cup ToolPieces, Emit(kinds),
         kinds \in ToolPieces => calls # <<>>, calls' # <<>> => calls # <<>>
  PROVE  PlanInv'
<1>1. kinds \in Pieces /\ kinds \in Seq(Kind)
  BY PieceTypes DEF Pieces
<1>2. Len(kinds) < 2 /\ \A k \in Overriding : Len(k) = 2
  BY DEF Others, ToolPieces, Overriding
<1>3. kinds \notin Overriding
  BY <1>2
<1> QED  BY <1>1, <1>3, NoTools, NoOverrides, PieceEvents DEF LoopInv, PlanInv, Emit

LEMMA PlanDropped ==
  ASSUME LoopInv, PlanInv, NEW kinds \in Overriding, Emit(kinds), calls' = <<>>
  PROVE  PlanInv'
<1>1. kinds \in Pieces /\ kinds \in Seq(Kind) /\ kinds \notin ToolPieces
  BY PieceTypes DEF Pieces, ToolPieces, Overriding
<1> QED  BY <1>1, NoTools, PieceEvents DEF LoopInv, PlanInv, Emit

LEMMA PlanInvStep == LoopInv /\ PlanInv /\ [Next]_vars => PlanInv'
<1> SUFFICES ASSUME LoopInv, PlanInv, [Next]_vars PROVE PlanInv'
  OBVIOUS
<1>1. CASE Chore
  <2>1. \E kinds \in Asking : Emit(kinds)
    BY <1>1 DEF Chore, ChoreFails, ChoreOverspends, ChoreCallsTools, ChoreFinishes, Asking
  <2> QED  BY <2>1, ChoreAsked
<1>2. CASE StartRun \/ TurnsSpent \/ DecisionFails \/ (\E d \in BOOLEAN : DecisionConfirms(d))
  <2>1. PICK kinds \in Others : Emit(kinds)
    BY <1>2 DEF StartRun, TurnsSpent, DecisionFails, DecisionConfirms, Others
  <2>2. calls' = calls /\ kinds \notin ToolPieces
    BY <1>2 DEF StartRun, TurnsSpent, DecisionFails, DecisionConfirms, Others, ToolPieces
  <2> QED  BY <2>1, <2>2, NothingDropped
<1>3. CASE DecisionOverrides \/ DecisionAnswers
  <2>1. PICK kinds \in Overriding : Emit(kinds)
    BY <1>3 DEF DecisionOverrides, DecisionAnswers, Overriding
  <2>2. calls' = <<>>
    BY <1>3 DEF DecisionOverrides, DecisionAnswers
  <2> QED  BY <2>1, <2>2, PlanDropped
<1>4. CASE LookupCall \/ RecordResult
  <2>1. PICK kinds \in Others \cup ToolPieces : Emit(kinds)
    BY <1>4 DEF LookupCall, RecordResult, Others, ToolPieces
  <2>2. calls' = calls /\ slot <= Len(calls)
    BY <1>4 DEF LookupCall, RecordResult
  <2>3. calls # <<>>
    BY <2>2 DEF LoopInv
  <2> QED  BY <2>1, <2>2, <2>3, NothingDropped
<1>5. CASE EndTurn
  <2>1. calls' = <<>> /\ (log' = log \/ Emit(<<"SideEffects">>))
    BY <1>5 DEF EndTurn
  <2>2. CASE log' = log
    BY <2>1, <2>2 DEF PlanInv
  <2>3. CASE Emit(<<"SideEffects">>)
    <3>1. <<"SideEffects">> \in Others /\ <<"SideEffects">> \notin ToolPieces
      BY DEF Others, ToolPieces
    <3> QED  BY <2>1, <2>3, <3>1, NothingDropped
  <2> QED  BY <2>1, <2>2, <2>3
<1>6. CASE EndLookup \/ Execute \/ SpliceHits
  BY <1>6 DEF PlanInv, EndLookup, Execute, ExecuteCall, SpliceHits, ExecutionThrows
<1>7. CASE Beside \/ UNCHANGED vars
  BY <1>7 DEF PlanInv, Beside, ExternalWrite, InvalidateCacheDependency, turnVars, loopVars, vars
<1> QED  BY <1>1, <1>2, <1>3, <1>4, <1>5, <1>6, <1>7 DEF Next, Loop, Review

-----------------------------------------------------------------------------
(* What a tier's outcome and failure do to where chores are routed.        *)
Tally == [attempts : Nat, divergences : Nat, failures : Nat]
Cascades == [pinned : BOOLEAN, limit : Nat, threshold : Nat \X Nat, tiers : [Tier -> Tally]]

Chores(c) == RouteFor(c, "Chore")

LEMMA OutcomeKeeps ==
  ASSUME NEW c \in Cascades, NEW t \in Tier, NEW d \in BOOLEAN
  PROVE  /\ Outcome(c, t, d) \in Cascades
         /\ Chores(c) = "Large" /\ t = "Large" => Chores(Outcome(c, t, d)) = "Large"
<1> DEFINE row == [c.tiers[t] EXCEPT !.attempts = @ + 1,
                                     !.divergences = IF d THEN @ + 1 ELSE @]
           new == [c EXCEPT !.tiers = [c.tiers EXCEPT ![t] = row]]
<1>1. c.tiers \in [Tier -> Tally] /\ c.tiers[t] \in Tally
  BY DEF Cascades
<1>2. row \in Tally
  <2>1. (IF d THEN c.tiers[t].divergences + 1 ELSE c.tiers[t].divergences) \in Nat
    BY <1>1 DEF Tally
  <2>2. c.tiers[t].attempts + 1 \in Nat
    BY <1>1 DEF Tally
  <2> QED  BY <1>1, <2>1, <2>2, Zenon DEF Tally
<1>3. Outcome(c, t, d) = new
  BY <1>1 DEF Outcome, Cascades, Tally
<1> HIDE DEF row
<1>4. [c.tiers EXCEPT ![t] = row] \in [Tier -> Tally]
  BY <1>1, <1>2
<1>5. new \in Cascades
  BY <1>4 DEF Cascades
<1>6. /\ new.pinned = c.pinned /\ new.threshold = c.threshold
      /\ t = "Large" => new.tiers["Small"] = c.tiers["Small"]
  BY <1>1 DEF Cascades, Tier
<1> HIDE DEF new
<1>7. Chores(c) = "Large" /\ t = "Large" => Chores(new) = "Large"
  BY <1>6 DEF Chores, RouteFor, DivergesTooOften
<1> QED  BY <1>3, <1>5, <1>7

LEMMA FailureKeeps ==
  ASSUME NEW c \in Cascades, NEW t \in Tier
  PROVE  /\ Failure(c, t) \in Cascades
         /\ Chores(c) = "Large" => Chores(Failure(c, t)) = "Large"
<1> DEFINE row == [c.tiers[t] EXCEPT !.failures = @ + 1]
           pin == c.pinned \/ (t = "Small" /\ c.tiers[t].failures + 1 >= c.limit)
           new == [c EXCEPT !.tiers = [c.tiers EXCEPT ![t] = row], !.pinned = pin]
<1>1. c.tiers \in [Tier -> Tally] /\ c.tiers[t] \in Tally
  BY DEF Cascades
<1>2. /\ row \in Tally /\ row.attempts = c.tiers[t].attempts
      /\ row.divergences = c.tiers[t].divergences
  BY <1>1 DEF Tally
<1>3. Failure(c, t) = new
  BY <1>1 DEF Failure, Cascades, Tally
<1>4. pin \in BOOLEAN
  OBVIOUS
<1>5. c.pinned => pin
  OBVIOUS
<1> HIDE DEF row, pin
<1>6. [c.tiers EXCEPT ![t] = row] \in [Tier -> Tally]
  BY <1>1, <1>2
<1>7. new \in Cascades
  BY <1>4, <1>6, Zenon DEF Cascades
<1>8. new.pinned = pin /\ new.threshold = c.threshold
  BY Zenon DEF Cascades
<1>9. /\ new.tiers["Small"].attempts = c.tiers["Small"].attempts
      /\ new.tiers["Small"].divergences = c.tiers["Small"].divergences
  BY <1>1, <1>2 DEF Cascades, Tier
<1> HIDE DEF new
<1>10. Chores(c) = "Large" => Chores(new) = "Large"
  BY <1>5, <1>8, <1>9 DEF Chores, RouteFor, DivergesTooOften
<1> QED  BY <1>3, <1>7, <1>10

RoutingInv == cascade \in Cascades /\ tier \in Tier

LEMMA RoutingInvInit == Init => RoutingInv
  BY CascadeAssumption DEF Init, CascadeInit, NewCascade, NoRecord, RoutingInv, Cascades, Tally, Tier

(* After a step chores are routed as before, or the small tier's own       *)
(* answer was recorded while they were routed to it.                       *)
LEMMA RoutingStep ==
  ASSUME RoutingInv, [Next]_vars
  PROVE  RoutingInv' /\ (ChoreTier = "Large" => ChoreTier' = "Large")
<1>1. ChoreTier \in Tier /\ DecisionTier = "Large" /\ DecisionTier \in Tier
  BY DEF ChoreTier, DecisionTier, RouteFor, Tier
<1>2. tier' \in Tier
  BY <1>1 DEF RoutingInv, Next, Loop, Chore, ChoreFails, ChoreOverspends, ChoreFinishes,
     ChoreCallsTools, RequestChore, Review, DecisionFails, DecisionConfirms, DecisionOverrides,
     DecisionAnswers, ReviewFrame, StartRun, LookupCall, EndLookup, Execute, ExecuteCall,
     ExecutionThrows, SpliceHits, RecordResult, EndTurn, TurnsSpent, Beside, ExternalWrite,
     InvalidateCacheDependency, turnVars, loopVars, vars
<1>3. \/ cascade' = cascade
      \/ \E d \in BOOLEAN : cascade' = Outcome(cascade, ChoreTier, d)
      \/ \E t \in Tier : cascade' = Failure(cascade, t)
      \/ \E d \in BOOLEAN : cascade' = Outcome(cascade, DecisionTier, d)
      \/ cascade' = Failure(Failure(cascade, DecisionTier), DecisionTier)
      \/ cascade' = Overridden
  <2>1. CASE Chore
    BY <1>1, <2>1 DEF Chore, ChoreFails, ChoreOverspends, ChoreFinishes, ChoreCallsTools
  <2>2. CASE Review
    BY <2>2 DEF Review, DecisionFails, DecisionConfirms, DecisionOverrides, DecisionAnswers
  <2>3. CASE RecordResult
    BY <2>3 DEF RecordResult, RoutingInv
  <2>4. CASE StartRun \/ LookupCall \/ EndLookup \/ Execute
    BY <2>4 DEF StartRun, LookupCall, EndLookup, Execute, ExecuteCall, ExecutionThrows
  <2>5. CASE SpliceHits \/ EndTurn \/ TurnsSpent
    BY <2>5 DEF SpliceHits, EndTurn, TurnsSpent
  <2>6. CASE Beside \/ UNCHANGED vars
    BY <2>6 DEF Beside, ExternalWrite, InvalidateCacheDependency, vars
  <2> QED  BY <2>1, <2>2, <2>3, <2>4, <2>5, <2>6 DEF Next, Loop
<1>4. cascade \in Cascades
  BY DEF RoutingInv
<1>5. cascade' \in Cascades /\ (Chores(cascade) = "Large" => Chores(cascade') = "Large")
  <2>1. ASSUME NEW d \in BOOLEAN, cascade' = Outcome(cascade, ChoreTier, d)
        PROVE  cascade' \in Cascades /\ (Chores(cascade) = "Large" => Chores(cascade') = "Large")
    <3>1. Chores(cascade) = ChoreTier
      BY DEF Chores, ChoreTier
    <3> QED  BY <1>1, <1>4, <2>1, <3>1, OutcomeKeeps
  <2>2. CASE cascade' = Failure(Failure(cascade, DecisionTier), DecisionTier)
    BY <1>1, <1>4, <2>2, FailureKeeps
  <2>3. CASE cascade' = Overridden
    BY <1>1, <1>4, <2>3, OutcomeKeeps DEF Overridden
  <2>4. CASE cascade' = cascade
    BY <1>4, <2>4
  <2>5. ASSUME NEW t \in Tier, cascade' = Failure(cascade, t)
        PROVE  cascade' \in Cascades /\ (Chores(cascade) = "Large" => Chores(cascade') = "Large")
    BY <1>4, <2>5, FailureKeeps
  <2>6. ASSUME NEW d \in BOOLEAN, cascade' = Outcome(cascade, DecisionTier, d)
        PROVE  cascade' \in Cascades /\ (Chores(cascade) = "Large" => Chores(cascade') = "Large")
    BY <1>1, <1>4, <2>6, OutcomeKeeps
  <2> QED  BY <1>3, <2>1, <2>2, <2>3, <2>4, <2>5, <2>6
<1> QED  BY <1>2, <1>5 DEF RoutingInv, Chores, ChoreTier

-----------------------------------------------------------------------------
(* The calls of a turn: what the cache answered, what is pending, and what *)
(* the executor has run of it.                                             *)
Missed == {i \in DOMAIN cached : cached[i] = Miss}

TurnInv ==
  /\ pc \in {"idle", "model", "decision"} => cached = <<>> /\ pending = <<>> /\ executed = <<>>
  /\ pc = "lookup" => slot = Len(cached) + 1 /\ executed = <<>>
  /\ pc \in {"execute", "record"} => Len(cached) = Len(calls)
  /\ cached \in Seq(Value \cup {Miss}) /\ Len(cached) <= Len(calls)
  /\ pending \in Seq(DOMAIN cached) /\ IsInjective(pending) /\ Range(pending) = Missed
  /\ executed \in Seq(DOMAIN pending) /\ IsInjective(executed)

(* A sequence over a subset is one over the set, and a new element keeps   *)
(* the elements apart.                                                     *)
LEMMA AppendNew ==
  ASSUME NEW S, NEW s \in Seq(S), NEW x \in S, IsInjective(s), x \notin Range(s)
  PROVE  /\ Append(s, x) \in Seq(S) /\ Range(Append(s, x)) = Range(s) \cup {x}
         /\ IsInjective(Append(s, x))
<1> DEFINE t == Append(s, x)
<1>1. /\ t \in Seq(S) /\ DOMAIN t = 1..(Len(s) + 1) /\ DOMAIN s = 1..Len(s) /\ Len(s) \in Nat
      /\ t[Len(s) + 1] = x /\ \A i \in 1..Len(s) : t[i] = s[i]
  OBVIOUS
<1> HIDE DEF t
<1>2. Range(t) = Range(s) \cup {x}
  <2>1. \A i \in DOMAIN t : t[i] \in Range(s) \cup {x}
    BY <1>1 DEF Range
  <2>2. x \in Range(t) /\ \A i \in DOMAIN s : s[i] \in Range(t)
    BY <1>1 DEF Range
  <2> QED  BY <2>1, <2>2 DEF Range
<1>3. IsInjective(t)
  <2> SUFFICES ASSUME NEW i \in DOMAIN t, NEW j \in DOMAIN t, t[i] = t[j] PROVE i = j
    BY DEF IsInjective
  <2>1. CASE i = Len(s) + 1 /\ j = Len(s) + 1
    BY <2>1
  <2>2. CASE i \in 1..Len(s) /\ j \in 1..Len(s)
    BY <1>1, <2>2 DEF IsInjective
  <2>3. CASE (i = Len(s) + 1) # (j = Len(s) + 1)
    BY <1>1, <2>3 DEF Range
  <2> QED  BY <1>1, <2>1, <2>2, <2>3
<1> QED  BY <1>1, <1>2, <1>3 DEF t

LEMMA SeqOverLarger ==
  ASSUME NEW S, NEW T, S \subseteq T, NEW s \in Seq(S)
  PROVE  s \in Seq(T)
OBVIOUS

LEMMA TurnInvInit == Init => TurnInv
<1> SUFFICES ASSUME Init PROVE TurnInv
  OBVIOUS
<1>1. /\ pc = "idle" /\ cached = <<>> /\ pending = <<>> /\ executed = <<>> /\ calls = <<>>
  BY DEF Init
<1>2. IsInjective(<<>>) /\ Range(pending) = {} /\ Missed = {}
  BY <1>1 DEF IsInjective, Range, Missed
<1> QED  BY <1>1, <1>2 DEF TurnInv

LEMMA LookupTurn ==
  ASSUME LoopInv, TurnInv, reply' \in Reply, LookupCall
  PROVE  TurnInv'
<1>1. PICK w \in Value \cup {Miss} :
        /\ cached' = Append(cached, w)
        /\ w = Miss => pending' = Append(pending, slot)
        /\ w # Miss => pending' = pending
  <2>1. reply'.value \in Value \cup {Miss}
    BY DEF Reply
  <2> QED  BY <2>1 DEF LookupCall
<1>2. /\ pc = "lookup" /\ pc' = "lookup" /\ slot <= Len(calls) /\ slot' = slot + 1
      /\ calls' = calls /\ executed = <<>> /\ executed' = <<>>
  BY DEF LookupCall, TurnInv
<1>3. cached \in Seq(Value \cup {Miss}) /\ slot = Len(cached) + 1 /\ calls \in Seq(Call)
  BY <1>2 DEF TurnInv, LoopInv
<1>4. /\ cached' \in Seq(Value \cup {Miss}) /\ Len(cached') = slot /\ Len(cached') <= Len(calls)
      /\ DOMAIN cached' = DOMAIN cached \cup {slot} /\ slot \notin DOMAIN cached
      /\ cached'[slot] = w /\ \A i \in DOMAIN cached : cached'[i] = cached[i]
  BY <1>1, <1>2, <1>3
<1>5. pending \in Seq(DOMAIN cached) /\ IsInjective(pending) /\ Range(pending) = Missed
  BY DEF TurnInv
<1>6. pending \in Seq(DOMAIN cached')
  BY <1>4, <1>5, SeqOverLarger
<1>7. pending' \in Seq(DOMAIN cached') /\ IsInjective(pending') /\ Range(pending') = Missed'
  <2>1. CASE w = Miss
    <3>1. slot \notin Range(pending)
      BY <1>4, <1>5 DEF Missed
    <3>2. Missed' = Missed \cup {slot}
      BY <1>4, <2>1 DEF Missed
    <3>3. slot \in DOMAIN cached' /\ pending' = Append(pending, slot)
      BY <1>1, <1>4, <2>1
    <3> QED  BY <1>5, <1>6, <3>1, <3>2, <3>3, AppendNew
  <2>2. CASE w # Miss
    <3>1. Missed' = Missed
      BY <1>4, <2>2 DEF Missed
    <3> QED  BY <1>1, <1>5, <1>6, <2>2, <3>1
  <2> QED  BY <2>1, <2>2
<1>8. IsInjective(<<>>)
  BY DEF IsInjective
<1> QED  BY <1>2, <1>3, <1>4, <1>7, <1>8 DEF TurnInv

LEMMA ExecuteTurn ==
  ASSUME LoopInv, TurnInv, NEW p \in DOMAIN pending, ExecuteCall(p)
  PROVE  TurnInv'
<1>1. executed \in Seq(DOMAIN pending) /\ IsInjective(executed) /\ p \notin Range(executed)
  BY DEF TurnInv, ExecuteCall, RunsNext, ToRun, Range
<1>2. executed' = Append(executed, p)
  BY DEF ExecuteCall
<1>3. executed' \in Seq(DOMAIN pending) /\ IsInjective(executed')
  BY <1>1, <1>2, AppendNew
<1>4. pc = "execute" /\ UNCHANGED <<pc, calls, slot, cached, pending>>
  BY DEF ExecuteCall
<1> QED  BY <1>3, <1>4 DEF TurnInv, Missed

LEMMA DeclaredDeps == \A call : DeclaredResources(call) \in DepList
  BY OrchestratorAssumption DEF DeclaredResources

LEMMA GetReplies ==
  ASSUME CacheTypeOK, NEW k \in Key, NEW deps \in DepList, Get(k, deps)
  PROVE  reply' \in Reply /\ (k \in DOMAIN entries => reply'.value \in {entries[k].value, Miss})
         /\ (k \notin DOMAIN entries => reply'.value = Miss)
BY DEF Get, CacheTypeOK, Entry, Reply

LEMMA TurnInvStep == LoopInv /\ CacheTypeOK /\ TurnInv /\ [Next]_vars => TurnInv'
<1> SUFFICES ASSUME LoopInv, CacheTypeOK, TurnInv, [Next]_vars PROVE TurnInv'
  OBVIOUS
<1>1. CASE LookupCall
  <2>1. calls[slot] \in Key /\ Get(calls[slot], DeclaredResources(calls[slot]))
    BY <1>1, OrchestratorAssumption DEF LookupCall, LoopInv
  <2> QED  BY <1>1, <2>1, DeclaredDeps, GetReplies, LookupTurn
<1>2. ASSUME NEW p \in DOMAIN pending, ExecuteCall(p) PROVE TurnInv'
  BY <1>2, ExecuteTurn
<1>3. CASE Chore \/ Review \/ EndTurn
  <2>1. LoopInv'
    BY LoopInvStep
  <2>2. cached' = <<>> /\ pending' = <<>> /\ executed' = <<>>
    BY <1>3 DEF Chore, ChoreFails, ChoreOverspends, ChoreFinishes, ChoreCallsTools, RequestChore,
       Review, DecisionFails, DecisionConfirms, DecisionOverrides, DecisionAnswers, ToLookup,
       EndTurn, turnVars, TurnInv
  <2>3. (pc' = "lookup" => slot' = 1) /\ pc' \notin {"execute", "record"}
    BY <1>3 DEF Chore, ChoreFails, ChoreOverspends, ChoreFinishes, ChoreCallsTools, Return,
       Review, DecisionFails, DecisionConfirms, DecisionOverrides, DecisionAnswers, ToLookup,
       EndTurn
  <2> QED  BY <2>1, <2>2, <2>3 DEF LoopInv, TurnInv, IsInjective, Range, Missed
<1>4. ASSUME UNCHANGED <<calls, cached, pending, executed>>,
             \/ pc' = pc /\ (pc = "lookup" => slot' = slot)
             \/ pc' \in {"model", "over"} /\ pc \in {"idle", "model"}
             \/ pc' = "over"
             \/ pc' = "record" /\ pc = "execute"
             \/ pc' = "execute" /\ pc = "lookup" /\ slot > Len(calls)
      PROVE  TurnInv'
  <2>1. Len(cached) \in Nat /\ Len(calls) \in Nat
    BY DEF TurnInv, LoopInv
  <2> QED  BY <1>4, <2>1 DEF TurnInv, Missed
<1>5. CASE StartRun \/ EndLookup \/ SpliceHits \/ RecordResult \/ TurnsSpent
  BY <1>4, <1>5 DEF StartRun, EndLookup, SpliceHits, RecordResult, TurnsSpent, Return, turnVars
<1>6. ASSUME NEW p \in DOMAIN pending, ExecutionThrows(p) PROVE TurnInv'
  BY <1>4, <1>6 DEF ExecutionThrows, Return, turnVars
<1>7. CASE Beside \/ UNCHANGED vars
  BY <1>4, <1>7 DEF Beside, ExternalWrite, InvalidateCacheDependency, turnVars, loopVars, vars
<1> QED  BY <1>1, <1>2, <1>3, <1>5, <1>6, <1>7 DEF Next, Loop, Execute

-----------------------------------------------------------------------------
(* The records of a turn.  While the executor runs, the k-th slot of       *)
(* pending holds the record of the k-th call that ran; once the hits took  *)
(* their slots, the records are of the turn's calls, rearranged.           *)
Rearranged ==
  \E f \in Bijection(DOMAIN calls, DOMAIN calls) :
    \A i \in DOMAIN calls : records[i].call = calls[f[i]]

RecordsInv ==
  /\ pc \in {"execute", "record"} => DOMAIN records = DOMAIN calls
  /\ pc = "execute" =>
       \A k \in DOMAIN executed : records[pending[k]].call = calls[pending[executed[k]]]
  /\ pc = "record" => Rearranged

LEMMA InjectiveLength ==
  ASSUME NEW n \in Nat, NEW s \in Seq(1..n), IsInjective(s)
  PROVE  /\ Len(s) <= n
         /\ Range(s) = 1..n => Len(s) = n
<1>1. s \in [1..Len(s) -> 1..n] /\ Len(s) \in Nat /\ DOMAIN s = 1..Len(s)
  OBVIOUS
<1>2. s \in Injection(1..Len(s), 1..n)
  BY <1>1, Fun_IsInj DEF IsInjective
<1>3. /\ IsFiniteSet(1..n) /\ Cardinality(1..n) = n
      /\ IsFiniteSet(1..Len(s)) /\ Cardinality(1..Len(s)) = Len(s)
  <2>1. \A m \in Nat : m \in Int /\ 1 \in Int /\ (IF 1 > m THEN 0 ELSE m - 1 + 1) = m
    OBVIOUS
  <2> QED  BY <1>1, <2>1, FS_Interval
<1>4. Len(s) <= n
  BY <1>2, <1>3, FS_Injection
<1>5. ASSUME Range(s) = 1..n PROVE Len(s) = n
  <2>1. s \in Surjection(1..Len(s), 1..n)
    BY <1>1, <1>5, Fun_IsSurj DEF Range
  <2> QED  BY <1>2, <1>3, <2>1, FS_Injection
<1> QED  BY <1>4, <1>5

(* Where the executor is with its k-th call, there is a k-th slot.         *)
LEMMA RunsFit ==
  ASSUME TurnInv
  PROVE  Len(executed) <= Len(pending) /\ (ToRun = {} => Len(executed) = Len(pending))
<1>1. Len(pending) \in Nat /\ DOMAIN pending = 1..Len(pending)
  BY DEF TurnInv
<1>2. executed \in Seq(1..Len(pending)) /\ IsInjective(executed)
  BY <1>1 DEF TurnInv
<1>3. ToRun = {} => Range(executed) = 1..Len(pending)
  BY <1>1, <1>2 DEF ToRun, Range
<1> QED  BY <1>1, <1>2, <1>3, InjectiveLength

LEMMA RecordsInvInit == Init => RecordsInv
  BY DEF Init, RecordsInv

LEMMA ExecuteRecords ==
  ASSUME TurnInv, TurnInv', RecordsInv, NEW p \in DOMAIN pending, ExecuteCall(p)
  PROVE  RecordsInv'
<1> DEFINE n == Len(executed) + 1
<1>1. PICK failed :
      /\ pc = "execute" /\ pc' = "execute" /\ UNCHANGED <<calls, pending>>
      /\ executed' = Append(executed, p)
      /\ records' = [records EXCEPT ![pending[n]] = ToolRecord(calls[pending[p]], failed)]
  BY DEF ExecuteCall, SlotOfExecuted
<1>2. /\ pending \in Seq(DOMAIN cached) /\ IsInjective(pending) /\ executed \in Seq(DOMAIN pending)
      /\ DOMAIN cached = DOMAIN calls /\ DOMAIN records = DOMAIN calls
  BY <1>1 DEF TurnInv, RecordsInv
<1>3. /\ DOMAIN executed' = DOMAIN executed \cup {n} /\ n \notin DOMAIN executed
      /\ executed'[n] = p /\ \A k \in DOMAIN executed : executed'[k] = executed[k]
      /\ Len(executed') = n /\ n \in Nat \ {0} /\ DOMAIN executed = 1..Len(executed)
  BY <1>1, <1>2
<1>4. n <= Len(pending')
  <2>1. Len(pending') \in Nat /\ DOMAIN pending' = 1..Len(pending')
        /\ executed' \in Seq(DOMAIN pending') /\ IsInjective(executed')
    BY DEF TurnInv
  <2> QED  BY <1>3, <2>1, InjectiveLength
<1>5. n \in DOMAIN pending /\ DOMAIN executed \subseteq DOMAIN pending
  BY <1>1, <1>2, <1>3, <1>4
<1> HIDE DEF n
<1>6. \A k \in DOMAIN pending : pending[k] \in DOMAIN records
  BY <1>2
<1>7. \A k \in DOMAIN executed : pending[k] # pending[n]
  BY <1>2, <1>3, <1>5 DEF IsInjective
<1>8. /\ records'[pending[n]].call = calls[pending[p]]
      /\ \A k \in DOMAIN executed : records'[pending[k]] = records[pending[k]]
  BY <1>1, <1>5, <1>6, <1>7 DEF ToolRecord
<1>9. DOMAIN records' = DOMAIN calls'
  BY <1>1, <1>2
<1>10. \A k \in DOMAIN executed' : records'[pending[k]].call = calls[pending[executed'[k]]]
  BY <1>1, <1>3, <1>8 DEF RecordsInv
<1> QED  BY <1>1, <1>9, <1>10 DEF RecordsInv

(* Which call the record in slot i is of.                                  *)
CallOf(i) ==
  IF cached[i] = Miss THEN pending[executed[CHOOSE k \in DOMAIN pending : pending[k] = i]] ELSE i

LEMMA SpliceRecords ==
  ASSUME LoopInv, TurnInv, RecordsInv, SpliceHits
  PROVE  RecordsInv'
<1>1. /\ pc = "execute" /\ pc' = "record" /\ calls' = calls /\ ToRun = {}
      /\ records' = [i \in 1..Len(calls) |->
           IF cached[i] = Miss THEN records[i]
           ELSE [call |-> calls[i], ok |-> TRUE, output |-> cached[i], fromCache |-> TRUE]]
  BY DEF SpliceHits
<1>2. /\ calls \in Seq(Call) /\ DOMAIN cached = DOMAIN calls /\ DOMAIN calls = 1..Len(calls)
      /\ Len(calls) \in Nat
  BY <1>1 DEF LoopInv, TurnInv
<1>3. /\ pending \in Seq(DOMAIN calls) /\ IsInjective(pending) /\ Range(pending) = Missed
      /\ executed \in Seq(DOMAIN pending) /\ IsInjective(executed)
      /\ DOMAIN executed = DOMAIN pending
  BY <1>1, <1>2, RunsFit DEF TurnInv
<1>4. \A k \in DOMAIN executed : records[pending[k]].call = calls[pending[executed[k]]]
  BY <1>1 DEF RecordsInv
<1>5. ASSUME NEW i \in DOMAIN calls, cached[i] = Miss
      PROVE  \E k \in DOMAIN pending : pending[k] = i /\ CallOf(i) = pending[executed[k]]
  <2>1. \E k \in DOMAIN pending : pending[k] = i
    BY <1>2, <1>3, <1>5 DEF Range, Missed
  <2> QED  BY <1>5, <2>1 DEF CallOf
<1>6. \A k \in DOMAIN pending :
        /\ executed[k] \in DOMAIN pending /\ pending[k] \in DOMAIN calls
        /\ cached[pending[k]] = Miss
  BY <1>3 DEF Range, Missed
<1>7. ASSUME NEW i \in DOMAIN calls
      PROVE  /\ CallOf(i) \in DOMAIN calls
             /\ cached[CallOf(i)] = Miss <=> cached[i] = Miss
             /\ records'[i].call = calls[CallOf(i)]
  <2>1. CASE cached[i] = Miss
    <3>1. PICK k \in DOMAIN pending : pending[k] = i /\ CallOf(i) = pending[executed[k]]
      BY <1>5, <2>1
    <3>2. records'[i] = records[i]
      BY <1>1, <1>2, <2>1
    <3>3. records[i].call = calls[CallOf(i)]
      BY <1>3, <1>4, <3>1
    <3> QED  BY <1>6, <2>1, <3>1, <3>2, <3>3
  <2>2. CASE cached[i] # Miss
    BY <1>1, <1>2, <2>2 DEF CallOf
  <2> QED  BY <2>1, <2>2
<1> DEFINE f == [i \in DOMAIN calls |-> CallOf(i)]
<1>8. \A i, j \in DOMAIN calls : f[i] = f[j] => i = j
  <2> SUFFICES ASSUME NEW i \in DOMAIN calls, NEW j \in DOMAIN calls, CallOf(i) = CallOf(j)
               PROVE  i = j
    OBVIOUS
  <2>1. cached[i] = Miss <=> cached[j] = Miss
    BY <1>7
  <2>2. CASE cached[i] = Miss
    BY <1>3, <1>5, <1>6, <2>1, <2>2 DEF IsInjective
  <2>3. CASE cached[i] # Miss
    BY <2>1, <2>3 DEF CallOf
  <2> QED  BY <2>2, <2>3
<1>9. f \in [DOMAIN calls -> DOMAIN calls]
  BY <1>7
<1>10. f \in Injection(DOMAIN calls, DOMAIN calls)
  BY <1>8, <1>9, Fun_IsInj
<1>11. IsFiniteSet(DOMAIN calls)
  BY <1>2, FS_Interval
<1>12. f \in Surjection(DOMAIN calls, DOMAIN calls)
  BY <1>10, <1>11, FS_Injection
<1>13. f \in Bijection(DOMAIN calls, DOMAIN calls)
  BY <1>10, <1>12 DEF Bijection
<1>14. \A i \in DOMAIN calls : records'[i].call = calls[f[i]]
  BY <1>7
<1> HIDE DEF f
<1>15. DOMAIN records' = DOMAIN calls'
  BY <1>1, <1>2
<1> QED  BY <1>1, <1>13, <1>14, <1>15 DEF RecordsInv, Rearranged

LEMMA RecordsInvStep == LoopInv /\ TurnInv /\ TurnInv' /\ RecordsInv /\ [Next]_vars => RecordsInv'
<1> SUFFICES ASSUME LoopInv, TurnInv, TurnInv', RecordsInv, [Next]_vars PROVE RecordsInv'
  OBVIOUS
<1>1. CASE EndLookup
  BY <1>1 DEF EndLookup, RecordsInv, TurnInv, LoopInv
<1>2. ASSUME NEW p \in DOMAIN pending, ExecuteCall(p) PROVE RecordsInv'
  BY <1>2, ExecuteRecords
<1>3. CASE SpliceHits
  BY <1>3, SpliceRecords
<1>4. ASSUME \/ pc' \notin {"execute", "record"}
             \/ UNCHANGED <<pc, calls, pending, executed, records>>
      PROVE  RecordsInv'
  BY <1>4 DEF RecordsInv, Rearranged
<1>5. CASE StartRun \/ Chore \/ Review \/ EndTurn \/ TurnsSpent
  BY <1>4, <1>5 DEF StartRun, Chore, ChoreFails, ChoreOverspends, ChoreFinishes, ChoreCallsTools,
     Review, DecisionFails, DecisionConfirms, DecisionOverrides, DecisionAnswers, ToLookup,
     EndTurn, TurnsSpent, Return
<1>6. CASE LookupCall \/ RecordResult
  BY <1>4, <1>6 DEF LookupCall, RecordResult
<1>7. ASSUME NEW p \in DOMAIN pending, ExecutionThrows(p) PROVE RecordsInv'
  BY <1>4, <1>7 DEF ExecutionThrows, Return
<1>8. CASE Beside \/ UNCHANGED vars
  BY <1>4, <1>8 DEF Beside, ExternalWrite, InvalidateCacheDependency, turnVars, loopVars, vars
<1> QED  BY <1>1, <1>2, <1>3, <1>5, <1>6, <1>7, <1>8 DEF Next, Loop, Execute

(* A rearrangement of the calls holds each call as often as the calls do.  *)
LEMMA RearrangedCounts ==
  ASSUME calls \in Seq(Call), DOMAIN records = DOMAIN calls, Rearranged, NEW call
  PROVE  Cardinality({i \in DOMAIN records : records[i].call = call})
           = Cardinality({i \in DOMAIN calls : calls[i] = call})
<1> DEFINE S == {i \in DOMAIN records : records[i].call = call}
           T == {i \in DOMAIN calls : calls[i] = call}
<1>1. PICK f \in Bijection(DOMAIN calls, DOMAIN calls) :
        \A i \in DOMAIN calls : records[i].call = calls[f[i]]
  BY DEF Rearranged
<1>2. /\ f \in [DOMAIN calls -> DOMAIN calls]
      /\ \A i, j \in DOMAIN calls : f[i] = f[j] => i = j
      /\ \A j \in DOMAIN calls : \E i \in DOMAIN calls : f[i] = j
  BY Fun_BijectionProperties, Fun_SurjectionProperties
<1> DEFINE g == [i \in S |-> f[i]]
<1>3. g \in [S -> T] /\ \A i, j \in S : g[i] = g[j] => i = j
  <2>1. \A i \in S : i \in DOMAIN calls /\ f[i] \in T
    BY <1>1, <1>2
  <2> QED  BY <1>2, <2>1
<1>4. ASSUME NEW j \in T PROVE \E i \in S : g[i] = j
  <2>1. PICK i \in DOMAIN calls : f[i] = j
    BY <1>2
  <2>2. i \in S
    BY <1>1, <2>1
  <2>3. g[i] = j
    BY <2>1, <2>2
  <2> QED  BY <2>2, <2>3
<1>5. g \in Bijection(S, T)
  BY <1>3, <1>4, Fun_IsBij
<1>6. S \subseteq DOMAIN calls /\ IsFiniteSet(DOMAIN calls)
  BY FS_Interval
<1>7. IsFiniteSet(S)
  BY <1>6, FS_Subset
<1> HIDE DEF S, T, g
<1>8. ExistsBijection(S, T)
  BY <1>5 DEF ExistsBijection
<1>9. Cardinality(T) = Cardinality(S)
  BY <1>7, <1>8, FS_Bijection
<1> QED  BY <1>9 DEF S, T

-----------------------------------------------------------------------------
(* Where results come from: a call's own run, or the cache's entry of the  *)
(* call.  What is in the cache was a record of the turn that put it there. *)
OwnResult(call, value) ==
  \/ call.tool = "read_file" /\ value \in Content
  \/ call.tool = "write_file" /\ value = Written

FileSystems == [Path -> Content \cup {Absent}]

ResultsInv ==
  /\ CacheInv /\ CacheHoldsOwnResults
  /\ files \in FileSystems
  /\ \A i \in DOMAIN cached : cached[i] = Miss \/ OwnResult(calls[i], cached[i])
  /\ pc \in {"execute", "record"} =>
       \A i \in DOMAIN records : records[i].ok =>
         records[i].call \in Call /\ OwnResult(records[i].call, records[i].output)

LEMMA OwnCache ==
  CacheHoldsOwnResults <=> \A call \in DOMAIN entries : OwnResult(call, entries[call].value)
BY DEF CacheHoldsOwnResults, OwnResult

LEMMA OwnResultsAreValues ==
  ASSUME NEW call, NEW value, OwnResult(call, value)
  PROVE  value \in Value
BY OrchestratorAssumption DEF OwnResult

(* The tools' calls, told apart by their names.                            *)
LEMMA CallKinds ==
  ASSUME NEW call \in Call
  PROVE  /\ call.tool \in {"read_file", "write_file", "unknown"}
         /\ call.tool = "read_file" /\ call # Malformed => call.path \in Path
         /\ call.tool = "write_file" => call.path \in Path /\ call.content \in Content
         /\ call.tool = "unknown" => call = Unknown
<1>1. CASE \E p \in Path : call = Read(p)
  BY <1>1 DEF Read
<1>2. CASE call = Unknown
  BY <1>2 DEF Unknown
<1>3. CASE call = Malformed
  BY <1>3 DEF Malformed
<1>4. CASE \E p \in Path, c \in Content : call = Write(p, c)
  BY <1>4 DEF Write
<1> QED  BY <1>1, <1>2, <1>3, <1>4 DEF Call

LEMMA OwnRecords ==
  ASSUME NEW call \in Call, files \in FileSystems, NEW failed \in Failures(call),
         ToolRecord(call, failed).ok
  PROVE  ToolRecord(call, failed).call = call /\ OwnResult(call, ToolRecord(call, failed).output)
<1>1. ~ failed /\ CanSucceed(call)
  BY Zenon DEF ToolRecord, Failures
<1>2. ToolRecord(call, failed).call = call /\ ToolRecord(call, failed).output = Output(call)
  BY <1>1, Zenon DEF ToolRecord
<1>3. call.tool = "read_file" => call.path \in Path /\ files[call.path] \in Content
  BY <1>1, CallKinds DEF CanSucceed, FileSystems
<1>4. call.tool \in {"read_file", "write_file"}
  BY <1>1, CallKinds DEF CanSucceed
<1> QED  BY <1>2, <1>3, <1>4 DEF OwnResult, Output

LEMMA WritesKeepFiles ==
  ASSUME NEW call \in Call, NEW failed, files \in FileSystems
  PROVE  FilesLeft(call, failed) \subseteq FileSystems
<1>1. FilesAfter(call) \in FileSystems
  BY CallKinds DEF FilesAfter, FileSystems
<1>2. call.tool = "write_file" =>
        \A c \in Content : [files EXCEPT ![call.path] = c] \in FileSystems
  BY CallKinds DEF FileSystems
<1> QED  BY <1>1, <1>2, Zenon DEF FilesLeft

LEMMA ResultsInvInit == Init => ResultsInv
<1> SUFFICES ASSUME Init PROVE ResultsInv
  OBVIOUS
<1>1. CacheInv
  BY CacheInvInit DEF Init
<1>2. DOMAIN entries = {} /\ cached = <<>> /\ pc = "idle" /\ files \in FileSystems
  BY DEF Init, CacheInit, FileSystems
<1> QED  BY <1>1, <1>2 DEF ResultsInv, CacheHoldsOwnResults

LEMMA GetKeeps ==
  ASSUME CacheInv, NEW k \in Key, NEW deps \in DepList, Get(k, deps)
  PROVE  CacheInv'
<1>1. reply' \in Reply /\ UNCHANGED <<entries, depVersions>>
  BY GetReplies DEF Get, CacheInv
<1> QED  BY <1>1 DEF CacheInv, CacheTypeOK, VersionsReached

LEMMA LookupResults ==
  ASSUME LoopInv, TurnInv, ResultsInv, LookupCall
  PROVE  ResultsInv'
<1>1. /\ slot \in DOMAIN calls /\ calls[slot] \in Key /\ slot = Len(cached) + 1
      /\ cached \in Seq(Value \cup {Miss}) /\ pc' = "lookup"
      /\ Get(calls[slot], DeclaredResources(calls[slot])) /\ UNCHANGED <<calls, files>>
  BY OrchestratorAssumption DEF LookupCall, LoopInv, TurnInv, fileVars
<1>2. CacheInv' /\ UNCHANGED entries
  BY <1>1, DeclaredDeps, GetKeeps DEF ResultsInv, Get
<1>3. PICK w : cached' = Append(cached, w) /\ w \in {reply'.value, Miss}
  BY DEF LookupCall
<1>4. w = Miss \/ OwnResult(calls[slot], w)
  <2>1. w = Miss \/ (calls[slot] \in DOMAIN entries /\ w = entries[calls[slot]].value)
    BY <1>1, <1>3, DeclaredDeps, GetReplies DEF ResultsInv, CacheInv
  <2> QED  BY <2>1, OwnCache DEF ResultsInv
<1>5. \A i \in DOMAIN cached' : cached'[i] = Miss \/ OwnResult(calls[i], cached'[i])
  <2>1. DOMAIN cached' = DOMAIN cached \cup {slot} /\ cached'[slot] = w
        /\ \A i \in DOMAIN cached : cached'[i] = cached[i]
    BY <1>1, <1>3
  <2> QED  BY <1>4, <2>1 DEF ResultsInv
<1> QED  BY <1>1, <1>2, <1>5 DEF ResultsInv, CacheHoldsOwnResults

LEMMA ExecuteResults ==
  ASSUME LoopInv, TurnInv, ResultsInv, NEW p \in DOMAIN pending, ExecuteCall(p)
  PROVE  ResultsInv'
<1> DEFINE call == calls[pending[p]]
<1>1. PICK failed \in Failures(call) :
      /\ pc = "execute" /\ UNCHANGED <<calls, cached, cacheVars>>
      /\ files' \in FilesLeft(call, failed)
      /\ records' = [records EXCEPT ![SlotOfExecuted(Len(executed) + 1)] = ToolRecord(call, failed)]
  BY DEF ExecuteCall
<1>2. call \in Call
  BY <1>1 DEF TurnInv, LoopInv
<1> HIDE DEF call
<1>3. files' \in FileSystems
  BY <1>1, <1>2, WritesKeepFiles DEF ResultsInv
<1>4. ASSUME NEW i \in DOMAIN records', records'[i].ok
      PROVE  records'[i].call \in Call /\ OwnResult(records'[i].call, records'[i].output)
  <2>1. CASE records'[i] = ToolRecord(call, failed)
    BY <1>2, <1>4, <2>1, OwnRecords DEF ResultsInv
  <2>2. CASE records'[i] = records[i]
    BY <1>1, <1>4, <2>2 DEF ResultsInv
  <2> QED  BY <1>1, <2>1, <2>2
<1>5. CacheInv' /\ CacheHoldsOwnResults'
  BY <1>1 DEF ResultsInv, CacheInv, CacheTypeOK, VersionsReached, CacheHoldsOwnResults, cacheVars
<1> QED  BY <1>1, <1>3, <1>4, <1>5 DEF ResultsInv

LEMMA ThrowKeepsFiles ==
  ASSUME NEW p \in DOMAIN pending, ExecutionThrows(p)
  PROVE  files' \in FileSystems
BY DEF ExecutionThrows, FileSystems

LEMMA RecordedResults ==
  ASSUME RecordsInv, ResultsInv, LoopInv, RecordResult
  PROVE  CacheInv' /\ CacheHoldsOwnResults'
<1> DEFINE rec == records[slot]
<1>1. /\ pc = "record" /\ slot \in DOMAIN records
      /\ IF rec.ok /\ CacheTools
           THEN Put(rec.call, rec.output, DeclaredResources(rec.call), TRUE)
           ELSE UNCHANGED cacheVars
  <2>1. pc = "record" /\ slot <= Len(calls)
    BY DEF RecordResult
  <2>2. slot \in DOMAIN records
    BY <2>1 DEF RecordsInv, LoopInv
  <2>3. IF rec.ok /\ CacheTools
          THEN Put(rec.call, rec.output, DeclaredResources(rec.call), TRUE)
          ELSE UNCHANGED cacheVars
    BY Zenon DEF RecordResult
  <2> QED  BY <2>1, <2>2, <2>3
<1>2. CASE UNCHANGED cacheVars
  BY <1>2 DEF ResultsInv, CacheInv, CacheTypeOK, VersionsReached, CacheHoldsOwnResults, cacheVars
<1>3. CASE rec.ok /\ Put(rec.call, rec.output, DeclaredResources(rec.call), TRUE)
  <2>1. rec.call \in Key /\ OwnResult(rec.call, rec.output)
    BY <1>1, <1>3, OrchestratorAssumption DEF ResultsInv
  <2>2. CacheInv'
    BY <1>3, <2>1, OwnResultsAreValues, DeclaredDeps, PutInv DEF ResultsInv
  <2>3. /\ DOMAIN entries' = DOMAIN entries \cup {rec.call}
        /\ entries'[rec.call].value = rec.output
        /\ \A k \in DOMAIN entries \ {rec.call} : entries'[k] = entries[k]
    BY <1>3 DEF Put
  <2> HIDE DEF rec
  <2>4. \A k \in DOMAIN entries' : OwnResult(k, entries'[k].value)
    BY <2>1, <2>3, OwnCache DEF ResultsInv
  <2> QED  BY <2>2, <2>4 DEF CacheHoldsOwnResults, OwnResult
<1> QED  BY <1>1, <1>2, <1>3

LEMMA TurnEndResults ==
  ASSUME ResultsInv, EndTurn
  PROVE  CacheInv' /\ CacheHoldsOwnResults'
<1>1. UNCHANGED <<entries, reply>>
  BY DEF EndTurn
<1>2. depVersions' \in [Dep -> Nat] /\ \A d \in Dep : depVersions[d] <= depVersions'[d]
  <2>1. depVersions \in [Dep -> Nat]
    BY DEF ResultsInv, CacheInv, CacheTypeOK
  <2> QED  BY <2>1 DEF EndTurn
<1>3. CacheTypeOK'
  BY <1>1, <1>2 DEF ResultsInv, CacheInv, CacheTypeOK
<1>4. VersionsReached'
  <2> SUFFICES ASSUME NEW k \in DOMAIN entries, NEW d \in Elements(entries[k].dependencies)
               PROVE  entries[k].versions[d] \in 1..depVersions'[d]
    BY <1>1 DEF VersionsReached
  <2>1. d \in Dep
    BY ElementsAreDeps DEF ResultsInv, CacheInv, CacheTypeOK, Entry
  <2>2. entries[k].versions[d] \in 1..depVersions[d] /\ depVersions[d] \in Nat
    BY <2>1 DEF ResultsInv, CacheInv, CacheTypeOK, VersionsReached
  <2> QED  BY <1>2, <2>1, <2>2
<1> QED  BY <1>1, <1>3, <1>4 DEF CacheInv, ResultsInv, CacheHoldsOwnResults

LEMMA ResultsInvStep ==
  LoopInv /\ TurnInv /\ RecordsInv /\ ResultsInv /\ [Next]_vars => ResultsInv'
<1> SUFFICES ASSUME LoopInv, TurnInv, RecordsInv, ResultsInv, [Next]_vars PROVE ResultsInv'
  OBVIOUS
<1>1. CASE LookupCall
  BY <1>1, LookupResults
<1>2. ASSUME NEW p \in DOMAIN pending, ExecuteCall(p) PROVE ResultsInv'
  BY <1>2, ExecuteResults
<1>3. ASSUME UNCHANGED cacheVars
      PROVE  CacheInv' /\ CacheHoldsOwnResults'
  BY <1>3 DEF ResultsInv, CacheInv, CacheTypeOK, VersionsReached, CacheHoldsOwnResults, cacheVars
<1>4. CASE Chore \/ Review
  <2>1. /\ UNCHANGED <<files, cacheVars>> /\ cached' = <<>>
        /\ pc' \notin {"execute", "record"}
    BY <1>4 DEF Chore, ChoreFails, ChoreOverspends, ChoreFinishes, ChoreCallsTools, RequestChore,
       Review, DecisionFails, DecisionConfirms, DecisionOverrides, DecisionAnswers, ReviewFrame,
       ToLookup, Return, TurnInv, turnVars, fileVars
  <2> QED  BY <1>3, <2>1 DEF ResultsInv
<1>5. CASE EndLookup
  <2>1. \A i \in DOMAIN records' : ~ records'[i].ok
    <3>1. ~ NoToolRecord.ok
      BY DEF NoToolRecord
    <3> QED  BY <1>5, <3>1 DEF EndLookup
  <2>2. UNCHANGED <<files, calls, cached, cacheVars>>
    BY <1>5 DEF EndLookup, fileVars
  <2> QED  BY <1>3, <2>1, <2>2 DEF ResultsInv
<1>6. ASSUME NEW p \in DOMAIN pending, ExecutionThrows(p) PROVE ResultsInv'
  <2>1. UNCHANGED <<calls, cached, cacheVars>> /\ pc' = "over"
    BY <1>6 DEF ExecutionThrows, Return, turnVars
  <2> QED  BY <1>3, <1>6, <2>1, ThrowKeepsFiles DEF ResultsInv
<1>7. CASE SpliceHits
  <2>1. /\ UNCHANGED <<files, calls, cached, cacheVars>> /\ pc = "execute"
        /\ records' = [i \in 1..Len(calls) |->
             IF cached[i] = Miss THEN records[i]
             ELSE [call |-> calls[i], ok |-> TRUE, output |-> cached[i], fromCache |-> TRUE]]
    BY <1>7 DEF SpliceHits, fileVars
  <2>2. DOMAIN records = 1..Len(calls) /\ DOMAIN cached = 1..Len(calls) /\ calls \in Seq(Call)
    BY <2>1 DEF RecordsInv, TurnInv, LoopInv
  <2>3. ASSUME NEW i \in DOMAIN records', records'[i].ok
        PROVE  records'[i].call \in Call /\ OwnResult(records'[i].call, records'[i].output)
    <3>1. CASE cached[i] = Miss
      BY <2>1, <2>2, <2>3, <3>1 DEF ResultsInv
    <3>2. CASE cached[i] # Miss
      BY <2>1, <2>2, <3>2 DEF ResultsInv
    <3> QED  BY <3>1, <3>2
  <2> QED  BY <1>3, <2>1, <2>3 DEF ResultsInv
<1>8. CASE RecordResult
  <2>1. UNCHANGED <<files, calls, cached, records, pc>>
    BY <1>8 DEF RecordResult, fileVars
  <2> QED  BY <1>8, <2>1, RecordedResults DEF ResultsInv
<1>9. CASE EndTurn
  <2>1. files' = files /\ cached' = <<>> /\ pc' = "model"
    BY <1>9 DEF EndTurn, fileVars
  <2> QED  BY <1>9, <2>1, TurnEndResults DEF ResultsInv
<1>10. CASE StartRun \/ TurnsSpent
  <2>1. UNCHANGED <<files, calls, cached, cacheVars>> /\ pc' \in {"model", "over"}
    BY <1>10 DEF StartRun, TurnsSpent, Return, turnVars, fileVars
  <2> QED  BY <1>3, <2>1 DEF ResultsInv
<1>11. ASSUME NEW f \in Path, NEW c \in Content \cup {Absent}, ExternalWrite(f, c)
       PROVE  ResultsInv'
  <2>1. UNCHANGED <<pc, calls, cached, records, cacheVars>> /\ files' = [files EXCEPT ![f] = c]
    BY <1>11 DEF ExternalWrite, loopVars, turnVars
  <2>2. files' \in FileSystems
    BY <2>1 DEF FileSystems, ResultsInv
  <2> QED  BY <1>3, <2>1, <2>2 DEF ResultsInv
<1>12. ASSUME NEW d \in Dep, InvalidateCacheDependency(d) PROVE ResultsInv'
  <2>1. UNCHANGED <<pc, calls, cached, records, files>> /\ InvalidateDependency(d)
    BY <1>12 DEF InvalidateCacheDependency, loopVars, turnVars, fileVars
  <2>2. CacheInv' /\ entries' = entries
    BY <2>1, InvalidateInv DEF ResultsInv, InvalidateDependency
  <2> QED  BY <2>1, <2>2 DEF ResultsInv, CacheHoldsOwnResults
<1>13. CASE UNCHANGED vars
  <2>1. UNCHANGED <<pc, calls, cached, records, files, cacheVars>>
    BY <1>13 DEF vars, loopVars, turnVars, fileVars
  <2> QED  BY <1>3, <2>1 DEF ResultsInv
<1> QED  BY <1>1, <1>2, <1>4, <1>5, <1>6, <1>7, <1>8, <1>9, <1>10, <1>11, <1>12, <1>13
        DEF Next, Loop, Execute, Beside

-----------------------------------------------------------------------------
(* What is left of the type invariant.                                     *)
StatusInv ==
  /\ pc \in {"idle", "model", "decision", "lookup", "execute", "record", "over"}
  /\ outcome \in {"none", "completed", "bounded", "failed", "thrown"}
  /\ turn \in 0..MaxTurns /\ external \in 0..MaxExternal
  /\ baseline \in FileSystems

LEMMA StatusInvInit == Init => StatusInv
  BY OrchestratorAssumption DEF Init, StatusInv, FileSystems

LEMMA StatusInvStep == ResultsInv /\ StatusInv /\ [Next]_vars => StatusInv'
<1> SUFFICES ASSUME ResultsInv, StatusInv, [Next]_vars PROVE StatusInv'
  OBVIOUS
<1>1. turn' = turn \/ (turn < MaxTurns /\ turn' = turn + 1)
  BY DEF Next, Loop, Chore, ChoreFails, ChoreOverspends, ChoreFinishes, ChoreCallsTools,
     RequestChore, Review, DecisionFails, DecisionConfirms, DecisionOverrides, DecisionAnswers,
     ReviewFrame, StartRun, LookupCall, EndLookup, Execute, ExecuteCall, ExecutionThrows,
     SpliceHits, RecordResult, EndTurn, TurnsSpent, Beside, ExternalWrite,
     InvalidateCacheDependency, turnVars, loopVars, vars
<1>2. external' = external \/ (external < MaxExternal /\ external' = external + 1)
  BY DEF Next, Loop, Chore, ChoreFails, ChoreOverspends, ChoreFinishes, ChoreCallsTools,
     RequestChore, Review, DecisionFails, DecisionConfirms, DecisionOverrides, DecisionAnswers,
     ReviewFrame, StartRun, LookupCall, EndLookup, Execute, ExecuteCall, ExecutionThrows,
     SpliceHits, RecordResult, EndTurn, TurnsSpent, Beside, ExternalWrite,
     InvalidateCacheDependency, turnVars, loopVars, vars
<1>3. baseline' \in {baseline, files}
  BY DEF Next, Loop, Chore, ChoreFails, ChoreOverspends, ChoreFinishes, ChoreCallsTools,
     RequestChore, Review, DecisionFails, DecisionConfirms, DecisionOverrides, DecisionAnswers,
     ReviewFrame, StartRun, LookupCall, EndLookup, Execute, ExecuteCall, ExecutionThrows,
     SpliceHits, RecordResult, EndTurn, TurnsSpent, Beside, ExternalWrite,
     InvalidateCacheDependency, fileVars, vars
<1>4. /\ pc' \in {pc, "model", "decision", "lookup", "execute", "record", "over"}
      /\ outcome' \in {outcome, "completed", "bounded", "failed", "thrown"}
  BY DEF Next, Loop, Chore, ChoreFails, ChoreOverspends, ChoreFinishes, ChoreCallsTools,
     Review, DecisionFails, DecisionConfirms, DecisionOverrides, DecisionAnswers, ToLookup,
     Return, StartRun, LookupCall, EndLookup, Execute, ExecuteCall, ExecutionThrows,
     SpliceHits, RecordResult, EndTurn, TurnsSpent, Beside, ExternalWrite,
     InvalidateCacheDependency, loopVars, vars
<1>5. turn' \in 0..MaxTurns /\ external' \in 0..MaxExternal
  BY <1>1, <1>2, OrchestratorAssumption DEF StatusInv
<1> QED  BY <1>3, <1>4, <1>5 DEF StatusInv, ResultsInv

LEMMA TypeFromParts ==
  ASSUME LoopInv, RoutingInv, TurnInv, ResultsInv, StatusInv
  PROVE  TypeOK
<1>1. CacheTypeOK
  BY DEF ResultsInv, CacheInv
<1>2. CascadeTypeOK
  BY DEF RoutingInv, Cascades, Tally, CascadeTypeOK
<1>3. slot \in Nat /\ cost \in Nat /\ calls \in Seq(Call) /\ tier \in Tier
  BY DEF LoopInv, RoutingInv
<1>4. pending \in Seq(DOMAIN calls) /\ executed \in Seq(DOMAIN pending)
  <2>1. DOMAIN cached \subseteq DOMAIN calls
    BY DEF TurnInv, LoopInv
  <2> QED  BY <2>1, SeqOverLarger DEF TurnInv
<1>5. cached \in Seq(Value \cup {Miss})
  BY DEF TurnInv
<1> QED  BY <1>1, <1>2, <1>3, <1>4, <1>5 DEF TypeOK, StatusInv, ResultsInv, FileSystems

(* Everything a run keeps of its calls and their results.                  *)
RunInv == LoopInv /\ RoutingInv /\ TurnInv /\ RecordsInv /\ ResultsInv /\ StatusInv

LEMMA RunInvStep == RunInv /\ [Next]_vars => RunInv'
<1> SUFFICES ASSUME RunInv, [Next]_vars PROVE RunInv'
  OBVIOUS
<1>1. LoopInv' /\ RoutingInv' /\ TurnInv'
  BY LoopInvStep, RoutingStep, TurnInvStep DEF RunInv, ResultsInv, CacheInv
<1>2. RecordsInv' /\ ResultsInv' /\ StatusInv'
  BY <1>1, RecordsInvStep, ResultsInvStep, StatusInvStep DEF RunInv
<1> QED  BY <1>1, <1>2 DEF RunInv

LEMMA RunInvariant == Spec => []RunInv
<1>1. Init => RunInv
  BY LoopInvInit, RoutingInvInit, TurnInvInit, RecordsInvInit, ResultsInvInit, StatusInvInit
     DEF RunInv
<1> QED  BY <1>1, RunInvStep, PTL DEF Spec

-----------------------------------------------------------------------------
(* A run keeps the types of its state, the cascade's and the cache's       *)
(* included: every list of dependencies it uses is one the cache knows.    *)
THEOREM RunTypeCorrect == Spec => []TypeOK
<1>1. RunInv => TypeOK
  BY TypeFromParts DEF RunInv
<1> QED  BY <1>1, RunInvariant, PTL

(* Every call of a turn gets exactly one record, whatever the cache        *)
(* answered and in whatever order the executor ran the others: the records *)
(* are the calls rearranged (orchestrator.cpp:346-389).                    *)
THEOREM OneRecordPerCall == Spec => []EveryCallRecordedOnce
<1>1. RunInv => EveryCallRecordedOnce
  <2> SUFFICES ASSUME RunInv, pc = "record", NEW call \in Call
               PROVE  Cardinality({i \in DOMAIN records : records[i].call = call})
                        = Cardinality({i \in DOMAIN calls : calls[i] = call})
    BY DEF EveryCallRecordedOnce
  <2>1. calls \in Seq(Call) /\ DOMAIN records = DOMAIN calls /\ Rearranged
    BY DEF RunInv, LoopInv, RecordsInv
  <2> QED  BY <2>1, RearrangedCounts
<1> QED  BY <1>1, RunInvariant, PTL

(* A call's key only ever holds what that call can return, although the    *)
(* records of a turn may sit in each other's slots                         *)
(* (orchestrator.cpp:400-412).                                             *)
THEOREM CacheKeepsOwnResults == Spec => []CacheHoldsOwnResults
<1>1. RunInv => CacheHoldsOwnResults
  BY DEF RunInv, ResultsInv
<1> QED  BY <1>1, RunInvariant, PTL

(* The loop uses the cache within its contract: no entry is ever ahead of  *)
(* the versions of its dependencies, those that the end of a turn and      *)
(* another thread count up included (orchestrator.cpp:153-170).            *)
THEOREM RunKeepsVersionsReached == Spec => []VersionsReached
<1>1. RunInv => VersionsReached
  BY DEF RunInv, ResultsInv, CacheInv
<1> QED  BY <1>1, RunInvariant, PTL

(* A run that returned has recorded one verdict, last, and it is the one   *)
(* it returned; one under way or ended by a tool's exception has recorded  *)
(* none (orchestrator.cpp:225-231, 253-267, 310-325, 435-443).             *)
THEOREM VerdictIsUnique == Spec => []OneVerdict
<1>1. VerdictInv => OneVerdict
  BY DEF VerdictInv
<1> QED  BY LoopInvInit, LoopInvStep, VerdictInvInit, VerdictInvStep, <1>1, PTL DEF Spec

(* Once the decision model overrode a plan, no tool result and no cache    *)
(* hit is recorded before the chore model was asked again                  *)
(* (orchestrator.cpp:303-333).                                             *)
THEOREM OverrideStopsTools == Spec => []OverriddenTurnRunsNoTool
<1>1. PlanInv => OverriddenTurnRunsNoTool
  BY DEF PlanInv, ToolsOnlyWhenAsked, OverriddenTurnRunsNoTool
<1> QED  BY LoopInvInit, LoopInvStep, PlanInvInit, PlanInvStep, <1>1, PTL DEF Spec

(* No chore model is asked with the turns or the money spent               *)
(* (orchestrator.cpp:211, 253-257).                                        *)
THEOREM BudgetsHold == Spec => NoRequestOverBudget
<1>1. LoopInv /\ [Next]_vars =>
        [turn' # turn => turn < MaxTurns /\ (MaxCost > 0 => cost < MaxCost)]_vars
  <2> SUFFICES ASSUME LoopInv, Next, turn' # turn
               PROVE  turn < MaxTurns /\ (MaxCost > 0 => cost < MaxCost)
    OBVIOUS
  <2>1. CASE RequestChore
    BY <2>1, OrchestratorAssumption DEF RequestChore, LoopInv, BudgetSpent
  <2>2. ASSUME ~ RequestChore PROVE FALSE
    BY <2>2 DEF Next, Loop, Chore, ChoreFails, ChoreOverspends, ChoreFinishes, ChoreCallsTools,
       Review, DecisionFails, DecisionConfirms, DecisionOverrides, DecisionAnswers, ReviewFrame,
       StartRun, LookupCall, EndLookup, Execute, ExecuteCall, ExecutionThrows, SpliceHits, RecordResult,
       EndTurn, TurnsSpent, Beside, ExternalWrite, InvalidateCacheDependency, turnVars, loopVars, vars
  <2> QED  BY <2>1, <2>2
<1> QED  BY LoopInvInit, LoopInvStep, <1>1, PTL DEF Spec, NoRequestOverBudget

(* Chores escalated to the large tier stay there for good: from then on a  *)
(* run records answers of the large tier only, and a failure never brings  *)
(* them down (orchestrator.cpp:216-217, model_cascade.cpp:7-39).           *)
THEOREM EscalationLasts == Spec => EscalationIsPermanent
<1>1. RoutingInv /\ [Next]_vars => RoutingInv' /\ [ChoreTier = "Large" => ChoreTier' = "Large"]_vars
  BY RoutingStep
<1> QED  BY RoutingInvInit, <1>1, PTL DEF Spec, EscalationIsPermanent
===============================================================================
