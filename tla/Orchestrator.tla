---------------------------- MODULE Orchestrator ----------------------------
(***************************************************************************)
(* Orchestrator::run (src/core/orchestrator.cpp): the loop that asks a     *)
(* model, has the large tier review what it answered, runs the tool calls  *)
(* it asked for through the cache and the executor, and starts over until  *)
(* the task is done, a budget is spent or a model fails.                   *)
(*                                                                         *)
(* The module composes ToolCache and ModelCascade, whose members the loop  *)
(* calls, and uses FirstFit for the order in which the executor runs calls *)
(* and returns their records.  Two things happen beside the loop: another  *)
(* process changes a file, and another thread calls                        *)
(* invalidate_cache_dependency.                                            *)
(*                                                                         *)
(* The models are free to answer anything.  A call reads a file, writes    *)
(* one, names a tool nobody registered, or gives read_file a path that is  *)
(* no string, which makes it throw; it stands for its own cache key        *)
(* "<name>|<arguments>".                                                   *)
(***************************************************************************)
EXTENDS ToolCache, ModelCascade, FirstFit, FiniteSets

CONSTANTS Path, Content,
          Absent,            \* the "content" of a file that is not there
          Written,           \* what write_file returns
          ReadDep, WriteDep, \* the declared resources "file:read", "file:write"
          CallLists,         \* the tool_calls lists a model may emit
          MaxTurns,          \* budget.max_turns
          MaxCost,           \* budget.max_cost, 0 for none
          CacheTools,        \* options_.cache_tools
          ObserveFiles,      \* options_.side_effect_root is set
          MaxExternal        \* bound on what happens beside the loop

Read(p) == [tool |-> "read_file", path |-> p]
Write(p, c) == [tool |-> "write_file", path |-> p, content |-> c]
Unknown == [tool |-> "unknown"]
Malformed == [tool |-> "read_file", path |-> Absent]

Call == {Read(p) : p \in Path} \cup {Unknown, Malformed}
          \cup {Write(p, c) : p \in Path, c \in Content}

ASSUME OrchestratorAssumption ==
  /\ CallLists \subseteq Seq(Call) /\ Key = Call
  /\ Value = Content \cup {Written} /\ Absent \notin Content \cup Path
  /\ Dep = {ReadDep, WriteDep} \cup Path
  /\ {MaxTurns, MaxCost, MaxExternal} \subseteq Nat
  /\ {CacheTools, ObserveFiles} \subseteq BOOLEAN
  /\ {<<>>, <<ReadDep>>, <<WriteDep>>} \subseteq DepList
  /\ MaxVersion > MaxTurns + MaxExternal

VARIABLES pc,         \* where the loop is
          turn,       \* result.turns
          cost,       \* result.cost, one unit per priced answer
          outcome,    \* how run ended: completed, bounded, failed or thrown
          calls,      \* the calls of this turn
          tier,       \* chosen_tier
          slot,       \* the call or record looked at
          cached,     \* hits: cached[i] answers call i, Miss if it is pending
          pending,    \* the slots of the calls the cache did not answer
          executed,   \* the positions in pending the executor ran, in its order
          records,    \* the records of this turn by slot
          hasContext, \* tool_ctx_ is set
          files,      \* the file system
          baseline,   \* the snapshot of the side-effect observer
          external,   \* how often something happened beside the loop
          log         \* the kinds of the events recorded by replay_

turnVars == <<slot, cached, pending, executed, records>>
loopVars == <<pc, turn, cost, outcome, calls, tier, turnVars, log>>
fileVars == <<files, baseline, hasContext>>
cacheState == <<entries, depVersions>>
vars == <<loopVars, fileVars, cacheVars, cascade, external>>

(* The static declared_resources of the tool: build_call_views.            *)
DeclaredResources(call) ==
  IF call.tool = "read_file" THEN <<ReadDep>>
  ELSE IF call.tool = "write_file" THEN <<WriteDep>> ELSE <<>>

(* The concrete resources_for of the call, which the executor schedules by.*)
(* A malformed read claims "file:read:*".                                  *)
ResourcesFor(call) ==
  IF call.tool = "read_file" THEN {<<"read", call.path>>}
  ELSE IF call.tool = "write_file" THEN {<<"read", call.path>>, <<"write", call.path>>}
  ELSE {}

(* What a call returns, and what it does to the files.  Without a context  *)
(* the executor answers "no tool context available" and invokes nothing.   *)
Throws(call) == hasContext /\ call = Malformed
CanSucceed(call) ==
  /\ hasContext
  /\ call \notin {Unknown, Malformed}
  /\ call.tool = "read_file" => files[call.path] # Absent

(* Whether it fails.  A write may or may not: its file cannot be opened, or*)
(* not be written.                                                         *)
Failures(call) ==
  IF ~ CanSucceed(call) THEN {TRUE} ELSE IF call.tool = "write_file" THEN BOOLEAN ELSE {FALSE}
Output(call) == IF call.tool = "read_file" THEN files[call.path] ELSE Written
FilesAfter(call) ==
  IF hasContext /\ call.tool = "write_file" THEN [files EXCEPT ![call.path] = call.content] ELSE files

(* A failed write has left the file alone or put anything into it.         *)
FilesLeft(call, failed) ==
  IF failed /\ hasContext /\ call.tool = "write_file"
    THEN {files} \cup {[files EXCEPT ![call.path] = c] : c \in Content}
    ELSE {FilesAfter(call)}

ToolRecord(call, failed) ==
  [call |-> call, ok |-> ~ failed,
   output |-> IF failed THEN Miss ELSE Output(call), fromCache |-> FALSE]

(* A default-constructed ToolExecutionRecord: no tool has the empty name.   *)
NoToolRecord == [call |-> [tool |-> ""], ok |-> FALSE, output |-> Miss, fromCache |-> FALSE]

PendingClaims == [k \in 1..Len(pending) |-> ResourcesFor(calls[pending[k]])]

(* The positions the executor has still to run, and the one it runs next.  *)
ToRun == DOMAIN pending \ {executed[k] : k \in DOMAIN executed}

RunsNext(p) == p \in ToRun /\ \A q \in ToRun \ {p} : RunsBefore(PendingClaims, p, q)

(* The calls that run from the p-th pending one on in its group.           *)
RestOfGroup(p) ==
  LET group == FirstFitGroups(PendingClaims)
  IN  {calls[pending[q]] : q \in {q \in ToRun : group[q] = group[p]}}

-----------------------------------------------------------------------------
Init ==
  /\ CacheInit /\ CascadeInit
  /\ pc = "idle" /\ turn = 0 /\ cost = 0 /\ outcome = "none"
  /\ calls = <<>> /\ tier = "Small" /\ slot = 1
  /\ cached = <<>> /\ pending = <<>> /\ executed = <<>> /\ records = <<>>
  /\ files \in [Path -> Content \cup {Absent}]
  /\ baseline = files
  /\ hasContext \in BOOLEAN
  /\ external = 0
  /\ log = <<>>

Emit(kinds) == log' = log \o kinds

Return(result) == pc' = "over" /\ outcome' = result

StartRun ==
  /\ pc = "idle"
  /\ pc' = "model"
  /\ Emit(<<"TurnStarted">>)
  /\ baseline' = IF ObserveFiles THEN files ELSE baseline
  /\ UNCHANGED <<turn, cost, outcome, calls, tier, turnVars, files, hasContext,
                 cacheVars, cascade, external>>

ChoreTier == RouteFor(cascade, "Chore")

(* Mutant of RequestChore: one turn too many (<= for <).                   *)
RequestChoreOffByOne ==
  /\ pc = "model" /\ turn <= MaxTurns
  /\ turn' = turn + 1
  /\ tier' = ChoreTier
  /\ UNCHANGED <<turnVars, fileVars, cacheVars, external>>

(* What every request to the chore model does.                             *)
RequestChore ==
  /\ pc = "model" /\ turn < MaxTurns
  /\ turn' = turn + 1
  /\ tier' = ChoreTier
  /\ UNCHANGED <<turnVars, fileVars, cacheVars, external>>

(* The provider's retries are used up: the run fails.                      *)
ChoreFails ==
  /\ RequestChore
  /\ cascade' = Failure(cascade, ChoreTier)
  /\ Emit(<<"ModelRequested", "Degraded">>)
  /\ Return("failed")
  /\ UNCHANGED <<cost, calls>>

(* Mutant of BudgetSpent: a budget spent to the last unit is not spent.    *)
BudgetOverdrawn(spent) == MaxCost > 0 /\ spent > MaxCost

BudgetSpent(spent) == MaxCost > 0 /\ spent >= MaxCost

(* Mutant of ChoreOverspends: the code after the loop does not look at     *)
(* result.bounded and reports a second BudgetHit.                          *)
ChoreOverspendsTwice(price, diverged) ==
  /\ RequestChore
  /\ BudgetSpent(cost + price)
  /\ cost' = cost + price
  /\ cascade' = Outcome(cascade, ChoreTier, diverged)
  /\ Emit(<<"ModelRequested", "ModelResponded", "BudgetHit", "BudgetHit">>)
  /\ Return("bounded")
  /\ UNCHANGED calls

(* An answer is priced first: one that spends the budget is dropped.       *)
ChoreOverspends(price, diverged) ==
  /\ RequestChore
  /\ BudgetSpent(cost + price)
  /\ cost' = cost + price
  /\ cascade' = Outcome(cascade, ChoreTier, diverged)
  /\ Emit(<<"ModelRequested", "ModelResponded", "BudgetHit">>)
  /\ Return("bounded")
  /\ UNCHANGED calls

ChoreFinishes(price) ==
  /\ RequestChore
  /\ ~ BudgetSpent(cost + price)
  /\ cost' = cost + price
  /\ cascade' = Outcome(cascade, ChoreTier, FALSE)
  /\ Emit(<<"ModelRequested", "ModelResponded", "TaskEnded">>)
  /\ Return("completed")
  /\ UNCHANGED calls

(* An empty plan with tool use counts as a divergence.                     *)
ChoreCallsTools(price, diverged, list) ==
  /\ RequestChore
  /\ ~ BudgetSpent(cost + price)
  /\ cost' = cost + price
  /\ cascade' = Outcome(cascade, ChoreTier, diverged)
  /\ calls' = list
  /\ Emit(<<"ModelRequested", "ModelResponded", "ToolCalled">>)
  /\ pc' = "decision"
  /\ UNCHANGED outcome

-----------------------------------------------------------------------------
(* The decision model's answer is not priced.  After it, unless the run    *)
(* ends, the working set is rendered and the cache is looked up.           *)
DecisionTier == RouteFor(cascade, "Decision")

ToLookup ==
  /\ pc' = "lookup" /\ slot' = 1
  /\ cached' = <<>> /\ pending' = <<>> /\ executed' = <<>>
  /\ UNCHANGED <<records, outcome>>

ReviewFrame == UNCHANGED <<turn, cost, tier, fileVars, cacheVars, external>>

(* observe_outcome records the failure, and run records it once more.      *)
DecisionFails ==
  /\ pc = "decision"
  /\ cascade' = Failure(Failure(cascade, DecisionTier), DecisionTier)
  /\ Emit(<<"WorkingSetRendered">>)
  /\ ToLookup
  /\ UNCHANGED calls /\ ReviewFrame

(* "CONFIRM", an empty plan and any text but an override: the plan stands. *)
DecisionConfirms(diverged) ==
  /\ pc = "decision"
  /\ cascade' = Outcome(cascade, DecisionTier, diverged)
  /\ Emit(<<"WorkingSetRendered">>)
  /\ ToLookup
  /\ UNCHANGED calls /\ ReviewFrame

Overridden == Outcome(Outcome(cascade, DecisionTier, FALSE), DecisionTier, TRUE)

(* Mutant of DecisionOverrides: calls.clear() is missing.                  *)
DecisionOverridesInVain ==
  /\ pc = "decision" /\ calls # <<>>
  /\ cascade' = Overridden
  /\ Emit(<<"DecisionOverride", "WorkingSetRendered">>)
  /\ ToLookup
  /\ UNCHANGED calls /\ ReviewFrame

(* "OVERRIDE: ...": the calls are dropped and the turn goes on without any.*)
DecisionOverrides ==
  /\ pc = "decision" /\ calls # <<>>
  /\ cascade' = Overridden
  /\ calls' = <<>>
  /\ Emit(<<"DecisionOverride", "WorkingSetRendered">>)
  /\ ToLookup
  /\ ReviewFrame

(* With no call to drop, the override is the final answer.                 *)
DecisionAnswers ==
  /\ pc = "decision" /\ calls = <<>>
  /\ cascade' = Overridden
  /\ Emit(<<"DecisionOverride", "TaskEnded">>)
  /\ Return("completed")
  /\ UNCHANGED <<calls, turnVars>> /\ ReviewFrame

-----------------------------------------------------------------------------
LookupCall ==
  /\ pc = "lookup" /\ slot <= Len(calls)
  /\ Get(calls[slot], DeclaredResources(calls[slot]))
  /\ LET hit == CacheTools /\ reply'.value # Miss
     IN  /\ cached' = Append(cached, IF hit THEN reply'.value ELSE Miss)
         /\ pending' = IF hit THEN pending ELSE Append(pending, slot)
         /\ Emit(IF hit THEN <<"CacheHit">> ELSE <<>>)
  /\ slot' = slot + 1
  /\ UNCHANGED <<pc, turn, cost, outcome, calls, tier, executed, records, fileVars, cascade,
                 external>>

EndLookup ==
  /\ pc = "lookup" /\ slot > Len(calls)
  /\ pc' = "execute"
  /\ records' = [i \in 1..Len(calls) |-> NoToolRecord]
  /\ UNCHANGED <<turn, cost, outcome, calls, tier, slot, cached, pending, executed, log,
                 fileVars, cacheVars, cascade, external>>

(* Mutant of SlotOfExecuted: the position among the pending calls is taken *)
(* for the position among all calls.                                       *)
PositionAmongPending(k) == k

(* The k-th record the executor returns is filed under the k-th pending    *)
(* call's slot.                                                            *)
SlotOfExecuted(k) == pending[k]

(* One call of the executor, in its order.                                 *)
ExecuteCall(p) ==
  /\ pc = "execute" /\ RunsNext(p)
  /\ LET call == calls[pending[p]]
     IN  /\ ~ Throws(call)
         /\ executed' = Append(executed, p)
         /\ \E failed \in Failures(call) :
              /\ records' = [records EXCEPT
                   ![SlotOfExecuted(Len(executed) + 1)] = ToolRecord(call, failed)]
              /\ files' \in FilesLeft(call, failed)
  /\ UNCHANGED <<pc, turn, cost, outcome, calls, tier, slot, cached, pending, log, baseline,
                 hasContext, cacheVars, cascade, external>>

(* Mutant of ExecutionThrows: the exception is swallowed and the call run  *)
(* again.                                                                  *)
ExecutionRetries(p) ==
  /\ pc = "execute" /\ RunsNext(p)
  /\ Throws(calls[pending[p]])
  /\ UNCHANGED vars

(* A tool throws: its group runs to the end, its writes succeeding or not, *)
(* then execute and run unwind, and nothing is recorded any more.          *)
ExecutionThrows(p) ==
  /\ pc = "execute" /\ RunsNext(p)
  /\ Throws(calls[pending[p]])
  /\ LET WrittenTo(file) == \E call \in RestOfGroup(p) : call.tool = "write_file" /\ call.path = file
     IN  /\ files' \in [Path -> Content \cup {Absent}]
         /\ \A file \in Path :
              files'[file] = files[file] \/ (WrittenTo(file) /\ files'[file] \in Content)
  /\ Return("thrown")
  /\ UNCHANGED <<turn, cost, calls, tier, turnVars, log, baseline, hasContext, cacheVars,
                 cascade, external>>

(* The hits take their own slots.                                          *)
SpliceHits ==
  /\ pc = "execute" /\ ToRun = {}
  /\ pc' = "record" /\ slot' = 1
  /\ records' = [i \in 1..Len(calls) |->
       IF cached[i] = Miss THEN records[i]
       ELSE [call |-> calls[i], ok |-> TRUE, output |-> cached[i], fromCache |-> TRUE]]
  /\ UNCHANGED <<turn, cost, outcome, calls, tier, cached, pending, executed, log, fileVars,
                 cacheVars, cascade, external>>

(* Mutant of RecordResult: a record is taken to be of the call whose slot  *)
(* it is in.                                                               *)
RecordResultBySlot ==
  /\ pc = "record" /\ slot <= Len(calls)
  /\ LET rec == records[slot]
     IN  /\ cascade' = IF rec.ok THEN cascade ELSE Failure(cascade, tier)
         /\ IF rec.ok /\ CacheTools
              THEN Put(calls[slot], rec.output, DeclaredResources(calls[slot]), TRUE)
              ELSE UNCHANGED cacheVars
  /\ Emit(<<"ToolFinished">>)
  /\ slot' = slot + 1
  /\ UNCHANGED <<pc, turn, cost, outcome, calls, tier, cached, pending, executed, records,
                 fileVars, external>>

(* The record names its own call, so a result is cached under the key of   *)
(* the call that returned it, whatever slot it is in.  A failed tool counts*)
(* as a failure of the tier that asked for it.                             *)
RecordResult ==
  /\ pc = "record" /\ slot <= Len(calls)
  /\ LET rec == records[slot]
     IN  /\ cascade' = IF rec.ok THEN cascade ELSE Failure(cascade, tier)
         /\ IF rec.ok /\ CacheTools
              THEN Put(rec.call, rec.output, DeclaredResources(rec.call), TRUE)
              ELSE UNCHANGED cacheVars
  /\ Emit(<<"ToolFinished">>)
  /\ slot' = slot + 1
  /\ UNCHANGED <<pc, turn, cost, outcome, calls, tier, cached, pending, executed, records,
                 fileVars, external>>

Changed == {p \in Path : files[p] # baseline[p]}

(* End of the turn: the files that differ from the run's snapshot are      *)
(* reported and "file:<path>" is invalidated for each.                     *)
EndTurn ==
  /\ pc = "record" /\ slot > Len(calls)
  /\ pc' = "model"
  /\ calls' = <<>> /\ cached' = <<>> /\ pending' = <<>> /\ executed' = <<>>
  /\ records' = <<>> /\ slot' = 1
  /\ IF ObserveFiles /\ Changed # {}
       THEN /\ Emit(<<"SideEffects">>)
            /\ depVersions' = [d \in Dep |-> IF d \in Changed THEN depVersions[d] + 1
                                                              ELSE depVersions[d]]
       ELSE UNCHANGED <<log, depVersions>>
  /\ UNCHANGED <<turn, cost, outcome, tier, fileVars, entries, reply, cascade, external>>

TurnsSpent ==
  /\ pc = "model" /\ turn = MaxTurns
  /\ Emit(<<"BudgetHit">>)
  /\ Return("bounded")
  /\ UNCHANGED <<turn, cost, calls, tier, turnVars, fileVars, cacheVars, cascade, external>>

-----------------------------------------------------------------------------
(* Beside the loop.                                                        *)
ExternalWrite(p, c) ==
  /\ external < MaxExternal /\ pc # "over"
  /\ files' = [files EXCEPT ![p] = c]
  /\ external' = external + 1
  /\ UNCHANGED <<loopVars, baseline, hasContext, cacheVars, cascade>>

InvalidateCacheDependency(d) ==
  /\ external < MaxExternal /\ pc # "over"
  /\ InvalidateDependency(d)
  /\ external' = external + 1
  /\ UNCHANGED <<loopVars, fileVars, cascade>>

Chore ==
  \/ ChoreFails
  \/ \E price \in 0..1, diverged \in BOOLEAN :
       \/ ChoreOverspends(price, diverged)
       \/ \E list \in CallLists : ChoreCallsTools(price, diverged, list)
  \/ \E price \in 0..1 : ChoreFinishes(price)

Review ==
  \/ DecisionFails
  \/ \E diverged \in BOOLEAN : DecisionConfirms(diverged)
  \/ DecisionOverrides
  \/ DecisionAnswers

Execute == \E p \in DOMAIN pending : ExecuteCall(p) \/ ExecutionThrows(p)

Loop ==
  \/ StartRun \/ Chore \/ Review \/ LookupCall \/ EndLookup
  \/ Execute \/ SpliceHits \/ RecordResult \/ EndTurn \/ TurnsSpent

Beside ==
  \/ \E p \in Path, c \in Content \cup {Absent} : ExternalWrite(p, c)
  \/ \E d \in Dep : InvalidateCacheDependency(d)

Next == Loop \/ Beside \/ (pc = "over" /\ UNCHANGED vars)

Spec == Init /\ [][Next]_vars

(* The thread that called run is scheduled, its providers answer or fail   *)
(* and its tools return.                                                   *)
FairSpec == Spec /\ WF_vars(Loop)

-----------------------------------------------------------------------------
TypeOK ==
  /\ CacheTypeOK /\ CascadeTypeOK
  /\ pc \in {"idle", "model", "decision", "lookup", "execute", "record", "over"}
  /\ turn \in 0..MaxTurns /\ cost \in Nat /\ external \in 0..MaxExternal
  /\ outcome \in {"none", "completed", "bounded", "failed", "thrown"}
  /\ calls \in Seq(Call) /\ tier \in Tier /\ slot \in Nat
  /\ cached \in Seq(Value \cup {Miss})
  /\ pending \in Seq(DOMAIN calls) /\ executed \in Seq(DOMAIN pending)
  /\ files \in [Path -> Content \cup {Absent}] /\ baseline \in [Path -> Content \cup {Absent}]

(* A run that returned has recorded exactly one verdict, as its last event,*)
(* and it is the one it returned; a run that is under way, or that a tool's*)
(* exception ended, has recorded none.  Observers tell the end by it.      *)
VerdictOf(result) ==
  CASE result = "completed" -> "TaskEnded"
    [] result = "bounded" -> "BudgetHit"
    [] result = "failed" -> "Degraded"

OneVerdict ==
  LET verdicts == {n \in DOMAIN log : log[n] \in {"TaskEnded", "BudgetHit", "Degraded"}}
  IN  IF outcome \in {"none", "thrown"}
        THEN verdicts = {}
        ELSE verdicts = {Len(log)} /\ log[Len(log)] = VerdictOf(outcome)

(* Every call of the turn gets exactly one record, from the cache or from  *)
(* the executor, however hits and groups interleave.                       *)
EveryCallRecordedOnce ==
  pc = "record" =>
    \A call \in Call :
      Cardinality({i \in DOMAIN records : records[i].call = call})
        = Cardinality({i \in DOMAIN calls : calls[i] = call})

(* The cache holds only what the call it is filed under can return: a      *)
(* record in the wrong slot never poisons another call's key.              *)
CacheHoldsOwnResults ==
  \A call \in DOMAIN entries :
    \/ call.tool = "read_file" /\ entries[call].value \in Content
    \/ call.tool = "write_file" /\ entries[call].value = Written

(* No chore model is asked once the budget is spent, in money or in turns: *)
(* the prices of the chore answers are what is added up, and the decision  *)
(* model's answers, which follow on a chore answer, are never priced.      *)
NoRequestOverBudget ==
  [][turn' # turn => turn < MaxTurns /\ (MaxCost > 0 => cost < MaxCost)]_vars

(* A turn whose plan the decision model overrode runs no tool and answers  *)
(* none from the cache before the chore model was asked again.             *)
OverriddenTurnRunsNoTool ==
  \A m, n \in DOMAIN log :
    m < n /\ log[m] = "DecisionOverride" /\ log[n] \in {"ToolFinished", "CacheHit"}
      => \E k \in m..n : log[k] = "ModelRequested"

(* Once chores were escalated to the large tier they stay there: what the  *)
(* loop records from then on is about the large tier, and only records of  *)
(* the small one could bring them down.                                    *)
EscalationIsPermanent ==
  [][ChoreTier = "Large" => ChoreTier' = "Large"]_vars

(* Every run ends, whatever the models answer and whether or not a tool    *)
(* throws.                                                                 *)
RunEnds == pc = "idle" ~> pc = "over"

(* "later we splice the cached results back into the same order as the     *)
(* model emitted them" (orchestrator.cpp:365-366): record i is of call i.  *)
RecordsInEmissionOrder ==
  pc = "record" => \A i \in DOMAIN calls : records[i].call = calls[i]

(* "reuse prior outputs when args+deps are unchanged"                      *)
(* (orchestrator.cpp:346): an answer from the cache is as good as running  *)
(* the call, which would return the same and leave the files as they are.  *)
HitsAreAsGoodAsRunning ==
  [][Len(cached') > Len(cached) /\ cached'[Len(cached')] # Miss
       => LET call == calls[slot]
          IN  Output(call) = cached'[Len(cached')] /\ FilesAfter(call) = files]_vars
=============================================================================
