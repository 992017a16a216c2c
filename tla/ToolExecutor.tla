---------------------------- MODULE ToolExecutor ----------------------------
(***************************************************************************)
(* One call of ToolExecutor::execute (src/core/tool_executor.cpp): build   *)
(* the dependency graph of the calls, then run the groups of its schedule  *)
(* one after the other, the calls of a group each on a thread of its own   *)
(* with a fork of the tool context.  The calling thread starts a group's   *)
(* workers in order, then waits for their futures in order.                *)
(*                                                                         *)
(* A tool may throw (a built-in one does on arguments of the wrong JSON    *)
(* type).  The exception sits in the future until the calling thread gets  *)
(* it, and then unwinds the loop body: `forks', declared last, is          *)
(* destroyed first, and the destructors of `futures' wait for the workers. *)
(***************************************************************************)
EXTENDS DependencyGraph, FiniteSets

VARIABLES parallelSafe, \* parallel_safe_
          hasContext,   \* the ToolContext pointer is not null
          known,        \* known[i]: the registry has the tool of call i
          status,       \* how far execute has come
          active,       \* the group being run
          worker,       \* the thread of each call
          fork,         \* the forked context of each call
          out           \* the records returned: <<call, result.ok>>

execVars == <<parallelSafe, hasContext, known, status, active, worker, fork, out>>

vars == <<graphVars, execVars>>

Done == {"ok", "failed"}

(* Mutant of GroupOf: every call is in the first group.                    *)
OneGroup(i) == 1

(* With parallel_safe_ off there is one group, of every call.              *)
GroupOf(i) == IF parallelSafe THEN group[i] ELSE 1

Groups == IF parallelSafe THEN groupCount ELSE 1

(* Mutant of Members: the groups are run from the last to the first.       *)
MembersBackwards == {i \in Calls : GroupOf(i) = Groups + 1 - active}

Members == {i \in Calls : GroupOf(i) = active}

Collected == {out[p][1] : p \in DOMAIN out}

ExecInit ==
  /\ GraphInit
  /\ parallelSafe \in BOOLEAN
  /\ hasContext \in BOOLEAN
  /\ known = <<>>
  /\ status = "building"
  /\ active = 0
  /\ worker = <<>>
  /\ fork = <<>>
  /\ out = <<>>

(* A call of an unregistered tool claims nothing.                          *)
AddToolCall(resources, registered) ==
  /\ status = "building"
  /\ ~ registered => resources = {}
  /\ AddCall(resources)
  /\ known' = Append(known, registered)
  /\ UNCHANGED <<parallelSafe, hasContext, status, active, worker, fork, out>>

ReturnNothing ==
  /\ status = "building"
  /\ phase = "adding"
  /\ claims = <<>>
  /\ status' = "returned"
  /\ UNCHANGED <<graphVars, parallelSafe, hasContext, known, active, worker, fork, out>>

ScheduleCalls ==
  /\ status = "building"
  /\ parallelSafe
  /\ claims # <<>>
  /\ Schedule
  /\ UNCHANGED execVars

StartGroups ==
  /\ status = "building"
  /\ claims # <<>>
  /\ phase = IF parallelSafe THEN "scheduled" ELSE "adding"
  /\ status' = "running"
  /\ active' = 1
  /\ worker' = [i \in Calls |-> "idle"]
  /\ fork' = [i \in Calls |-> "none"]
  /\ UNCHANGED <<graphVars, parallelSafe, hasContext, known, out>>

(* fork() and std::async for the next call of the group.                   *)
Launch(i) ==
  /\ status = "running"
  /\ i \in Members
  /\ worker[i] = "idle"
  /\ \A j \in Members : j < i => worker[j] # "idle"
  /\ worker' = [worker EXCEPT ![i] = "running"]
  /\ fork' = [fork EXCEPT ![i] = IF hasContext THEN "alive" ELSE "none"]
  /\ UNCHANGED <<graphVars, parallelSafe, hasContext, known, status, active, out>>

(* invoke_one ends on the worker's thread.                                 *)
Finish(i, outcome) ==
  /\ status \in {"running", "unwinding"}
  /\ worker[i] = "running"
  /\ ~ (known[i] /\ hasContext) => outcome = "failed"
  /\ worker' = [worker EXCEPT ![i] = outcome]
  /\ UNCHANGED <<graphVars, parallelSafe, hasContext, known, status, active, fork, out>>

(* Mutant of IsNextFuture: records are taken as they come.                 *)
IsAnyFuture(i) ==
  /\ status = "running"
  /\ i \in Members \ Collected
  /\ \A j \in Members : worker[j] # "idle"

(* The future whose turn it is in the second loop, once all have started.  *)
IsNextFuture(i) ==
  /\ status = "running"
  /\ i \in Members \ Collected
  /\ \A j \in Members : worker[j] # "idle"
  /\ \A j \in Members \ Collected : i <= j

(* fut.get() returns a record.                                             *)
Collect(i) ==
  /\ IsNextFuture(i)
  /\ worker[i] \in Done
  /\ out' = Append(out, <<i, worker[i] = "ok">>)
  /\ UNCHANGED <<graphVars, parallelSafe, hasContext, known, status, active, worker, fork>>

(* fut.get() throws: the forks go, then the futures wait.                  *)
Rethrow(i) ==
  /\ IsNextFuture(i)
  /\ worker[i] = "threw"
  /\ status' = "unwinding"
  /\ fork' = [j \in Calls |-> IF j \in Members THEN "destroyed" ELSE fork[j]]
  /\ UNCHANGED <<graphVars, parallelSafe, hasContext, known, active, worker, out>>

(* Mutants of LeaveByException: the threads are detached; every thread is  *)
(* awaited for a record, the one that threw included.                      *)
LeaveAtOnce ==
  /\ status = "unwinding"
  /\ status' = "thrown"
  /\ UNCHANGED <<graphVars, parallelSafe, hasContext, known, active, worker, fork, out>>

LeaveWithEveryRecord ==
  /\ status = "unwinding"
  /\ \A i \in Members : worker[i] \in Done
  /\ status' = "thrown"
  /\ UNCHANGED <<graphVars, parallelSafe, hasContext, known, active, worker, fork, out>>

LeaveByException ==
  /\ status = "unwinding"
  /\ \A i \in Members : worker[i] # "running"
  /\ status' = "thrown"
  /\ UNCHANGED <<graphVars, parallelSafe, hasContext, known, active, worker, fork, out>>

(* Mutant of EndGroup: the group is left once all its workers have started.*)
EndGroupEarly ==
  /\ status = "running"
  /\ \A i \in Members : worker[i] # "idle"
  /\ fork' = [j \in Calls |-> IF j \in Members THEN "destroyed" ELSE fork[j]]
  /\ active' = active + 1
  /\ status' = IF active = Groups THEN "returned" ELSE "running"
  /\ UNCHANGED <<graphVars, parallelSafe, hasContext, known, worker, out>>

(* End of the loop body: on to the next group, or return.                  *)
EndGroup ==
  /\ status = "running"
  /\ Members \subseteq Collected
  /\ fork' = [j \in Calls |-> IF j \in Members THEN "destroyed" ELSE fork[j]]
  /\ active' = active + 1
  /\ status' = IF active = Groups THEN "returned" ELSE "running"
  /\ UNCHANGED <<graphVars, parallelSafe, hasContext, known, worker, out>>

(* Workers exist once the loop over the groups was entered.                *)
Started == status # "building" /\ claims # <<>>

Executing == status \in {"running", "unwinding"}

Over == status \in {"returned", "thrown"}

Caller ==
  \/ ReturnNothing
  \/ ScheduleCalls
  \/ StartGroups
  \/ \E i \in Calls : Launch(i) \/ Collect(i) \/ Rethrow(i)
  \/ LeaveByException
  \/ EndGroup

Worker(i) == \E outcome \in Done \cup {"threw"} : Finish(i, outcome)

Next ==
  \/ \E resources \in ClaimSets, registered \in BOOLEAN : AddToolCall(resources, registered)
  \/ Caller
  \/ \E i \in Calls : Worker(i)
  \/ Over /\ UNCHANGED vars

Spec == ExecInit /\ [][Next]_vars

(* The calling thread is scheduled, and a tool that was started ends.      *)
FairSpec ==
  /\ Spec
  /\ WF_vars(Caller)
  /\ \A i \in 1..MaxCalls : WF_vars(i \in Calls /\ Worker(i))

-----------------------------------------------------------------------------
ExecTypeOK ==
  /\ GraphTypeOK
  /\ parallelSafe \in BOOLEAN /\ hasContext \in BOOLEAN
  /\ known \in Seq(BOOLEAN) /\ Len(known) = Len(claims)
  /\ status \in {"building", "running", "unwinding", "returned", "thrown"}
  /\ active \in Nat
  /\ Started => worker \in [Calls -> {"idle", "running", "ok", "failed", "threw"}]
  /\ Started => fork \in [Calls -> {"none", "alive", "destroyed"}]
  /\ out \in Seq(Calls \X BOOLEAN)
  /\ Executing => Started

(* Two calls that touch the same resource are never in progress at the same*)
(* time while the executor is parallel-safe.                               *)
NoConflictingOverlap ==
  Executing /\ parallelSafe =>
    \A i, j \in Calls :
      worker[i] = "running" /\ worker[j] = "running" => ~ Conflict(i, j)

(* A worker starts only when every call of every earlier group has ended   *)
(* without an exception and its record has been taken.                     *)
GroupBarrier ==
  Executing =>
    \A i, j \in Calls :
      worker[i] # "idle" /\ GroupOf(j) < GroupOf(i) => worker[j] \in Done /\ j \in Collected

(* Where conflict is transitive, as it is for the built-in tools' claims,  *)
(* a call that conflicts with an earlier one of the turn starts after the  *)
(* earlier one ended: a read sees the write asked for before it.           *)
ConflictingCallsInOrder ==
  Executing /\ parallelSafe /\ ConflictTransitive =>
    \A i, j \in Calls :
      i < j /\ Conflict(i, j) /\ worker[j] # "idle" => worker[i] \in Done

(* execute returns one record for every call and for no call two, grouped  *)
(* by schedule group and in call order within a group.                     *)
RecordsInGroupOrder ==
  /\ status = "returned" => Collected = Calls
  /\ \A p, q \in DOMAIN out : p < q =>
       LET i == out[p][1]
           j == out[q][1]
       IN  GroupOf(i) < GroupOf(j) \/ (GroupOf(i) = GroupOf(j) /\ i < j)

(* However execute ends, by return or by exception, no worker of it is     *)
(* still running: it uses the calls by reference.                          *)
NoWorkerOutlivesExecute ==
  Over /\ Started => \A i \in Calls : worker[i] # "running"

(* Until an exception unwinds it, the executor keeps the fork of a worker  *)
(* alive as long as the worker runs.                                       *)
ForkHeldWhileRunning ==
  status = "running" /\ hasContext =>
    \A i \in Calls : worker[i] = "running" => fork[i] = "alive"

(* The comment that closes the loop body (tool_executor.cpp:109-110):      *)
(* "forks is destroyed here, after all workers have finished, so the       *)
(* underlying context instances outlive the workers."                      *)
ForksOutliveWorkers ==
  Executing => \A i \in Calls : worker[i] = "running" => fork[i] # "destroyed"

(* execute comes back: no order of finishing workers, throwing ones        *)
(* included, leaves the calling thread waiting.                            *)
ExecuteEnds == status = "running" ~> Over
=============================================================================
