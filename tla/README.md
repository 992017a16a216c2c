# Verification of the Praxis engine

TLA+ models of Praxis, a C++ engine that runs language-model agents: it asks a
model what to do, executes the tool calls the model asked for, and feeds the
results back until the task is done or a budget is spent. Paths below are
relative to the repository root; `src/core/cache.cpp` is the file of that name.

## 1. The system

| Part | State it keeps | Operations | Talks to |
| --- | --- | --- | --- |
| Orchestrator (`core/orchestrator`) | options, tool context, per run: turn, cost, messages, calls, records | `run`, `register_*`, `set_provider`, `attach_observer`, `invalidate_cache_dependency` | everything below |
| Model cascade (`core/model_cascade`) | pin, limit, threshold, tallies per tier | `route_for`, `record_outcome`, `record_failure`, two setters, `clear_pin`, `is_pinned` | called by the run loop |
| Result cache (`core/cache`) | entries, version per dependency, counters | `get`, `put`, `invalidate_dependency`, `clear` | run loop, other threads |
| Dependency graph (`core/dependency_graph`) | calls and their resources | `add_call`, `has_conflict`, `weakly_connected_components`, `schedule` | executor |
| Tool executor (`core/tool_executor`) | counters, `parallel_safe_`; per call: groups, futures, forks | `execute` | registry, tools, one thread per call |
| Side-effect observer (`core/side_effect`) | snapshot of a directory | `snapshot`, `diff`, `clear` | file system |
| Replay (`core/replay`) | events, causal edges, sinks | `record`, `link`, `subscribe`, `clear`, `replay_into` | sinks, called back under its mutex |
| Context manager, digest (`core/context_manager`, `core/digest`) | order of facts, digest of hard keys | `record_tool_result`, `rebuild_digest`, `render_working_set`, `recall` | fact store |
| Fact store (`core/fact_store`) | facts by id, append-only file | `append`, `get`, `flush`, reload on construction | file system |
| Providers (`llm/*`) | router: provider per tier; retry: counters | `complete`, `set`, `for_tier` | HTTP |
| JSON-RPC, MCP (`mcp/*`) | next id, handlers; SSE queue, stream flags | `call`, `notify`, `pump_once`; `send`, `receive`; `attach` | remote server, event thread |
| Process runner (`platform/*`) | per run: pipe, deadline, child | `run`, file operations | child processes |
| Built-in tools (`tools/builtin`) | context | `resources_for`, `invoke` | files, process runner |
| Registries, telemetry, `ui/*`, Python bindings | tables, counters | | |

How they interact: `Orchestrator::run` is one thread. Each turn it asks the tier
`route_for(Chore)` names, has the decision tier review the answer, looks every
tool call up in the cache, hands the misses to the executor, which starts one
thread per call of a group, files the records, updates cascade, cache, facts
and messages, and invalidates cache dependencies for the files that changed.
Events go to Replay, which calls its sinks back. Other threads may call
`invalidate_cache_dependency`, and other processes may change the files.

What is hard here:

- concurrency: the workers of a group; the cache used by several threads; the
  SSE event thread against `receive`; sinks called under a mutex;
- failure: a tool that throws in the middle of a group, a model that fails, a
  decision model that fails or overrides, a stream that ends, a sink that throws, a
  crash while a fact is written, a file that cannot be read or written;
- ordering: groups against the order the model emitted; records against the
  pending calls; versions against entries;
- limits: turn and cost budgets, pins and thresholds, token budget, timeouts.

Correctness of each part:

- cache: a lookup never returns a result one of whose dependencies was
  invalidated after the result was stored;
- graph: groups are conflict-free, nothing is serialised without need, and the
  order of conflicting calls is kept wherever that can be promised;
- executor: conflicting calls never overlap, groups are barriers, every call
  gets one record, no worker outlives `execute`, and `execute` ends;
- cascade: a pin has a reason, ends only by `clear_pin`, and only the small
  tier's own answers bring chores back to it;
- run loop: one verdict per run, every call recorded exactly once, no request
  beyond the budget, no tool of an overridden plan run, termination;
- access to models: whatever is retried, a request is charged for its last attempt
  alone, to the tier that was asked: a chore once, and a review that overrides or
  fails once more;
- process runner: the deadline ends the run (on Windows only as far as the child
  writes or exits), all output is returned, nothing is
  left behind and no signal is sent to a pid that was given back;
- MCP session: an answer that arrived is taken even if the stream then ended, the
  end of the stream frees the caller, and how far the answers lag behind the calls
  is accounted for;
- replay: every subscription gets the events since it was made in log order, but for
  those on which a sink before it threw; numbers given by the log grow;
- fact store: what was written whole is read back, whatever it is made of;
- context: the digest kept up is the digest rebuilt.

## 2. Modules

| Module | Models | Composes |
| --- | --- | --- |
| `AbstractCache` | what `cache.hpp` promises: invalidation forgets | |
| `ToolCache` | `core/cache.cpp`: versions in place of forgetting | implements `AbstractCache` |
| `FirstFit` | the outcome of `schedule()` as a function | |
| `DependencyGraph` | `core/dependency_graph.cpp`, one turn of `schedule()`'s loop per step | extends `FirstFit`, whose function its loop is shown to compute |
| `ToolExecutor` | `core/tool_executor.cpp`: one `execute` with its threads | extends `DependencyGraph` |
| `ModelCascade` | `core/model_cascade.cpp` | |
| `Orchestrator` | `Orchestrator::run` and what happens beside it | extends `ToolCache`, `ModelCascade`, `FirstFit` |
| `ModelAccess` | `complete_for`, `observe_outcome`, `set_provider` of the orchestrator and what `run` records of a review; router and retry loop of `llm/` | extends `ModelCascade` |
| `ProcessRunner` | `run_captured` (POSIX), `BasicContext::exec_argv` of the shell tool, `WindowsPlatform::run`, the child and the clock | |
| `McpSession` | `JsonRpcClient` over `SseTransport`, `McpHost::attach`, `McpTool::invoke`, event thread and server | |
| `Replay` | `core/replay.cpp` with its sinks and several threads | |
| `FactStore` | `core/fact_store.cpp`, its file format and its faults | |
| `ContextManager` | `core/context_manager.cpp`, `estimate_tokens` | extends `FactStore` |
| `MC*` | the instances TLC checks; `ProcessRunner`, `McpSession` and `Replay` need only a `.cfg` | |
| `*Proofs` | theorems and proofs, those of `DependencyGraph` in `ToolExecutorProofs` and those of `FactStore` in `ContextManagerProofs` | |

### How the state corresponds to the code

*ToolCache.* `entries` is `entries_`, `depVersions` is `dep_versions_` with 0 for
a name the map lacks, `reply` is what the last `get` returned. Every public
member holds the mutex for its whole body, so each is one action. Both
branches of `put` (new key, old key) build the same entry and are one action.
`Promise` reads the live results off the entries: those that are cacheable and
whose versions are current.

*DependencyGraph.* `claims[i]` are the resources of call i, `group` is
`assignment` (0 for `SIZE_MAX`), `cursor` the loop index. The `while (progress)`
loop makes a second pass only to find every call assigned, so one pass is
modelled. Groups are numbered from 1.

*ToolExecutor.* `worker[i]` is the thread of call i, `fork[i]` its context,
`out` the records returned so far. The calling thread's steps are `Launch`,
`Collect`, `Rethrow`, `LeaveByException` and `EndGroup`; `Finish` is the end of
`invoke_one` on a worker. `Rethrow` destroys the forks before the futures'
destructors wait, which is the order C++ gives two locals declared
`futures`, `forks`. With `parallel_safe_` off there is one group of all calls, as
in the code.

*ModelCascade.* One record `cascade`; the members are operators on it because
one step of the run loop may call several. A divergence rate is compared with
the threshold by cross-multiplication.

*Orchestrator.* `pc` is the place in the loop; a chore request and its
answer are one step, so is the decision review, so is each call looked up, run,
or recorded. `log` holds the kinds of the events given to Replay
(`DecisionOverride` stands for the `Degraded` event that carries an override,
`SideEffects` for the `WorkingSetRendered` event that carries changed files).
`pending` holds the slots of the calls the cache missed, `executed` the positions of
`pending` that have run. `ExecuteCall` runs the one that comes next by `RunsBefore`,
group after group and in call order within a group: that conflicting calls do not
overlap is `ToolExecutor`'s theorem, calls that do not conflict commute on the files,
and that the executor returns its records in this very order is
`RecordsComeAsOrchestratorRunsThem`.
`ExecutionThrows` is the exception path, which leaves each file the remaining calls
write as it was or with one of their contents. A call stands for its cache key. A write
fails when its file does not open, which changes nothing, or when the stream is bad
afterwards, which leaves the file cut or replaced (`Failures`, `FilesLeft`).
`ExternalWrite` and `InvalidateCacheDependency` happen between any two steps.

*ModelAccess.* One request goes through `Ask` (`route_for`, `has_tier`), `Attempt` and
`Sleep` (the loop of `RetryingProvider::complete`) and `ObserveOutcome`. The fake
provider's script is a counter; the HTTP provider answers, fails in either way or
throws. `ObserveOutcome` is `observe_outcome`; `Review` is what `run` does next with a
decision model's answer: an override is recorded once more as a divergence
(`orchestrator.cpp:312`) and a failure once more as a failure (337), so a review may
count twice. `CascadeCall` is any member of the cascade called between requests.
`request.before` keeps the cascade as the request found it, for the property.

*ProcessRunner.* `pc` is the caller's place: `check` (the deadline), `poll`, `grace` (the
waits after SIGTERM), `reap` (the blocking wait), and on Windows `read` (the read the
loop makes when it takes the pipe's handle for signalled) and `drain`. Whether and when
`WaitForMultipleObjects` finds the handle of a synchronous pipe signalled is not
documented, so `WinPipeSignalled` may happen at any poll; `ReadFile` then waits for
output or for the last writer to close. Output is
counted in chunks of one `read`; `writers` is who holds the write end, a process
the child started included. A child that was forked may be killed before `exec`.
`exec_argv` has the same loop with a timeout of its own and no status, which the
shell tool reports as success.

*McpSession.* A message is the id of the call it answers, a message of the server's
own, or a comment without data. `StartEventThread` and `MarkAlive` are the two
halves of `start_event_thread`, the second of which takes no lock. `receive` is the
test (`Receive`), the wait (`asleep`) and the wake-up by `NotifyOne` or `NotifyAll`,
which come after the mutex was released. A POST is two steps (`SendCall`, `PostReturns`;
`Notify`, `NotifyReturns`): it reaches the server or not, and it returns, throws
before or after the request arrived, or never returns, for the client has no read
timeout. Every message taken for an answer may make the call throw: it may hold an
error or not be JSON at all, like the data of an `endpoint` event. Whether the HTTP client runs one request at a time, and whether the server
ends lines with CR LF, are settings chosen in `Init`. The server answers the calls
of a session in order or not at all, and a session has one caller.

*Replay.* A call takes the mutex (`holder`), and each delivery is a step: the sink returns
(`Deliver`), throws, which ends the call with the sinks behind it not called
(`DeliverThrows`), or is re-entrant and blocks its thread for ever, which is what a
non-recursive mutex does. Deliveries, and what was delivered, are told apart by the
slot of `sinks_`, since one sink may be subscribed several times; slot 0 is the sink
`replay_into` is called with. `count`, `joined`, `received`, `thrown`, `wrapped` and
`calledBack` are history for the properties.
Explicit sequence numbers are any value; numbers wrap at `Modulus`.

*FactStore.* The file is a sequence of characters, so escaping, the split at the first
tab, `getline` and the removal of a final CR are modelled by what they do. `Escape` and
`Unescape` are recursive functions over the prefixes of the text; `ReadChar` is one
turn of the loop of `unescape`, whose look-ahead is kept as "the character before is
a backslash". `LineStarts` and `LineAt` are what `getline` makes of the file. An id
stands for its fact, as types hold none of the escaped characters (`FactAssumption`;
the repository's only type is `tool_result`) and a collision of the hash is left out. A store
whose `ifstream` does not open starts empty on a full file and appends all the same
(`unread`). `AppendFails` is a write that fails in the middle: the
stream is bad from then on. `CrashInAppend` is the process stopping there. A torn
line that lacks only its newline is read back whole once, and lost with the next
append. The comment at `fact_store.cpp:91` speaks of truncation; the file is only
opened to append.

*ContextManager.* `fact_order` and `digest` are the members of those names;
`HardKeys` (which keys a text holds) is a constant. Tokens are counted as the code
counts them for ASCII text. `token_count` is that of the last `WorkingSet`; its other
members follow from the arguments and are left out. `digest_dirty_` is set and never
read.

## 3. Runs

| Run | Instance | Shows |
| --- | --- | --- |
| `cache` | 2 keys, 2 values, 2 dependencies in 3 lists, versions up to 3 | an invalidated entry never comes back; refinement of `AbstractCache` |
| `executor` | up to 3 calls, 2 resources, with and without context and `parallel_safe_` | the guarantees of a schedule, which is the function `FirstFit`; the executor's guarantees under every interleaving and any tool throwing; termination |
| `access` | 3 records of a kind per tier, limits 1 and 2, thresholds 0, 1/2 and a refused 3/2, 0 or 3 attempts | what a request is charged with, and what moves chores between tiers |
| `orchestrator` | 2 turns, cost budget 1, one file, five call lists, one outside event | whole runs with any model answers and failing writes |
| `process` | three runners, 2 waits of grace, 2 chunks | a run under every order of output, exit, closing, spawning, signals, deadline and failing polls |
| `mcp` | 4 calls (two of them the handshake), 2 messages of the server's own | a session from construction to destruction |
| `replay` | 2 threads, a plain and a re-entrant sink in 2 subscriptions, 3 events, numbers modulo 4 | order and completeness of delivery with sinks that throw or are subscribed twice, numbering, return of calls |
| `facts` | 3 facts over the escaped characters, file of 18 characters, 2 faults; 3 tool results, budget of 20 tokens | reload after faults; digest |
| `executor_fork_lifetime` | as `executor` | the comment at `tool_executor.cpp:109` fails when a tool throws |
| `emission_order` | as `orchestrator` | the comment at `orchestrator.cpp:365` fails when calls conflict |
| `working_set_budget` | as `facts` | the title of `test_context_manager.cpp:8` fails once the digest is large |
| `stale_hit` | 3 turns, two contents, nothing beside the loop | the comment at `orchestrator.cpp:346` fails: file changes never invalidate entries |

The bounds and why they suffice. `MaxVersion` 3: an entry is stored at a
version, goes stale at the next, and a further invalidation could only help it
at a third. `MaxCalls` 3 in the executor: two calls of one group beside a later
group, or three of one group with one that throws; over 2 resources three calls make a
chain of conflicts that does not close ({a}, {a,b}, {b}), the case in which first fit
reorders. `MaxRecords` 3 passes limit and threshold in both orders and leaves room for
a review's two records, and three attempts have a wait that doubles and one that is capped. `MaxTurns` 2 and the cache: results of one turn meet the next; a third
turn is in `stale_hit`. `MaxCost` 1 with answers that cost 0 or 1: a budget hit
on the last turn and before it. `MaxExternal` 1: one event at any moment.
`GraceTicks` 2 in place of 20: the loop is left by its
bound, at its first and at a later turn. `MaxWrites` 2: one chunk read and one left
when something ends. `MaxCalls` 4 and `MaxStrays` 2 in a session: two tool calls after
the handshake, each of which may be behind by two. `Modulus` 4: explicit numbers
above, below and at the last one, and a counter that wraps. `MaxLength` 18 holds two
whole lines and a torn one; two faults, so that a line can be torn after a
reload. `Budget` 20: one tool result fits, one fits alone but not with its heading, one
is cut, and four keys of the digest take 16 tokens. `MaxSinks` 2: one subscription
before and one behind the sink that throws, of one sink or of two.
Symmetry is used in `cache`, which checks no liveness, over keys and values, which the
module compares only for equality.

Deadlock is checked everywhere. `ToolExecutor`, `Orchestrator`, `ProcessRunner` and `McpSession` stutter
explicitly when over, `McpSession` also where the caller missed the end of the
stream, `Replay` once a sink called back.

Fairness. `ToolExecutor!FairSpec`: the calling thread is scheduled and a tool
that was started ends (the code waits for it without a timeout, so nothing
weaker gives termination). `Orchestrator!FairSpec`: the run's thread is
scheduled, providers answer or fail and tools return. Nothing is assumed of
outside events. `ProcessRunner!FairSpec`: the caller is scheduled (its polls need not
fail), time passes, and a signal that kills is delivered; nothing is asked of the
child. `McpSession!FairSpec`: the caller and the event thread are scheduled; nothing
is asked of the server, which may keep silent with the stream open, nor of a POST under
way, which need not return (`PostEnds`). `Replay!FairSpec`: a thread inside a call runs,
so a sink returns, throws or calls back; nobody has to call.

The liveness properties name the waits that have no end in the code rather than
assume them away: `WaitsUnlimited` (the blocking `waitpid` for a child that closed its
output or whose pipe could not be polled; on Windows the drain, and the read in the loop
for output of a silent child), `posting` and `notifying` (a POST, `mcp_host.cpp:336`),
`overwritten` (the
constructor marks the stream alive after the event thread marked its end,
`mcp_host.cpp:295`) and `calledBack` (a sink that calls its log). Outside these
waits the properties say that every run, session and call comes to an end.

## 4. Proofs

TLAPS proves the following for every value of the constants.

- `ToolCacheProofs`. `CacheTypeCorrect`; `VersionsAlwaysReached`: an entry's version
  of a dependency lies between 1 and the current one, which is inductive with the
  types. `StaleIsFinal` follows: versions only grow while an entry stays, and a
  version once passed is never reached again; only `clear` lowers versions, and
  it removes every entry. `CacheImplementsPromise`: each action maps to the
  abstract action of the same name under `LiveStore`; for `put` this needs
  `VersionsReached`, since a new dependency gets version 1 and must not revive an
  entry that lists it.
- `ToolExecutorProofs`, the graph. `ScheduleConflictFree`, `ScheduleIsGreedy` and
  `ScheduleKeepsOrder` from one inductive invariant: every placed call has a group,
  no two of one group conflict, and each group a call passed over holds an earlier
  call it conflicts with. The order follows: were i < j in conflict and j's group
  not later, j's group would be one i was kept out of, by some h that conflicts
  with i and hence with j (transitivity), and j could not be with h.
  `LoopComputesFirstFit`: the invariant adds that the groups in use are at most as
  many as the calls placed, so that `FirstFitting` chooses what the loop found; the
  groups of the first n calls are then the function's, for every n.
  `ComponentsStayTogether`: a call in group g was kept out of each group before g by
  a call it conflicts with, hence one of its own component. `Linked` asks for a
  chain of at most as many steps as there are calls, so the proof takes the
  shortest chain, which repeats no call.
- `ToolExecutorProofs`, the executor. `NeverConflictingOverlap`, `GroupsAreBarriers`,
  `ConflictingCallsKeepOrder`, `ExecuteReturnsEveryCall`, `WorkersEndFirst` and
  `ForksHeld` from the invariant `ExecInv`, which adds to the graph's invariant
  that groups before the active one are collected, groups after it idle, and the
  records collected are a prefix of the active group in call order.
  `ExecutorUsesGraph`: each step of the executor is a step of the graph or leaves it
  alone, so what is proved of the graph holds of every `execute`. From both,
  `RecordsComeAsOrchestratorRunsThem`: the abstraction `Orchestrator` makes of the
  executor, without groups, threads or futures, gives the order the threads give.
- `ModelCascadeProofs`. `PinsHaveEvidence`, `OnlyClearUnpins` and
  `OnlySmallAnswersLowerChores` from the types and `PinHasEvidence`: a failure
  never lowers a tally, an outcome touches one tier's row only, and the
  divergence test reads nothing but the small tier's row and the threshold.
  `AccessUsesCascade` maps each step of `ModelAccess` to a step of the cascade or a
  stutter, so the three hold of the requests too. `RequestsAreChargedByRole`: until an
  outcome is observed the cascade is the one the request found, and the tier charged is
  the one that was asked, since a chore's route reads nothing else; between the two
  records of a review it has the first (`ChargeInv`).
- `ReplayProofs`. `NumbersAlwaysGrow`: the next number is above the last one only,
  so the invariant adds that the last one is the highest of the log.
  `DeliveryInLogOrder`: between two calls every subscription has been handed all that
  is due to it; during `record` the first k have and the rest are one event behind,
  during `replay_into` its own sink has a prefix. A sink that throws makes the event not
  due to those behind it, which are thereby up to date. That only the holder of the
  mutex delivers makes each of these survive the steps of other threads.
- `ProcessRunnerProofs`. `RunsLeaveNothing`, `SignalsOnlyBeforeReaping` and
  `OutputAlwaysComplete`, for any number of writers and any deadline: a child is
  reaped at one point of each path, nothing is signalled past it, and what was
  written is what was read plus what is in the pipe, which is empty and without
  writers where reading stops.
- `McpSessionProofs`. `AnswersOutliveStream`: the answer the caller waits for stays
  in the queue until taken, and it gives up only when it found the stream closed
  after the last push. `CallerIsBehindByStrays`: `Tracks(t)` says which call's answer
  was taken last and that the answers on the way, in the queue, on the wire and at
  the server, are those of the calls due since, in order; the number of calls due
  is the number of foreign messages taken. Once nothing can come any more
  (`NothingComes`) the count stops.
- `OrchestratorProofs`. `VerdictIsUnique` (no outcome, and hence no verdict, before
  the end), `OverrideStopsTools` (an override empties the plan, so while there is a
  plan the chore model was asked since the last override), `BudgetsHold` (the loop
  goes on only past a priced answer found within the budget) and `EscalationLasts`
  (answers of the large tier and failures leave the small tier's divergence as it is).
  `OneRecordPerCall`: `pending` lists the missed slots once each (`TurnInv`) and
  `executed` is injective, so when nothing is left to run it is a permutation by the
  pigeonhole principle, and the records, put into the slots in the order of `pending`
  but run in that of the groups, are the calls rearranged (`RecordsInv`).
  `CacheKeepsOwnResults`: a record names the call it is of, and is filed under that
  call and not under the slot it lies in, the very thing the rearrangement puts at
  risk (`ResultsInv`). `RunTypeCorrect` and `RunKeepsVersionsReached` from the same
  invariant.
- `ContextManagerProofs`, the store. `UnescapeEscape`: after each escaped character
  `unescape` has understood the text up to it and waits for nothing; escaped text holds
  no newline, carriage return or tab, so a line splits where it was joined.
  `ReloadFindsWhatWasWritten`: every fact not spoiled by a torn line before it has a
  whole line at a place where a line starts (`WholeLines`), which no append can change;
  and there is a set of places, one for each fault at most, outside which every line is
  one that was written whole (`TornAtMost`). Facts nobody appended can come from those
  places only, so there are no more of them than faults. `LineWritten`, `TornLineCounts`
  and `LineCountsForItself` say what each kind of write does to the two.
- `ContextManagerProofs`, the digest. `DigestCanBeRebuilt`: facts are never lost, so a
  fact present when its id was recorded merges the same keys at any later rebuild.

Inductions over data (the calls of a turn, the characters of a text, the ids of a
digest) are done over a set: the numbers for which the claim holds contain 0 and are
closed under successors up to the length, else a least counterexample would exist
(`NatSetInduction`, `PrefixInduction`, from the well-foundedness of < on the naturals).
That a recursive function of the model satisfies its equation is proved the same way
(`FirstFitUnfolds`, `EscapeUnfolds`, `UnescapeUnfolds`, `DigestUnfolds`).

Assumptions: `CascadeAssumption` (limits are naturals, thresholds fractions with
a non-zero denominator), `CacheAssumption` (the miss marker is not a value), `GraphAssumption`
(claims are sets of resources), `FactAssumption` (facts are texts of any characters, their
types without escaped ones), `ContextAssumption`, `AccessAssumption`,
`ReplayAssumption`, `RunnerAssumption`, `SessionAssumption` and `OrchestratorAssumption`
(types of the constants, and that the lists of dependencies include those the built-in
tools declare; the bounds they name are arbitrary naturals). Nothing bounds the number of
calls, keys, versions, facts or the length of a text.

Every invariant and every action property of a passing run is a theorem. Only
model-checked is liveness (`ExecuteEnds`, `RunEnds`, `DeadlineEndsRun`,
`EndOfStreamFreesCaller`, `CallReturns`), which needs ENABLED and is beyond the prover.

## 5. What the violated comments mean

Three comments of the source and the title of a test promise more than the code does;
each has a run that shows it and an entry under `findings`. For the comments the
neighbouring guarantee does hold and is checked: no worker outlives `execute`; every
call has exactly one record and is cached under its own key; an invalidated dependency
is never answered from. The test, "working set keeps token budget bounded", passes on one
cut block and an empty digest; nothing bounds the digest, which is rendered in full even
in the rendering that is fallen back to.

Two more texts disagree with the code, without a run of their own. The comment at
`platform/windows_platform.cpp:20-26` says overlapped I/O lets the timeout be observed
when the child is silent, while the pipe is a synchronous one and `ReadFile` (line 97)
is called without OVERLAPPED: `DeadlineEndsRun` excepts that read. And the review prompt
says an empty plan "is treated as an override to halt tool use"
(`core/orchestrator.cpp:290-291`), while an empty answer confirms the plan and the
tools run (lines 297-303, as the comment there says). `DecisionConfirms` follows the code.

## 6. Not modelled, and the plan

Next, in this order:

1. The observer with modification time and size in its state.
2. The claims of all built-in tools over a file identity, with the theorem that
   exclusive claims make conflict transitive, the premise of `ConflictsKeepOrder`.
3. A specification of what a client of the session is promised, with the theorem that
   `McpSession` implements it as long as the server sends nothing of its own.

Left out: key extraction and soft fingerprints in `core/digest.cpp` (string
processing without state), the file helpers of the platforms, telemetry counters,
argument parsing and the web page in `ui/`, the Python bindings, HTTP itself, the
parsing of URLs and of the chunks of an event stream, `pump_once` and
`register_handler` of the JSON-RPC client (nothing outside the tests calls them), several
callers on one MCP session, `has_hash` and `clear` of the observer. Within modelled
parts: hit and miss counters, the contents of messages, token counts, exceptions
from malformed model answers, exceptions of sinks out of a run (the log is left as
`Replay` says), a failed flush when `write_file`'s stream is destroyed (nobody looks at
it), the (mtime, size) shortcut of the observer, and two
concurrent calls of `run` on one orchestrator (the class does not lock its own
state against that).
