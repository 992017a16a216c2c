--------------------------- MODULE ProcessRunner ---------------------------
(***************************************************************************)
(* One program run under a deadline.  Three pieces of code do it:          *)
(*   "captured"   run_captured of src/platform/posix_platform.cpp, which   *)
(*                PosixPlatform::run calls,                                *)
(*   "exec_argv"  BasicContext::exec_argv of src/tools/builtin.cpp, which  *)
(*                the shell tool calls,                                    *)
(*   "windows"    WindowsPlatform::run of src/platform/windows_platform.cpp*)
(*                                                                         *)
(* The first two are the same loop of poll and read, followed by waitpid.  *)
(* The child, a process it starts, the clock and poll's errors are free to *)
(* do what they do at any moment.  Output is counted in chunks, one read   *)
(* each.                                                                   *)
(***************************************************************************)
EXTENDS Integers

CONSTANTS Runner,      \* the pieces of code looked at
          GraceTicks,  \* waits of 50 ms between SIGTERM and SIGKILL, 20 in the code
          MaxWrites    \* bound on the chunks written

ASSUME RunnerAssumption ==
  /\ Runner \subseteq {"captured", "exec_argv", "windows"}
  /\ GraceTicks \in Nat /\ MaxWrites \in Nat

VARIABLES runner,   \* which code runs
          limited,  \* the timeout is positive
          pc,       \* where the caller is
          expired,  \* now >= deadline
          timedOut, \* timed_out
          broken,   \* poll failed for good
          grace,    \* waits since SIGTERM
          out,      \* chunks read
          result,   \* the status returned, and whether the shell tool says ok
          fds,      \* the caller's open ends of the pipe
          child,    \* none, forked, running, exited (a zombie) or reaped
          ended,    \* the child's exit code, or Signalled
          stubborn, \* the child ignores SIGTERM
          pending,  \* the signals sent to it
          writers,  \* who holds the write end
          pipe, written \* chunks in the pipe, chunks ever written

callerVars == <<runner, limited, pc, timedOut, broken, grace, out, result, fds>>
childVars == <<ended, stubborn, writers, pipe, written>>
vars == <<callerVars, childVars, child, pending, expired>>

Posix == runner # "windows"
Windows == runner = "windows"
Signalled == -9
NotEnded == -8
NoResult == [status |-> 0, ok |-> FALSE]

Init ==
  /\ runner \in Runner
  /\ limited \in (IF runner = "exec_argv" THEN {TRUE} ELSE BOOLEAN)
  /\ pc = "start" /\ expired = FALSE /\ timedOut = FALSE /\ broken = FALSE
  /\ grace = 0 /\ out = 0 /\ result = NoResult /\ fds = {}
  /\ child = "none" /\ ended = NotEnded /\ stubborn \in BOOLEAN /\ pending = {}
  /\ writers = {} /\ pipe = 0 /\ written = 0

Goto(l) == pc' = l

-----------------------------------------------------------------------------
(* The caller.                                                             *)

(* pipe, fork or CreateProcess fails: what was opened is closed.           *)
StartFails ==
  /\ pc = "start"
  /\ Goto("returned")
  /\ result' = [status |-> -1, ok |-> runner = "exec_argv"]
  /\ UNCHANGED <<runner, limited, timedOut, broken, grace, out, fds, childVars, child,
                 pending, expired>>

(* The shell tool refuses arguments it cannot run.                         *)
RefuseArguments ==
  /\ runner = "exec_argv" /\ pc = "start"
  /\ Goto("returned")
  /\ result' = [status |-> -1, ok |-> FALSE]
  /\ UNCHANGED <<runner, limited, timedOut, broken, grace, out, fds, childVars, child,
                 pending, expired>>

(* The deadline.  PosixPlatform::run takes a timeout that is not positive  *)
(* for a year; on Windows the deadline has then passed already.            *)
DeadlineAtOnce == Windows /\ ~ limited

Start ==
  /\ pc = "start"
  /\ Goto("check")
  /\ child' = IF Windows THEN "running" ELSE "forked"
  /\ writers' = {"child"}
  /\ fds' = {"read"}
  /\ expired' = DeadlineAtOnce
  /\ UNCHANGED <<runner, limited, timedOut, broken, grace, out, result, ended, stubborn,
                 pending, pipe, written>>

CheckDeadline ==
  /\ pc = "check" /\ ~ expired
  /\ Goto("poll")
  /\ UNCHANGED <<runner, limited, timedOut, broken, grace, out, result, fds, childVars,
                 child, pending, expired>>

(* SIGTERM first.                                                          *)
TimeOut ==
  /\ Posix /\ pc = "check" /\ expired
  /\ timedOut' = TRUE
  /\ pending' = {"TERM"}
  /\ Goto("grace")
  /\ UNCHANGED <<runner, limited, broken, grace, out, result, fds, childVars, child, expired>>

TakeChunk == pipe > 0 /\ pipe' = pipe - 1 /\ out' = out + 1
PollFrame == UNCHANGED <<runner, limited, timedOut, grace, result, fds, child, ended,
                         stubborn, writers, written, pending, expired>>

ReadChunk ==
  /\ Posix /\ pc = "poll"
  /\ TakeChunk
  /\ Goto("check")
  /\ PollFrame /\ UNCHANGED broken

(* Mutant of EndOfOutput: POLLHUP ends the loop before the pipe is empty.  *)
EndAtHangUp ==
  /\ Posix /\ pc = "poll" /\ writers = {}
  /\ Goto("reap")
  /\ PollFrame /\ UNCHANGED <<broken, out, pipe>>

EndOfOutput ==
  /\ Posix /\ pc = "poll" /\ pipe = 0 /\ writers = {}
  /\ Goto("reap")
  /\ PollFrame /\ UNCHANGED <<broken, out, pipe>>

(* Mutant of PollReturns: a blocking read, which wakes up only at the end  *)
(* of the output.                                                          *)
ReadBlocks ==
  /\ pc = "poll" /\ pipe = 0 /\ writers = {}
  /\ Goto("check")
  /\ PollFrame /\ UNCHANGED <<broken, out, pipe>>

(* Nothing to read: the wait timed out or was interrupted.  On Windows it  *)
(* waits on handles and may time out over a pipe that holds output.        *)
PollReturns ==
  /\ pc = "poll"
  /\ IF Posix THEN pipe = 0 /\ writers # {} ELSE child # "exited"
  /\ Goto("check")
  /\ PollFrame /\ UNCHANGED <<broken, out, pipe>>

PollFails ==
  /\ pc = "poll"
  /\ broken' = TRUE
  /\ Goto("reap")
  /\ PollFrame /\ UNCHANGED <<out, pipe>>

-----------------------------------------------------------------------------
StatusOf(e) == IF e = Signalled THEN -1 ELSE e

(* run_captured returns -1 for a run it timed out; exec_argv returns only  *)
(* the output, and the shell tool calls that a success whatever happened.  *)
ShellSucceeds == runner = "exec_argv"
Return(how) ==
  /\ Goto("returned")
  /\ result' = [status |-> IF timedOut THEN -1 ELSE StatusOf(how), ok |-> ShellSucceeds]
  /\ fds' = {}

(* Mutant of GraceTick: the child is reaped but its pid kept.              *)
GraceTickKeepsPid ==
  /\ pc = "grace" /\ grace < GraceTicks
  /\ child' = IF child = "exited" THEN "reaped" ELSE child
  /\ grace' = IF child = "exited" THEN GraceTicks ELSE grace + 1
  /\ UNCHANGED <<runner, limited, pc, timedOut, broken, out, result, fds, childVars,
                 pending, expired>>

(* waitpid(WNOHANG), then a wait of 50 ms.                                 *)
GraceTick ==
  /\ pc = "grace" /\ grace < GraceTicks
  /\ IF child = "exited" THEN child' = "reaped" /\ Return(ended) /\ UNCHANGED grace
     ELSE grace' = grace + 1 /\ UNCHANGED <<child, pc, result, fds>>
  /\ UNCHANGED <<runner, limited, timedOut, broken, out, childVars, pending, expired>>

GraceEnds ==
  /\ pc = "grace" /\ grace = GraceTicks
  /\ pending' = pending \cup {"KILL"}
  /\ Goto("reap")
  /\ UNCHANGED <<runner, limited, timedOut, broken, grace, out, result, fds, childVars,
                 child, expired>>

(* Mutant of Reap: waitpid with WNOHANG.                                   *)
ReapAtOnce ==
  /\ pc = "reap"
  /\ child' = IF child = "exited" THEN "reaped" ELSE child
  /\ Return(ended)
  /\ UNCHANGED <<runner, limited, timedOut, broken, grace, out, childVars, pending, expired>>

(* The blocking wait, which knows no deadline.                             *)
Reap ==
  /\ pc = "reap" /\ child = "exited"
  /\ child' = "reaped"
  /\ Return(ended)
  /\ UNCHANGED <<runner, limited, timedOut, broken, grace, out, childVars, pending, expired>>

-----------------------------------------------------------------------------
(* The Windows loop waits for the handles of the process and of the pipe   *)
(* together; of two signalled handles the wait reports the process.  When  *)
(* that has ended the loop reads the pipe to its end, without a deadline.  *)
WinProcessEnded ==
  /\ Windows /\ pc = "poll" /\ child = "exited"
  /\ Goto("drain")
  /\ PollFrame /\ UNCHANGED <<broken, out, pipe>>

WinDrain ==
  /\ Windows /\ pc = "drain"
  /\ \/ TakeChunk /\ UNCHANGED pc
     \/ pipe = 0 /\ writers = {} /\ Goto("reap") /\ UNCHANGED <<out, pipe>>
  /\ PollFrame /\ UNCHANGED broken

(* The wait may report the pipe at any time: the handle of an anonymous    *)
(* pipe, opened without overlapped I/O, does not tell whether there is     *)
(* output.                                                                 *)
WinPipeSignalled ==
  /\ Windows /\ pc = "poll" /\ child # "exited"
  /\ Goto("read")
  /\ PollFrame /\ UNCHANGED <<broken, out, pipe>>

(* ReadFile blocks until there is output or its end, which does not end the*)
(* loop.                                                                   *)
WinRead ==
  /\ Windows /\ pc = "read"
  /\ TakeChunk \/ (pipe = 0 /\ writers = {} /\ UNCHANGED <<out, pipe>>)
  /\ Goto("check")
  /\ PollFrame /\ UNCHANGED broken

WinTerminate ==
  /\ Windows /\ pc = "check" /\ expired
  /\ timedOut' = TRUE
  /\ pending' = {"KILL"}
  /\ Goto("reap")
  /\ UNCHANGED <<runner, limited, broken, grace, out, result, fds, childVars, child, expired>>

Common == StartFails \/ Start \/ CheckDeadline \/ PollReturns \/ PollFails \/ Reap
RunCaptured ==
  Common \/ TimeOut \/ ReadChunk \/ EndOfOutput \/ GraceTick \/ GraceEnds
RunWindows == Common \/ WinProcessEnded \/ WinDrain \/ WinPipeSignalled \/ WinRead \/ WinTerminate

(* exec_argv repeats run_captured's loop, with a deadline of its own.      *)
ExecArgv == RefuseArguments \/ RunCaptured

Caller ==
  \/ runner = "captured" /\ RunCaptured
  \/ runner = "exec_argv" /\ ExecArgv
  \/ runner = "windows" /\ RunWindows

-----------------------------------------------------------------------------
(* The processes and the clock.                                            *)
ChildFrame == UNCHANGED <<callerVars, stubborn, pending, expired>>

ChildEnds(how) ==
  /\ child' = "exited" /\ ended' = how
  /\ writers' = writers \ {"child"}

(* execvp succeeds, or the child exits with 127.                           *)
Exec ==
  /\ child = "forked"
  /\ \/ child' = "running" /\ UNCHANGED <<ended, writers>>
     \/ ChildEnds(127)
  /\ UNCHANGED <<pipe, written>> /\ ChildFrame

ProcessWrites(p) ==
  /\ p \in writers /\ child # "forked" /\ written < MaxWrites
  /\ pipe' = pipe + 1 /\ written' = written + 1
  /\ UNCHANGED <<child, ended, writers>> /\ ChildFrame

ProcessCloses(p) ==
  /\ p \in writers /\ child # "forked"
  /\ writers' = writers \ {p}
  /\ UNCHANGED <<child, ended, pipe, written>> /\ ChildFrame

(* The child starts a process, which inherits its output.                  *)
ChildSpawns ==
  /\ child = "running" /\ "child" \in writers
  /\ writers' = writers \cup {"grandchild"}
  /\ UNCHANGED <<child, ended, pipe, written>> /\ ChildFrame

ChildExits(c) ==
  /\ child = "running"
  /\ ChildEnds(c)
  /\ UNCHANGED <<pipe, written>> /\ ChildFrame

SignalKills ==
  /\ child \in {"forked", "running"}
  /\ "KILL" \in pending \/ ("TERM" \in pending /\ ~ stubborn)
  /\ ChildEnds(Signalled)
  /\ UNCHANGED <<pipe, written>> /\ ChildFrame

DeadlinePasses ==
  /\ pc \notin {"start", "returned"} /\ limited /\ ~ expired
  /\ expired' = TRUE
  /\ UNCHANGED <<callerVars, childVars, child, pending>>

Processes ==
  \/ Exec \/ ChildSpawns
  \/ \E p \in {"child", "grandchild"} : ProcessWrites(p) \/ ProcessCloses(p)
  \/ \E c \in 0..1 : ChildExits(c)

Next == Caller \/ Processes \/ SignalKills \/ DeadlinePasses
          \/ (pc = "returned" /\ UNCHANGED vars)

Spec == Init /\ [][Next]_vars

(* The caller is scheduled, time passes and a deadly signal kills.  Nothing*)
(* is asked of the processes, and poll need not fail.                      *)
FairSpec ==
  Spec /\ WF_vars(Caller /\ broken' = broken) /\ WF_vars(DeadlinePasses) /\ WF_vars(SignalKills)

-----------------------------------------------------------------------------
(* A run that returned leaves no zombie, no running child and no open end  *)
(* of the pipe, and a status that is not -1 is the child's own.            *)
NothingLeftBehind ==
  pc = "returned" =>
    /\ child \in {"none", "reaped"} /\ fds = {}
    /\ result.status # -1 => ~ timedOut /\ result.status = ended

(* A signal is never sent to a pid that was reaped: the number may name    *)
(* another process by then.                                                *)
NoSignalAfterReaping ==
  [][pending' # pending => child # "reaped"]_vars

(* A run that was neither timed out nor cut off by an error of poll returns*)
(* everything that was written, whoever wrote it and in whatever order     *)
(* exits and closing ends arrived.                                         *)
OutputComplete ==
  pc = "returned" /\ child # "none" /\ ~ timedOut /\ ~ broken
    => out = written /\ pipe = 0

(* The waits without a deadline: for a child that gave its output away or  *)
(* whose output can no longer be polled, and on Windows for a process that *)
(* the child left behind with its output, and in the loop itself for output*)
(* of a silent child, since ReadFile knows no deadline either.             *)
WaitsUnlimited ==
  \/ pc = "reap" /\ child \in {"forked", "running"} /\ ~ timedOut
       /\ ("child" \notin writers \/ broken)
  \/ pc = "drain" /\ "grandchild" \in writers
  \/ pc = "read" /\ pipe = 0 /\ writers # {}

(* "Honours the supplied timeout" (posix_platform.cpp:26-28), SIGTERM-proof*)
(* children included, and silent ones on POSIX: once the deadline passed,  *)
(* the run returns, or it is in one of the waits above.  The last of them  *)
(* is the one windows_platform.cpp:20-26 says is gone.                     *)
DeadlineEndsRun == expired ~> (pc = "returned" \/ WaitsUnlimited)
=============================================================================
