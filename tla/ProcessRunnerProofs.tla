------------------------ MODULE ProcessRunnerProofs ------------------------
(* What holds of a run for any grace period and any amount of output.      *)
EXTENDS ProcessRunner, TLAPS

(* Only a run that returned has reaped its child, and before it started one*)
(* there is none.                                                          *)
ChildInv ==
  /\ pc = "start" => child = "none" /\ fds = {}
  /\ child = "none" => pc \in {"start", "returned"} /\ writers = {}
  /\ child = "reaped" => pc = "returned"
  /\ NothingLeftBehind

(* Every chunk written is read or in the pipe, and the loop is left for the*)
(* wait only at the end of the output, by the deadline or by an error.     *)
OutputInv ==
  /\ pipe \in Nat /\ out \in Nat /\ written \in Nat /\ written = out + pipe
  /\ pc = "grace" => timedOut
  /\ pc \in {"reap", "returned"} /\ child # "none" /\ ~ timedOut /\ ~ broken
       => pipe = 0 /\ writers = {}

LEMMA ChildInvInit == Init => ChildInv
  BY DEF Init, ChildInv, NothingLeftBehind

LEMMA OutputInvInit == Init => OutputInv
  BY DEF Init, OutputInv

-----------------------------------------------------------------------------
LEMMA ChildInvStep == ChildInv /\ [Next]_vars => ChildInv'
<1> SUFFICES ASSUME ChildInv, [Next]_vars PROVE ChildInv'
  OBVIOUS
<1> USE DEF ChildInv, NothingLeftBehind
<1>1. CASE StartFails
  BY <1>1 DEF StartFails, Goto, childVars
<1>2. CASE RefuseArguments
  BY <1>2 DEF RefuseArguments, Goto, childVars
<1>3. CASE Start
  BY <1>3 DEF Start, Goto, Windows
<1>4. CASE CheckDeadline \/ TimeOut \/ GraceEnds \/ WinTerminate
  BY <1>4 DEF CheckDeadline, TimeOut, GraceEnds, WinTerminate, Goto, childVars
<1>5. CASE ReadChunk \/ EndOfOutput \/ PollReturns \/ PollFails
  BY <1>5 DEF ReadChunk, EndOfOutput, PollReturns, PollFails, PollFrame, Goto
<1>6. CASE WinProcessEnded \/ WinDrain \/ WinPipeSignalled \/ WinRead
  BY <1>6 DEF WinProcessEnded, WinDrain, WinPipeSignalled, WinRead, PollFrame, Goto
<1>7. CASE GraceTick
  <2>1. CASE child = "exited"
    BY <1>7, <2>1 DEF GraceTick, Return, StatusOf, Goto, childVars
  <2>2. CASE child # "exited"
    BY <1>7, <2>2 DEF GraceTick, childVars
  <2> QED  BY <2>1, <2>2
<1>8. CASE Reap
  BY <1>8 DEF Reap, Return, StatusOf, Goto, childVars
<1>9. CASE Processes
  BY <1>9 DEF Processes, Exec, ChildSpawns, ProcessWrites, ProcessCloses, ChildExits,
              ChildEnds, ChildFrame, callerVars
<1>10. CASE SignalKills
  BY <1>10 DEF SignalKills, ChildEnds, ChildFrame, callerVars
<1>11. CASE DeadlinePasses \/ UNCHANGED vars
  BY <1>11 DEF DeadlinePasses, vars, callerVars, childVars
<1> QED  BY <1>1, <1>2, <1>3, <1>4, <1>5, <1>6, <1>7, <1>8, <1>9, <1>10, <1>11
         DEF Next, Caller, RunCaptured, ExecArgv, RunWindows, Common

LEMMA OutputInvStep == ChildInv /\ OutputInv /\ [Next]_vars => OutputInv'
<1> SUFFICES ASSUME ChildInv, OutputInv, [Next]_vars PROVE OutputInv'
  OBVIOUS
<1> USE DEF OutputInv
<1>1. CASE StartFails
  BY <1>1 DEF StartFails, Goto, childVars, ChildInv
<1>2. CASE RefuseArguments
  BY <1>2 DEF RefuseArguments, Goto, childVars, ChildInv
<1>3. CASE Start
  BY <1>3 DEF Start, Goto, Windows
<1>4. CASE CheckDeadline \/ TimeOut \/ GraceEnds \/ WinTerminate
  BY <1>4 DEF CheckDeadline, TimeOut, GraceEnds, WinTerminate, Goto, childVars
<1>5. CASE ReadChunk \/ EndOfOutput \/ PollReturns \/ PollFails
  BY <1>5 DEF ReadChunk, EndOfOutput, PollReturns, PollFails, PollFrame, TakeChunk, Goto
<1>6. CASE WinProcessEnded \/ WinDrain \/ WinPipeSignalled \/ WinRead
  BY <1>6 DEF WinProcessEnded, WinDrain, WinPipeSignalled, WinRead, PollFrame, TakeChunk, Goto
<1>7. CASE GraceTick
  <2>1. CASE child = "exited"
    BY <1>7, <2>1 DEF GraceTick, Return, Goto, childVars
  <2>2. CASE child # "exited"
    BY <1>7, <2>2 DEF GraceTick, childVars
  <2> QED  BY <2>1, <2>2
<1>8. CASE Reap
  BY <1>8 DEF Reap, Return, Goto, childVars
<1>9. CASE Processes
  BY <1>9 DEF Processes, Exec, ChildSpawns, ProcessWrites, ProcessCloses, ChildExits,
              ChildEnds, ChildFrame, callerVars
<1>10. CASE SignalKills
  BY <1>10 DEF SignalKills, ChildEnds, ChildFrame, callerVars
<1>11. CASE DeadlinePasses \/ UNCHANGED vars
  BY <1>11 DEF DeadlinePasses, vars, callerVars, childVars
<1> QED  BY <1>1, <1>2, <1>3, <1>4, <1>5, <1>6, <1>7, <1>8, <1>9, <1>10, <1>11
         DEF Next, Caller, RunCaptured, ExecArgv, RunWindows, Common

-----------------------------------------------------------------------------
(* A run that returned has reaped its child and closed the pipe, and the   *)
(* status it gives is the child's own (posix_platform.cpp:141-156).        *)
THEOREM RunsLeaveNothing == Spec => []NothingLeftBehind
<1>1. ChildInv => NothingLeftBehind
  BY DEF ChildInv
<1> QED  BY ChildInvInit, ChildInvStep, <1>1, PTL DEF Spec

(* No signal is sent to a pid that was given back, although the grace loop *)
(* reaps between the two signals (posix_platform.cpp:125-139).             *)
THEOREM SignalsOnlyBeforeReaping == Spec => NoSignalAfterReaping
<1>1. ChildInv /\ [Next]_vars => [pending' # pending => child # "reaped"]_vars
  <2> SUFFICES ASSUME ChildInv, Next, pending' # pending
               PROVE  child # "reaped"
    BY DEF vars
  <2>1. CASE TimeOut \/ GraceEnds \/ WinTerminate
    BY <2>1 DEF ChildInv, TimeOut, GraceEnds, WinTerminate
  <2>2. CASE StartFails \/ RefuseArguments \/ Start \/ CheckDeadline
    BY <2>2 DEF StartFails, RefuseArguments, Start, CheckDeadline
  <2>3. CASE \/ ReadChunk \/ EndOfOutput \/ PollReturns \/ PollFails
             \/ WinProcessEnded \/ WinDrain \/ WinPipeSignalled \/ WinRead
    BY <2>3 DEF ReadChunk, EndOfOutput, PollReturns, PollFails, WinProcessEnded, WinDrain,
                WinPipeSignalled, WinRead, PollFrame
  <2>4. CASE GraceTick \/ Reap
    BY <2>4 DEF GraceTick, Reap
  <2>5. CASE Processes \/ SignalKills \/ DeadlinePasses \/ UNCHANGED vars
    BY <2>5 DEF Processes, Exec, ChildSpawns, ProcessWrites, ProcessCloses, ChildExits,
                SignalKills, DeadlinePasses, ChildFrame, vars
  <2> QED  BY <2>1, <2>2, <2>3, <2>4, <2>5
           DEF Next, Caller, RunCaptured, ExecArgv, RunWindows, Common
<1> QED  BY ChildInvInit, ChildInvStep, <1>1, PTL DEF Spec, NoSignalAfterReaping

(* Unless it was timed out or poll failed, a run returns all that was      *)
(* written, in whatever order exits and closing ends come                  *)
(* (posix_platform.cpp:107-115, windows_platform.cpp:83-103).              *)
THEOREM OutputAlwaysComplete == Spec => []OutputComplete
<1>1. OutputInv => OutputComplete
  BY DEF OutputInv, OutputComplete
<1> QED  BY ChildInvInit, ChildInvStep, OutputInvInit, OutputInvStep, <1>1, PTL DEF Spec
=============================================================================
