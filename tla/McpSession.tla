----------------------------- MODULE McpSession -----------------------------
(***************************************************************************)
(* One MCP session over HTTP and server-sent events: JsonRpcClient of      *)
(* src/mcp/json_rpc.cpp, SseTransport and McpHost of src/mcp/mcp_host.cpp. *)
(* The caller constructs the transport, attaches (initialize, a            *)
(* notification, tools/list), invokes tools and destroys the transport; its*)
(* requests are POSTs.  The event thread reads the stream of one GET and   *)
(* queues what arrives.  The server answers the calls in order, or not at  *)
(* all, sends messages of its own and comments without data, and the stream*)
(* may end at any moment.                                                  *)
(*                                                                         *)
(* A message is the id of the call it answers, Stray or Comment.           *)
(***************************************************************************)
EXTENDS Integers, FiniteSets, Sequences

CONSTANTS MaxCalls,  \* bound on the calls
          MaxStrays  \* bound on the server's own messages and comments

ASSUME SessionAssumption == MaxCalls \in Nat /\ MaxStrays \in Nat

VARIABLES stage,       \* initialize, initialized, list, invoke, failed, destroyed
          pc,          \* where the caller is
          next_id,     \* next_id_
          got,         \* the message the last call took, or Closed, or Nothing
          tools,       \* tools are registered
          queue, alive, closing,  \* queue_, stream_alive_, closing_
          thread,      \* where the event thread is
          toAnswer,    \* calls the server has received and not answered
          wire,        \* messages on the stream
          streamOpen,
          crlf,        \* the server ends its lines with CR LF
          oneAtATime,  \* the HTTP client serialises its requests
          delivered,   \* history: the calls the server received
          pushed,      \* history: the messages that reached the queue
          lag,         \* history: answers the caller is behind
          overwritten, \* history: the constructor wrote over the end of the stream
          strays

callerVars == <<stage, pc, next_id, got, tools>>
sharedVars == <<queue, alive, closing>>
serverVars == <<toAnswer, wire, streamOpen, strays>>
settings == <<crlf, oneAtATime>>
history == <<delivered, pushed, lag, overwritten>>
vars == <<callerVars, sharedVars, thread, serverVars, settings, history>>

Stray == 0
Closed == -1
Nothing == -2
Comment == -3
ListId == 2 \* tools/list is the second call

Init ==
  /\ stage = "initialize" /\ pc = "construct" /\ next_id = 1 /\ got = Nothing
  /\ tools = FALSE
  /\ queue = <<>> /\ alive = FALSE /\ closing = FALSE /\ thread = "none"
  /\ toAnswer = <<>> /\ wire = <<>> /\ streamOpen = FALSE /\ strays = 0
  /\ crlf \in BOOLEAN /\ oneAtATime \in BOOLEAN
  /\ delivered = {} /\ pushed = {} /\ lag = 0 /\ overwritten = FALSE

-----------------------------------------------------------------------------
(* The caller.                                                             *)

(* The constructor starts the event thread ...                             *)
StartEventThread ==
  /\ pc = "construct"
  /\ thread' = "reading" /\ streamOpen' = TRUE
  /\ pc' = "mark"
  /\ UNCHANGED <<stage, next_id, got, tools, sharedVars, toAnswer, wire, strays, settings,
                 history>>

(* ... and then, without the mutex, notes that the stream is alive.        *)
MarkAlive ==
  /\ pc = "mark"
  /\ alive' = TRUE
  /\ overwritten' = (thread \in {"flagged", "ended"})
  /\ pc' = "send"
  /\ UNCHANGED <<stage, next_id, got, tools, queue, closing, thread, serverVars, settings,
                 delivered, pushed, lag>>

(* A call that throws ends attach by the exception; McpTool::invoke makes  *)
(* it a failed result.                                                     *)
Fail ==
  /\ pc' = "idle"
  /\ stage' = IF stage = "invoke" THEN "invoke" ELSE "failed"
  /\ UNCHANGED tools

CanPost == ~ oneAtATime \/ thread \in {"eof", "flagged", "ended"}

(* The request of a call is posted: it reaches the server or does not.     *)
SendCall ==
  /\ pc = "send" /\ stage \in {"initialize", "list", "invoke"} /\ CanPost
  /\ pc' = "posting" /\ next_id' = next_id + 1 /\ got' = Nothing
  /\ \/ toAnswer' = Append(toAnswer, next_id) /\ delivered' = delivered \cup {next_id}
     \/ UNCHANGED <<toAnswer, delivered>>
  /\ UNCHANGED <<stage, tools, sharedVars, thread, wire, streamOpen, strays, settings, pushed,
                 lag, overwritten>>

Arrived == next_id - 1 \in delivered

(* send returns, or throws: the request did not arrive, or the answer of   *)
(* the POST is an error or is lost.                                        *)
PostReturns ==
  /\ pc = "posting"
  /\ \/ Arrived /\ pc' = "receive" /\ UNCHANGED <<stage, tools, lag>>
     \/ Fail /\ lag' = IF Arrived THEN lag + 1 ELSE lag
  /\ UNCHANGED <<next_id, got, sharedVars, thread, serverVars, settings, delivered, pushed,
                 overwritten>>

Notify ==
  /\ pc = "send" /\ stage = "initialized" /\ CanPost
  /\ pc' = "notifying"
  /\ UNCHANGED <<stage, next_id, got, tools, sharedVars, thread, serverVars, settings, history>>

NotifyReturns ==
  /\ pc = "notifying"
  /\ \/ stage' = "list" /\ pc' = "send" /\ UNCHANGED tools
     \/ Fail
  /\ UNCHANGED <<next_id, got, sharedVars, thread, serverVars, settings, history>>

(* The call returns the result in m.  Neither the handshake nor tools/list *)
(* looks at more of it than the list of tools, which may be missing, or end*)
(* in an exception after some were registered.                             *)
CallReturns(m) ==
  CASE stage = "initialize" -> stage' = "initialized" /\ pc' = "send" /\ UNCHANGED tools
    [] stage = "list" -> /\ stage' = "invoke" /\ pc' = "idle"
                         /\ tools' \in (IF m = ListId THEN BOOLEAN ELSE {FALSE})
    [] stage = "invoke" -> pc' = "idle" /\ UNCHANGED <<stage, tools>>

(* The next message is taken for the answer.  The call throws if it holds  *)
(* an error or is no JSON object; a request or a notification of the       *)
(* server's holds no result either, and gives an empty one.                *)
TakeMessage ==
  LET m == Head(queue)
  IN  /\ got' = m /\ queue' = Tail(queue)
      /\ lag' = IF m = Stray THEN lag + 1 ELSE lag
      /\ CallReturns(m) \/ Fail

TransportClosed == got' = Closed /\ Fail /\ UNCHANGED <<queue, lag>>

MustWait == queue = <<>> /\ ~ closing /\ alive
ReceiveFrame == UNCHANGED <<next_id, alive, closing, thread, serverVars, settings, delivered,
                            pushed, overwritten>>

(* Mutant of Receive: the end of the stream is looked at first.            *)
ReceiveEndFirst ==
  /\ pc = "receive"
  /\ IF MustWait THEN pc' = "asleep" /\ UNCHANGED <<stage, got, tools, queue, lag>>
     ELSE IF ~ alive THEN TransportClosed ELSE TakeMessage
  /\ ReceiveFrame

(* receive, when it holds the mutex: cv_.wait, or what the queue holds.    *)
Receive ==
  /\ pc = "receive"
  /\ IF MustWait THEN pc' = "asleep" /\ UNCHANGED <<stage, got, tools, queue, lag>>
     ELSE IF queue = <<>> THEN TransportClosed ELSE TakeMessage
  /\ ReceiveFrame

Invoke ==
  /\ pc = "idle" /\ tools /\ next_id <= MaxCalls
  /\ pc' = "send"
  /\ UNCHANGED <<stage, next_id, got, tools, sharedVars, thread, serverVars, settings, history>>

(* The destructor tells whoever waits, and joins the event thread, which   *)
(* nothing tells to stop.                                                  *)
Close ==
  /\ pc = "idle"
  /\ stage' = "destroyed" /\ pc' = "join" /\ closing' = TRUE
  /\ UNCHANGED <<next_id, got, tools, queue, alive, thread, serverVars, settings, history>>

Join ==
  /\ pc = "join" /\ thread = "ended"
  /\ pc' = "gone"
  /\ UNCHANGED <<stage, next_id, got, tools, sharedVars, thread, serverVars, settings, history>>

Caller ==
  \/ StartEventThread \/ MarkAlive \/ SendCall \/ Notify \/ Receive \/ Invoke \/ Close \/ Join

(* An answer to a POST may be waited for without end: the client that the  *)
(* transport was given has no read timeout (mcp_host.cpp:336).             *)
PostEnds == PostReturns \/ NotifyReturns

-----------------------------------------------------------------------------
(* The event thread.                                                       *)
ThreadFrame == UNCHANGED <<stage, next_id, got, tools, closing, toAnswer, streamOpen, strays,
                           settings, delivered, lag, overwritten>>

WakeCaller == pc' = IF pc = "asleep" THEN "receive" ELSE pc

(* A frame ends at an empty line, looked for as two line feeds in a row; a *)
(* frame without data is dropped.                                          *)
HasData(m) == ~ crlf /\ m # Comment

(* Mutant of PushFrame: a stack in place of the queue.                     *)
PushFrameOnTop ==
  /\ thread = "reading" /\ wire # <<>>
  /\ wire' = Tail(wire)
  /\ IF HasData(Head(wire))
       THEN /\ queue' = <<Head(wire)>> \o queue /\ pushed' = pushed \cup {Head(wire)}
            /\ thread' = "pushed"
       ELSE UNCHANGED <<queue, pushed, thread>>
  /\ UNCHANGED <<pc, alive>> /\ ThreadFrame

PushFrame ==
  /\ thread = "reading" /\ wire # <<>>
  /\ wire' = Tail(wire)
  /\ IF HasData(Head(wire))
       THEN /\ queue' = Append(queue, Head(wire)) /\ pushed' = pushed \cup {Head(wire)}
            /\ thread' = "pushed"
       ELSE UNCHANGED <<queue, pushed, thread>>
  /\ UNCHANGED <<pc, alive>> /\ ThreadFrame

NotifyOne ==
  /\ thread = "pushed"
  /\ thread' = "reading" /\ WakeCaller
  /\ UNCHANGED <<queue, alive, wire, pushed>> /\ ThreadFrame

GetReturns ==
  /\ thread = "reading" /\ wire = <<>> /\ ~ streamOpen
  /\ thread' = "eof"
  /\ UNCHANGED <<pc, queue, alive, wire, pushed>> /\ ThreadFrame

(* push_eof under the mutex, and after it.                                 *)
PushEof ==
  /\ thread = "eof"
  /\ alive' = FALSE
  /\ thread' = "flagged"
  /\ UNCHANGED <<pc, queue, wire, pushed>> /\ ThreadFrame

(* Mutant of NotifyAll: push_eof tells nobody.                             *)
NotifyNobody ==
  /\ thread = "flagged"
  /\ thread' = "ended"
  /\ UNCHANGED <<pc, queue, alive, wire, pushed>> /\ ThreadFrame

NotifyAll ==
  /\ thread = "flagged"
  /\ thread' = "ended" /\ WakeCaller
  /\ UNCHANGED <<queue, alive, wire, pushed>> /\ ThreadFrame

EventThread == PushFrame \/ NotifyOne \/ GetReturns \/ PushEof \/ NotifyAll

-----------------------------------------------------------------------------
(* The server and the network.                                             *)
ServerFrame == UNCHANGED <<callerVars, sharedVars, thread, settings, history>>

Answer ==
  /\ streamOpen /\ toAnswer # <<>>
  /\ wire' = Append(wire, Head(toAnswer)) /\ toAnswer' = Tail(toAnswer)
  /\ UNCHANGED <<streamOpen, strays>> /\ ServerFrame

SendOwn ==
  /\ streamOpen /\ strays < MaxStrays
  /\ strays' = strays + 1
  /\ \E m \in {Stray, Comment} : wire' = Append(wire, m)
  /\ UNCHANGED <<toAnswer, streamOpen>> /\ ServerFrame

(* What was under way may be lost.                                         *)
StreamEnds ==
  /\ streamOpen
  /\ streamOpen' = FALSE
  /\ wire' \in {wire, <<>>}
  /\ UNCHANGED <<toAnswer, strays>> /\ ServerFrame

Server == Answer \/ SendOwn \/ StreamEnds

(* The session is over, or the caller waits for ever for the end it missed.*)
Over ==
  /\ pc = "gone" \/ (overwritten /\ pc \in {"asleep", "gone"})
  /\ UNCHANGED vars

Next == Caller \/ PostEnds \/ EventThread \/ Server \/ Over

Spec == Init /\ [][Next]_vars

(* Both threads are scheduled; nothing is asked of the server, not even    *)
(* that it ends a POST.                                                    *)
FairSpec == Spec /\ WF_vars(Caller) /\ WF_vars(EventThread)

-----------------------------------------------------------------------------
(* call compares no ids (json_rpc.cpp:35).  It takes an answer that the    *)
(* server gave, to this call or to an earlier one: it is behind by exactly *)
(* as many calls as messages were taken for answers and requests arrived   *)
(* whose send threw, and stays so to the end of the session.               *)
BehindByStrays ==
  got > 0 => /\ got \in delivered /\ got < next_id
             /\ Cardinality({i \in delivered : got < i /\ i < next_id}) = lag

(* A call fails as closed only if its answer did not arrive: an answer that*)
(* reached the queue before the end of the stream, or while the caller was *)
(* between its test and its wait, is taken.                                *)
AnswerOutlivesStream ==
  got = Closed => next_id - 1 \notin pushed

(* Whatever the stream ends with, a failed connection or a crash of the    *)
(* server, the caller gets out of its call or its destructor, unless the   *)
(* constructor's write of stream_alive_ (mcp_host.cpp:295) came after the  *)
(* event thread's, or a POST of its own, which no end of the stream can    *)
(* end, is still under way.                                                *)
EndOfStreamFreesCaller ==
  (pc # "construct" /\ ~ streamOpen)
    ~> (pc \in {"idle", "gone", "posting", "notifying"} \/ overwritten)
=============================================================================
