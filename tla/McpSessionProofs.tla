-------------------------- MODULE McpSessionProofs --------------------------
(* What holds of a session of any length and with any server.              *)
EXTENDS McpSession, FiniteSetTheorems, TLAPS

Calls == 1..(next_id - 1)
Messages == {Stray, Comment} \cup Calls

SessionTypeOK ==
  /\ next_id \in Nat \ {0}
  /\ toAnswer \in Seq(Calls) /\ wire \in Seq(Messages) /\ queue \in Seq(Messages)
  /\ pushed \subseteq Messages
  /\ pc \in {"construct", "mark", "send", "posting", "notifying", "receive", "asleep", "idle",
             "join", "gone"}
  /\ pc \in {"posting", "receive", "asleep"} => stage \in {"initialize", "list", "invoke"}
  /\ thread \in {"none", "reading", "pushed", "eof", "flagged", "ended"}
  /\ alive \in BOOLEAN /\ closing \in BOOLEAN

(* While a call is under way, nobody else takes messages: its answer, once *)
(* queued, is still there.  receive gives up only after the event thread's *)
(* last push, so no answer can be queued behind its back.                  *)
AnswerStaysQueued ==
  pc \in {"posting", "receive", "asleep"} /\ next_id - 1 \in pushed
    => \E i \in 1..Len(queue) : queue[i] = next_id - 1

GivesUpAtEnd ==
  /\ pc \notin {"construct", "mark"} /\ ~ alive => thread \in {"flagged", "ended"}
  /\ pc = "construct" => thread = "none"
  /\ closing => pc \in {"join", "gone"}
  /\ got = Closed => thread \in {"flagged", "ended"} /\ pc \notin {"construct", "mark"}

SessionInv == SessionTypeOK /\ AnswerStaysQueued /\ GivesUpAtEnd /\ AnswerOutlivesStream

LEMMA SessionInvInit == Init => SessionInv
<1> SUFFICES ASSUME Init PROVE SessionInv
  OBVIOUS
<1>1. SessionTypeOK
  <2>1. /\ toAnswer = <<>> /\ wire = <<>> /\ queue = <<>> /\ pushed = {} /\ next_id = 1
        /\ pc = "construct" /\ thread = "none" /\ alive = FALSE /\ closing = FALSE
    BY DEF Init, history
  <2>2. toAnswer \in Seq(Calls) /\ wire \in Seq(Messages) /\ queue \in Seq(Messages)
    BY <2>1
  <2>3. next_id \in Nat \ {0}
    BY <2>1
  <2>4. alive \in BOOLEAN /\ closing \in BOOLEAN
    BY <2>1
  <2> QED  BY <2>1, <2>2, <2>3, <2>4, Zenon DEF SessionTypeOK
<1>2. AnswerStaysQueued /\ GivesUpAtEnd /\ AnswerOutlivesStream
  BY DEF Init, AnswerStaysQueued, GivesUpAtEnd, AnswerOutlivesStream, Nothing, Closed
<1> QED  BY <1>1, <1>2 DEF SessionInv

-----------------------------------------------------------------------------
(* The steps that leave the messages alone.                                *)
LEMMA QuietStep ==
  ASSUME SessionInv, UNCHANGED <<next_id, toAnswer, wire, queue, pushed>>,
         SessionTypeOK', GivesUpAtEnd',
         pc' \in {"posting", "receive", "asleep"} => pc \in {"posting", "receive", "asleep"},
         got' = Closed => got = Closed
  PROVE  SessionInv'
BY DEF SessionInv, AnswerStaysQueued, AnswerOutlivesStream

LEMMA CallGoesOn ==
  ASSUME stage \in {"initialize", "list", "invoke"}, NEW m, CallReturns(m)
  PROVE  pc' \in {"send", "idle"}
<1>1. CASE stage = "initialize"
  BY <1>1 DEF CallReturns
<1>2. CASE stage = "list"
  BY <1>2 DEF CallReturns
<1>3. CASE stage = "invoke"
  BY <1>3 DEF CallReturns
<1> QED  BY <1>1, <1>2, <1>3

LEMMA CallerStep == SessionInv /\ Caller => SessionInv'
<1> SUFFICES ASSUME SessionInv, Caller PROVE SessionInv'
  OBVIOUS
<1> USE DEF SessionInv
<1>1. CASE StartEventThread
  <2>1. SessionTypeOK' /\ GivesUpAtEnd'
    BY <1>1 DEF StartEventThread, SessionTypeOK, GivesUpAtEnd, Calls, Messages, sharedVars, history
  <2> QED  BY <1>1, <2>1, QuietStep DEF StartEventThread, sharedVars, history
<1>2. CASE MarkAlive
  <2>1. SessionTypeOK' /\ GivesUpAtEnd'
    BY <1>2 DEF MarkAlive, SessionTypeOK, GivesUpAtEnd, Calls, Messages, serverVars
  <2> QED  BY <1>2, <2>1, QuietStep DEF MarkAlive, serverVars
<1>3. CASE SendCall
  <2>1. /\ next_id' = next_id + 1 /\ got' = Nothing /\ UNCHANGED <<sharedVars, thread, wire, pushed>>
        /\ pc = "send" /\ pc' = "posting"
        /\ stage' = stage /\ stage \in {"initialize", "list", "invoke"}
        /\ toAnswer' \in {toAnswer, Append(toAnswer, next_id)}
    BY <1>3 DEF SendCall
  <2>2. Calls' = Calls \cup {next_id} /\ next_id \in Calls' /\ next_id \notin Messages
    BY <2>1 DEF SessionTypeOK, Calls, Messages, Stray, Comment
  <2>3. SessionTypeOK'
    <3>1. toAnswer \in Seq(Calls') /\ wire \in Seq(Messages') /\ queue \in Seq(Messages')
      BY <2>1, <2>2 DEF SessionTypeOK, Messages
    <3>2. toAnswer' \in Seq(Calls')
      BY <2>1, <2>2, <3>1
    <3>3. next_id' \in Nat \ {0} /\ pushed' \subseteq Messages'
      BY <2>1, <2>2 DEF SessionTypeOK, Messages
    <3> QED  BY <2>1, <3>1, <3>2, <3>3 DEF SessionTypeOK, sharedVars
  <2>4. next_id' - 1 \notin pushed'
    BY <2>1, <2>2 DEF SessionTypeOK
  <2>5. GivesUpAtEnd'
    BY <2>1 DEF GivesUpAtEnd, sharedVars, Nothing, Closed
  <2> QED  BY <2>1, <2>3, <2>4, <2>5 DEF AnswerStaysQueued, AnswerOutlivesStream
<1>4. CASE Notify
  <2>1. SessionTypeOK' /\ GivesUpAtEnd'
    BY <1>4 DEF Notify, SessionTypeOK, GivesUpAtEnd, Calls, Messages, sharedVars, serverVars, history
  <2> QED  BY <1>4, <2>1, QuietStep DEF Notify, sharedVars, serverVars, history
<1>5. CASE Receive
  <2>0. /\ pc = "receive" /\ UNCHANGED <<next_id, alive, closing, thread, toAnswer, wire, pushed>>
    BY <1>5 DEF Receive, ReceiveFrame, serverVars
  <2>1. CASE MustWait
    <3>1. pc' = "asleep" /\ UNCHANGED <<got, queue, stage>>
      BY <1>5, <2>1 DEF Receive
    <3>2. SessionTypeOK' /\ GivesUpAtEnd'
      BY <2>0, <3>1 DEF SessionTypeOK, GivesUpAtEnd, Calls, Messages
    <3> QED  BY <2>0, <3>1, <3>2, QuietStep
  <2>2. CASE ~ MustWait /\ queue = <<>>
    <3>1. got' = Closed /\ pc' = "idle" /\ queue' = queue
      BY <1>5, <2>2 DEF Receive, TransportClosed, Fail
    <3>2. thread \in {"flagged", "ended"}
      BY <2>0, <2>2 DEF MustWait, GivesUpAtEnd
    <3>3. next_id - 1 \notin pushed
      BY <2>0, <2>2 DEF AnswerStaysQueued
    <3>4. SessionTypeOK' /\ GivesUpAtEnd'
      BY <2>0, <3>1, <3>2 DEF SessionTypeOK, GivesUpAtEnd, Calls, Messages
    <3> QED  BY <2>0, <3>1, <3>3, <3>4 DEF AnswerStaysQueued, AnswerOutlivesStream
  <2>3. CASE ~ MustWait /\ queue # <<>>
    <3>0. TakeMessage
      BY <1>5, <2>3 DEF Receive
    <3>1. got' = Head(queue) /\ queue' = Tail(queue) /\ pc' \in {"send", "idle"}
      <4>1. stage \in {"initialize", "list", "invoke"}
        BY <2>0 DEF SessionTypeOK
      <4>2. ASSUME NEW m, CallReturns(m) PROVE pc' \in {"send", "idle"}
        BY <4>1, <4>2, CallGoesOn
      <4> QED  BY <3>0, <4>2 DEF TakeMessage, Fail
    <3>2. Head(queue) \in Messages /\ Tail(queue) \in Seq(Messages)
      <4>1. queue \in Seq(Messages) /\ queue # <<>>
        BY <2>3 DEF SessionTypeOK
      <4> HIDE DEF SessionInv
      <4> QED  BY <4>1
    <3>3. got' # Closed
      BY <3>1, <3>2 DEF SessionTypeOK, Messages, Calls, Stray, Comment, Closed
    <3>4. SessionTypeOK' /\ GivesUpAtEnd'
      BY <2>0, <3>1, <3>2, <3>3 DEF SessionTypeOK, GivesUpAtEnd, Calls, Messages
    <3> QED  BY <3>1, <3>3, <3>4 DEF AnswerStaysQueued, AnswerOutlivesStream
  <2> QED  BY <2>1, <2>2, <2>3
<1>6. CASE Invoke
  <2>1. SessionTypeOK' /\ GivesUpAtEnd'
    BY <1>6 DEF Invoke, SessionTypeOK, GivesUpAtEnd, Calls, Messages, sharedVars, serverVars, history
  <2> QED  BY <1>6, <2>1, QuietStep DEF Invoke, sharedVars, serverVars, history
<1>7. CASE Close
  <2>1. SessionTypeOK' /\ GivesUpAtEnd'
    BY <1>7 DEF Close, SessionTypeOK, GivesUpAtEnd, Calls, Messages, serverVars, history
  <2> QED  BY <1>7, <2>1, QuietStep DEF Close, serverVars, history
<1>8. CASE Join
  <2>1. SessionTypeOK' /\ GivesUpAtEnd'
    BY <1>8 DEF Join, SessionTypeOK, GivesUpAtEnd, Calls, Messages, sharedVars, serverVars, history
  <2> QED  BY <1>8, <2>1, QuietStep DEF Join, sharedVars, serverVars, history
<1> QED  BY <1>1, <1>2, <1>3, <1>4, <1>5, <1>6, <1>7, <1>8 DEF Caller

LEMMA PostStep == SessionInv /\ PostEnds => SessionInv'
<1> SUFFICES ASSUME SessionInv, PostEnds PROVE SessionInv'
  OBVIOUS
<1>1. /\ UNCHANGED <<next_id, got, queue, alive, closing, thread, toAnswer, wire, pushed>>
      /\ pc \in {"posting", "notifying"} /\ pc' \in {"receive", "idle", "send"}
      /\ pc' = "receive" => pc = "posting" /\ stage' = stage
  BY DEF PostEnds, PostReturns, NotifyReturns, Fail, sharedVars, serverVars, history
<1>2. SessionTypeOK' /\ GivesUpAtEnd'
  BY <1>1 DEF SessionInv, SessionTypeOK, GivesUpAtEnd, Calls, Messages
<1> QED  BY <1>1, <1>2, QuietStep

LEMMA EventThreadStep == SessionInv /\ EventThread => SessionInv'
<1> SUFFICES ASSUME SessionInv, EventThread PROVE SessionInv'
  OBVIOUS
<1> USE DEF SessionInv
<1>0. UNCHANGED <<stage, next_id, got, closing, toAnswer>>
  BY DEF EventThread, PushFrame, NotifyOne, GetReturns, PushEof, NotifyAll, ThreadFrame
<1>1. CASE PushFrame
  <2>1. /\ thread = "reading" /\ wire # <<>> /\ wire' = Tail(wire) /\ UNCHANGED <<pc, alive>>
    BY <1>1 DEF PushFrame
  <2>2. Head(wire) \in Messages /\ wire' \in Seq(Messages) /\ Messages' = Messages /\ Calls' = Calls
    BY <1>0, <2>1 DEF SessionTypeOK, Messages, Calls
  <2>3. CASE HasData(Head(wire))
    <3>1. /\ queue' = Append(queue, Head(wire)) /\ pushed' = pushed \cup {Head(wire)}
          /\ thread' = "pushed"
      BY <1>1, <2>3 DEF PushFrame
    <3>2. SessionTypeOK'
      BY <1>0, <2>1, <2>2, <3>1 DEF SessionTypeOK
    <3>3. GivesUpAtEnd' /\ got' # Closed
      BY <1>0, <2>1, <3>1 DEF GivesUpAtEnd
    <3>4. /\ Len(queue') = Len(queue) + 1 /\ Len(queue) \in Nat
          /\ queue'[Len(queue) + 1] = Head(wire)
          /\ \A i \in 1..Len(queue) : queue'[i] = queue[i]
      BY <2>2, <3>1 DEF SessionTypeOK
    <3>5. AnswerStaysQueued'
      <4> SUFFICES ASSUME pc \in {"posting", "receive", "asleep"}, next_id - 1 \in pushed'
                   PROVE  \E i \in 1..Len(queue') : queue'[i] = next_id - 1
        BY <1>0, <2>1 DEF AnswerStaysQueued
      <4>1. CASE next_id - 1 \in pushed
        BY <3>4, <4>1 DEF AnswerStaysQueued
      <4>2. CASE next_id - 1 = Head(wire)
        BY <3>4, <4>2
      <4> QED  BY <3>1, <4>1, <4>2
    <3> QED  BY <3>2, <3>3, <3>5 DEF AnswerOutlivesStream
  <2>4. CASE ~ HasData(Head(wire))
    <3>1. UNCHANGED <<queue, pushed, thread>>
      BY <1>1, <2>4 DEF PushFrame
    <3> QED  BY <1>0, <2>1, <2>2, <3>1 DEF SessionTypeOK, AnswerStaysQueued, GivesUpAtEnd,
                                            AnswerOutlivesStream
  <2> QED  BY <2>3, <2>4
<1>2. CASE NotifyOne \/ GetReturns \/ PushEof \/ NotifyAll
  <2>1. UNCHANGED <<wire, queue, pushed>>
    BY <1>2 DEF NotifyOne, GetReturns, PushEof, NotifyAll
  <2>2. stage' = stage /\ (pc' = pc \/ (pc = "asleep" /\ pc' = "receive"))
    BY <1>2 DEF NotifyOne, GetReturns, PushEof, NotifyAll, WakeCaller,
       ThreadFrame
  <2>3. SessionTypeOK' /\ GivesUpAtEnd'
    BY <1>0, <1>2, <2>1, <2>2 DEF SessionTypeOK, GivesUpAtEnd, Calls, Messages, NotifyOne,
       GetReturns, PushEof, NotifyAll
  <2> QED  BY <1>0, <2>1, <2>2, <2>3, QuietStep
<1> QED  BY <1>1, <1>2 DEF EventThread

LEMMA ServerStep == SessionInv /\ Server => SessionInv'
<1> SUFFICES ASSUME SessionInv, Server PROVE SessionInv'
  OBVIOUS
<1>1. UNCHANGED <<stage, next_id, got, pc, queue, alive, closing, thread, pushed>>
  BY DEF Server, Answer, SendOwn, StreamEnds, ServerFrame, callerVars, sharedVars, history
<1>2. toAnswer' \in Seq(Calls) /\ wire' \in Seq(Messages)
  <2>1. CASE Answer
    <3>1. Head(toAnswer) \in Messages /\ Tail(toAnswer) \in Seq(Calls)
      BY <2>1 DEF Answer, SessionInv, SessionTypeOK, Messages
    <3> QED  BY <2>1, <3>1 DEF Answer, SessionInv, SessionTypeOK
  <2>2. CASE SendOwn
    <3>1. PICK m \in {Stray, Comment} : wire' = Append(wire, m)
      BY <2>2 DEF SendOwn
    <3>2. m \in Messages
      BY DEF Messages
    <3>4. wire \in Seq(Messages) /\ toAnswer \in Seq(Calls)
      BY DEF SessionInv, SessionTypeOK
    <3>3. toAnswer' = toAnswer
      BY <2>2 DEF SendOwn
    <3> QED  BY <3>1, <3>2, <3>3, <3>4
  <2>3. CASE StreamEnds
    <3>1. toAnswer' = toAnswer /\ (wire' = wire \/ wire' = <<>>)
      BY <2>3 DEF StreamEnds
    <3>2. wire \in Seq(Messages) /\ <<>> \in Seq(Messages) /\ toAnswer \in Seq(Calls)
      BY DEF SessionInv, SessionTypeOK
    <3> QED  BY <3>1, <3>2
  <2> QED  BY <2>1, <2>2, <2>3 DEF Server
<1>3. SessionTypeOK'
  BY <1>1, <1>2 DEF SessionInv, SessionTypeOK, Calls, Messages
<1> QED  BY <1>1, <1>3 DEF SessionInv, AnswerStaysQueued, GivesUpAtEnd, AnswerOutlivesStream

LEMMA SessionInvStep == SessionInv /\ [Next]_vars => SessionInv'
<1> SUFFICES ASSUME SessionInv, UNCHANGED vars PROVE SessionInv'
  BY CallerStep, PostStep, EventThreadStep, ServerStep DEF Next, Over
<1> QED  BY DEF vars, callerVars, sharedVars, serverVars, history, SessionInv, SessionTypeOK,
                Calls, Messages, AnswerStaysQueued, GivesUpAtEnd, AnswerOutlivesStream

-----------------------------------------------------------------------------
(* The way of an answer, from the calls the server has to answer over the  *)
(* stream into the queue.  open tells whether the stream is open, due      *)
(* holds the calls that arrived and whose answers were not taken: the      *)
(* answers under way are in call order, and none is left out before one    *)
(* that is on the stream or in the queue.                                  *)
Numbered(s) == {x \in Range(s) : x > 0}
Sorted(s) == \A i, j \in DOMAIN s : i < j /\ s[i] > 0 /\ s[j] > 0 => s[i] < s[j]
Below(X, Y) == \A x \in X, y \in Y : x < y

InOrder(q, w, a) ==
  /\ Sorted(q) /\ Sorted(w) /\ Sorted(a)
  /\ Below(Numbered(q), Numbered(w)) /\ Below(Numbered(q), Numbered(a))
  /\ Below(Numbered(w), Numbered(a))

Complete(q, w, a, open, due) ==
  /\ Numbered(q) \subseteq due /\ Numbered(w) \subseteq due /\ Numbered(a) \subseteq due
  /\ \A x \in Numbered(q) \cup Numbered(w), d \in due :
       d < x => d \in Numbered(q) \cup Numbered(w)
  /\ open => due = Numbered(q) \cup Numbered(w) \cup Numbered(a)

Pipeline(q, w, a, open, due) == InOrder(q, w, a) /\ Complete(q, w, a, open, due)

LEMMA NumberedAppend ==
  ASSUME NEW s \in Seq(Int), NEW m \in Int, Sorted(s)
  PROVE  /\ Append(s, m) \in Seq(Int)
         /\ m > 0 => Numbered(Append(s, m)) = Numbered(s) \cup {m}
         /\ ~ (m > 0) => Numbered(Append(s, m)) = Numbered(s)
         /\ (m > 0 => Below(Numbered(s), {m})) => Sorted(Append(s, m))
<1> DEFINE t == Append(s, m)
<1>1. /\ t \in Seq(Int) /\ DOMAIN s = 1..Len(s) /\ DOMAIN t = 1..(Len(s) + 1) /\ Len(s) \in Nat
      /\ t[Len(s) + 1] = m /\ \A i \in DOMAIN s : t[i] = s[i]
  OBVIOUS
<1> HIDE DEF t
<1>2. Range(t) = Range(s) \cup {m}
  <2>1. ASSUME NEW i \in DOMAIN t PROVE t[i] \in Range(s) \cup {m}
    <3>1. CASE i \in DOMAIN s
      BY <1>1, <3>1 DEF Range
    <3>2. CASE i = Len(s) + 1
      BY <1>1, <3>2
    <3> QED  BY <1>1, <3>1, <3>2
  <2>2. /\ Len(s) + 1 \in DOMAIN t /\ t[Len(s) + 1] = m
        /\ \A i \in DOMAIN s : i \in DOMAIN t /\ t[i] = s[i]
    BY <1>1
  <2> QED  BY <2>1, <2>2 DEF Range
<1>3. ASSUME m > 0 => Below(Numbered(s), {m}) PROVE Sorted(t)
  <2> SUFFICES ASSUME NEW i \in DOMAIN t, NEW j \in DOMAIN t, i < j, t[i] > 0, t[j] > 0
               PROVE  t[i] < t[j]
    BY DEF Sorted
  <2>1. i \in DOMAIN s /\ t[i] = s[i]
    BY <1>1
  <2>2. CASE j \in DOMAIN s
    BY <1>1, <2>1, <2>2 DEF Sorted
  <2>3. CASE j = Len(s) + 1
    <3>1. s[i] \in Numbered(s)
      BY <2>1 DEF Numbered, Range
    <3> QED  BY <1>1, <1>3, <2>1, <2>3, <3>1 DEF Below
  <2> QED  BY <1>1, <2>2, <2>3
<1> QED  BY <1>1, <1>2, <1>3 DEF Numbered, t

LEMMA Shifted ==
  ASSUME NEW n \in Nat
  PROVE  /\ \A i \in 1..n : i # 1 => i - 1 \in 1..(n - 1) /\ i - 1 + 1 = i
         /\ \A i, j \in 1..(n - 1) : i + 1 \in 1..n /\ (i < j => i + 1 < j + 1)
OBVIOUS

LEMMA NumberedTail ==
  ASSUME NEW s \in Seq(Int), s # <<>>, Sorted(s)
  PROVE  /\ Tail(s) \in Seq(Int) /\ Head(s) \in Int /\ Sorted(Tail(s))
         /\ Head(s) > 0 => /\ Numbered(s) = Numbered(Tail(s)) \cup {Head(s)}
                           /\ Below({Head(s)}, Numbered(Tail(s)))
         /\ ~ (Head(s) > 0) => Numbered(s) = Numbered(Tail(s))
<1> DEFINE t == Tail(s)
           m == Head(s)
<1>1. /\ t \in Seq(Int) /\ DOMAIN s = 1..Len(s) /\ DOMAIN t = 1..(Len(s) - 1) /\ Len(s) \in Nat \ {0}
      /\ m = s[1] /\ m \in Int /\ \A i \in DOMAIN t : t[i] = s[i + 1]
  OBVIOUS
<1> HIDE DEF t, m
<1>2. Range(s) = Range(t) \cup {m}
  <2>1. ASSUME NEW i \in DOMAIN t PROVE t[i] \in Range(s)
    <3>1. i + 1 \in DOMAIN s /\ t[i] = s[i + 1]
      BY <1>1, Shifted
    <3> QED  BY <3>1 DEF Range
  <2>2. m \in Range(s)
    BY <1>1 DEF Range
  <2>3. ASSUME NEW i \in DOMAIN s PROVE s[i] \in Range(t) \cup {m}
    <3>1. CASE i = 1
      BY <1>1, <3>1
    <3>2. CASE i # 1
      <4>1. i - 1 \in DOMAIN t /\ i - 1 + 1 = i
        BY <1>1, <3>2, Shifted
      <4>2. t[i - 1] = s[i]
        BY <1>1, <4>1
      <4> QED  BY <4>1, <4>2 DEF Range
    <3> QED  BY <3>1, <3>2
  <2> QED  BY <2>1, <2>2, <2>3 DEF Range
<1>3. Sorted(t)
  <2> SUFFICES ASSUME NEW i \in DOMAIN t, NEW j \in DOMAIN t, i < j, t[i] > 0, t[j] > 0
               PROVE  t[i] < t[j]
    BY DEF Sorted
  <2>2. i + 1 \in DOMAIN s /\ j + 1 \in DOMAIN s /\ i + 1 < j + 1
    BY <1>1, Shifted
  <2> QED  BY <1>1, <2>2 DEF Sorted
<1>4. m > 0 => Below({m}, Numbered(t))
  <2> SUFFICES ASSUME m > 0, NEW x \in Numbered(t) PROVE m < x
    BY DEF Below
  <2>1. PICK i \in DOMAIN t : t[i] = x
    BY DEF Numbered, Range
  <2>2. x > 0
    BY DEF Numbered
  <2>3. i + 1 \in DOMAIN s /\ 1 \in DOMAIN s /\ 1 < i + 1 /\ s[i + 1] = x
    <3>1. i \in 1..(Len(s) - 1)
      <4>1. DOMAIN t = 1..(Len(s) - 1)
        BY <1>1
      <4> QED  BY <4>1
    <3>2. i + 1 \in 1..Len(s) /\ 1 \in 1..Len(s) /\ 1 < i + 1
      <4>1. Len(s) \in Nat
        BY <1>1
      <4> QED  BY <3>1, <4>1
    <3>3. t[i] = s[i + 1]
      BY <1>1, <3>1, Shifted
    <3> QED  BY <1>1, <2>1, <3>2, <3>3
  <2> QED  BY <1>1, <2>2, <2>3 DEF Sorted
<1> QED  BY <1>1, <1>2, <1>3, <1>4 DEF Numbered, t, m

(* What a step does to the answers under way.                              *)
LEMMA PipeSend ==
  ASSUME NEW q, NEW w, NEW a \in Seq(Int), NEW open, NEW due \in SUBSET Int,
         NEW n \in Nat \ {0}, Pipeline(q, w, a, open, due), \A d \in due : d < n
  PROVE  Pipeline(q, w, Append(a, n), open, due \cup {n})
<1>0. n \in Int /\ n > 0 /\ Sorted(a) /\ Below(Numbered(a), {n})
  <2>1. n \in Int /\ n > 0
    OBVIOUS
  <2>2. \A x \in Numbered(a) : x < n
    BY DEF Pipeline, Complete
  <2> QED  BY <2>1, <2>2 DEF Pipeline, InOrder, Below
<1>1. Numbered(Append(a, n)) = Numbered(a) \cup {n} /\ Sorted(Append(a, n))
  BY <1>0, NumberedAppend
<1>3. InOrder(q, w, Append(a, n))
  BY <1>1 DEF Pipeline, InOrder, Complete, Below
<1>4. Complete(q, w, Append(a, n), open, due \cup {n})
  <2>1. \A x \in Numbered(q) \cup Numbered(w) : x \in Int /\ x < n
    BY DEF Pipeline, Complete
  <2> QED  BY <1>1, <2>1 DEF Pipeline, Complete
<1> QED  BY <1>3, <1>4 DEF Pipeline

LEMMA PipeTake ==
  ASSUME NEW q \in Seq(Int), NEW w, NEW a, NEW open, NEW due \in SUBSET Int,
         q # <<>>, Pipeline(q, w, a, open, due)
  PROVE  /\ ~ (Head(q) > 0) => Pipeline(Tail(q), w, a, open, due)
         /\ Head(q) > 0 => /\ Head(q) \in due
                           /\ {d \in due : Head(q) < d} = due \ {Head(q)}
                           /\ Pipeline(Tail(q), w, a, open, due \ {Head(q)})
<1> DEFINE m == Head(q)
           t == Tail(q)
<1>1. /\ Sorted(q) /\ m \in Int /\ Sorted(t)
      /\ m > 0 => Numbered(q) = Numbered(t) \cup {m} /\ Below({m}, Numbered(t))
      /\ ~ (m > 0) => Numbered(q) = Numbered(t)
  BY NumberedTail DEF Pipeline, InOrder
<1> HIDE DEF m, t
<1>2. CASE ~ (m > 0)
  BY <1>1, <1>2 DEF Pipeline, InOrder, Complete, m, t
<1>3. CASE m > 0
  <2>1. m \in due /\ m \in Numbered(q)
    BY <1>1, <1>3 DEF Pipeline, Complete
  <2>2. \A x \in Numbered(t) \cup Numbered(w) \cup Numbered(a) : x \in Int /\ m < x
    BY <1>1, <1>3, <2>1 DEF Pipeline, InOrder, Complete, Below
  <2>3. ASSUME NEW d \in due, d # m PROVE m < d
    <3>1. d < m => d \in Numbered(q) \cup Numbered(w)
      BY <2>1 DEF Pipeline, Complete
    <3>2. d < m => d \in Numbered(t) \cup Numbered(w)
      BY <1>1, <1>3, <2>3, <3>1
    <3> QED  BY <1>1, <2>2, <2>3, <3>2
  <2>4. InOrder(t, w, a)
    BY <1>1, <1>3 DEF Pipeline, InOrder, Below
  <2>5. Complete(t, w, a, open, due \ {m})
    <3>1. Numbered(t) \subseteq due \ {m} /\ Numbered(w) \subseteq due \ {m}
          /\ Numbered(a) \subseteq due \ {m}
      BY <1>1, <1>3, <2>2 DEF Pipeline, Complete
    <3>2. \A x \in Numbered(t) \cup Numbered(w), d \in due \ {m} :
            d < x => d \in Numbered(t) \cup Numbered(w)
      BY <1>1, <1>3 DEF Pipeline, Complete
    <3>3. open => due \ {m} = Numbered(t) \cup Numbered(w) \cup Numbered(a)
      BY <1>1, <1>3, <3>1 DEF Pipeline, Complete
    <3> QED  BY <3>1, <3>2, <3>3 DEF Complete
  <2>6. {d \in due : m < d} = due \ {m}
    <3>1. ~ (m < m)
      BY <1>1
    <3> QED  BY <2>3, <3>1
  <2> QED  BY <1>3, <2>1, <2>4, <2>5, <2>6 DEF Pipeline, m, t
<1> QED  BY <1>2, <1>3 DEF m

LEMMA PipePush ==
  ASSUME NEW q \in Seq(Int), NEW w \in Seq(Int), NEW a, NEW open, NEW due,
         w # <<>>, Pipeline(q, w, a, open, due)
  PROVE  Pipeline(Append(q, Head(w)), Tail(w), a, open, due)
<1> DEFINE m == Head(w)
           t == Tail(w)
           p == Append(q, m)
<1>1. /\ Sorted(w) /\ m \in Int /\ Sorted(t)
      /\ m > 0 => Numbered(w) = Numbered(t) \cup {m} /\ Below({m}, Numbered(t))
      /\ ~ (m > 0) => Numbered(w) = Numbered(t)
  BY NumberedTail DEF Pipeline, InOrder
<1> HIDE DEF m, t
<1>2. /\ m > 0 => Numbered(p) = Numbered(q) \cup {m}
      /\ ~ (m > 0) => Numbered(p) = Numbered(q)
  BY <1>1, NumberedAppend DEF Pipeline, InOrder
<1>3. Sorted(p)
  <2>1. m > 0 => Below(Numbered(q), {m})
    BY <1>1 DEF Pipeline, InOrder, Below
  <2> QED  BY <1>1, <2>1, NumberedAppend DEF Pipeline, InOrder
<1> HIDE DEF p
<1>4. InOrder(p, t, a)
  BY <1>1, <1>2, <1>3 DEF Pipeline, InOrder, Below
<1>5. Complete(p, t, a, open, due)
  <2>1. Numbered(p) \cup Numbered(t) = Numbered(q) \cup Numbered(w)
    BY <1>1, <1>2
  <2> QED  BY <2>1 DEF Pipeline, Complete
<1> QED  BY <1>4, <1>5 DEF Pipeline, m, t, p

LEMMA PipeDrop ==
  ASSUME NEW q, NEW w \in Seq(Int), NEW a, NEW open, NEW due,
         w # <<>>, ~ (Head(w) > 0), Pipeline(q, w, a, open, due)
  PROVE  Pipeline(q, Tail(w), a, open, due)
<1>1. Sorted(Tail(w)) /\ Numbered(Tail(w)) = Numbered(w)
  BY NumberedTail DEF Pipeline, InOrder
<1> QED  BY <1>1 DEF Pipeline, InOrder, Complete

LEMMA PipeAnswer ==
  ASSUME NEW q, NEW w \in Seq(Int), NEW a \in Seq(Int), NEW open, NEW due \in SUBSET Int,
         open, a # <<>>, Head(a) > 0, Pipeline(q, w, a, open, due)
  PROVE  Pipeline(q, Append(w, Head(a)), Tail(a), open, due)
<1> DEFINE m == Head(a)
           t == Tail(a)
           v == Append(w, m)
<1>1. /\ m \in Int /\ Sorted(t) /\ m > 0
      /\ Numbered(a) = Numbered(t) \cup {m} /\ Below({m}, Numbered(t))
  BY NumberedTail DEF Pipeline, InOrder
<1> HIDE DEF m, t
<1>2. Numbered(v) = Numbered(w) \cup {m}
  BY <1>1, NumberedAppend DEF Pipeline, InOrder
<1>3. Sorted(v)
  <2>1. Below(Numbered(w), {m})
    BY <1>1 DEF Pipeline, InOrder, Below
  <2> QED  BY <1>1, <2>1, NumberedAppend DEF Pipeline, InOrder
<1> HIDE DEF v
<1>4. InOrder(q, v, t)
  BY <1>1, <1>2, <1>3 DEF Pipeline, InOrder, Below
<1>5. Complete(q, v, t, open, due)
  <2>1. /\ due = Numbered(q) \cup Numbered(w) \cup Numbered(a)
        /\ due = Numbered(q) \cup Numbered(v) \cup Numbered(t)
    BY <1>1, <1>2 DEF Pipeline, Complete
  <2>2. ASSUME NEW x \in Numbered(q) \cup Numbered(v), NEW d \in Numbered(t), d < x
        PROVE  FALSE
    <3>1. x < d /\ x \in Int /\ d \in Int
      BY <1>4, <2>1, <2>2 DEF InOrder, Below
    <3> QED  BY <2>2, <3>1
  <2> QED  BY <2>1, <2>2 DEF Complete
<1> QED  BY <1>4, <1>5 DEF Pipeline, m, t, v

LEMMA PipeOwn ==
  ASSUME NEW q, NEW w \in Seq(Int), NEW a, NEW open, NEW due, NEW m \in Int,
         ~ (m > 0), Pipeline(q, w, a, open, due)
  PROVE  Pipeline(q, Append(w, m), a, open, due)
<1>1. Sorted(Append(w, m)) /\ Numbered(Append(w, m)) = Numbered(w)
  BY NumberedAppend DEF Pipeline, InOrder
<1> QED  BY <1>1 DEF Pipeline, InOrder, Complete

LEMMA PipeEnds ==
  ASSUME NEW q, NEW w, NEW a, NEW open, NEW due \in SUBSET Int, Pipeline(q, w, a, open, due),
         Numbered(q) \subseteq Int
  PROVE  Pipeline(q, w, a, FALSE, due) /\ Pipeline(q, <<>>, a, FALSE, due)
<1>1. Numbered(<<>>) = {} /\ Sorted(<<>>)
  BY DEF Numbered, Sorted, Range
<1>2. ASSUME NEW x \in Numbered(q), NEW d \in due, d < x PROVE d \in Numbered(q)
  <2>1. d \in Numbered(q) \cup Numbered(w)
    BY <1>2 DEF Pipeline, Complete
  <2>2. d \in Numbered(w) => x < d
    BY DEF Pipeline, InOrder, Below
  <2> QED  BY <1>2, <2>1, <2>2
<1> QED  BY <1>1, <1>2 DEF Pipeline, InOrder, Complete, Below

-----------------------------------------------------------------------------
(* t is the last answer the caller took.  What is due beyond it is what the*)
(* caller is behind by, and the answer to the call it is in.               *)
InCall == pc \in {"receive", "asleep"} \/ (pc = "posting" /\ Arrived)
Due(t) == {i \in delivered : t < i}

Tracks(t) ==
  /\ t \in delivered \cup {0} /\ (got > 0 => got = t)
  /\ Cardinality(Due(t)) = IF InCall THEN lag + 1 ELSE lag
  /\ Pipeline(queue, wire, toAnswer, streamOpen, Due(t))

(* Once a call ended with the stream, or with lines the parser cannot cut, *)
(* no answer is ever taken any more.                                       *)
NothingComes == queue = <<>> /\ ~ (got > 0) /\ (crlf \/ thread \in {"flagged", "ended"})

BehindInv ==
  /\ delivered \subseteq Calls /\ IsFiniteSet(delivered) /\ lag \in Nat
  /\ \A i \in DOMAIN queue : queue[i] # Comment
  /\ pc = "construct" => delivered = {}
  /\ InCall => got = Nothing
  /\ crlf => NothingComes
  /\ NothingComes \/ \E t \in Nat : Tracks(t)

LEMMA SeqOverLarger ==
  ASSUME NEW S, NEW T, S \subseteq T, NEW s \in Seq(S)
  PROVE  s \in Seq(T)
OBVIOUS

LEMMA MessagesAreNumbers ==
  ASSUME SessionTypeOK
  PROVE  /\ Messages \subseteq Int /\ Calls \subseteq Int /\ Calls \subseteq Nat \ {0}
         /\ queue \in Seq(Int) /\ wire \in Seq(Int) /\ toAnswer \in Seq(Int)
         /\ \A m \in Messages : m # Stray /\ m # Comment => m > 0
         /\ ~ (Stray > 0) /\ ~ (Comment > 0)
<1>1. Messages \subseteq Int /\ Calls \subseteq Int /\ Calls \subseteq Nat \ {0}
  BY DEF SessionTypeOK, Messages, Calls, Stray, Comment
<1>2. queue \in Seq(Int) /\ wire \in Seq(Int) /\ toAnswer \in Seq(Int)
  BY <1>1, SeqOverLarger DEF SessionTypeOK
<1>3. \A m \in Messages : m # Stray /\ m # Comment => m > 0
  BY DEF SessionTypeOK, Messages, Calls
<1>4. ~ (Stray > 0) /\ ~ (Comment > 0)
  BY DEF Stray, Comment
<1> QED  BY <1>1, <1>2, <1>3, <1>4

LEMMA BehindInvInit == Init => BehindInv
<1> SUFFICES ASSUME Init PROVE BehindInv
  OBVIOUS
<1>1. /\ delivered = {} /\ lag = 0 /\ queue = <<>> /\ wire = <<>> /\ toAnswer = <<>>
      /\ pc = "construct" /\ got = Nothing
  BY DEF Init
<1>2. IsFiniteSet({}) /\ Cardinality({}) = 0
  BY FS_EmptySet
<1>3. Due(0) = {} /\ ~ InCall
  BY <1>1 DEF Due, InCall
<1>4. Numbered(<<>>) = {} /\ Sorted(<<>>)
  BY DEF Numbered, Sorted, Range
<1>5. Pipeline(queue, wire, toAnswer, streamOpen, {})
  BY <1>1, <1>4 DEF Pipeline, InOrder, Complete, Below
<1>6. Tracks(0)
  <2>1. ~ (got > 0)
    BY <1>1 DEF Nothing
  <2> QED  BY <1>1, <1>2, <1>3, <1>5, <2>1 DEF Tracks
<1>7. crlf => NothingComes
  BY <1>1 DEF NothingComes, Nothing
<1> QED  BY <1>1, <1>2, <1>3, <1>6, <1>7 DEF BehindInv

(* The last answer taken is the one the caller is at.                      *)
LEMMA BehindFromInv == SessionTypeOK /\ BehindInv => BehindByStrays
<1> SUFFICES ASSUME SessionTypeOK, BehindInv, got > 0
             PROVE  /\ got \in delivered /\ got < next_id
                    /\ Cardinality({i \in delivered : got < i /\ i < next_id}) = lag
  BY DEF BehindByStrays
<1>1. PICK t \in Nat : Tracks(t)
  BY DEF BehindInv, NothingComes
<1>2. got = t /\ got \in delivered /\ ~ InCall
  BY <1>1 DEF Tracks, BehindInv, Nothing
<1>3. \A i \in delivered : i < next_id
  BY DEF BehindInv, Calls, SessionTypeOK
<1>4. {i \in delivered : got < i /\ i < next_id} = Due(t)
  BY <1>2, <1>3 DEF Due
<1> QED  BY <1>1, <1>2, <1>3, <1>4 DEF Tracks

-----------------------------------------------------------------------------
(* The steps that leave the answers under way where they are ...           *)
LEMMA BehindQuiet ==
  ASSUME BehindInv,
         UNCHANGED <<next_id, got, queue, toAnswer, wire, streamOpen, crlf, delivered, lag>>,
         InCall' <=> InCall, pc' = "construct" => pc = "construct",
         thread \in {"flagged", "ended"} => thread' \in {"flagged", "ended"}
  PROVE  BehindInv'
<1>1. Calls' = Calls
  BY DEF Calls
<1>2. NothingComes => NothingComes'
  BY DEF NothingComes
<1>3. \A t : Tracks(t) => Tracks(t)'
  BY DEF Tracks, Due
<1> QED  BY <1>1, <1>2, <1>3 DEF BehindInv

LEMMA BehindStart ==
  ASSUME SessionInv, BehindInv, StartEventThread
  PROVE  BehindInv'
<1>1. /\ pc = "construct" /\ pc' = "mark" /\ streamOpen' = TRUE
      /\ UNCHANGED <<next_id, got, queue, wire, toAnswer, crlf, delivered, lag>>
      /\ delivered = {} /\ thread = "none" /\ queue' = queue /\ ~ InCall /\ ~ InCall'
  BY DEF StartEventThread, sharedVars, settings, history, BehindInv, SessionInv, GivesUpAtEnd, InCall
<1>2. Calls' = Calls
  BY <1>1 DEF Calls
<1>3. NothingComes => NothingComes'
  BY <1>1 DEF NothingComes
<1>4. ASSUME NEW t \in Nat, Tracks(t) PROVE Tracks(t)'
  <2>1. Due(t) = {} /\ Due(t)' = {}
    BY <1>1 DEF Due
  <2>2. Pipeline(queue', wire', toAnswer', streamOpen', Due(t)')
    BY <1>1, <1>4, <2>1 DEF Tracks, Pipeline, Complete
  <2> QED  BY <1>1, <1>4, <2>1, <2>2 DEF Tracks
<1> QED  BY <1>1, <1>2, <1>3, <1>4 DEF BehindInv

(* ... a request, which adds a call that is due if it arrives ...          *)
LEMMA BehindSend ==
  ASSUME SessionInv, BehindInv, SendCall
  PROVE  BehindInv'
<1>1. /\ next_id' = next_id + 1 /\ got' = Nothing /\ pc = "send"
      /\ pc' = "posting" /\ UNCHANGED <<queue, wire, streamOpen, crlf, thread, lag>>
      /\ \/ toAnswer' = Append(toAnswer, next_id) /\ delivered' = delivered \cup {next_id}
         \/ UNCHANGED <<toAnswer, delivered>>
  BY DEF SendCall, sharedVars, settings
<1>2. /\ next_id \in Nat \ {0} /\ next_id \notin Calls /\ Calls' = Calls \cup {next_id}
      /\ \A i \in Calls : i < next_id
  BY <1>1 DEF SessionInv, SessionTypeOK, Calls
<1>3. /\ delivered \subseteq Calls /\ IsFiniteSet(delivered) /\ lag \in Nat
      /\ ~ InCall /\ next_id \notin delivered
  BY <1>1, <1>2 DEF BehindInv, InCall
<1>4. /\ delivered' \subseteq Calls' /\ IsFiniteSet(delivered') /\ lag' \in Nat
  <2>1. IsFiniteSet(delivered \cup {next_id})
    BY <1>3, FS_AddElement
  <2>2. delivered' = delivered \/ delivered' = delivered \cup {next_id}
    BY <1>1
  <2>3. delivered' \subseteq Calls' /\ IsFiniteSet(delivered')
    BY <1>2, <1>3, <2>1, <2>2
  <2> QED  BY <1>1, <1>3, <2>3
<1>5. NothingComes => NothingComes'
  BY <1>1 DEF NothingComes, Nothing
<1>6. ASSUME NEW t \in Nat, Tracks(t) PROVE Tracks(t)'
  <2>1. t < next_id /\ t \in delivered' \cup {0}
    BY <1>1, <1>2, <1>3, <1>6 DEF Tracks
  <2>2. IsFiniteSet(Due(t)) /\ Due(t) \subseteq Int /\ next_id \notin Due(t)
        /\ \A d \in Due(t) : d < next_id
    <3>1. Due(t) \in SUBSET delivered /\ delivered \subseteq Int
      BY <1>3, MessagesAreNumbers DEF Due, SessionInv
    <3> QED  BY <1>2, <1>3, <3>1, FS_Subset
  <2>3. CASE delivered' = delivered \cup {next_id} /\ toAnswer' = Append(toAnswer, next_id)
    <3>1. Due(t)' = Due(t) \cup {next_id}
      BY <2>1, <2>3 DEF Due
    <3>2. Cardinality(Due(t)') = Cardinality(Due(t)) + 1
      BY <2>2, <3>1, FS_AddElement
    <3>3. Pipeline(queue, wire, Append(toAnswer, next_id), streamOpen, Due(t) \cup {next_id})
      BY <1>2, <1>6, <2>2, PipeSend, MessagesAreNumbers DEF Tracks, SessionInv
    <3>4. Cardinality(Due(t)') = IF InCall' THEN lag' + 1 ELSE lag'
      <4>1. Cardinality(Due(t)) = lag
        BY <1>3, <1>6 DEF Tracks
      <4>2. InCall'
        BY <1>1, <1>2, <2>3 DEF InCall, Arrived
      <4> QED  BY <1>1, <3>2, <4>1, <4>2
    <3> QED  BY <1>1, <2>1, <2>3, <3>1, <3>3, <3>4 DEF Tracks, Nothing
  <2>4. CASE UNCHANGED <<toAnswer, delivered>>
    <3>1. Due(t)' = Due(t) /\ ~ InCall'
      BY <1>1, <1>2, <1>3, <2>4 DEF Due, InCall, Arrived
    <3> QED  BY <1>1, <1>3, <1>6, <2>1, <2>4, <3>1 DEF Tracks, Nothing
  <2> QED  BY <1>1, <2>3, <2>4
<1> QED  BY <1>1, <1>3, <1>4, <1>5, <1>6 DEF BehindInv

(* ... the end of a POST, after which the answer to a call that threw but  *)
(* had arrived stays due ...                                               *)
LEMMA BehindPost ==
  ASSUME SessionInv, BehindInv, PostEnds
  PROVE  BehindInv'
<1>1. /\ UNCHANGED <<next_id, got, queue, toAnswer, wire, streamOpen, crlf, delivered, thread>>
      /\ pc' # "construct"
  BY DEF PostEnds, PostReturns, NotifyReturns, Fail, sharedVars, serverVars, settings, history
<1>2. CASE UNCHANGED lag /\ (InCall' <=> InCall)
  BY <1>1, <1>2, BehindQuiet
<1>3. CASE InCall /\ ~ InCall' /\ lag' = lag + 1
  <2>1. NothingComes => NothingComes'
    BY <1>1 DEF NothingComes
  <2>2. ASSUME NEW t \in Nat, Tracks(t) PROVE Tracks(t)'
    <3>1. Due(t)' = Due(t)
      BY <1>1 DEF Due
    <3>2. Cardinality(Due(t)) = lag + 1
      BY <1>3, <2>2 DEF Tracks
    <3> QED  BY <1>1, <1>3, <2>2, <3>1, <3>2 DEF Tracks
  <2>3. Calls' = Calls /\ lag' \in Nat
    BY <1>1, <1>3 DEF Calls, BehindInv
  <2> QED  BY <1>1, <1>3, <2>1, <2>2, <2>3 DEF BehindInv
<1> QED
  <2>1. CASE PostReturns /\ pc' = "receive"
    BY <1>1, <1>2, <2>1 DEF PostReturns, InCall, Fail
  <2>2. CASE PostReturns /\ pc' # "receive"
    <3>1. pc' = "idle" /\ pc = "posting" /\ lag' = IF Arrived THEN lag + 1 ELSE lag
      BY <2>2 DEF PostReturns, Fail
    <3>2. ~ InCall' /\ (InCall <=> Arrived)
      BY <3>1 DEF InCall
    <3> QED  BY <1>2, <1>3, <3>1, <3>2
  <2>3. CASE NotifyReturns
    BY <1>2, <2>3 DEF NotifyReturns, Fail, InCall, history
  <2> QED  BY <2>1, <2>2, <2>3 DEF PostEnds

(* ... and an answer, which takes away the first that is due.              *)
LEMMA BehindTake ==
  ASSUME SessionInv, BehindInv, pc = "receive", queue # <<>>, TakeMessage, ReceiveFrame,
         ~ InCall', pc' # "construct"
  PROVE  BehindInv'
<1>0. PICK m : m = Head(queue)
  OBVIOUS
<1>1. /\ got' = m /\ queue' = Tail(queue) /\ lag' = IF m = Stray THEN lag + 1 ELSE lag
      /\ UNCHANGED <<next_id, toAnswer, wire, streamOpen, crlf, delivered>>
  BY <1>0 DEF TakeMessage, ReceiveFrame, serverVars, settings
<1>2. /\ queue \in Seq(Int) /\ wire \in Seq(Int) /\ toAnswer \in Seq(Int)
      /\ m \in Messages /\ m # Comment /\ InCall /\ Calls' = Calls
  <2>1. queue \in Seq(Messages) /\ 1 \in DOMAIN queue /\ m = queue[1]
    BY <1>0 DEF SessionInv, SessionTypeOK
  <2>2. m \in Messages /\ m # Comment
    BY <2>1 DEF BehindInv
  <2> QED  BY <1>1, <2>2, MessagesAreNumbers DEF SessionInv, InCall, Calls
<1>3. \A i \in DOMAIN queue' : queue'[i] # Comment
  <2>1. \A i \in DOMAIN queue' : i + 1 \in DOMAIN queue /\ queue'[i] = queue[i + 1]
    BY <1>1, <1>2
  <2> QED  BY <2>1 DEF BehindInv
<1>4. PICK t \in Nat : Tracks(t)
  BY DEF BehindInv, NothingComes
<1>5. /\ IsFiniteSet(Due(t)) /\ Due(t) \in SUBSET Int /\ Due(t) \subseteq delivered
      /\ delivered \subseteq Nat
  <2>1. Due(t) \in SUBSET delivered /\ delivered \subseteq Nat
    BY MessagesAreNumbers DEF Due, SessionInv, BehindInv
  <2>2. IsFiniteSet(Due(t))
    BY <2>1, FS_Subset DEF BehindInv
  <2>3. Due(t) \subseteq Int
    BY <2>1, MessagesAreNumbers DEF SessionInv, BehindInv
  <2> QED  BY <2>1, <2>2, <2>3
<1>6. Cardinality(Due(t)) = lag + 1 /\ lag \in Nat
  BY <1>2, <1>4 DEF Tracks, BehindInv
<1>7. Pipeline(queue, wire, toAnswer, streamOpen, Due(t))
  BY <1>4 DEF Tracks
<1>8. \E u \in Nat : Tracks(u)'
  <2>1. CASE m = Stray
    <3>1. ~ (m > 0) /\ lag' = lag + 1
      BY <1>1, <2>1, MessagesAreNumbers DEF SessionInv
    <3>2. Pipeline(Tail(queue), wire, toAnswer, streamOpen, Due(t))
      BY <1>0, <1>2, <1>5, <1>7, <3>1, PipeTake
    <3>3. Due(t)' = Due(t)
      BY <1>1 DEF Due
    <3>4. Tracks(t)'
      BY <1>1, <1>4, <1>6, <3>1, <3>2, <3>3 DEF Tracks
    <3> QED  BY <3>4
  <2>2. CASE m # Stray
    <3>1. m > 0 /\ lag' = lag
      BY <1>1, <1>2, <2>2, MessagesAreNumbers DEF SessionInv
    <3>2. /\ m \in Due(t) /\ {d \in Due(t) : m < d} = Due(t) \ {m}
          /\ Pipeline(Tail(queue), wire, toAnswer, streamOpen, Due(t) \ {m})
      BY <1>0, <1>2, <1>5, <1>7, <3>1, PipeTake
    <3>3. Due(m)' = Due(t) \ {m}
      <4>1. t < m /\ m \in Nat
        BY <1>5, <3>2 DEF Due
      <4>2. \A d \in delivered : m < d => t < d
        BY <1>5, <4>1
      <4>3. Due(m) = {d \in Due(t) : m < d}
        BY <4>2 DEF Due
      <4>4. Due(m)' = Due(m)
        BY <1>1 DEF Due
      <4> QED  BY <3>2, <4>3, <4>4
    <3>4. Cardinality(Due(m)') = lag
      <4>1. Cardinality(Due(t) \ {m}) = Cardinality(Due(t)) - 1
        BY <1>5, <3>2, FS_RemoveElement
      <4> QED  BY <1>6, <3>3, <4>1
    <3>5. m \in Nat /\ m \in delivered
      BY <1>5, <3>2
    <3>6. Tracks(m)'
      BY <1>1, <3>1, <3>2, <3>3, <3>4, <3>5 DEF Tracks
    <3> QED  BY <3>5, <3>6
  <2> QED  BY <2>1, <2>2
<1>9. lag' \in Nat /\ ~ crlf
  BY <1>1, <1>6 DEF BehindInv, NothingComes
<1> QED  BY <1>1, <1>2, <1>3, <1>8, <1>9 DEF BehindInv

LEMMA BehindCaller == SessionInv /\ BehindInv /\ Caller => BehindInv'
<1> SUFFICES ASSUME SessionInv, BehindInv, Caller PROVE BehindInv'
  OBVIOUS
<1>1. CASE MarkAlive \/ Notify \/ Invoke \/ Close \/ Join
  <2>1. /\ UNCHANGED <<next_id, got, queue, toAnswer, wire, streamOpen, crlf, delivered, lag>>
        /\ thread' = thread
    BY <1>1 DEF MarkAlive, Notify, Invoke, Close, Join, sharedVars, serverVars, settings, history
  <2>2. ~ InCall /\ ~ InCall' /\ pc' # "construct"
    BY <1>1 DEF MarkAlive, Notify, Invoke, Close, Join, InCall
  <2> QED  BY <2>1, <2>2, BehindQuiet
<1>2. CASE StartEventThread
  BY <1>2, BehindStart
<1>3. CASE SendCall
  BY <1>3, BehindSend
<1>4. CASE Receive
  <2>0. pc = "receive" /\ ReceiveFrame /\ InCall
    BY <1>4 DEF Receive, InCall
  <2>1. CASE MustWait
    <3>1. pc' = "asleep" /\ UNCHANGED <<got, queue, lag>>
      BY <1>4, <2>1 DEF Receive
    <3>2. UNCHANGED <<next_id, toAnswer, wire, streamOpen, crlf, delivered, thread>>
      BY <2>0 DEF ReceiveFrame, serverVars, settings
    <3> QED  BY <2>0, <3>1, <3>2, BehindQuiet DEF InCall
  <2>2. CASE ~ MustWait /\ queue = <<>>
    <3>1. got' = Closed /\ pc' = "idle" /\ UNCHANGED <<queue, lag>>
      BY <1>4, <2>2 DEF Receive, TransportClosed, Fail
    <3>2. UNCHANGED <<next_id, delivered, thread, crlf>>
      BY <2>0 DEF ReceiveFrame, settings
    <3>3. thread \in {"flagged", "ended"}
      BY <2>0, <2>2 DEF MustWait, SessionInv, GivesUpAtEnd
    <3>4. NothingComes'
      BY <2>2, <3>1, <3>2, <3>3 DEF NothingComes, Closed
    <3> QED  BY <3>1, <3>2, <3>4 DEF BehindInv, InCall, Calls
  <2>3. CASE ~ MustWait /\ queue # <<>>
    <3>1. TakeMessage
      BY <1>4, <2>3 DEF Receive
    <3>2. pc' \in {"send", "idle"}
      <4>1. stage \in {"initialize", "list", "invoke"}
        BY <2>0 DEF SessionInv, SessionTypeOK
      <4>2. ASSUME NEW m, CallReturns(m) PROVE pc' \in {"send", "idle"}
        BY <4>1, <4>2, CallGoesOn
      <4> QED  BY <3>1, <4>2 DEF TakeMessage, Fail
    <3>3. ~ InCall' /\ pc' # "construct"
      BY <3>2 DEF InCall
    <3> QED  BY <2>0, <2>3, <3>1, <3>3, BehindTake
  <2> QED  BY <2>1, <2>2, <2>3
<1> QED  BY <1>1, <1>2, <1>3, <1>4 DEF Caller

LEMMA BehindEventThread == SessionInv /\ BehindInv /\ EventThread => BehindInv'
<1> SUFFICES ASSUME SessionInv, BehindInv, EventThread PROVE BehindInv'
  OBVIOUS
<1>0. UNCHANGED <<next_id, got, toAnswer, streamOpen, crlf, delivered, lag>>
  BY DEF EventThread, PushFrame, NotifyOne, GetReturns, PushEof, NotifyAll, ThreadFrame, settings
<1>1. CASE NotifyOne \/ GetReturns \/ PushEof \/ NotifyAll
  <2>1. /\ UNCHANGED <<queue, wire>> /\ (pc' = pc \/ (pc = "asleep" /\ pc' = "receive"))
        /\ thread \in {"flagged", "ended"} => thread' \in {"flagged", "ended"}
    BY <1>1 DEF NotifyOne, GetReturns, PushEof, NotifyAll, WakeCaller
  <2> QED  BY <1>0, <2>1, BehindQuiet DEF InCall, Arrived
<1>2. CASE PushFrame
  <2>1. /\ thread = "reading" /\ wire # <<>> /\ wire' = Tail(wire) /\ pc' = pc
    BY <1>2 DEF PushFrame
  <2>2. /\ queue \in Seq(Int) /\ wire \in Seq(Int) /\ Head(wire) \in Messages
        /\ Calls' = Calls /\ (InCall' <=> InCall)
    <3>1. Head(wire) \in Messages
      BY <2>1 DEF SessionInv, SessionTypeOK
    <3> QED  BY <1>0, <2>1, <3>1, MessagesAreNumbers DEF SessionInv, Calls, InCall, Arrived
  <2>3. \A t : Due(t)' = Due(t)
    BY <1>0 DEF Due
  <2>4. CASE HasData(Head(wire))
    <3>1. queue' = Append(queue, Head(wire)) /\ Head(wire) # Comment /\ ~ crlf
      BY <1>2, <2>4 DEF PushFrame, HasData
    <3>2. \A i \in DOMAIN queue' : queue'[i] # Comment
      <4>1. \A i \in DOMAIN queue' : queue'[i] = Head(wire)
                                       \/ (i \in DOMAIN queue /\ queue'[i] = queue[i])
        BY <2>2, <3>1
      <4> QED  BY <3>1, <4>1 DEF BehindInv
    <3>3. PICK t \in Nat : Tracks(t)
      BY <2>1, <3>1 DEF BehindInv, NothingComes
    <3>4. Pipeline(queue', wire', toAnswer', streamOpen', Due(t)')
      BY <1>0, <2>1, <2>2, <2>3, <3>1, <3>3, PipePush DEF Tracks
    <3>5. Tracks(t)'
      BY <1>0, <2>2, <2>3, <3>3, <3>4 DEF Tracks
    <3> QED  BY <1>0, <2>1, <2>2, <3>1, <3>2, <3>5 DEF BehindInv
  <2>5. CASE ~ HasData(Head(wire))
    <3>1. UNCHANGED <<queue, thread>>
      BY <1>2, <2>5 DEF PushFrame
    <3>2. NothingComes => NothingComes'
      BY <1>0, <3>1 DEF NothingComes
    <3>3. CASE crlf
      BY <1>0, <2>1, <2>2, <3>1, <3>2, <3>3 DEF BehindInv
    <3>4. CASE ~ crlf
      <4>1. ~ (Head(wire) > 0)
        BY <2>5, <3>4, MessagesAreNumbers DEF HasData, SessionInv
      <4>2. ASSUME NEW t \in Nat, Tracks(t) PROVE Tracks(t)'
        <5>1. Pipeline(queue, Tail(wire), toAnswer, streamOpen, Due(t))
          BY <2>1, <2>2, <4>1, <4>2, PipeDrop DEF Tracks
        <5> QED  BY <1>0, <2>1, <2>2, <2>3, <3>1, <4>2, <5>1 DEF Tracks
      <4> QED  BY <1>0, <2>1, <2>2, <3>1, <3>2, <4>2 DEF BehindInv
    <3> QED  BY <3>3, <3>4
  <2> QED  BY <2>4, <2>5
<1> QED  BY <1>1, <1>2 DEF EventThread

LEMMA BehindServer == SessionInv /\ BehindInv /\ Server => BehindInv'
<1> SUFFICES ASSUME SessionInv, BehindInv, Server PROVE BehindInv'
  OBVIOUS
<1>0. UNCHANGED <<next_id, got, pc, queue, crlf, delivered, lag, thread>>
  BY DEF Server, Answer, SendOwn, StreamEnds, ServerFrame, callerVars, sharedVars, settings, history
<1>1. \A t : Due(t)' = Due(t)
  BY <1>0 DEF Due
<1>2. /\ Calls' = Calls /\ (InCall' <=> InCall) /\ (NothingComes => NothingComes')
  BY <1>0 DEF Calls, InCall, Arrived, NothingComes
<1>3. ASSUME NEW t \in Nat, Tracks(t) PROVE Tracks(t)'
  <2>1. /\ queue \in Seq(Int) /\ wire \in Seq(Int) /\ toAnswer \in Seq(Int)
        /\ Due(t) \in SUBSET Int /\ Numbered(queue) \subseteq Int
    <3>1. queue \in Seq(Int) /\ wire \in Seq(Int) /\ toAnswer \in Seq(Int) /\ delivered \subseteq Int
      BY MessagesAreNumbers DEF SessionInv, BehindInv
    <3>2. Due(t) \in SUBSET Int
      BY <3>1 DEF Due
    <3>3. Numbered(queue) \subseteq Int
      BY <3>1 DEF Numbered, Range
    <3> QED  BY <3>1, <3>2, <3>3
  <2>2. Pipeline(queue, wire, toAnswer, streamOpen, Due(t))
    BY <1>3 DEF Tracks
  <2>3. Pipeline(queue', wire', toAnswer', streamOpen', Due(t)')
    <3>1. CASE Answer
      <4>1. /\ streamOpen /\ toAnswer # <<>> /\ streamOpen' = streamOpen
            /\ wire' = Append(wire, Head(toAnswer)) /\ toAnswer' = Tail(toAnswer)
        BY <3>1 DEF Answer
      <4>2. Head(toAnswer) \in Calls
        BY <4>1 DEF SessionInv, SessionTypeOK
      <4>3. Head(toAnswer) > 0
        BY <4>2, MessagesAreNumbers DEF SessionInv
      <4> QED  BY <1>0, <1>1, <2>1, <2>2, <4>1, <4>3, PipeAnswer
    <3>2. CASE SendOwn
      <4>1. PICK m \in {Stray, Comment} : wire' = Append(wire, m)
        BY <3>2 DEF SendOwn
      <4>2. m \in Int /\ ~ (m > 0) /\ UNCHANGED <<toAnswer, streamOpen>>
        BY <3>2, MessagesAreNumbers DEF SendOwn, SessionInv, Stray, Comment
      <4> QED  BY <1>0, <1>1, <2>1, <2>2, <4>1, <4>2, PipeOwn
    <3>3. CASE StreamEnds
      <4>1. streamOpen' = FALSE /\ toAnswer' = toAnswer /\ (wire' = wire \/ wire' = <<>>)
        BY <3>3 DEF StreamEnds
      <4>2. Pipeline(queue, wire, toAnswer, FALSE, Due(t)) /\ Pipeline(queue, <<>>, toAnswer, FALSE, Due(t))
        BY <2>1, <2>2, PipeEnds
      <4> QED  BY <1>0, <1>1, <4>1, <4>2
    <3> QED  BY <3>1, <3>2, <3>3 DEF Server
  <2> QED  BY <1>0, <1>1, <1>2, <1>3, <2>3 DEF Tracks
<1> QED  BY <1>0, <1>2, <1>3 DEF BehindInv

-----------------------------------------------------------------------------
(* A call fails as closed only if its answer never reached the queue: one  *)
(* that came before the end of the stream, or between the caller's test and*)
(* its wait, is taken (mcp_host.cpp:207-218, 262-268).                     *)
THEOREM AnswersOutliveStream == Spec => []AnswerOutlivesStream
<1>1. SessionInv => AnswerOutlivesStream
  BY DEF SessionInv
<1> QED  BY SessionInvInit, SessionInvStep, <1>1, PTL DEF Spec

LEMMA BehindInvStep == SessionInv /\ BehindInv /\ [Next]_vars => BehindInv'
<1> SUFFICES ASSUME SessionInv, BehindInv, UNCHANGED vars PROVE BehindInv'
  BY BehindCaller, BehindPost, BehindEventThread, BehindServer DEF Next, Over
<1>1. /\ UNCHANGED <<next_id, got, queue, toAnswer, wire, streamOpen, crlf, delivered, lag>>
      /\ pc' = pc /\ thread' = thread
  BY DEF vars, callerVars, sharedVars, serverVars, settings, history
<1> QED  BY <1>1, BehindQuiet DEF InCall, Arrived

(* call compares no ids, yet the caller is never behind by chance: the     *)
(* answer it takes is one the server gave, and it is behind by exactly the *)
(* messages it took for answers and the requests that arrived although     *)
(* their send threw (json_rpc.cpp:18-38, mcp_host.cpp:255-268).            *)
THEOREM CallerIsBehindByStrays == Spec => []BehindByStrays
<1>1. SessionInv /\ BehindInv => BehindByStrays
  BY BehindFromInv DEF SessionInv
<1> QED  BY SessionInvInit, SessionInvStep, BehindInvInit, BehindInvStep, <1>1, PTL DEF Spec
=============================================================================
