---------------------------- MODULE ReplayProofs ----------------------------
(* What holds of the log's numbers for any threads, sinks, width of the    *)
(* counter and number of events.                                           *)
EXTENDS Replay, TLAPS

LEMMA NextNumber ==
  ASSUME NEW m \in Nat \ {0}, NEW a \in 0..(m - 1)
  PROVE  (a + 1) % m \in 0..(m - 1) /\ (a # m - 1 => (a + 1) % m = a + 1)
  OBVIOUS

-----------------------------------------------------------------------------
Event == [n : Nat, seq : 0..(Modulus - 1), numbered : BOOLEAN]

LogTypeOK ==
  /\ last_seq \in 0..(Modulus - 1) /\ count \in Nat /\ wrapped \in BOOLEAN
  /\ events \in Seq(Event)

(* NumbersGrow is not inductive by itself: the next number is above the    *)
(* last one, so the last one must be above every event of the log.         *)
LastIsHighest == ~ wrapped => \A i \in DOMAIN events : events[i].seq <= last_seq

LogInv == LogTypeOK /\ LastIsHighest /\ NumbersGrow

LEMMA LogInvInit == Init => LogInv
<1> SUFFICES ASSUME Init PROVE LogInv
  OBVIOUS
<1>1. events = <<>> /\ last_seq = 0 /\ count = 0 /\ wrapped = FALSE
  BY DEF Init
<1>2. DOMAIN events = {} /\ events \in Seq(Event)
  BY <1>1
<1>3. 0 \in 0..(Modulus - 1) /\ 0 \in Nat
  BY ReplayAssumption
<1>4. LogTypeOK
  BY <1>1, <1>2, <1>3 DEF LogTypeOK
<1> QED  BY <1>2, <1>4 DEF LogInv, LastIsHighest, NumbersGrow

(* Only record and clear touch the log.                                    *)
LEMMA LogInvStep == LogInv /\ [Next]_vars => LogInv'
<1> SUFFICES ASSUME LogInv, [Next]_vars
             PROVE  LogInv'
  OBVIOUS
<1> USE ReplayAssumption
<1> DEFINE Untouched == UNCHANGED <<events, last_seq, count, wrapped>>
<1>0. ASSUME Untouched PROVE LogInv'
  BY <1>0 DEF LogInv, LogTypeOK, LastIsHighest, NumbersGrow
<1>1. ASSUME NEW t \in Threads, NEW given \in 0..(Modulus - 1), Record(t, given)
      PROVE  LogInv'
  <2> DEFINE e == [n |-> count + 1, seq |-> IF given = 0 THEN last_seq' ELSE given,
                   numbered |-> given = 0]
  <2>1. /\ last_seq' \in 0..(Modulus - 1) /\ wrapped' \in BOOLEAN
        /\ ~ wrapped' => ~ wrapped /\ last_seq <= last_seq' /\ given <= last_seq'
                          /\ (given = 0 => last_seq < last_seq')
    <3>1. /\ last_seq \in 0..(Modulus - 1) /\ wrapped \in BOOLEAN /\ Number(given)
      BY <1>1 DEF LogInv, LogTypeOK, Record
    <3>2. CASE given = 0
      <4>1. last_seq' = (last_seq + 1) % Modulus
        BY <3>1, <3>2 DEF Number
      <4>2. wrapped' = (wrapped \/ last_seq = Modulus - 1)
        BY <3>1, <3>2 DEF Number
      <4>3. /\ (last_seq + 1) % Modulus \in 0..(Modulus - 1)
            /\ last_seq # Modulus - 1 => (last_seq + 1) % Modulus = last_seq + 1
        BY <3>1, NextNumber
      <4>4. last_seq' \in 0..(Modulus - 1) /\ wrapped' \in BOOLEAN
        BY <4>1, <4>2, <4>3
      <4>5. CASE last_seq = Modulus - 1
        BY <4>2, <4>4, <4>5
      <4>6. CASE last_seq # Modulus - 1
        <5>1. wrapped' = wrapped
          BY <3>1, <4>2, <4>6
        <5>2. last_seq <= last_seq' /\ given <= last_seq' /\ last_seq < last_seq'
          BY <3>1, <3>2, <4>1, <4>3, <4>6
        <5> QED  BY <4>4, <5>1, <5>2
      <4> QED  BY <4>5, <4>6
    <3>3. CASE given # 0
      <4>1. last_seq' = (IF last_seq < given THEN given ELSE last_seq) /\ wrapped' = wrapped
        BY <3>1, <3>3 DEF Number
      <4> QED  BY <3>1, <3>3, <4>1
    <3> QED  BY <3>2, <3>3
  <2>2. events' = Append(events, e) /\ count' = count + 1
    BY <1>1 DEF Record
  <2>3. e \in Event
    BY <2>1 DEF Event, LogInv, LogTypeOK
  <2>4. LogTypeOK'
    BY <2>1, <2>2, <2>3 DEF LogInv, LogTypeOK
  <2>5. /\ DOMAIN events' = 1..(Len(events) + 1) /\ DOMAIN events = 1..Len(events)
        /\ \A i \in DOMAIN events : events'[i] = events[i] /\ events[i] \in Event
        /\ events'[Len(events) + 1] = e /\ Len(events) \in Nat
    <3> HIDE DEF e
    <3> QED  BY <2>2, <2>3 DEF LogInv, LogTypeOK
  <2>6. e.seq = (IF given = 0 THEN last_seq' ELSE given) /\ e.numbered = (given = 0)
    OBVIOUS
  <2> HIDE DEF e
  <2>7. LastIsHighest'
    <3> SUFFICES ASSUME ~ wrapped', NEW i \in DOMAIN events' PROVE events'[i].seq <= last_seq'
      BY DEF LastIsHighest
    <3>1. CASE i \in DOMAIN events
      <4>1. events'[i] = events[i] /\ events[i].seq \in Int /\ events[i].seq <= last_seq
        BY <2>1, <2>5, <3>1 DEF LogInv, LastIsHighest, Event
      <4> QED  BY <2>1, <4>1 DEF LogInv, LogTypeOK
    <3>2. CASE i = Len(events) + 1
      BY <2>1, <2>5, <2>6, <3>2
    <3> QED  BY <2>5, <3>1, <3>2
  <2>8. NumbersGrow'
    <3> SUFFICES ASSUME ~ wrapped', NEW i \in DOMAIN events', NEW j \in DOMAIN events',
                        i < j, events'[j].numbered
                 PROVE  events'[i].seq < events'[j].seq
      BY DEF NumbersGrow
    <3>1. i \in DOMAIN events
      BY <2>5
    <3>2. CASE j \in DOMAIN events
      BY <2>1, <2>5, <3>1, <3>2 DEF LogInv, NumbersGrow
    <3>3. CASE j = Len(events) + 1
      <4>1. events'[i] = events[i] /\ events[i].seq \in Int /\ events[i].seq <= last_seq
        BY <2>1, <2>5, <3>1 DEF LogInv, LastIsHighest, Event
      <4>2. events'[j].seq = last_seq' /\ last_seq < last_seq'
        BY <2>1, <2>5, <2>6, <3>3
      <4> QED  BY <2>1, <4>1, <4>2 DEF LogInv, LogTypeOK
    <3> QED  BY <2>5, <3>2, <3>3
  <2> QED  BY <2>4, <2>7, <2>8 DEF LogInv
<1>2. ASSUME NEW t \in Threads, Clear(t)
      PROVE  LogInv'
  BY <1>2 DEF Clear, LogInv, LogTypeOK, LastIsHighest, NumbersGrow
<1>3. ASSUME NEW t \in Threads, ReplayInto(t) \/ Deliver(t) \/ DeliverThrows(t) \/ Return(t)
      PROVE  LogInv'
  BY <1>0, <1>3 DEF ReplayInto, Deliver, DeliverThrows, Return, logVars
<1>4. ASSUME NEW t \in Threads, NEW s \in Sinks, Subscribe(t, s)
      PROVE  LogInv'
  BY <1>0, <1>4 DEF Subscribe
<1>5. ASSUME NEW t \in Threads, NEW from, NEW to, Link(t, from, to)
      PROVE  LogInv'
  BY <1>0, <1>5 DEF Link
<1>6. CASE UNCHANGED vars
  BY <1>0, <1>6 DEF vars, logVars
<1> QED  BY <1>1, <1>2, <1>3, <1>4, <1>5, <1>6 DEF Next, Call

(* A number given by the log is above every earlier one, explicit numbers  *)
(* included, as long as the counter does not wrap around (replay.cpp:10).  *)
THEOREM NumbersAlwaysGrow == Spec => []NumbersGrow
<1>1. LogInv => NumbersGrow
  BY DEF LogInv
<1> QED  BY LogInvInit, LogInvStep, <1>1, PTL DEF Spec

-----------------------------------------------------------------------------
Increasing(q) == \A i, j \in DOMAIN q : i < j => q[i] < q[j]

LEMMA AppendAbove ==
  ASSUME NEW q \in Seq(Nat), NEW n \in Nat, Increasing(q), \A m \in Range(q) : m < n
  PROVE  /\ Append(q, n) \in Seq(Nat) /\ Increasing(Append(q, n))
         /\ Range(Append(q, n)) = Range(q) \cup {n}
<1> DEFINE u == Append(q, n)
<1>1. /\ u \in Seq(Nat) /\ Len(q) \in Nat /\ DOMAIN q = 1..Len(q) /\ DOMAIN u = 1..(Len(q) + 1)
      /\ u[Len(q) + 1] = n /\ \A i \in DOMAIN q : u[i] = q[i] /\ q[i] \in Range(q)
  BY DEF Range
<1> HIDE DEF u
<1>2. Increasing(u)
  <2> SUFFICES ASSUME NEW i \in DOMAIN u, NEW j \in DOMAIN u, i < j PROVE u[i] < u[j]
    BY DEF Increasing
  <2>1. i \in DOMAIN q
    BY <1>1
  <2>2. CASE j \in DOMAIN q
    BY <1>1, <2>1, <2>2 DEF Increasing
  <2>3. CASE j = Len(q) + 1
    BY <1>1, <2>1, <2>3
  <2> QED  BY <1>1, <2>2, <2>3
<1>3. Range(u) = Range(q) \cup {n}
  <2>1. \A i \in DOMAIN u : u[i] \in Range(q) \cup {n}
    BY <1>1
  <2>2. n \in Range(u) /\ \A i \in DOMAIN q : i \in DOMAIN u /\ u[i] = q[i]
    BY <1>1 DEF Range
  <2> QED  BY <2>1, <2>2 DEF Range
<1> QED  BY <1>1, <1>2, <1>3 DEF u

LEMMA NothingHanded == <<>> \in Seq(Nat) /\ Increasing(<<>>) /\ Range(<<>>) = {}
BY DEF Increasing, Range

(* What a subscription was handed is all that is due to it, or all but the *)
(* event that is being recorded; the sink of a replay has the first k.     *)
Got(s) == Range(received[s])

UpToDate(s) == Increasing(received[s]) /\ Got(s) = Due(s)
OneBehind(s) == Increasing(received[s]) /\ count \in Due(s) /\ Got(s) = Due(s) \ {count}
Served == \A s \in 1..Len(sinks) : UpToDate(s)
Replayed(k) == Increasing(received[0]) /\ Got(0) = (joined[0] + 1)..(joined[0] + k)

DeliveryTypeOK ==
  /\ holder \in Threads \cup {None}
  /\ pc \in [Threads -> {"idle", "delivering", "blocked"}]
  /\ todo \in [Threads -> Seq(Slots \X Event)]
  /\ sinks \in Seq(Sinks) /\ Len(sinks) <= MaxSinks
  /\ joined \in [Slots -> 0..count]
  /\ received \in [Slots -> Seq(Nat)]
  /\ thrown \subseteq Nat \X (1..count)

(* The log is a stretch of the events ever recorded, up to the last one.   *)
LogIsStretch ==
  Len(events) <= count /\ \A i \in 1..Len(events) : events[i].n = count - Len(events) + i

MutualExclusion == \A t \in Threads : pc[t] # "idle" <=> holder = t

(* A record under way: the first k subscriptions have the event, the others*)
(* are one behind.                                                         *)
RecordingAt(t, k) ==
  /\ Len(todo[t]) = Len(sinks) - k
  /\ \A i \in 1..Len(todo[t]) : todo[t][i][1] = k + i /\ todo[t][i][2].n = count
  /\ \A s \in 1..k : UpToDate(s)
  /\ \A s \in (k + 1)..Len(sinks) : OneBehind(s)

Recording(t) == \E k \in 0..Len(sinks) : RecordingAt(t, k)

(* A replay under way: every subscription has everything.                  *)
ReplayingAt(t, k) ==
  /\ Served
  /\ Len(todo[t]) = Len(events) - k
  /\ \A i \in 1..Len(todo[t]) : todo[t][i][1] = 0 /\ todo[t][i][2].n = joined[0] + k + i
  /\ joined[0] = count - Len(events)
  /\ Replayed(k)

Replaying(t) == \E k \in 0..Len(events) : ReplayingAt(t, k)

NeverAhead ==
  /\ \A s \in 1..Len(sinks) : UpToDate(s) \/ OneBehind(s)
  /\ \E k \in 0..(count - joined[0]) : Replayed(k)

DeliveryInv ==
  /\ LogTypeOK /\ DeliveryTypeOK /\ LogIsStretch /\ MutualExclusion /\ NeverAhead
  /\ holder = None => Served
  /\ \A t \in Threads : pc[t] = "delivering" => Recording(t) \/ Replaying(t)

LEMMA Shapes ==
  ASSUME DeliveryInv
  PROVE  /\ MaxSinks \in Nat /\ 0 \in Slots /\ count \in Nat /\ DeliveryTypeOK
         /\ events \in Seq(Event) /\ Len(events) \in Nat
         /\ DOMAIN sinks = 1..Len(sinks) /\ Len(sinks) \in Nat /\ Len(sinks) <= MaxSinks
         /\ \A s \in 1..Len(sinks) : s \in Slots /\ s # 0
         /\ \A s \in Slots : joined[s] \in 0..count
<1>1. MaxSinks \in Nat /\ 0 \in Slots
  BY ReplayAssumption DEF Slots
<1>2. count \in Nat /\ events \in Seq(Event) /\ Len(events) \in Nat
  BY DEF DeliveryInv, LogTypeOK
<1>3. /\ DeliveryTypeOK /\ sinks \in Seq(Sinks) /\ Len(sinks) <= MaxSinks
      /\ joined \in [Slots -> 0..count]
  BY DEF DeliveryInv, DeliveryTypeOK
<1>4. DOMAIN sinks = 1..Len(sinks) /\ Len(sinks) \in Nat
  BY <1>3
<1>5. \A s \in 1..Len(sinks) : s \in Slots /\ s # 0
  BY <1>1, <1>3, <1>4 DEF Slots
<1> QED  BY <1>1, <1>2, <1>3, <1>4, <1>5

LEMMA DeliveryImplies == DeliveryInv => DeliveredInLogOrder
<1> SUFFICES ASSUME DeliveryInv, NEW s \in DOMAIN sinks \cup {0}
             PROVE  /\ Increasing(received[s]) /\ Got(s) \subseteq Due(s)
                    /\ \A m \in Got(s), n \in Due(s) : n < m => n \in Got(s)
                    /\ holder = None /\ s # 0 => Got(s) = Due(s)
  BY DEF DeliveredInLogOrder, Got, Increasing
<1>1. DOMAIN sinks = 1..Len(sinks) /\ count \in Nat /\ joined[0] \in 0..count
  BY Shapes
<1>2. Due(s) \subseteq Int /\ \A n \in Due(s) : n <= count
  BY <1>1 DEF Due, DeliveryInv, DeliveryTypeOK, Slots
<1>3. CASE s = 0
  <2>1. PICK k \in 0..(count - joined[0]) : Replayed(k)
    BY DEF DeliveryInv, NeverAhead
  <2>2. Due(0) = (joined[0] + 1)..count
    BY <1>1 DEF Due
  <2> QED  BY <1>1, <1>3, <2>1, <2>2 DEF Replayed
<1>4. CASE s # 0
  <2>1. s \in 1..Len(sinks) /\ (UpToDate(s) \/ OneBehind(s))
    BY <1>1, <1>4 DEF DeliveryInv, NeverAhead
  <2>2. holder = None => UpToDate(s)
    BY <2>1 DEF DeliveryInv, Served
  <2>3. CASE UpToDate(s)
    BY <2>3 DEF UpToDate
  <2>4. CASE OneBehind(s) /\ ~ UpToDate(s)
    BY <1>2, <2>2, <2>4 DEF OneBehind
  <2> QED  BY <2>1, <2>3, <2>4
<1> QED  BY <1>3, <1>4

LEMMA DeliveryInvInit == Init => DeliveryInv
<1> SUFFICES ASSUME Init PROVE DeliveryInv
  OBVIOUS
<1>1. LogTypeOK
  BY LogInvInit DEF LogInv
<1>2. /\ holder = None /\ events = <<>> /\ sinks = <<>> /\ count = 0 /\ thrown = {}
      /\ pc = [t \in Threads |-> "idle"] /\ todo = [t \in Threads |-> <<>>]
      /\ joined = [s \in Slots |-> 0] /\ received = [s \in Slots |-> <<>>]
      /\ 0 \in Slots /\ MaxSinks \in Nat
  BY ReplayAssumption DEF Init, Slots
<1>3. DeliveryTypeOK
  <2>1. <<>> \in Seq(Slots \X Event) /\ sinks \in Seq(Sinks) /\ Len(sinks) <= MaxSinks
    BY <1>2
  <2> QED  BY <1>2, <2>1, NothingHanded DEF DeliveryTypeOK
<1>4. Len(sinks) = 0 /\ Len(events) = 0
  BY <1>2
<1>5. Replayed(0) /\ count - joined[0] = 0
  <2>1. joined[0] = 0 /\ received[0] = <<>>
    BY <1>2
  <2>2. Got(0) = (joined[0] + 1)..(joined[0] + 0)
    BY <2>1, NothingHanded DEF Got
  <2> QED  BY <1>2, <2>1, <2>2, NothingHanded DEF Replayed
<1>6. LogIsStretch /\ Served /\ NeverAhead
  BY <1>2, <1>4, <1>5 DEF LogIsStretch, Served, NeverAhead
<1>7. MutualExclusion /\ \A t \in Threads : pc[t] # "delivering"
  BY <1>2, ReplayAssumption DEF MutualExclusion
<1> QED  BY <1>1, <1>3, <1>6, <1>7 DEF DeliveryInv

(* A new event puts every subscription one behind.                         *)
LEMMA RecordStep ==
  ASSUME LogInv, DeliveryInv, LogTypeOK',
         NEW t \in Threads, NEW given \in 0..(Modulus - 1), Record(t, given)
  PROVE  DeliveryInv'
<1> DEFINE e == [n |-> count + 1, seq |-> IF given = 0 THEN last_seq' ELSE given,
                 numbered |-> given = 0]
<1>1. /\ holder = None /\ pc[t] = "idle" /\ events' = Append(events, e) /\ count' = count + 1
      /\ UNCHANGED <<sinks, joined, received, thrown>>
      /\ holder' = t /\ pc' = [pc EXCEPT ![t] = "delivering"]
      /\ todo' = [todo EXCEPT ![t] = [i \in DOMAIN sinks |-> <<i, e>>]]
  BY DEF Record, Free, Acquire, sinkVars
<1>2. e.n = count + 1
  OBVIOUS
<1>3. /\ count \in Nat /\ events \in Seq(Event) /\ events' \in Seq(Event) /\ DeliveryTypeOK
  BY <1>1 DEF DeliveryInv, LogTypeOK
<1> HIDE DEF e
<1>4. /\ Len(events') = Len(events) + 1 /\ events'[Len(events) + 1] = e
      /\ \A i \in 1..Len(events) : events'[i] = events[i]
      /\ e \in Event /\ Len(events) \in Nat
  <2>1. Len(events') = Len(events) + 1 /\ events'[Len(events) + 1] = e /\ Len(events) \in Nat
    BY <1>1, <1>3
  <2>2. \A i \in 1..Len(events) : events'[i] = events[i]
    BY <1>1, <1>3
  <2> QED  BY <1>3, <2>1, <2>2
<1>5. LogIsStretch'
  <2>1. Len(events) <= count /\ \A i \in 1..Len(events) : events[i].n = count - Len(events) + i
    BY DEF DeliveryInv, LogIsStretch
  <2>2. ASSUME NEW i \in 1..Len(events') PROVE events'[i].n = count' - Len(events') + i
    <3>1. CASE i \in 1..Len(events)
      BY <1>1, <1>3, <1>4, <2>1, <3>1
    <3>2. CASE i = Len(events) + 1
      BY <1>1, <1>2, <1>3, <1>4, <3>2
    <3> QED  BY <1>4, <3>1, <3>2
  <2> QED  BY <1>1, <1>3, <1>4, <2>1, <2>2 DEF LogIsStretch
<1>6. /\ DOMAIN sinks = 1..Len(sinks) /\ Len(sinks) \in Nat
      /\ \A i \in 1..Len(sinks) : i \in Slots
      /\ \A s \in Slots : joined[s] \in 0..count /\ joined[s] \in 0..count'
  <2>1. 0..count \subseteq 0..count'
    BY <1>1, <1>3
  <2> QED  BY <2>1, Shapes
<1>7. DeliveryTypeOK'
  <2>1. [i \in DOMAIN sinks |-> <<i, e>>] \in Seq(Slots \X Event)
    <3>1. \A i \in DOMAIN sinks : <<i, e>> \in Slots \X Event
      BY <1>4, <1>6
    <3> QED  BY <1>6, <3>1
  <2>2. todo' \in [Threads -> Seq(Slots \X Event)]
    BY <1>1, <1>3, <2>1 DEF DeliveryTypeOK
  <2>3. joined' \in [Slots -> 0..count']
    BY <1>1, <1>3, <1>6 DEF DeliveryTypeOK
  <2>4. thrown' \subseteq Nat \X (1..count')
    BY <1>1, <1>3 DEF DeliveryTypeOK
  <2> QED  BY <1>1, <1>3, <2>2, <2>3, <2>4 DEF DeliveryTypeOK
<1>8. MutualExclusion'
  BY <1>1, <1>3, ReplayAssumption DEF DeliveryInv, DeliveryTypeOK, MutualExclusion
<1>9. ASSUME NEW s \in 1..Len(sinks) PROVE OneBehind(s)'
  <2>1. \A r : <<r, count + 1>> \notin thrown
    BY <1>3 DEF DeliveryTypeOK
  <2>2. joined[s] \in 0..count
    BY <1>6
  <2>3. Due(s)' = Due(s) \cup {count'}
    BY <1>1, <1>3, <2>1, <2>2 DEF Due
  <2>4. count' \notin Due(s)
    BY <1>1, <1>3, <2>2 DEF Due
  <2>5. Increasing(received[s]) /\ Got(s) = Due(s)
    BY <1>1 DEF DeliveryInv, Served, UpToDate
  <2> QED  BY <1>1, <2>3, <2>4, <2>5 DEF OneBehind, Got
<1>10. NeverAhead'
  <2>1. PICK k \in 0..(count - joined[0]) : Replayed(k)
    BY DEF DeliveryInv, NeverAhead
  <2>2. Replayed(k)'
    BY <1>1, <2>1 DEF Replayed, Got
  <2>3. k \in 0..(count' - joined'[0])
    <3>1. joined[0] \in 0..count
      BY <1>6, ReplayAssumption DEF Slots
    <3> QED  BY <1>1, <1>3, <2>1, <3>1
  <2> QED  BY <1>1, <1>9, <2>2, <2>3 DEF NeverAhead
<1>11. RecordingAt(t, 0)'
  <2>1. /\ Len(todo'[t]) = Len(sinks)
        /\ \A i \in 1..Len(sinks) : todo'[t][i] = <<i, e>>
    BY <1>1, <1>3, <1>6 DEF DeliveryTypeOK
  <2>2. ASSUME NEW i \in 1..Len(sinks)
        PROVE  todo'[t][i][1] = 0 + i /\ todo'[t][i][2].n = count'
    <3>1. todo'[t][i] = <<i, e>> /\ 0 + i = i
      BY <2>1
    <3>2. <<i, e>>[1] = i /\ <<i, e>>[2] = e
      OBVIOUS
    <3> QED  BY <1>1, <1>2, <3>1, <3>2
  <2>3. Len(sinks') = Len(sinks) /\ Len(sinks) = Len(sinks) - 0
    BY <1>1, <1>6
  <2> QED  BY <1>9, <2>1, <2>2, <2>3 DEF RecordingAt
<1>12. \A u \in Threads : pc'[u] = "delivering" => u = t
  BY <1>1, <1>3, ReplayAssumption DEF DeliveryInv, DeliveryTypeOK, MutualExclusion
<1>13. Recording(t)'
  BY <1>1, <1>6, <1>11 DEF Recording
<1> QED  BY <1>1, <1>5, <1>7, <1>8, <1>10, <1>12, <1>13, ReplayAssumption DEF DeliveryInv

(* Between two calls every subscription has everything, and replay_into    *)
(* starts its own sink with nothing.                                       *)
LEMMA ReplayIntoStep ==
  ASSUME DeliveryInv, LogTypeOK', NEW t \in Threads, ReplayInto(t)
  PROVE  DeliveryInv'
<1>1. /\ holder = None /\ pc[t] = "idle" /\ UNCHANGED <<events, count, sinks, thrown>>
      /\ received' = [received EXCEPT ![0] = <<>>]
      /\ joined' = [joined EXCEPT ![0] = count - Len(events)]
      /\ holder' = t /\ pc' = [pc EXCEPT ![t] = "delivering"]
      /\ todo' = [todo EXCEPT ![t] = [i \in DOMAIN events |-> <<0, events[i]>>]]
  BY DEF ReplayInto, Free, Acquire, logVars
<1>2. /\ count \in Nat /\ events \in Seq(Event) /\ DeliveryTypeOK /\ LogIsStretch
      /\ MaxSinks \in Nat /\ 0 \in Slots
  BY ReplayAssumption DEF DeliveryInv, LogTypeOK, Slots
<1>3. \A s \in 1..Len(sinks) : s \in Slots /\ s # 0
  BY <1>2 DEF DeliveryTypeOK, Slots
<1>4. \A s \in 1..Len(sinks) : received'[s] = received[s] /\ joined'[s] = joined[s]
  BY <1>1, <1>2, <1>3 DEF DeliveryTypeOK
<1>5. /\ Len(events) \in 0..count /\ DOMAIN events = 1..Len(events)
      /\ received'[0] = <<>> /\ joined'[0] = count - Len(events) /\ joined'[0] \in 0..count
  BY <1>1, <1>2 DEF LogIsStretch, DeliveryTypeOK
<1>6. DeliveryTypeOK'
  <2>1. [i \in DOMAIN events |-> <<0, events[i]>>] \in Seq(Slots \X Event)
    <3>1. \A i \in DOMAIN events : <<0, events[i]>> \in Slots \X Event
      BY <1>2
    <3> QED  BY <1>2, <1>5, <3>1
  <2>2. todo' \in [Threads -> Seq(Slots \X Event)]
    BY <1>1, <1>2, <2>1 DEF DeliveryTypeOK
  <2>3. joined' \in [Slots -> 0..count']
    BY <1>1, <1>2, <1>5 DEF DeliveryTypeOK
  <2>4. received' \in [Slots -> Seq(Nat)]
    BY <1>1, <1>2, NothingHanded DEF DeliveryTypeOK
  <2> QED  BY <1>1, <1>2, <2>2, <2>3, <2>4 DEF DeliveryTypeOK
<1>7. LogIsStretch' /\ MutualExclusion'
  BY <1>1, <1>2, ReplayAssumption DEF DeliveryInv, DeliveryTypeOK, MutualExclusion, LogIsStretch
<1>8. Served'
  <2> SUFFICES ASSUME NEW s \in 1..Len(sinks) PROVE UpToDate(s)'
    BY <1>1 DEF Served
  <2>1. Due(s)' = Due(s) /\ Got(s)' = Got(s)
    BY <1>1, <1>4 DEF Due, Got
  <2> QED  BY <1>1, <1>4, <2>1 DEF DeliveryInv, Served, UpToDate
<1>9. Replayed(0)'
  <2>1. Got(0)' = {}
    BY <1>5, NothingHanded DEF Got
  <2>2. (joined'[0] + 1)..(joined'[0] + 0) = {}
    BY <1>2, <1>5
  <2> QED  BY <1>5, <2>1, <2>2, NothingHanded DEF Replayed
<1>10. NeverAhead'
  BY <1>1, <1>2, <1>5, <1>8, <1>9 DEF NeverAhead, Served
<1>11. ReplayingAt(t, 0)'
  <2>1. Len(todo'[t]) = Len(events) /\ \A i \in 1..Len(events) : todo'[t][i] = <<0, events[i]>>
    BY <1>1, <1>2, <1>5 DEF DeliveryTypeOK
  <2>2. ASSUME NEW i \in 1..Len(events)
        PROVE  todo'[t][i][1] = 0 /\ todo'[t][i][2].n = joined'[0] + 0 + i
    <3>1. <<0, events[i]>>[1] = 0 /\ <<0, events[i]>>[2] = events[i]
      OBVIOUS
    <3>2. events[i].n = count - Len(events) + i
      BY <1>2 DEF LogIsStretch
    <3>3. joined'[0] + 0 + i = count - Len(events) + i
      BY <1>2, <1>5
    <3> QED  BY <2>1, <3>1, <3>2, <3>3
  <2>3. Len(events) - 0 = Len(events)
    BY <1>5
  <2> QED  BY <1>1, <1>5, <1>8, <1>9, <2>1, <2>2, <2>3 DEF ReplayingAt
<1>12. \A u \in Threads : pc'[u] = "delivering" => u = t
  BY <1>1, <1>2, ReplayAssumption DEF DeliveryInv, DeliveryTypeOK, MutualExclusion
<1>13. Replaying(t)'
  BY <1>1, <1>5, <1>11 DEF Replaying
<1> QED  BY <1>1, <1>6, <1>7, <1>10, <1>12, <1>13, ReplayAssumption DEF DeliveryInv

(* What is left to deliver shrinks by its head.                            *)
LEMMA TodoShrinks ==
  ASSUME DeliveryTypeOK, NEW t \in Threads, Hand(t)
  PROVE  /\ todo[t] \in Seq(Slots \X Event) /\ Head(todo[t]) = todo[t][1]
         /\ Len(todo[t]) \in Nat /\ 1 \in 1..Len(todo[t])
         /\ Tail(todo[t]) \in Seq(Slots \X Event) /\ Len(Tail(todo[t])) = Len(todo[t]) - 1
         /\ \A i \in 1..(Len(todo[t]) - 1) : Tail(todo[t])[i] = todo[t][i + 1]
BY DEF Hand, DeliveryTypeOK

(* A delivery of a new event brings a subscription up to date ...          *)
LEMMA HandNew ==
  ASSUME DeliveryInv, NEW t \in Threads, Hand(t), NEW k \in 0..Len(sinks), RecordingAt(t, k)
  PROVE  /\ k + 1 \in 1..Len(sinks) /\ Len(todo[t]) = Len(sinks) - k
         /\ Head(todo[t])[1] = k + 1 /\ Head(todo[t])[2].n = count
         /\ Increasing(received'[k + 1]) /\ Range(received'[k + 1]) = Due(k + 1)
         /\ \A s \in Slots \ {k + 1} : received'[s] = received[s]
         /\ received' \in [Slots -> Seq(Nat)]
<1>1. /\ DeliveryTypeOK /\ count \in Nat /\ Len(sinks) \in Nat /\ Len(sinks) <= MaxSinks
      /\ MaxSinks \in Nat
  BY Shapes
<1>2. Len(todo[t]) = Len(sinks) - k /\ k + 1 \in 1..Len(sinks) /\ k + 1 \in Slots
  <2>1. Len(todo[t]) = Len(sinks) - k /\ Len(todo[t]) >= 1
    BY <1>1, TodoShrinks DEF RecordingAt
  <2> QED  BY <1>1, <2>1 DEF Slots
<1>3. Head(todo[t])[1] = k + 1 /\ Head(todo[t])[2].n = count
  BY <1>1, TodoShrinks DEF RecordingAt
<1>4. received' = [received EXCEPT ![k + 1] = Append(@, count)]
  BY <1>3 DEF Hand
<1>5. received'[k + 1] = Append(received[k + 1], count) /\ received[k + 1] \in Seq(Nat)
  BY <1>1, <1>2, <1>4 DEF DeliveryTypeOK
<1>6. /\ Increasing(received[k + 1]) /\ count \in Due(k + 1)
      /\ Range(received[k + 1]) = Due(k + 1) \ {count}
  BY <1>2 DEF RecordingAt, OneBehind, Got
<1>7. \A m \in Range(received[k + 1]) : m < count
  <2>1. joined[k + 1] \in 0..count
    BY <1>1, <1>2 DEF DeliveryTypeOK
  <2>2. \A m \in Due(k + 1) : m \in Int /\ m <= count
    BY <1>1, <2>1 DEF Due
  <2> SUFFICES ASSUME NEW m \in Range(received[k + 1]) PROVE m < count
    OBVIOUS
  <2>3. m \in Due(k + 1) /\ m # count
    BY <1>6
  <2>4. m \in Int /\ m <= count
    BY <2>2, <2>3
  <2> QED  BY <1>1, <2>3, <2>4
<1>8. /\ Append(received[k + 1], count) \in Seq(Nat) /\ Increasing(Append(received[k + 1], count))
      /\ Range(Append(received[k + 1], count)) = Range(received[k + 1]) \cup {count}
  BY <1>1, <1>5, <1>6, <1>7, AppendAbove
<1>9. /\ \A s \in Slots \ {k + 1} : received'[s] = received[s]
      /\ received' \in [Slots -> Seq(Nat)]
  BY <1>1, <1>4, <1>8 DEF DeliveryTypeOK
<1>10. Increasing(received'[k + 1]) /\ Range(received'[k + 1]) = Due(k + 1)
  <2>1. Range(received'[k + 1]) = (Due(k + 1) \ {count}) \cup {count}
    BY <1>5, <1>6, <1>8
  <2> QED  BY <1>5, <1>6, <1>8, <2>1
<1> QED  BY <1>2, <1>3, <1>9, <1>10

(* ... and one of a replay brings its sink an event nearer.                *)
LEMMA HandOld ==
  ASSUME DeliveryInv, NEW t \in Threads, Hand(t), NEW k \in 0..Len(events), ReplayingAt(t, k)
  PROVE  /\ k + 1 \in 0..Len(events) /\ Len(todo[t]) = Len(events) - k
         /\ joined[0] \in Nat /\ count - joined[0] = Len(events)
         /\ Head(todo[t])[1] = 0
         /\ Increasing(received'[0])
         /\ Range(received'[0]) = (joined[0] + 1)..(joined[0] + (k + 1))
         /\ \A s \in Slots \ {0} : received'[s] = received[s]
         /\ received' \in [Slots -> Seq(Nat)]
<1>1. /\ DeliveryTypeOK /\ count \in Nat /\ Len(events) \in Nat /\ 0 \in Slots
      /\ joined[0] \in 0..count /\ joined[0] = count - Len(events)
  BY Shapes DEF ReplayingAt
<1>2. Len(todo[t]) = Len(events) - k /\ k + 1 \in 0..Len(events)
  <2>1. Len(todo[t]) = Len(events) - k /\ Len(todo[t]) >= 1
    BY <1>1, TodoShrinks DEF ReplayingAt
  <2> QED  BY <1>1, <2>1
<1>3. PICK n \in Nat : n = joined[0] + k + 1
  BY <1>1
<1>4. Head(todo[t])[1] = 0 /\ Head(todo[t])[2].n = n
  BY <1>1, <1>3, TodoShrinks DEF ReplayingAt
<1>5. received' = [received EXCEPT ![0] = Append(@, n)]
  BY <1>4 DEF Hand
<1>6. received'[0] = Append(received[0], n) /\ received[0] \in Seq(Nat)
  BY <1>1, <1>5 DEF DeliveryTypeOK
<1>7. Increasing(received[0]) /\ Range(received[0]) = (joined[0] + 1)..(joined[0] + k)
  BY DEF ReplayingAt, Replayed, Got
<1>8. \A m \in Range(received[0]) : m < n
  BY <1>1, <1>3, <1>7
<1>9. /\ Append(received[0], n) \in Seq(Nat) /\ Increasing(Append(received[0], n))
      /\ Range(Append(received[0], n)) = Range(received[0]) \cup {n}
  BY <1>6, <1>7, <1>8, AppendAbove
<1>10. Range(received'[0]) = (joined[0] + 1)..(joined[0] + (k + 1))
  <2>1. (joined[0] + 1)..(joined[0] + (k + 1)) = ((joined[0] + 1)..(joined[0] + k)) \cup {n}
    BY <1>1, <1>3
  <2> QED  BY <1>6, <1>7, <1>9, <2>1
<1>11. /\ \A s \in Slots \ {0} : received'[s] = received[s]
       /\ received' \in [Slots -> Seq(Nat)]
  BY <1>1, <1>5, <1>9 DEF DeliveryTypeOK
<1>12. joined[0] \in Nat /\ count - joined[0] = Len(events)
  BY <1>1
<1>13. Increasing(received'[0])
  BY <1>6, <1>9
<1> QED  BY <1>2, <1>4, <1>10, <1>11, <1>12, <1>13

LEMMA DeliverStep ==
  ASSUME DeliveryInv, LogTypeOK', NEW t \in Threads, Deliver(t)
  PROVE  DeliveryInv'
<1> DEFINE s == Head(todo[t])[1]
<1>1. /\ pc[t] = "delivering" /\ Hand(t)
      /\ UNCHANGED <<holder, events, count, sinks, joined, thrown>>
      /\ \/ CallsBack(s) /\ pc' = [pc EXCEPT ![t] = "blocked"] /\ UNCHANGED todo
         \/ ~ CallsBack(s) /\ todo' = [todo EXCEPT ![t] = Tail(@)] /\ UNCHANGED pc
  BY DEF Deliver, Hand, logVars
<1> HIDE DEF s
<1>2. /\ count \in Nat /\ events \in Seq(Event) /\ DeliveryTypeOK
      /\ 0 \in Slots /\ \A u \in 1..Len(sinks) : u \in Slots /\ u # 0
  BY Shapes
<1>3. Recording(t) \/ Replaying(t)
  BY <1>1 DEF DeliveryInv
<1>4. ASSUME received' \in [Slots -> Seq(Nat)] PROVE DeliveryTypeOK'
  <2>1. todo' \in [Threads -> Seq(Slots \X Event)]
    BY <1>1, <1>2, TodoShrinks DEF DeliveryTypeOK
  <2> QED  BY <1>1, <1>2, <1>4, <2>1 DEF DeliveryTypeOK
<1>5. LogIsStretch' /\ MutualExclusion' /\ holder' = t /\ holder' # None
  BY <1>1, <1>2, ReplayAssumption DEF DeliveryInv, DeliveryTypeOK, LogIsStretch, MutualExclusion
<1>6. \A u \in Threads : pc'[u] = "delivering" => u = t
  BY <1>1, <1>2, ReplayAssumption DEF DeliveryInv, DeliveryTypeOK, MutualExclusion
<1>7. \A u : Due(u)' = Due(u)
  BY <1>1 DEF Due
<1>8. ASSUME NEW u \in Slots, received'[u] = received[u]
      PROVE  (UpToDate(u) => UpToDate(u)') /\ (OneBehind(u) => OneBehind(u)')
  BY <1>1, <1>7, <1>8 DEF UpToDate, OneBehind, Got
<1>9. CASE Recording(t)
  <2>1. PICK k \in 0..Len(sinks) : RecordingAt(t, k)
    BY <1>9 DEF Recording
  <2>2. /\ k + 1 \in 1..Len(sinks) /\ Len(todo[t]) = Len(sinks) - k
        /\ s = k + 1
        /\ Increasing(received'[k + 1]) /\ Range(received'[k + 1]) = Due(k + 1)
        /\ \A u \in Slots \ {k + 1} : received'[u] = received[u]
        /\ received' \in [Slots -> Seq(Nat)]
    BY <1>1, <2>1, HandNew DEF s
  <2>3. UpToDate(k + 1)'
    BY <1>7, <2>2 DEF UpToDate, Got
  <2>4. ASSUME NEW u \in 1..(k + 1) PROVE UpToDate(u)'
    <3>1. CASE u = k + 1
      BY <2>3, <3>1
    <3>2. CASE u # k + 1
      <4>1. u \in 1..k /\ u \in 1..Len(sinks)
        BY <2>2, <3>2
      <4> QED  BY <1>2, <1>8, <2>1, <2>2, <3>2, <4>1 DEF RecordingAt
    <3> QED  BY <3>1, <3>2
  <2>5. ASSUME NEW u \in (k + 1 + 1)..Len(sinks) PROVE OneBehind(u)'
    <3>1. u \in (k + 1)..Len(sinks) /\ u \in 1..Len(sinks) /\ u # k + 1
      BY <2>2
    <3> QED  BY <1>2, <1>8, <2>1, <2>2, <3>1 DEF RecordingAt
  <2>6. NeverAhead'
    <3>1. \A u \in 1..Len(sinks) : UpToDate(u)' \/ OneBehind(u)'
      <4> SUFFICES ASSUME NEW u \in 1..Len(sinks) PROVE UpToDate(u)' \/ OneBehind(u)'
        OBVIOUS
      <4>1. u \in 1..(k + 1) \/ u \in (k + 1 + 1)..Len(sinks)
        BY <2>2
      <4> QED  BY <2>4, <2>5, <4>1
    <3>2. 0 # k + 1 /\ received'[0] = received[0]
      BY <1>2, <2>2
    <3>3. \E m \in 0..(count - joined[0]) : Replayed(m)'
      <4>1. PICK m \in 0..(count - joined[0]) : Replayed(m)
        BY DEF DeliveryInv, NeverAhead
      <4> QED  BY <1>1, <3>2, <4>1 DEF Replayed, Got
    <3> QED  BY <1>1, <3>1, <3>3 DEF NeverAhead
  <2>7. ASSUME pc'[t] = "delivering" PROVE Recording(t)'
    <3>1. todo'[t] = Tail(todo[t])
      BY <1>1, <1>2, <2>7 DEF DeliveryTypeOK
    <3>2. Len(todo'[t]) = Len(sinks') - (k + 1)
      BY <1>1, <1>2, <2>2, <3>1, TodoShrinks
    <3>3. ASSUME NEW i \in 1..Len(todo'[t])
          PROVE  todo'[t][i][1] = k + 1 + i /\ todo'[t][i][2].n = count'
      <4>1. i \in 1..(Len(todo[t]) - 1) /\ Len(todo[t]) \in Nat
        BY <1>1, <1>2, <3>1, TodoShrinks
      <4>2. todo'[t][i] = todo[t][i + 1]
        BY <1>1, <1>2, <3>1, <4>1, TodoShrinks
      <4>3. k \in Int /\ i \in Int
        BY <2>2, <4>1
      <4>4. i + 1 \in 1..Len(todo[t]) /\ k + 1 + i = k + (i + 1)
        BY <4>1, <4>3
      <4> QED  BY <1>1, <2>1, <4>2, <4>4 DEF RecordingAt
    <3>4. RecordingAt(t, k + 1)'
      BY <1>1, <2>4, <2>5, <3>2, <3>3 DEF RecordingAt
    <3> QED  BY <1>1, <2>2, <3>4 DEF Recording
  <2> QED  BY <1>4, <1>5, <1>6, <2>2, <2>6, <2>7 DEF DeliveryInv
<1>10. CASE Replaying(t)
  <2>1. PICK k \in 0..Len(events) : ReplayingAt(t, k)
    BY <1>10 DEF Replaying
  <2>2. /\ k + 1 \in 0..Len(events) /\ Len(todo[t]) = Len(events) - k
        /\ joined[0] \in Nat /\ count - joined[0] = Len(events) /\ s = 0
        /\ Increasing(received'[0])
        /\ Range(received'[0]) = (joined[0] + 1)..(joined[0] + (k + 1))
        /\ \A u \in Slots \ {0} : received'[u] = received[u]
        /\ received' \in [Slots -> Seq(Nat)]
    BY <1>1, <2>1, HandOld DEF s
  <2>3. Replayed(k + 1)'
    BY <1>1, <2>2 DEF Replayed, Got
  <2>4. Served'
    <3>1. ASSUME NEW u \in 1..Len(sinks) PROVE UpToDate(u)'
      BY <1>2, <1>8, <2>1, <2>2 DEF ReplayingAt, Served
    <3> QED  BY <1>1, <3>1 DEF Served
  <2>5. NeverAhead'
    BY <1>1, <2>2, <2>3, <2>4 DEF NeverAhead, Served
  <2>6. todo'[t] = Tail(todo[t])
    <3>1. ~ CallsBack(s)
      BY <1>2, <2>2 DEF CallsBack, DeliveryTypeOK
    <3> QED  BY <1>1, <1>2, <3>1 DEF DeliveryTypeOK
  <2>7. ASSUME NEW i \in 1..Len(todo'[t])
        PROVE  todo'[t][i][1] = 0 /\ todo'[t][i][2].n = joined'[0] + (k + 1) + i
    <3>1. i + 1 \in 1..Len(todo[t]) /\ todo'[t][i] = todo[t][i + 1]
      <4>1. i \in 1..(Len(todo[t]) - 1) /\ Len(todo[t]) \in Nat
        BY <1>1, <1>2, <2>6, TodoShrinks
      <4>2. todo'[t][i] = todo[t][i + 1]
        BY <1>1, <1>2, <2>6, <4>1, TodoShrinks
      <4>3. i + 1 \in 1..Len(todo[t])
        BY <4>1
      <4> QED  BY <4>2, <4>3
    <3>2. todo[t][i + 1][1] = 0 /\ todo[t][i + 1][2].n = joined[0] + k + (i + 1)
      BY <2>1, <3>1 DEF ReplayingAt
    <3>3. joined[0] + k + (i + 1) = joined[0] + (k + 1) + i
      <4>1. i \in Int
        BY <1>1, <1>2, <2>2, <2>6, TodoShrinks
      <4>2. k \in Int
        BY <1>2
      <4>3. joined[0] \in Int
        BY <2>2
      <4> QED  BY <4>1, <4>2, <4>3
    <3> QED  BY <1>1, <3>1, <3>2, <3>3
  <2>8. Len(todo'[t]) = Len(events') - (k + 1)
    <3>1. Len(todo'[t]) = Len(todo[t]) - 1 /\ events' = events
      BY <1>1, <1>2, <2>6, TodoShrinks
    <3>2. k \in Int /\ Len(events) \in Int
      BY <1>2
    <3> QED  BY <2>2, <3>1, <3>2
  <2>9. joined' = joined /\ count' = count /\ events' = events /\ joined[0] = count - Len(events)
    BY <1>1, <2>1 DEF ReplayingAt
  <2>10. ReplayingAt(t, k + 1)'
    BY <2>3, <2>4, <2>7, <2>8, <2>9 DEF ReplayingAt
  <2>11. Replaying(t)'
    BY <2>2, <2>9, <2>10 DEF Replaying
  <2> QED  BY <1>4, <1>5, <1>6, <2>2, <2>5, <2>11 DEF DeliveryInv
<1> QED  BY <1>3, <1>9, <1>10

(* What a call leaves behind, when every subscription has everything.      *)
LEMMA LeaveStep ==
  ASSUME DeliveryInv, LogTypeOK', NEW t \in Threads, pc[t] = "delivering", Leave(t),
         UNCHANGED <<events, sinks>>, DeliveryTypeOK', NeverAhead', Served', count' = count
  PROVE  DeliveryInv'
<1>1. pc' = [pc EXCEPT ![t] = "idle"] /\ holder = t /\ holder' = None
  BY DEF DeliveryInv, MutualExclusion, Leave
<1>2. \A u \in Threads : pc'[u] = "idle"
  BY <1>1 DEF DeliveryInv, DeliveryTypeOK, MutualExclusion
<1>3. MutualExclusion' /\ LogIsStretch'
  BY <1>1, <1>2, ReplayAssumption DEF DeliveryInv, MutualExclusion, LogIsStretch
<1> QED  BY <1>2, <1>3 DEF DeliveryInv

(* A sink that throws leaves the subscriptions behind it without the event,*)
(* which is not due to them any more.                                      *)
LEMMA ThrowStep ==
  ASSUME DeliveryInv, LogTypeOK', NEW t \in Threads, DeliverThrows(t)
  PROVE  DeliveryInv'
<1>1. /\ pc[t] = "delivering" /\ Hand(t) /\ Leave(t)
      /\ UNCHANGED <<events, count, sinks, joined>>
      /\ thrown' = IF Head(todo[t])[1] = 0 THEN thrown
                   ELSE thrown \cup {<<Head(todo[t])[1], Head(todo[t])[2].n>>}
      /\ todo' = [todo EXCEPT ![t] = <<>>]
  BY DEF DeliverThrows, Hand, logVars
<1>2. /\ count \in Nat /\ DeliveryTypeOK /\ Len(sinks) \in Nat
      /\ 0 \in Slots /\ \A u \in 1..Len(sinks) : u \in Slots /\ u # 0
  BY Shapes
<1>3. ASSUME received' \in [Slots -> Seq(Nat)], thrown' \subseteq Nat \X (1..count)
      PROVE  DeliveryTypeOK'
  <2>1. todo' \in [Threads -> Seq(Slots \X Event)] /\ holder' \in Threads \cup {None}
    BY <1>1, <1>2 DEF DeliveryTypeOK, Leave
  <2>2. pc' \in [Threads -> {"idle", "delivering", "blocked"}]
    BY <1>1, <1>2 DEF DeliveryTypeOK, Leave
  <2> QED  BY <1>1, <1>2, <1>3, <2>1, <2>2 DEF DeliveryTypeOK
<1>4. CASE Recording(t)
  <2>1. PICK k \in 0..Len(sinks) : RecordingAt(t, k)
    BY <1>4 DEF Recording
  <2>2. /\ k + 1 \in 1..Len(sinks)
        /\ Head(todo[t])[1] = k + 1 /\ Head(todo[t])[2].n = count
        /\ Increasing(received'[k + 1]) /\ Range(received'[k + 1]) = Due(k + 1)
        /\ \A u \in Slots \ {k + 1} : received'[u] = received[u]
        /\ received' \in [Slots -> Seq(Nat)]
    BY <1>1, <2>1, HandNew
  <2>3. thrown' = thrown \cup {<<k + 1, count>>}
    BY <1>1, <2>2
  <2>4. count \in 1..count
    <3>1. count \in Due(k + 1) /\ joined[k + 1] \in 0..count
      BY <1>2, <2>1, <2>2 DEF RecordingAt, OneBehind, DeliveryTypeOK
    <3> QED  BY <1>2, <3>1 DEF Due
  <2>5. DeliveryTypeOK'
    <3>1. thrown' \subseteq Nat \X (1..count)
      <4>1. thrown \subseteq Nat \X (1..count)
        BY <1>2 DEF DeliveryTypeOK
      <4>2. <<k + 1, count>> \in Nat \X (1..count)
        BY <1>2, <2>2, <2>4
      <4> QED  BY <2>3, <4>1, <4>2
    <3> QED  BY <1>3, <2>2, <3>1
  <2>6. ASSUME NEW u \in 1..(k + 1) PROVE UpToDate(u)'
    <3>1. Due(u)' = Due(u)
      <4>1. \A r \in 1..(u - 1) : r # k + 1
        BY <2>2
      <4>2. \A r \in 1..(u - 1) : \A n : <<r, n>> \in thrown' <=> <<r, n>> \in thrown
        BY <2>3, <4>1
      <4> QED  BY <1>1, <4>2 DEF Due
    <3>2. CASE u = k + 1
      BY <2>2, <3>1, <3>2 DEF UpToDate, Got
    <3>3. CASE u # k + 1
      <4>1. u \in 1..k /\ u \in 1..Len(sinks)
        BY <2>2, <3>3
      <4>2. received'[u] = received[u] /\ UpToDate(u)
        BY <1>2, <2>1, <2>2, <3>3, <4>1 DEF RecordingAt
      <4> QED  BY <3>1, <4>2 DEF UpToDate, Got
    <3> QED  BY <3>2, <3>3
  <2>7. ASSUME NEW u \in (k + 1 + 1)..Len(sinks) PROVE UpToDate(u)'
    <3>1. u \in (k + 1)..Len(sinks) /\ u \in 1..Len(sinks) /\ u # k + 1 /\ k + 1 \in 1..(u - 1)
      BY <2>2
    <3>2. received'[u] = received[u] /\ OneBehind(u)
      BY <1>2, <2>1, <2>2, <3>1 DEF RecordingAt
    <3>3. Due(u)' = Due(u) \ {count}
      <4>1. count \notin Due(u)'
        BY <2>3, <3>1 DEF Due
      <4>2. \A r, n : n # count => (<<r, n>> \in thrown' <=> <<r, n>> \in thrown)
        BY <2>3
      <4>3. \A n : n # count => (n \in Due(u)' <=> n \in Due(u))
        BY <1>1, <4>2 DEF Due
      <4> QED  BY <4>1, <4>3
    <3> QED  BY <3>2, <3>3 DEF UpToDate, OneBehind, Got
  <2>8. Served'
    <3>1. ASSUME NEW u \in 1..Len(sinks) PROVE UpToDate(u)'
      <4>1. u \in 1..(k + 1) \/ u \in (k + 1 + 1)..Len(sinks)
        BY <2>2
      <4> QED  BY <2>6, <2>7, <4>1
    <3> QED  BY <1>1, <3>1 DEF Served
  <2>9. NeverAhead'
    <3>1. PICK m \in 0..(count - joined[0]) : Replayed(m)
      BY DEF DeliveryInv, NeverAhead
    <3>2. received'[0] = received[0]
      BY <1>2, <2>2
    <3>3. Replayed(m)'
      BY <1>1, <3>1, <3>2 DEF Replayed, Got
    <3> QED  BY <1>1, <2>8, <3>3 DEF NeverAhead, Served
  <2> QED  BY <1>1, <2>5, <2>8, <2>9, LeaveStep
<1>5. CASE Replaying(t)
  <2>1. PICK k \in 0..Len(events) : ReplayingAt(t, k)
    BY <1>5 DEF Replaying
  <2>2. /\ k + 1 \in 0..Len(events) /\ Head(todo[t])[1] = 0
        /\ joined[0] \in Nat /\ count - joined[0] = Len(events)
        /\ Increasing(received'[0])
        /\ Range(received'[0]) = (joined[0] + 1)..(joined[0] + (k + 1))
        /\ \A u \in Slots \ {0} : received'[u] = received[u]
        /\ received' \in [Slots -> Seq(Nat)]
    BY <1>1, <2>1, HandOld
  <2>3. thrown' = thrown /\ DeliveryTypeOK'
    BY <1>1, <1>2, <1>3, <2>2 DEF DeliveryTypeOK
  <2>4. Replayed(k + 1)'
    BY <1>1, <2>2 DEF Replayed, Got
  <2>5. Served'
    <3>1. ASSUME NEW u \in 1..Len(sinks) PROVE UpToDate(u)'
      <4>1. Due(u)' = Due(u) /\ received'[u] = received[u] /\ UpToDate(u)
        BY <1>1, <1>2, <2>1, <2>2, <2>3 DEF Due, ReplayingAt, Served
      <4> QED  BY <4>1 DEF UpToDate, Got
    <3> QED  BY <1>1, <3>1 DEF Served
  <2>6. NeverAhead'
    BY <1>1, <2>2, <2>4, <2>5 DEF NeverAhead, Served
  <2> QED  BY <1>1, <2>3, <2>5, <2>6, LeaveStep
<1> QED  BY <1>1, <1>4, <1>5 DEF DeliveryInv

(* A call that returns leaves every subscription with everything.          *)
LEMMA ReturnStep ==
  ASSUME DeliveryInv, LogTypeOK', NEW t \in Threads, Return(t)
  PROVE  DeliveryInv'
<1>1. /\ pc[t] = "delivering" /\ todo[t] = <<>> /\ Leave(t)
      /\ UNCHANGED <<todo, events, count, sinks, joined, received, thrown>>
  BY DEF Return, logVars, sinkVars
<1>2. DeliveryTypeOK' /\ NeverAhead'
  BY <1>1 DEF DeliveryInv, DeliveryTypeOK, NeverAhead, UpToDate, OneBehind, Replayed, Got, Due, Leave
<1>3. Served
  <2>1. CASE Recording(t)
    <3>1. PICK k \in 0..Len(sinks) : RecordingAt(t, k)
      BY <2>1 DEF Recording
    <3>2. k = Len(sinks)
      BY <1>1, <3>1 DEF RecordingAt, DeliveryInv, DeliveryTypeOK
    <3> QED  BY <3>1, <3>2 DEF RecordingAt, Served
  <2>2. CASE Replaying(t)
    BY <2>2 DEF Replaying, ReplayingAt
  <2> QED  BY <1>1, <2>1, <2>2 DEF DeliveryInv
<1>4. Served'
  BY <1>1, <1>3 DEF Served, UpToDate, Got, Due
<1> QED  BY <1>1, <1>2, <1>4, LeaveStep

(* A new subscription is owed nothing of what went before.                 *)
LEMMA SubscribeStep ==
  ASSUME DeliveryInv, LogTypeOK', NEW t \in Threads, NEW s \in Sinks, Subscribe(t, s)
  PROVE  DeliveryInv'
<1>1. PICK l : l = Len(sinks) + 1
  OBVIOUS
<1>2. /\ holder = None /\ Len(sinks) < MaxSinks /\ sinks' = Append(sinks, s)
      /\ joined' = [joined EXCEPT ![l] = count] /\ received' = [received EXCEPT ![l] = <<>>]
      /\ UNCHANGED <<holder, pc, todo, events, count, thrown>>
  BY <1>1 DEF Subscribe, Free
<1>3. /\ count \in Nat /\ DeliveryTypeOK /\ Len(sinks) \in Nat /\ MaxSinks \in Nat
      /\ l \in Slots /\ l # 0 /\ 0 \in Slots /\ Len(sinks') = l
      /\ \A u \in 1..Len(sinks') : u \in Slots /\ (u # l => u \in 1..Len(sinks))
      /\ sinks' \in Seq(Sinks) /\ Len(sinks') <= MaxSinks
  <2>1. /\ count \in Nat /\ DeliveryTypeOK /\ Len(sinks) \in Nat /\ MaxSinks \in Nat
        /\ 0 \in Slots
    BY Shapes
  <2>2. sinks' \in Seq(Sinks) /\ Len(sinks') = l
    BY <1>1, <1>2, <2>1 DEF DeliveryTypeOK
  <2>3. l \in Slots /\ l # 0 /\ l <= MaxSinks
    BY <1>1, <1>2, <2>1 DEF Slots
  <2>4. \A u \in 1..l : u \in Slots /\ (u # l => u \in 1..Len(sinks))
    BY <1>1, <2>1, <2>3 DEF Slots
  <2> QED  BY <2>1, <2>2, <2>3, <2>4
<1>4. \A u \in Slots \ {l} : joined'[u] = joined[u] /\ received'[u] = received[u]
  BY <1>2, <1>3 DEF DeliveryTypeOK
<1>5. joined'[l] = count /\ received'[l] = <<>>
  BY <1>2, <1>3 DEF DeliveryTypeOK
<1>6. DeliveryTypeOK'
  <2>1. joined' \in [Slots -> 0..count'] /\ received' \in [Slots -> Seq(Nat)]
    BY <1>2, <1>3, NothingHanded DEF DeliveryTypeOK
  <2> QED  BY <1>2, <1>3, <2>1 DEF DeliveryTypeOK
<1>7. LogIsStretch' /\ MutualExclusion' /\ \A u \in Threads : pc'[u] # "delivering"
  BY <1>2, ReplayAssumption DEF DeliveryInv, LogIsStretch, MutualExclusion
<1>8. Served'
  <2> SUFFICES ASSUME NEW u \in 1..Len(sinks') PROVE UpToDate(u)'
    BY DEF Served
  <2>1. CASE u = l
    <3>1. Due(l)' = {}
      BY <1>2, <1>3, <1>5 DEF Due
    <3>2. Increasing(received'[l]) /\ Range(received'[l]) = {}
      BY <1>5, NothingHanded
    <3> QED  BY <2>1, <3>1, <3>2 DEF UpToDate, Got
  <2>2. CASE u # l
    <3>1. u \in Slots \ {l} /\ u \in 1..Len(sinks)
      BY <1>3, <2>2
    <3>2. Due(u)' = Due(u) /\ received'[u] = received[u]
      BY <1>2, <1>4, <3>1 DEF Due
    <3>3. UpToDate(u)
      BY <1>2, <3>1 DEF DeliveryInv, Served
    <3> QED  BY <3>2, <3>3 DEF UpToDate, Got
  <2> QED  BY <2>1, <2>2
<1>9. NeverAhead'
  <2>1. PICK m \in 0..(count - joined[0]) : Replayed(m)
    BY DEF DeliveryInv, NeverAhead
  <2>2. received'[0] = received[0] /\ joined'[0] = joined[0]
    BY <1>3, <1>4
  <2>3. Replayed(m)'
    BY <2>1, <2>2 DEF Replayed, Got
  <2> QED  BY <1>2, <1>8, <2>2, <2>3 DEF NeverAhead, Served
<1> QED  BY <1>6, <1>7, <1>8, <1>9 DEF DeliveryInv

LEMMA ClearStep ==
  ASSUME DeliveryInv, LogTypeOK', NEW t \in Threads, Clear(t)
  PROVE  DeliveryInv'
<1>1. /\ holder = None /\ events' = <<>> /\ sinks' = <<>> /\ thrown' = {}
      /\ joined' = [s \in Slots |-> 0] /\ received' = [s \in Slots |-> <<>>]
      /\ UNCHANGED <<holder, pc, todo, count>>
  BY DEF Clear, Free
<1>2. /\ Len(sinks') = 0 /\ Len(events') = 0 /\ sinks' \in Seq(Sinks) /\ count \in Nat
      /\ 0 \in Slots /\ MaxSinks \in Nat
  BY <1>1, ReplayAssumption DEF DeliveryInv, LogTypeOK, Slots
<1>3. DeliveryTypeOK'
  BY <1>1, <1>2, NothingHanded DEF DeliveryInv, DeliveryTypeOK
<1>4. LogIsStretch' /\ Served' /\ MutualExclusion' /\ \A u \in Threads : pc'[u] # "delivering"
  BY <1>1, <1>2, ReplayAssumption DEF DeliveryInv, LogIsStretch, Served, MutualExclusion
<1>5. Replayed(0)' /\ 0 \in 0..(count' - joined'[0])
  <2>1. joined'[0] = 0 /\ received'[0] = <<>>
    BY <1>1, <1>2
  <2>2. Got(0)' = (joined'[0] + 1)..(joined'[0] + 0)
    BY <2>1, NothingHanded DEF Got
  <2> QED  BY <1>1, <1>2, <2>1, <2>2, NothingHanded DEF Replayed
<1>6. NeverAhead'
  BY <1>2, <1>5 DEF NeverAhead
<1> QED  BY <1>3, <1>4, <1>6 DEF DeliveryInv

LEMMA DeliveryInvStep == LogInv /\ LogInv' /\ DeliveryInv /\ [Next]_vars => DeliveryInv'
<1> SUFFICES ASSUME LogInv, LogInv', DeliveryInv, [Next]_vars
             PROVE  DeliveryInv'
  OBVIOUS
<1>0. LogTypeOK'
  BY DEF LogInv
<1>1. ASSUME UNCHANGED <<holder, pc, todo, events, count, sinks, joined, received, thrown>>
      PROVE  DeliveryInv'
  <2>1. DeliveryTypeOK' /\ LogIsStretch' /\ MutualExclusion'
    BY <1>1 DEF DeliveryInv, DeliveryTypeOK, LogIsStretch, MutualExclusion
  <2>2. \A s : (UpToDate(s)' <=> UpToDate(s)) /\ (OneBehind(s)' <=> OneBehind(s))
    BY <1>1 DEF UpToDate, OneBehind, Got, Due
  <2>3. \A k : Replayed(k)' <=> Replayed(k)
    BY <1>1 DEF Replayed, Got
  <2>4. NeverAhead'
    BY <1>1, <2>2, <2>3 DEF DeliveryInv, NeverAhead
  <2>5. Served' <=> Served
    BY <1>1, <2>2 DEF Served
  <2>6. \A t \in Threads : Recording(t)' <=> Recording(t)
    BY <1>1, <2>2 DEF Recording, RecordingAt
  <2>7. \A t \in Threads : Replaying(t)' <=> Replaying(t)
    BY <1>1, <2>3, <2>5 DEF Replaying, ReplayingAt
  <2> QED  BY <1>0, <1>1, <2>1, <2>4, <2>5, <2>6, <2>7 DEF DeliveryInv
<1>2. ASSUME NEW t \in Threads, NEW from, NEW to, Link(t, from, to)
      PROVE  DeliveryInv'
  BY <1>1, <1>2 DEF Link, sinkVars
<1>3. CASE UNCHANGED vars
  BY <1>1, <1>3 DEF vars, logVars, sinkVars
<1> QED  BY <1>0, <1>2, <1>3, RecordStep, ReplayIntoStep, DeliverStep, ThrowStep, ReturnStep,
            SubscribeStep, ClearStep DEF Next, Call

(* Whatever threads record, subscribe, replay and clear, every subscription*)
(* is handed the events since it was made in log order, none twice and,    *)
(* between two calls, none left out but those on which a sink before it    *)
(* threw (replay.cpp:7-27).                                                *)
THEOREM DeliveryInLogOrder == Spec => []DeliveredInLogOrder
BY LogInvInit, LogInvStep, DeliveryInvInit, DeliveryInvStep, DeliveryImplies, PTL DEF Spec
=============================================================================
