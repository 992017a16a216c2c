------------------------------- MODULE Replay -------------------------------
(***************************************************************************)
(* Replay of src/core/replay.cpp: the log of a run's events, which numbers *)
(* them and hands each one to the subscribed sinks, all under one mutex.   *)
(* Several threads call it.  A sink is a call into other code, so every    *)
(* delivery is a step: it may throw; and a re-entrant sink records an event*)
(* of its own from within, and waits for the mutex its own thread holds.   *)
(*                                                                         *)
(* A subscription is its slot in sinks_, for a sink may have several; slot *)
(* 0 is the sink replay_into is called with.                               *)
(***************************************************************************)
EXTENDS Integers, SequencesExt

CONSTANTS Threads,
          Sinks, Reentrant, \* the sinks, and those that call back
          None,
          Modulus,          \* numbers of a sequence, 2^64 in the code
          \* bounds on the events ever recorded, the edges and the subscriptions
          MaxEvents, MaxEdges, MaxSinks

ASSUME ReplayAssumption ==
  /\ Reentrant \subseteq Sinks /\ None \notin Threads
  /\ Modulus \in Nat \ {0} /\ {MaxEvents, MaxEdges, MaxSinks} \subseteq Nat

VARIABLES holder,   \* the thread that holds mtx_
          pc,       \* of each thread: idle, delivering or blocked
          todo,     \* of each thread: the deliveries left, as <<slot, event>>
          events, edges, sinks, last_seq, \* events_, edges_, sinks_, last_seq_
          count,    \* history: events ever recorded
          joined,   \* history: of each slot, count when it was subscribed ...
          received, \* ... and the events its sink was handed since
          thrown,   \* history: the <<slot, event>> on which a subscribed sink threw
          wrapped,  \* history: last_seq_ went past its last value
          calledBack

logVars == <<events, edges, sinks, last_seq, count, wrapped>>
sinkVars == <<joined, received, thrown, calledBack>>
vars == <<holder, pc, todo, logVars, sinkVars>>

Slots == 0..MaxSinks

Init ==
  /\ holder = None /\ pc = [t \in Threads |-> "idle"] /\ todo = [t \in Threads |-> <<>>]
  /\ events = <<>> /\ edges = <<>> /\ sinks = <<>> /\ last_seq = 0
  /\ joined = [s \in Slots |-> 0] /\ received = [s \in Slots |-> <<>>] /\ thrown = {}
  /\ count = 0 /\ wrapped = FALSE /\ calledBack = FALSE

Free(t) == holder = None /\ pc[t] = "idle"

-----------------------------------------------------------------------------
(* Mutant of Acquire: the sinks are called after the mutex is released.    *)
AcquireBriefly(t, deliveries) ==
  /\ UNCHANGED holder
  /\ pc' = [pc EXCEPT ![t] = "delivering"]
  /\ todo' = [todo EXCEPT ![t] = deliveries]

(* A call that delivers: it takes the mutex, ...                           *)
Acquire(t, deliveries) ==
  /\ holder' = t
  /\ pc' = [pc EXCEPT ![t] = "delivering"]
  /\ todo' = [todo EXCEPT ![t] = deliveries]

(* Mutant of Number: an explicit number below the last one is kept as last.*)
NumberLatest(given) ==
  /\ last_seq' = IF given = 0 THEN (last_seq + 1) % Modulus ELSE given
  /\ wrapped' = (wrapped \/ (given = 0 /\ last_seq = Modulus - 1))

(* Zero asks for a number; any other one is taken as it is.                *)
Number(given) ==
  /\ last_seq' = IF given = 0 THEN (last_seq + 1) % Modulus
                 ELSE IF last_seq < given THEN given ELSE last_seq
  /\ wrapped' = (wrapped \/ (given = 0 /\ last_seq = Modulus - 1))

Record(t, given) ==
  LET e == [n |-> count + 1, seq |-> IF given = 0 THEN last_seq' ELSE given,
            numbered |-> given = 0]
  IN  /\ Free(t) /\ count < MaxEvents
      /\ Number(given)
      /\ events' = Append(events, e) /\ count' = count + 1
      /\ Acquire(t, [i \in DOMAIN sinks |-> <<i, e>>])
      /\ UNCHANGED <<edges, sinks, sinkVars>>

ReplayInto(t) ==
  /\ Free(t)
  /\ received' = [received EXCEPT ![0] = <<>>]
  /\ joined' = [joined EXCEPT ![0] = count - Len(events)]
  /\ Acquire(t, [i \in DOMAIN events |-> <<0, events[i]>>])
  /\ UNCHANGED <<logVars, thrown, calledBack>>

(* ... calls on_event of one sink after the other ...                      *)
Hand(t) ==
  /\ pc[t] = "delivering" /\ todo[t] # <<>>
  /\ LET s == Head(todo[t])[1]
     IN  received' = [received EXCEPT ![s] = Append(@, Head(todo[t])[2].n)]

CallsBack(s) == s \in DOMAIN sinks /\ sinks[s] \in Reentrant

(* Mutant of Deliver: a delivery locks the log once more, whatever sink it *)
(* is for.                                                                 *)
DeliverLocking(t) ==
  /\ Hand(t)
  /\ pc' = [pc EXCEPT ![t] = "blocked"]
  /\ todo' = [todo EXCEPT ![t] = Tail(@)]
  /\ UNCHANGED <<holder, logVars, joined, thrown, calledBack>>

Deliver(t) ==
  /\ Hand(t)
  /\ IF CallsBack(Head(todo[t])[1])
       THEN pc' = [pc EXCEPT ![t] = "blocked"] /\ calledBack' = TRUE /\ UNCHANGED todo
       ELSE todo' = [todo EXCEPT ![t] = Tail(@)] /\ UNCHANGED <<pc, calledBack>>
  /\ UNCHANGED <<holder, logVars, joined, thrown>>

Leave(t) ==
  /\ pc' = [pc EXCEPT ![t] = "idle"]
  /\ holder' = IF holder = t THEN None ELSE holder

(* ... until one throws: the call unwinds, and the sinks behind it are not *)
(* called; what was recorded stays in the log ...                          *)
DeliverThrows(t) ==
  /\ Hand(t) /\ Leave(t)
  /\ LET s == Head(todo[t])[1]
     IN  thrown' = IF s = 0 THEN thrown ELSE thrown \cup {<<s, Head(todo[t])[2].n>>}
  /\ todo' = [todo EXCEPT ![t] = <<>>]
  /\ UNCHANGED <<logVars, joined, calledBack>>

(* ... or returns.                                                         *)
Return(t) ==
  /\ pc[t] = "delivering" /\ todo[t] = <<>>
  /\ Leave(t)
  /\ UNCHANGED <<todo, logVars, sinkVars>>

-----------------------------------------------------------------------------
(* The calls that deliver nothing are one critical section each.  Nothing  *)
(* keeps a sink from being subscribed again.                               *)
Subscribe(t, s) ==
  /\ Free(t) /\ Len(sinks) < MaxSinks
  /\ sinks' = Append(sinks, s)
  /\ joined' = [joined EXCEPT ![Len(sinks) + 1] = count]
  /\ received' = [received EXCEPT ![Len(sinks) + 1] = <<>>]
  /\ UNCHANGED <<holder, pc, todo, events, edges, last_seq, count, wrapped, thrown, calledBack>>

Link(t, from, to) ==
  /\ Free(t) /\ Len(edges) < MaxEdges
  /\ edges' = Append(edges, <<from, to>>)
  /\ UNCHANGED <<holder, pc, todo, events, sinks, last_seq, count, wrapped, sinkVars>>

Clear(t) ==
  /\ Free(t)
  /\ events' = <<>> /\ edges' = <<>> /\ sinks' = <<>> /\ last_seq' = 0
  /\ joined' = [s \in Slots |-> 0] /\ received' = [s \in Slots |-> <<>>] /\ thrown' = {}
  /\ UNCHANGED <<holder, pc, todo, count, wrapped, calledBack>>

Call(t) ==
  \/ \E given \in 0..Modulus - 1 : Record(t, given)
  \/ \E s \in Sinks : Subscribe(t, s)
  \/ \E i, j \in DOMAIN events : i < j /\ Link(t, events[i].seq, events[j].seq)
  \/ ReplayInto(t) \/ Clear(t)

Next ==
  \/ \E t \in Threads : Call(t) \/ Deliver(t) \/ DeliverThrows(t) \/ Return(t)
  \/ calledBack /\ UNCHANGED vars

Spec == Init /\ [][Next]_vars

(* A thread inside a call runs; nobody has to call.                        *)
FairSpec == Spec /\ \A t \in Threads : WF_vars(Deliver(t) \/ DeliverThrows(t) \/ Return(t))

-----------------------------------------------------------------------------
(* Every subscription is handed the events since it was made in the order  *)
(* of the log, none twice and, between two calls, none left out but those  *)
(* on which a sink subscribed before it threw; a replay gives the log from *)
(* its start.                                                              *)
Due(s) ==
  {n \in (joined[s] + 1)..count : \A r \in 1..(s - 1) : <<r, n>> \notin thrown}

DeliveredInLogOrder ==
  \A s \in DOMAIN sinks \cup {0} :
    LET got == Range(received[s])
    IN  /\ \A i, j \in DOMAIN received[s] : i < j => received[s][i] < received[s][j]
        /\ got \subseteq Due(s)
        /\ \A m \in got, n \in Due(s) : n < m => n \in got
        /\ holder = None /\ s # 0 => got = Due(s)

(* A number given by the log is above every earlier one, the explicit ones *)
(* included, until the counter wraps around.                               *)
NumbersGrow ==
  ~ wrapped => \A i, j \in DOMAIN events :
                 i < j /\ events[j].numbered => events[i].seq < events[j].seq

(* A call that has the mutex returns or throws, unless a sink called back. *)
CallReturns ==
  \A t \in Threads : pc[t] = "delivering" ~> (pc[t] = "idle" \/ calledBack)
=============================================================================
