--------------------------- MODULE DependencyGraph ---------------------------
(***************************************************************************)
(* src/core/dependency_graph.cpp: which tool calls of one turn may run     *)
(* together.  Calls are added one by one with the resources they claim;    *)
(* schedule() then walks them in order and puts each into the first group  *)
(* none of whose members shares a resource with it, opening a new group    *)
(* when there is none.  One Place step is one turn of that loop, so what   *)
(* holds of a half-built schedule can be stated and proved.                *)
(*                                                                         *)
(* The outer while (progress) loop runs a second time after a pass that    *)
(* opened a group.  By then every call is assigned and the pass skips them *)
(* all, so one pass is modelled.  The final sort inside each group only    *)
(* restores the order in which a group, a set here, was filled.            *)
(***************************************************************************)
EXTENDS Naturals, Sequences, FirstFit

CONSTANTS Resource,     \* resource keys, e.g. "file:read:<path>"
          ClaimSets,    \* the claims resources_for can return
          MaxCalls      \* bound on the calls of a turn

ASSUME GraphAssumption ==
  /\ ClaimSets \subseteq SUBSET Resource
  /\ MaxCalls \in Nat

VARIABLES phase,        \* "adding", "scheduling" or "scheduled"
          claims,       \* resources_: claims[i] is what call i touches
          group,        \* assignment: the group of call i, 0 for SIZE_MAX
          groupCount,   \* next_group
          cursor        \* the call the loop of schedule() looks at

graphVars == <<phase, claims, group, groupCount, cursor>>

Calls == 1..Len(claims)

Placed == 1..(cursor - 1)

(* Two calls conflict when they share a resource; no call does with itself.*)
Conflict(a, b) == a # b /\ claims[a] \cap claims[b] # {}

(* Mutant of Fits: only the call before is compared.                       *)
FitsPrevious(i, g) == i > 1 /\ group[i - 1] = g => ~ Conflict(i, i - 1)

Fits(i, g) == \A j \in Placed : group[j] = g => ~ Conflict(i, j)

GraphInit ==
  /\ phase = "adding"
  /\ claims = <<>>
  /\ group = <<>>
  /\ groupCount = 0
  /\ cursor = 1

AddCall(resources) ==
  /\ phase = "adding"
  /\ Len(claims) < MaxCalls
  /\ claims' = Append(claims, resources)
  /\ UNCHANGED <<phase, group, groupCount, cursor>>

StartSchedule ==
  /\ phase = "adding"
  /\ phase' = "scheduling"
  /\ group' = [i \in Calls |-> 0]
  /\ UNCHANGED <<claims, groupCount, cursor>>

(* Mutant of PlaceInGroup: any group that fits will do.                    *)
PlaceInAnyGroup(g) ==
  /\ phase = "scheduling"
  /\ cursor \in Calls
  /\ g \in 1..groupCount
  /\ Fits(cursor, g)
  /\ group' = [group EXCEPT ![cursor] = g]
  /\ cursor' = cursor + 1
  /\ UNCHANGED <<phase, claims, groupCount>>

(* Call `cursor' goes into the first group it fits.                        *)
PlaceInGroup(g) ==
  /\ phase = "scheduling"
  /\ cursor \in Calls
  /\ g \in 1..groupCount
  /\ Fits(cursor, g)
  /\ \A h \in 1..(g - 1) : ~ Fits(cursor, h)
  /\ group' = [group EXCEPT ![cursor] = g]
  /\ cursor' = cursor + 1
  /\ UNCHANGED <<phase, claims, groupCount>>

(* Mutant of PlaceInNewGroup: the new group runs first.                    *)
PlaceInFrontGroup ==
  /\ phase = "scheduling"
  /\ cursor \in Calls
  /\ \A g \in 1..groupCount : ~ Fits(cursor, g)
  /\ groupCount' = groupCount + 1
  /\ group' = [i \in Calls |-> IF i \in Placed THEN group[i] + 1
                              ELSE IF i = cursor THEN 1 ELSE 0]
  /\ cursor' = cursor + 1
  /\ UNCHANGED <<phase, claims>>

(* It fits nowhere: it opens a new group.                                  *)
PlaceInNewGroup ==
  /\ phase = "scheduling"
  /\ cursor \in Calls
  /\ \A g \in 1..groupCount : ~ Fits(cursor, g)
  /\ groupCount' = groupCount + 1
  /\ group' = [group EXCEPT ![cursor] = groupCount + 1]
  /\ cursor' = cursor + 1
  /\ UNCHANGED <<phase, claims>>

EndSchedule ==
  /\ phase = "scheduling"
  /\ cursor > Len(claims)
  /\ phase' = "scheduled"
  /\ UNCHANGED <<claims, group, groupCount, cursor>>

Schedule ==
  \/ StartSchedule
  \/ \E g \in 1..groupCount : PlaceInGroup(g)
  \/ PlaceInNewGroup
  \/ EndSchedule

GraphNext ==
  \/ \E resources \in ClaimSets : AddCall(resources)
  \/ Schedule

GraphSpec == GraphInit /\ [][GraphNext]_graphVars

-----------------------------------------------------------------------------
GraphTypeOK ==
  /\ phase \in {"adding", "scheduling", "scheduled"}
  /\ claims \in Seq(SUBSET Resource)
  /\ groupCount \in Nat
  /\ cursor \in 1..(Len(claims) + 1)
  /\ phase = "adding" => cursor = 1 /\ groupCount = 0
  /\ phase # "adding" => group \in [Calls -> Nat]
  /\ phase = "scheduled" => cursor = Len(claims) + 1

(* Every call placed so far has a group, and every call still to come none.*)
PlacedInAGroup ==
  phase # "adding" =>
    \A i \in Calls : IF i \in Placed THEN group[i] \in 1..groupCount ELSE group[i] = 0

(* Calls of one group never share a resource: they may run together.       *)
GroupsConflictFree ==
  phase # "adding" =>
    \A i, j \in Placed : group[i] = group[j] => ~ Conflict(i, j)

(* A call is serialised behind a group only if the group holds a call it   *)
(* conflicts with.                                                         *)
NoNeedlessSerialisation ==
  phase # "adding" =>
    \A i \in Placed : \A g \in 1..(group[i] - 1) :
      \E j \in Placed : j < i /\ group[j] = g /\ Conflict(i, j)

(* The order in which the model asked for two conflicting calls is kept    *)
(* where conflict is transitive on the calls of the turn.  Without that    *)
(* premise it is not: with claims {a}, {a, b}, {b} the third call joins the*)
(* first one's group and overtakes the second.                             *)
ConflictTransitive ==
  \A i, j, k \in Calls : Conflict(i, j) /\ Conflict(j, k) /\ i # k => Conflict(i, k)

ConflictsKeepOrder ==
  phase # "adding" /\ ConflictTransitive =>
    \A i, j \in Placed : i < j /\ Conflict(i, j) => group[i] < group[j]

-----------------------------------------------------------------------------
(* weakly_connected_components: the classes of the calls under "linked by  *)
(* a chain of conflicts", each as the set of its calls.  The breadth-first *)
(* search visits exactly the calls a chain leads to, and a chain without   *)
(* detours has at most as many steps as there are calls.                   *)
Linked(i, j) ==
  \E n \in 1..Len(claims) : \E chain \in [1..n -> Calls] :
    /\ chain[1] = i /\ chain[n] = j
    /\ \A s \in 1..(n - 1) : Conflict(chain[s], chain[s + 1])

WeaklyConnectedComponents == {{j \in Calls : Linked(i, j)} : i \in Calls}

(* A group takes at most one call of a clique of conflicting calls, so     *)
(* calls of different components never force one another apart: the groups *)
(* a component is spread over are the first ones, with no gap.             *)
ComponentsUsePrefixOfGroups ==
  phase = "scheduled" =>
    \A c \in WeaklyConnectedComponents :
      LET used == {group[i] : i \in c}
      IN  \A g \in used : 1..g \subseteq used

(* The loop of schedule() computes what FirstFit defines: each call in the *)
(* first group no earlier member of which conflicts with it.               *)
ScheduleIsFirstFit ==
  phase = "scheduled" => group = FirstFitGroups(claims)
=============================================================================
