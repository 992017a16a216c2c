------------------------- MODULE ToolExecutorProofs -------------------------
(* Theorems about DependencyGraph, for every set of resources, every claim *)
(* and every number of calls, and about ToolExecutor, for every turn: any  *)
(* calls, any claims, any interleaving of the workers, exceptions included.*)
EXTENDS ToolExecutor, FiniteSetTheorems, WellFoundedInduction, TLAPS

-----------------------------------------------------------------------------
(* The schedule.                                                           *)
GraphInv ==
  /\ GraphTypeOK
  /\ PlacedInAGroup
  /\ GroupsConflictFree
  /\ NoNeedlessSerialisation
  /\ ConflictsKeepOrder

LEMMA GraphInvInit == GraphInit => GraphInv
BY DEF GraphInit, GraphInv, GraphTypeOK, PlacedInAGroup, GroupsConflictFree,
       NoNeedlessSerialisation, ConflictsKeepOrder

LEMMA AddCallInv ==
  ASSUME GraphInv, NEW resources \in ClaimSets, AddCall(resources)
  PROVE  GraphInv'
<1>1. claims' \in Seq(SUBSET Resource) /\ Len(claims') = Len(claims) + 1
  BY GraphAssumption DEF AddCall, GraphInv, GraphTypeOK
<1>2. QED
  BY <1>1 DEF AddCall, GraphInv, GraphTypeOK, PlacedInAGroup, GroupsConflictFree,
              NoNeedlessSerialisation, ConflictsKeepOrder

LEMMA StartScheduleInv ==
  ASSUME GraphInv, StartSchedule
  PROVE  GraphInv'
BY DEF StartSchedule, GraphInv, GraphTypeOK, PlacedInAGroup, GroupsConflictFree,
       NoNeedlessSerialisation, ConflictsKeepOrder, Calls, Placed

(* What the two kinds of placement have in common: call `cursor' goes to   *)
(* group g, fits it, and fits no group before g.                           *)
PlacedInto(g) ==
  /\ phase = "scheduling"
  /\ cursor \in Calls
  /\ g \in Nat \ {0}
  /\ groupCount' \in Nat /\ groupCount <= groupCount' /\ g <= groupCount'
  /\ Fits(cursor, g)
  /\ \A h \in 1..(g - 1) : ~ Fits(cursor, h)
  /\ group' = [group EXCEPT ![cursor] = g]
  /\ cursor' = cursor + 1
  /\ UNCHANGED <<phase, claims>>

LEMMA PlacedIntoInv ==
  ASSUME GraphInv, NEW g, PlacedInto(g)
  PROVE  GraphInv'
<1> USE DEF GraphInv
<1>1. /\ cursor \in Calls /\ group \in [Calls -> Nat]
      /\ Len(claims) \in Nat /\ Calls' = Calls
      /\ Placed' = Placed \cup {cursor} /\ cursor \notin Placed
      /\ Placed \subseteq Calls
  BY DEF PlacedInto, GraphTypeOK, Calls, Placed
<1>2. group'[cursor] = g /\ \A i \in Placed : group'[i] = group[i]
  BY <1>1 DEF PlacedInto
<1>3. \A i, j : Conflict(i, j)' <=> Conflict(i, j)
  BY DEF PlacedInto, Conflict
<1>4. GraphTypeOK'
  BY <1>1 DEF PlacedInto, GraphTypeOK, Calls
<1>5. PlacedInAGroup'
  BY <1>1, <1>2 DEF PlacedInto, PlacedInAGroup, GraphTypeOK
<1>6. GroupsConflictFree'
  <2>1. \A j \in Placed : group[j] = g => ~ Conflict(cursor, j) /\ ~ Conflict(j, cursor)
    BY DEF PlacedInto, Fits, Conflict
  <2>2. ~ Conflict(cursor, cursor)
    BY DEF Conflict
  <2>3. QED
    BY <1>1, <1>2, <1>3, <2>1, <2>2 DEF PlacedInto, GroupsConflictFree
<1>7. NoNeedlessSerialisation'
  <2> SUFFICES ASSUME NEW i \in Placed', NEW h \in 1..(group'[i] - 1)
               PROVE  \E j \in Placed' : j < i /\ group'[j] = h /\ Conflict(i, j)'
    BY DEF NoNeedlessSerialisation
  <2>1. CASE i = cursor
    <3>1. ~ Fits(cursor, h)
      BY <2>1, <1>2 DEF PlacedInto
    <3>2. PICK j \in Placed : group[j] = h /\ Conflict(cursor, j)
      BY <3>1 DEF Fits
    <3>3. j < cursor
      BY DEF Placed, PlacedInto, Calls
    <3>4. QED
      BY <2>1, <3>2, <3>3, <1>1, <1>2, <1>3
  <2>2. CASE i # cursor
    <3>1. i \in Placed /\ h \in 1..(group[i] - 1)
      BY <2>2, <1>1, <1>2
    <3>2. PICK j \in Placed : j < i /\ group[j] = h /\ Conflict(i, j)
      BY <3>1 DEF NoNeedlessSerialisation, PlacedInto
    <3>3. QED
      BY <3>2, <1>1, <1>2, <1>3
  <2>3. QED
    BY <2>1, <2>2
<1>8. ConflictsKeepOrder'
  <2> SUFFICES ASSUME ConflictTransitive,
                      NEW i \in Placed', NEW j \in Placed', i < j, Conflict(i, j)
               PROVE  group'[i] < group'[j]
    BY <1>1, <1>3 DEF ConflictsKeepOrder, ConflictTransitive
  <2>1. i \in Placed
    BY <1>1 DEF Placed, Calls
  <2>2. CASE j \in Placed
    BY <2>1, <2>2, <1>2 DEF ConflictsKeepOrder, PlacedInto
  <2>3. CASE j = cursor
    <3>1. group[i] \in Nat /\ g \in Nat
      BY <2>1, <1>1 DEF PlacedInto
    <3>2. group[i] # g
      BY <2>1, <2>3 DEF PlacedInto, Fits, Conflict
    <3>3. ASSUME g < group[i] PROVE FALSE
      <4>1. PICK k \in Placed : group[k] = g /\ Conflict(i, k)
        BY <3>1, <3>3, <2>1 DEF NoNeedlessSerialisation, PlacedInto
      <4>2. Conflict(k, i) /\ Conflict(i, cursor) /\ k # cursor
        BY <4>1, <2>3, <1>1 DEF Conflict
      <4>3. Conflict(cursor, k)
        BY <4>2, <1>1, <2>1 DEF ConflictTransitive, Conflict
      <4>4. QED
        BY <4>1, <4>3 DEF PlacedInto, Fits
    <3>4. QED
      BY <3>1, <3>2, <3>3, <2>1, <2>3, <1>2
  <2>4. QED
    BY <2>2, <2>3, <1>1
<1>9. QED
  BY <1>4, <1>5, <1>6, <1>7, <1>8

LEMMA PlaceInGroupInv ==
  ASSUME GraphInv, NEW g \in 1..groupCount, PlaceInGroup(g)
  PROVE  GraphInv'
<1>1. PlacedInto(g)
  BY DEF PlacedInto, PlaceInGroup, GraphInv, GraphTypeOK
<1>2. QED
  BY <1>1, PlacedIntoInv

LEMMA PlaceInNewGroupInv ==
  ASSUME GraphInv, PlaceInNewGroup
  PROVE  GraphInv'
<1>1. Fits(cursor, groupCount + 1)
  BY DEF Fits, GraphInv, PlacedInAGroup, GraphTypeOK, PlaceInNewGroup, Placed, Calls
<1>2. PlacedInto(groupCount + 1)
  BY <1>1 DEF PlacedInto, PlaceInNewGroup, GraphInv, GraphTypeOK
<1>3. QED
  BY <1>2, PlacedIntoInv

(* A step that leaves the schedule alone and starts none.                  *)
LEMMA ScheduleUntouched ==
  ASSUME GraphInv, UNCHANGED <<claims, group, groupCount, cursor>>,
         phase = "adding" => phase' = "adding"
  PROVE  /\ PlacedInAGroup' /\ GroupsConflictFree'
         /\ NoNeedlessSerialisation' /\ ConflictsKeepOrder'
<1>1. Calls' = Calls /\ Placed' = Placed
  BY DEF Calls, Placed
<1>2. \A i, j : Conflict(i, j)' <=> Conflict(i, j)
  BY DEF Conflict
<1>3. PlacedInAGroup'
  BY <1>1 DEF GraphInv, PlacedInAGroup
<1>4. GroupsConflictFree'
  BY <1>1, <1>2 DEF GraphInv, GroupsConflictFree
<1>5. NoNeedlessSerialisation'
  BY <1>1, <1>2 DEF GraphInv, NoNeedlessSerialisation
<1>6. ConflictTransitive' <=> ConflictTransitive
  BY <1>1, <1>2 DEF ConflictTransitive
<1>7. ConflictsKeepOrder'
  BY <1>1, <1>2, <1>6 DEF GraphInv, ConflictsKeepOrder
<1>8. QED
  BY <1>3, <1>4, <1>5, <1>7

LEMMA EndScheduleInv ==
  ASSUME GraphInv, EndSchedule
  PROVE  GraphInv'
<1>1. GraphTypeOK'
  BY DEF EndSchedule, GraphInv, GraphTypeOK, Calls
<1>2. QED
  BY <1>1, ScheduleUntouched DEF EndSchedule, GraphInv

LEMMA GraphInvStutter ==
  ASSUME GraphInv, UNCHANGED graphVars
  PROVE  GraphInv'
<1>1. GraphTypeOK'
  BY DEF graphVars, GraphInv, GraphTypeOK, Calls
<1>2. QED
  BY <1>1, ScheduleUntouched DEF graphVars, GraphInv

LEMMA ScheduleInv ==
  ASSUME GraphInv, Schedule
  PROVE  GraphInv'
BY StartScheduleInv, PlaceInGroupInv, PlaceInNewGroupInv, EndScheduleInv DEF Schedule

LEMMA GraphInvariant == GraphSpec => []GraphInv
<1>1. GraphInv /\ [GraphNext]_graphVars => GraphInv'
  BY AddCallInv, ScheduleInv, GraphInvStutter DEF GraphNext
<1>2. QED
  BY <1>1, GraphInvInit, PTL DEF GraphSpec

(* Calls that share a group share no resource, at every point of the loop. *)
THEOREM ScheduleConflictFree == GraphSpec => []GroupsConflictFree
<1>1. GraphInv => GroupsConflictFree
  BY DEF GraphInv
<1>2. QED
  BY <1>1, GraphInvariant, PTL

(* A call waits for a group only because of a conflicting earlier call.    *)
THEOREM ScheduleIsGreedy == GraphSpec => []NoNeedlessSerialisation
<1>1. GraphInv => NoNeedlessSerialisation
  BY DEF GraphInv
<1>2. QED
  BY <1>1, GraphInvariant, PTL

(* Where conflict is transitive, conflicting calls keep the model's order. *)
THEOREM ScheduleKeepsOrder == GraphSpec => []ConflictsKeepOrder
<1>1. GraphInv => ConflictsKeepOrder
  BY DEF GraphInv
<1>2. QED
  BY <1>1, GraphInvariant, PTL

-----------------------------------------------------------------------------
(* Induction over the calls, for sets of numbers.                          *)
LEMMA NatSetInduction ==
  ASSUME NEW S \in SUBSET Nat, 0 \in S, \A n \in S : n + 1 \in S
  PROVE  S = Nat
<1> SUFFICES ASSUME Nat \ S # {} PROVE FALSE
  OBVIOUS
<1>1. PICK m \in Nat \ S : \A k \in Nat \ S : ~ (<<k, m>> \in OpToRel(<, Nat))
  BY NatLessThanWellFounded, WFMin
<1>2. \A k \in Nat \ S : ~ (k < m)
  BY <1>1 DEF OpToRel
<1>3. m # 0 /\ m - 1 \in Nat /\ m - 1 < m
  OBVIOUS
<1>4. m - 1 \in S
  BY <1>2, <1>3
<1> QED
  BY <1>3, <1>4

(* The schedules of the first n calls, one after the other.                *)
IsFirstFit(f, cl, m) ==
  f = [n \in 0..m |-> IF n = 0 THEN <<>>
                      ELSE Append(f[n - 1], FirstFitting(cl, n, f[n - 1]))]

LEMMA FirstFitExists ==
  ASSUME NEW cl, NEW m \in Nat
  PROVE  \E f : IsFirstFit(f, cl, m)
<1> DEFINE S == {n \in Nat : \E f : IsFirstFit(f, cl, n)}
<1>1. 0 \in S
  <2>1. IsFirstFit([n \in 0..0 |-> <<>>], cl, 0)
    BY DEF IsFirstFit
  <2> QED
    BY <2>1
<1>2. ASSUME NEW n \in S PROVE n + 1 \in S
  <2>1. PICK f : IsFirstFit(f, cl, n)
    OBVIOUS
  <2> DEFINE h == [k \in 0..(n + 1) |->
                     IF k <= n THEN f[k] ELSE Append(f[n], FirstFitting(cl, n + 1, f[n]))]
  <2>2. \A k \in 0..n : f[k] = IF k = 0 THEN <<>>
                               ELSE Append(f[k - 1], FirstFitting(cl, k, f[k - 1]))
    BY <2>1 DEF IsFirstFit
  <2>3. \A k \in 0..(n + 1) :
          h[k] = IF k = 0 THEN <<>> ELSE Append(h[k - 1], FirstFitting(cl, k, h[k - 1]))
    <3> TAKE k \in 0..(n + 1)
    <3>1. CASE k <= n
      <4>1. h[k] = f[k] /\ (k # 0 => h[k - 1] = f[k - 1])
        BY <3>1
      <4> QED
        BY <4>1, <3>1, <2>2
    <3>2. CASE k = n + 1
      BY <3>2
    <3> QED
      BY <3>1, <3>2
  <2>4. IsFirstFit(h, cl, n + 1)
    BY <2>3 DEF IsFirstFit
  <2> QED
    BY <2>4
<1>3. S = Nat
  <2> HIDE DEF S
  <2>1. S \in SUBSET Nat
    BY DEF S
  <2> QED
    BY <2>1, <1>1, <1>2, NatSetInduction
<1> QED
  BY <1>3

LEMMA FirstFitUnfolds ==
  ASSUME NEW cl, Len(cl) \in Nat
  PROVE  \E f : IsFirstFit(f, cl, Len(cl)) /\ FirstFitGroups(cl) = f[Len(cl)]
<1> DEFINE f == CHOOSE f : IsFirstFit(f, cl, Len(cl))
<1>1. IsFirstFit(f, cl, Len(cl))
  BY FirstFitExists
<1>2. FirstFitGroups(cl) = f[Len(cl)]
  BY DEF FirstFitGroups, IsFirstFit
<1> QED
  BY <1>1, <1>2

(* A call never goes past the group of its own number: there are no more   *)
(* groups than calls placed.                                               *)
GroupsGrowByOne ==
  /\ groupCount < cursor
  /\ phase # "adding" => \A i \in Placed : group[i] <= i

LEMMA GroupsGrowInit == GraphInit => GroupsGrowByOne
BY DEF GraphInit, GroupsGrowByOne

LEMMA GroupsGrowPlaced ==
  ASSUME GraphInv, GroupsGrowByOne, NEW g, PlacedInto(g), groupCount' < cursor'
  PROVE  GroupsGrowByOne'
<1>1. /\ Placed' = Placed \cup {cursor} /\ cursor \notin Placed
      /\ group \in [Calls -> Nat] /\ Placed \subseteq Calls
      /\ cursor \in Nat /\ groupCount' \in Nat /\ g \in Nat /\ g <= groupCount'
      /\ cursor' = cursor + 1
  BY DEF PlacedInto, GraphInv, GraphTypeOK, Calls, Placed
<1>2. g <= cursor
  BY <1>1
<1>3. ASSUME NEW i \in Placed' PROVE group'[i] <= i
  <2>1. CASE i \in Placed
    BY <1>1, <2>1 DEF PlacedInto, GroupsGrowByOne
  <2>2. CASE i = cursor
    BY <1>1, <1>2, <2>2 DEF PlacedInto
  <2> QED
    BY <1>1, <2>1, <2>2
<1> QED
  BY <1>3 DEF GroupsGrowByOne

LEMMA GroupsGrowNext ==
  ASSUME GraphInv, GroupsGrowByOne, [GraphNext]_graphVars
  PROVE  GroupsGrowByOne'
<1> USE DEF GraphInv
<1>1. ASSUME NEW g \in 1..groupCount, PlaceInGroup(g)
      PROVE  GroupsGrowByOne'
  <2>1. PlacedInto(g) /\ groupCount' < cursor'
    BY <1>1 DEF PlacedInto, PlaceInGroup, GraphTypeOK, GroupsGrowByOne
  <2> QED
    BY <2>1, GroupsGrowPlaced
<1>2. CASE PlaceInNewGroup
  <2>1. Fits(cursor, groupCount + 1)
    BY <1>2 DEF Fits, PlacedInAGroup, GraphTypeOK, PlaceInNewGroup, Placed, Calls
  <2>2. PlacedInto(groupCount + 1) /\ groupCount' < cursor'
    BY <1>2, <2>1 DEF PlacedInto, PlaceInNewGroup, GraphTypeOK, GroupsGrowByOne
  <2> QED
    BY <2>2, GroupsGrowPlaced
<1>3. ASSUME UNCHANGED <<group, groupCount, cursor>>, phase = "adding" => phase' = "adding"
      PROVE  GroupsGrowByOne'
  BY <1>3 DEF GroupsGrowByOne, Placed
<1>4. CASE StartSchedule
  BY <1>4 DEF StartSchedule, GroupsGrowByOne, GraphTypeOK, Placed
<1>5. ASSUME NEW resources \in ClaimSets, AddCall(resources)
      PROVE  GroupsGrowByOne'
  BY <1>5, <1>3 DEF AddCall
<1>6. CASE EndSchedule \/ UNCHANGED graphVars
  BY <1>6, <1>3 DEF EndSchedule, graphVars
<1> QED
  BY <1>1, <1>2, <1>4, <1>5, <1>6 DEF GraphNext, Schedule

(* The group the loop chose is the one FirstFitting chooses: it fits, none *)
(* before it does, and no other group is both.                             *)
LEMMA PlacementIsFirstFitting ==
  ASSUME GraphInv, GroupsGrowByOne, phase = "scheduled",
         NEW n \in Calls, NEW g, \A j \in 1..(n - 1) : g[j] = group[j]
  PROVE  FirstFitting(claims, n, g) = group[n]
<1>1. /\ Placed = Calls /\ group \in [Calls -> Nat] /\ n \in Placed /\ n \in Nat
      /\ 1..(n - 1) \subseteq Placed
      /\ group[n] \in 1..n
  BY DEF GraphInv, GraphTypeOK, PlacedInAGroup, Placed, Calls, GroupsGrowByOne
<1>2. FitsAmong(claims, n, g, group[n])
  <2> SUFFICES ASSUME NEW j \in 1..(n - 1), g[j] = group[n]
               PROVE  claims[n] \cap claims[j] = {}
    BY DEF FitsAmong
  <2>1. ~ Conflict(n, j)
    BY <1>1 DEF GraphInv, GroupsConflictFree
  <2>2. n # j
    BY <1>1
  <2> QED
    BY <2>1, <2>2 DEF Conflict
<1>3. ASSUME NEW k \in 1..(group[n] - 1) PROVE ~ FitsAmong(claims, n, g, k)
  <2>1. PICK j \in Placed : j < n /\ group[j] = k /\ Conflict(n, j)
    BY <1>1 DEF GraphInv, NoNeedlessSerialisation
  <2>2. j \in 1..(n - 1)
    BY <2>1, <1>1 DEF Placed
  <2> QED
    BY <2>1, <2>2 DEF FitsAmong, Conflict
<1>4. ASSUME NEW h \in 1..n, FitsAmong(claims, n, g, h),
             \A k \in 1..(h - 1) : ~ FitsAmong(claims, n, g, k)
      PROVE  h = group[n]
  <2>1. ~ (group[n] < h)
    BY <1>1, <1>2, <1>4
  <2>2. ~ (h < group[n])
    BY <1>1, <1>3, <1>4
  <2> QED
    BY <1>1, <2>1, <2>2
<1> QED
  BY <1>1, <1>2, <1>3, <1>4 DEF FirstFitting

LEMMA FirstFitReached ==
  ASSUME GraphInv, GroupsGrowByOne
  PROVE  ScheduleIsFirstFit
<1> SUFFICES ASSUME phase = "scheduled" PROVE group = FirstFitGroups(claims)
  BY DEF ScheduleIsFirstFit
<1>1. Len(claims) \in Nat /\ group \in [Calls -> Nat]
  BY DEF GraphInv, GraphTypeOK
<1>2. PICK f : IsFirstFit(f, claims, Len(claims)) /\ FirstFitGroups(claims) = f[Len(claims)]
  BY <1>1, FirstFitUnfolds
<1> DEFINE Upto(n) == [i \in 1..n |-> group[i]]
           S == {n \in Nat : n <= Len(claims) => f[n] = Upto(n)}
<1>3. 0 \in S
  <2>1. f[0] = <<>>
    BY <1>1, <1>2 DEF IsFirstFit
  <2> QED
    BY <2>1
<1>4. ASSUME NEW n \in S PROVE n + 1 \in S
  <2> SUFFICES ASSUME n + 1 <= Len(claims) PROVE f[n + 1] = Upto(n + 1)
    OBVIOUS
  <2>1. n \in Nat /\ n + 1 \in Calls /\ f[n] = Upto(n)
    BY <1>1 DEF Calls
  <2>2. f[n + 1] = Append(f[n], FirstFitting(claims, n + 1, f[n]))
    <3>1. \A k \in 0..Len(claims) :
            f[k] = IF k = 0 THEN <<>> ELSE Append(f[k - 1], FirstFitting(claims, k, f[k - 1]))
      BY <1>2 DEF IsFirstFit
    <3>2. n + 1 \in 0..Len(claims) /\ n + 1 # 0 /\ (n + 1) - 1 = n
      BY <1>1, <2>1
    <3> QED
      BY <3>1, <3>2
  <2>3. FirstFitting(claims, n + 1, f[n]) = group[n + 1]
    <3>1. \A j \in 1..((n + 1) - 1) : f[n][j] = group[j]
      BY <2>1
    <3> QED
      BY <3>1, <2>1, PlacementIsFirstFitting
  <2>4. Upto(n) \in Seq(Nat) /\ Len(Upto(n)) = n /\ group[n + 1] \in Nat
    BY <1>1, <2>1 DEF Calls
  <2>5. Append(Upto(n), group[n + 1]) = Upto(n + 1)
    BY <2>1, <2>4
  <2> QED
    BY <2>1, <2>2, <2>3, <2>5
<1>5. S = Nat
  <2>1. S \in SUBSET Nat
    OBVIOUS
  <2> HIDE DEF S
  <2> QED
    BY <2>1, <1>3, <1>4, NatSetInduction
<1>6. f[Len(claims)] = Upto(Len(claims))
  <2>1. Len(claims) \in Nat
    BY <1>1
  <2>2. Len(claims) \in S
    BY <1>5, <2>1
  <2> QED
    BY <2>1, <2>2
<1> QED
  BY <1>1, <1>2, <1>6 DEF Calls

(* The groups the loop ends with are those of FirstFit, which modules use  *)
(* that need the schedule and not its steps.                               *)
THEOREM LoopComputesFirstFit == GraphSpec => []ScheduleIsFirstFit
<1>1. GraphInv /\ GroupsGrowByOne /\ [GraphNext]_graphVars => GroupsGrowByOne'
  BY GroupsGrowNext
<1>2. GraphInv /\ GroupsGrowByOne => ScheduleIsFirstFit
  BY FirstFitReached
<1> QED
  BY <1>1, <1>2, GroupsGrowInit, GraphInvariant, PTL DEF GraphSpec

-----------------------------------------------------------------------------
(* Components.  A chain of conflicts that leads to a call without passing  *)
(* one twice has at most as many steps as there are calls, so a chain can  *)
(* always be prolonged by a conflict.                                      *)
IsChain(chain, n, i, j) ==
  /\ chain \in [1..n -> Calls]
  /\ chain[1] = i /\ chain[n] = j
  /\ \A s \in 1..(n - 1) : Conflict(chain[s], chain[s + 1])

LEMMA Shortcut ==
  ASSUME NEW n \in Nat, NEW i, NEW j, NEW chain, IsChain(chain, n, i, j),
         NEW s \in 1..n, NEW t \in 1..n, s < t, chain[s] = chain[t]
  PROVE  \E short : IsChain(short, n - (t - s), i, j)
<1> DEFINE m == n - (t - s)
           short == [r \in 1..m |-> IF r <= s THEN chain[r] ELSE chain[r + (t - s)]]
<1>1. m \in Nat /\ 1 <= m /\ m < n /\ s <= m
  OBVIOUS
<1>2. short \in [1..m -> Calls]
  <2>1. ASSUME NEW r \in 1..m PROVE short[r] \in Calls
    <3>1. CASE r <= s
      BY <3>1, <1>1 DEF IsChain
    <3>2. CASE ~ (r <= s)
      <4>1. r + (t - s) \in 1..n
        BY <1>1
      <4> QED
        BY <4>1, <3>2 DEF IsChain
    <3> QED
      BY <3>1, <3>2
  <2> QED
    BY <2>1
<1>3. short[1] = i
  BY <1>1 DEF IsChain
<1>4. short[m] = j
  <2>1. CASE m <= s
    <3>1. m = s /\ t = n
      BY <2>1, <1>1
    <3>2. short[m] = chain[s]
      BY <3>1, <1>1
    <3> QED
      BY <3>1, <3>2 DEF IsChain
  <2>2. CASE ~ (m <= s)
    <3>1. m + (t - s) = n /\ m \in 1..m
      BY <1>1
    <3> QED
      BY <2>2, <3>1 DEF IsChain
  <2> QED
    BY <2>1, <2>2
<1>5. ASSUME NEW r \in 1..(m - 1) PROVE Conflict(short[r], short[r + 1])
  <2>1. r \in 1..m /\ r + 1 \in 1..m /\ r \in Int
    BY <1>1
  <2>2. CASE r + 1 <= s
    <3>1. short[r] = chain[r] /\ short[r + 1] = chain[r + 1] /\ r \in 1..(n - 1)
      BY <2>1, <2>2
    <3> QED
      BY <3>1 DEF IsChain
  <2>3. CASE r = s
    <3>1. short[r] = chain[s] /\ short[r + 1] = chain[(s + 1) + (t - s)]
      BY <2>1, <2>3
    <3>2. (s + 1) + (t - s) = t + 1 /\ t \in 1..(n - 1)
      BY <2>1, <2>3
    <3> QED
      BY <3>1, <3>2 DEF IsChain
  <2>4. CASE s < r
    <3>1. short[r] = chain[r + (t - s)] /\ short[r + 1] = chain[(r + 1) + (t - s)]
      BY <2>1, <2>4
    <3>2. (r + 1) + (t - s) = (r + (t - s)) + 1 /\ r + (t - s) \in 1..(n - 1)
      BY <2>1, <2>4
    <3> QED
      BY <3>1, <3>2 DEF IsChain
  <2> QED
    BY <2>1, <2>2, <2>3, <2>4
<1> HIDE DEF short
<1> QED
  BY <1>2, <1>3, <1>4, <1>5 DEF IsChain

LEMMA ShortestChain ==
  ASSUME Len(claims) \in Nat, NEW i, NEW j, Linked(i, j)
  PROVE  \E n \in 1..Len(claims) : \E chain :
           /\ IsChain(chain, n, i, j)
           /\ \A s, t \in 1..n : chain[s] = chain[t] => s = t
<1> DEFINE S == {n \in Nat : 1 <= n /\ \E chain : IsChain(chain, n, i, j)}
<1>1. PICK len \in 1..Len(claims) : len \in S
  BY DEF Linked, IsChain
<1>2. PICK n \in S : \A k \in S : ~ (<<k, n>> \in OpToRel(<, Nat))
  BY <1>1, NatLessThanWellFounded, WFMin
<1>3. n \in Nat /\ \A k \in S : ~ (k < n)
  BY <1>2 DEF OpToRel
<1>4. n \in 1..Len(claims)
  <2>1. ~ (len < n)
    BY <1>1, <1>3
  <2> QED
    BY <1>1, <1>3, <2>1
<1>5. PICK chain : IsChain(chain, n, i, j)
  BY <1>2
<1>6. ASSUME NEW s \in 1..n, NEW t \in 1..n, chain[s] = chain[t], s < t
      PROVE  FALSE
  <2>1. n - (t - s) \in Nat /\ 1 <= n - (t - s) /\ n - (t - s) < n
    BY <1>3, <1>6
  <2>2. n - (t - s) \in S
    BY <2>1, <1>3, <1>5, <1>6, Shortcut
  <2> QED
    BY <2>1, <2>2, <1>3
<1>7. \A s, t \in 1..n : chain[s] = chain[t] => s = t
  <2> SUFFICES ASSUME NEW s \in 1..n, NEW t \in 1..n, chain[s] = chain[t]
               PROVE  s = t
    OBVIOUS
  <2>1. ~ (s < t) /\ ~ (t < s)
    BY <1>6
  <2> QED
    BY <2>1, <1>3
<1> QED
  BY <1>4, <1>5, <1>7

LEMMA LinkedByConflict ==
  ASSUME Len(claims) \in Nat, NEW i, NEW k, NEW j \in Calls, Linked(i, k), Conflict(k, j)
  PROVE  Linked(i, j)
<1>0. PICK n \in 1..Len(claims) : \E chain :
        IsChain(chain, n, i, k) /\ \A s, t \in 1..n : chain[s] = chain[t] => s = t
  BY ShortestChain
<1>1. PICK chain : /\ n \in 1..Len(claims) /\ IsChain(chain, n, i, k)
                   /\ \A s, t \in 1..n : chain[s] = chain[t] => s = t
  BY <1>0
<1>2. CASE \E s \in 1..n : chain[s] = j
  <2>1. PICK s \in 1..n : chain[s] = j
    BY <1>2
  <2> DEFINE part == [r \in 1..s |-> chain[r]]
  <2>2. IsChain(part, s, i, j)
    BY <1>1, <2>1 DEF IsChain
  <2>3. s \in 1..Len(claims)
    BY <1>1
  <2> QED
    BY <2>2, <2>3 DEF Linked, IsChain
<1>3. CASE \A s \in 1..n : chain[s] # j
  <2>1. chain \in Injection(1..n, Calls \ {j})
    BY <1>1, <1>3 DEF IsChain, Injection, IsInjective
  <2>2. IsFiniteSet(1..n) /\ Cardinality(1..n) = n
    BY <1>1, FS_Interval
  <2>3. IsFiniteSet(Calls) /\ Cardinality(Calls) = Len(claims)
    <3>1. 1 \in Int /\ Len(claims) \in Int
          /\ (IF 1 > Len(claims) THEN 0 ELSE Len(claims) - 1 + 1) = Len(claims)
      OBVIOUS
    <3> QED
      BY <3>1, FS_Interval DEF Calls
  <2>4. IsFiniteSet(Calls \ {j}) /\ Cardinality(Calls \ {j}) = Len(claims) - 1
    BY <2>3, FS_RemoveElement
  <2>5. n <= Len(claims) - 1
    BY <2>1, <2>2, <2>4, FS_Injection
  <2> DEFINE longer == [r \in 1..(n + 1) |-> IF r <= n THEN chain[r] ELSE j]
  <2>6. IsChain(longer, n + 1, i, j)
    BY <1>1 DEF IsChain
  <2>7. n + 1 \in 1..Len(claims)
    BY <1>1, <2>5
  <2> QED
    BY <2>6, <2>7 DEF Linked, IsChain
<1> QED
  BY <1>2, <1>3

LEMMA ComponentsFillGroups ==
  ASSUME GraphInv
  PROVE  ComponentsUsePrefixOfGroups
<1> SUFFICES ASSUME phase = "scheduled", NEW i \in Calls, NEW k \in Calls, Linked(i, k),
                    NEW g \in 1..group[k]
             PROVE  \E j \in Calls : Linked(i, j) /\ group[j] = g
  BY DEF ComponentsUsePrefixOfGroups, WeaklyConnectedComponents
<1>1. Len(claims) \in Nat /\ group \in [Calls -> Nat] /\ Placed = Calls
  BY DEF GraphInv, GraphTypeOK, Placed, Calls
<1>2. CASE g = group[k]
  BY <1>2
<1>3. CASE g # group[k]
  <2>1. g \in 1..(group[k] - 1)
    BY <1>1, <1>3
  <2>2. PICK j \in Calls : group[j] = g /\ Conflict(k, j)
    BY <1>1, <2>1 DEF GraphInv, NoNeedlessSerialisation
  <2> QED
    BY <1>1, <2>2, LinkedByConflict
<1> QED
  BY <1>2, <1>3

(* Components do not force one another apart: those a component of         *)
(* conflicting calls is spread over are the first groups, with no gap.     *)
THEOREM ComponentsStayTogether == GraphSpec => []ComponentsUsePrefixOfGroups
<1>1. GraphInv => ComponentsUsePrefixOfGroups
  BY ComponentsFillGroups
<1> QED
  BY <1>1, GraphInvariant, PTL

-----------------------------------------------------------------------------
(* The execution of the schedule.                                          *)

(* The loop over the groups: the schedule it follows, and how far it is.   *)
FollowsSchedule ==
  /\ Started => phase = IF parallelSafe THEN "scheduled" ELSE "adding"
  /\ Executing => active \in 1..Groups
  /\ status = "returned" /\ Started => active = Groups + 1
  /\ ~ Started => out = <<>>
  /\ status = "thrown" => Started

(* No call of a later group has started, every call of an earlier one has  *)
(* been collected.                                                         *)
ActiveGroupOnly ==
  Started =>
    \A i \in Calls :
      /\ worker[i] # "idle" => GroupOf(i) <= active
      /\ GroupOf(i) < active => i \in Collected
      /\ i \in Collected => worker[i] \in Done

(* The futures of a group are taken in call order.                         *)
CollectedInOrder ==
  Started =>
    /\ \A i \in Collected : \A j \in Calls :
         GroupOf(j) = GroupOf(i) /\ j < i => j \in Collected
    /\ \A p, q \in DOMAIN out : p < q =>
         LET i == out[p][1]
             j == out[q][1]
         IN  GroupOf(i) < GroupOf(j) \/ (GroupOf(i) = GroupOf(j) /\ i < j)

ExecInv ==
  /\ GraphInv
  /\ ExecTypeOK
  /\ FollowsSchedule
  /\ ActiveGroupOnly
  /\ CollectedInOrder
  /\ ForkHeldWhileRunning
  /\ status = "thrown" => \A i \in Calls : worker[i] # "running"

-----------------------------------------------------------------------------
LEMMA ExecInvInit == ExecInit => ExecInv
<1> SUFFICES ASSUME ExecInit PROVE ExecInv
  OBVIOUS
<1>1. GraphInv
  BY GraphInvInit DEF ExecInit
<1>2. ~ Started /\ ~ Executing
  BY DEF ExecInit, Started, Executing
<1>3. ExecTypeOK
  BY <1>1, <1>2 DEF ExecInit, ExecTypeOK, GraphInv, GraphInit
<1>4. QED
  BY <1>1, <1>2, <1>3
     DEF ExecInit, ExecInv, FollowsSchedule, ActiveGroupOnly, CollectedInOrder,
         ForkHeldWhileRunning

(* While execute builds its schedule there is nothing to preserve but the  *)
(* graph.                                                                  *)
LEMMA BuildingInv ==
  ASSUME ExecInv, status = "building", status' = "building",
         GraphInv', UNCHANGED <<parallelSafe, hasContext, active, out>>,
         known' \in Seq(BOOLEAN), Len(known') = Len(claims')
  PROVE  ExecInv'
<1>1. ~ Started' /\ ~ Executing' /\ out = <<>>
  BY DEF Started, Executing, ExecInv, FollowsSchedule
<1>2. ExecTypeOK'
  BY <1>1 DEF ExecInv, ExecTypeOK, GraphInv
<1>3. QED
  BY <1>1, <1>2
     DEF ExecInv, FollowsSchedule, ActiveGroupOnly, CollectedInOrder,
         ForkHeldWhileRunning

LEMMA AddToolCallInv ==
  ASSUME ExecInv, NEW resources \in ClaimSets, NEW registered \in BOOLEAN,
         AddToolCall(resources, registered)
  PROVE  ExecInv'
<1>1. GraphInv'
  BY AddCallInv DEF AddToolCall, ExecInv
<1>2. known' \in Seq(BOOLEAN) /\ Len(known') = Len(known) + 1
  BY DEF AddToolCall, ExecInv, ExecTypeOK
<1>3. Len(claims') = Len(claims) + 1
  BY GraphAssumption DEF AddToolCall, AddCall, ExecInv, GraphInv, GraphTypeOK
<1>4. QED
  BY <1>1, <1>2, <1>3, BuildingInv DEF AddToolCall, ExecInv, ExecTypeOK

LEMMA ScheduleCallsInv ==
  ASSUME ExecInv, ScheduleCalls
  PROVE  ExecInv'
<1>1. GraphInv'
  BY ScheduleInv DEF ScheduleCalls, ExecInv
<1>2. claims' = claims
  BY DEF ScheduleCalls, Schedule, StartSchedule, PlaceInGroup, PlaceInNewGroup,
         EndSchedule
<1>3. QED
  BY <1>1, <1>2, BuildingInv DEF ScheduleCalls, execVars, ExecInv, ExecTypeOK

LEMMA ReturnNothingInv ==
  ASSUME ExecInv, ReturnNothing
  PROVE  ExecInv'
<1>1. GraphInv'
  BY GraphInvStutter DEF ReturnNothing, ExecInv
<1>2. ~ Started' /\ ~ Executing' /\ ~ Started
  BY DEF ReturnNothing, Started, Executing, graphVars
<1>3. out' = <<>>
  BY <1>2 DEF ReturnNothing, ExecInv, FollowsSchedule
<1>4. ExecTypeOK'
  BY <1>1, <1>2, <1>3 DEF ReturnNothing, ExecInv, ExecTypeOK, GraphInv, graphVars
<1>5. QED
  BY <1>1, <1>2, <1>3, <1>4
     DEF ReturnNothing, ExecInv, FollowsSchedule, ActiveGroupOnly,
         CollectedInOrder, ForkHeldWhileRunning

LEMMA StartGroupsInv ==
  ASSUME ExecInv, StartGroups
  PROVE  ExecInv'
<1>1. GraphInv'
  BY GraphInvStutter DEF StartGroups, ExecInv
<1>2. Started' /\ out = <<>> /\ out' = <<>> /\ Calls' = Calls /\ Calls # {}
  BY DEF StartGroups, Started, ExecInv, FollowsSchedule, graphVars, Calls,
         GraphInv, GraphTypeOK
<1>3. \A i \in Calls : GroupOf(i)' = GroupOf(i)
  BY DEF GroupOf, StartGroups, graphVars
<1>4. \A i \in Calls : GroupOf(i) \in 1..Groups
  BY DEF GroupOf, Groups, StartGroups, ExecInv, ExecTypeOK, GraphInv, GraphTypeOK,
         PlacedInAGroup, Placed, Calls
<1>5. Groups' = Groups /\ Groups \in Nat /\ 1 \in 1..Groups
  <2>1. Groups' = Groups /\ Groups \in Nat
    BY DEF Groups, StartGroups, graphVars, ExecInv, GraphInv, GraphTypeOK
  <2>2. QED
    BY <2>1, <1>2, <1>4
<1>6. ExecTypeOK'
  BY <1>1, <1>2 DEF StartGroups, ExecInv, ExecTypeOK, GraphInv, graphVars
<1>7. FollowsSchedule'
  BY <1>2, <1>5 DEF StartGroups, FollowsSchedule, graphVars, Executing
<1>8. ActiveGroupOnly'
  BY <1>2, <1>3, <1>4, <1>5 DEF StartGroups, ActiveGroupOnly, Collected
<1>9. CollectedInOrder'
  BY <1>2 DEF CollectedInOrder, Collected
<1>10. QED
  BY <1>1, <1>2, <1>6, <1>7, <1>8, <1>9 DEF StartGroups, ExecInv, ForkHeldWhileRunning

-----------------------------------------------------------------------------
(* Once the groups are started, the graph and the mode stay as they are.   *)
LEMMA ScheduleIsFixed ==
  ASSUME ExecInv, Executing, status' # "building",
         UNCHANGED <<graphVars, parallelSafe, hasContext, known>>
  PROVE  /\ GraphInv' /\ Started /\ Started' /\ Calls' = Calls
         /\ Groups' = Groups /\ Groups \in Nat
         /\ \A i \in Calls : GroupOf(i)' = GroupOf(i) /\ GroupOf(i) \in 1..Groups
         /\ Calls \subseteq Nat
         /\ known' \in Seq(BOOLEAN) /\ Len(known') = Len(claims')
         /\ phase' = IF parallelSafe' THEN "scheduled" ELSE "adding"
<1>1. GraphInv'
  BY GraphInvStutter DEF ExecInv
<1>2. Started /\ Started'
  BY DEF ExecInv, ExecTypeOK, Started, graphVars
<1>3. Calls' = Calls /\ Calls \subseteq Nat
  BY DEF Calls, graphVars, ExecInv, GraphInv, GraphTypeOK
<1>4. Groups' = Groups /\ Groups \in Nat
  BY DEF Groups, graphVars, ExecInv, GraphInv, GraphTypeOK
<1>5. phase = IF parallelSafe THEN "scheduled" ELSE "adding"
  BY <1>2 DEF ExecInv, FollowsSchedule
<1>6. ASSUME NEW i \in Calls
      PROVE  GroupOf(i)' = GroupOf(i) /\ GroupOf(i) \in 1..Groups
  BY <1>5 DEF GroupOf, Groups, graphVars, ExecInv, ExecTypeOK, GraphInv,
              GraphTypeOK, PlacedInAGroup, Placed, Calls
<1>7. QED
  BY <1>1, <1>2, <1>3, <1>4, <1>5, <1>6 DEF ExecInv, ExecTypeOK, graphVars

LEMMA OrderUntouched ==
  ASSUME ExecInv, Executing, status' # "building",
         UNCHANGED <<graphVars, parallelSafe, hasContext, known, out>>
  PROVE  CollectedInOrder'
<1>1. Collected' = Collected
  BY DEF Collected
<1>2. \A p \in DOMAIN out : out[p][1] \in Calls
  BY DEF ExecInv, ExecTypeOK
<1>3. QED
  BY <1>1, <1>2, ScheduleIsFixed DEF ExecInv, CollectedInOrder, Collected

LEMMA LaunchInv ==
  ASSUME ExecInv, NEW i \in Calls, Launch(i)
  PROVE  ExecInv'
<1>1. Executing /\ Executing' /\ status' # "building"
  BY DEF Launch, Executing
<1>2. ExecTypeOK'
  BY <1>1, ScheduleIsFixed DEF Launch, ExecInv, ExecTypeOK, GraphInv
<1>3. FollowsSchedule'
  BY <1>1, ScheduleIsFixed DEF Launch, ExecInv, FollowsSchedule
<1>4. ActiveGroupOnly'
  <2>1. Collected' = Collected
    BY DEF Collected, Launch
  <2>2. GroupOf(i) = active
    BY DEF Launch, Members
  <2>3. i \notin Collected
    BY <1>1, ScheduleIsFixed DEF Launch, ExecInv, ActiveGroupOnly, Done
  <2>4. worker' = [worker EXCEPT ![i] = "running"] /\ active' = active
    BY DEF Launch
  <2>5. QED
    BY <2>1, <2>2, <2>3, <2>4, <1>1, ScheduleIsFixed
       DEF Launch, ExecInv, ExecTypeOK, ActiveGroupOnly
<1>5. CollectedInOrder'
  BY <1>1, OrderUntouched DEF Launch
<1>6. ForkHeldWhileRunning'
  BY <1>1, ScheduleIsFixed DEF Launch, ExecInv, ExecTypeOK, ForkHeldWhileRunning
<1>7. QED
  BY <1>1, <1>2, <1>3, <1>4, <1>5, <1>6, ScheduleIsFixed DEF Launch, ExecInv

LEMMA FinishInv ==
  ASSUME ExecInv, NEW i \in Calls, NEW outcome \in Done \cup {"threw"},
         Finish(i, outcome)
  PROVE  ExecInv'
<1>1. Executing /\ Executing' /\ status' # "building"
  BY DEF Finish, Executing
<1>2. ExecTypeOK'
  BY <1>1, ScheduleIsFixed DEF Finish, ExecInv, ExecTypeOK, GraphInv, Done
<1>3. FollowsSchedule'
  BY <1>1, ScheduleIsFixed DEF Finish, ExecInv, FollowsSchedule
<1>4. ActiveGroupOnly'
  <2>1. Collected' = Collected
    BY DEF Collected, Finish
  <2>2. i \notin Collected
    BY <1>1, ScheduleIsFixed DEF Finish, ExecInv, ActiveGroupOnly, Done
  <2>3. QED
    BY <2>1, <2>2, <1>1, ScheduleIsFixed DEF Finish, ExecInv, ExecTypeOK, ActiveGroupOnly
<1>5. CollectedInOrder'
  BY <1>1, OrderUntouched DEF Finish
<1>6. ForkHeldWhileRunning'
  BY <1>1, ScheduleIsFixed DEF Finish, ExecInv, ExecTypeOK, ForkHeldWhileRunning, Done
<1>7. QED
  BY <1>1, <1>2, <1>3, <1>4, <1>5, <1>6, ScheduleIsFixed
     DEF Finish, Executing, ExecInv

LEMMA CollectInv ==
  ASSUME ExecInv, NEW i \in Calls, Collect(i)
  PROVE  ExecInv'
<1>1. Executing /\ Executing' /\ status' # "building"
  BY DEF Collect, IsNextFuture, Executing
<1>0. /\ Started /\ Started' /\ Calls' = Calls /\ Calls \subseteq Nat
       /\ Groups \in Nat
       /\ \A j \in Calls : GroupOf(j)' = GroupOf(j) /\ GroupOf(j) \in 1..Groups
  BY <1>1, ScheduleIsFixed DEF Collect
<1>2. /\ out' \in Seq(Calls \X BOOLEAN) /\ Len(out') = Len(out) + 1
      /\ out'[Len(out')][1] = i
      /\ \A p \in DOMAIN out : out'[p] = out[p]
      /\ DOMAIN out' = DOMAIN out \cup {Len(out')} /\ DOMAIN out = 1..Len(out)
      /\ Len(out) \in Nat
  <2>1. out \in Seq(Calls \X BOOLEAN)
    BY DEF ExecInv, ExecTypeOK
  <2>2. <<i, worker[i] = "ok">> \in Calls \X BOOLEAN
    OBVIOUS
  <2>3. out' = Append(out, <<i, worker[i] = "ok">>)
    BY DEF Collect
  <2>4. /\ out' \in Seq(Calls \X BOOLEAN) /\ Len(out') = Len(out) + 1
        /\ out'[Len(out) + 1] = <<i, worker[i] = "ok">>
        /\ \A p \in 1..Len(out) : out'[p] = out[p]
        /\ Len(out) \in Nat /\ DOMAIN out = 1..Len(out)
        /\ DOMAIN out' = 1..(Len(out) + 1)
    BY <2>1, <2>2, <2>3
  <2>5. QED
    BY <2>4
<1>3. Collected' = Collected \cup {i}
  BY <1>2 DEF Collected
<1>4. i \in Members /\ i \notin Collected
  BY DEF Collect, IsNextFuture
<1>5. ExecTypeOK'
  BY <1>1, <1>2, ScheduleIsFixed DEF Collect, ExecInv, ExecTypeOK, GraphInv
<1>6. FollowsSchedule'
  BY <1>1, ScheduleIsFixed DEF Collect, ExecInv, FollowsSchedule
<1>7. ActiveGroupOnly'
  BY <1>1, <1>3, ScheduleIsFixed DEF Collect, ExecInv, ActiveGroupOnly
<1>8. \A j \in Calls : GroupOf(j) = active /\ j < i => j \in Collected
  BY <1>1, ScheduleIsFixed DEF Collect, IsNextFuture, Members
<1>9. \A c \in Collected : c \in Calls /\ GroupOf(c) <= active
  <2>1. Collected \subseteq Calls
    BY DEF Collected, ExecInv, ExecTypeOK
  <2>2. Started
    BY <1>1, ScheduleIsFixed DEF Collect
  <2>3. \A c \in Collected : worker[c] # "idle"
    BY <2>1, <2>2 DEF ExecInv, ActiveGroupOnly, Done
  <2>4. QED
    BY <2>1, <2>2, <2>3 DEF ExecInv, ActiveGroupOnly
<1>10. CollectedInOrder'
  <2>1. ASSUME NEW c \in Collected', NEW j \in Calls,
               GroupOf(j) = GroupOf(c), j < c
        PROVE  j \in Collected'
    <3>1. CASE c = i
      BY <2>1, <3>1, <1>3, <1>4, <1>8 DEF Members
    <3>2. CASE c # i
      BY <2>1, <3>2, <1>0, <1>3 DEF ExecInv, CollectedInOrder
    <3>3. QED
      BY <3>1, <3>2
  <2>2. ASSUME NEW p \in DOMAIN out', NEW q \in DOMAIN out', p < q
        PROVE  LET c == out'[p][1]
                   d == out'[q][1]
               IN  GroupOf(c) < GroupOf(d) \/ (GroupOf(c) = GroupOf(d) /\ c < d)
    <3>1. p \in DOMAIN out /\ out'[p] = out[p] /\ out[p][1] \in Collected
      BY <2>2, <1>2 DEF Collected
    <3>2. CASE q \in DOMAIN out
      BY <2>2, <3>1, <3>2, <1>0, <1>2 DEF ExecInv, CollectedInOrder
    <3>3. CASE q = Len(out')
      <4> DEFINE c == out[p][1]
      <4>1. c \in Collected /\ c \in Calls /\ GroupOf(c) <= active /\ c # i
        BY <3>1, <1>4, <1>9
      <4>2. GroupOf(i) = active
        BY <1>4 DEF Members
      <4>3. CASE GroupOf(c) < active
        BY <3>1, <3>3, <4>2, <4>3, <1>2
      <4>4. CASE GroupOf(c) = active
        <5>1. i < c => i \in Collected
          BY <4>1, <4>2, <4>4, <1>0 DEF ExecInv, CollectedInOrder
        <5>2. c \in Nat /\ i \in Nat /\ ~ (i < c)
          BY <5>1, <4>1, <1>0, <1>4
        <5>3. c < i
          BY <5>2, <4>1
        <5>4. QED
          BY <3>1, <3>3, <4>2, <4>4, <5>3, <1>2
      <4>5. GroupOf(c) \in Nat /\ active \in Nat
        <5>1. GroupOf(c) \in 1..Groups /\ GroupOf(i) \in 1..Groups
          BY <4>1, <1>0
        <5>2. QED
          BY <5>1, <4>2, <1>0
      <4>6. QED
        BY <4>1, <4>3, <4>4, <4>5
    <3>4. QED
      BY <3>2, <3>3, <1>2
  <2>3. \A c \in Collected' : c \in Calls /\ GroupOf(c)' = GroupOf(c)
    BY <1>0, <1>3, <1>9
  <2>4. \A p \in DOMAIN out' : out'[p][1] \in Collected'
    BY DEF Collected
  <2>5. QED
    BY <2>1, <2>2, <2>3, <2>4, <1>0 DEF CollectedInOrder
<1>11. ForkHeldWhileRunning'
  BY <1>1, ScheduleIsFixed DEF Collect, ExecInv, ForkHeldWhileRunning
<1>12. QED
  BY <1>1, <1>5, <1>6, <1>7, <1>10, <1>11, ScheduleIsFixed
     DEF Collect, Executing, ExecInv

LEMMA RethrowInv ==
  ASSUME ExecInv, NEW i \in Calls, Rethrow(i)
  PROVE  ExecInv'
<1>1. Executing /\ Executing' /\ status' = "unwinding"
  BY DEF Rethrow, IsNextFuture, Executing
<1>2. ExecTypeOK'
  BY <1>1, ScheduleIsFixed DEF Rethrow, ExecInv, ExecTypeOK, GraphInv
<1>3. FollowsSchedule'
  BY <1>1, ScheduleIsFixed DEF Rethrow, ExecInv, FollowsSchedule
<1>4. Collected' = Collected
  BY DEF Collected, Rethrow
<1>5. ActiveGroupOnly'
  BY <1>1, <1>4, ScheduleIsFixed DEF Rethrow, ExecInv, ActiveGroupOnly
<1>6. CollectedInOrder'
  BY <1>1, OrderUntouched DEF Rethrow
<1>7. QED
  BY <1>1, <1>2, <1>3, <1>5, <1>6, ScheduleIsFixed
     DEF Rethrow, ExecInv, ForkHeldWhileRunning

LEMMA LeaveByExceptionInv ==
  ASSUME ExecInv, LeaveByException
  PROVE  ExecInv'
<1>1. Executing /\ ~ Executing' /\ status' = "thrown"
  BY DEF LeaveByException, Executing
<1>2. ExecTypeOK'
  BY <1>1, ScheduleIsFixed DEF LeaveByException, ExecInv, ExecTypeOK, GraphInv
<1>3. FollowsSchedule'
  BY <1>1, ScheduleIsFixed DEF LeaveByException, ExecInv, FollowsSchedule
<1>4. Collected' = Collected
  BY DEF Collected, LeaveByException
<1>5. ActiveGroupOnly'
  BY <1>1, <1>4, ScheduleIsFixed DEF LeaveByException, ExecInv, ActiveGroupOnly
<1>6. CollectedInOrder'
  BY <1>1, OrderUntouched DEF LeaveByException
<1>7. ASSUME NEW i \in Calls PROVE worker[i] # "running"
  <2>1. GroupOf(i) \in Nat /\ active \in Nat /\ Started
    BY <1>1, ScheduleIsFixed DEF LeaveByException, ExecInv, ExecTypeOK
  <2>2. CASE GroupOf(i) < active
    BY <2>1, <2>2 DEF ExecInv, ActiveGroupOnly, Done
  <2>3. CASE GroupOf(i) = active
    BY <2>3 DEF LeaveByException, Members
  <2>4. CASE GroupOf(i) > active
    BY <2>1, <2>4 DEF ExecInv, ActiveGroupOnly
  <2>5. QED
    BY <2>1, <2>2, <2>3, <2>4
<1>8. QED
  BY <1>1, <1>2, <1>3, <1>5, <1>6, <1>7, ScheduleIsFixed
     DEF LeaveByException, ExecInv, ForkHeldWhileRunning

LEMMA EndGroupInv ==
  ASSUME ExecInv, EndGroup
  PROVE  ExecInv'
<1>1. Executing /\ status' \in {"returned", "running"}
  BY DEF EndGroup, Executing
<1>2. /\ Started /\ Started' /\ Calls' = Calls /\ Groups' = Groups /\ Groups \in Nat
      /\ \A i \in Calls : GroupOf(i)' = GroupOf(i) /\ GroupOf(i) \in 1..Groups
  BY <1>1, ScheduleIsFixed DEF EndGroup
<1>3. active \in 1..Groups /\ active' = active + 1
  BY <1>1 DEF EndGroup, ExecInv, FollowsSchedule
<1>4. ExecTypeOK'
  BY <1>1, <1>3, ScheduleIsFixed DEF EndGroup, ExecInv, ExecTypeOK, GraphInv
<1>5. FollowsSchedule'
  BY <1>1, <1>2, <1>3, ScheduleIsFixed
     DEF EndGroup, ExecInv, FollowsSchedule, Executing
<1>6. Collected' = Collected
  BY DEF Collected, EndGroup
<1>7. ActiveGroupOnly'
  <2> SUFFICES ASSUME NEW i \in Calls
               PROVE  /\ worker[i] # "idle" => GroupOf(i) <= active + 1
                      /\ GroupOf(i) < active + 1 => i \in Collected
                      /\ i \in Collected => worker[i] \in Done
    BY <1>2, <1>3, <1>6 DEF EndGroup, ActiveGroupOnly
  <2>1. CASE GroupOf(i) = active
    BY <2>1, <1>2, <1>3 DEF EndGroup, Members, ExecInv, ActiveGroupOnly
  <2>2. CASE GroupOf(i) # active
    BY <2>2, <1>2, <1>3 DEF ExecInv, ActiveGroupOnly
  <2>3. QED
    BY <2>1, <2>2
<1>8. CollectedInOrder'
  BY <1>1, OrderUntouched DEF EndGroup
<1>9. ForkHeldWhileRunning'
  <2>1. ASSUME NEW i \in Calls, worker[i] = "running"
        PROVE  i \notin Members
    BY <2>1, <1>2 DEF EndGroup, ExecInv, ActiveGroupOnly, Done
  <2>2. QED
    BY <2>1, <1>2 DEF EndGroup, ExecInv, ForkHeldWhileRunning
<1>10. QED
  BY <1>1, <1>4, <1>5, <1>7, <1>8, <1>9, ScheduleIsFixed DEF EndGroup, ExecInv

LEMMA StutterInv ==
  ASSUME ExecInv, UNCHANGED vars
  PROVE  ExecInv'
<1>1. UNCHANGED graphVars /\ UNCHANGED execVars
  BY DEF vars
<1>2. GraphInv'
  BY <1>1, GraphInvStutter DEF ExecInv
<1>3. /\ Calls' = Calls /\ Started' = Started /\ Executing' = Executing
      /\ Groups' = Groups /\ Collected' = Collected
      /\ \A i : GroupOf(i)' = GroupOf(i)
  BY <1>1 DEF graphVars, execVars, Calls, Started, Executing, Groups, Collected, GroupOf
<1>4. ExecTypeOK'
  BY <1>1, <1>2, <1>3 DEF graphVars, execVars, ExecInv, ExecTypeOK, GraphInv
<1>5. FollowsSchedule'
  BY <1>1, <1>3 DEF graphVars, execVars, ExecInv, FollowsSchedule
<1>6. ActiveGroupOnly'
  BY <1>1, <1>3 DEF execVars, ExecInv, ActiveGroupOnly
<1>7. CollectedInOrder'
  BY <1>1, <1>3 DEF execVars, ExecInv, CollectedInOrder
<1>8. QED
  BY <1>1, <1>2, <1>3, <1>4, <1>5, <1>6, <1>7
     DEF execVars, ExecInv, ForkHeldWhileRunning

LEMMA ExecInvariant == Spec => []ExecInv
<1>1. ExecInv /\ [Next]_vars => ExecInv'
  <2> SUFFICES ASSUME ExecInv, [Next]_vars PROVE ExecInv'
    OBVIOUS
  <2>1. ASSUME NEW resources \in ClaimSets, NEW registered \in BOOLEAN,
               AddToolCall(resources, registered)
        PROVE  ExecInv'
    BY <2>1, AddToolCallInv
  <2>2. CASE Caller
    <3>1. ASSUME NEW i \in Calls, Launch(i) \/ Collect(i) \/ Rethrow(i)
          PROVE  ExecInv'
      BY <3>1, LaunchInv, CollectInv, RethrowInv
    <3>2. QED
      BY <2>2, <3>1, ReturnNothingInv, ScheduleCallsInv, StartGroupsInv,
         LeaveByExceptionInv, EndGroupInv DEF Caller
  <2>3. ASSUME NEW i \in Calls, Worker(i)
        PROVE  ExecInv'
    BY <2>3, FinishInv DEF Worker
  <2>4. CASE UNCHANGED vars
    BY <2>4, StutterInv
  <2>5. QED
    BY <2>1, <2>2, <2>3, <2>4 DEF Next
<1>2. QED
  BY <1>1, ExecInvInit, PTL DEF Spec

-----------------------------------------------------------------------------
(* What every call of execute may rely on in a state of the invariant.     *)
LEMMA ExecutingFacts ==
  ASSUME ExecInv, Executing
  PROVE  /\ Started /\ Calls \subseteq Nat /\ active \in Nat
         /\ \A i \in Calls : GroupOf(i) \in Nat
         /\ parallelSafe => phase = "scheduled" /\ Placed = Calls
<1>1. Started /\ Calls \subseteq Nat
  BY DEF ExecInv, ExecTypeOK, Calls, GraphInv, GraphTypeOK
<1>2. phase = IF parallelSafe THEN "scheduled" ELSE "adding"
  BY <1>1 DEF ExecInv, FollowsSchedule
<1>3. parallelSafe => Placed = Calls
  BY <1>2 DEF ExecInv, GraphInv, GraphTypeOK, Placed, Calls
<1>4. ASSUME NEW i \in Calls PROVE GroupOf(i) \in Nat
  BY <1>2 DEF GroupOf, ExecInv, ExecTypeOK, GraphInv, GraphTypeOK
<1>5. QED
  BY <1>1, <1>2, <1>3, <1>4 DEF ExecInv, ExecTypeOK

(* While the executor is parallel-safe, no two calls that share a resource *)
(* are in progress at the same time, on any schedule of the threads.       *)
THEOREM NeverConflictingOverlap == Spec => []NoConflictingOverlap
<1>1. ExecInv => NoConflictingOverlap
  <2> SUFFICES ASSUME ExecInv, Executing, parallelSafe,
                      NEW i \in Calls, NEW j \in Calls,
                      worker[i] = "running", worker[j] = "running"
               PROVE  ~ Conflict(i, j)
    BY DEF NoConflictingOverlap
  <2>1. ASSUME NEW k \in Calls, worker[k] = "running"
        PROVE  group[k] = active
    <3>1. GroupOf(k) <= active /\ ~ (GroupOf(k) < active)
      BY <2>1, ExecutingFacts DEF ExecInv, ActiveGroupOnly, Done
    <3>2. QED
      BY <3>1, ExecutingFacts DEF GroupOf
  <2>2. group[i] = group[j]
    BY <2>1
  <2>3. QED
    BY <2>2, ExecutingFacts DEF ExecInv, GraphInv, GroupsConflictFree
<1>2. QED
  BY <1>1, ExecInvariant, PTL

(* A group starts only when the one before it is over.                     *)
THEOREM GroupsAreBarriers == Spec => []GroupBarrier
<1>1. ExecInv => GroupBarrier
  <2> SUFFICES ASSUME ExecInv, Executing, NEW i \in Calls, NEW j \in Calls,
                      worker[i] # "idle", GroupOf(j) < GroupOf(i)
               PROVE  worker[j] \in Done /\ j \in Collected
    BY DEF GroupBarrier
  <2>1. GroupOf(i) <= active
    BY ExecutingFacts DEF ExecInv, ActiveGroupOnly
  <2>2. GroupOf(j) < active
    BY <2>1, ExecutingFacts
  <2>3. QED
    BY <2>2, ExecutingFacts DEF ExecInv, ActiveGroupOnly
<1>2. QED
  BY <1>1, ExecInvariant, PTL

(* Conflicting calls run in the order the model asked for them, where      *)
(* conflict is transitive.                                                 *)
THEOREM ConflictingCallsKeepOrder == Spec => []ConflictingCallsInOrder
<1>1. ExecInv => ConflictingCallsInOrder
  <2> SUFFICES ASSUME ExecInv, Executing, parallelSafe, ConflictTransitive,
                      NEW i \in Calls, NEW j \in Calls,
                      i < j, Conflict(i, j), worker[j] # "idle"
               PROVE  worker[i] \in Done
    BY DEF ConflictingCallsInOrder
  <2>1. group[i] < group[j]
    BY ExecutingFacts DEF ExecInv, GraphInv, ConflictsKeepOrder
  <2>2. GroupOf(i) < GroupOf(j)
    BY <2>1 DEF GroupOf
  <2>3. GroupOf(j) <= active
    BY ExecutingFacts DEF ExecInv, ActiveGroupOnly
  <2>4. GroupOf(i) < active
    BY <2>2, <2>3, ExecutingFacts
  <2>5. QED
    BY <2>4, ExecutingFacts DEF ExecInv, ActiveGroupOnly
<1>2. QED
  BY <1>1, ExecInvariant, PTL

(* execute returns the record of every call, ordered by group.             *)
THEOREM ExecuteReturnsEveryCall == Spec => []RecordsInGroupOrder
<1>1. ExecInv => RecordsInGroupOrder
  <2> SUFFICES ASSUME ExecInv PROVE RecordsInGroupOrder
    OBVIOUS
  <2>1. ASSUME status = "returned" PROVE Collected = Calls
    <3>1. CASE Started
      <4>1. active = Groups + 1 /\ phase = IF parallelSafe THEN "scheduled" ELSE "adding"
        BY <2>1, <3>1 DEF ExecInv, FollowsSchedule
      <4>2. ASSUME NEW i \in Calls PROVE GroupOf(i) < active
        BY <4>1 DEF GroupOf, Groups, ExecInv, ExecTypeOK, GraphInv, GraphTypeOK,
                    PlacedInAGroup, Placed, Calls
      <4>3. Calls \subseteq Collected
        BY <3>1, <4>2 DEF ExecInv, ActiveGroupOnly
      <4>4. Collected \subseteq Calls
        BY DEF Collected, ExecInv, ExecTypeOK
      <4>5. QED
        BY <4>3, <4>4
    <3>2. CASE ~ Started
      <4>1. claims = <<>> /\ out = <<>>
        BY <2>1, <3>2 DEF Started, ExecInv, FollowsSchedule
      <4>2. QED
        BY <4>1 DEF Collected, Calls
    <3>3. QED
      BY <3>1, <3>2
  <2>2. CASE Started
    BY <2>1, <2>2 DEF ExecInv, CollectedInOrder, RecordsInGroupOrder
  <2>3. CASE ~ Started
    BY <2>1, <2>3 DEF ExecInv, FollowsSchedule, RecordsInGroupOrder
  <2>4. QED
    BY <2>2, <2>3
<1>2. QED
  BY <1>1, ExecInvariant, PTL

(* execute is over only when its workers are, whether it returns or throws.*)
THEOREM WorkersEndFirst == Spec => []NoWorkerOutlivesExecute
<1>1. ExecInv => NoWorkerOutlivesExecute
  <2> SUFFICES ASSUME ExecInv, Over, Started, NEW i \in Calls
               PROVE  worker[i] # "running"
    BY DEF NoWorkerOutlivesExecute
  <2>1. CASE status = "thrown"
    BY <2>1 DEF ExecInv
  <2>2. CASE status = "returned"
    <3>1. active = Groups + 1 /\ phase = IF parallelSafe THEN "scheduled" ELSE "adding"
      BY <2>2 DEF ExecInv, FollowsSchedule
    <3>2. GroupOf(i) < active
      BY <3>1 DEF GroupOf, Groups, ExecInv, ExecTypeOK, GraphInv, GraphTypeOK,
                  PlacedInAGroup, Placed, Calls
    <3>3. QED
      BY <3>2 DEF ExecInv, ActiveGroupOnly, Done
  <2>3. QED
    BY <2>1, <2>2 DEF Over
<1>2. QED
  BY <1>1, ExecInvariant, PTL

(* Until an exception unwinds execute, a running worker's fork is alive.   *)
THEOREM ForksHeld == Spec => []ForkHeldWhileRunning
<1>1. ExecInv => ForkHeldWhileRunning
  BY DEF ExecInv
<1>2. QED
  BY <1>1, ExecInvariant, PTL

-----------------------------------------------------------------------------
(* What Orchestrator makes of execute: it has no groups and no workers, and*)
(* takes the calls in the order RunsBefore gives them.                     *)

(* The executor builds its graph by the graph's own members: what is proved*)
(* of any sequence of their calls holds of the one execute makes.          *)
THEOREM ExecutorUsesGraph == Spec => GraphSpec
<1>1. ExecInit => GraphInit
  BY DEF ExecInit
<1>2. [Next]_vars => [GraphNext]_graphVars
  <2> SUFFICES ASSUME [Next]_vars PROVE [GraphNext]_graphVars
    OBVIOUS
  <2>1. ASSUME NEW resources \in ClaimSets, NEW registered \in BOOLEAN,
               AddToolCall(resources, registered)
        PROVE  GraphNext
    BY <2>1 DEF AddToolCall, GraphNext
  <2>2. CASE Caller
    <3>1. CASE ScheduleCalls
      BY <3>1 DEF ScheduleCalls, GraphNext
    <3>2. ASSUME NEW i \in Calls, Launch(i) \/ Collect(i) \/ Rethrow(i)
          PROVE  UNCHANGED graphVars
      BY <3>2 DEF Launch, Collect, Rethrow
    <3>3. CASE ReturnNothing \/ StartGroups \/ LeaveByException \/ EndGroup
      BY <3>3 DEF ReturnNothing, StartGroups, LeaveByException, EndGroup
    <3>4. QED
      BY <2>2, <3>1, <3>2, <3>3 DEF Caller
  <2>3. ASSUME NEW i \in Calls, Worker(i) PROVE UNCHANGED graphVars
    BY <2>3 DEF Worker, Finish
  <2>4. CASE UNCHANGED vars
    BY <2>4 DEF vars
  <2>5. QED
    BY <2>1, <2>2, <2>3, <2>4 DEF Next
<1>3. QED
  BY <1>1, <1>2, PTL DEF Spec, GraphSpec

RecordsAsRun ==
  parallelSafe =>
    \A p, q \in DOMAIN out : p < q => RunsBefore(claims, out[p][1], out[q][1])

(* The records of a parallel-safe executor come in the order Orchestrator  *)
(* runs and records the calls in, whatever the workers do.                 *)
THEOREM RecordsComeAsOrchestratorRunsThem == Spec => []RecordsAsRun
<1>1. ExecInv /\ ScheduleIsFirstFit => RecordsAsRun
  <2> SUFFICES ASSUME ExecInv, ScheduleIsFirstFit, parallelSafe,
                      NEW p \in DOMAIN out, NEW q \in DOMAIN out, p < q
               PROVE  RunsBefore(claims, out[p][1], out[q][1])
    BY DEF RecordsAsRun
  <2>1. Started
    <3>1. out # <<>>
      BY DEF ExecInv, ExecTypeOK
    <3>2. QED
      BY <3>1 DEF ExecInv, FollowsSchedule
  <2>2. group = FirstFitGroups(claims)
    BY <2>1 DEF ExecInv, FollowsSchedule, ScheduleIsFirstFit
  <2>3. LET i == out[p][1]
            j == out[q][1]
        IN  group[i] < group[j] \/ (group[i] = group[j] /\ i < j)
    BY <2>1 DEF ExecInv, CollectedInOrder, GroupOf
  <2>4. QED
    BY <2>2, <2>3 DEF RunsBefore
<1>2. QED
  BY <1>1, ExecInvariant, ExecutorUsesGraph, LoopComputesFirstFit, PTL
=============================================================================
