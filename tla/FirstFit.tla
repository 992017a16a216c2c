------------------------------- MODULE FirstFit -------------------------------
(***************************************************************************)
(* The schedule of DependencyGraph as a function of the claims, for the    *)
(* modules that need its outcome and not its steps: the group of each call *)
(* and the order in which ToolExecutor runs them and returns their records. *)
(***************************************************************************)
EXTENDS Naturals, Sequences

(* claims[i] is the set of resources of call i, g the groups of the calls  *)
(* before n.                                                               *)
FitsAmong(claims, n, g, h) ==
  \A j \in 1..(n - 1) : g[j] = h => claims[n] \cap claims[j] = {}

FirstFitting(claims, n, g) ==
  CHOOSE h \in 1..n : /\ FitsAmong(claims, n, g, h)
                     /\ \A k \in 1..(h - 1) : ~ FitsAmong(claims, n, g, k)

FirstFitGroups(claims) ==
  LET groups[n \in 0..Len(claims)] ==
        IF n = 0 THEN <<>>
        ELSE Append(groups[n - 1], FirstFitting(claims, n, groups[n - 1]))
  IN  groups[Len(claims)]

(* Group after group, in call order within a group.                       *)
RunsBefore(claims, i, j) ==
  LET g == FirstFitGroups(claims)
  IN  g[i] < g[j] \/ (g[i] = g[j] /\ i < j)
===============================================================================
