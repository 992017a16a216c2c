--------------------------- MODULE ContextManager ---------------------------
(***************************************************************************)
(* ContextManager of src/core/context_manager.cpp: a digest of the keys    *)
(* found in the tool results, and a working set rendered within a budget of*)
(* tokens.  Its store keeps nothing on disk; the store on a file is the    *)
(* other use of FactStore, and a behaviour shows one or the other.         *)
(***************************************************************************)
EXTENDS FactStore

CONSTANTS ToolResults,  \* the facts a context manager is given
          HardKeys(_),  \* the keys and values read from a fact's content
          Budget,       \* token_budget
          GoalTokens,   \* estimate_tokens of the goal
          MaxRecords    \* bound on the calls of record_tool_result

ASSUME ContextAssumption ==
  Budget \in Nat /\ GoalTokens \in Nat /\ MaxRecords \in Nat

VARIABLES onFile,      \* which of the two uses
          fact_order,  \* the facts whose ids were recorded
          digest,      \* digest_
          early,       \* history: an id was recorded before its fact was stored
          token_count  \* of the last working set

contextVars == <<fact_order, digest, early, token_count>>
vars == <<storeVars, onFile, contextVars>>

-----------------------------------------------------------------------------
(* estimate_tokens for ASCII text: the maximal runs without a blank.       *)
EstimateTokens(text) ==
  LET blank == {" ", "\n", "\t"}
  IN  Cardinality({i \in DOMAIN text :
                     text[i] \notin blank /\ (i = 1 \/ text[i - 1] \in blank)})

MergeKeys(es, d, f) ==
  LET keys == IF Holds(es, f) THEN HardKeys(f) ELSE <<>>
  IN  [k \in DOMAIN keys \cup DOMAIN d |-> IF k \in DOMAIN keys THEN keys[k] ELSE d[k]]

(* What rebuild_digest makes of the ids in `order'.                        *)
DigestOf(es, order) ==
  LET merged[n \in 0..Len(order)] ==
        IF n = 0 THEN <<>> ELSE MergeKeys(es, merged[n - 1], order[n])
  IN  merged[Len(order)]

Rebuilt == DigestOf(entries, fact_order)

(* "- k = v" counts four tokens.                                           *)
HeaderTokens == 2 + GoalTokens + 2 + 4 * Cardinality(DOMAIN digest)

(* The heading "## id", and the content if it fits the budget by itself, or*)
(* the first characters of it, half as many as the budget has tokens, and a*)
(* line of four tokens that says so.                                       *)
BlockTokens(f) ==
  2 + IF EstimateTokens(f.content) <= Budget THEN EstimateTokens(f.content)
      ELSE EstimateTokens(SubSeq(f.content, 1, IF Budget \div 2 < Len(f.content)
                                                 THEN Budget \div 2 ELSE Len(f.content))) + 4

-----------------------------------------------------------------------------
Init ==
  /\ onFile \in BOOLEAN
  /\ StoreInit
  /\ fact_order = <<>> /\ digest = <<>> /\ early = FALSE /\ token_count = 0

(* Mutant of RecordToolResult: an id recorded before keeps its place.      *)
RecordOnce(f) ==
  /\ Len(fact_order) < MaxRecords
  /\ fact_order' = IF f \in Range(fact_order) THEN fact_order ELSE Append(fact_order, f)
  /\ digest' = MergeKeys(entries, digest, f)
  /\ early' = (early \/ ~ Holds(entries, f))
  /\ UNCHANGED <<storeVars, onFile, token_count>>

RecordToolResult(f) ==
  /\ Len(fact_order) < MaxRecords
  /\ fact_order' = Append(fact_order, f)
  /\ digest' = MergeKeys(entries, digest, f)
  /\ early' = (early \/ ~ Holds(entries, f))
  /\ UNCHANGED <<storeVars, onFile, token_count>>

RebuildDigest ==
  /\ digest' = Rebuilt
  /\ UNCHANGED <<storeVars, onFile, fact_order, early, token_count>>

(* The goal, the digest and the facts of the ids given that the store has, *)
(* and, if that is too much, the goal and the digest alone.                *)
RenderWorkingSet(recent) ==
  LET Plus(n, f) == IF Holds(entries, f) THEN n + BlockTokens(f) ELSE n
      all == FoldLeft(Plus, HeaderTokens, recent)
  IN  /\ token_count' = IF all > Budget THEN HeaderTokens ELSE all
      /\ UNCHANGED <<storeVars, onFile, fact_order, digest, early>>

Recents == UNION {[1..n -> ToolResults] : n \in 0..2}

ContextNext ==
  \/ OpenStore(FALSE) /\ UNCHANGED <<onFile, contextVars>>
  \/ /\ up
     /\ \/ \E f \in ToolResults : RecordToolResult(f)
        \/ \E f \in ToolResults : AppendFact(f) /\ UNCHANGED <<onFile, contextVars>>
        \/ RebuildDigest
        \/ \E recent \in Recents : RenderWorkingSet(recent)

Next ==
  \/ onFile /\ StoreNext /\ UNCHANGED <<onFile, contextVars>>
  \/ ~ onFile /\ ContextNext

Spec == Init /\ [][Next]_vars

-----------------------------------------------------------------------------
(* The digest kept up result by result is the one rebuild_digest would     *)
(* make, repeated and overwriting results included, unless an id was       *)
(* recorded before its fact was stored.                                    *)
DigestIsRebuildable == ~ early => digest = Rebuilt

(* "Working set keeps token budget bounded" (test_context_manager.cpp:8).  *)
(* Nothing bounds the digest, and it is in the rendering that is fallen    *)
(* back to, so this does not hold.                                         *)
WorkingSetWithinBudget == token_count <= Budget
=============================================================================
