---------------------------- MODULE AbstractCache ----------------------------
(***************************************************************************)
(* What src/core/cache.hpp promises its callers: a store of results, each  *)
(* filed under a key with the list of dependencies it was computed from.   *)
(* Invalidating a dependency forgets every result that lists it, clear     *)
(* forgets all of them, and a lookup answers with the stored value exactly *)
(* when a live result is filed under the key with the same dependency      *)
(* list.  Nothing here mentions versions: they are the implementation's.   *)
(***************************************************************************)
EXTENDS Naturals, Sequences

CONSTANTS Key, Value, Dep,
          DepList,      \* the dependency lists callers use
          Miss          \* the answer of a lookup that finds nothing

VARIABLES store,        \* the live results: a function from some of Key
          reply         \* the last lookup: what was asked and the answer

vars == <<store, reply>>

Elements(list) == {list[i] : i \in 1..Len(list)}

Init ==
  /\ store = [k \in {} |-> Miss]
  /\ reply = Miss

Put(k, v, deps, cacheable) ==
  /\ store' = IF cacheable
                THEN [j \in DOMAIN store \cup {k} |->
                        IF j = k THEN [value |-> v, dependencies |-> deps]
                                 ELSE store[j]]
                ELSE [j \in DOMAIN store \ {k} |-> store[j]]
  /\ UNCHANGED reply

Get(k, current) ==
  /\ reply' = [key |-> k, dependencies |-> current,
               value |-> IF k \in DOMAIN store /\ store[k].dependencies = current
                           THEN store[k].value
                           ELSE Miss]
  /\ UNCHANGED store

Invalidate(d) ==
  /\ store' = [k \in {j \in DOMAIN store :
                        d \notin Elements(store[j].dependencies)} |-> store[k]]
  /\ UNCHANGED reply

Clear ==
  /\ store' = [k \in {} |-> Miss]
  /\ UNCHANGED reply

Next ==
  \/ \E k \in Key, deps \in DepList :
       \/ \E v \in Value, c \in BOOLEAN : Put(k, v, deps, c)
       \/ Get(k, deps)
  \/ \E d \in Dep : Invalidate(d)
  \/ Clear

Spec == Init /\ [][Next]_vars
=============================================================================
