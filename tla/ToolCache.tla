------------------------------ MODULE ToolCache ------------------------------
(***************************************************************************)
(* The result cache of src/core/cache.{hpp,cpp}.  Every public member      *)
(* takes the cache's mutex for its whole body, so each is one action and   *)
(* the callers' threads interleave between them.                           *)
(*                                                                         *)
(* An entry is never removed when a dependency is invalidated.  The cache  *)
(* keeps a version per dependency instead, an entry remembers the versions *)
(* it was stored under, and a lookup compares the two.                     *)
(***************************************************************************)
EXTENDS Naturals, Sequences

CONSTANTS Key,          \* "<tool>|<arguments>" (orchestrator.cpp cache_key)
          Value,        \* results, JSON in the code
          Dep,          \* dependency names
          DepList,      \* the dependency lists callers use
          Miss,         \* std::nullopt
          MaxVersion    \* bound on a dependency's version

ASSUME CacheAssumption ==
  /\ DepList \subseteq Seq(Dep)
  /\ Miss \notin Value
  /\ MaxVersion \in Nat

VARIABLES entries,      \* entries_: a function from some of Key to Entry
          depVersions,  \* dep_versions_; 0 stands for "not in the map"
          reply         \* the last get: its arguments and what it returned

cacheVars == <<entries, depVersions, reply>>

(* A CacheEntry.  versions[d] is 0 for a dependency the entry lacks.       *)
Entry == [value : Value, dependencies : DepList,
          versions : [Dep -> Nat], cacheable : BOOLEAN]

Reply == [key : Key, dependencies : DepList, value : Value \cup {Miss}]

Elements(list) == {list[i] : i \in 1..Len(list)}

CacheInit ==
  /\ entries = [k \in {} |-> Miss]
  /\ depVersions = [d \in Dep |-> 0]
  /\ reply = Miss

-----------------------------------------------------------------------------
(* The version half of is_valid: a version missing from dep_versions_ is   *)
(* 0 here and never equals a stored one, which is at least 1.              *)
UpToDate(e) ==
  \A d \in Elements(e.dependencies) : e.versions[d] = depVersions[d]

(* Mutant of IsValid: as many dependencies pass for the same ones.         *)
SameNumberOfDeps(e, current) ==
  /\ e.cacheable
  /\ Len(current) = Len(e.dependencies)
  /\ UpToDate(e)

IsValid(e, current) ==
  /\ e.cacheable
  /\ current = e.dependencies
  /\ UpToDate(e)

(* put gives version 1 to a dependency it has not met.                     *)
Registered(deps) ==
  [d \in Dep |-> IF d \in Elements(deps) /\ depVersions[d] = 0
                   THEN 1 ELSE depVersions[d]]

(* Mutant of Put: the versions it makes up are not kept in dep_versions_.  *)
PutUnregistered(k, v, deps, cacheable) ==
  /\ entries' = [j \in DOMAIN entries \cup {k} |->
       IF j = k
         THEN [value |-> v, dependencies |-> deps, cacheable |-> cacheable,
               versions |-> [d \in Dep |-> IF d \in Elements(deps)
                                             THEN Registered(deps)[d] ELSE 0]]
         ELSE entries[j]]
  /\ UNCHANGED <<depVersions, reply>>

Put(k, v, deps, cacheable) ==
  /\ depVersions' = Registered(deps)
  /\ entries' = [j \in DOMAIN entries \cup {k} |->
       IF j = k
         THEN [value |-> v, dependencies |-> deps, cacheable |-> cacheable,
               versions |-> [d \in Dep |-> IF d \in Elements(deps)
                                             THEN Registered(deps)[d] ELSE 0]]
         ELSE entries[j]]
  /\ UNCHANGED reply

Get(k, current) ==
  /\ reply' = [key |-> k, dependencies |-> current,
               value |-> IF k \in DOMAIN entries /\ IsValid(entries[k], current)
                           THEN entries[k].value
                           ELSE Miss]
  /\ UNCHANGED <<entries, depVersions>>

(* Mutant of InvalidateDependency: the version is erased, not counted up.  *)
InvalidateByErasing(d) ==
  /\ depVersions' = [depVersions EXCEPT ![d] = 0]
  /\ UNCHANGED <<entries, reply>>

InvalidateDependency(d) ==
  /\ depVersions[d] < MaxVersion
  /\ depVersions' = [depVersions EXCEPT ![d] = @ + 1]
  /\ UNCHANGED <<entries, reply>>

Clear ==
  /\ entries' = [k \in {} |-> Miss]
  /\ depVersions' = [d \in Dep |-> 0]
  /\ UNCHANGED reply

CacheNext ==
  \/ \E k \in Key, deps \in DepList :
       \/ \E v \in Value, c \in BOOLEAN : Put(k, v, deps, c)
       \/ Get(k, deps)
  \/ \E d \in Dep : InvalidateDependency(d)
  \/ Clear

CacheSpec == CacheInit /\ [][CacheNext]_cacheVars

-----------------------------------------------------------------------------
CacheTypeOK ==
  /\ DOMAIN entries \subseteq Key
  /\ \A k \in DOMAIN entries : entries[k] \in Entry
  /\ depVersions \in [Dep -> Nat]
  /\ reply = Miss \/ reply \in Reply

(* No entry was stored under a version its dependency has not reached, and *)
(* every dependency of an entry has a version.  This is what makes counting*)
(* a version up enough to kill an entry for good: were an entry ahead of   *)
(* its dependency, a later invalidation would bring it back to life.       *)
VersionsReached ==
  \A k \in DOMAIN entries : \A d \in Elements(entries[k].dependencies) :
    entries[k].versions[d] \in 1..depVersions[d]

(* Once an invalidation made an entry out of date, no call but a put of the*)
(* same key makes it valid again: not a second invalidation, not a put of  *)
(* another key that shares the dependency, not clear.                      *)
StaleStaysStale ==
  [][\A k \in DOMAIN entries :
       (k \in DOMAIN entries' /\ entries'[k] = entries[k] /\ ~ UpToDate(entries[k]))
         => ~ UpToDate(entries[k])']_cacheVars

(* The live results of the abstract cache are the cacheable entries whose  *)
(* versions are current; with that reading the version scheme implements   *)
(* "invalidation forgets".                                                 *)
LiveStore ==
  [k \in {j \in DOMAIN entries : entries[j].cacheable /\ UpToDate(entries[j])} |->
     [value |-> entries[k].value, dependencies |-> entries[k].dependencies]]

Promise == INSTANCE AbstractCache WITH store <- LiveStore

(* A lookup answers as the abstract cache would, after any sequence of     *)
(* puts, invalidations and clears (cache.hpp:22, "Cache of model/tool      *)
(* results").                                                              *)
ImplementsAbstractCache == Promise!Spec
=============================================================================
