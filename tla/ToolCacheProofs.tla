--------------------------- MODULE ToolCacheProofs ---------------------------
(* Theorems about ToolCache, for every set of keys, values, dependencies   *)
(* and dependency lists.                                                   *)
EXTENDS ToolCache, TLAPS

CacheInv == CacheTypeOK /\ VersionsReached

LEMMA ElementsAreDeps ==
  ASSUME NEW deps \in DepList
  PROVE  Elements(deps) \subseteq Dep
BY CacheAssumption DEF Elements

LEMMA RegisteredType ==
  ASSUME CacheTypeOK, NEW deps \in DepList
  PROVE  /\ Registered(deps) \in [Dep -> Nat]
         /\ \A d \in Dep : depVersions[d] <= Registered(deps)[d]
         /\ \A d \in Dep : depVersions[d] # 0 => Registered(deps)[d] = depVersions[d]
         /\ \A d \in Elements(deps) : Registered(deps)[d] \in Nat \ {0}
BY ElementsAreDeps DEF Registered, CacheTypeOK

LEMMA CacheInvInit == CacheInit => CacheInv
BY DEF CacheInit, CacheInv, CacheTypeOK, VersionsReached

LEMMA PutInv ==
  ASSUME CacheInv, NEW k \in Key, NEW v \in Value, NEW deps \in DepList,
         NEW c \in BOOLEAN, Put(k, v, deps, c)
  PROVE  CacheInv'
<1>1. depVersions' \in [Dep -> Nat]
  BY RegisteredType DEF Put, CacheInv
<1>2. DOMAIN entries' = DOMAIN entries \cup {k}
  BY DEF Put
<1>3. /\ entries'[k] \in Entry
      /\ entries'[k].dependencies = deps
      /\ \A d \in Elements(deps) : entries'[k].versions[d] = depVersions'[d]
  <2>1. [d \in Dep |-> IF d \in Elements(deps) THEN Registered(deps)[d] ELSE 0]
          \in [Dep -> Nat]
    BY RegisteredType DEF CacheInv
  <2>2. QED
    BY <2>1, ElementsAreDeps DEF Put, Entry
<1>4. \A j \in DOMAIN entries \ {k} : entries'[j] = entries[j]
  BY DEF Put
<1>5. CacheTypeOK'
  BY <1>1, <1>2, <1>3, <1>4 DEF CacheInv, CacheTypeOK, Put
<1>6. VersionsReached'
  <2> SUFFICES ASSUME NEW j \in DOMAIN entries',
                      NEW d \in Elements(entries'[j].dependencies)
               PROVE  entries'[j].versions[d] \in 1..depVersions'[d]
    BY DEF VersionsReached
  <2>1. CASE j = k
    BY <2>1, <1>1, <1>3, RegisteredType, ElementsAreDeps DEF Put, CacheInv
  <2>2. CASE j # k
    <3>1. j \in DOMAIN entries /\ entries'[j] = entries[j]
      BY <2>2, <1>2, <1>4
    <3>2. entries[j] \in Entry /\ d \in Dep
      BY <3>1, ElementsAreDeps DEF CacheInv, CacheTypeOK, Entry
    <3>3. entries[j].versions[d] \in 1..depVersions[d]
      BY <3>1 DEF CacheInv, VersionsReached
    <3>4. depVersions[d] <= depVersions'[d]
      BY <3>2, RegisteredType DEF Put, CacheInv
    <3>5. QED
      BY <3>1, <3>2, <3>3, <3>4, <1>1 DEF CacheInv, CacheTypeOK
  <2>3. QED
    BY <2>1, <2>2
<1>7. QED
  BY <1>5, <1>6 DEF CacheInv

LEMMA InvalidateInv ==
  ASSUME CacheInv, NEW d \in Dep, InvalidateDependency(d)
  PROVE  CacheInv'
<1>1. CacheTypeOK'
  BY DEF CacheInv, CacheTypeOK, InvalidateDependency
<1>2. VersionsReached'
  <2> SUFFICES ASSUME NEW j \in DOMAIN entries,
                      NEW e \in Elements(entries[j].dependencies)
               PROVE  entries[j].versions[e] \in 1..depVersions'[e]
    BY DEF VersionsReached, InvalidateDependency
  <2>1. e \in Dep
    BY ElementsAreDeps DEF CacheInv, CacheTypeOK, Entry
  <2>2. QED
    BY <2>1 DEF CacheInv, CacheTypeOK, VersionsReached, InvalidateDependency
<1>3. QED
  BY <1>1, <1>2 DEF CacheInv

LEMMA CacheInvNext == CacheInv /\ [CacheNext]_cacheVars => CacheInv'
<1> SUFFICES ASSUME CacheInv, [CacheNext]_cacheVars PROVE CacheInv'
  OBVIOUS
<1>1. ASSUME NEW k \in Key, NEW deps \in DepList, NEW v \in Value,
             NEW c \in BOOLEAN, Put(k, v, deps, c)
      PROVE  CacheInv'
  BY <1>1, PutInv
<1>2. ASSUME NEW k \in Key, NEW deps \in DepList, Get(k, deps)
      PROVE  CacheInv'
  <2>1. reply' \in Reply
    BY <1>2 DEF Get, CacheInv, CacheTypeOK, Entry, Reply
  <2>2. QED
    BY <1>2, <2>1 DEF Get, CacheInv, CacheTypeOK, VersionsReached
<1>3. ASSUME NEW d \in Dep, InvalidateDependency(d)
      PROVE  CacheInv'
  BY <1>3, InvalidateInv
<1>4. CASE Clear
  BY <1>4 DEF Clear, CacheInv, CacheTypeOK, VersionsReached
<1>5. CASE UNCHANGED cacheVars
  BY <1>5 DEF cacheVars, CacheInv, CacheTypeOK, VersionsReached
<1>6. QED
  BY <1>1, <1>2, <1>3, <1>4, <1>5 DEF CacheNext

LEMMA CacheInvariant == CacheSpec => []CacheInv
BY CacheInvInit, CacheInvNext, PTL DEF CacheSpec

(* The cache's maps keep their shape and a lookup returns a stored value or*)
(* nothing.                                                                *)
THEOREM CacheTypeCorrect == CacheSpec => []CacheTypeOK
<1>1. CacheInv => CacheTypeOK
  BY DEF CacheInv
<1>2. QED
  BY <1>1, CacheInvariant, PTL

(* No entry is ever ahead of its dependencies' versions.                   *)
THEOREM VersionsAlwaysReached == CacheSpec => []VersionsReached
<1>1. CacheInv => VersionsReached
  BY DEF CacheInv
<1>2. QED
  BY <1>1, CacheInvariant, PTL

-----------------------------------------------------------------------------
(* A put never revives another entry, nor the one it replaces.             *)
LEMMA PutKeepsStale ==
  ASSUME CacheInv, NEW k \in Key, NEW v \in Value, NEW deps \in DepList,
         NEW c \in BOOLEAN, Put(k, v, deps, c),
         NEW j \in DOMAIN entries, j \in DOMAIN entries',
         entries'[j] = entries[j],
         NEW d \in Elements(entries[j].dependencies),
         entries[j].versions[d] # depVersions[d]
  PROVE  entries[j].versions[d] # depVersions'[d]
<1>1. d \in Dep
  BY ElementsAreDeps DEF CacheInv, CacheTypeOK, Entry
<1>2. depVersions[d] # 0
  BY <1>1 DEF CacheInv, CacheTypeOK, VersionsReached
<1>3. QED
  BY <1>1, <1>2, RegisteredType DEF Put, CacheInv

LEMMA InvalidateKeepsStale ==
  ASSUME CacheInv, NEW e \in Dep, InvalidateDependency(e),
         NEW j \in DOMAIN entries,
         NEW d \in Elements(entries[j].dependencies),
         entries[j].versions[d] # depVersions[d]
  PROVE  entries[j].versions[d] # depVersions'[d]
<1>1. d \in Dep
  BY ElementsAreDeps DEF CacheInv, CacheTypeOK, Entry
<1>2. entries[j].versions[d] \in 1..depVersions[d] /\ depVersions[d] \in Nat
  BY <1>1 DEF CacheInv, CacheTypeOK, VersionsReached
<1>3. depVersions'[d] \in {depVersions[d], depVersions[d] + 1}
  BY <1>1 DEF InvalidateDependency, CacheInv, CacheTypeOK
<1>4. QED
  BY <1>2, <1>3

(* An entry that an invalidation made out of date is never served again    *)
(* unless its key is put anew.                                             *)
THEOREM StaleIsFinal == CacheSpec => StaleStaysStale
<1>1. ASSUME CacheInv, [CacheNext]_cacheVars, NEW j \in DOMAIN entries,
             j \in DOMAIN entries', entries'[j] = entries[j],
             ~ UpToDate(entries[j])
      PROVE  ~ UpToDate(entries[j])'
  <2> PICK d \in Elements(entries[j].dependencies) :
             entries[j].versions[d] # depVersions[d]
    BY <1>1 DEF UpToDate
  <2> SUFFICES entries[j].versions[d] # depVersions'[d]
    BY <1>1 DEF UpToDate
  <2>1. ASSUME NEW k \in Key, NEW deps \in DepList, NEW v \in Value,
               NEW c \in BOOLEAN, Put(k, v, deps, c)
        PROVE  entries[j].versions[d] # depVersions'[d]
    BY <1>1, <2>1, PutKeepsStale
  <2>2. ASSUME NEW k \in Key, NEW deps \in DepList, Get(k, deps)
        PROVE  entries[j].versions[d] # depVersions'[d]
    BY <2>2 DEF Get
  <2>3. ASSUME NEW e \in Dep, InvalidateDependency(e)
        PROVE  entries[j].versions[d] # depVersions'[d]
    BY <1>1, <2>3, InvalidateKeepsStale
  <2>4. CASE Clear
    BY <1>1, <2>4 DEF Clear
  <2>5. CASE UNCHANGED cacheVars
    BY <2>5 DEF cacheVars
  <2>6. QED
    BY <1>1, <2>1, <2>2, <2>3, <2>4, <2>5 DEF CacheNext
<1>2. CacheInv /\ [CacheNext]_cacheVars =>
        [\A k \in DOMAIN entries :
           (k \in DOMAIN entries' /\ entries'[k] = entries[k] /\ ~ UpToDate(entries[k]))
             => ~ UpToDate(entries[k])']_cacheVars
  BY <1>1
<1>3. QED
  BY <1>2, CacheInvariant, PTL DEF CacheSpec, StaleStaysStale

-----------------------------------------------------------------------------
(* Refinement: each step of the versioned cache is the step of the same    *)
(* name of AbstractCache, read through LiveStore.                          *)
LiveKeys == {j \in DOMAIN entries : entries[j].cacheable /\ UpToDate(entries[j])}

LEMMA PutImplements ==
  ASSUME CacheInv, NEW k \in Key, NEW v \in Value, NEW deps \in DepList,
         NEW c \in BOOLEAN, Put(k, v, deps, c)
  PROVE  Promise!Put(k, v, deps, c)
<1>1. ASSUME NEW j \in DOMAIN entries \ {k}
      PROVE  /\ j \in DOMAIN entries' /\ entries'[j] = entries[j]
             /\ UpToDate(entries[j])' <=> UpToDate(entries[j])
  <2>1. j \in DOMAIN entries' /\ entries'[j] = entries[j]
    BY DEF Put
  <2>2. ASSUME NEW d \in Elements(entries[j].dependencies)
        PROVE  entries[j].versions[d] = depVersions[d]
                 <=> entries[j].versions[d] = depVersions'[d]
    <3>1. d \in Dep
      BY ElementsAreDeps DEF CacheInv, CacheTypeOK, Entry
    <3>2. depVersions[d] # 0
      BY <3>1 DEF CacheInv, CacheTypeOK, VersionsReached
    <3>3. QED
      BY <3>1, <3>2, RegisteredType DEF Put, CacheInv
  <2>3. QED
    BY <2>1, <2>2 DEF UpToDate
<1>2. /\ k \in DOMAIN entries'
      /\ entries'[k].value = v
      /\ entries'[k].dependencies = deps
      /\ entries'[k].cacheable = c
      /\ UpToDate(entries[k])'
  BY ElementsAreDeps DEF Put, UpToDate
<1>3. LiveKeys' = IF c THEN LiveKeys \cup {k} ELSE LiveKeys \ {k}
  <2>1. DOMAIN entries' = DOMAIN entries \cup {k}
    BY DEF Put
  <2>2. QED
    BY <1>1, <1>2, <2>1 DEF LiveKeys
<1>4. \A j \in LiveKeys \ {k} : entries'[j] = entries[j]
  BY <1>1 DEF LiveKeys
<1>5. QED
  BY <1>2, <1>3, <1>4 DEF Promise!Put, LiveStore, LiveKeys, Put

LEMMA InvalidateImplements ==
  ASSUME CacheInv, NEW d \in Dep, InvalidateDependency(d)
  PROVE  Promise!Invalidate(d)
<1>1. ASSUME NEW j \in DOMAIN entries
      PROVE  UpToDate(entries[j])'
               <=> UpToDate(entries[j]) /\ d \notin Elements(entries[j].dependencies)
  <2>1. ASSUME NEW e \in Elements(entries[j].dependencies)
        PROVE  /\ e \in Dep /\ depVersions[e] \in Nat
               /\ entries[j].versions[e] \in 1..depVersions[e]
               /\ e # d => depVersions'[e] = depVersions[e]
               /\ e = d => depVersions'[e] = depVersions[e] + 1
    <3>1. e \in Dep
      BY ElementsAreDeps DEF CacheInv, CacheTypeOK, Entry
    <3>2. QED
      BY <3>1 DEF InvalidateDependency, CacheInv, CacheTypeOK, VersionsReached
  <2>2. entries'[j] = entries[j]
    BY DEF InvalidateDependency
  <2>3. QED
    BY <2>1, <2>2 DEF UpToDate
<1>2. entries' = entries
  BY DEF InvalidateDependency
<1>3. LiveKeys' = {j \in LiveKeys : d \notin Elements(entries[j].dependencies)}
  BY <1>1, <1>2 DEF LiveKeys
<1>4. \A j \in LiveKeys : LiveStore[j].dependencies = entries[j].dependencies
  BY DEF LiveStore, LiveKeys
<1>5. DOMAIN LiveStore = LiveKeys
  BY DEF LiveStore, LiveKeys
<1>6. LiveKeys' = {j \in DOMAIN LiveStore : d \notin Promise!Elements(LiveStore[j].dependencies)}
  BY <1>3, <1>4, <1>5 DEF Elements, Promise!Elements
<1>7. LiveStore' = [j \in LiveKeys' |-> LiveStore[j]]
  BY <1>2, <1>3 DEF LiveStore, LiveKeys
<1>8. UNCHANGED reply
  BY DEF InvalidateDependency
<1>9. QED
  BY <1>6, <1>7, <1>8 DEF Promise!Invalidate

LEMMA GetImplements ==
  ASSUME NEW k \in Key, NEW current \in DepList, Get(k, current)
  PROVE  Promise!Get(k, current)
BY DEF Promise!Get, Get, IsValid, LiveStore, UpToDate

LEMMA ClearImplements == Clear => Promise!Clear
BY DEF Promise!Clear, Clear, LiveStore, UpToDate

(* The versioned cache implements the cache that forgets: whatever calls   *)
(* are made, in whatever order, a lookup answers as if every invalidation  *)
(* had removed the results that depend on it.                              *)
THEOREM CacheImplementsPromise == CacheSpec => ImplementsAbstractCache
<1>1. CacheInit => Promise!Init
  BY DEF CacheInit, Promise!Init, LiveStore, UpToDate
<1>2. CacheInv /\ [CacheNext]_cacheVars => [Promise!Next]_Promise!vars
  <2> SUFFICES ASSUME CacheInv, [CacheNext]_cacheVars
               PROVE  [Promise!Next]_Promise!vars
    OBVIOUS
  <2>1. ASSUME NEW k \in Key, NEW deps \in DepList, NEW v \in Value,
               NEW c \in BOOLEAN, Put(k, v, deps, c)
        PROVE  Promise!Next
    BY <2>1, PutImplements DEF Promise!Next
  <2>2. ASSUME NEW k \in Key, NEW deps \in DepList, Get(k, deps)
        PROVE  Promise!Next
    BY <2>2, GetImplements DEF Promise!Next
  <2>3. ASSUME NEW d \in Dep, InvalidateDependency(d)
        PROVE  Promise!Next
    BY <2>3, InvalidateImplements DEF Promise!Next
  <2>4. CASE Clear
    BY <2>4, ClearImplements DEF Promise!Next
  <2>5. CASE UNCHANGED cacheVars
    BY <2>5 DEF cacheVars, Promise!vars, LiveStore, UpToDate
  <2>6. QED
    BY <2>1, <2>2, <2>3, <2>4, <2>5 DEF CacheNext
<1>3. QED
  BY <1>1, <1>2, CacheInvariant, PTL
     DEF CacheSpec, ImplementsAbstractCache, Promise!Spec
=============================================================================
