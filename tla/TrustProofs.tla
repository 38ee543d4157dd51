----------------------------- MODULE TrustProofs -----------------------------
(***************************************************************************)
(* Proofs about the parts of MCTrust, for any sets of callers, keys and    *)
(* rows and any durations that satisfy MCTrust's assumptions.  A step of   *)
(* MCTrust is a step of one part and leaves the variables of the others    *)
(* alone, so each part has an inductive invariant of its own.              *)
(***************************************************************************)
EXTENDS MCTrust, Sequences, FiniteSetTheorems, TLAPS

-----------------------------------------------------------------------------
(* DekCache: the unwrapped keys                                             *)

LEMMA DeksSteps == [Next]_vars => deks_!Next \/ UNCHANGED deksVars
BY DEF Next, vars, LoginStep, KeysStep, DeksStep, GithubStep, FactorStep, TokensStep

\* The ages are within the settings and a call in flight has something to do.
DeksType ==
    /\ disabled \in Nat \cup {None}
    /\ dekCache \in [Rows -> 0..DekTtl \cup {None}]
    /\ healthy \in 0..HealthTtl \cup {None}
    /\ kmsCall \in [Actors -> [op : {"none", "unwrap", "wrap", "probe"}, row : Rows \cup {None},
                               wait : 0..MaxCall, answered : BOOLEAN]]
    /\ \A c \in Actors :
          /\ kmsCall[c].op = "none" => ~kmsCall[c].answered
          /\ kmsCall[c].op = "unwrap" => kmsCall[c].row \in Rows

\* While the key is disabled, a call the KMS has answered was under way before, and the
\* entries and the probe that are remembered came from such calls.
DeksAges ==
    disabled # None =>
        /\ \A c \in Actors : kmsCall[c].answered => kmsCall[c].wait >= disabled
        /\ \A r \in Rows : dekCache[r] # None =>
              dekCache[r] >= DekTtl \/ dekCache[r] + MaxCall >= disabled
        /\ healthy # None => healthy >= HealthTtl \/ healthy + MaxCall >= disabled

DeksBound == IsFiniteSet(deks_!Entries) /\ Cardinality(deks_!Entries) <= MaxEntries

DeksInv == DeksType /\ DeksAges /\ DeksBound

LEMMA DeksInit == Init => DeksInv
<1> SUFFICES ASSUME Init PROVE DeksInv  OBVIOUS
<1> USE DEF Init, deks_!Init, deks_!NoCall
<1>1. DeksType  BY NoneAssumption, DekCacheAssumption DEF DeksType
<1>2. DeksAges  BY DEF DeksAges
<1>3. deks_!Entries = {}  BY DEF deks_!Entries
<1>4. DeksBound  BY <1>3, FS_EmptySet, DekCacheAssumption DEF DeksBound
<1> QED  BY <1>1, <1>2, <1>4 DEF DeksInv

\* FiniteSets as DekCache extends it.
LEMMA DeksCardinality == ASSUME NEW S PROVE deks_!Cardinality(S) = Cardinality(S)
BY DEF deks_!Cardinality, Cardinality

\* A step that caches nothing new keeps the bound.
LEMMA DeksBoundKept ==
    ASSUME DeksBound, \A r \in Rows : dekCache'[r] # None => dekCache[r] # None
    PROVE  DeksBound'
<1>1. deks_!Entries' \subseteq deks_!Entries  BY DEF deks_!Entries
<1>2. /\ IsFiniteSet(deks_!Entries') /\ Cardinality(deks_!Entries') \in Nat
      /\ Cardinality(deks_!Entries) \in Nat
      /\ Cardinality(deks_!Entries') <= Cardinality(deks_!Entries)
  BY <1>1, FS_Subset, FS_CardinalityType DEF DeksBound
<1> QED  BY <1>2, DekCacheAssumption DEF DeksBound

\* Room is made before an entry goes in, so the cache stays within max_entries.
LEMMA CachePutBounded ==
    ASSUME DeksBound, NEW row \in Rows, deks_!CachePut(row)
    PROVE  DeksBound'
<1> USE NoneAssumption, DekCacheAssumption
<1> DEFINE E == deks_!Entries
<1>1. PICK drop \in deks_!Evictions :
         dekCache' = [r \in Rows |-> IF r = row THEN 0
                                     ELSE IF r \in drop THEN None ELSE dekCache[r]]
  BY DEF deks_!CachePut
<1>2. drop \subseteq E /\ IsFiniteSet(E) /\ Cardinality(E) \in Nat /\ Cardinality(E) <= MaxEntries
  BY FS_CardinalityType DEF deks_!Evictions, DeksBound
<1>3. E' = (E \ drop) \cup {row}
  BY <1>1 DEF deks_!Entries
<1>4. IsFiniteSet(E \ drop) /\ Cardinality(E \ drop) = Cardinality(E) - Cardinality(drop)
  BY <1>2, FS_Subset, FS_Difference, E \cap drop = drop
<1>5. Cardinality(E \ drop) + 1 <= MaxEntries
  <2>1. CASE Cardinality(E) < MaxEntries
    <3>1. drop = {}  BY <2>1, DeksCardinality DEF deks_!Evictions
    <3> QED  BY <1>2, <2>1, <3>1
  <2>2. CASE ~(Cardinality(E) < MaxEntries)
    <3>1. Cardinality(drop) = MaxEntries \div 2  BY <2>2, DeksCardinality DEF deks_!Evictions
    <3>2. MaxEntries \div 2 \in Nat /\ MaxEntries \div 2 >= 1  OBVIOUS
    <3> QED  BY <1>2, <1>4, <3>1, <3>2
  <2> QED  BY <2>1, <2>2
<1>6. /\ IsFiniteSet((E \ drop) \cup {row})
      /\ Cardinality((E \ drop) \cup {row}) <= Cardinality(E \ drop) + 1
      /\ Cardinality((E \ drop) \cup {row}) \in Nat /\ Cardinality(E \ drop) \in Nat
  <2> DEFINE kept == E \ drop
  <2>1. IsFiniteSet(kept)  BY <1>4
  <2> HIDE DEF kept
  <2>2. /\ IsFiniteSet(kept \cup {row})
        /\ Cardinality(kept \cup {row}) \in {Cardinality(kept), Cardinality(kept) + 1}
    BY <2>1, FS_AddElement
  <2>3. Cardinality(kept) \in Nat  BY <2>1, FS_CardinalityType
  <2>4. /\ IsFiniteSet(kept \cup {row}) /\ Cardinality(kept \cup {row}) <= Cardinality(kept) + 1
        /\ Cardinality(kept \cup {row}) \in Nat
    BY <2>2, <2>3
  <2> QED  BY <2>3, <2>4 DEF kept
<1> QED  BY <1>3, <1>5, <1>6 DEF DeksBound

LEMMA DeksTick ==
    ASSUME DeksInv, deks_!Tick PROVE DeksInv'
<1> USE NoneAssumption, DekCacheAssumption DEF deks_!Tick, deks_!Older, DeksInv
<1>1. DeksType'  BY DEF DeksType
<1>2. DeksAges'  BY DEF DeksType, DeksAges
<1>3. DeksBound'  BY DeksBoundKept
<1> QED  BY <1>1, <1>2, <1>3

\* A call begins, unanswered; unwrap_dek drops an expired entry first.
LEMMA DeksCallStarts ==
    ASSUME DeksInv, NEW c \in Actors,
           \/ \E row \in Rows \cup LocalRows : deks_!UnwrapDek(c, row)
           \/ deks_!WrapDek(c) \/ deks_!HealthCheck(c)
    PROVE  DeksInv'
<1> USE NoneAssumption, DekCacheAssumption DEF deks_!Start, deks_!NoCall, DeksInv
<1>1. CASE \E row \in Rows \cup LocalRows : deks_!UnwrapDek(c, row)
  <2>1. PICK row \in Rows : deks_!UnwrapDek(c, row)  BY <1>1 DEF deks_!UnwrapDek
  <2>2. DeksType'
    <3>1. kmsCall' = [kmsCall EXCEPT ![c] = [op |-> "unwrap", row |-> row, wait |-> 0,
                                             answered |-> FALSE]]
      BY <2>1 DEF deks_!UnwrapDek
    <3>2. dekCache' = [dekCache EXCEPT ![row] = None] /\ UNCHANGED <<disabled, healthy>>
      BY <2>1 DEF deks_!UnwrapDek
    <3> QED  BY <3>1, <3>2 DEF DeksType
  <2>3. DeksAges'  BY <2>1 DEF deks_!UnwrapDek, DeksType, DeksAges
  <2>4. DeksBound'  BY <2>1, DeksBoundKept DEF deks_!UnwrapDek, DeksType
  <2> QED  BY <2>2, <2>3, <2>4
<1>2. CASE deks_!WrapDek(c) \/ deks_!HealthCheck(c)
  <2>1. PICK op \in {"wrap", "probe"} :
           kmsCall' = [kmsCall EXCEPT ![c] = [op |-> op, row |-> None, wait |-> 0,
                                              answered |-> FALSE]]
    BY <1>2 DEF deks_!WrapDek, deks_!HealthCheck
  <2>2. UNCHANGED <<disabled, dekCache, healthy>>
    BY <1>2 DEF deks_!WrapDek, deks_!HealthCheck
  <2>3. DeksType'  BY <2>1, <2>2 DEF DeksType
  <2>4. DeksAges'  BY <2>1, <2>2 DEF DeksType, DeksAges
  <2>5. DeksBound'  BY <2>2, DeksBoundKept
  <2> QED  BY <2>3, <2>4, <2>5
<1> QED  BY <1>1, <1>2

LEMMA AnsweredType ==
    ASSUME NEW O, NEW R, NEW W, NEW k \in [op : O, row : R, wait : W, answered : BOOLEAN]
    PROVE  [k EXCEPT !.answered = TRUE] \in [op : O, row : R, wait : W, answered : BOOLEAN]
OBVIOUS

\* The KMS answers only while the key is enabled, or the call ends without an answer.
LEMMA DeksAnswers ==
    ASSUME DeksInv, NEW c \in Actors, deks_!KmsAnswers(c) \/ deks_!KmsFails(c)
    PROVE  DeksInv'
<1> USE NoneAssumption, DekCacheAssumption DEF deks_!KmsAnswers, deks_!KmsFails, deks_!NoCall,
                                               DeksInv
<1>1. DeksType'
  <2>1. CASE deks_!KmsAnswers(c)
    <3>1. /\ kmsCall' = [kmsCall EXCEPT ![c] = [@ EXCEPT !.answered = TRUE]]
          /\ kmsCall[c].op # "none" /\ UNCHANGED <<disabled, dekCache, healthy>>
      BY <2>1
    <3>2. [kmsCall[c] EXCEPT !.answered = TRUE] \in
             [op : {"none", "unwrap", "wrap", "probe"}, row : Rows \cup {None},
              wait : 0..MaxCall, answered : BOOLEAN]
      BY AnsweredType DEF DeksType
    <3>3. \A d \in Actors : kmsCall'[d].op = kmsCall[d].op /\ kmsCall'[d].row = kmsCall[d].row
      BY <3>1 DEF DeksType
    <3>4. \A d \in Actors : d # c => kmsCall'[d] = kmsCall[d]  BY <3>1 DEF DeksType
    <3> QED  BY <3>1, <3>2, <3>3, <3>4 DEF DeksType
  <2>2. CASE deks_!KmsFails(c)  BY <2>2 DEF DeksType
  <2> QED  BY <2>1, <2>2
<1>2. DeksAges'  BY DEF DeksType, DeksAges
<1>3. DeksBound'  BY DeksBoundKept
<1> QED  BY <1>1, <1>2, <1>3

\* What is remembered came from a call at most MaxCall old.
LEMMA DeksFinish ==
    ASSUME DeksInv, NEW c \in Actors, deks_!Finish(c)
    PROVE  DeksInv'
<1> USE NoneAssumption, DekCacheAssumption DEF deks_!Finish, DeksInv
<1>1. DeksType'  BY DEF deks_!CachePut, deks_!NoCall, DeksType
<1>2. DeksAges'  BY DEF deks_!CachePut, deks_!NoCall, DeksType, DeksAges
<1>3. DeksBound'
  <2>1. CASE kmsCall[c].op = "unwrap"  BY <2>1, CachePutBounded DEF DeksType
  <2>2. CASE kmsCall[c].op # "unwrap"  BY <2>2, DeksBoundKept
  <2> QED  BY <2>1, <2>2
<1> QED  BY <1>1, <1>2, <1>3

LEMMA DeksInductive == DeksInv /\ [Next]_vars => DeksInv'
<1> SUFFICES ASSUME DeksInv, deks_!Next \/ UNCHANGED deksVars PROVE DeksInv'
  BY DeksSteps
<1>1. CASE deks_!ToggleKey
  <2> USE <1>1, NoneAssumption, DekCacheAssumption DEF deks_!ToggleKey, DeksInv
  <2>1. DeksType'  BY DEF DeksType
  <2>2. DeksAges'  BY DEF DeksType, DeksAges
  <2>3. DeksBound'  BY DeksBoundKept
  <2> QED  BY <2>1, <2>2, <2>3
<1>2. CASE deks_!Restart
  <2> USE <1>2, NoneAssumption, DekCacheAssumption DEF deks_!Restart, deks_!NoCall, DeksInv
  <2>1. DeksType'  BY DEF DeksType
  <2>2. DeksAges'  BY DEF DeksType, DeksAges
  <2>3. DeksBound'  BY DeksBoundKept
  <2> QED  BY <2>1, <2>2, <2>3
<1>3. CASE UNCHANGED deksVars
  BY <1>3 DEF deksVars, DeksInv, DeksType, DeksAges, DeksBound, deks_!Entries
<1> QED  BY <1>1, <1>2, <1>3, DeksTick, DeksCallStarts, DeksAnswers, DeksFinish DEF deks_!Next

\* Making room drops the oldest, and only expired entries are dropped otherwise.
LEMMA DeksEvictions ==
    ASSUME DeksInv, DeksInv', deks_!Next
    PROVE  deks_!EvictsOldestFirst
<1> USE NoneAssumption, DekCacheAssumption DEF DeksInv
<1>1. Cardinality({r \in Rows : dekCache'[r] # None}) <= MaxEntries
  BY DeksCardinality DEF DeksBound, deks_!Entries
<1>2. ASSUME NEW r \in Rows, NEW s \in Rows, dekCache[r] # None, dekCache'[r] = None,
             dekCache[s] # None, dekCache'[s] = dekCache[s]
      PROVE  dekCache[r] >= dekCache[s]
  <2>1. CASE deks_!Tick
    BY <1>2, <2>1 DEF deks_!Tick, deks_!Older, DeksType
  <2>2. CASE deks_!Restart  BY <1>2, <2>2 DEF deks_!Restart
  <2>3. ASSUME NEW c \in Actors, NEW row \in Rows \cup LocalRows, deks_!UnwrapDek(c, row)
        PROVE  dekCache[r] >= dekCache[s]
    <3>1. r = row  BY <1>2, <2>3 DEF deks_!UnwrapDek, DeksType
    <3> QED  BY <1>2, <2>3, <3>1 DEF deks_!UnwrapDek, deks_!Valid, DeksType
  <2>4. ASSUME NEW c \in Actors, deks_!Finish(c) PROVE dekCache[r] >= dekCache[s]
    <3> DEFINE row == kmsCall[c].row
    <3>1. deks_!CachePut(row) /\ row \in Rows  BY <1>2, <2>4 DEF deks_!Finish, DeksType
    <3>2. PICK drop \in deks_!Evictions :
             dekCache' = [q \in Rows |-> IF q = row THEN 0
                                         ELSE IF q \in drop THEN None ELSE dekCache[q]]
      BY <3>1 DEF deks_!CachePut
    <3>3. r \in drop  BY <1>2, <3>2
    <3>4. CASE s = row  BY <1>2, <3>2, <3>4 DEF DeksType
    <3>5. CASE s # row
      <4>1. s \in deks_!Entries \ drop  BY <1>2, <3>2, <3>5 DEF deks_!Entries
      <4> QED  BY <3>3, <4>1 DEF deks_!Evictions
    <3> QED  BY <3>4, <3>5
  <2>5. CASE dekCache' = dekCache  BY <1>2, <2>5
  <2> QED
    BY <2>1, <2>2, <2>3, <2>4, <2>5
       DEF deks_!Next, deks_!ToggleKey, deks_!WrapDek, deks_!HealthCheck, deks_!KmsAnswers,
           deks_!KmsFails
<1> QED  BY <1>1, <1>2, DeksCardinality DEF deks_!EvictsOldestFirst

\* GcpKmsKek: once the key has been disabled at the KMS for the TTL plus one call, no DEK is
\* served from the cache and readiness is not reported from memory.
THEOREM RevocationCorrect == Spec => []RevocationPropagates
<1>1. DeksInv => RevocationPropagates
  BY NoneAssumption, DekCacheAssumption
     DEF DeksInv, DeksType, DeksAges, RevocationPropagates, deks_!RevocationPropagates,
         deks_!Valid, deks_!ShortCircuit
<1> QED  BY <1>1, DeksInit, DeksInductive, PTL DEF Spec

\* GcpKmsKek::cache_put keeps the cache within max_entries, and no step drops an entry while
\* it keeps an older one.
THEOREM EvictionCorrect == Spec => EvictionKeepsTheNewest
<1>1. DeksInv /\ DeksInv' /\ [Next]_vars => [deks_!EvictsOldestFirst]_deksVars
  BY DeksSteps, DeksEvictions
<1> QED  BY <1>1, DeksInit, DeksInductive, PTL DEF Spec, EvictionKeepsTheNewest

-----------------------------------------------------------------------------
(* KeySets: the issuers' keys                                               *)

LEMMA KeysSteps == [Next]_vars => keys_!Next \/ UNCHANGED keysVars
BY DEF Next, vars, LoginStep, KeysStep, DeksStep, GithubStep, FactorStep, TokensStep

KeysType ==
    /\ keys \in [Names -> [state : {"new", "published", "withdrawn"}, age : Nat]]
    /\ cached = None \/ cached \in [set : SUBSET Names, age : 0..MaxAge]
    /\ keyCall \in [Actors -> [wait : 0..MaxFetch, reply : (SUBSET Names) \cup {None},
                               fetching : BOOLEAN]]
    /\ \A c \in Actors : keyCall[c].reply # None => keyCall[c].fetching

\* A set that was taken at the issuer at most n ticks ago is wrong about a key only if the
\* key was published or withdrawn since.
Recent(set, n) ==
    \A k \in Names :
        /\ keys[k].state = "withdrawn" /\ k \in set => keys[k].age <= n
        /\ keys[k].state = "published" /\ k \notin set => keys[k].age <= n
        /\ keys[k].state = "new" => k \notin set

\* An answer is no older than its request, and a stored set no older than its age and the
\* longest fetch.
KeysAges ==
    /\ \A c \in Actors : keyCall[c].reply # None => Recent(keyCall[c].reply, keyCall[c].wait)
    /\ cached # None /\ cached.age < MaxAge => Recent(cached.set, cached.age + MaxFetch)

KeysInv == KeysType /\ KeysAges

LEMMA KeysInit == Init => KeysInv
<1> SUFFICES ASSUME Init PROVE KeysInv  OBVIOUS
<1>1. KeysType
  BY NoneAssumption, KeySetsAssumption DEF Init, keys_!Init, keys_!NoCall, KeysType
<1>2. KeysAges
  BY DEF Init, keys_!Init, keys_!NoCall, KeysAges
<1> QED  BY <1>1, <1>2 DEF KeysInv

\* Key, request and stored set get older together.
LEMMA KeysTick ==
    ASSUME KeysInv, keys_!Tick PROVE KeysInv'
<1> USE KeySetsAssumption DEF KeysInv
<1>1. keys' \in [Names -> [state : {"new", "published", "withdrawn"}, age : Nat]]
  BY DEF keys_!Tick, keys_!Older, keys_!AgeCap, KeysType
<1>2. \A k \in Names : keys'[k].state = keys[k].state /\ keys'[k].age <= keys[k].age + 1
  BY DEF keys_!Tick, keys_!Older, keys_!AgeCap, KeysType
<1>3. ASSUME NEW c \in Actors
      PROVE  /\ keyCall'[c] \in [wait : 0..MaxFetch, reply : (SUBSET Names) \cup {None},
                                 fetching : BOOLEAN]
             /\ keyCall'[c].reply = keyCall[c].reply /\ keyCall'[c].fetching = keyCall[c].fetching
             /\ keyCall[c].fetching => keyCall'[c].wait = keyCall[c].wait + 1
  BY DEF keys_!Tick, KeysType
<1>4. \/ cached = None /\ cached' = None
      \/ /\ cached # None /\ cached' \in [set : SUBSET Names, age : 0..MaxAge]
         /\ cached'.set = cached.set
         /\ cached'.age = IF cached.age < MaxAge THEN cached.age + 1 ELSE cached.age
  BY DEF keys_!Tick, keys_!Older, KeysType
<1>5. KeysType'
  <2>1. keyCall' = [c \in Actors |-> keyCall'[c]]  BY DEF keys_!Tick
  <2> QED  BY <1>1, <1>3, <1>4, <2>1 DEF KeysType
<1>6. ASSUME NEW c \in Actors, keyCall'[c].reply # None
      PROVE  Recent(keyCall[c].reply, keyCall[c].wait)'
  <2>1. /\ Recent(keyCall[c].reply, keyCall[c].wait) /\ keyCall[c].wait \in Nat
        /\ keyCall'[c].reply = keyCall[c].reply /\ keyCall'[c].wait = keyCall[c].wait + 1
    BY <1>3, <1>6 DEF KeysAges, KeysType
  <2> QED  BY <1>1, <1>2, <2>1 DEF Recent, KeysType
<1>7. ASSUME cached' # None, cached'.age < MaxAge
      PROVE  Recent(cached.set, cached.age + MaxFetch)'
  <2>1. /\ Recent(cached.set, cached.age + MaxFetch) /\ cached.age \in Nat
        /\ cached'.set = cached.set /\ cached'.age = cached.age + 1
    BY <1>4, <1>7 DEF KeysAges, KeysType
  <2> QED  BY <1>1, <1>2, <2>1 DEF Recent, KeysType
<1> QED  BY <1>5, <1>6, <1>7 DEF KeysAges

\* A key that is published or withdrawn now has age 0: every set is recent enough for it.
LEMMA KeysRotate ==
    ASSUME KeysInv, NEW k \in Names, keys_!Rotate(k) PROVE KeysInv'
<1> USE KeySetsAssumption DEF KeysInv
<1>1. /\ keys'[k] = [state |-> IF keys[k].state = "new" THEN "published" ELSE "withdrawn",
                     age |-> 0]
      /\ keys[k].state # "withdrawn" /\ \A j \in Names : j # k => keys'[j] = keys[j]
      /\ cached' = cached /\ keyCall' = keyCall
  BY DEF keys_!Rotate, KeysType
<1>2. KeysType'  BY DEF keys_!Rotate, KeysType
<1>3. ASSUME NEW c \in Actors, keyCall'[c].reply # None
      PROVE  Recent(keyCall[c].reply, keyCall[c].wait)'
  <2>1. Recent(keyCall[c].reply, keyCall[c].wait) /\ keyCall[c].wait \in Nat
    BY <1>1, <1>3 DEF KeysAges, KeysType
  <2> QED  BY <1>1, <2>1 DEF Recent
<1>4. ASSUME cached' # None, cached'.age < MaxAge
      PROVE  Recent(cached.set, cached.age + MaxFetch)'
  <2>1. Recent(cached.set, cached.age + MaxFetch) /\ cached.age + MaxFetch \in Nat
    BY <1>1, <1>4 DEF KeysAges, KeysType
  <2> QED  BY <1>1, <2>1 DEF Recent
<1> QED  BY <1>2, <1>3, <1>4 DEF KeysAges

\* A fetch begins, is answered with what is published at that moment, or fails.
LEMMA KeysFetch ==
    ASSUME KeysInv, NEW c \in Actors,
           \/ \E kid \in Names \cup {None} : keys_!KeysFor(c, kid)
           \/ keys_!IssuerAnswers(c) \/ keys_!FetchFails(c)
    PROVE  KeysInv'
<1> USE NoneAssumption, KeySetsAssumption DEF KeysInv
<1>1. keys' = keys /\ cached' = cached /\ \A d \in Actors : d # c => keyCall'[d] = keyCall[d]
  BY DEF keys_!KeysFor, keys_!IssuerAnswers, keys_!FetchFails, KeysType
<1>2. KeysType' /\ (keyCall'[c].reply # None => Recent(keyCall[c].reply, keyCall[c].wait)')
  <2>1. CASE \E kid \in Names \cup {None} : keys_!KeysFor(c, kid)
    <3>1. keyCall' = [keyCall EXCEPT ![c].fetching = TRUE] /\ ~keyCall[c].fetching
      BY <2>1 DEF keys_!KeysFor
    <3>2. keyCall[c].reply = None /\ keyCall'[c].reply = None  BY <3>1 DEF KeysType
    <3> QED  BY <1>1, <3>1, <3>2 DEF KeysType
  <2>2. CASE keys_!IssuerAnswers(c)
    <3>1. /\ keyCall' = [keyCall EXCEPT ![c].reply = keys_!Published]
          /\ keyCall[c].fetching
      BY <2>2 DEF keys_!IssuerAnswers
    <3>2. keys_!Published \subseteq Names  BY DEF keys_!Published
    <3>3. KeysType'  BY <1>1, <3>1, <3>2 DEF KeysType
    <3>4. keyCall'[c].reply = keys_!Published /\ keyCall'[c].wait \in Nat
      BY <3>1 DEF KeysType
    <3> QED  BY <1>1, <3>3, <3>4 DEF Recent, keys_!Published, KeysType
  <2>3. CASE keys_!FetchFails(c)
    <3>1. keyCall' = [keyCall EXCEPT ![c] = keys_!NoCall]  BY <2>3 DEF keys_!FetchFails
    <3> QED  BY <1>1, <3>1 DEF keys_!NoCall, KeysType
  <2> QED  BY <2>1, <2>2, <2>3
<1>3. ASSUME NEW d \in Actors, d # c, keyCall'[d].reply # None
      PROVE  Recent(keyCall[d].reply, keyCall[d].wait)'
  BY <1>1, <1>3 DEF KeysAges, Recent
<1>4. ASSUME cached' # None, cached'.age < MaxAge
      PROVE  Recent(cached.set, cached.age + MaxFetch)'
  BY <1>1, <1>4 DEF KeysAges, Recent
<1> QED  BY <1>2, <1>3, <1>4 DEF KeysAges

\* Whatever has been stored meanwhile, the answer was under way for MaxFetch at most.
LEMMA KeysStore ==
    ASSUME KeysInv, NEW c \in Actors, keys_!StoreKeys(c) PROVE KeysInv'
<1> USE NoneAssumption, KeySetsAssumption DEF KeysInv
<1>1. /\ keys' = keys /\ keyCall[c].reply # None
      /\ cached' = [set |-> keyCall[c].reply, age |-> 0]
      /\ keyCall' = [keyCall EXCEPT ![c] = keys_!NoCall]
  BY DEF keys_!StoreKeys
<1>2. KeysType'  BY <1>1 DEF KeysType, keys_!NoCall
<1>3. ASSUME NEW d \in Actors, keyCall'[d].reply # None
      PROVE  Recent(keyCall[d].reply, keyCall[d].wait)'
  <2>1. keyCall'[d] = keyCall[d]  BY <1>1, <1>3 DEF KeysType, keys_!NoCall
  <2> QED  BY <1>1, <1>3, <2>1 DEF KeysAges, Recent
<1>4. Recent(cached.set, cached.age + MaxFetch)'
  <2>1. Recent(keyCall[c].reply, keyCall[c].wait) /\ keyCall[c].wait \in 0..MaxFetch
    BY <1>1 DEF KeysAges, KeysType
  <2> QED  BY <1>1, <2>1 DEF Recent, KeysType
<1> QED  BY <1>2, <1>3, <1>4 DEF KeysAges

LEMMA KeysInductive == KeysInv /\ [Next]_vars => KeysInv'
<1> SUFFICES ASSUME KeysInv, keys_!Next \/ UNCHANGED keysVars PROVE KeysInv'
  BY KeysSteps
<1>1. CASE UNCHANGED keysVars
  BY <1>1 DEF keysVars, KeysInv, KeysType, KeysAges, Recent
<1> QED  BY <1>1, KeysTick, KeysRotate, KeysFetch, KeysStore DEF keys_!Next

\* OidcClient::keys_for: whichever of the overlapping fetches is stored last, no token is
\* validated with a key withdrawn longer ago than JWKS_MAX_AGE and a fetch, and no token is
\* refused whose key was published longer ago than JWKS_MIN_REFRESH and a fetch.
THEOREM KeySetsCorrect == Spec => []KeySetsFollowTheIssuer
<1>1. KeysInv => KeySetsFollowTheIssuer
  <2> SUFFICES ASSUME KeysInv, NEW k \in Names, NEW set \in keys_!Served(k)
               PROVE  (keys_!Stale(k) => k \notin set) /\ (keys_!Established(k) => k \in set)
    BY DEF KeySetsFollowTheIssuer, keys_!KeySetsFollowTheIssuer
  <2> USE NoneAssumption, KeySetsAssumption DEF KeysInv, keys_!Stale, keys_!Established
  <2>1. CASE set \in {keyCall[c].reply : c \in Actors} \ {None}
    <3>1. PICK c \in Actors : set = keyCall[c].reply /\ keyCall[c].reply # None  BY <2>1
    <3>2. Recent(set, keyCall[c].wait) /\ keyCall[c].wait \in 0..MaxFetch
      BY <3>1 DEF KeysAges, KeysType
    <3>3. keys[k].age \in Nat  BY DEF KeysType
    <3> QED  BY <3>2, <3>3 DEF Recent
  <2>2. CASE keys_!CachedKeys(k) /\ set = cached.set
    <3>1. /\ Recent(set, cached.age + MaxFetch) /\ cached.age \in Nat /\ cached.age < MaxAge
          /\ k \notin set => cached.age < MinRefresh
      BY <2>2 DEF keys_!CachedKeys, KeysAges, KeysType
    <3> QED  BY <3>1 DEF Recent, KeysType
  <2> QED  BY <2>1, <2>2 DEF keys_!Served
<1> QED  BY <1>1, KeysInit, KeysInductive, PTL DEF Spec

-----------------------------------------------------------------------------
(* InstallationTokens: GitHub's tokens                                      *)

LEMMA GithubSteps == [Next]_vars => github_!Next \/ UNCHANGED githubVars
BY DEF Next, vars, LoginStep, KeysStep, DeksStep, GithubStep, FactorStep, TokensStep

\* A request in flight, or none: its fallback expiry is at most the drift past
\* FALLBACK_TTL_SECS, and the token it was granted reaches what was asked for, which GitHub
\* knows, and outlives that expiry.
Grants == [scope : SUBSET Names, real : Nat]

RequestOK(q) ==
    /\ q \in [repos : github_!Requests \cup {None}, due : Int, token : {None} \cup Grants]
    /\ q.due <= FallbackTtl + MaxSkew
    /\ q.token # None => /\ q.repos # None /\ q.token.scope = github_!Reach(q.repos)
                         /\ q.due <= q.token.real

\* What a key stands for: the full installation, or the repositories of the list.
ReachOfKey(k) == IF k = <<github_!Blank>> THEN Names ELSE github_!Reach(k)

\* A cached token is for its key and does not count as fresh longer than it lives.
EntryOK(k, e) ==
    e # None => /\ e \in [scope : {ReachOfKey(k)}, real : Nat, left : Int]
                /\ e.left <= e.real

GithubInv ==
    /\ skew \in -MaxSkew..MaxSkew
    /\ DOMAIN tokenCall = Actors /\ tokenCall = [c \in Actors |-> tokenCall[c]]
    /\ DOMAIN tokenCache = github_!Keys /\ tokenCache = [k \in github_!Keys |-> tokenCache[k]]
    /\ \A c \in Actors : RequestOK(tokenCall[c])
    /\ \A k \in github_!Keys : EntryOK(k, tokenCache[k])

LEMMA ReposFacts == github_!Blank \notin Names /\ None \notin github_!Requests
BY ReposAssumption DEF github_!Requests, github_!Blank

LEMMA NoRequestOK == RequestOK(github_!NoCall)
BY InstallationTokensAssumption DEF RequestOK, github_!NoCall

LEMMA GithubInit == Init => GithubInv
BY NoRequestOK, InstallationTokensAssumption DEF Init, github_!Init, GithubInv, EntryOK

\* The joined key tells requests apart, but for an empty list and one empty name.
LEMMA KeyReach ==
    ASSUME NEW repos \in github_!Requests, repos # <<github_!Blank>>
    PROVE  ReachOfKey(github_!Key(repos)) = github_!Reach(repos)
BY DEF ReachOfKey, github_!Key, github_!Reach

\* Expiries run down together.
LEMMA LessType ==
    ASSUME NEW a \in Int, NEW b \in Int
    PROVE  /\ github_!Less(a) \in Nat
           /\ a <= b => github_!Less(a) <= github_!Less(b)
           /\ b \in Nat /\ a <= b => github_!Less(a) <= b
BY DEF github_!Less

LEMMA GithubTick ==
    ASSUME GithubInv, github_!Tick PROVE GithubInv'
<1> USE NoneAssumption, InstallationTokensAssumption
<1>1. ASSUME NEW s \in github_!Keys PROVE EntryOK(s, tokenCache'[s])
  <2>1. CASE tokenCache[s] = None  BY <2>1 DEF github_!Tick, EntryOK
  <2>2. CASE tokenCache[s] # None
    <3>1. tokenCache'[s] = [scope |-> tokenCache[s].scope, real |-> github_!Less(tokenCache[s].real),
                            left |-> github_!Less(tokenCache[s].left)]
      BY <2>2 DEF github_!Tick
    <3>2. EntryOK(s, tokenCache[s])  BY DEF GithubInv
    <3> QED  BY <2>2, <3>1, <3>2, LessType DEF EntryOK
  <2> QED  BY <2>1, <2>2
<1>2. ASSUME NEW c \in Actors PROVE RequestOK(tokenCall'[c])
  <2>1. RequestOK(tokenCall[c])  BY DEF GithubInv
  <2>2. CASE tokenCall[c].repos = None
    BY <2>2, NoRequestOK DEF github_!Tick
  <2>3. CASE tokenCall[c].repos # None
    <3> DEFINE tok == github_!Aged(tokenCall[c].token)
    <3>1. tokenCall'[c] = [repos |-> tokenCall[c].repos, due |-> github_!Less(tokenCall[c].due),
                           token |-> tok]
      BY <2>3 DEF github_!Tick
    <3>2. CASE tokenCall[c].token = None
      <4>1. tok = None  BY <3>2 DEF github_!Aged
      <4> QED  BY <2>1, <3>1, <4>1, LessType DEF RequestOK
    <3>3. CASE tokenCall[c].token # None
      <4>1. tok = [scope |-> tokenCall[c].token.scope,
                   real |-> github_!Less(tokenCall[c].token.real)]
        BY <3>3 DEF github_!Aged
      <4>2. tokenCall[c].token \in Grants
        BY <2>1, <3>3 DEF RequestOK
      <4> QED  BY <2>1, <2>3, <3>1, <3>3, <4>1, <4>2, LessType DEF RequestOK, Grants
    <3> QED  BY <3>2, <3>3
  <2> QED  BY <2>2, <2>3
<1> QED  BY <1>1, <1>2 DEF github_!Tick, GithubInv

\* A step that replaces one request by a good one.
LEMMA RequestReplaced ==
    ASSUME GithubInv, NEW c \in Actors, NEW q, RequestOK(q),
           tokenCall' = [tokenCall EXCEPT ![c] = q], UNCHANGED <<skew, tokenCache>>
    PROVE  GithubInv'
BY DEF GithubInv

\* A grant is checked against the fallback expiry, which no drift carries past Lifetime.
LEMMA GithubRequest ==
    ASSUME GithubInv, NEW c \in Actors,
           \/ \E repos \in github_!Requests : github_!InstallationToken(c, repos)
           \/ github_!GithubGrants(c) \/ github_!RequestFails(c)
    PROVE  GithubInv'
<1> USE NoneAssumption, InstallationTokensAssumption, ReposFacts
<1>1. ASSUME NEW repos \in github_!Requests, github_!InstallationToken(c, repos) PROVE GithubInv'
  <2> DEFINE q == [repos |-> repos, due |-> skew + FallbackTtl, token |-> None]
  <2>1. RequestOK(q)
    <3>1. skew + FallbackTtl \in Int /\ skew + FallbackTtl <= FallbackTtl + MaxSkew
      BY DEF GithubInv
    <3>2. /\ q.repos = repos /\ q.due = skew + FallbackTtl /\ q.token = None
          /\ q \in [repos : github_!Requests \cup {None}, due : Int, token : {None} \cup Grants]
      BY <3>1
    <3> HIDE DEF q
    <3> QED  BY <3>1, <3>2 DEF RequestOK
  <2>2. tokenCall' = [tokenCall EXCEPT ![c] = q] /\ UNCHANGED <<skew, tokenCache>>
    BY <1>1 DEF github_!InstallationToken
  <2> HIDE DEF q
  <2> QED  BY <2>1, <2>2, RequestReplaced
<1>2. CASE github_!GithubGrants(c)
  <2> DEFINE tok == [scope |-> github_!Reach(tokenCall[c].repos), real |-> Lifetime]
             q == [tokenCall[c] EXCEPT !.token = tok]
  <2>1. /\ RequestOK(tokenCall[c]) /\ tokenCall[c].repos # None
        /\ github_!Reach(tokenCall[c].repos) \subseteq Names
    BY <1>2 DEF GithubInv, github_!GithubGrants
  <2>2. tok \in Grants /\ tok.scope = github_!Reach(tokenCall[c].repos) /\ tok.real = Lifetime
    <3>1. tok \in Grants  BY <2>1 DEF Grants
    <3> QED  BY <3>1
  <2> HIDE DEF tok
  <2>3. RequestOK(q)
    <3>1. q = [repos |-> tokenCall[c].repos, due |-> tokenCall[c].due, token |-> tok]
      BY <2>1 DEF RequestOK
    <3>2. tokenCall[c].repos \in github_!Requests /\ tokenCall[c].due \in Int
          /\ tokenCall[c].due <= FallbackTtl + MaxSkew
      BY <2>1 DEF RequestOK
    <3>3. tokenCall[c].due <= tok.real  BY <2>2, <3>2
    <3> QED  BY <2>2, <3>1, <3>2, <3>3 DEF RequestOK
  <2>4. tokenCall' = [tokenCall EXCEPT ![c] = q] /\ UNCHANGED <<skew, tokenCache>>
    BY <1>2 DEF github_!GithubGrants, tok
  <2> HIDE DEF q
  <2> QED  BY <2>3, <2>4, RequestReplaced
<1>3. CASE github_!RequestFails(c)
  BY <1>3, NoRequestOK, RequestReplaced DEF github_!RequestFails
<1> QED  BY <1>1, <1>2, <1>3

LEMMA GithubInsert ==
    ASSUME GithubInv, NEW c \in Actors, github_!Insert(c) PROVE GithubInv'
<1> USE NoneAssumption, InstallationTokensAssumption, ReposFacts
<1> DEFINE repos == tokenCall[c].repos
           k == github_!Key(repos)
           tok == tokenCall[c].token
<1>1. /\ RequestOK(tokenCall[c]) /\ tok # None /\ repos \in github_!Requests /\ tok \in Grants
      /\ tok.scope = github_!Reach(repos)
  BY DEF GithubInv, RequestOK, github_!Insert
<1>2. tok.scope = ReachOfKey(k) /\ k \in github_!Keys
  <2>1. github_!Blank \in github_!Reach(<<github_!Blank>>)
    <3>1. <<github_!Blank>> # <<>> /\ 1 \in 1..Len(<<github_!Blank>>) /\ <<github_!Blank>>[1] = github_!Blank  OBVIOUS
    <3> QED  BY <3>1 DEF github_!Reach
  <2>2. repos # <<github_!Blank>>  BY <1>1, <2>1 DEF Grants
  <2>3. tok.scope = ReachOfKey(k)  BY <1>1, <2>2, KeyReach
  <2> QED  BY <1>1, <2>3 DEF github_!Keys
<1>3. PICK left \in github_!Expiries(c) :
         tokenCache' = [tokenCache EXCEPT ![k] = [scope |-> tok.scope, real |-> tok.real,
                                                  left |-> left]]
  BY DEF github_!Insert
<1>4. left \in Int /\ left <= tok.real
  <2>1. tok.real \in Nat /\ tokenCall[c].due \in Int /\ tokenCall[c].due <= tok.real
    BY <1>1 DEF RequestOK, Grants
  <2> HIDE DEF tok
  <2>2. left = tok.real \/ left = tokenCall[c].due  BY <1>3 DEF github_!Expiries, tok
  <2> QED  BY <2>1, <2>2
<1> HIDE DEF k
<1>5. EntryOK(k, [scope |-> tok.scope, real |-> tok.real, left |-> left])
  BY <1>1, <1>2, <1>4 DEF EntryOK, Grants
<1>6. \A r \in github_!Keys : EntryOK(r, tokenCache'[r])
  BY <1>2, <1>3, <1>5 DEF GithubInv
<1>7. skew' = skew /\ tokenCall' = [tokenCall EXCEPT ![c] = github_!NoCall]
  BY DEF github_!Insert
<1>8. \A d \in Actors : RequestOK(tokenCall'[d])
  BY <1>7, NoRequestOK DEF GithubInv
<1> QED  BY <1>3, <1>6, <1>7, <1>8 DEF GithubInv

LEMMA GithubInductive == GithubInv /\ [Next]_vars => GithubInv'
<1> SUFFICES ASSUME GithubInv, github_!Next \/ UNCHANGED githubVars PROVE GithubInv'
  BY GithubSteps
<1>1. CASE UNCHANGED githubVars  BY <1>1 DEF githubVars, GithubInv
<1>2. CASE github_!Drift
  BY <1>2, InstallationTokensAssumption DEF github_!Drift, GithubInv
<1> QED  BY <1>1, <1>2, GithubTick, GithubRequest, GithubInsert DEF github_!Next

\* GithubAppAuth::installation_token: a token served from the cache is alive at GitHub,
\* although answers arrive late and replace newer ones and the clocks drift, up to the refresh
\* margin; and it reaches what was asked for, lists of any length, but for one empty name.
THEOREM ServedTokensCorrect == Spec => []ServedTokensAreLive
<1>1. GithubInv => ServedTokensAreLive
  <2> SUFFICES ASSUME GithubInv, NEW repos \in github_!Requests, github_!Hit(repos)
               PROVE  /\ github_!Served(repos).real > 0
                      /\ repos # <<github_!Blank>> => github_!Served(repos).scope = github_!Reach(repos)
    BY DEF ServedTokensAreLive, github_!ServedTokensAreLive
  <2> DEFINE k == github_!Key(repos)
  <2>1. k \in github_!Keys  BY DEF github_!Keys
  <2>2. /\ github_!Served(repos) = tokenCache[k] /\ tokenCache[k] # None
        /\ github_!IsFresh(tokenCache[k].left)
    BY DEF github_!Served, github_!Hit
  <2> HIDE DEF k
  <2>3. EntryOK(k, tokenCache[k]) /\ skew >= -MaxSkew /\ skew \in Int
    BY <2>1, InstallationTokensAssumption DEF GithubInv
  <2>4. tokenCache[k].left > 0
    BY <2>2, <2>3, InstallationTokensAssumption DEF github_!IsFresh, EntryOK
  <2>5. tokenCache[k].real > 0 /\ tokenCache[k].scope = ReachOfKey(k)
    BY <2>2, <2>3, <2>4 DEF EntryOK
  <2>6. repos # <<github_!Blank>> => ReachOfKey(k) = github_!Reach(repos)  BY KeyReach DEF k
  <2> QED  BY <2>2, <2>5, <2>6
<1> QED  BY <1>1, GithubInit, GithubInductive, PTL DEF Spec

=============================================================================
