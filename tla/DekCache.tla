------------------------------ MODULE DekCache ------------------------------
(***************************************************************************)
(* Envelope encryption of crates/crypto: LocalKek and GcpKmsKek with its   *)
(* cache of unwrapped DEKs and its remembered health probe, on top of the  *)
(* KMS client of gcp_kms.rs.  Several requests unwrap at the same time;    *)
(* the cache lock is dropped while a KMS call is under way.  The operator  *)
(* disables and enables the key at the KMS at any time, and a call is      *)
(* answered by what the key is when the KMS handles it.                    *)
(*                                                                         *)
(* A ciphertext is a row; its prefix is the backend that wrapped it.  Ages *)
(* count ticks and saturate.                                               *)
(***************************************************************************)
EXTENDS Naturals, FiniteSets

CONSTANTS Callers,     \* requests in flight
          Rows,        \* ciphertexts with the gcp-kms: prefix
          LocalRows,   \* ciphertexts without it
          MaxEntries,  \* GcpKmsKek::max_entries
          Ttl,         \* GcpKmsKek::ttl, in ticks
          HealthTtl,   \* the 10 s of health_check
          MaxCall,     \* the client's request timeout
          None

VARIABLES
    provider,  \* which KeyProvider the process runs with
    disabled,  \* None, or the ticks since the key was disabled at the KMS
    cache,     \* GcpKmsKek::cache: None or the ticks since cached_at, per row
    healthy,   \* last_health_ok: None or the ticks since
    call       \* the KMS calls in flight

dvars == <<provider, disabled, cache, healthy, call>>

NoCall == [op |-> "none", row |-> None, wait |-> 0, answered |-> FALSE]

Init ==
    /\ provider = "gcp"
    /\ disabled = None
    /\ cache = [r \in Rows |-> None]
    /\ healthy = None
    /\ call = [c \in Callers |-> NoCall]

Older(n, cap) == IF n = None THEN None ELSE IF n < cap THEN n + 1 ELSE n

\* One tick passes; the client's timeout bounds every call.
Tick ==
    /\ \A c \in Callers : call[c].op # "none" => call[c].wait < MaxCall
    /\ disabled' = Older(disabled, Ttl + HealthTtl + MaxCall)
    /\ cache' = [r \in Rows |-> Older(cache[r], Ttl)]
    /\ healthy' = Older(healthy, HealthTtl)
    /\ call' = [c \in Callers |-> IF call[c].op = "none" THEN call[c]
                                  ELSE [call[c] EXCEPT !.wait = @ + 1]]
    /\ UNCHANGED provider

\* The operator disables or enables the key (external).
ToggleKey ==
    /\ disabled' = IF disabled = None THEN 0 ELSE None
    /\ UNCHANGED <<provider, cache, healthy, call>>

\* The process restarts, with either backend.
Restart ==
    /\ provider' \in {"gcp", "local"}
    /\ cache' = [r \in Rows |-> None]
    /\ healthy' = None
    /\ call' = [c \in Callers |-> NoCall]
    /\ UNCHANGED disabled

-----------------------------------------------------------------------------

Start(c, op, row) ==
    call' = [call EXCEPT ![c] = [op |-> op, row |-> row, wait |-> 0, answered |-> FALSE]]

\* is_gcp_kms_ciphertext, as the two unwrap_dek test it: a provider refuses the other's rows
Unwraps(row) == (provider = "gcp") <=> (row \in Rows)

\* Mutant: the TTL of an entry is not looked at.
ValidForever(row) == cache[row] # None

\* cache_get returns the entry.
Valid(row) == cache[row] # None /\ cache[row] < Ttl

\* unwrap_dek up to the KMS call: a hit returns the cached DEK, a miss drops an expired
\* entry and asks the KMS.  A local row is decrypted in place or refused.
UnwrapDek(c, row) ==
    /\ call[c].op = "none" /\ Unwraps(row) /\ row \in Rows
    /\ ~Valid(row)
    /\ cache' = [cache EXCEPT ![row] = None]
    /\ Start(c, "unwrap", row)
    /\ UNCHANGED <<provider, disabled, healthy>>

\* wrap_dek: one encrypt call, nothing remembered.
WrapDek(c) ==
    /\ call[c].op = "none" /\ provider = "gcp"
    /\ Start(c, "wrap", None)
    /\ UNCHANGED <<provider, disabled, cache, healthy>>

ShortCircuit == healthy # None /\ healthy < HealthTtl

\* health_check: LocalKek has nothing to probe, GcpKmsKek probes unless it just did.
HealthCheck(c) ==
    /\ call[c].op = "none" /\ provider = "gcp" /\ ~ShortCircuit
    /\ Start(c, "probe", None)
    /\ UNCHANGED <<provider, disabled, cache, healthy>>

\* The KMS handles an encrypt or decrypt with the key enabled.
KmsAnswers(c) ==
    /\ call[c].op # "none" /\ ~call[c].answered
    /\ disabled = None
    /\ call' = [call EXCEPT ![c].answered = TRUE]
    /\ UNCHANGED <<provider, disabled, cache, healthy>>

\* No token, a transport error, a timeout, an error status, a malformed answer.
KmsFails(c) ==
    /\ call[c].op # "none"
    /\ call' = [call EXCEPT ![c] = NoCall]
    /\ UNCHANGED <<provider, disabled, cache, healthy>>

Entries == {r \in Rows : cache[r] # None}

\* The oldest half of max_entries: entries sorted by cached_at (in any order where they
\* tie), and skip(max_entries / 2).
Evictions ==
    IF Cardinality(Entries) < MaxEntries THEN {{}}
    ELSE {drop \in SUBSET Entries :
             /\ Cardinality(drop) = MaxEntries \div 2
             /\ \A r \in drop, s \in Entries \ drop : cache[r] >= cache[s]}

\* Mutant: the sort is the wrong way round.
CachePutEvictsNewest(row) ==
    \E drop \in SUBSET Entries :
        /\ IF Cardinality(Entries) < MaxEntries THEN drop = {}
           ELSE /\ Cardinality(drop) = MaxEntries \div 2
                /\ \A r \in drop, s \in Entries \ drop : cache[r] <= cache[s]
        /\ cache' = [r \in Rows |-> IF r = row THEN 0 ELSE IF r \in drop THEN None ELSE cache[r]]

\* cache_put, cached_at = Instant::now()
CachePut(row) ==
    \E drop \in Evictions :
        cache' = [r \in Rows |-> IF r = row THEN 0 ELSE IF r \in drop THEN None ELSE cache[r]]

\* The rest of unwrap_dek, wrap_dek and health_check.
Finish(c) ==
    /\ call[c].answered
    /\ IF call[c].op = "unwrap" THEN CachePut(call[c].row) ELSE UNCHANGED cache
    /\ healthy' = IF call[c].op = "probe" THEN 0 ELSE healthy
    /\ call' = [call EXCEPT ![c] = NoCall]
    /\ UNCHANGED <<provider, disabled>>

Next ==
    \/ Tick \/ ToggleKey \/ Restart
    \/ \E c \in Callers :
          \/ \E row \in Rows \cup LocalRows : UnwrapDek(c, row)
          \/ WrapDek(c) \/ HealthCheck(c) \/ KmsAnswers(c) \/ KmsFails(c) \/ Finish(c)

-----------------------------------------------------------------------------

\* lib.rs:208-211, 287-299: once the key has been disabled for the entries' TTL (the probe's
\* window) plus the time of one call, no DEK is served from the cache (readiness is not
\* reported from memory), however calls and the disabling overlap.
RevocationPropagates ==
    disabled # None =>
        /\ disabled >= Ttl + MaxCall => \A r \in Rows : ~Valid(r)
        /\ disabled >= HealthTtl + MaxCall => ~ShortCircuit

\* lib.rs:212-214, 232-237: the cache never holds more than max_entries, and making room
\* never drops an entry while it keeps an older one.
EvictsOldestFirst ==
    /\ Cardinality({r \in Rows : cache'[r] # None}) <= MaxEntries
    /\ \A r, s \in Rows :
          (cache[r] # None /\ cache'[r] = None /\ cache[s] # None /\ cache'[s] = cache[s])
              => cache[r] >= cache[s]

=============================================================================
