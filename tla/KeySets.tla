------------------------------ MODULE KeySets ------------------------------
(***************************************************************************)
(* The JWKS cache of an OidcClient (crates/oauth/src/oidc.rs), shared by   *)
(* the logins of one tenant.  keys_for holds the mutex for the lookup and  *)
(* for the store but not for the fetch in between, so fetches overlap and  *)
(* are stored in any order, while the issuer publishes and withdraws keys. *)
(* Ages count ticks and saturate, so there is no clock to bound.           *)
(***************************************************************************)
EXTENDS Naturals

CONSTANTS Callers,     \* logins that call keys_for at the same time
          Kids,        \* key ids the issuer publishes at some time
          MinRefresh,  \* JWKS_MIN_REFRESH, in ticks
          MaxAge,      \* JWKS_MAX_AGE
          MaxFetch,    \* the longest a fetch takes (SafeFetchOpts::timeout)
          None

VARIABLES
    keys,     \* per key id: not yet, published or withdrawn at the issuer, and since when
    cached,   \* OidcClient::jwks: None or the set and the ticks since fetched_at
    call      \* the fetches in flight: ticks since the request, the issuer's answer

kvars == <<keys, cached, call>>

NoCall == [wait |-> 0, reply |-> None, fetching |-> FALSE]

Init ==
    /\ keys = [k \in Kids |-> [state |-> "new", age |-> 0]]
    /\ cached = None
    /\ call = [c \in Callers |-> NoCall]

Published == {k \in Kids : keys[k].state = "published"}

\* No property tells older keys apart.
AgeCap == MaxAge + MaxFetch

Older(n, cap) == IF n < cap THEN n + 1 ELSE n

\* One tick passes.  The request's deadline bounds every fetch.
Tick ==
    /\ \A c \in Callers : call[c].fetching => call[c].wait < MaxFetch
    /\ keys' = [k \in Kids |-> IF keys[k].state = "new" THEN keys[k]
                               ELSE [keys[k] EXCEPT !.age = Older(@, AgeCap)]]
    /\ cached' = IF cached = None THEN None ELSE [cached EXCEPT !.age = Older(@, MaxAge)]
    /\ call' = [c \in Callers |-> IF call[c].fetching
                                  THEN [call[c] EXCEPT !.wait = @ + 1] ELSE call[c]]

\* The issuer rotates its keys (external).
Rotate(k) ==
    /\ keys[k].state # "withdrawn"
    /\ keys' = [keys EXCEPT ![k] =
          [state |-> IF @.state = "new" THEN "published" ELSE "withdrawn", age |-> 0]]
    /\ UNCHANGED <<cached, call>>

\* Mutant: a set that has the key is served whatever its age.
CachedKeysForever(kid) ==
    /\ cached # None
    /\ \/ kid = None \/ kid \in cached.set
       \/ cached.age < MinRefresh

\* Mutant: an unknown key does not force a fetch before the set expires.
CachedKeysUntilExpiry(kid) == cached # None /\ cached.age < MaxAge

\* cached_keys returns the cached set.
CachedKeys(kid) ==
    /\ cached # None
    /\ cached.age < MaxAge
    /\ kid = None \/ kid \in cached.set \/ cached.age < MinRefresh

\* keys_for, up to the await: a hit changes nothing, a miss starts a fetch.
KeysFor(c, kid) ==
    /\ ~call[c].fetching
    /\ ~CachedKeys(kid)
    /\ call' = [call EXCEPT ![c].fetching = TRUE]
    /\ UNCHANGED <<keys, cached>>

\* fetch_keys reaches the issuer, which answers with what it publishes now.
IssuerAnswers(c) ==
    /\ call[c].fetching /\ call[c].reply = None
    /\ call' = [call EXCEPT ![c].reply = Published]
    /\ UNCHANGED <<keys, cached>>

\* fetch_keys: the request fails, the status is not 200, the body is no key set.
FetchFails(c) ==
    /\ call[c].fetching
    /\ call' = [call EXCEPT ![c] = NoCall]
    /\ UNCHANGED <<keys, cached>>

\* The rest of keys_for: the answer replaces whatever has been stored meanwhile.
StoreKeys(c) ==
    /\ call[c].reply # None
    /\ cached' = [set |-> call[c].reply, age |-> 0]
    /\ call' = [call EXCEPT ![c] = NoCall]
    /\ UNCHANGED keys

Next ==
    \/ Tick
    \/ \E k \in Kids : Rotate(k)
    \/ \E c \in Callers :
          \/ \E kid \in Kids \cup {None} : KeysFor(c, kid)
          \/ IssuerAnswers(c) \/ FetchFails(c) \/ StoreKeys(c)

-----------------------------------------------------------------------------

\* The key sets that keys_for may return now to a token naming key k.
Served(k) ==
    (IF CachedKeys(k) THEN {cached.set} ELSE {})
        \cup ({call[c].reply : c \in Callers} \ {None})

\* A key withdrawn longer ago than a cached set may live plus the time its fetch took.
Stale(k) == keys[k].state = "withdrawn" /\ keys[k].age >= MaxAge + MaxFetch

\* A key published longer ago than the refresh window plus a fetch.
Established(k) == keys[k].state = "published" /\ keys[k].age > MinRefresh + MaxFetch

\* oidc.rs:435-439: whichever of the overlapping fetches is stored last, no token is
\* validated with a stale key, and no token signed with an established one is refused as
\* unknown.
KeySetsFollowTheIssuer ==
    \A k \in Kids : \A set \in Served(k) :
        (Stale(k) => k \notin set) /\ (Established(k) => k \in set)

=============================================================================
