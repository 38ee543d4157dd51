------------------------------- MODULE MCEdge -------------------------------
(***************************************************************************)
(* What a product meets at its edges, one component per behaviour: rate    *)
(* limits (whose state is RateLimiter's own), guarded outbound requests,   *)
(* Stripe and webhooks, contract versions, token scopes and the start of   *)
(* the Valkey pool.  The components share no state in the code; part names *)
(* the one a behaviour follows.                                            *)
(***************************************************************************)
EXTENDS RateLimiter, FiniteSets, TLC

CONSTANTS Actors,  \* client calls and webhook requests in flight
          Orgs,
          Routes,
          Addresses, MaxRedirects, MaxBodyBytes,  \* SafeHttp
          Subs, Tiers, Statuses, MaxEvents, Tolerance,  \* Billing
          MaxVersion,                             \* ApiVersions
          Tokens, OldScopes,                      \* Scopes
          MaxPassword                             \* CachePool

\* An address is four octets or eight segments.
Below(n) == {i \in Nat : i < n}
AllAddresses == [1..4 -> Below(256)] \cup [1..8 -> Below(65536)]

ASSUME SafeHttpAssumption ==
    /\ Addresses \subseteq AllAddresses /\ None \notin AllAddresses
    /\ MaxRedirects \in Nat /\ MaxBodyBytes \in Nat

\* The tiers are those that tier_from_str reads back.
ASSUME BillingAssumption ==
    /\ Tiers \subseteq {"free", "pro", "team", "enterprise"}
    /\ "canceled" \notin Statuses
    /\ MaxEvents \in Nat /\ Tolerance \in Nat
    /\ None \notin Orgs \cup Subs \cup Tiers \cup Statuses \cup {"canceled", "vault"}

ASSUME VersionsAssumption ==
    MaxVersion \in Nat \ {0} /\ None \notin [version : 1..MaxVersion, route : Routes]

ASSUME PoolAssumption ==
    MaxPassword \in Nat /\ None \notin {"ok", "refused", "misconfigured"}

VARIABLES part, fetch, customer, sub, stripeCall, events, seen, handler, row, done, ctx, contract,
          todo, served, role, known, token, auth, server, config, poolCall, pools

http_ == INSTANCE SafeHttp
billing_ == INSTANCE Billing WITH Callers <- Actors, Handlers <- Actors, call <- stripeCall
versions_ == INSTANCE ApiVersions
scopes_ == INSTANCE Scopes
pool_ == INSTANCE CachePool WITH call <- poolCall

billingVars == <<customer, sub, stripeCall, events, seen, handler, row, done>>
versionsVars == <<ctx, contract, todo, served>>
scopesVars == <<role, known, token, auth>>
poolVars == <<server, config, poolCall, pools>>
edgeVars == <<part, vars, fetch, billingVars, versionsVars, scopesVars, poolVars>>

EdgeInit ==
    /\ part \in {"limiter", "http", "billing", "versions", "scopes", "pool"}
    /\ Init /\ http_!Init /\ billing_!Init /\ versions_!Init /\ scopes_!Init /\ pool_!Init
    /\ part # "scopes" => role = {}

LimiterStep ==
    /\ part = "limiter" /\ Next
    /\ UNCHANGED <<part, fetch, billingVars, versionsVars, scopesVars, poolVars>>

HttpStep ==
    /\ part = "http" /\ http_!Next
    /\ UNCHANGED <<part, vars, billingVars, versionsVars, scopesVars, poolVars>>

BillingStep ==
    /\ part = "billing" /\ billing_!Next
    /\ UNCHANGED <<part, vars, fetch, versionsVars, scopesVars, poolVars>>

VersionsStep ==
    /\ part = "versions" /\ versions_!Next
    /\ UNCHANGED <<part, vars, fetch, billingVars, scopesVars, poolVars>>

ScopesStep ==
    /\ part = "scopes" /\ scopes_!Next
    /\ UNCHANGED <<part, vars, fetch, billingVars, versionsVars, poolVars>>

PoolStep ==
    /\ part = "pool" /\ pool_!Next
    /\ UNCHANGED <<part, vars, fetch, billingVars, versionsVars, scopesVars>>

EdgeNext == LimiterStep \/ HttpStep \/ BillingStep \/ VersionsStep \/ ScopesStep \/ PoolStep

EdgeSpec == EdgeInit /\ [][EdgeNext]_edgeVars

\* Peers of the run: a public host, loopback, metadata, the first address past a private
\* block, and both families' ways of writing them.
Peers ==
    {<<8, 8, 8, 8>>, <<127, 0, 0, 1>>, <<169, 254, 169, 254>>, <<172, 32, 0, 1>>,
     <<9734, 18176, 0, 0, 0, 0, 0, 1>>,                  \* a public IPv6 host
     <<0, 0, 0, 0, 0, 65535, 2560, 1>>,                  \* 10.0.0.1, mapped
     <<100, 65435, 0, 0, 0, 0, 43518, 43518>>,           \* 169.254.169.254 through NAT64
     <<8194, 32512, 1, 0, 0, 0, 0, 0>>,                  \* 127.0.0.1 through 6to4
     <<64768, 0, 0, 0, 0, 0, 0, 1>>}                     \* unique local

\* No component tells its actors apart, or the threads.
Symmetry == Permutations(Actors) \cup Permutations(Threads)

-----------------------------------------------------------------------------

\* SafeHttp: requests go to public addresses only, wherever names and redirections point.
OnlyVettedPeers == http_!OnlyVettedPeers

\* Billing: of any number of deliveries of an event one is processed.
ProcessedOnce == billing_!ProcessedOnce

\* Billing: every stored change tells the org, the tier and the status its event was about.
ChangesTellWhatIsBilled == billing_!ChangesTellWhatIsBilled

\* ApiVersions: a client at a supported version is served in the shape of its version.
ServedInItsShape == versions_!ServedInItsShape

\* Scopes: a request has exactly what its token asks for and its owner's roles give.
GrantsAreTheCommonOnes == scopes_!GrantsAreTheCommonOnes

\* CachePool: the pool connects with the password that was configured, the log hides it, and
\* one pool is left running.
ConnectsAsConfigured == pool_!ConnectsAsConfigured

=============================================================================
