------------------------------ MODULE MCTrust ------------------------------
(***************************************************************************)
(* The credentials a product holds or accepts, one component per behaviour:*)
(* logins at providers and tenants' issuers, the issuers' key sets, data   *)
(* keys unwrapped by the KMS, GitHub installation tokens, second factors,  *)
(* signed access tokens and licenses.  The components share no state in    *)
(* the code; part names the one a behaviour follows.                       *)
(***************************************************************************)
EXTENDS Integers, FiniteSets, TLC

CONSTANTS None,
          Actors,  \* logins, callers, attempts, token slots: whatever runs concurrently
          Names,   \* key ids, or the repositories of installation tokens
          Rows,    \* ciphertexts the KMS wrapped
          LocalRows,
          MinRefresh, MaxAge, MaxFetch,                    \* KeySets
          MaxEntries, DekTtl, HealthTtl, MaxCall,          \* DekCache
          MaxRepos, Lifetime, FallbackTtl, Margin, JwtLifetime, JwtCeiling, MaxSkew, \* InstallationTokens
          MaxStep, MaxBatch, Count,                        \* SecondFactor
          Verifiers, Legacy, SigningKeys, TokenTtl         \* AccessTokens

ASSUME NoneAssumption ==
    None \notin Actors \cup Names \cup Rows \cup Verifiers \cup {"issuer"} /\ None \notin Int

ASSUME KeySetsAssumption ==
    MaxAge \in Nat \ {0} /\ MinRefresh \in Nat /\ MaxFetch \in Nat

\* max_entries is 1024: half of it is at least one entry.
ASSUME DekCacheAssumption ==
    MaxEntries \in Nat \ {0, 1} /\ DekTtl \in Nat /\ HealthTtl \in Nat /\ MaxCall \in Nat

\* The margin covers the drift of the clocks, and a fallback expiry comes before GitHub's
\* (3000 s of 3600 s) whatever the drift.
ASSUME InstallationTokensAssumption ==
    /\ {Lifetime, FallbackTtl, Margin, JwtLifetime, JwtCeiling, MaxSkew} \subseteq Nat
    /\ MaxSkew <= Margin /\ FallbackTtl + MaxSkew <= Lifetime

\* A repository has a name, and no list of names is None.
ASSUME ReposAssumption ==
    /\ "" \notin Names /\ MaxRepos \in Nat
    /\ None \notin UNION {[1..n -> Names \cup {""}] : n \in 0..MaxRepos}

ASSUME SecondFactorAssumption ==
    MaxStep \in Nat /\ MaxBatch \in Nat \ {0} /\ Count \in Nat

ASSUME AccessTokensAssumption ==
    /\ SigningKeys \in Nat \ {0, 1, 2} /\ TokenTtl \in Nat
    /\ "issuer" \notin Verifiers /\ Legacy \notin Verifiers \cup {"issuer"}

VARIABLES part, client, login, keys, cached, keyCall, provider, disabled, dekCache, healthy,
          kmsCall, skew, tokenCache, tokenCall, now, account, attempt, wins, config, token

login_ == INSTANCE Login WITH Logins <- Actors, Kids <- Names
keys_ == INSTANCE KeySets WITH Callers <- Actors, Kids <- Names, call <- keyCall
deks_ == INSTANCE DekCache WITH Callers <- Actors, Ttl <- DekTtl, cache <- dekCache,
            call <- kmsCall
github_ == INSTANCE InstallationTokens WITH Callers <- Actors, Repos <- Names,
            cache <- tokenCache, call <- tokenCall
factor_ == INSTANCE SecondFactor WITH Attempts <- Actors
tokens_ == INSTANCE AccessTokens WITH Slots <- Actors, Keys <- SigningKeys, Ttl <- TokenTtl

loginVars == <<client, login>>
keysVars == <<keys, cached, keyCall>>
deksVars == <<provider, disabled, dekCache, healthy, kmsCall>>
githubVars == <<skew, tokenCache, tokenCall>>
factorVars == <<now, account, attempt, wins>>
tokensVars == <<config, token>>
vars == <<part, loginVars, keysVars, deksVars, githubVars, factorVars, tokensVars>>

Init ==
    /\ part \in {"login", "keys", "deks", "github", "factor", "tokens"}
    /\ login_!Init /\ keys_!Init /\ deks_!Init /\ github_!Init /\ factor_!Init /\ tokens_!Init

LoginStep ==
    /\ part = "login" /\ login_!Next
    /\ UNCHANGED <<part, keysVars, deksVars, githubVars, factorVars, tokensVars>>

KeysStep ==
    /\ part = "keys" /\ keys_!Next
    /\ UNCHANGED <<part, loginVars, deksVars, githubVars, factorVars, tokensVars>>

DeksStep ==
    /\ part = "deks" /\ deks_!Next
    /\ UNCHANGED <<part, loginVars, keysVars, githubVars, factorVars, tokensVars>>

GithubStep ==
    /\ part = "github" /\ github_!Next
    /\ UNCHANGED <<part, loginVars, keysVars, deksVars, factorVars, tokensVars>>

FactorStep ==
    /\ part = "factor" /\ factor_!Next
    /\ UNCHANGED <<part, loginVars, keysVars, deksVars, githubVars, tokensVars>>

TokensStep ==
    /\ part = "tokens" /\ tokens_!Next
    /\ UNCHANGED <<part, loginVars, keysVars, deksVars, githubVars, factorVars>>

Next == LoginStep \/ KeysStep \/ DeksStep \/ GithubStep \/ FactorStep \/ TokensStep

Spec == Init /\ [][Next]_vars

\* No component tells its actors apart, or the names.
Symmetry == Permutations(Actors) \cup Permutations(Names)

-----------------------------------------------------------------------------

\* Login: an identity belongs to the login that asked for it.
IdentityIsVouchedFor == login_!IdentityIsVouchedFor

\* KeySets: withdrawn keys are not used, published ones are found, whichever fetch is last.
KeySetsFollowTheIssuer == keys_!KeySetsFollowTheIssuer

\* DekCache: a disabled KMS key stops being served within the TTL and one call.
RevocationPropagates == deks_!RevocationPropagates

\* DekCache: the cache stays within max_entries, and making room for an unwrapped key never
\* drops an entry while it keeps an older one.
EvictionKeepsTheNewest == [][deks_!EvictsOldestFirst]_deksVars

\* InstallationTokens: a token served from the cache is alive at GitHub, and in scope unless
\* the request is for one empty name.
ServedTokensAreLive == github_!ServedTokensAreLive

\* SecondFactor: a code lets one login through.
CodesWorkOnce == factor_!CodesWorkOnce

\* AccessTokens: live tokens are taken by their audience throughout a rotation, and by
\* nobody else.
TokensReachTheirAudience == tokens_!TokensReachTheirAudience

=============================================================================
