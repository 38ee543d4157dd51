-------------------------- MODULE InstallationTokens --------------------------
(***************************************************************************)
(* GitHub App credentials of crates/github: the installation tokens that   *)
(* GithubAppAuth requests with a signed App JWT and caches per scope.      *)
(*                                                                         *)
(* installation_token reads the clock, looks into the map, awaits GitHub   *)
(* and inserts: requests for one scope overlap, and a late answer replaces *)
(* a newer entry.  The process's clock and GitHub's differ by skew, which  *)
(* drifts.  Times are ticks left on GitHub's clock: an entry's left is     *)
(* when the cached expiry is due, real when GitHub lets the token expire.  *)
(* One installation: the id is in the key, so that two share nothing.      *)
(***************************************************************************)
EXTENDS Integers, Sequences

CONSTANTS Callers,     \* calls of installation_token in flight
          Repos,       \* the repositories the installation can see
          MaxRepos,    \* longest list of repositories a caller passes
          Lifetime,    \* GitHub's token lifetime (an hour), in ticks
          FallbackTtl, \* FALLBACK_TTL_SECS
          Margin,      \* REFRESH_MARGIN_SECS, and CLOCK_SKEW_SECS, which is the same
          JwtLifetime, \* JWT_LIFETIME_SECS
          JwtCeiling,  \* the longest App JWT GitHub takes
          MaxSkew,     \* how far the two clocks drift apart
          None

VARIABLES
    skew,    \* the process's clock minus GitHub's
    cache,   \* GithubAppAuth::cache, per key
    call     \* the requests in flight: repos, when now + FALLBACK_TTL_SECS is due, answer

ivars == <<skew, cache, call>>

\* What callers pass: short names, of repositories of the installation or empty.
Blank == ""
Requests == UNION {[1..n -> Repos \cup {Blank}] : n \in 0..MaxRepos}

\* repos.join(","), told apart by what it splits into at the commas: no name has a comma, so
\* that is the list again, except that no names at all join to the empty string, one empty name.
Key(repos) == IF repos = <<>> THEN <<Blank>> ELSE repos

Keys == {Key(repos) : repos \in Requests}

\* The repositories a list narrows a token to; the body of an empty one has no list, which
\* keeps the full installation (external).
Reach(repos) == IF repos = <<>> THEN Repos ELSE {repos[i] : i \in 1..Len(repos)}

NoCall == [repos |-> None, due |-> 0, token |-> None]

Init ==
    /\ skew = 0
    /\ cache = [k \in Keys |-> None]
    /\ call = [c \in Callers |-> NoCall]

Less(n) == IF n > 0 THEN n - 1 ELSE 0

\* A granted token, a tick later.
Aged(token) ==
    IF token = None THEN None ELSE [scope |-> token.scope, real |-> Less(token.real)]

Tick ==
    /\ cache' = [k \in Keys |->
          IF cache[k] = None THEN None
          ELSE [scope |-> cache[k].scope, real |-> Less(cache[k].real),
                left |-> Less(cache[k].left)]]
    /\ call' = [c \in Callers |->
          IF call[c].repos = None THEN NoCall
          ELSE [repos |-> call[c].repos, due |-> Less(call[c].due), token |-> Aged(call[c].token)]]
    /\ UNCHANGED skew

\* The clocks drift, within MaxSkew of each other.
Drift ==
    /\ skew' \in {s \in {skew - 1, skew + 1} : s \in -MaxSkew..MaxSkew}
    /\ UNCHANGED <<cache, call>>

\* Mutant: a token is used until it expires.
IsFreshWithoutMargin(left) == left > skew

\* is_fresh(expiry, now): expiry > now + REFRESH_MARGIN_SECS
IsFresh(left) == left > skew + Margin

\* What the cache serves a request for these repositories.
Served(repos) == cache[Key(repos)]
Hit(repos) == Served(repos) # None /\ IsFresh(Served(repos).left)

\* installation_token up to the request, made with the clock read at its head.
InstallationToken(c, repos) ==
    /\ call[c].repos = None
    /\ ~Hit(repos)
    /\ call' = [call EXCEPT ![c] = [repos |-> repos, due |-> skew + FallbackTtl, token |-> None]]
    /\ UNCHANGED <<skew, cache>>

\* app_claims at the clock reading of call c, relative to GitHub's clock: iat is backdated.
AppClaims(c) ==
    LET now == call[c].due - FallbackTtl
    IN  [iat |-> now - Margin, exp |-> now + JwtLifetime]

\* GitHub takes App JWTs that are issued, not expired and not too long, and answers with a
\* token for the repositories that were asked for, unless it does not know one of them (external).
GithubGrants(c) ==
    /\ call[c].repos # None /\ call[c].token = None
    /\ Reach(call[c].repos) \subseteq Repos
    /\ LET jwt == AppClaims(c)
       IN  jwt.iat <= 0 /\ jwt.exp > 0 /\ jwt.exp <= JwtCeiling
    /\ call' = [call EXCEPT ![c].token = [scope |-> Reach(call[c].repos), real |-> Lifetime]]
    /\ UNCHANGED <<skew, cache>>

\* A refused or failed request, an answer that does not decode.
RequestFails(c) ==
    /\ call[c].repos # None
    /\ call' = [call EXCEPT ![c] = NoCall]
    /\ UNCHANGED <<skew, cache>>

\* The cached expiry: GitHub's expires_at or, when that does not parse, a shorter lifetime
\* counted from the clock reading before the request.
Expiries(c) == {call[c].token.real, call[c].due}

\* The rest of installation_token: the answer goes into the map and to the caller.
Insert(c) ==
    /\ call[c].token # None
    /\ \E left \in Expiries(c) :
          cache' = [cache EXCEPT ![Key(call[c].repos)] =
                       [scope |-> call[c].token.scope, real |-> call[c].token.real,
                        left |-> left]]
    /\ call' = [call EXCEPT ![c] = NoCall]
    /\ UNCHANGED skew

Next ==
    \/ Tick \/ Drift
    \/ \E c \in Callers :
          \/ \E repos \in Requests : InstallationToken(c, repos)
          \/ GithubGrants(c) \/ RequestFails(c) \/ Insert(c)

-----------------------------------------------------------------------------

\* app.rs:18-25, 62-64, 123-127: a token served from the cache is still alive at GitHub,
\* although the clocks differ by up to the margin, answers arrive arbitrarily late and replace
\* newer ones, and expires_at may not parse; and it reaches what a list of names asks for, or
\* the full installation for none.  The exception is [""], which has the key of [] and is
\* served the token of the full installation.
ServedTokensAreLive ==
    \A repos \in Requests : Hit(repos) =>
        /\ Served(repos).real > 0
        /\ repos # <<Blank>> => Served(repos).scope = Reach(repos)

=============================================================================
