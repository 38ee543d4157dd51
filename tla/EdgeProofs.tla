----------------------------- MODULE EdgeProofs -----------------------------
(***************************************************************************)
(* Proofs about the components of MCEdge: guarded outbound requests,       *)
(* scopes, webhook deliveries and what they say of a subscription, the     *)
(* start of the Valkey pool, and contract versions.                        *)
(* Each component has an inductive invariant of its own; the others' steps *)
(* leave its variables alone.                                              *)
(***************************************************************************)
EXTENDS MCEdge, Sequences, WellFoundedInduction, TLAPS

-----------------------------------------------------------------------------
(***************************************************************************)
(* SafeHttp                                                                *)
(***************************************************************************)

LEMMA NotWithin ==
  ASSUME NEW n \in Int, NEW lo \in Int, NEW hi \in Int, ~(lo <= n /\ n <= hi)
  PROVE  n \notin lo..hi
  BY SMT

\* The masks of is_public_unicast_v6 keep the first segment out of the blocks.
LEMMA OutsideMasks ==
  ASSUME NEW n \in Int, 0 <= n, n < 65280, n \div 512 # 126,
         n \div 64 # 1018, n \div 64 # 1019, NEW b \in http_!InternalV6
  PROVE  b[1] \in Int /\ b[2] \in Int /\ ~(b[1] <= n /\ n <= b[2])
  BY SMT DEF http_!InternalV6

\* The two octets of a segment.
LEMMA SplitSegment ==
  ASSUME NEW n \in Int, 0 <= n, n < 65536
  PROVE  \E q, r \in Int : /\ q = n \div 256 /\ r = n % 256
                           /\ 0 <= q /\ 0 <= r /\ r < 256 /\ n = q * 256 + r
<1> DEFINE q == n \div 256
           r == n % 256
<1>1. q \in Int /\ r \in Int /\ 0 <= q /\ 0 <= r /\ r < 256
  BY SMT
<1>2. ASSUME NEW d \in Int, NEW m \in Int, d = n \div 256, m = n % 256
      PROVE  n = d * 256 + m
  BY <1>2, SMT
<1>3. q = n \div 256 /\ r = n % 256
  BY SMT
<1> HIDE DEF q, r
<1>4. n = q * 256 + r
  BY <1>1, <1>2, <1>3, SMT
<1>5. QED BY <1>1, <1>3, <1>4, SMT

\* is_public_unicast_v4 lets no address of an internal block through.
LEMMA PublicV4 ==
  ASSUME NEW o, NEW x \in Int, NEW y \in Int, o[1] = x, o[2] = y, 0 <= x, 0 <= y, y < 256,
         Len(o) = 4, http_!IsPublicUnicastV4(o)
  PROVE  ~http_!Internal(o)
<1>1. /\ x \notin {0, 10, 127} /\ x < 224
      /\ ~(x = 172 /\ y \in 16..31) /\ ~(x = 192 /\ y = 168)
      /\ ~(x = 169 /\ y = 254) /\ ~(x = 100 /\ y \in 64..127)
  BY SMT DEF http_!IsPublicUnicastV4
<1> DEFINE n == x * 256 + y
<1>2. n \in Int
  BY SMT
<1>3. n = x * 256 + y
  BY SMT
<1> HIDE DEF n
<1>4. ASSUME NEW b \in http_!InternalV4 PROVE n \notin b[1]..b[2]
  <2>1. b[1] \in Int /\ b[2] \in Int /\ ~(b[1] <= n /\ n <= b[2])
    BY <1>1, <1>2, <1>3, SMT DEF http_!InternalV4
  <2>2. QED BY <1>2, <2>1, NotWithin, SMT
<1>5. QED BY <1>3, <1>4, SMT DEF http_!Internal

\* An IPv4 address carried by an IPv6 address.
LEMMA OctetsAreAnAddress ==
  ASSUME NEW hi \in Below(65536), NEW lo \in Below(65536)
  PROVE  http_!Octets(hi, lo) \in [1..4 -> Below(256)] /\ http_!Octets(hi, lo) # None
<1>1. /\ hi \in Int /\ 0 <= hi /\ hi < 65536
      /\ lo \in Int /\ 0 <= lo /\ lo < 65536
  BY SMT DEF Below
<1>2. ASSUME NEW n \in Int, 0 <= n, n < 65536 PROVE n \div 256 \in Below(256)
  BY <1>2, SMT DEF Below
<1>3. ASSUME NEW n \in Int PROVE n % 256 \in Below(256)
  BY <1>3, SMT DEF Below
<1>4. /\ hi \div 256 \in Below(256) /\ hi % 256 \in Below(256)
      /\ lo \div 256 \in Below(256) /\ lo % 256 \in Below(256)
  BY <1>1, <1>2, <1>3, SMT
<1>5. ASSUME NEW S, NEW a \in S, NEW b \in S, NEW c \in S, NEW d \in S
      PROVE  <<a, b, c, d>> \in [1..4 -> S]
  BY <1>5, SMT
<1>6. http_!Octets(hi, lo) \in [1..4 -> Below(256)]
  BY <1>4, <1>5, SMT DEF http_!Octets
<1>7. QED BY <1>6, SafeHttpAssumption, SMT DEF AllAddresses

LEMMA CarriedV4 ==
  ASSUME NEW hi \in Int, 0 <= hi, hi < 65536, NEW lo,
         http_!IsPublicUnicastV4(http_!Octets(hi, lo))
  PROVE  ~http_!Internal(http_!Octets(hi, lo))
<1>1. PICK q \in Int, r \in Int : /\ q = hi \div 256 /\ r = hi % 256
                                  /\ 0 <= q /\ 0 <= r /\ r < 256 /\ hi = q * 256 + r
  BY SplitSegment, SMT
<1> DEFINE o == http_!Octets(hi, lo)
<1>2. o = <<q, r, lo \div 256, lo % 256>>
  BY <1>1, SMT DEF http_!Octets
<1>3. ASSUME NEW u, NEW v PROVE LET w == <<q, r, u, v>> IN Len(w) = 4 /\ w[1] = q /\ w[2] = r
  BY SMT
<1>4. http_!IsPublicUnicastV4(o)
  BY SMT
<1> HIDE DEF o
<1>5. Len(o) = 4 /\ o[1] = q /\ o[2] = r
  BY <1>2, <1>3, SMT
<1>6. QED BY <1>1, <1>4, <1>5, PublicV4, SMT DEF o

\* is_public_unicast_v6 lets no address of an internal block through.
LEMMA PublicV6 ==
  ASSUME NEW s \in [1..8 -> Below(65536)], http_!IsPublicUnicastV6(s)
  PROVE  ~http_!Internal(s)
<1>1. s[1] \in Int /\ 0 <= s[1] /\ s[1] < 65536
  BY SMT DEF Below
<1>2. s[1] < 65280 /\ s[1] \div 512 # 126 /\ s[1] \div 64 # 1018 /\ s[1] \div 64 # 1019
  BY SMT DEF http_!IsPublicUnicastV6
<1>3. ASSUME NEW b \in http_!InternalV6 PROVE s[1] \notin b[1]..b[2]
  <2>1. b[1] \in Int /\ b[2] \in Int /\ ~(b[1] <= s[1] /\ s[1] <= b[2])
    BY <1>1, <1>2, OutsideMasks, SMT
  <2>2. QED BY <1>1, <2>1, NotWithin, SMT
<1>4. ASSUME \A i \in 1..7 : s[i] = 0 PROVE FALSE
  <2>1. s[1] = 0 /\ s[2] = 0 /\ s[3] = 0 /\ s[4] = 0 /\ s[5] = 0 /\ s[6] = 0 /\ s[7] = 0
    BY <1>4, SMT
  <2>2. http_!EmbeddedV4(s) = http_!Octets(s[7], s[8])
    BY <2>1, SMT DEF http_!EmbeddedV4
  <2>3. s[7] \in Below(65536) /\ s[8] \in Below(65536)
    BY SMT
  <2>4. http_!EmbeddedV4(s) # None
    BY <2>2, <2>3, OctetsAreAnAddress, SMT
  <2>5. http_!IsPublicUnicastV4(http_!Octets(s[7], s[8]))
    BY <2>2, <2>4, SMT DEF http_!IsPublicUnicastV6
  <2>6. http_!Octets(s[7], s[8])[1] = 0
    BY <2>1, SMT DEF http_!Octets
  <2>7. QED BY <2>5, <2>6, SMT DEF http_!IsPublicUnicastV4
<1>5. Len(s) = 8
  BY SMT
<1>6. QED BY <1>3, <1>4, <1>5, SMT DEF http_!Internal

\* Whatever address passes is_public_unicast, no packet to it ends up inside.
LEMMA VettedDestination ==
  ASSUME NEW a \in AllAddresses, http_!IsPublicUnicast(a)
  PROVE  ~http_!Internal(http_!Destination(a))
<1>1. CASE a \in [1..4 -> Below(256)]
  <2>1. Len(a) = 4
    BY <1>1, SMT
  <2>2. http_!Destination(a) = a /\ http_!IsPublicUnicastV4(a)
    BY <2>1, SMT DEF http_!Destination, http_!IsPublicUnicast
  <2>3. /\ a[1] \in Int /\ a[2] \in Int /\ 0 <= a[1] /\ 0 <= a[2] /\ a[2] < 256
    BY <1>1, SMT DEF Below
  <2>4. QED BY <2>1, <2>2, <2>3, PublicV4, SMT
<1>2. CASE a \in [1..8 -> Below(65536)]
  <2>1. Len(a) = 8 /\ \A i \in 1..8 : a[i] \in Below(65536)
    BY <1>2, SMT
  <2>2. http_!IsPublicUnicastV6(a)
    BY <2>1, SMT DEF http_!IsPublicUnicast
  <2>3. http_!EmbeddedV4(a) # None => http_!IsPublicUnicastV4(http_!EmbeddedV4(a))
    BY <2>2, SMT DEF http_!IsPublicUnicastV6
  <2>4. ASSUME NEW hi \in Below(65536), NEW lo \in Below(65536),
               http_!EmbeddedV4(a) = http_!Octets(hi, lo)
        PROVE  ~http_!Internal(http_!Octets(hi, lo))
    <3>1. http_!IsPublicUnicastV4(http_!Octets(hi, lo))
      BY <2>3, <2>4, OctetsAreAnAddress, SMT
    <3>2. hi \in Int /\ 0 <= hi /\ hi < 65536
      BY <2>4, SMT DEF Below
    <3>3. QED BY <3>1, <3>2, CarriedV4, SMT
  <2>5. CASE a[1] = 8194
    <3>1. http_!EmbeddedV4(a) = http_!Octets(a[2], a[3])
      BY <2>5, SMT DEF http_!EmbeddedV4
    <3>2. http_!Destination(a) = http_!Octets(a[2], a[3])
      BY <2>1, <2>5, SMT DEF http_!Destination
    <3>3. QED BY <2>1, <2>4, <3>1, <3>2, SMT
  <2>6. CASE a[1] # 8194 /\ \E p \in http_!Prefixes : \A i \in 1..6 : a[i] = p[i]
    <3>1. http_!Destination(a) = http_!Octets(a[7], a[8])
      BY <2>1, <2>6, SMT DEF http_!Destination
    <3>2. http_!EmbeddedV4(a) = http_!Octets(a[7], a[8])
      <4>1. CASE \A i \in 1..6 : a[i] = <<0, 0, 0, 0, 0, 65535>>[i]
        <5>1. a[1] = 0 /\ a[2] = 0 /\ a[3] = 0 /\ a[4] = 0 /\ a[5] = 0 /\ a[6] = 65535
          BY <4>1, SMT
        <5>2. QED BY <5>1, SMT DEF http_!EmbeddedV4
      <4>2. CASE \A i \in 1..6 : a[i] = <<100, 65435, 0, 0, 0, 0>>[i]
        <5>1. a[1] = 100 /\ a[2] = 65435 /\ a[3] = 0 /\ a[4] = 0 /\ a[5] = 0 /\ a[6] = 0
          BY <4>2, SMT
        <5>2. QED BY <5>1, SMT DEF http_!EmbeddedV4
      <4>3. QED BY <2>6, <4>1, <4>2, SMT DEF http_!Prefixes
    <3>3. QED BY <2>1, <2>4, <3>1, <3>2, SMT
  <2>7. CASE a[1] # 8194 /\ ~\E p \in http_!Prefixes : \A i \in 1..6 : a[i] = p[i]
    <3>1. http_!Destination(a) = a
      BY <2>1, <2>7, SMT DEF http_!Destination
    <3>2. QED BY <1>2, <2>2, <3>1, PublicV6, SMT
  <2>8. QED BY <2>5, <2>6, <2>7
<1>3. QED BY <1>1, <1>2 DEF AllAddresses

\* An address the check has let through.
Vetted(a) == a \in Addresses /\ http_!IsPublicUnicast(a)

\* How many requests a fetch may take.
MaxHops == IF fetch.method = "get" THEN MaxRedirects ELSE 0

\* The inductive invariant of guarded requests: what is pinned or connected to is vetted, a
\* request is sent once per hop, and only safe_get hops.
FetchInv ==
    /\ DOMAIN fetch = {"phase", "method", "hops", "pinned", "peer", "requests", "bytes", "result"}
    /\ fetch.phase = "send" => Vetted(fetch.pinned)
    /\ fetch.peer # None => Vetted(fetch.peer)
    /\ fetch.hops \in Nat /\ fetch.requests \in Nat /\ fetch.bytes \in Nat
    /\ fetch.hops <= MaxHops /\ fetch.requests <= fetch.hops + 1
    /\ fetch.phase \in {"url", "send"} => fetch.requests <= fetch.hops
    /\ fetch.bytes <= MaxBodyBytes

LEMMA FetchInitially == http_!Init => FetchInv
  BY SafeHttpAssumption DEF http_!Init, http_!NoFetch, FetchInv, MaxHops

LEMMA FetchEnds ==
  ASSUME FetchInv, NEW result, http_!End(result)
  PROVE  FetchInv'
<1>1. /\ fetch' = [fetch EXCEPT !.phase = "done", !.pinned = None, !.result = result]
      /\ DOMAIN fetch = {"phase", "method", "hops", "pinned", "peer", "requests", "bytes", "result"}
  BY DEF http_!End, FetchInv
<1>2. /\ DOMAIN fetch' = DOMAIN fetch /\ fetch'.phase = "done" /\ fetch'.method = fetch.method
      /\ fetch'.hops = fetch.hops /\ fetch'.peer = fetch.peer
      /\ fetch'.requests = fetch.requests /\ fetch'.bytes = fetch.bytes
  BY <1>1
<1>3. QED BY <1>2 DEF FetchInv, MaxHops, Vetted

LEMMA FetchInductive ==
  ASSUME FetchInv, http_!Next
  PROVE  FetchInv'
<1>0. /\ DOMAIN fetch = {"phase", "method", "hops", "pinned", "peer", "requests", "bytes", "result"}
      /\ MaxRedirects \in Nat /\ MaxBodyBytes \in Nat
  BY SafeHttpAssumption DEF FetchInv
<1>1. ASSUME NEW method \in {"get", "post"}, http_!Start(method)
      PROVE  FetchInv'
  <2>1. fetch' = [phase |-> "url", method |-> method, hops |-> 0, pinned |-> None,
                  peer |-> None, requests |-> 0, bytes |-> 0, result |-> None]
    BY <1>1 DEF http_!Start, http_!NoFetch
  <2>2. QED BY <1>0, <2>1 DEF FetchInv, MaxHops
<1>2. CASE http_!RefusedUrl \/ http_!LookupFails \/ http_!EndOfBody \/ http_!Fails
  BY <1>2, FetchEnds DEF http_!RefusedUrl, http_!LookupFails, http_!EndOfBody, http_!Fails
<1>3. ASSUME NEW answer \in http_!Answers, http_!ResolveAndValidate(answer)
      PROVE  FetchInv'
  <2>1. CASE \E i \in 1..Len(answer) : ~http_!IsPublicUnicast(answer[i])
    BY <1>3, <2>1, FetchEnds DEF http_!ResolveAndValidate
  <2>2. CASE \A i \in 1..Len(answer) : http_!IsPublicUnicast(answer[i])
    <3>1. /\ fetch' = [fetch EXCEPT !.phase = "send", !.pinned = answer[1]]
          /\ fetch.phase = "url"
      BY <1>3, <2>2 DEF http_!ResolveAndValidate
    <3>2. Vetted(answer[1])
      <4>1. CASE \E a \in Addresses : answer = <<a>>
        <5>1. PICK a \in Addresses : answer = <<a>>
          BY <4>1
        <5>2. Len(answer) = 1 /\ answer[1] = a
          BY <5>1
        <5>3. QED BY <2>2, <5>2 DEF Vetted
      <4>2. CASE \E a, b \in Addresses : answer = <<a, b>>
        <5>1. PICK a \in Addresses, b \in Addresses : answer = <<a, b>>
          BY <4>2
        <5>2. Len(answer) = 2 /\ answer[1] = a
          BY <5>1
        <5>3. QED BY <2>2, <5>2 DEF Vetted
      <4>3. QED BY <4>1, <4>2 DEF http_!Answers
    <3>3. /\ DOMAIN fetch' = DOMAIN fetch /\ fetch'.phase = "send"
          /\ fetch'.pinned = answer[1] /\ fetch'.method = fetch.method
          /\ fetch'.hops = fetch.hops /\ fetch'.peer = fetch.peer
          /\ fetch'.requests = fetch.requests /\ fetch'.bytes = fetch.bytes
      BY <1>0, <3>1
    <3>4. QED BY <3>1, <3>2, <3>3 DEF FetchInv, MaxHops, Vetted
  <2>3. QED BY <2>1, <2>2
<1>4. CASE http_!Send
  <2>1. /\ fetch.phase = "send"
        /\ fetch' = [fetch EXCEPT !.phase = "sent", !.peer = fetch.pinned,
                                  !.requests = fetch.requests + 1]
    BY <1>4 DEF http_!Send, http_!Connects
  <2>2. /\ DOMAIN fetch' = DOMAIN fetch /\ fetch'.phase = "sent" /\ fetch'.method = fetch.method
        /\ fetch'.hops = fetch.hops /\ fetch'.peer = fetch.pinned
        /\ fetch'.requests = fetch.requests + 1 /\ fetch'.bytes = fetch.bytes
    BY <1>0, <2>1
  <2>3. Vetted(fetch.pinned) /\ fetch.requests <= fetch.hops
    BY <2>1 DEF FetchInv
  <2>4. QED BY <2>2, <2>3 DEF FetchInv, MaxHops, Vetted
<1>5. CASE http_!Answer
  <2>1. /\ fetch' = [fetch EXCEPT !.phase = "body"] /\ fetch.phase = "sent"
    BY <1>5 DEF http_!Answer
  <2>2. /\ DOMAIN fetch' = DOMAIN fetch /\ fetch'.phase = "body" /\ fetch'.method = fetch.method
        /\ fetch'.hops = fetch.hops /\ fetch'.peer = fetch.peer
        /\ fetch'.requests = fetch.requests /\ fetch'.bytes = fetch.bytes
    BY <1>0, <2>1
  <2>3. QED BY <2>2 DEF FetchInv, MaxHops, Vetted
<1>6. ASSUME NEW location, http_!Redirect(location)
      PROVE  FetchInv'
  <2>1. CASE \E result : http_!End(result)
    BY <2>1, FetchEnds
  <2>2. CASE /\ ~(fetch.hops >= MaxRedirects)
             /\ fetch' = [fetch EXCEPT !.phase = "url", !.pinned = None, !.hops = @ + 1]
    <3>1. fetch.method = "get"
      BY <1>6 DEF http_!Redirect
    <3>2. /\ DOMAIN fetch' = DOMAIN fetch /\ fetch'.phase = "url"
          /\ fetch'.method = fetch.method /\ fetch'.hops = fetch.hops + 1
          /\ fetch'.peer = fetch.peer /\ fetch'.requests = fetch.requests
          /\ fetch'.bytes = fetch.bytes
      BY <1>0, <2>2
    <3>3. fetch.hops \in Nat /\ fetch.hops + 1 <= MaxRedirects
      BY <1>0, <2>2 DEF FetchInv
    <3>4. QED BY <3>1, <3>2, <3>3 DEF FetchInv, MaxHops, Vetted
  <2>3. QED BY <1>6, <2>1, <2>2 DEF http_!Redirect
<1>7. ASSUME NEW n \in 1..2, http_!Chunk(n)
      PROVE  FetchInv'
  <2>1. CASE http_!End("BodyTooLarge")
    BY <2>1, FetchEnds
  <2>2. CASE /\ ~(fetch.bytes + n > MaxBodyBytes)
             /\ fetch' = [fetch EXCEPT !.bytes = @ + n]
    <3>1. /\ DOMAIN fetch' = DOMAIN fetch /\ fetch'.phase = fetch.phase
          /\ fetch'.method = fetch.method /\ fetch'.hops = fetch.hops
          /\ fetch'.peer = fetch.peer /\ fetch'.requests = fetch.requests
          /\ fetch'.bytes = fetch.bytes + n /\ fetch'.pinned = fetch.pinned
      BY <1>0, <2>2
    <3>2. QED BY <1>0, <2>2, <3>1 DEF FetchInv, MaxHops, Vetted
  <2>3. QED BY <1>7, <2>1, <2>2 DEF http_!Chunk
<1>8. QED
  BY <1>1, <1>2, <1>3, <1>4, <1>5, <1>6, <1>7 DEF http_!Next

LEMMA FetchPreserved == FetchInv /\ [EdgeNext]_edgeVars => FetchInv'
<1> SUFFICES ASSUME FetchInv, [EdgeNext]_edgeVars PROVE FetchInv'
  OBVIOUS
<1>1. CASE HttpStep
  BY <1>1, FetchInductive DEF HttpStep
<1>2. CASE UNCHANGED fetch
  BY <1>2 DEF FetchInv, MaxHops, Vetted
<1>3. QED
  BY <1>1, <1>2 DEF EdgeNext, edgeVars, LimiterStep, BillingStep, VersionsStep, ScopesStep,
                    PoolStep

\* http/lib.rs:7-25: whatever addresses names resolve to and servers redirect to, no request
\* goes to an internal one, at most max_redirects redirections are followed, and no more than
\* the body limit is read; for every set of addresses of either family and every limit.
THEOREM PeersCorrect == EdgeSpec => []OnlyVettedPeers
<1>1. EdgeInit => FetchInv
  BY FetchInitially DEF EdgeInit
<1>2. FetchInv => OnlyVettedPeers
  <2> SUFFICES ASSUME FetchInv PROVE OnlyVettedPeers
    OBVIOUS
  <2>1. fetch.peer # None => ~http_!Internal(http_!Destination(fetch.peer))
    BY VettedDestination, SafeHttpAssumption DEF FetchInv, Vetted
  <2>2. fetch.requests <= (IF fetch.method = "get" THEN MaxRedirects + 1 ELSE 1)
    BY SafeHttpAssumption DEF FetchInv, MaxHops
  <2>3. fetch.bytes <= MaxBodyBytes
    BY DEF FetchInv
  <2>4. QED BY <2>1, <2>2, <2>3 DEF OnlyVettedPeers, http_!OnlyVettedPeers
<1>3. QED BY <1>1, <1>2, FetchPreserved, PTL DEF EdgeSpec

-----------------------------------------------------------------------------
(***************************************************************************)
(* Scopes                                                                  *)
(***************************************************************************)

\* Scope::implies is transitive: the families are written out from the top.
LEMMA ImpliesTransitive ==
  ASSUME NEW s, NEW t, NEW u, scopes_!Implies(s, t), scopes_!Implies(t, u)
  PROVE  scopes_!Implies(s, u)
<1>1. CASE s = t \/ t = u
  BY <1>1 DEF scopes_!Implies
<1>2. CASE <<s, t>> \in scopes_!Implications /\ <<t, u>> \in scopes_!Implications
  BY <1>2 DEF scopes_!Implies, scopes_!Implications
<1>3. QED BY <1>1, <1>2 DEF scopes_!Implies

\* Nothing but staff access implies staff access.
LEMMA ImpliesStaff ==
  ASSUME NEW s, scopes_!Implies(s, "staff:access")
  PROVE  s = "staff:access"
  BY DEF scopes_!Implies, scopes_!Implications

LEMMA HasTransitive ==
  ASSUME NEW S, NEW s, NEW t, scopes_!Has(S, s), scopes_!Implies(s, t)
  PROVE  scopes_!Has(S, t)
  BY ImpliesTransitive DEF scopes_!Has

\* What strings ask for, of which the scopes in names are understood.
AskedOf(strings, wildcard, names, s) ==
    \/ scopes_!Has(strings \cap names, s)
    \/ wildcard /\ "*" \in strings /\ s # "staff:access"

\* A request's scopes as its build made them from the token and the roles.
TokenAuth(a) ==
    /\ a.by = "token"
    /\ a.known \subseteq scopes_!Names
    /\ \A s : s \in a.scopes <=>
                /\ s \in a.known /\ AskedOf(a.strings, a.wildcard, a.known, s)
                /\ scopes_!Has(a.role \cap a.known, s)

SessionAuth(a) ==
    /\ a.by = "session"
    /\ \A s : s \in a.scopes <=>
                s \in a.known /\ (s = "staff:access" => "staff:access" \in a.role)

\* The inductive invariant of scopes.
ScopesInv ==
    /\ known \subseteq scopes_!Names
    /\ auth = None \/ TokenAuth(auth) \/ SessionAuth(auth)

LEMMA ScopesInitially == scopes_!Init => ScopesInv
  BY DEF scopes_!Init, ScopesInv

\* from_strings_with_wildcard grants what was asked for: a wildcard is everything known but
\* staff access, which nothing else implies.
LEMMA WildcardGrants ==
  ASSUME NEW strings, NEW s \in known
  PROVE  scopes_!Has(scopes_!FromStringsWithWildcard(strings), s) <=>
            AskedOf(strings, TRUE, known, s)
<1> DEFINE W == scopes_!FromStringsWithWildcard(strings)
<1>1. \A r : r \in W <=> \/ r \in strings /\ r \in known
                         \/ "*" \in strings /\ r \in known /\ r # "staff:access"
  BY DEF scopes_!FromStringsWithWildcard, scopes_!FromStrings, scopes_!Parses,
         scopes_!FullSession
<1>2. scopes_!Has(W, s) <=> \E r \in W : scopes_!Implies(r, s)
  BY DEF scopes_!Has
<1>3. scopes_!Implies(s, s)
  BY DEF scopes_!Implies
<1> HIDE DEF W
<1>4. ASSUME NEW r \in W, scopes_!Implies(r, s)
      PROVE  AskedOf(strings, TRUE, known, s)
  <2>1. CASE r \in strings /\ r \in known
    BY <1>4, <2>1 DEF AskedOf, scopes_!Has
  <2>2. CASE "*" \in strings /\ r # "staff:access"
    BY <1>4, <2>2, ImpliesStaff DEF AskedOf
  <2>3. QED BY <1>1, <1>4, <2>1, <2>2
<1>5. ASSUME NEW r \in strings \cap known, scopes_!Implies(r, s)
      PROVE  \E q \in W : scopes_!Implies(q, s)
  BY <1>1, <1>5
<1>6. ASSUME "*" \in strings, s # "staff:access"
      PROVE  \E q \in W : scopes_!Implies(q, s)
  BY <1>1, <1>3, <1>6
<1>7. QED BY <1>2, <1>4, <1>5, <1>6 DEF W, AskedOf, scopes_!Has

LEMMA TokenAuthenticated ==
  ASSUME ScopesInv, NEW t \in Tokens, scopes_!AuthenticateToken(t)
  PROVE  ScopesInv'
<1>1. PICK wildcard \in BOOLEAN :
         LET read == IF wildcard THEN scopes_!FromStringsWithWildcard(token[t])
                     ELSE scopes_!FromStrings(token[t])
         IN  auth' = [by |-> "token",
                      scopes |-> scopes_!Intersection(read, scopes_!FromStrings(role)),
                      strings |-> token[t], wildcard |-> wildcard, role |-> role,
                      known |-> known]
  BY DEF scopes_!AuthenticateToken
<1> DEFINE read == IF wildcard THEN scopes_!FromStringsWithWildcard(token[t])
                   ELSE scopes_!FromStrings(token[t])
<1>2. /\ auth'.by = "token" /\ auth'.strings = token[t] /\ auth'.wildcard = wildcard
      /\ auth'.role = role /\ auth'.known = known
      /\ auth'.scopes = scopes_!Intersection(read, scopes_!FromStrings(role))
  BY <1>1
<1>3. scopes_!FromStrings(token[t]) = token[t] \cap known
  BY DEF scopes_!FromStrings, scopes_!Parses
<1>4. scopes_!FromStrings(role) = role \cap known
  BY DEF scopes_!FromStrings, scopes_!Parses
<1>5. ASSUME NEW s \in known
      PROVE  scopes_!Has(read, s) <=> AskedOf(token[t], wildcard, known, s)
  <2>1. CASE wildcard
    BY <2>1, WildcardGrants
  <2>2. CASE ~wildcard
    BY <1>3, <2>2 DEF AskedOf
  <2>3. QED BY <2>1, <2>2
<1> HIDE DEF read
<1>6. \A s : s \in auth'.scopes <=>
                /\ s \in known /\ scopes_!Has(read, s) /\ scopes_!Has(role \cap known, s)
  BY <1>2, <1>4 DEF scopes_!Intersection
<1>7. \A s : s \in auth'.scopes <=>
                /\ s \in known /\ AskedOf(token[t], wildcard, known, s)
                /\ scopes_!Has(role \cap known, s)
  BY <1>5, <1>6
<1>8. TokenAuth(auth')
  BY <1>2, <1>7 DEF TokenAuth, ScopesInv
<1>9. known' = known
  BY DEF scopes_!AuthenticateToken
<1>10. QED BY <1>8, <1>9 DEF ScopesInv

LEMMA SessionAuthenticated ==
  ASSUME ScopesInv, scopes_!AuthenticateSession
  PROVE  ScopesInv'
<1>1. /\ auth'.by = "session" /\ auth'.scopes = scopes_!Session
      /\ auth'.role = role /\ auth'.known = known /\ known' = known
  BY DEF scopes_!AuthenticateSession
<1>2. \A s : s \in scopes_!Session <=>
               s \in known /\ (s = "staff:access" => "staff:access" \in role)
  BY DEF scopes_!Session, scopes_!FullSession
<1>3. QED BY <1>1, <1>2 DEF ScopesInv, SessionAuth

LEMMA ScopesInductive ==
  ASSUME ScopesInv, scopes_!Next
  PROVE  ScopesInv'
<1>1. CASE scopes_!Deploy
  BY <1>1 DEF scopes_!Deploy, ScopesInv
<1>2. CASE scopes_!ChangeRole
  BY <1>2 DEF scopes_!ChangeRole, ScopesInv
<1>3. ASSUME NEW t \in Tokens, scopes_!ManageToken(t) PROVE ScopesInv'
  BY <1>3 DEF scopes_!ManageToken, ScopesInv
<1>4. QED BY <1>1, <1>2, <1>3, TokenAuthenticated, SessionAuthenticated DEF scopes_!Next

LEMMA ScopesPreserved == ScopesInv /\ [EdgeNext]_edgeVars => ScopesInv'
<1> SUFFICES ASSUME ScopesInv, [EdgeNext]_edgeVars PROVE ScopesInv'
  OBVIOUS
<1>1. CASE ScopesStep
  BY <1>1, ScopesInductive DEF ScopesStep
<1>2. CASE UNCHANGED scopesVars
  BY <1>2 DEF scopesVars, ScopesInv
<1>3. QED
  BY <1>1, <1>2 DEF EdgeNext, edgeVars, LimiterStep, HttpStep, BillingStep, VersionsStep,
                    PoolStep

\* Nothing is lost or gained by Scope::implies on top of what a token's request holds.
LEMMA TokenGrants ==
  ASSUME NEW a, TokenAuth(a), NEW s \in a.known
  PROVE  scopes_!Has(a.scopes, s) <=>
            AskedOf(a.strings, a.wildcard, a.known, s) /\ scopes_!Has(a.role \cap a.known, s)
<1>1. ASSUME NEW g \in a.scopes, scopes_!Implies(g, s)
      PROVE  /\ AskedOf(a.strings, a.wildcard, a.known, s)
             /\ scopes_!Has(a.role \cap a.known, s)
  <2>1. AskedOf(a.strings, a.wildcard, a.known, g) /\ scopes_!Has(a.role \cap a.known, g)
    BY DEF TokenAuth
  <2>2. scopes_!Has(a.role \cap a.known, s)
    BY <1>1, <2>1, HasTransitive
  <2>3. CASE scopes_!Has(a.strings \cap a.known, g)
    BY <1>1, <2>2, <2>3, HasTransitive DEF AskedOf
  <2>4. CASE a.wildcard /\ "*" \in a.strings /\ g # "staff:access"
    BY <1>1, <2>2, <2>4, ImpliesStaff DEF AskedOf
  <2>5. QED BY <2>1, <2>3, <2>4 DEF AskedOf
<1>2. ASSUME AskedOf(a.strings, a.wildcard, a.known, s), scopes_!Has(a.role \cap a.known, s)
      PROVE  scopes_!Has(a.scopes, s)
  <2>1. s \in a.scopes
    BY <1>2 DEF TokenAuth
  <2>2. QED BY <2>1 DEF scopes_!Has, scopes_!Implies
<1>3. QED BY <1>1, <1>2 DEF scopes_!Has

LEMMA SessionGrants ==
  ASSUME NEW a, SessionAuth(a), NEW s \in a.known
  PROVE  scopes_!Has(a.scopes, s) <=> (s = "staff:access" => "staff:access" \in a.role)
<1>1. s \in a.scopes => scopes_!Has(a.scopes, s)
  BY DEF scopes_!Has, scopes_!Implies
<1>2. ASSUME scopes_!Has(a.scopes, s), s = "staff:access" PROVE "staff:access" \in a.role
  BY <1>2, ImpliesStaff DEF scopes_!Has, SessionAuth
<1>3. QED BY <1>1, <1>2 DEF SessionAuth

\* permissions/lib.rs:60-66, 341-349, 362-410, 434-443: for any number of tokens, and
\* whichever scopes the older build lacks, a request has exactly what its token asks for and
\* its owner's roles give, and staff access is never a wildcard's or a session's by default.
THEOREM GrantsCorrect == EdgeSpec => []GrantsAreTheCommonOnes
<1>1. EdgeInit => ScopesInv
  BY ScopesInitially DEF EdgeInit
<1>2. ScopesInv => GrantsAreTheCommonOnes
  <2> SUFFICES ASSUME ScopesInv, auth # None, NEW s \in auth.known
               PROVE  IF auth.by = "token"
                      THEN /\ scopes_!Has(auth.scopes, s) <=>
                                scopes_!Asked(auth.known, s)
                                /\ scopes_!Has(auth.role \cap auth.known, s)
                           /\ scopes_!Has(auth.scopes, s) =>
                                scopes_!Asked(scopes_!Names, s) /\ scopes_!Has(auth.role, s)
                      ELSE scopes_!Has(auth.scopes, s) <=>
                                (s = "staff:access" => "staff:access" \in auth.role)
    BY DEF GrantsAreTheCommonOnes, scopes_!GrantsAreTheCommonOnes
  <2>1. CASE TokenAuth(auth)
    <3>1. \A names : scopes_!Asked(names, s) <=> AskedOf(auth.strings, auth.wildcard, names, s)
      BY DEF scopes_!Asked, AskedOf
    <3>2. AskedOf(auth.strings, auth.wildcard, auth.known, s) =>
            AskedOf(auth.strings, auth.wildcard, scopes_!Names, s)
      BY <2>1 DEF AskedOf, scopes_!Has, TokenAuth
    <3>3. scopes_!Has(auth.role \cap auth.known, s) => scopes_!Has(auth.role, s)
      BY DEF scopes_!Has
    <3>4. auth.by = "token"
      BY <2>1 DEF TokenAuth
    <3>5. QED BY <2>1, <3>1, <3>2, <3>3, <3>4, TokenGrants
  <2>2. CASE SessionAuth(auth)
    <3>1. auth.by # "token"
      BY <2>2 DEF SessionAuth
    <3>2. QED BY <2>2, <3>1, SessionGrants
  <2>3. QED BY <2>1, <2>2 DEF ScopesInv
<1>3. QED BY <1>1, <1>2, ScopesPreserved, PTL DEF EdgeSpec

-----------------------------------------------------------------------------
(***************************************************************************)
(* Billing                                                                 *)
(***************************************************************************)

IsSeq(s) == \E S : s \in Seq(S)

LEMMA AppendToSeq ==
  ASSUME NEW s, IsSeq(s), NEW e
  PROVE  /\ IsSeq(Append(s, e)) /\ Len(s) \in Nat /\ Len(Append(s, e)) = Len(s) + 1
         /\ \A i \in 1..Len(s) : Append(s, e)[i] = s[i]
         /\ Append(s, e)[Len(s) + 1] = e
<1>1. PICK S : s \in Seq(S)
  BY DEF IsSeq
<1> DEFINE T == S \cup {e}
<1>2. s \in Seq(T) /\ e \in T
  BY <1>1
<1> HIDE DEF T
<1>3. Append(s, e) \in Seq(T)
  BY <1>2
<1>4. QED BY <1>2, <1>3 DEF IsSeq

\* Metadata of a subscription of org o that is billed price: it names the org or nobody, and
\* the tier, or, if this client did not stamp it, perhaps none or an unknown one.
MetadataOK(m, o, price, stamped) ==
    /\ m.org_id \in {o, None}
    /\ m.tier = price \/ (~stamped /\ m.tier \in {None, "unknown"})

SubOK(r) ==
    /\ r = [org |-> r.org, canceled |-> r.canceled, price |-> r.price,
            metadata |-> r.metadata, stamped |-> r.stamped]
    /\ r.org \in Orgs /\ r.price \in Tiers
    /\ MetadataOK(r.metadata, r.org, r.price, r.stamped)

SubsOK ==
    /\ sub = [s \in Subs |-> sub[s]]
    /\ \A s \in Subs : sub[s] # None => SubOK(sub[s])

\* A tier change in flight is about a subscription that exists.
CallsOK ==
    /\ stripeCall = [c \in Actors |-> stripeCall[c]]
    /\ \A c \in Actors : stripeCall[c] # None /\ stripeCall[c].op = "update" =>
          stripeCall[c].sub \in Subs /\ stripeCall[c].tier \in Tiers /\ SubOK(sub[stripeCall[c].sub])

\* What an event of a subscription tells of it: the status, for an invoice on itself or on
\* its first line.
StatusEventOK(e) ==
    /\ MetadataOK(e.metadata, e.org, e.billed, e.stamped) /\ e.subscription = e.of
    /\ \/ e.type = "customer.subscription.updated" /\ e.was = e.status
       \/ e.type = "customer.subscription.deleted" /\ e.was = "canceled"

InvoiceOK(e) ==
    /\ e.type = "invoice.paid"
    /\ \/ /\ MetadataOK(e.metadata, e.org, e.billed, e.stamped)
          /\ e.subscription = e.of /\ e.line = None
       \/ /\ e.metadata.org_id = None /\ e.subscription = None
          /\ MetadataOK(e.line.metadata, e.org, e.billed, e.stamped)
          /\ e.line.subscription \in {e.of, None}

EventOK(e) ==
    \/ e.type = "push"
    \/ e.org \in Orgs /\ e.billed \in Tiers /\ (StatusEventOK(e) \/ InvoiceOK(e))

EventsOK ==
    /\ IsSeq(events) /\ Len(events) \in 0..MaxEvents
    /\ \A i \in 1..Len(events) : EventOK(events[i])

\* The delivery store and the requests that passed it: an event was processed at most once
\* if it is in the store, and not yet while a request is about to; one request at most is.
DeliveriesOK ==
    /\ handler = [h \in Actors |-> handler[h]]
    /\ done \in [1..MaxEvents -> {0, 1}]
    /\ \A e \in 1..MaxEvents : done[e] = 1 => e \in seen
    /\ \A h \in Actors :
          /\ handler[h] = [phase |-> handler[h].phase, event |-> handler[h].event]
          /\ handler[h].phase # "idle" => handler[h].event \in 1..Len(events)
          /\ handler[h].phase = "recorded" =>
                handler[h].event \in seen /\ done[handler[h].event] = 0
    /\ \A h, k \in Actors :
          handler[h].phase = "recorded" /\ handler[k].phase = "recorded"
            /\ handler[h].event = handler[k].event => h = k

\* What a change says of the subscription that event e was emitted for.
ChangeOK(change, e) ==
    /\ change.org = e.org /\ change.subscription = e.of
    /\ change.tier = e.billed \/ (change.tier = "free" /\ ~e.stamped)
    /\ change.status \in {"active", "trialing"} =>
          e.was \in {"active", "trialing"} \/ e.type = "invoice.paid"
    /\ e.type # "invoice.paid" => (change.status = "canceled" <=> e.was = "canceled")

\* A stored change is the one its event told.
RowOK(o, r) ==
    /\ r.event \in 1..Len(events)
    /\ r.change.org = o /\ ChangeOK(r.change, events[r.event])

RowsOK ==
    /\ row = [o \in Orgs |-> row[o]]
    /\ \A o \in Orgs : row[o] # None => RowOK(o, row[o])

\* The inductive invariant of billing.
BillingInv == SubsOK /\ CallsOK /\ EventsOK /\ DeliveriesOK /\ RowsOK

LEMMA BillingInitially == billing_!Init => BillingInv
<1> SUFFICES ASSUME billing_!Init PROVE BillingInv
  OBVIOUS
<1> USE DEF billing_!Init
<1>1. SubsOK /\ CallsOK /\ RowsOK
  BY DEF SubsOK, CallsOK, RowsOK
<1>2. EventsOK
  <2>1. IsSeq(events) /\ Len(events) = 0
    BY DEF IsSeq
  <2>2. QED BY <2>1, BillingAssumption DEF EventsOK
<1>3. DeliveriesOK
  BY DEF DeliveriesOK, billing_!Idle
<1>4. QED BY <1>1, <1>2, <1>3 DEF BillingInv

\* What SubscriptionChange makes of sound metadata
LEMMA ChangeMade ==
  ASSUME NEW e, e.billed \in Tiers, NEW m, MetadataOK(m, e.org, e.billed, e.stamped),
         NEW subscription, subscription \in {e.of, None}, NEW status, NEW c,
         c = billing_!SubscriptionChange(m, subscription, status), c.kind = "change"
  PROVE  /\ c.org = e.org /\ c.subscription = e.of /\ c.status = status
         /\ c.tier = e.billed \/ (c.tier = "free" /\ ~e.stamped)
<1> DEFINE tier == IF m.tier = None THEN "free" ELSE billing_!TierFromStr(m.tier)
<1>1. m.org_id # None /\ subscription # None
  BY DEF billing_!SubscriptionChange
<1>2. c = [kind |-> "change", org |-> m.org_id, product |-> m.product, tier |-> tier,
           status |-> status, subscription |-> subscription]
  BY DEF billing_!SubscriptionChange
<1>3. tier = e.billed \/ (tier = "free" /\ ~e.stamped)
  <2>1. e.billed \in {"free", "pro", "team", "enterprise"} /\ e.billed # None
    BY BillingAssumption
  <2>2. CASE m.tier = e.billed
    BY <2>1, <2>2 DEF billing_!TierFromStr
  <2>3. CASE ~e.stamped /\ m.tier \in {None, "unknown"}
    BY <2>3 DEF billing_!TierFromStr
  <2>4. QED BY <2>2, <2>3 DEF MetadataOK
<1> HIDE DEF tier
<1>4. c.org = m.org_id /\ c.subscription = subscription /\ c.status = status /\ c.tier = tier
  BY <1>2
<1>5. QED BY <1>1, <1>3, <1>4 DEF MetadataOK

\* parse_event tells the org, the subscription, the tier that was billed, and the status.
LEMMA ParsedChange ==
  ASSUME NEW e, EventOK(e), billing_!ParseEvent(e).kind = "change"
  PROVE  e.org \in Orgs /\ ChangeOK(billing_!ParseEvent(e), e)
<1>1. CASE e.type = "push"
  <2>1. billing_!ParseEvent(e) = [kind |-> "Other"]
    BY <1>1 DEF billing_!ParseEvent
  <2>2. QED BY <2>1
<1>2. CASE e.org \in Orgs /\ e.billed \in Tiers /\ StatusEventOK(e)
  <2> DEFINE status == IF e.type = "customer.subscription.deleted" THEN "canceled"
                       ELSE billing_!StatusFromStripe(e.status)
             c == billing_!SubscriptionChange(e.metadata, e.subscription, status)
  <2>1. None # "canceled"
    BY BillingAssumption
  <2>2. billing_!ParseEvent(e) = c
    <3>1. CASE e.type = "customer.subscription.updated"
      BY <2>1, <3>1 DEF billing_!ParseEvent, billing_!ChangeFromSubscription
    <3>2. CASE e.type = "customer.subscription.deleted"
      BY <2>1, <3>2 DEF billing_!ParseEvent, billing_!ChangeFromSubscription
    <3>3. QED BY <1>2, <3>1, <3>2 DEF StatusEventOK
  <2>3. /\ status \in {"active", "trialing"} => e.was \in {"active", "trialing"}
        /\ status = "canceled" <=> e.was = "canceled"
    <3>1. CASE e.type = "customer.subscription.updated" /\ e.was = e.status
      BY <3>1 DEF billing_!StatusFromStripe
    <3>2. CASE e.type = "customer.subscription.deleted" /\ e.was = "canceled"
      BY <3>2
    <3>3. QED BY <1>2, <3>1, <3>2 DEF StatusEventOK
  <2> HIDE DEF status
  <2> HIDE DEF c
  <2>4. /\ c.org = e.org /\ c.subscription = e.of /\ c.status = status
        /\ c.tier = e.billed \/ (c.tier = "free" /\ ~e.stamped)
    <3>1. c.kind = "change"
      BY <2>2
    <3>2. /\ MetadataOK(e.metadata, e.org, e.billed, e.stamped) /\ e.subscription \in {e.of, None}
          /\ e.billed \in Tiers
      BY <1>2 DEF StatusEventOK
    <3>3. c = billing_!SubscriptionChange(e.metadata, e.subscription, status)
      BY DEF c
    <3>4. QED BY <3>1, <3>2, <3>3, ChangeMade
  <2>5. QED BY <1>2, <2>2, <2>3, <2>4 DEF ChangeOK
<1>3. CASE e.org \in Orgs /\ e.billed \in Tiers /\ InvoiceOK(e)
  <2> DEFINE m == billing_!InvoiceMetadata(e)
             id == billing_!InvoiceSubscription(e)
             c == billing_!SubscriptionChange(m, id, "active")
  <2>1. billing_!ParseEvent(e) = c /\ e.type = "invoice.paid"
    BY <1>3 DEF billing_!ParseEvent, billing_!ChangeFromInvoice, InvoiceOK
  <2>2. m.org_id # None
    BY <2>1 DEF billing_!SubscriptionChange
  <2>3. MetadataOK(m, e.org, e.billed, e.stamped) /\ id \in {e.of, None}
    <3>1. CASE /\ MetadataOK(e.metadata, e.org, e.billed, e.stamped)
               /\ e.subscription = e.of /\ e.line = None
      BY <3>1 DEF billing_!InvoiceMetadata, billing_!InvoiceSubscription
    <3>2. CASE /\ e.metadata.org_id = None /\ e.subscription = None
               /\ MetadataOK(e.line.metadata, e.org, e.billed, e.stamped)
               /\ e.line.subscription \in {e.of, None}
      <4>1. e.line # None
        BY <2>2, <3>2 DEF billing_!InvoiceMetadata
      <4>2. QED BY <3>2, <4>1 DEF billing_!InvoiceMetadata, billing_!InvoiceSubscription
    <3>3. QED BY <1>3, <3>1, <3>2 DEF InvoiceOK
  <2> HIDE DEF m, id, c
  <2>4. /\ c.org = e.org /\ c.subscription = e.of /\ c.status = "active"
        /\ c.tier = e.billed \/ (c.tier = "free" /\ ~e.stamped)
    <3>1. c.kind = "change"
      BY <2>1
    <3>2. c = billing_!SubscriptionChange(m, id, "active")
      BY DEF c
    <3>3. QED BY <1>3, <2>3, <3>1, <3>2, ChangeMade
  <2>5. QED BY <1>3, <2>1, <2>4 DEF ChangeOK
<1>4. QED BY <1>1, <1>2, <1>3 DEF EventOK

\* What Stripe emits is about a subscription as it is.
LEMMA StatusEmitted ==
  ASSUME NEW type, NEW s \in Subs, NEW r, SubOK(r), NEW shown, NEW was,
         \/ type = "customer.subscription.updated" /\ was = shown
         \/ type = "customer.subscription.deleted" /\ was = "canceled",
         billing_!EmitSubscription(type, s, r, shown, was)
  PROVE  \E e : EventOK(e) /\ Len(events) < MaxEvents /\ events' = Append(events, e)
<1> DEFINE e == billing_!Told(type, s, r, shown, was, r.metadata, s, None)
<1>1. Len(events) < MaxEvents /\ events' = Append(events, e)
  BY DEF billing_!EmitSubscription, billing_!Going
<1>2. /\ e.type = type /\ e.status = shown /\ e.metadata = r.metadata /\ e.subscription = s
      /\ e.of = s /\ e.org = r.org /\ e.billed = r.price /\ e.was = was
      /\ e.stamped = r.stamped
  BY DEF billing_!Told
<1> HIDE DEF e
<1>3. EventOK(e)
  BY <1>2 DEF EventOK, StatusEventOK, SubOK
<1>4. QED BY <1>1, <1>3

LEMMA InvoiceEmitted ==
  ASSUME NEW s \in Subs, NEW r, SubOK(r), billing_!EmitInvoice(s, r)
  PROVE  \E e : EventOK(e) /\ Len(events) < MaxEvents /\ events' = Append(events, e)
<1>1. Len(events) < MaxEvents
  BY DEF billing_!EmitInvoice, billing_!Going
<1>2. ASSUME NEW metadata, NEW subscription, NEW line,
             \/ metadata = r.metadata /\ subscription = s /\ line = None
             \/ /\ metadata.org_id = None /\ subscription = None
                /\ line.metadata = r.metadata /\ line.subscription \in {s, None}
      PROVE  EventOK(billing_!Told("invoice.paid", s, r, None, None, metadata, subscription, line))
  <2> DEFINE e == billing_!Told("invoice.paid", s, r, None, None, metadata, subscription, line)
  <2>1. /\ e.type = "invoice.paid" /\ e.metadata = metadata /\ e.subscription = subscription
        /\ e.line = line /\ e.of = s /\ e.org = r.org /\ e.billed = r.price
        /\ e.stamped = r.stamped
    BY DEF billing_!Told
  <2> HIDE DEF e
  <2>2. EventOK(e)
    BY <1>2, <2>1 DEF EventOK, InvoiceOK, SubOK
  <2>3. QED BY <2>2 DEF e
<1>3. CASE events' = Append(events, billing_!Told("invoice.paid", s, r, None, None, r.metadata,
                                                  s, None))
  BY <1>1, <1>2, <1>3
<1>4. ASSUME NEW id \in {s, None},
             events' = Append(events, billing_!Told("invoice.paid", s, r, None, None,
                                        billing_!NoMetadata, None,
                                        [metadata |-> r.metadata, subscription |-> id]))
      PROVE  \E e : EventOK(e) /\ Len(events) < MaxEvents /\ events' = Append(events, e)
  <2> DEFINE line == [metadata |-> r.metadata, subscription |-> id]
  <2>1. line.metadata = r.metadata /\ line.subscription \in {s, None}
    OBVIOUS
  <2>2. billing_!NoMetadata.org_id = None
    BY DEF billing_!NoMetadata
  <2> HIDE DEF line
  <2>3. EventOK(billing_!Told("invoice.paid", s, r, None, None, billing_!NoMetadata, None, line))
    BY <1>2, <2>1, <2>2
  <2>4. QED BY <1>1, <1>4, <2>3 DEF line
<1>5. QED BY <1>3, <1>4 DEF billing_!EmitInvoice

\* A step at Stripe's side keeps the invariant if the subscriptions and the calls in flight
\* stay as they should: the events only grow.
LEMMA StripeSide ==
  ASSUME BillingInv, SubsOK', CallsOK', UNCHANGED <<seen, handler, row, done>>,
         \/ UNCHANGED events
         \/ \E e : EventOK(e) /\ Len(events) < MaxEvents /\ events' = Append(events, e)
  PROVE  BillingInv'
<1>1. IsSeq(events) /\ Len(events) \in 0..MaxEvents /\ \A i \in 1..Len(events) : EventOK(events[i])
  BY DEF BillingInv, EventsOK
<1>2. /\ IsSeq(events') /\ Len(events') \in 0..MaxEvents
      /\ Len(events) <= Len(events')
      /\ \A i \in 1..Len(events) : events'[i] = events[i]
      /\ \A i \in 1..Len(events') : EventOK(events'[i])
  <2>1. CASE UNCHANGED events
    BY <1>1, <2>1
  <2>2. CASE \E e : EventOK(e) /\ Len(events) < MaxEvents /\ events' = Append(events, e)
    <3>1. PICK e : EventOK(e) /\ Len(events) < MaxEvents /\ events' = Append(events, e)
      BY <2>2
    <3>2. /\ IsSeq(events') /\ Len(events) \in Nat /\ Len(events') = Len(events) + 1
          /\ \A i \in 1..Len(events) : events'[i] = events[i]
          /\ events'[Len(events) + 1] = e
      BY <1>1, <3>1, AppendToSeq
    <3>3. MaxEvents \in Nat
      BY BillingAssumption
    <3>4. Len(events') \in 0..MaxEvents /\ Len(events) <= Len(events')
      BY <3>1, <3>2, <3>3
    <3>5. ASSUME NEW i \in 1..Len(events') PROVE EventOK(events'[i])
      <4>1. i \in 1..Len(events) \/ i = Len(events) + 1
        BY <3>2
      <4>2. QED BY <1>1, <3>1, <3>2, <4>1
    <3>6. QED BY <3>2, <3>4, <3>5
  <2>3. QED BY <2>1, <2>2
<1>3. EventsOK'
  BY <1>2 DEF EventsOK
<1>4. ASSUME NEW n \in 1..Len(events) PROVE n \in 1..Len(events')
  BY <1>1, <1>2
<1>5. DeliveriesOK'
  BY <1>4 DEF BillingInv, DeliveriesOK
<1>6. RowsOK'
  <2>1. ASSUME NEW o \in Orgs, row[o] # None PROVE RowOK(o, row[o])'
    <3>1. RowOK(o, row[o])
      BY <2>1 DEF BillingInv, RowsOK
    <3>2. row'[o] = row[o]
      OBVIOUS
    <3>3. events'[row[o].event] = events[row[o].event]
      BY <1>2, <3>1 DEF RowOK
    <3>4. QED BY <1>4, <3>1, <3>2, <3>3 DEF RowOK
  <2>2. QED BY <2>1 DEF BillingInv, RowsOK
<1>7. QED BY <1>3, <1>5, <1>6 DEF BillingInv

\* A subscription that is made, or replaced by a sound one, leaves everything sound.
LEMMA SubReplaced ==
  ASSUME BillingInv, NEW s \in Subs, NEW r, SubOK(r), sub' = [sub EXCEPT ![s] = r]
  PROVE  /\ SubsOK' /\ sub'[s] = r
         /\ stripeCall' = stripeCall => CallsOK'
         /\ \A c \in Actors : stripeCall' = [stripeCall EXCEPT ![c] = None] => CallsOK'
<1>1. /\ sub' = [t \in Subs |-> sub'[t]]
      /\ sub'[s] = r /\ \A t \in Subs : t # s => sub'[t] = sub[t]
  BY DEF BillingInv, SubsOK
<1>2. SubsOK'
  BY <1>1 DEF BillingInv, SubsOK
<1>3. ASSUME NEW c \in Actors, stripeCall'[c] = stripeCall[c], stripeCall[c] # None,
             stripeCall[c].op = "update"
      PROVE  /\ stripeCall[c].sub \in Subs /\ stripeCall[c].tier \in Tiers
             /\ SubOK(sub'[stripeCall[c].sub])
  <2>1. /\ stripeCall[c].sub \in Subs /\ stripeCall[c].tier \in Tiers
        /\ SubOK(sub[stripeCall[c].sub])
    BY <1>3 DEF BillingInv, CallsOK
  <2>2. QED BY <1>1, <2>1
<1>4. ASSUME stripeCall' = stripeCall PROVE CallsOK'
  BY <1>3, <1>4 DEF BillingInv, CallsOK
<1>5. ASSUME NEW d \in Actors, stripeCall' = [stripeCall EXCEPT ![d] = None] PROVE CallsOK'
  <2>1. /\ stripeCall' = [c \in Actors |-> stripeCall'[c]]
        /\ stripeCall'[d] = None /\ \A c \in Actors : c # d => stripeCall'[c] = stripeCall[c]
    BY <1>5 DEF BillingInv, CallsOK
  <2>2. QED BY <1>3, <2>1 DEF CallsOK
<1>6. QED BY <1>1, <1>2, <1>4, <1>5

\* A call that starts or ends, the subscriptions as they are.
LEMMA CallReplaced ==
  ASSUME BillingInv, NEW c \in Actors, NEW v, stripeCall' = [stripeCall EXCEPT ![c] = v],
         sub' = sub,
         v = None \/ v.op # "update"
           \/ (v.sub \in Subs /\ v.tier \in Tiers /\ SubOK(sub[v.sub]))
  PROVE  SubsOK' /\ CallsOK'
<1>1. /\ stripeCall' = [d \in Actors |-> stripeCall'[d]]
      /\ stripeCall'[c] = v /\ \A d \in Actors : d # c => stripeCall'[d] = stripeCall[d]
  BY DEF BillingInv, CallsOK
<1>2. SubsOK'
  BY DEF BillingInv, SubsOK
<1>3. CallsOK'
  BY <1>1 DEF BillingInv, CallsOK
<1>4. QED BY <1>2, <1>3

\* ensure_customer, and a call that starts or fails
LEMMA CallsPreserve ==
  ASSUME BillingInv, NEW c \in Actors,
         \/ \E o \in Orgs : billing_!EnsureCustomer(c, o)
         \/ \E s \in Subs, tier \in Tiers : billing_!UpdateTier(c, s, tier)
         \/ billing_!CreateCustomer(c) \/ billing_!CallFails(c)
  PROVE  BillingInv'
<1>1. ASSUME NEW o \in Orgs, billing_!EnsureCustomer(c, o) PROVE BillingInv'
  <2> DEFINE v == [op |-> "customer", org |-> o]
  <2>1. stripeCall' = [stripeCall EXCEPT ![c] = v] /\ sub' = sub /\ v.op # "update"
    BY <1>1 DEF billing_!EnsureCustomer
  <2>2. SubsOK' /\ CallsOK'
    BY <2>1, CallReplaced
  <2>3. QED BY <1>1, <2>2, StripeSide DEF billing_!EnsureCustomer, billing_!product
<1>2. ASSUME NEW s \in Subs, NEW tier \in Tiers, billing_!UpdateTier(c, s, tier) PROVE BillingInv'
  <2> DEFINE v == [op |-> "update", sub |-> s, tier |-> tier]
  <2>1. stripeCall' = [stripeCall EXCEPT ![c] = v] /\ sub' = sub /\ sub[s] # None
    BY <1>2 DEF billing_!UpdateTier
  <2>2. SubOK(sub[s])
    BY <2>1 DEF BillingInv, SubsOK
  <2>3. v.sub = s /\ v.tier = tier
    OBVIOUS
  <2> HIDE DEF v
  <2>4. SubsOK' /\ CallsOK'
    BY <2>1, <2>2, <2>3, CallReplaced
  <2>5. QED BY <1>2, <2>4, StripeSide DEF billing_!UpdateTier, billing_!product
<1>3. CASE billing_!CreateCustomer(c)
  <2>1. SubsOK' /\ CallsOK'
    BY <1>3, CallReplaced DEF billing_!CreateCustomer
  <2>2. QED BY <1>3, <2>1, StripeSide DEF billing_!CreateCustomer, billing_!product
<1>4. CASE billing_!CallFails(c)
  <2>1. SubsOK' /\ CallsOK'
    BY <1>4, CallReplaced DEF billing_!CallFails
  <2>2. QED BY <1>4, <2>1, StripeSide DEF billing_!CallFails, billing_!product
<1>5. QED BY <1>1, <1>2, <1>3, <1>4

\* Subscriptions are made by create_subscription or by somebody else.
LEMMA CreationsPreserve ==
  ASSUME BillingInv, NEW s \in Subs, NEW o \in Orgs, NEW tier \in Tiers,
         billing_!CreateSubscription(s, o, tier) \/ billing_!MadeElsewhere(s, o, tier)
  PROVE  BillingInv'
<1>1. ASSUME NEW m, NEW stamped, MetadataOK(m, o, tier, stamped),
             sub' = [sub EXCEPT ![s] = [org |-> o, canceled |-> FALSE, price |-> tier,
                                        metadata |-> m, stamped |-> stamped]],
             UNCHANGED <<stripeCall, events, seen, handler, row, done>>
      PROVE  BillingInv'
  <2> DEFINE r == [org |-> o, canceled |-> FALSE, price |-> tier, metadata |-> m,
                   stamped |-> stamped]
  <2>1. SubOK(r)
    BY <1>1 DEF SubOK
  <2> HIDE DEF r
  <2>2. SubsOK' /\ CallsOK'
    BY <1>1, <2>1, SubReplaced DEF r
  <2>3. QED BY <1>1, <2>2, StripeSide
<1>2. CASE billing_!CreateSubscription(s, o, tier)
  <2>1. MetadataOK(billing_!SubscriptionMetadata(o, tier), o, tier, TRUE)
    BY DEF MetadataOK, billing_!SubscriptionMetadata
  <2>2. QED BY <1>1, <1>2, <2>1 DEF billing_!CreateSubscription, billing_!product
<1>3. CASE billing_!MadeElsewhere(s, o, tier)
  <2>1. PICK m \in billing_!ForeignMetadata(o, tier) :
          sub' = [sub EXCEPT ![s] = [org |-> o, canceled |-> FALSE, price |-> tier,
                                     metadata |-> m, stamped |-> FALSE]]
    BY <1>3 DEF billing_!MadeElsewhere
  <2>2. m.org_id \in {o, None} /\ m.tier \in {tier, None, "unknown"}
    BY <2>1 DEF billing_!ForeignMetadata, billing_!SubscriptionMetadata
  <2>3. MetadataOK(m, o, tier, FALSE)
    BY <2>2 DEF MetadataOK
  <2>4. QED BY <1>1, <1>3, <2>1, <2>3 DEF billing_!MadeElsewhere, billing_!product
<1>4. QED BY <1>2, <1>3

\* The fields of a subscription that is cancelled
LEMMA Cancelled ==
  ASSUME NEW q, NEW o, NEW canceled, NEW price, NEW m, NEW stamped,
         q = [org |-> o, canceled |-> canceled, price |-> price, metadata |-> m,
              stamped |-> stamped]
  PROVE  [q EXCEPT !.canceled = TRUE] =
           [org |-> o, canceled |-> TRUE, price |-> price, metadata |-> m, stamped |-> stamped]
<1> DEFINE yes == TRUE
<1> HIDE DEF yes
<1>1. [q EXCEPT !.canceled = yes] =
        [org |-> o, canceled |-> yes, price |-> price, metadata |-> m, stamped |-> stamped]
  OBVIOUS
<1>2. QED BY <1>1, Zenon DEF yes

\* cancel_subscription, and what Stripe does by itself
LEMMA SubscriptionsPreserve ==
  ASSUME BillingInv, NEW s \in Subs,
         billing_!CancelSubscription(s) \/ billing_!StripeActs(s)
  PROVE  BillingInv'
<1>1. sub[s] # None /\ SubOK(sub[s]) /\ sub = [t \in Subs |-> sub[t]]
  BY DEF BillingInv, SubsOK, billing_!CancelSubscription, billing_!StripeActs
<1>2. CASE billing_!CancelSubscription(s)
  <2> DEFINE r == [sub[s] EXCEPT !.canceled = TRUE]
  <2>1. r = [org |-> sub[s].org, canceled |-> TRUE, price |-> sub[s].price,
             metadata |-> sub[s].metadata, stamped |-> sub[s].stamped]
    BY <1>1, Cancelled DEF SubOK
  <2>2. sub' = [sub EXCEPT ![s] = r]
    BY <1>2 DEF billing_!CancelSubscription
  <2> HIDE DEF r
  <2>3. SubOK(r)
    BY <1>1, <2>1 DEF SubOK
  <2>4. stripeCall' = stripeCall /\ UNCHANGED billing_!product
    BY <1>2 DEF billing_!CancelSubscription
  <2>5. SubsOK' /\ CallsOK' /\ sub'[s] = r
    BY <2>2, <2>3, <2>4, SubReplaced
  <2>6. PICK shown : billing_!EmitSubscription("customer.subscription.deleted", s, r, shown,
                                               "canceled")
    BY <1>2, <2>5 DEF billing_!CancelSubscription
  <2>7. \E e : EventOK(e) /\ Len(events) < MaxEvents /\ events' = Append(events, e)
    BY <2>3, <2>6, StatusEmitted
  <2>8. QED BY <2>4, <2>5, <2>7, StripeSide DEF billing_!product
<1>3. CASE billing_!StripeActs(s)
  <2>1. UNCHANGED <<sub, stripeCall>> /\ UNCHANGED billing_!product
    BY <1>3 DEF billing_!StripeActs
  <2>2. \/ \E status : billing_!EmitSubscription("customer.subscription.updated", s, sub[s],
                                                 status, status)
        \/ billing_!EmitInvoice(s, sub[s])
    BY <1>3 DEF billing_!StripeActs
  <2>3. \E e : EventOK(e) /\ Len(events) < MaxEvents /\ events' = Append(events, e)
    BY <1>1, <2>2, StatusEmitted, InvoiceEmitted
  <2>4. SubsOK' /\ CallsOK'
    BY <2>1 DEF BillingInv, SubsOK, CallsOK
  <2>5. QED BY <2>1, <2>3, <2>4, StripeSide DEF billing_!product
<1>4. QED BY <1>2, <1>3

\* The rest of update_tier: the price changes together with the metadata.
LEMMA FinishUpdatePreserves ==
  ASSUME BillingInv, NEW c \in Actors, billing_!FinishUpdate(c)
  PROVE  BillingInv'
<1> DEFINE s == stripeCall[c].sub
           tier == stripeCall[c].tier
           r == billing_!Updated(sub[s], tier)
<1>1. /\ stripeCall[c] # None /\ stripeCall[c].op = "update"
      /\ stripeCall' = [stripeCall EXCEPT ![c] = None]
  BY DEF billing_!FinishUpdate
<1>2. s \in Subs /\ tier \in Tiers /\ SubOK(sub[s]) /\ sub = [t \in Subs |-> sub[t]]
  BY <1>1 DEF BillingInv, CallsOK, SubsOK
<1>3. UNCHANGED <<seen, handler, row, done>>
  BY DEF billing_!FinishUpdate, billing_!product
<1>4. CASE ~sub[s].canceled
  <2>1. /\ sub' = [sub EXCEPT ![s] = r]
        /\ \E status \in Statuses :
              billing_!EmitSubscription("customer.subscription.updated", s, sub'[s], status, status)
    BY <1>4 DEF billing_!FinishUpdate
  <2>2. r = [org |-> sub[s].org, canceled |-> sub[s].canceled, price |-> tier,
             metadata |-> billing_!SubscriptionMetadata(sub[s].org, tier), stamped |-> TRUE]
    BY DEF billing_!Updated
  <2> HIDE DEF r, tier, s
  <2>3. SubOK(r)
    <3>1. MetadataOK(billing_!SubscriptionMetadata(sub[s].org, tier), sub[s].org, tier, TRUE)
      BY DEF MetadataOK, billing_!SubscriptionMetadata
    <3>2. QED BY <1>2, <2>2, <3>1 DEF SubOK
  <2>4. SubsOK' /\ CallsOK' /\ sub'[s] = r
    BY <1>1, <1>2, <2>1, <2>3, SubReplaced
  <2>5. \E e : EventOK(e) /\ Len(events) < MaxEvents /\ events' = Append(events, e)
    BY <1>2, <2>1, <2>3, <2>4, StatusEmitted
  <2>6. QED BY <1>3, <2>4, <2>5, StripeSide
<1>5. CASE sub[s].canceled
  <2>1. UNCHANGED <<sub, events>>
    BY <1>5 DEF billing_!FinishUpdate
  <2>2. SubsOK' /\ CallsOK'
    BY <1>1, <2>1, CallReplaced
  <2>3. QED BY <1>3, <2>1, <2>2, StripeSide
<1>6. QED BY <1>4, <1>5

LEMMA OtherServicePreserves ==
  ASSUME BillingInv, billing_!OtherServiceActs
  PROVE  BillingInv'
<1>1. EventOK([type |-> "push"])
  BY DEF EventOK
<1>2. \E e : EventOK(e) /\ Len(events) < MaxEvents /\ events' = Append(events, e)
  BY <1>1 DEF billing_!OtherServiceActs, billing_!Going
<1>3. UNCHANGED <<sub, stripeCall, seen, handler, row, done>>
  BY DEF billing_!OtherServiceActs, billing_!product
<1>4. SubsOK' /\ CallsOK'
  BY <1>3 DEF BillingInv, SubsOK, CallsOK
<1>5. QED BY <1>2, <1>3, <1>4, StripeSide

\* What the handler's steps leave alone
LEMMA StripeUnchanged ==
  ASSUME BillingInv, UNCHANGED billing_!stripe
  PROVE  SubsOK' /\ CallsOK' /\ EventsOK' /\ events' = events
<1>1. UNCHANGED <<sub, stripeCall, events>>
  BY DEF billing_!stripe
<1>2. SubsOK' /\ CallsOK'
  BY <1>1 DEF BillingInv, SubsOK, CallsOK
<1>3. EventsOK'
  BY <1>1 DEF BillingInv, EventsOK
<1>4. QED BY <1>1, <1>2, <1>3

LEMMA RowsUnchanged ==
  ASSUME BillingInv, events' = events, row' = row
  PROVE  RowsOK'
  BY DEF BillingInv, RowsOK, RowOK

LEMMA ArrivePreserves ==
  ASSUME BillingInv, NEW h \in Actors, NEW e \in 1..MaxEvents, billing_!Arrive(h, e)
  PROVE  BillingInv'
<1>1. /\ handler' = [handler EXCEPT ![h] = [phase |-> "unseen", event |-> e]]
      /\ UNCHANGED <<events, seen, row, done>> /\ e <= Len(events)
  BY DEF billing_!Arrive, billing_!stripe
<1>2. e \in 1..Len(events)
  <2>1. MaxEvents \in Nat /\ Len(events) \in 0..MaxEvents
    BY BillingAssumption DEF BillingInv, EventsOK
  <2>2. QED BY <1>1, <2>1
<1>3. /\ handler' = [k \in Actors |-> handler'[k]]
      /\ handler'[h] = [phase |-> "unseen", event |-> e]
      /\ \A k \in Actors : k # h => handler'[k] = handler[k]
  BY <1>1 DEF BillingInv, DeliveriesOK
<1>4. /\ handler'[h].phase = "unseen" /\ handler'[h].event = e
      /\ handler'[h] = [phase |-> handler'[h].phase, event |-> handler'[h].event]
  BY <1>3
<1>5. DeliveriesOK'
  BY <1>1, <1>2, <1>3, <1>4 DEF BillingInv, DeliveriesOK
<1>6. SubsOK' /\ CallsOK' /\ EventsOK' /\ RowsOK'
  BY StripeUnchanged, RowsUnchanged, <1>1 DEF billing_!Arrive
<1>7. QED BY <1>5, <1>6 DEF BillingInv

\* record decides: of several requests for one event one goes on.
LEMMA RecordPreserves ==
  ASSUME BillingInv, NEW h \in Actors, billing_!Record(h)
  PROVE  BillingInv'
<1> DEFINE e == handler[h].event
<1>1. /\ handler[h].phase = "unseen" /\ seen' = seen \cup {e}
      /\ UNCHANGED <<events, row, done>>
  BY DEF billing_!Record, billing_!stripe
<1>2. e \in 1..Len(events) /\ handler[h] = [phase |-> handler[h].phase, event |-> e]
  BY <1>1 DEF BillingInv, DeliveriesOK
<1>3. e \in 1..MaxEvents
  <2>1. MaxEvents \in Nat /\ Len(events) \in 0..MaxEvents
    BY BillingAssumption DEF BillingInv, EventsOK
  <2>2. QED BY <1>2, <2>1
<1>4. /\ handler' = [k \in Actors |-> handler'[k]]
      /\ \A k \in Actors : k # h => handler'[k] = handler[k]
  BY DEF BillingInv, DeliveriesOK, billing_!Record
<1>5. handler'[h] = IF e \notin seen THEN [phase |-> "recorded", event |-> e] ELSE billing_!Idle
  BY <1>2 DEF BillingInv, DeliveriesOK, billing_!Record, billing_!NewlyInserted
<1> HIDE DEF e
<1>6. /\ handler'[h] = [phase |-> handler'[h].phase, event |-> handler'[h].event]
      /\ \/ e \notin seen /\ handler'[h].phase = "recorded" /\ handler'[h].event = e
         \/ handler'[h].phase = "idle"
  BY <1>5 DEF billing_!Idle
<1>7. e \notin seen => done[e] = 0
  BY <1>3 DEF BillingInv, DeliveriesOK
<1>8. \A k \in Actors : handler[k].phase = "recorded" => handler[k].event \in seen
  BY DEF BillingInv, DeliveriesOK
<1>9. DeliveriesOK'
  <2>1. /\ done' \in [1..MaxEvents -> {0, 1}] /\ \A i \in 1..MaxEvents : done'[i] = 1 => i \in seen'
    BY <1>1 DEF BillingInv, DeliveriesOK
  <2>2. ASSUME NEW k \in Actors
        PROVE  /\ handler'[k] = [phase |-> handler'[k].phase, event |-> handler'[k].event]
               /\ handler'[k].phase # "idle" => handler'[k].event \in 1..Len(events')
               /\ handler'[k].phase = "recorded" =>
                     handler'[k].event \in seen' /\ done'[handler'[k].event] = 0
    <3>1. CASE k = h
      BY <1>1, <1>2, <1>6, <1>7, <3>1
    <3>2. CASE k # h
      BY <1>1, <1>4, <3>2 DEF BillingInv, DeliveriesOK
    <3>3. QED BY <3>1, <3>2
  <2>3. ASSUME NEW k \in Actors, NEW l \in Actors, handler'[k].phase = "recorded",
               handler'[l].phase = "recorded", handler'[k].event = handler'[l].event
        PROVE  k = l
    BY <1>4, <1>6, <1>8, <2>3 DEF BillingInv, DeliveriesOK
  <2>4. QED BY <1>4, <2>1, <2>2, <2>3 DEF DeliveriesOK
<1>10. SubsOK' /\ CallsOK' /\ EventsOK' /\ RowsOK'
  BY StripeUnchanged, RowsUnchanged, <1>1 DEF billing_!Record
<1>11. QED BY <1>9, <1>10 DEF BillingInv

\* The one request that goes on processes an event that was not processed before, and stores
\* what it told.
LEMMA ProcessPreserves ==
  ASSUME BillingInv, NEW h \in Actors, billing_!Process(h)
  PROVE  BillingInv'
<1> DEFINE e == handler[h].event
           change == billing_!ParseEvent(events[e])
<1>1. /\ handler[h].phase = "recorded" /\ done' = [done EXCEPT ![e] = @ + 1]
      /\ row' = IF change.kind # "change" THEN row
                ELSE [row EXCEPT ![change.org] = [change |-> change, event |-> e]]
      /\ handler' = [handler EXCEPT ![h] = billing_!Idle] /\ UNCHANGED <<events, seen>>
  BY DEF billing_!Process, billing_!stripe
<1>2. e \in 1..Len(events) /\ e \in seen /\ done[e] = 0
  BY <1>1 DEF BillingInv, DeliveriesOK
<1>3. e \in 1..MaxEvents
  <2>1. MaxEvents \in Nat /\ Len(events) \in 0..MaxEvents
    BY BillingAssumption DEF BillingInv, EventsOK
  <2>2. QED BY <1>2, <2>1
<1>4. SubsOK' /\ CallsOK' /\ EventsOK'
  BY StripeUnchanged DEF billing_!Process
<1>5. RowsOK'
  <2>1. CASE change.kind # "change"
    BY <1>1, <2>1, RowsUnchanged
  <2>2. CASE change.kind = "change"
    <3>1. EventOK(events[e])
      BY <1>2 DEF BillingInv, EventsOK
    <3>2. ChangeOK(change, events[e]) /\ change.org \in Orgs
      BY <2>2, <3>1, ParsedChange DEF ChangeOK
    <3> DEFINE r == [change |-> change, event |-> e]
    <3>3. r.change = change /\ r.event = e
      OBVIOUS
    <3>4. row' = [row EXCEPT ![change.org] = r]
      BY <1>1, <2>2
    <3> HIDE DEF e, change, r
    <3>5. RowOK(change.org, r)
      BY <1>2, <3>2, <3>3 DEF RowOK
    <3>6. /\ row' = [o \in Orgs |-> row'[o]] /\ row'[change.org] = r
          /\ \A o \in Orgs : o # change.org => row'[o] = row[o]
      BY <3>2, <3>4 DEF BillingInv, RowsOK
    <3>7. ASSUME NEW o \in Orgs, row'[o] # None PROVE RowOK(o, row[o])'
      <4>1. RowOK(o, row'[o])
        BY <3>5, <3>6, <3>7 DEF BillingInv, RowsOK
      <4>2. QED BY <1>1, <4>1 DEF RowOK
    <3>8. QED BY <3>6, <3>7 DEF RowsOK
  <2>3. QED BY <2>1, <2>2
<1>6. DeliveriesOK'
  <2>1. /\ handler' = [k \in Actors |-> handler'[k]]
        /\ handler'[h] = billing_!Idle /\ \A k \in Actors : k # h => handler'[k] = handler[k]
    BY <1>1 DEF BillingInv, DeliveriesOK
  <2>2. /\ done' \in [1..MaxEvents -> {0, 1}] /\ done'[e] = 1
        /\ \A i \in 1..MaxEvents : i # e => done'[i] = done[i]
    BY <1>1, <1>2, <1>3 DEF BillingInv, DeliveriesOK
  <2>3. handler'[h].phase = "idle" /\ handler'[h] = [phase |-> handler'[h].phase,
                                                     event |-> handler'[h].event]
    BY <2>1 DEF billing_!Idle
  <2>4. \A i \in 1..MaxEvents : done'[i] = 1 => i \in seen'
    BY <1>1, <1>2, <2>2 DEF BillingInv, DeliveriesOK
  <2>5. ASSUME NEW k \in Actors, k # h
        PROVE  /\ handler'[k] = [phase |-> handler'[k].phase, event |-> handler'[k].event]
               /\ handler'[k].phase # "idle" => handler'[k].event \in 1..Len(events')
               /\ handler'[k].phase = "recorded" =>
                     handler'[k].event \in seen' /\ done'[handler'[k].event] = 0
    <3>1. handler'[k] = handler[k] /\ events' = events /\ seen' = seen
      BY <1>1, <2>1, <2>5
    <3>2. ASSUME handler[k].phase = "recorded" PROVE done'[handler[k].event] = 0
      <4>1. handler[k].event # e /\ done[handler[k].event] = 0
        BY <1>1, <2>5, <3>2 DEF BillingInv, DeliveriesOK
      <4>2. handler[k].event \in 1..MaxEvents
        <5>1. MaxEvents \in Nat /\ Len(events) \in 0..MaxEvents
          BY BillingAssumption DEF BillingInv, EventsOK
        <5>2. handler[k].event \in 1..Len(events)
          BY <3>2 DEF BillingInv, DeliveriesOK
        <5>3. QED BY <5>1, <5>2
      <4>3. QED BY <2>2, <4>1, <4>2
    <3>3. QED BY <3>1, <3>2 DEF BillingInv, DeliveriesOK
  <2>6. ASSUME NEW k \in Actors, NEW l \in Actors, handler'[k].phase = "recorded",
               handler'[l].phase = "recorded", handler'[k].event = handler'[l].event
        PROVE  k = l
    BY <2>1, <2>3, <2>6 DEF BillingInv, DeliveriesOK
  <2>7. QED BY <2>1, <2>2, <2>3, <2>4, <2>5, <2>6 DEF DeliveriesOK
<1>7. QED BY <1>4, <1>5, <1>6 DEF BillingInv

LEMMA RestartPreserves ==
  ASSUME BillingInv, billing_!Restart
  PROVE  BillingInv'
<1>1. DeliveriesOK'
  BY DEF DeliveriesOK, billing_!Restart, billing_!Idle
<1>2. SubsOK' /\ CallsOK' /\ EventsOK' /\ RowsOK'
  BY StripeUnchanged, RowsUnchanged DEF billing_!Restart
<1>3. QED BY <1>1, <1>2 DEF BillingInv

LEMMA BillingInductive == BillingInv /\ billing_!Next => BillingInv'
<1> SUFFICES ASSUME BillingInv, billing_!Next PROVE BillingInv'
  OBVIOUS
<1>1. CASE \E c \in Actors :
             \/ \E o \in Orgs : billing_!EnsureCustomer(c, o)
             \/ \E s \in Subs, tier \in Tiers : billing_!UpdateTier(c, s, tier)
             \/ billing_!CreateCustomer(c) \/ billing_!CallFails(c)
  BY <1>1, CallsPreserve
<1>2. CASE \E c \in Actors : billing_!FinishUpdate(c)
  BY <1>2, FinishUpdatePreserves
<1>3. CASE \E s \in Subs :
             \/ \E o \in Orgs, tier \in Tiers :
                   billing_!CreateSubscription(s, o, tier) \/ billing_!MadeElsewhere(s, o, tier)
             \/ billing_!CancelSubscription(s) \/ billing_!StripeActs(s)
  BY <1>3, CreationsPreserve, SubscriptionsPreserve
<1>4. CASE \E h \in Actors, e \in 1..MaxEvents : billing_!Arrive(h, e)
  BY <1>4, ArrivePreserves
<1>5. CASE \E h \in Actors : billing_!Record(h) \/ billing_!Process(h)
  BY <1>5, RecordPreserves, ProcessPreserves
<1>6. CASE billing_!OtherServiceActs \/ billing_!Restart
  BY <1>6, OtherServicePreserves, RestartPreserves
<1>7. QED BY <1>1, <1>2, <1>3, <1>4, <1>5, <1>6 DEF billing_!Next

LEMMA BillingPreserved == BillingInv /\ [EdgeNext]_edgeVars => BillingInv'
<1> SUFFICES ASSUME BillingInv, [EdgeNext]_edgeVars PROVE BillingInv'
  OBVIOUS
<1>1. CASE BillingStep
  BY <1>1, BillingInductive DEF BillingStep
<1>2. CASE UNCHANGED billingVars
  <2>1. SubsOK' /\ CallsOK' /\ EventsOK' /\ events' = events
    BY <1>2, StripeUnchanged DEF billingVars, billing_!stripe
  <2>2. DeliveriesOK' /\ RowsOK'
    BY <1>2, RowsUnchanged DEF billingVars, BillingInv, DeliveriesOK
  <2>3. QED BY <2>1, <2>2 DEF BillingInv
<1>3. QED
  BY <1>1, <1>2 DEF EdgeNext, edgeVars, LimiterStep, HttpStep, ScopesStep, VersionsStep,
                    PoolStep

\* webhooks/lib.rs:3-6, 138-147: however many requests deliver an event, and however they
\* overlap, one process processes it once.
THEOREM DeliveriesCorrect == EdgeSpec => []ProcessedOnce
<1>1. EdgeInit => BillingInv
  BY BillingInitially DEF EdgeInit
<1>2. BillingInv => ProcessedOnce
  <2> SUFFICES ASSUME BillingInv, NEW e \in 1..MaxEvents PROVE done[e] <= 1
    BY DEF ProcessedOnce, billing_!ProcessedOnce
  <2>1. done[e] \in {0, 1}
    BY DEF BillingInv, DeliveriesOK
  <2>2. QED BY <2>1
<1>3. QED BY <1>1, <1>2, BillingPreserved, PTL DEF EdgeSpec

\* client.rs:84-86, 137-141, events.rs:27-31, 102-171: for any orgs, subscriptions, callers
\* and statuses, a stored change is of the org and subscription of its event, names the tier
\* billed when the event was emitted or no paid one, and entitles nobody whose subscription
\* did not.
THEOREM BilledCorrect == EdgeSpec => []ChangesTellWhatIsBilled
<1>1. EdgeInit => BillingInv
  BY BillingInitially DEF EdgeInit
<1>2. BillingInv => ChangesTellWhatIsBilled
  <2> SUFFICES ASSUME BillingInv PROVE billing_!ChangesTellWhatIsBilled
    BY DEF ChangesTellWhatIsBilled
  <2>1. ASSUME NEW o \in Orgs, row[o] # None PROVE RowOK(o, row[o])
    BY <2>1 DEF BillingInv, RowsOK
  <2>2. QED BY <2>1 DEF billing_!ChangesTellWhatIsBilled, RowOK, ChangeOK
<1>3. QED BY <1>1, <1>2, BillingPreserved, PTL DEF EdgeSpec

-----------------------------------------------------------------------------
(***************************************************************************)
(* CachePool: URLs are sequences of characters; where their parts begin    *)
(* and end is known exactly, whatever the password.                        *)
(***************************************************************************)

\* The part before the first of some characters.
LEMMA BeforeFirst ==
  ASSUME NEW s, IsSeq(s), NEW cs, NEW k \in 1..Len(s), s[k] \in cs,
         \A j \in 1..Len(s) : j < k => s[j] \notin cs
  PROVE  pool_!Before(s, cs) = SubSeq(s, 1, k - 1)
<1> DEFINE P == pool_!Places(s, cs)
<1>1. k \in P /\ \A j \in P : j \in 1..Len(s) /\ s[j] \in cs
  BY DEF pool_!Places
<1>2. Len(s) \in Nat
  BY DEF IsSeq
<1>3. \A j \in P : k <= j
  BY <1>1, <1>2
<1>4. \A i \in P : (\A j \in P : i <= j) => i = k
  BY <1>1, <1>2, <1>3
<1> HIDE DEF P
<1>5. (CHOOSE i \in P : \A j \in P : i <= j) = k
  BY <1>1, <1>3, <1>4
<1>6. P # {}
  BY <1>1
<1>7. QED BY <1>5, <1>6 DEF pool_!Before, P

LEMMA BeforeNone ==
  ASSUME NEW s, NEW cs, \A j \in 1..Len(s) : s[j] \notin cs
  PROVE  pool_!Before(s, cs) = s
  BY DEF pool_!Before, pool_!Places

LEMMA LastAtIs ==
  ASSUME NEW s, IsSeq(s), NEW k \in 1..Len(s), s[k] = "@",
         \A j \in 1..Len(s) : k < j => s[j] # "@"
  PROVE  pool_!LastAt(s) = k /\ "@" \in pool_!Range(s)
<1> DEFINE P == pool_!Places(s, {"@"})
<1>1. k \in P /\ \A j \in P : j \in 1..Len(s) /\ s[j] = "@"
  BY DEF pool_!Places
<1>2. Len(s) \in Nat /\ DOMAIN s = 1..Len(s)
  BY DEF IsSeq
<1>3. \A j \in P : j <= k
  BY <1>1, <1>2
<1>4. \A i \in P : (\A j \in P : j <= i) => i = k
  BY <1>1, <1>2, <1>3
<1> HIDE DEF P
<1>5. (CHOOSE i \in P : \A j \in P : j <= i) = k
  BY <1>1, <1>3, <1>4
<1>6. "@" \in pool_!Range(s)
  BY <1>2 DEF pool_!Range
<1>7. QED BY <1>5, <1>6 DEF pool_!LastAt, P

\* A part of a sequence.
LEMMA PartOf ==
  ASSUME NEW s, IsSeq(s), NEW i \in Nat, NEW k \in Nat, 1 <= i, i <= k + 1, k <= Len(s)
  PROVE  /\ IsSeq(SubSeq(s, i, k)) /\ Len(SubSeq(s, i, k)) = k + 1 - i
         /\ \A j \in 1..(k + 1 - i) : SubSeq(s, i, k)[j] = s[i + j - 1]
<1>1. PICK S : s \in Seq(S)
  BY DEF IsSeq
<1>2. ASSUME NEW T, NEW t \in Seq(T), NEW a \in Nat, NEW b \in Nat, 1 <= a, a <= b + 1, b <= Len(t)
      PROVE  /\ SubSeq(t, a, b) \in Seq(T) /\ Len(SubSeq(t, a, b)) = b + 1 - a
             /\ \A j \in 1..(b + 1 - a) : SubSeq(t, a, b)[j] = t[a + j - 1]
  BY <1>2
<1>3. QED BY <1>1, <1>2 DEF IsSeq

\* Two sequences that agree everywhere are one.
LEMMA SameSeq ==
  ASSUME NEW s, NEW t, IsSeq(s), IsSeq(t), Len(s) = Len(t), \A i \in 1..Len(s) : s[i] = t[i]
  PROVE  s = t
<1>1. PICK S : s \in Seq(S)
  BY DEF IsSeq
<1>2. PICK T : t \in Seq(T)
  BY DEF IsSeq
<1>3. DOMAIN s = 1..Len(s) /\ DOMAIN t = 1..Len(s)
  BY <1>1, <1>2
<1>4. s = [i \in DOMAIN s |-> s[i]] /\ t = [i \in DOMAIN t |-> t[i]]
  BY <1>1, <1>2
<1>5. QED BY <1>3, <1>4

LEMMA Joined ==
  ASSUME NEW s, NEW t, IsSeq(s), IsSeq(t)
  PROVE  /\ IsSeq(s \o t) /\ Len(s \o t) = Len(s) + Len(t) /\ Len(s) \in Nat /\ Len(t) \in Nat
         /\ \A i \in 1..Len(s) : (s \o t)[i] = s[i]
         /\ \A i \in 1..Len(t) : (s \o t)[Len(s) + i] = t[i]
<1>1. PICK S : s \in Seq(S)
  BY DEF IsSeq
<1>2. PICK T : t \in Seq(T)
  BY DEF IsSeq
<1>3. s \in Seq(S \cup T) /\ t \in Seq(S \cup T)
  BY <1>1, <1>2
<1>4. ASSUME NEW U, NEW a \in Seq(U), NEW b \in Seq(U)
      PROVE  /\ a \o b \in Seq(U) /\ Len(a \o b) = Len(a) + Len(b)
             /\ Len(a) \in Nat /\ Len(b) \in Nat
             /\ \A i \in 1..Len(a) : (a \o b)[i] = a[i]
             /\ \A i \in 1..Len(b) : (a \o b)[Len(a) + i] = b[i]
  OBVIOUS
<1>5. QED BY <1>3, <1>4 DEF IsSeq

LEMMA OneElement ==
  ASSUME NEW e
  PROVE  IsSeq(<<e>>) /\ Len(<<e>>) = 1 /\ <<e>>[1] = e
<1>1. <<e>> \in Seq({e}) /\ Len(<<e>>) = 1 /\ <<e>>[1] = e
  OBVIOUS
<1>2. QED BY <1>1 DEF IsSeq

LEMMA JoinedOne ==
  ASSUME NEW s, IsSeq(s), NEW e
  PROVE  /\ IsSeq(s \o <<e>>) /\ Len(s \o <<e>>) = Len(s) + 1
         /\ \A i \in 1..Len(s) : (s \o <<e>>)[i] = s[i]
         /\ (s \o <<e>>)[Len(s) + 1] = e
<1> DEFINE t == <<e>>
<1>1. IsSeq(t) /\ Len(t) = 1 /\ t[1] = e
  BY OneElement
<1> HIDE DEF t
<1>2. 1 \in 1..Len(t)
  BY <1>1
<1>3. QED BY <1>1, <1>2, Joined DEF t

\* The first k elements.
LEMMA FirstOf ==
  ASSUME NEW s, IsSeq(s), NEW k \in Nat, k <= Len(s)
  PROVE  /\ IsSeq(SubSeq(s, 1, k)) /\ Len(SubSeq(s, 1, k)) = k
         /\ \A j \in 1..k : SubSeq(s, 1, k)[j] = s[j]
         /\ k = Len(s) => SubSeq(s, 1, k) = s
<1> DEFINE t == SubSeq(s, 1, k)
<1>1. k + 1 - 1 = k /\ 1 <= k + 1 /\ \A j \in 1..k : 1 + j - 1 = j
  OBVIOUS
<1>2. IsSeq(t) /\ Len(t) = k + 1 - 1 /\ \A j \in 1..(k + 1 - 1) : t[j] = s[1 + j - 1]
  BY PartOf
<1> HIDE DEF t
<1>3. IsSeq(t) /\ Len(t) = k /\ \A j \in 1..k : t[j] = s[j]
  BY <1>1, <1>2
<1>4. k = Len(s) => t = s
  BY <1>3, SameSeq
<1>5. QED BY <1>3, <1>4 DEF t

\* The tail of a URL starts outside the authority, and an @ in it is behind a ?.
LEMMA TailFacts ==
  ASSUME NEW tail \in pool_!Tails
  PROVE  /\ IsSeq(tail) /\ Len(tail) \in Nat
         /\ tail = <<>> \/ (Len(tail) >= 1 /\ tail[1] \in {"/", "?"})
         /\ \/ \A j \in 1..Len(tail) : tail[j] \notin {"?", "@"}
            \/ Len(tail) >= 1 /\ tail[1] = "?"
<1>1. CASE tail = <<>>
  BY <1>1 DEF IsSeq
<1>2. CASE tail = <<"/", "0">>
  <2>1. tail \in Seq({"/", "0"}) /\ Len(tail) = 2 /\ tail[1] = "/" /\ tail[2] = "0"
    BY <1>2
  <2>2. QED BY <2>1 DEF IsSeq
<1>3. CASE tail = <<"?", "n", "=", "@">>
  <2>1. tail \in Seq({"?", "n", "=", "@"}) /\ Len(tail) = 4 /\ tail[1] = "?"
    BY <1>3
  <2>2. QED BY <2>1 DEF IsSeq
<1>4. QED BY <1>1, <1>2, <1>3 DEF pool_!Tails

LEMMA PasswordFacts ==
  ASSUME NEW p \in pool_!Passwords
  PROVE  /\ IsSeq(p) /\ Len(p) \in Nat /\ Len(p) >= 1 /\ DOMAIN p = 1..Len(p)
         /\ p = [i \in 1..Len(p) |-> p[i]]
         /\ \A i \in 1..Len(p) : p[i] \in {"x"} \cup pool_!Reserved
<1>1. PICK n \in 1..MaxPassword : p \in [1..n -> {"x"} \cup pool_!Reserved]
  BY DEF pool_!Passwords
<1>2. n \in Nat /\ n >= 1
  BY <1>1, PoolAssumption
<1>3. p \in Seq({"x"} \cup pool_!Reserved) /\ Len(p) = n
  BY <1>1, <1>2
<1>4. QED BY <1>1, <1>2, <1>3 DEF IsSeq

\* u is the URL :p@h with a tail.
Carries(u, p, tail) ==
    /\ IsSeq(u) /\ Len(u) = Len(p) + 3 + Len(tail)
    /\ u[1] = ":" /\ \A i \in 1..Len(p) : u[i + 1] = p[i]
    /\ u[Len(p) + 2] = "@" /\ u[Len(p) + 3] = "h"
    /\ \A j \in 1..Len(tail) : u[Len(p) + 3 + j] = tail[j]

LEMMA CarriesUrl ==
  ASSUME NEW p, IsSeq(p), NEW tail, IsSeq(tail)
  PROVE  Carries((<<":">> \o p \o <<"@">>) \o pool_!Host \o tail, p, tail)
<1> DEFINE a == <<":">> \o p
           b == a \o <<"@">>
           h == b \o pool_!Host
           u == h \o tail
<1>1. IsSeq(<<":">>) /\ Len(<<":">>) = 1 /\ <<":">>[1] = ":"
  BY OneElement
<1>2. Len(p) \in Nat /\ Len(tail) \in Nat
  BY DEF IsSeq
<1>3. /\ IsSeq(a) /\ Len(a) = 1 + Len(p) /\ a[1] = ":" /\ \A i \in 1..Len(p) : a[1 + i] = p[i]
  BY <1>1, Joined
<1> HIDE DEF a
<1>4. /\ IsSeq(b) /\ Len(b) = Len(a) + 1 /\ \A i \in 1..Len(a) : b[i] = a[i]
      /\ b[Len(a) + 1] = "@"
  BY <1>3, JoinedOne
<1> HIDE DEF b
<1>5. /\ IsSeq(h) /\ Len(h) = Len(b) + 1 /\ \A i \in 1..Len(b) : h[i] = b[i]
      /\ h[Len(b) + 1] = "h"
  BY <1>4, JoinedOne DEF pool_!Host
<1> HIDE DEF h
<1>6. /\ IsSeq(u) /\ Len(u) = Len(h) + Len(tail) /\ \A i \in 1..Len(h) : u[i] = h[i]
      /\ \A i \in 1..Len(tail) : u[Len(h) + i] = tail[i]
  BY <1>5, Joined
<1> HIDE DEF u
<1>7. Len(a) = Len(p) + 1 /\ Len(b) = Len(p) + 2 /\ Len(h) = Len(p) + 3
  BY <1>2, <1>3, <1>4, <1>5
<1>8. Carries(u, p, tail)
  <2>1. Len(u) = Len(p) + 3 + Len(tail)
    BY <1>2, <1>6, <1>7
  <2>2. u[1] = ":"
    BY <1>2, <1>3, <1>4, <1>5, <1>6, <1>7
  <2>3. ASSUME NEW i \in 1..Len(p) PROVE u[i + 1] = p[i]
    <3>1. i + 1 \in 1..Len(a) /\ i + 1 \in 1..Len(b) /\ i + 1 \in 1..Len(h) /\ i + 1 = 1 + i
      BY <1>2, <1>7
    <3>2. QED BY <1>3, <1>4, <1>5, <1>6, <3>1
  <2>4. u[Len(p) + 2] = "@"
    <3>1. Len(p) + 2 \in 1..Len(b) /\ Len(p) + 2 \in 1..Len(h) /\ Len(p) + 2 = Len(a) + 1
      BY <1>2, <1>7
    <3>2. QED BY <1>4, <1>5, <1>6, <3>1
  <2>5. u[Len(p) + 3] = "h"
    <3>1. Len(p) + 3 \in 1..Len(h) /\ Len(p) + 3 = Len(b) + 1
      BY <1>2, <1>7
    <3>2. QED BY <1>5, <1>6, <3>1
  <2>6. QED BY <1>6, <1>7, <2>1, <2>2, <2>3, <2>4, <2>5 DEF Carries
<1>9. QED BY <1>8 DEF u, h, b, a

\* The last @ before any ? ends the password.
LEMMA UserinfoEnds ==
  ASSUME NEW p, IsSeq(p), NEW tail \in pool_!Tails, NEW u, Carries(u, p, tail),
         \A i \in 1..Len(p) : p[i] # "?"
  PROVE  LET bound == pool_!Before(u, {"?"})
         IN  "@" \in pool_!Range(bound) /\ pool_!LastAt(bound) = Len(p) + 2
<1> DEFINE bound == pool_!Before(u, {"?"})
           n == Len(p)
<1>1. /\ n \in Nat /\ Len(tail) \in Nat /\ IsSeq(u) /\ Len(u) = n + 3 + Len(tail)
      /\ u[1] = ":" /\ u[n + 2] = "@" /\ u[n + 3] = "h"
  BY TailFacts DEF IsSeq, Carries
<1>2. \A i \in 1..(n + 3) : u[i] # "?"
  <2>1. ASSUME NEW i \in 1..(n + 3) PROVE u[i] # "?"
    <3>1. i = 1 \/ i = n + 2 \/ i = n + 3 \/ \E k \in 1..n : i = k + 1
      <4>1. i = 1 \/ i = n + 2 \/ i = n + 3 \/ i - 1 \in 1..n
        BY <1>1
      <4>2. i = (i - 1) + 1
        BY <1>1
      <4>3. QED BY <4>1, <4>2
    <3>2. QED BY <1>1, <3>1 DEF Carries
  <2>2. QED BY <2>1
<1>3. \E m \in Nat : /\ n + 3 <= m /\ m <= Len(u) /\ bound = SubSeq(u, 1, m)
                     /\ \A j \in (n + 3)..m : u[j] # "@"
  <2>1. CASE \A j \in 1..Len(tail) : tail[j] \notin {"?", "@"}
    <3>1. ASSUME NEW i \in 1..Len(u), i > n + 3 PROVE u[i] \notin {"?", "@"}
      <4>1. i - (n + 3) \in 1..Len(tail) /\ i = n + 3 + (i - (n + 3))
        BY <1>1, <3>1
      <4>2. u[i] = tail[i - (n + 3)]
        BY <4>1 DEF Carries
      <4>3. QED BY <2>1, <4>1, <4>2
    <3>2. \A i \in 1..Len(u) : u[i] \notin {"?"}
      BY <1>1, <1>2, <3>1
    <3>3. bound = u
      BY <3>2, BeforeNone
    <3>4. SubSeq(u, 1, Len(u)) = u
      BY <1>1, FirstOf
    <3>5. \A j \in (n + 3)..Len(u) : u[j] # "@"
      BY <1>1, <3>1
    <3>6. Len(u) \in Nat /\ n + 3 <= Len(u)
      BY <1>1
    <3> DEFINE m == Len(u)
    <3>7. /\ m \in Nat /\ n + 3 <= m /\ m <= Len(u) /\ bound = SubSeq(u, 1, m)
          /\ \A j \in (n + 3)..m : u[j] # "@"
      BY <3>3, <3>4, <3>5, <3>6
    <3> HIDE DEF bound, n, m
    <3>8. QED BY <3>7
  <2>2. CASE Len(tail) >= 1 /\ tail[1] = "?"
    <3>1. u[n + 4] = "?" /\ n + 4 \in 1..Len(u)
      <4>1. 1 \in 1..Len(tail) /\ n + 4 = n + 3 + 1 /\ n + 4 \in 1..Len(u)
        BY <1>1, <2>2
      <4>2. QED BY <2>2, <4>1 DEF Carries
    <3>2. \A j \in 1..Len(u) : j < n + 4 => u[j] \notin {"?"}
      BY <1>1, <1>2
    <3>3. bound = SubSeq(u, 1, (n + 4) - 1)
      BY <1>1, <3>1, <3>2, BeforeFirst
    <3>4. (n + 4) - 1 = n + 3 /\ n + 3 \in Nat /\ n + 3 <= Len(u)
      BY <1>1
    <3>5. \A j \in (n + 3)..(n + 3) : u[j] # "@"
      BY <1>1
    <3>6. QED BY <3>3, <3>4, <3>5
  <2>3. QED BY <2>1, <2>2, TailFacts
<1> HIDE DEF bound, n
<1>4. PICK m \in Nat : /\ n + 3 <= m /\ m <= Len(u) /\ bound = SubSeq(u, 1, m)
                       /\ \A j \in (n + 3)..m : u[j] # "@"
  BY <1>3
<1>5. IsSeq(bound) /\ Len(bound) = m /\ \A j \in 1..m : bound[j] = u[j]
  BY <1>1, <1>4, FirstOf
<1>6. n + 2 \in 1..m /\ \A j \in 1..m : n + 2 < j => j \in (n + 3)..m
  BY <1>1, <1>4
<1>7. "@" \in pool_!Range(bound) /\ pool_!LastAt(bound) = n + 2
  <2>1. n + 2 \in 1..Len(bound) /\ bound[n + 2] = "@"
    BY <1>1, <1>5, <1>6
  <2>2. \A j \in 1..Len(bound) : n + 2 < j => bound[j] # "@"
    BY <1>4, <1>5, <1>6
  <2>3. QED BY <1>5, <2>1, <2>2, LastAtIs
<1>8. QED BY <1>7 DEF bound, n

\* What is before the password, and the password, of a URL cut before its last @.
LEMMA UserinfoParts ==
  ASSUME NEW p, IsSeq(p), Len(p) >= 1, NEW info, IsSeq(info), Len(info) = Len(p) + 1,
         info[1] = ":", \A i \in 1..Len(p) : info[i + 1] = p[i]
  PROVE  LET user == pool_!Before(info, {":"})
         IN  user = <<>> /\ Len(user) = 0 /\ user # info /\ pool_!From(info, 2) = p
<1>1. Len(p) \in Nat /\ 1 \in 1..Len(info) /\ 1 - 1 = 0
  BY DEF IsSeq
<1>2. \A j \in 1..Len(info) : j < 1 => info[j] \notin {":"}
  BY <1>1
<1>3. pool_!Before(info, {":"}) = SubSeq(info, 1, 0)
  BY <1>1, <1>2, BeforeFirst
<1>4. IsSeq(SubSeq(info, 1, 0)) /\ Len(SubSeq(info, 1, 0)) = 0
  BY <1>1, FirstOf
<1>5. IsSeq(<<>>) /\ Len(<<>>) = 0
  BY DEF IsSeq
<1>6. SubSeq(info, 1, 0) = <<>>
  BY <1>4, <1>5, SameSeq
<1>7. <<>> # info
  BY <1>1, <1>5
<1>8. pool_!From(info, 2) = p
  <2> DEFINE q == SubSeq(info, 2, Len(info))
  <2>1. /\ IsSeq(q) /\ Len(q) = Len(info) + 1 - 2
        /\ \A j \in 1..(Len(info) + 1 - 2) : q[j] = info[2 + j - 1]
    BY <1>1, PartOf
  <2>2. Len(info) + 1 - 2 = Len(p) /\ \A j \in 1..Len(p) : 2 + j - 1 = j + 1
    BY <1>1
  <2> HIDE DEF q
  <2>3. Len(q) = Len(p) /\ \A j \in 1..Len(q) : q[j] = p[j]
    BY <2>1, <2>2
  <2>4. q = p
    BY <2>1, <2>3, SameSeq
  <2>5. QED BY <2>4 DEF pool_!From, q
<1>9. QED BY <1>3, <1>5, <1>6, <1>7, <1>8

\* utf8_percent_encode and its inverse
LEMMA EncodeFacts ==
  ASSUME NEW p \in pool_!Passwords
  PROVE  LET e == pool_!Encode(p)
         IN  /\ IsSeq(e) /\ Len(e) = Len(p) /\ pool_!Decode(e) = p
             /\ \A i \in 1..Len(p) : e[i] \notin pool_!Reserved
<1> DEFINE e == pool_!Encode(p)
           Escapes == {"%40", "%3A", "%2F", "%3F", "%25"}
           n == Len(p)
<1>1. /\ n \in Nat /\ p = [i \in 1..n |-> p[i]]
      /\ \A i \in 1..n : p[i] \in {"x"} \cup pool_!Reserved
  BY PasswordFacts
<1>2. \A c \in pool_!Reserved : /\ pool_!Escape(c) \in Escapes
                                /\ \A d \in pool_!Reserved : pool_!Escape(d) = pool_!Escape(c) => d = c
  BY DEF pool_!Reserved, pool_!Escape
<1>3. Escapes \cap ({"x"} \cup pool_!Reserved) = {} /\ "x" \notin pool_!Reserved
  BY DEF pool_!Reserved
<1>4. e = [i \in 1..n |-> IF p[i] \in pool_!Reserved THEN pool_!Escape(p[i]) ELSE p[i]]
  BY DEF pool_!Encode
<1> HIDE DEF e, Escapes, n
<1>5. e \in [1..n -> Escapes \cup {"x"}]
  BY <1>1, <1>2, <1>3, <1>4
<1>6. e \in Seq(Escapes \cup {"x"}) /\ Len(e) = n
  BY <1>1, <1>5
<1>7. \A i \in 1..n : e[i] \notin pool_!Reserved
  BY <1>3, <1>5
<1>8. pool_!Decode(e) = [i \in 1..n |-> IF \E c \in pool_!Reserved : e[i] = pool_!Escape(c)
                                        THEN CHOOSE c \in pool_!Reserved : e[i] = pool_!Escape(c)
                                        ELSE e[i]]
  BY <1>6 DEF pool_!Decode
<1>9. ASSUME NEW i \in 1..n
      PROVE  (IF \E c \in pool_!Reserved : e[i] = pool_!Escape(c)
              THEN CHOOSE c \in pool_!Reserved : e[i] = pool_!Escape(c) ELSE e[i]) = p[i]
  <2>1. CASE p[i] \in pool_!Reserved
    <3>1. e[i] = pool_!Escape(p[i])
      BY <1>4, <2>1
    <3>2. \A c \in pool_!Reserved : e[i] = pool_!Escape(c) => c = p[i]
      BY <1>2, <2>1, <3>1
    <3>3. (CHOOSE c \in pool_!Reserved : e[i] = pool_!Escape(c)) = p[i]
      BY <2>1, <3>1, <3>2
    <3>4. QED BY <2>1, <3>1, <3>3
  <2>2. CASE p[i] = "x"
    <3>1. e[i] = "x"
      BY <1>3, <1>4, <2>2
    <3>2. ~\E c \in pool_!Reserved : e[i] = pool_!Escape(c)
      BY <1>2, <1>3, <3>1
    <3>3. QED BY <2>2, <3>1, <3>2
  <2>3. QED BY <1>1, <2>1, <2>2
<1>10. pool_!Decode(e) = p
  BY <1>1, <1>8, <1>9
<1>11. QED BY <1>6, <1>7, <1>10 DEF IsSeq, e, n

\* percent_encode_userinfo leaves a URL that carries the encoded password.
LEMMA EncodedUrl ==
  ASSUME NEW p \in pool_!Passwords, NEW tail \in pool_!Tails, NEW u, Carries(u, p, tail),
         \A i \in 1..Len(p) : p[i] # "?"
  PROVE  Carries(pool_!PercentEncodeUserinfo(u), pool_!Encode(p), tail)
<1> DEFINE n == Len(p)
           e == pool_!Encode(p)
           info == SubSeq(u, 1, (n + 2) - 1)
           rest == pool_!From(u, n + 2)
           a == <<":">> \o e
           r == a \o rest
<1>1. /\ n \in Nat /\ n >= 1 /\ Len(tail) \in Nat /\ IsSeq(p) /\ IsSeq(tail) /\ IsSeq(u)
      /\ Len(u) = n + 3 + Len(tail)
  BY PasswordFacts, TailFacts DEF Carries
<1>2. "@" \in pool_!Range(pool_!Before(u, {"?"})) /\ pool_!LastAt(pool_!Before(u, {"?"})) = n + 2
  BY <1>1, UserinfoEnds
<1>3. /\ pool_!Before(info, {":"}) = <<>> /\ <<>> # info /\ pool_!From(info, 2) = p
  <2> DEFINE cut == SubSeq(u, 1, n + 1)
  <2>1. (n + 2) - 1 = n + 1 /\ n + 1 \in Nat /\ n + 1 <= Len(u)
    BY <1>1
  <2>2. IsSeq(cut) /\ Len(cut) = n + 1 /\ \A j \in 1..(n + 1) : cut[j] = u[j]
    BY <1>1, <2>1, FirstOf
  <2>3. cut[1] = ":" /\ \A i \in 1..n : cut[i + 1] = p[i]
    <3>1. 1 \in 1..(n + 1) /\ \A i \in 1..n : i + 1 \in 1..(n + 1)
      BY <1>1
    <3> HIDE DEF cut
    <3>2. QED BY <2>2, <3>1 DEF Carries
  <2> HIDE DEF cut
  <2>4. pool_!Before(cut, {":"}) = <<>> /\ <<>> # cut /\ pool_!From(cut, 2) = p
    BY <1>1, <2>2, <2>3, UserinfoParts
  <2>5. info = cut
    BY <2>1 DEF cut
  <2>6. QED BY <2>4, <2>5
<1>4. pool_!PercentEncodeUserinfo(u) = pool_!Encode(<<>>) \o a \o rest
  <2>1. Len(<<>>) + 2 = 2
    OBVIOUS
  <2> HIDE DEF n
  <2>2. QED BY <1>2, <1>3, <2>1 DEF pool_!PercentEncodeUserinfo
<1>5. IsSeq(e) /\ Len(e) = n
  BY EncodeFacts
<1> HIDE DEF e
<1>6. IsSeq(a) /\ Len(a) = n + 1 /\ a[1] = ":" /\ \A i \in 1..n : a[i + 1] = e[i]
  <2>1. IsSeq(<<":">>) /\ Len(<<":">>) = 1 /\ <<":">>[1] = ":" /\ 1 \in 1..1
    BY OneElement
  <2>2. IsSeq(a) /\ Len(a) = 1 + n /\ a[1] = ":" /\ \A i \in 1..n : a[1 + i] = e[i]
    BY <1>5, <2>1, Joined
  <2> HIDE DEF a
  <2>3. QED BY <1>1, <2>2
<1>7. pool_!Encode(<<>>) \o a = a
  <2>1. pool_!Encode(<<>>) = <<>>
    BY DEF pool_!Encode
  <2>2. PICK S : a \in Seq(S)
    BY <1>6 DEF IsSeq
  <2> HIDE DEF a
  <2>3. QED BY <2>1, <2>2
<1> HIDE DEF a
<1>8. /\ IsSeq(rest) /\ Len(rest) = Len(tail) + 2
      /\ \A j \in 1..(Len(tail) + 2) : rest[j] = u[n + 1 + j]
  <2> DEFINE k == Len(u)
  <2>1. n + 2 \in Nat /\ 1 <= n + 2 /\ n + 2 <= k + 1 /\ k \in Nat /\ k <= Len(u)
    BY <1>1
  <2>2. /\ IsSeq(SubSeq(u, n + 2, k)) /\ Len(SubSeq(u, n + 2, k)) = k + 1 - (n + 2)
        /\ \A j \in 1..(k + 1 - (n + 2)) : SubSeq(u, n + 2, k)[j] = u[(n + 2) + j - 1]
    BY <1>1, <2>1, PartOf
  <2>3. rest = SubSeq(u, n + 2, k)
    BY DEF pool_!From
  <2>4. k + 1 - (n + 2) = Len(tail) + 2 /\ \A j \in 1..(Len(tail) + 2) : (n + 2) + j - 1 = n + 1 + j
    BY <1>1
  <2> HIDE DEF k, rest
  <2>5. QED BY <2>2, <2>3, <2>4
<1> HIDE DEF rest
<1>9. /\ IsSeq(r) /\ Len(r) = n + 1 + (Len(tail) + 2)
      /\ \A i \in 1..(n + 1) : r[i] = a[i]
      /\ \A i \in 1..(Len(tail) + 2) : r[n + 1 + i] = u[n + 1 + i]
  <2>1. /\ IsSeq(r) /\ Len(r) = Len(a) + Len(rest)
        /\ \A i \in 1..Len(a) : r[i] = a[i]
        /\ \A i \in 1..Len(rest) : r[Len(a) + i] = rest[i]
    <3>1. IsSeq(a) /\ IsSeq(rest)
      BY <1>6, <1>8
    <3>2. QED BY <3>1, Joined
  <2> HIDE DEF r
  <2>2. QED BY <1>6, <1>8, <2>1
<1> HIDE DEF r
<1>10. Carries(r, e, tail)
  <2>1. Len(r) = Len(e) + 3 + Len(tail)
    BY <1>1, <1>5, <1>9
  <2>2. r[1] = ":" /\ \A i \in 1..n : r[i + 1] = e[i]
    <3>1. 1 \in 1..(n + 1) /\ \A i \in 1..n : i + 1 \in 1..(n + 1)
      BY <1>1
    <3>2. QED BY <1>6, <1>9, <3>1
  <2>3. ASSUME NEW i \in 1..(Len(tail) + 2) PROVE r[n + 1 + i] = u[n + 1 + i]
    BY <1>9
  <2>4. r[n + 2] = "@" /\ r[n + 3] = "h"
    <3>1. 1 \in 1..(Len(tail) + 2) /\ 2 \in 1..(Len(tail) + 2) /\ n + 1 + 1 = n + 2 /\ n + 1 + 2 = n + 3
      BY <1>1
    <3>2. QED BY <2>3, <3>1 DEF Carries
  <2>5. ASSUME NEW j \in 1..Len(tail) PROVE r[n + 3 + j] = tail[j]
    <3>1. j + 2 \in 1..(Len(tail) + 2) /\ n + 1 + (j + 2) = n + 3 + j
      BY <1>1
    <3>2. r[n + 3 + j] = u[n + 3 + j]
      BY <2>3, <3>1
    <3>3. QED BY <3>2 DEF Carries
  <2> HIDE DEF n
  <2>6. QED BY <1>5, <1>9, <2>1, <2>2, <2>4, <2>5 DEF Carries
<1>11. QED BY <1>4, <1>7, <1>10 DEF r, e

\* The authority of a URL ends with the host, if nothing before it ends it.
LEMMA AuthorityEnds ==
  ASSUME NEW s, IsSeq(s), NEW k \in Nat, k >= 1, NEW tail \in pool_!Tails,
         Len(s) = k + Len(tail), \A i \in 1..k : s[i] \notin {"/", "?"},
         \A j \in 1..Len(tail) : s[k + j] = tail[j]
  PROVE  pool_!Before(s, {"/", "?"}) = SubSeq(s, 1, k)
<1>1. CASE tail = <<>>
  <2>1. Len(s) = k
    BY <1>1
  <2>2. pool_!Before(s, {"/", "?"}) = s
    BY <2>1, BeforeNone
  <2>3. QED BY <2>1, <2>2, FirstOf
<1>2. CASE Len(tail) >= 1 /\ tail[1] \in {"/", "?"}
  <2>1. Len(tail) \in Nat
    BY TailFacts
  <2>2. k + 1 \in 1..Len(s) /\ 1 \in 1..Len(tail) /\ (k + 1) - 1 = k
    BY <1>2, <2>1
  <2>3. s[k + 1] \in {"/", "?"}
    BY <1>2, <2>2
  <2>4. \A j \in 1..Len(s) : j < k + 1 => s[j] \notin {"/", "?"}
    BY <2>1
  <2>5. pool_!Before(s, {"/", "?"}) = SubSeq(s, 1, (k + 1) - 1)
    BY <2>2, <2>3, <2>4, BeforeFirst
  <2>6. QED BY <2>2, <2>5
<1>3. QED BY <1>1, <1>2, TailFacts

\* Config::from_url reads back the host and the password.
LEMMA ReadBack ==
  ASSUME NEW p \in pool_!Passwords, NEW tail \in pool_!Tails, NEW u,
         Carries(u, pool_!Encode(p), tail)
  PROVE  pool_!FromUrl(u) = [host |-> pool_!Host, password |-> p]
<1> DEFINE n == Len(p)
           e == pool_!Encode(p)
           authority == pool_!Before(u, {"/", "?"})
           info == SubSeq(authority, 1, (n + 2) - 1)
           host == pool_!From(authority, (n + 2) + 1)
<1>1. n \in Nat /\ n >= 1 /\ Len(tail) \in Nat
  BY PasswordFacts, TailFacts
<1>2. /\ IsSeq(e) /\ Len(e) = n /\ pool_!Decode(e) = p
      /\ \A i \in 1..n : e[i] \notin {"@", ":", "/", "?", "%"}
  BY EncodeFacts DEF pool_!Reserved
<1> HIDE DEF e
<1>3. /\ IsSeq(u) /\ Len(u) = n + 3 + Len(tail) /\ u[1] = ":" /\ u[n + 2] = "@" /\ u[n + 3] = "h"
      /\ \A i \in 1..n : u[i + 1] = e[i]
      /\ \A j \in 1..Len(tail) : u[n + 3 + j] = tail[j]
  BY <1>2 DEF Carries, e
<1>4. ASSUME NEW i \in 1..(n + 3) PROVE i = 1 \/ i = n + 2 \/ i = n + 3 \/ \E k \in 1..n : i = k + 1
  <2>1. i = 1 \/ i = n + 2 \/ i = n + 3 \/ i - 1 \in 1..n
    BY <1>1
  <2>2. i = (i - 1) + 1
    BY <1>1
  <2>3. QED BY <2>1, <2>2
<1>5. authority = SubSeq(u, 1, n + 3)
  <2>1. \A i \in 1..(n + 3) : u[i] \notin {"/", "?"}
    <3>1. ASSUME NEW i \in 1..(n + 3) PROVE u[i] \notin {"/", "?"}
      <4>1. CASE i = 1 \/ i = n + 2 \/ i = n + 3
        BY <1>3, <4>1
      <4>2. CASE \E k \in 1..n : i = k + 1
        <5>1. PICK k \in 1..n : i = k + 1
          BY <4>2
        <5>2. u[i] = e[k] /\ e[k] \notin {"@", ":", "/", "?", "%"}
          BY <1>2, <1>3, <5>1
        <5>3. QED BY <5>2
      <4>3. QED BY <1>4, <4>1, <4>2
    <3>2. QED BY <3>1
  <2>2. n + 3 \in Nat /\ n + 3 >= 1
    BY <1>1
  <2>3. \A j \in 1..Len(tail) : u[n + 3 + j] = tail[j]
    BY <1>1, <1>3
  <2>4. QED BY <1>3, <2>1, <2>2, <2>3, AuthorityEnds
<1> HIDE DEF authority
<1>6. IsSeq(authority) /\ Len(authority) = n + 3 /\ \A j \in 1..(n + 3) : authority[j] = u[j]
  <2>1. n + 3 \in Nat /\ n + 3 <= Len(u)
    BY <1>1, <1>3
  <2>2. QED BY <1>3, <1>5, <2>1, FirstOf
<1>7. "@" \in pool_!Range(authority) /\ pool_!LastAt(authority) = n + 2
  <2>1. n + 2 \in 1..Len(authority) /\ n + 3 \in 1..Len(authority) /\ n + 2 \in 1..(n + 3)
    BY <1>1, <1>6
  <2>2. authority[n + 2] = "@" /\ authority[n + 3] = "h"
    BY <1>3, <1>6, <2>1
  <2>3. \A j \in 1..Len(authority) : n + 2 < j => j = n + 3
    BY <1>1, <1>6
  <2>4. QED BY <1>6, <2>1, <2>2, <2>3, LastAtIs
<1>8. /\ pool_!Before(info, {":"}) = <<>> /\ pool_!From(info, 2) = e /\ Len(info) = n + 1
  <2> DEFINE cut == SubSeq(authority, 1, n + 1)
  <2>1. (n + 2) - 1 = n + 1 /\ n + 1 \in Nat /\ n + 1 <= Len(authority)
    BY <1>1, <1>6
  <2>2. IsSeq(cut) /\ Len(cut) = n + 1 /\ \A j \in 1..(n + 1) : cut[j] = authority[j]
    BY <1>6, <2>1, FirstOf
  <2> HIDE DEF cut
  <2>3. cut[1] = ":" /\ \A i \in 1..n : cut[i + 1] = e[i]
    <3>1. /\ 1 \in 1..(n + 1) /\ 1 \in 1..(n + 3)
          /\ \A i \in 1..n : i + 1 \in 1..(n + 1) /\ i + 1 \in 1..(n + 3)
      BY <1>1
    <3>2. QED BY <1>3, <1>6, <2>2, <3>1
  <2>4. pool_!Before(cut, {":"}) = <<>> /\ pool_!From(cut, 2) = e
    BY <1>1, <1>2, <2>2, <2>3, UserinfoParts
  <2>5. info = cut
    BY <2>1 DEF cut
  <2>6. QED BY <2>2, <2>4, <2>5
<1> HIDE DEF info
<1>9. host = pool_!Host
  <2> DEFINE q == SubSeq(authority, n + 3, n + 3)
  <2>1. (n + 2) + 1 = n + 3 /\ Len(authority) = n + 3
    BY <1>1, <1>6
  <2>2. host = q
    BY <2>1 DEF pool_!From
  <2>3. /\ n + 3 \in Nat /\ 1 <= n + 3 /\ n + 3 <= (n + 3) + 1 /\ n + 3 <= Len(authority)
        /\ (n + 3) + 1 - (n + 3) = 1 /\ (n + 3) + 1 - 1 = n + 3 /\ n + 3 \in 1..(n + 3)
    BY <1>1, <1>6
  <2>4. IsSeq(q) /\ Len(q) = 1 /\ \A j \in 1..1 : q[j] = authority[(n + 3) + j - 1]
    <3>1. /\ IsSeq(q) /\ Len(q) = (n + 3) + 1 - (n + 3)
          /\ \A j \in 1..((n + 3) + 1 - (n + 3)) : q[j] = authority[(n + 3) + j - 1]
      BY <1>6, <2>3, PartOf
    <3> HIDE DEF q
    <3>2. QED BY <2>3, <3>1
  <2> HIDE DEF q
  <2>5. q[1] = "h"
    BY <1>3, <1>6, <2>3, <2>4
  <2> DEFINE t == <<"h">>
  <2>6. IsSeq(t) /\ Len(t) = 1 /\ t[1] = "h"
    BY OneElement
  <2> HIDE DEF t
  <2>7. \A i \in 1..Len(q) : q[i] = t[i]
    BY <2>4, <2>5, <2>6
  <2>8. q = t
    BY <2>4, <2>6, <2>7, SameSeq
  <2>9. QED BY <2>2, <2>8 DEF t, pool_!Host
<1> HIDE DEF host
<1>10. Len(<<>>) + 2 = 2 /\ 2 <= Len(info)
  BY <1>1, <1>8
<1> HIDE DEF n
<1>11. pool_!FromUrl(u) = [host |-> host, password |-> pool_!Decode(e)]
  BY <1>7, <1>8, <1>10 DEF pool_!FromUrl, authority, info, host
<1>12. QED BY <1>2, <1>9, <1>11

\* A host without a password in front.
LEMMA BareHost ==
  ASSUME NEW tail \in pool_!Tails, NEW s, IsSeq(s), Len(s) = 1 + Len(tail), s[1] = "h",
         \A j \in 1..Len(tail) : s[1 + j] = tail[j]
  PROVE  /\ pool_!Before(s, {"/", "?"}) = pool_!Host
         /\ "@" \notin pool_!Range(pool_!Before(s, {"?"}))
         /\ "@" \notin pool_!Range(pool_!Host) /\ "x" \notin pool_!Range(pool_!Host)
<1>1. Len(tail) \in Nat
  BY TailFacts
<1> DEFINE t == <<"h">>
<1>2. IsSeq(t) /\ Len(t) = 1 /\ t[1] = "h" /\ pool_!Host = t
  BY OneElement DEF pool_!Host
<1> HIDE DEF t
<1>3. SubSeq(s, 1, 1) = t
  <2>1. IsSeq(SubSeq(s, 1, 1)) /\ Len(SubSeq(s, 1, 1)) = 1 /\ \A j \in 1..1 : SubSeq(s, 1, 1)[j] = s[j]
    BY <1>1, FirstOf
  <2> DEFINE q == SubSeq(s, 1, 1)
  <2>2. IsSeq(q) /\ Len(q) = 1 /\ q[1] = "h"
    BY <2>1
  <2> HIDE DEF q
  <2>3. q = t
    BY <1>2, <2>2, SameSeq
  <2>4. QED BY <2>3 DEF q
<1>4. pool_!Before(s, {"/", "?"}) = SubSeq(s, 1, 1)
  <2>1. 1 \in Nat /\ 1 >= 1 /\ \A i \in 1..1 : s[i] \notin {"/", "?"}
    OBVIOUS
  <2>2. QED BY <2>1, AuthorityEnds
<1>5. DOMAIN t = 1..1
  <2>1. PICK S : t \in Seq(S)
    BY <1>2 DEF IsSeq
  <2>2. QED BY <1>2, <2>1
<1>6. "@" \notin pool_!Range(t) /\ "x" \notin pool_!Range(t)
  BY <1>2, <1>5 DEF pool_!Range
<1>7. "@" \notin pool_!Range(pool_!Before(s, {"?"}))
  <2>1. CASE \A j \in 1..Len(tail) : tail[j] \notin {"?", "@"}
    <3>1. ASSUME NEW i \in 1..Len(s) PROVE s[i] \notin {"?", "@"}
      <4>1. i = 1 \/ (i - 1 \in 1..Len(tail) /\ i = 1 + (i - 1))
        BY <1>1
      <4>2. QED BY <2>1, <4>1
    <3>2. pool_!Before(s, {"?"}) = s
      BY <3>1, BeforeNone
    <3>3. DOMAIN s = 1..Len(s)
      BY DEF IsSeq
    <3>4. QED BY <3>1, <3>2, <3>3 DEF pool_!Range
  <2>2. CASE Len(tail) >= 1 /\ tail[1] = "?"
    <3>1. 2 \in 1..Len(s) /\ 1 \in 1..Len(tail) /\ 1 + 1 = 2 /\ 2 - 1 = 1
      BY <1>1, <2>2
    <3>2. s[2] \in {"?"}
      BY <2>2, <3>1
    <3>3. \A j \in 1..Len(s) : j < 2 => s[j] \notin {"?"}
      BY <1>1
    <3>4. pool_!Before(s, {"?"}) = SubSeq(s, 1, 2 - 1)
      BY <3>1, <3>2, <3>3, BeforeFirst
    <3>5. QED BY <1>3, <1>6, <3>1, <3>4
  <2>3. QED BY <2>1, <2>2, TailFacts
<1>8. QED BY <1>2, <1>3, <1>4, <1>6, <1>7

\* What connect uses and what Debug shows of a password in the URL
LEMMA PasswordInUrl ==
  ASSUME NEW p \in pool_!Passwords, NEW tail \in pool_!Tails, NEW u, Carries(u, p, tail),
         \A i \in 1..Len(p) : p[i] # "?"
  PROVE  /\ pool_!FromUrl(pool_!PercentEncodeUserinfo(u)) = [host |-> pool_!Host, password |-> p]
         /\ "x" \notin pool_!Range(pool_!RedactUrl(u))
<1>1. pool_!FromUrl(pool_!PercentEncodeUserinfo(u)) = [host |-> pool_!Host, password |-> p]
  BY EncodedUrl, ReadBack
<1> DEFINE n == Len(p)
           bound == pool_!Before(u, {"?"})
           rest == pool_!From(u, (n + 2) + 1)
<1>2. /\ n \in Nat /\ Len(tail) \in Nat /\ IsSeq(p) /\ IsSeq(u) /\ Len(u) = n + 3 + Len(tail)
  BY PasswordFacts, TailFacts DEF Carries
<1>3. "@" \in pool_!Range(bound) /\ pool_!LastAt(bound) = n + 2
  BY <1>2, UserinfoEnds
<1>4. /\ IsSeq(rest) /\ Len(rest) = 1 + Len(tail) /\ rest[1] = "h"
      /\ \A j \in 1..Len(tail) : rest[1 + j] = tail[j]
  <2> DEFINE q == SubSeq(u, n + 3, Len(u))
  <2>1. /\ n + 3 \in Nat /\ 1 <= n + 3 /\ Len(u) \in Nat /\ n + 3 <= Len(u) + 1
        /\ Len(u) + 1 - (n + 3) = 1 + Len(tail)
    BY <1>2
  <2>2. /\ IsSeq(q) /\ Len(q) = Len(u) + 1 - (n + 3)
        /\ \A j \in 1..(Len(u) + 1 - (n + 3)) : q[j] = u[(n + 3) + j - 1]
    BY <1>2, <2>1, PartOf
  <2> HIDE DEF q
  <2>3. /\ 1 \in 1..(1 + Len(tail)) /\ (n + 3) + 1 - 1 = n + 3
        /\ \A j \in 1..Len(tail) : 1 + j \in 1..(1 + Len(tail)) /\ (n + 3) + (1 + j) - 1 = n + 3 + j
    BY <1>2
  <2>4. q[1] = u[n + 3] /\ \A j \in 1..Len(tail) : q[1 + j] = u[n + 3 + j]
    BY <2>1, <2>2, <2>3
  <2>5. rest = q
    <3>1. (n + 2) + 1 = n + 3
      BY <1>2
    <3>2. QED BY <3>1 DEF pool_!From, q
  <2> HIDE DEF rest
  <2>6. QED BY <2>1, <2>2, <2>4, <2>5 DEF Carries
<1> HIDE DEF rest
<1>5. pool_!Before(rest, {"/", "?"}) = pool_!Host /\ "x" \notin pool_!Range(pool_!Host)
  BY <1>4, BareHost
<1> HIDE DEF n
<1>6. pool_!RedactUrl(u) = pool_!Before(rest, {"/", "?"})
  BY <1>3 DEF pool_!RedactUrl, rest
<1>7. QED BY <1>1, <1>5, <1>6

\* A character of s has a first place in it.
LEMMA FirstPlace ==
  ASSUME NEW s, IsSeq(s), NEW c, c \in pool_!Range(s)
  PROVE  \E k \in 1..Len(s) : s[k] = c /\ \A j \in 1..Len(s) : j < k => s[j] # c
<1>1. Len(s) \in Nat /\ DOMAIN s = 1..Len(s)
  BY DEF IsSeq
<1> DEFINE P == {i \in 1..Len(s) : s[i] = c}
<1>2. P # {}
  BY <1>1 DEF pool_!Range
<1>3. P \subseteq Nat
  BY <1>1
<1>4. PICK k \in P : \A j \in P : ~(<<j, k>> \in OpToRel(<, Nat))
  <2> HIDE DEF P
  <2>1. QED BY <1>2, <1>3, NatLessThanWellFounded, WFMin
<1>5. ASSUME NEW j \in P PROVE ~(j < k)
  <2>1. j \in Nat /\ k \in Nat /\ ~(<<j, k>> \in OpToRel(<, Nat))
    BY <1>3, <1>4
  <2>2. QED BY <2>1 DEF OpToRel
<1>6. QED BY <1>4, <1>5

\* Debug shows nothing of a URL whose only @ are behind a ?.
LEMMA RedactedWhole ==
  ASSUME NEW u, "@" \in pool_!Range(u), "@" \notin pool_!Range(pool_!Before(u, {"?"}))
  PROVE  "x" \notin pool_!Range(pool_!RedactUrl(u))
<1> DEFINE t == <<"<redacted>">>
<1>1. IsSeq(t) /\ Len(t) = 1 /\ t[1] = "<redacted>"
  BY OneElement
<1>2. pool_!RedactUrl(u) = t
  BY DEF pool_!RedactUrl
<1> HIDE DEF t
<1>3. PICK S : t \in Seq(S)
  BY <1>1 DEF IsSeq
<1>4. DOMAIN t = 1..1
  BY <1>1, <1>3
<1>5. QED BY <1>1, <1>2, <1>4 DEF pool_!Range

\* ... which a password with a ? and no @ before it makes of a URL.
LEMMA RawPassword ==
  ASSUME NEW p, IsSeq(p), NEW tail, IsSeq(tail), NEW u, Carries(u, p, tail),
         "?" \in pool_!Range(p), "@" \notin pool_!Range(pool_!Before(p, {"?"}))
  PROVE  "x" \notin pool_!Range(pool_!RedactUrl(u))
<1>1. /\ Len(p) \in Nat /\ Len(tail) \in Nat /\ Len(u) = Len(p) + 3 + Len(tail)
      /\ DOMAIN u = 1..Len(u) /\ IsSeq(u)
  BY DEF IsSeq, Carries
<1>2. PICK k \in 1..Len(p) : p[k] = "?" /\ \A j \in 1..Len(p) : j < k => p[j] # "?"
  BY FirstPlace
<1>3. k \in Nat /\ k >= 1 /\ k <= Len(p)
  BY <1>1, <1>2
<1>4. ASSUME NEW i \in 1..(k - 1) PROVE p[i] # "@"
  <2>1. pool_!Before(p, {"?"}) = SubSeq(p, 1, k - 1)
    BY <1>2, BeforeFirst
  <2> DEFINE q == SubSeq(p, 1, k - 1)
  <2>2. k - 1 \in Nat /\ k - 1 <= Len(p) /\ 1 <= (k - 1) + 1
    BY <1>1, <1>3
  <2>3. /\ IsSeq(q) /\ Len(q) = k - 1 /\ \A j \in 1..(k - 1) : q[j] = p[j]
    BY <1>1, <2>2, FirstOf
  <2>4. q[i] = p[i] /\ i \in 1..Len(q)
    BY <1>3, <2>3
  <2> HIDE DEF q
  <2>5. DOMAIN q = 1..Len(q)
    BY <2>3 DEF IsSeq
  <2>6. q[i] \in pool_!Range(q)
    BY <2>4, <2>5 DEF pool_!Range
  <2>7. QED BY <2>1, <2>4, <2>6 DEF q
<1>5. /\ k + 1 \in 1..Len(u) /\ u[k + 1] \in {"?"}
      /\ \A j \in 1..Len(u) : j < k + 1 => u[j] \notin {"?", "@"}
  <2>1. k + 1 \in 1..Len(u)
    BY <1>1, <1>3
  <2>2. u[k + 1] = "?"
    BY <1>2 DEF Carries
  <2>3. ASSUME NEW j \in 1..Len(u), j < k + 1 PROVE u[j] \notin {"?", "@"}
    <3>1. j = 1 \/ (j - 1 \in 1..(k - 1) /\ j - 1 \in 1..Len(p) /\ j = (j - 1) + 1 /\ j - 1 < k)
      BY <1>1, <1>3, <2>3
    <3>2. CASE j = 1
      BY <3>2 DEF Carries
    <3>3. CASE j - 1 \in 1..(k - 1) /\ j - 1 \in 1..Len(p) /\ j = (j - 1) + 1 /\ j - 1 < k
      <4>1. u[j] = p[j - 1]
        BY <3>3 DEF Carries
      <4>2. QED BY <1>2, <1>4, <3>3, <4>1
    <3>4. QED BY <3>1, <3>2, <3>3
  <2>4. QED BY <2>1, <2>2, <2>3
<1>6. "@" \notin pool_!Range(pool_!Before(u, {"?"}))
  <2>1. pool_!Before(u, {"?"}) = SubSeq(u, 1, (k + 1) - 1)
    BY <1>1, <1>5, BeforeFirst
  <2> DEFINE q == SubSeq(u, 1, k)
  <2>2. (k + 1) - 1 = k /\ k <= Len(u)
    BY <1>1, <1>3
  <2>3. IsSeq(q) /\ Len(q) = k /\ \A j \in 1..k : q[j] = u[j]
    BY <1>1, <1>3, <2>2, FirstOf
  <2> HIDE DEF q
  <2>4. DOMAIN q = 1..k
    BY <2>3 DEF IsSeq
  <2>5. ASSUME NEW j \in 1..k PROVE q[j] # "@"
    <3>1. j \in 1..Len(u) /\ j < k + 1
      BY <1>1, <1>3
    <3>2. QED BY <1>5, <2>3, <3>1
  <2>6. QED BY <2>1, <2>2, <2>4, <2>5 DEF pool_!Range, q
<1>7. "@" \in pool_!Range(u)
  <2>1. Len(p) + 2 \in 1..Len(u) /\ u[Len(p) + 2] = "@"
    BY <1>1 DEF Carries
  <2>2. QED BY <1>1, <2>1 DEF pool_!Range
<1>8. QED BY <1>6, <1>7, RedactedWhole

\* What connect uses and what Debug shows of a URL without a password
LEMMA PasswordInEnv ==
  ASSUME NEW tail \in pool_!Tails
  PROVE  LET u == <<>> \o pool_!Host \o tail
         IN  /\ pool_!FromUrl(pool_!PercentEncodeUserinfo(u)) = [host |-> pool_!Host, password |-> None]
             /\ "x" \notin pool_!Range(pool_!RedactUrl(u))
<1> DEFINE u == <<>> \o pool_!Host \o tail
<1>1. IsSeq(tail) /\ Len(tail) \in Nat
  BY TailFacts
<1>2. /\ IsSeq(u) /\ Len(u) = 1 + Len(tail) /\ u[1] = "h"
      /\ \A j \in 1..Len(tail) : u[1 + j] = tail[j]
  <2> DEFINE t == <<"h">>
  <2>1. IsSeq(t) /\ Len(t) = 1 /\ t[1] = "h" /\ pool_!Host = t
    BY OneElement DEF pool_!Host
  <2> HIDE DEF t
  <2>2. <<>> \o t = t
    <3>1. PICK S : t \in Seq(S)
      BY <2>1 DEF IsSeq
    <3>2. QED BY <3>1
  <2>3. u = t \o tail
    BY <2>1, <2>2
  <2>4. /\ IsSeq(t \o tail) /\ Len(t \o tail) = 1 + Len(tail) /\ (t \o tail)[1] = t[1]
        /\ \A j \in 1..Len(tail) : (t \o tail)[1 + j] = tail[j]
    <3>1. IsSeq(t) /\ IsSeq(tail)
      BY <1>1, <2>1
    <3>2. /\ IsSeq(t \o tail) /\ Len(t \o tail) = Len(t) + Len(tail)
          /\ \A i \in 1..Len(t) : (t \o tail)[i] = t[i]
          /\ \A i \in 1..Len(tail) : (t \o tail)[Len(t) + i] = tail[i]
      BY <3>1, Joined
    <3>3. 1 \in 1..Len(t)
      BY <2>1
    <3>4. QED BY <2>1, <3>2, <3>3
  <2> HIDE DEF u
  <2>5. QED BY <2>1, <2>3, <2>4
<1> HIDE DEF u
<1>3. /\ pool_!Before(u, {"/", "?"}) = pool_!Host
      /\ "@" \notin pool_!Range(pool_!Before(u, {"?"}))
      /\ "@" \notin pool_!Range(pool_!Host) /\ "x" \notin pool_!Range(pool_!Host)
  BY <1>2, BareHost
<1>4. pool_!PercentEncodeUserinfo(u) = u
  BY <1>3 DEF pool_!PercentEncodeUserinfo
<1>5. pool_!FromUrl(u) = [host |-> pool_!Host, password |-> None]
  <2>1. pool_!Before(<<>>, {":"}) = <<>>
    <3>1. pool_!Places(<<>>, {":"}) = {}
      BY DEF pool_!Places
    <3>2. QED BY <3>1 DEF pool_!Before
  <2>2. ~(Len(pool_!Before(<<>>, {":"})) + 2 <= Len(<<>>))
    BY <2>1
  <2>3. QED BY <1>3, <2>2 DEF pool_!FromUrl
<1>6. "x" \notin pool_!Range(pool_!RedactUrl(u))
  <2>1. CASE "@" \in pool_!Range(u)
    BY <1>3, <2>1, RedactedWhole
  <2>2. CASE "@" \notin pool_!Range(u)
    BY <1>3, <2>2 DEF pool_!RedactUrl
  <2>3. QED BY <2>1, <2>2
<1>7. QED BY <1>4, <1>5, <1>6 DEF u

\* connect hands fred the right host and the password, wherever that came from, and Debug
\* shows no letter of it.
LEMMA SanitizedIs ==
  ASSUME NEW c \in pool_!Configs
  PROVE  /\ pool_!Representable(c) =>
              pool_!Sanitized(c) = [host |-> pool_!Host, password |-> pool_!Password(c)]
         /\ pool_!Misleading(c) \/ "x" \notin pool_!Range(pool_!RedactUrl(pool_!Url(c)))
<1>1. c.url \in pool_!Passwords \cup {None} /\ c.tail \in pool_!Tails
  BY DEF pool_!Configs
<1> DEFINE cfg == pool_!FromUrl(pool_!PercentEncodeUserinfo(pool_!Url(c)))
<1>2. ASSUME cfg = [host |-> pool_!Host, password |-> c.url]
      PROVE  pool_!Sanitized(c) = [host |-> pool_!Host, password |-> pool_!Password(c)]
  BY <1>2 DEF pool_!Sanitized, pool_!Password
<1> HIDE DEF cfg
<1>3. CASE c.url # None
  <2> DEFINE u == (<<":">> \o c.url \o <<"@">>) \o pool_!Host \o c.tail
  <2>1. pool_!Url(c) = u
    BY <1>3 DEF pool_!Url
  <2>2. c.url \in pool_!Passwords
    BY <1>1, <1>3
  <2>3. IsSeq(c.url) /\ DOMAIN c.url = 1..Len(c.url) /\ IsSeq(c.tail)
    BY <1>1, <2>2, PasswordFacts, TailFacts
  <2>4. Carries(u, c.url, c.tail)
    BY <2>3, CarriesUrl
  <2> HIDE DEF u
  <2>5. CASE "?" \notin pool_!Range(c.url)
    <3>1. \A i \in 1..Len(c.url) : c.url[i] # "?"
      BY <2>3, <2>5 DEF pool_!Range
    <3>2. /\ pool_!FromUrl(pool_!PercentEncodeUserinfo(u)) = [host |-> pool_!Host, password |-> c.url]
          /\ "x" \notin pool_!Range(pool_!RedactUrl(u))
      BY <1>1, <2>2, <2>4, <3>1, PasswordInUrl
    <3>3. QED BY <1>2, <2>1, <3>2 DEF cfg
  <2>6. CASE "?" \in pool_!Range(c.url)
    <3>1. ~pool_!Representable(c)
      BY <1>3, <2>6 DEF pool_!Representable
    <3>2. ASSUME ~pool_!Misleading(c) PROVE "x" \notin pool_!Range(pool_!RedactUrl(u))
      <4>1. "@" \notin pool_!Range(pool_!Before(c.url, {"?"}))
        BY <1>3, <2>6, <3>2 DEF pool_!Misleading
      <4>2. QED BY <2>3, <2>4, <2>6, <4>1, RawPassword
    <3>3. QED BY <2>1, <3>1, <3>2
  <2>7. QED BY <2>5, <2>6
<1>4. CASE c.url = None
  <2> DEFINE u == <<>> \o pool_!Host \o c.tail
  <2>1. pool_!Url(c) = u
    BY <1>4 DEF pool_!Url
  <2>2. /\ pool_!FromUrl(pool_!PercentEncodeUserinfo(u)) = [host |-> pool_!Host, password |-> None]
        /\ "x" \notin pool_!Range(pool_!RedactUrl(u))
    BY <1>1, PasswordInEnv
  <2> HIDE DEF u
  <2>3. QED BY <1>2, <1>4, <2>1, <2>2 DEF cfg
<1>5. QED BY <1>3, <1>4

\* A configuration that says what it means is refused for its CA file or its size only.
LEMMA HostAccepted ==
  ASSUME NEW c \in pool_!Configs, pool_!Representable(c), pool_!Misconfigured(c)
  PROVE  c.pool_size = 0 \/ (c.tls /\ c.ca = "bad")
<1>1. pool_!Sanitized(c).host = pool_!Host
  BY SanitizedIs
<1>2. pool_!Host # <<>> /\ pool_!Range(pool_!Host) \cap pool_!Reserved = {}
  BY DEF pool_!Host, pool_!Range, pool_!Reserved
<1>3. QED BY <1>1, <1>2 DEF pool_!Misconfigured

\* The pools: the first's and the second's state.
Pools(probe, pool) == pools = [p \in {"probe", "pool"} |-> IF p = "probe" THEN probe ELSE pool]

\* The inductive invariant of connect: it hands over what the configuration says, and has a
\* probe running, a pool behind one that was told to quit, or none.
PoolInv ==
    /\ config # None => config \in pool_!Configs
    /\ poolCall = [phase |-> poolCall.phase, cfg |-> poolCall.cfg, result |-> poolCall.result]
    /\ poolCall.cfg # None => config # None /\ poolCall.cfg = pool_!Sanitized(config)
    /\ \/ poolCall = pool_!NoCall /\ Pools("none", "none")
       \/ poolCall.phase = "probing" /\ poolCall.result = None /\ Pools("running", "none")
       \/ poolCall.phase = "background" /\ poolCall.result = None /\ Pools("quit", "none")
       \/ /\ poolCall.phase = "done" /\ poolCall.result = "ok"
          /\ Pools("running", "none") \/ Pools("quit", "running")
       \/ /\ poolCall.phase = "done" /\ poolCall.result = "refused" /\ Pools("quit", "none")
       \/ /\ poolCall.phase = "done" /\ poolCall.result = "misconfigured"
          /\ config # None /\ pool_!Misconfigured(config) /\ Pools("none", "none")

LEMMA PoolInitially == pool_!Init => PoolInv
  BY DEF pool_!Init, PoolInv, pool_!NoCall, pool_!NoPools, Pools

\* The steps of the pools
LEMMA PoolSteps ==
  /\ Pools("none", "none") /\ pools' = [pools EXCEPT !["probe"] = "running"] =>
        Pools("running", "none")'
  /\ Pools("running", "none") /\ pool_!Quit("probe") => Pools("quit", "none")'
  /\ Pools("quit", "none") /\ pools' = [pools EXCEPT !["pool"] = "running"] =>
        Pools("quit", "running")'
  BY DEF Pools, pool_!Quit

LEMMA PoolInductive == PoolInv /\ pool_!Next => PoolInv'
<1> SUFFICES ASSUME PoolInv, pool_!Next PROVE PoolInv'
  OBVIOUS
<1> USE DEF PoolInv
<1>1. ASSUME NEW result, pool_!Return(result)
      PROVE  poolCall' = [phase |-> "done", cfg |-> poolCall.cfg, result |-> result]
  BY <1>1 DEF pool_!Return
<1>0. pools' = pools => \A a, b : Pools(a, b)' <=> Pools(a, b)
  BY DEF Pools
<1>2. CASE pool_!ServerToggles
  BY <1>0, <1>2 DEF pool_!ServerToggles, pool_!Sanitized, pool_!NoCall
<1>3. CASE pool_!Connect
  <2>1. poolCall = pool_!NoCall /\ Pools("none", "none") /\ config # None /\ UNCHANGED config
    BY <1>3 DEF pool_!Connect
  <2>2. CASE pool_!Misconfigured(config)
    <3>1. /\ poolCall' = [phase |-> "done", cfg |-> None, result |-> "misconfigured"]
          /\ UNCHANGED pools
      BY <1>1, <1>3, <2>1, <2>2 DEF pool_!Connect, pool_!NoCall
    <3>2. pool_!Misconfigured(config)'
      BY <2>1, <2>2 DEF pool_!Misconfigured
    <3>3. QED BY <1>0, <2>1, <3>1, <3>2
  <2>3. CASE ~pool_!Misconfigured(config)
    <3>1. /\ poolCall' = [phase |-> "probing", cfg |-> pool_!Sanitized(config), result |-> None]
          /\ pools' = [pools EXCEPT !["probe"] = "running"]
      BY <1>3, <2>1, <2>3 DEF pool_!Connect, pool_!NoCall
    <3>2. pool_!Sanitized(config)' = pool_!Sanitized(config)
      BY <2>1
    <3>3. QED BY <2>1, <3>1, <3>2, PoolSteps
  <2>4. QED BY <2>2, <2>3
<1>4. CASE pool_!ProbeConnects
  <2>1. /\ poolCall' = [phase |-> "done", cfg |-> poolCall.cfg, result |-> "ok"]
        /\ Pools("running", "none") /\ UNCHANGED <<config, pools>>
    BY <1>1, <1>4 DEF pool_!ProbeConnects, pool_!NoCall
  <2>2. QED BY <1>0, <2>1
<1>5. CASE pool_!ProbeTimesOut
  <2>1. /\ poolCall' = [phase |-> "background", cfg |-> poolCall.cfg, result |-> None]
        /\ Pools("running", "none") /\ pool_!Quit("probe") /\ UNCHANGED config
    BY <1>5 DEF pool_!ProbeTimesOut, pool_!NoCall
  <2>2. QED BY <2>1, PoolSteps
<1>6. ASSUME NEW error, pool_!ProbeFails(error) PROVE PoolInv'
  <2>1. /\ \/ poolCall' = [phase |-> "background", cfg |-> poolCall.cfg, result |-> None]
           \/ poolCall' = [phase |-> "done", cfg |-> poolCall.cfg, result |-> "refused"]
        /\ Pools("running", "none") /\ pool_!Quit("probe") /\ UNCHANGED config
    BY <1>1, <1>6 DEF pool_!ProbeFails, pool_!NoCall
  <2>2. QED BY <2>1, PoolSteps
<1>7. CASE pool_!Background
  <2>1. /\ poolCall' = [phase |-> "done", cfg |-> poolCall.cfg, result |-> "ok"]
        /\ Pools("quit", "none") /\ pools' = [pools EXCEPT !["pool"] = "running"]
        /\ UNCHANGED config
    BY <1>1, <1>7 DEF pool_!Background, pool_!NoCall
  <2>2. QED BY <2>1, PoolSteps
<1>8. CASE pool_!Stop
  BY <1>8 DEF pool_!Stop, pool_!NoCall, pool_!NoPools, Pools
<1>9. ASSUME NEW c \in pool_!Configs, pool_!FromEnv(c) PROVE PoolInv'
  <2>1. config = None /\ config' = c /\ UNCHANGED <<poolCall, pools>>
    BY <1>9 DEF pool_!FromEnv
  <2>2. poolCall.cfg = None
    BY <2>1
  <2>3. c \in pool_!Configs'
    BY DEF pool_!Configs
  <2>4. QED BY <1>0, <2>1, <2>2, <2>3 DEF pool_!NoCall
<1>10. QED BY <1>2, <1>3, <1>4, <1>5, <1>6, <1>7, <1>8, <1>9 DEF pool_!Next

LEMMA PoolPreserved == PoolInv /\ [EdgeNext]_edgeVars => PoolInv'
<1> SUFFICES ASSUME PoolInv, [EdgeNext]_edgeVars PROVE PoolInv'
  OBVIOUS
<1>1. CASE PoolStep
  BY <1>1, PoolInductive DEF PoolStep
<1>2. CASE UNCHANGED poolVars
  BY <1>2 DEF poolVars, PoolInv, Pools, pool_!NoCall
<1>3. QED
  BY <1>1, <1>2 DEF EdgeNext, edgeVars, LimiterStep, HttpStep, BillingStep, ScopesStep,
                    VersionsStep

\* cache/lib.rs:3-9, 29-48, 52-60: a password of any length that the URL can carry, or the
\* environment's, reaches the right host unchanged and is accepted; none is in the log unless a @ before a
\* raw ? misleads redact_url; and connect leaves one pool running if it succeeds and none if
\* it fails.
THEOREM ConnectionsCorrect == EdgeSpec => []ConnectsAsConfigured
<1>1. EdgeInit => PoolInv
  BY PoolInitially DEF EdgeInit
<1>2. PoolInv => ConnectsAsConfigured
  <2> SUFFICES ASSUME PoolInv PROVE pool_!ConnectsAsConfigured
    BY DEF ConnectsAsConfigured
  <2>1. ASSUME config # None
        PROVE  /\ \/ pool_!Misleading(config)
                  \/ "x" \notin pool_!Range(pool_!RedactUrl(pool_!Url(config)))
               /\ pool_!Representable(config) =>
                     /\ poolCall.cfg # None =>
                           poolCall.cfg = [host |-> pool_!Host, password |-> pool_!Password(config)]
                     /\ poolCall.result = "misconfigured" =>
                           config.pool_size = 0 \/ (config.tls /\ config.ca = "bad")
    <3>1. poolCall.result = "misconfigured" => pool_!Misconfigured(config)
      BY PoolAssumption DEF PoolInv, pool_!NoCall
    <3>2. QED BY <2>1, <3>1, SanitizedIs, HostAccepted DEF PoolInv
  <2>2. None \notin {"ok", "refused", "misconfigured"}
    BY PoolAssumption
  <2>3. /\ Pools("running", "none") => pool_!Running = {"probe"}
        /\ Pools("quit", "running") => pool_!Running = {"pool"}
        /\ Pools("quit", "none") \/ Pools("none", "none") => pool_!Running = {}
    BY DEF Pools, pool_!Running
  <2>4. poolCall.result = "ok" => \E p \in pool_!Running : pool_!Running = {p}
    BY <2>2, <2>3 DEF PoolInv, pool_!NoCall
  <2>5. poolCall.result \in {"refused", "misconfigured"} => pool_!Running = {}
    BY <2>2, <2>3 DEF PoolInv, pool_!NoCall
  <2>6. QED BY <2>1, <2>4, <2>5 DEF pool_!ConnectsAsConfigured
<1>3. QED BY <1>1, <1>2, PoolPreserved, PTL DEF EdgeSpec

-----------------------------------------------------------------------------
(***************************************************************************)
(* ApiVersions                                                             *)
(***************************************************************************)

\* What InsertAt does.
LEMMA Inserted ==
  ASSUME NEW s, IsSeq(s), NEW k \in 0..Len(s), NEW e
  PROVE  LET new == versions_!InsertAt(s, k + 1, e)
         IN  /\ IsSeq(new) /\ Len(new) = Len(s) + 1 /\ new[k + 1] = e
             /\ \A i \in 1..k : new[i] = s[i]
             /\ \A i \in (k + 1)..Len(s) : new[i + 1] = s[i]
<1> DEFINE n == Len(s)
           a == SubSeq(s, 1, k)
           b == SubSeq(s, k + 1, n)
           h == a \o <<e>>
           new == h \o b
<1>1. n \in Nat /\ k \in Nat /\ k <= n /\ (k + 1) - 1 = k /\ n + 1 - (k + 1) = n - k
      /\ k + 1 \in Nat /\ 1 <= k + 1 /\ k + 1 <= n + 1
  BY DEF IsSeq
<1>2. versions_!InsertAt(s, k + 1, e) = new
  BY <1>1 DEF versions_!InsertAt
<1>3. IsSeq(a) /\ Len(a) = k /\ \A i \in 1..k : a[i] = s[i]
  BY <1>1, FirstOf
<1>4. IsSeq(b) /\ Len(b) = n - k /\ \A i \in 1..(n - k) : b[i] = s[k + i]
  <2>1. /\ IsSeq(b) /\ Len(b) = n + 1 - (k + 1)
        /\ \A j \in 1..(n + 1 - (k + 1)) : b[j] = s[(k + 1) + j - 1]
    BY <1>1, PartOf
  <2>2. \A j \in 1..(n - k) : (k + 1) + j - 1 = k + j
    BY <1>1
  <2> HIDE DEF b, n
  <2>3. QED BY <1>1, <2>1, <2>2
<1> HIDE DEF a, b
<1>5. IsSeq(h) /\ Len(h) = k + 1 /\ h[k + 1] = e /\ \A i \in 1..k : h[i] = s[i]
  <2>1. /\ IsSeq(h) /\ Len(h) = Len(a) + 1 /\ \A i \in 1..Len(a) : h[i] = a[i]
        /\ h[Len(a) + 1] = e
    BY <1>3, JoinedOne
  <2> HIDE DEF h
  <2>2. QED BY <1>3, <2>1
<1> HIDE DEF h
<1>6. /\ IsSeq(new) /\ Len(new) = (k + 1) + (n - k) /\ \A i \in 1..(k + 1) : new[i] = h[i]
      /\ \A i \in 1..(n - k) : new[(k + 1) + i] = s[k + i]
  <2>1. IsSeq(h) /\ IsSeq(b)
    BY <1>4, <1>5
  <2>2. /\ IsSeq(new) /\ Len(new) = Len(h) + Len(b) /\ \A i \in 1..Len(h) : new[i] = h[i]
        /\ \A i \in 1..Len(b) : new[Len(h) + i] = b[i]
    BY <2>1, Joined
  <2> HIDE DEF new, n
  <2>3. QED BY <1>4, <1>5, <2>2
<1> HIDE DEF new
<1>7. Len(new) = n + 1 /\ new[k + 1] = e /\ \A i \in 1..k : new[i] = s[i]
  <2>1. (k + 1) + (n - k) = n + 1 /\ k + 1 \in 1..(k + 1) /\ \A i \in 1..k : i \in 1..(k + 1)
    BY <1>1
  <2>2. QED BY <1>5, <1>6, <2>1
<1>8. ASSUME NEW i \in (k + 1)..n PROVE new[i + 1] = s[i]
  <2>1. i - k \in 1..(n - k) /\ (k + 1) + (i - k) = i + 1 /\ k + (i - k) = i
    BY <1>1
  <2>2. QED BY <1>6, <2>1
<1>9. QED BY <1>2, <1>6, <1>7, <1>8

\* Every change that the floor leaves is registered or still to be, once, in the order of
\* the versions.
RegistryOK ==
    LET tr == ctx.transforms
    IN  /\ IsSeq(tr)
        /\ \A i \in 1..Len(tr) : tr[i] \in contract /\ tr[i].version > ctx.oldest /\ tr[i] \notin todo
        /\ \A i, j \in 1..Len(tr) : i < j => tr[i] # tr[j] /\ tr[i].version <= tr[j].version
        /\ \A c \in contract : c.version > ctx.oldest =>
              c \in todo \/ \E i \in 1..Len(tr) : tr[i] = c

ContextOK ==
    /\ ctx = [current |-> ctx.current, oldest |-> ctx.oldest, default |-> ctx.default,
              transforms |-> ctx.transforms]
    /\ ctx.current \in 1..MaxVersion /\ ctx.oldest \in 1..MaxVersion
    /\ contract \subseteq versions_!Changes /\ \A c \in contract : c.version <= ctx.current
    /\ todo \subseteq contract /\ \A c \in todo : c.version > ctx.oldest

\* The shape of version v with the first k transforms that are across its way applied.
Upto(v, route, k) ==
    {c \in contract : c.route = route /\ (c.version <= v \/ \E i \in 1..k : ctx.transforms[i] = c)}

Supported(v) == v \in ctx.oldest..ctx.current

\* A request in negotiate is somewhere on its way through the transforms.
RewriteOK(s) ==
    LET n == Len(ctx.transforms)
    IN  \/ /\ s.phase = "request"
           /\ \/ s.saw = None /\ s.at = n + 1
              \/ s.at \in 1..(n + 1) /\ s.saw = Upto(s.version, s.route, s.at - 1)
        \/ /\ s.phase = "response"
           /\ s.saw \in {None, versions_!Shape(ctx.current, s.route)}
           /\ \/ s.body = None /\ s.at = 0
              \/ s.at \in 0..n /\ s.body = Upto(s.version, s.route, s.at)

AnswerOK(s) ==
    /\ s.body \in {None, versions_!Shape(s.version, s.route)}
    /\ s.saw \in {None, versions_!Shape(ctx.current, s.route)}

WorkFields == {"status", "phase", "version", "route", "at", "saw", "body"}

ServedOK ==
    served # None =>
        /\ todo = {}
        /\ served.status = 0 =>
              /\ served = [f \in WorkFields |-> served[f]]
              /\ Supported(served.version) => RewriteOK(served)
        /\ served.status = 200 /\ Supported(served.version) => AnswerOK(served)

\* The inductive invariant of the contract versions.
VersionsInv == ContextOK /\ RegistryOK /\ ServedOK

LEMMA VersionsInitially == versions_!Init => VersionsInv
<1> SUFFICES ASSUME versions_!Init PROVE VersionsInv
  OBVIOUS
<1>1. ctx.transforms = <<>> /\ contract = {} /\ todo = {} /\ served = None
  BY DEF versions_!Init
<1>2. IsSeq(<<>>) /\ Len(<<>>) = 0
  BY DEF IsSeq
<1>3. RegistryOK
  BY <1>1, <1>2 DEF RegistryOK
<1>4. ContextOK
  BY <1>1, VersionsAssumption DEF ContextOK, versions_!Init
<1>5. QED BY <1>1, <1>3, <1>4 DEF VersionsInv, ServedOK

\* Changes are numbers and routes, and no two of them are of one version and one route.
LEMMA ChangeFacts ==
  ASSUME ContextOK
  PROVE  /\ ctx.current \in Nat /\ ctx.oldest \in Nat
         /\ \A c \in contract : c.version \in Nat /\ c # None
         /\ \A c, d \in contract : c.version = d.version /\ c.route = d.route => c = d
<1>1. MaxVersion \in Nat
  BY VersionsAssumption
<1>2. ctx.current \in Nat /\ ctx.oldest \in Nat
  BY <1>1 DEF ContextOK
<1>3. contract \subseteq [version : 1..MaxVersion, route : Routes]
  BY DEF ContextOK, versions_!Changes, versions_!Versions
<1>4. \A c \in contract : c.version \in Nat /\ c # None
  BY <1>1, <1>3, VersionsAssumption
<1>5. \A c, d \in contract : c.version = d.version /\ c.route = d.route => c = d
  BY <1>3
<1>6. QED BY <1>2, <1>4, <1>5

\* The way starts at the shape of the version and ends at the current one.
LEMMA WayEnds ==
  ASSUME ContextOK, RegistryOK, todo = {}, NEW v, Supported(v), NEW route
  PROVE  /\ Upto(v, route, 0) = versions_!Shape(v, route)
         /\ Upto(v, route, Len(ctx.transforms)) = versions_!Shape(ctx.current, route)
<1> DEFINE tr == ctx.transforms
           n == Len(tr)
<1>1. /\ ctx.current \in Nat /\ ctx.oldest \in Nat /\ \A c \in contract : c.version \in Nat
  BY ChangeFacts
<1>2. v \in Int /\ ctx.oldest <= v /\ v <= ctx.current
  BY <1>1 DEF Supported
<1>3. Upto(v, route, 0) = versions_!Shape(v, route)
  BY DEF Upto, versions_!Shape
<1>4. /\ \A c \in contract : c.version <= ctx.current
      /\ \A c \in contract : c.version > ctx.oldest => \E i \in 1..n : tr[i] = c
  BY DEF ContextOK, RegistryOK
<1>5. \A c \in contract : c.version <= v \/ \E i \in 1..n : tr[i] = c
  BY <1>1, <1>2, <1>4
<1>6. Upto(v, route, n) = versions_!Shape(ctx.current, route)
  BY <1>4, <1>5 DEF Upto, versions_!Shape
<1>7. QED BY <1>3, <1>6

\* One transform further, upwards
LEMMA WayUp ==
  ASSUME ContextOK, RegistryOK, NEW v, Supported(v), NEW route,
         NEW k \in 1..Len(ctx.transforms)
  PROVE  LET t == ctx.transforms[k]
         IN  Upto(v, route, k) = IF versions_!Applies(t, v, route)
                                 THEN versions_!Upgrade(Upto(v, route, k - 1), t)
                                 ELSE Upto(v, route, k - 1)
<1> DEFINE tr == ctx.transforms
           t == tr[k]
           body == Upto(v, route, k - 1)
<1>1. /\ ctx.current \in Nat /\ ctx.oldest \in Nat
      /\ \A c \in contract : c.version \in Nat /\ c # None
      /\ \A c, d \in contract : c.version = d.version /\ c.route = d.route => c = d
  BY ChangeFacts
<1>2. v \in Int
  BY <1>1 DEF Supported
<1>3. /\ Len(tr) \in Nat /\ t \in contract
      /\ \A i \in 1..(k - 1) : i \in 1..Len(tr) /\ tr[i] # t /\ tr[i].version <= t.version
  <2>1. Len(tr) \in Nat
    BY DEF RegistryOK, IsSeq
  <2>2. \A i \in 1..(k - 1) : i \in 1..Len(tr) /\ i < k
    BY <2>1
  <2>3. QED BY <2>1, <2>2 DEF RegistryOK
<1>4. \A i : i \in 1..k <=> i \in 1..(k - 1) \/ i = k
  BY <1>3
<1> HIDE DEF tr, t
<1>5. \A c : c \in Upto(v, route, k) <=> c \in body \/ (c = t /\ t.route = route)
  BY <1>3, <1>4 DEF Upto, tr, t
<1>6. CASE ~versions_!Applies(t, v, route)
  <2>1. t.route = route => t \in body
    BY <1>1, <1>2, <1>3, <1>6 DEF Upto, versions_!Applies
  <2>2. Upto(v, route, k) = body
    BY <1>5, <2>1
  <2>3. QED BY <1>6, <2>2 DEF t, tr
<1>7. CASE versions_!Applies(t, v, route)
  <2>1. t.version > v /\ t.route = route
    BY <1>7 DEF versions_!Applies
  <2>2. ASSUME NEW c \in body PROVE c # None /\ c # t /\ c.version < t.version
    <3>1. c \in contract /\ c.route = route /\ (c.version <= v \/ \E i \in 1..(k - 1) : tr[i] = c)
      BY <2>2 DEF Upto, tr
    <3>2. CASE c.version <= v
      BY <1>1, <1>2, <1>3, <2>1, <3>1, <3>2
    <3>3. CASE \E i \in 1..(k - 1) : tr[i] = c
      <4>1. c # t /\ c.version <= t.version
        BY <1>3, <3>3
      <4>2. c.version # t.version
        BY <1>1, <1>3, <2>1, <3>1, <4>1
      <4>3. QED BY <1>1, <1>3, <3>1, <4>1, <4>2
    <3>4. QED BY <3>1, <3>2, <3>3
  <2>3. Upto(v, route, k) = body \cup {t}
    BY <1>5, <2>1
  <2> HIDE DEF body
  <2>4. versions_!Upgrade(body, t) = body \cup {t}
    BY <2>2 DEF versions_!Upgrade
  <2>5. QED BY <1>7, <2>3, <2>4 DEF body, t, tr
<1>8. QED BY <1>6, <1>7

\* ... and downwards
LEMMA WayDown ==
  ASSUME ContextOK, RegistryOK, NEW v, Supported(v), NEW route,
         NEW k \in 1..Len(ctx.transforms)
  PROVE  LET t == ctx.transforms[k]
         IN  Upto(v, route, k - 1) = IF versions_!Applies(t, v, route)
                                     THEN versions_!Downgrade(Upto(v, route, k), t)
                                     ELSE Upto(v, route, k)
<1> DEFINE tr == ctx.transforms
           t == tr[k]
           body == Upto(v, route, k)
<1>1. /\ ctx.current \in Nat /\ ctx.oldest \in Nat
      /\ \A c \in contract : c.version \in Nat
  BY ChangeFacts
<1>2. v \in Int
  BY <1>1 DEF Supported
<1>3. /\ Len(tr) \in Nat /\ t \in contract
      /\ \A i \in 1..(k - 1) : i \in 1..Len(tr) /\ tr[i] # t /\ tr[i].version <= t.version
  <2>1. Len(tr) \in Nat
    BY DEF RegistryOK, IsSeq
  <2>2. \A i \in 1..(k - 1) : i \in 1..Len(tr) /\ i < k
    BY <2>1
  <2>3. QED BY <2>1, <2>2 DEF RegistryOK
<1>4. \A i : i \in 1..k <=> i \in 1..(k - 1) \/ i = k
  BY <1>3
<1> HIDE DEF tr, t
<1>5. \A c : c \in body <=> c \in Upto(v, route, k - 1) \/ (c = t /\ t.route = route)
  BY <1>3, <1>4 DEF Upto, tr, t
<1>6. CASE ~versions_!Applies(t, v, route)
  <2>1. t.route = route => t \in Upto(v, route, k - 1)
    BY <1>1, <1>2, <1>3, <1>6 DEF Upto, versions_!Applies
  <2>2. Upto(v, route, k - 1) = body
    BY <1>5, <2>1
  <2>3. QED BY <1>6, <2>2 DEF t, tr
<1>7. CASE versions_!Applies(t, v, route)
  <2>1. t.version > v /\ t.route = route
    BY <1>7 DEF versions_!Applies
  <2>2. t \in body
    BY <1>5, <2>1
  <2>3. ASSUME NEW c \in body PROVE c.version <= t.version
    <3>1. c \in contract /\ (c.version <= v \/ \E i \in 1..k : tr[i] = c)
      BY <2>3 DEF Upto, tr
    <3>2. QED BY <1>1, <1>2, <1>3, <1>4, <2>1, <3>1 DEF t
  <2>4. t \notin Upto(v, route, k - 1)
    BY <1>1, <1>2, <1>3, <2>1 DEF Upto, tr
  <2>5. Upto(v, route, k - 1) = body \ {t}
    BY <1>5, <2>4
  <2> HIDE DEF body
  <2>6. versions_!Downgrade(body, t) = body \ {t}
    BY <2>2, <2>3 DEF versions_!Downgrade
  <2>7. QED BY <1>7, <2>5, <2>6 DEF body, t, tr
<1>8. QED BY <1>6, <1>7

\* with puts a transform where it belongs.
LEMMA WithPreserves ==
  ASSUME VersionsInv, NEW t \in todo, versions_!With(t)
  PROVE  VersionsInv'
<1> DEFINE tr == ctx.transforms
           n == Len(tr)
<1>1. PICK k \in 0..n : /\ \A i \in 1..n : tr[i].version <= t.version <=> i <= k
                        /\ ctx' = [ctx EXCEPT !.transforms = versions_!InsertAt(@, k + 1, t)]
  BY DEF versions_!With
<1>2. ContextOK /\ RegistryOK /\ todo' = todo \ {t} /\ UNCHANGED <<contract, served>>
  BY DEF VersionsInv, versions_!With
<1> DEFINE new == versions_!InsertAt(tr, k + 1, t)
<1>3. /\ ctx'.transforms = new /\ ctx'.current = ctx.current /\ ctx'.oldest = ctx.oldest
      /\ ctx' = [current |-> ctx'.current, oldest |-> ctx'.oldest, default |-> ctx'.default,
                 transforms |-> ctx'.transforms]
  BY <1>1, <1>2 DEF ContextOK
<1>4. IsSeq(tr) /\ n \in Nat
  BY <1>2 DEF RegistryOK, IsSeq
<1>5. /\ IsSeq(new) /\ Len(new) = n + 1 /\ new[k + 1] = t
      /\ \A i \in 1..k : new[i] = tr[i]
      /\ \A i \in (k + 1)..n : new[i + 1] = tr[i]
  BY <1>4, Inserted
<1> HIDE DEF new
<1>6. /\ ctx.oldest \in Nat /\ \A c \in contract : c.version \in Nat
      /\ t \in contract /\ t.version > ctx.oldest
  BY <1>2, ChangeFacts DEF ContextOK
<1>7. /\ \A i \in 1..n : tr[i] \in contract /\ tr[i].version > ctx.oldest /\ tr[i] \notin todo
      /\ \A i, j \in 1..n : i < j => tr[i] # tr[j] /\ tr[i].version <= tr[j].version
      /\ \A c \in contract : c.version > ctx.oldest => c \in todo \/ \E i \in 1..n : tr[i] = c
  BY <1>2 DEF RegistryOK
<1> HIDE DEF tr, n
<1>8. ASSUME NEW i \in 1..(n + 1)
      PROVE  i \in 1..k \/ i = k + 1 \/ (i - 1 \in (k + 1)..n /\ i = (i - 1) + 1)
  BY <1>4
<1>9. ContextOK'
  BY <1>2, <1>3 DEF ContextOK, versions_!Changes, versions_!Versions
<1>10. RegistryOK'
  <2>1. ASSUME NEW i \in 1..(n + 1)
        PROVE  new[i] \in contract /\ new[i].version > ctx.oldest /\ new[i] \notin todo \ {t}
    <3>1. CASE i \in 1..k
      <4>1. i \in 1..n
        BY <1>4, <3>1
      <4>2. QED BY <1>5, <1>7, <3>1, <4>1
    <3>2. CASE i = k + 1
      BY <1>5, <1>6, <3>2
    <3>3. CASE i - 1 \in (k + 1)..n /\ i = (i - 1) + 1
      <4>1. i - 1 \in 1..n
        BY <1>4, <3>3
      <4>2. QED BY <1>5, <1>7, <3>3, <4>1
    <3>4. QED BY <1>8, <3>1, <3>2, <3>3
  <2>2. ASSUME NEW i \in 1..(n + 1), NEW j \in 1..(n + 1), i < j
        PROVE  new[i] # new[j] /\ new[i].version <= new[j].version
    <3>1. \A a \in 1..n : tr[a] # t /\ tr[a].version \in Nat
      BY <1>6, <1>7
    <3>2. t.version \in Nat
      BY <1>6
    <3>3. CASE j \in 1..k
      <4>1. i \in 1..k /\ i \in 1..n /\ j \in 1..n
        BY <1>4, <2>2, <3>3
      <4>2. QED BY <1>5, <1>7, <2>2, <3>3, <4>1
    <3>4. CASE j = k + 1
      <4>1. i \in 1..k /\ i \in 1..n /\ i <= k
        BY <1>4, <2>2, <3>4
      <4>2. QED BY <1>1, <1>5, <3>1, <3>4, <4>1 DEF tr, n
    <3>5. CASE j - 1 \in (k + 1)..n /\ j = (j - 1) + 1
      <4>1. j - 1 \in 1..n /\ ~(j - 1 <= k)
        BY <1>4, <3>5
      <4>2. new[j] = tr[j - 1]
        BY <1>5, <3>5
      <4>3. CASE i \in 1..k
        <5>1. i \in 1..n /\ i < j - 1
          BY <1>4, <3>5, <4>3
        <5>2. QED BY <1>5, <1>7, <4>1, <4>2, <4>3, <5>1
      <4>4. CASE i = k + 1
        <5>1. ~(tr[j - 1].version <= t.version)
          BY <1>1, <4>1 DEF tr, n
        <5>2. QED BY <1>5, <3>1, <3>2, <4>1, <4>2, <4>4, <5>1
      <4>5. CASE i - 1 \in (k + 1)..n /\ i = (i - 1) + 1
        <5>1. i - 1 \in 1..n /\ i - 1 < j - 1
          BY <1>4, <2>2, <4>5
        <5>2. new[i] = tr[i - 1]
          BY <1>5, <4>5
        <5>3. QED BY <1>7, <4>1, <4>2, <5>1, <5>2
      <4>6. QED BY <1>8, <4>3, <4>4, <4>5
    <3>6. QED BY <1>8, <3>3, <3>4, <3>5
  <2>3. ASSUME NEW c \in contract, c.version > ctx.oldest
        PROVE  c \in todo \ {t} \/ \E i \in 1..(n + 1) : new[i] = c
    <3>1. CASE c = t
      <4>1. k + 1 \in 1..(n + 1)
        BY <1>4
      <4>2. QED BY <1>5, <3>1, <4>1
    <3>2. CASE \E i \in 1..n : tr[i] = c
      <4>1. PICK i \in 1..n : tr[i] = c
        BY <3>2
      <4>2. CASE i <= k
        <5>1. i \in 1..k /\ i \in 1..(n + 1)
          BY <1>4, <4>2
        <5>2. QED BY <1>5, <4>1, <5>1
      <4>3. CASE ~(i <= k)
        <5>1. i \in (k + 1)..n /\ i + 1 \in 1..(n + 1)
          BY <1>4, <4>3
        <5>2. QED BY <1>5, <4>1, <5>1
      <4>4. QED BY <4>2, <4>3
    <3>3. QED BY <1>7, <2>3, <3>1, <3>2
  <2>4. QED BY <1>2, <1>3, <1>5, <2>1, <2>2, <2>3 DEF RegistryOK
<1>11. ServedOK'
  <2>1. served = None
    BY DEF VersionsInv, ServedOK
  <2>2. QED BY <1>2, <2>1 DEF ServedOK
<1>12. QED BY <1>9, <1>10, <1>11 DEF VersionsInv

\* A build that has registered nothing yet.
LEMMA DeployPreserves ==
  ASSUME ContextOK', ctx'.transforms = <<>>, served' = None,
         todo' = versions_!Kept(contract', ctx'.oldest)
  PROVE  VersionsInv'
<1>1. IsSeq(<<>>) /\ Len(<<>>) = 0
  BY DEF IsSeq
<1>2. RegistryOK'
  BY <1>1 DEF RegistryOK, versions_!Kept
<1>3. ServedOK'
  BY DEF ServedOK
<1>4. QED BY <1>2, <1>3 DEF VersionsInv

LEMMA ReleasePreserves ==
  ASSUME VersionsInv, NEW routes \in SUBSET Routes, versions_!Release(routes)
  PROVE  VersionsInv'
<1>1. ContextOK
  BY DEF VersionsInv
<1>2. /\ ctx.current < MaxVersion /\ served' = None
      /\ contract' = contract \cup {[version |-> ctx.current + 1, route |-> r] : r \in routes}
      /\ todo' = versions_!Kept(contract', ctx.oldest)
      /\ ctx' = versions_!Context(ctx.current + 1, ctx.oldest, ctx.default)
  BY DEF versions_!Release
<1>3. /\ ctx'.current = ctx.current + 1 /\ ctx'.oldest = ctx.oldest /\ ctx'.transforms = <<>>
      /\ ctx' = [current |-> ctx'.current, oldest |-> ctx'.oldest, default |-> ctx'.default,
                 transforms |-> ctx'.transforms]
  BY <1>2 DEF versions_!Context
<1>4. MaxVersion \in Nat /\ ctx.current \in 1..MaxVersion /\ ctx.oldest \in 1..MaxVersion
  BY <1>1, VersionsAssumption DEF ContextOK
<1>5. ctx'.current \in 1..MaxVersion /\ ctx'.oldest \in 1..MaxVersion
  BY <1>2, <1>3, <1>4
<1>6. ASSUME NEW c \in contract' PROVE c \in versions_!Changes /\ c.version <= ctx'.current
  <2>1. CASE c \in contract
    <3>1. c \in versions_!Changes /\ c.version \in Nat /\ c.version <= ctx.current
      BY <1>1, <2>1, ChangeFacts DEF ContextOK
    <3>2. QED BY <1>3, <1>4, <3>1
  <2>2. CASE c \in {[version |-> ctx.current + 1, route |-> r] : r \in routes}
    <3>1. PICK r \in routes : c = [version |-> ctx.current + 1, route |-> r]
      BY <2>2
    <3>2. c.version = ctx.current + 1 /\ c \in versions_!Changes
      BY <1>3, <1>5, <3>1 DEF versions_!Changes, versions_!Versions
    <3>3. QED BY <1>3, <1>4, <3>2
  <2>3. QED BY <1>2, <2>1, <2>2
<1>7. todo' \subseteq contract' /\ \A c \in todo' : c.version > ctx'.oldest
  BY <1>2, <1>3 DEF versions_!Kept
<1>8. contract' \subseteq versions_!Changes /\ \A c \in contract' : c.version <= ctx'.current
  BY <1>6
<1>9. ContextOK'
  BY <1>3, <1>5, <1>7, <1>8 DEF ContextOK, versions_!Changes, versions_!Versions
<1>10. QED BY <1>2, <1>3, <1>9, DeployPreserves

LEMMA RaiseFloorPreserves ==
  ASSUME VersionsInv, NEW oldest \in versions_!Versions, NEW default \in versions_!Versions,
         versions_!RaiseFloor(oldest, default)
  PROVE  VersionsInv'
<1>1. ContextOK
  BY DEF VersionsInv
<1>2. /\ served' = None /\ contract' = contract /\ todo' = versions_!Kept(contract, oldest)
      /\ ctx' = versions_!Context(ctx.current, oldest, default)
  BY DEF versions_!RaiseFloor
<1>3. /\ ctx'.current = ctx.current /\ ctx'.oldest = oldest /\ ctx'.transforms = <<>>
      /\ ctx' = [current |-> ctx'.current, oldest |-> ctx'.oldest, default |-> ctx'.default,
                 transforms |-> ctx'.transforms]
  BY <1>2 DEF versions_!Context
<1>4. oldest \in 1..MaxVersion
  BY DEF versions_!Versions
<1>5. todo' \subseteq contract' /\ \A c \in todo' : c.version > ctx'.oldest
  BY <1>2, <1>3 DEF versions_!Kept
<1>6. ContextOK'
  BY <1>1, <1>2, <1>3, <1>4, <1>5 DEF ContextOK, versions_!Changes, versions_!Versions
<1>7. QED BY <1>2, <1>3, <1>6, DeployPreserves

\* A step of a request leaves the build alone.
LEMMA SameBuild ==
  ASSUME VersionsInv, UNCHANGED <<ctx, contract, todo>>, ServedOK'
  PROVE  VersionsInv'
<1>1. ContextOK'
  BY DEF VersionsInv, ContextOK, versions_!Changes, versions_!Versions
<1>2. RegistryOK'
  BY DEF VersionsInv, RegistryOK
<1>3. QED BY <1>1, <1>2 DEF VersionsInv

\* ServedOK after such a step
LEMMA ServedStep ==
  ASSUME UNCHANGED <<ctx, contract, todo>>, todo = {},
         served'.status = 0 => /\ served' = [f \in WorkFields |-> served'[f]]
                               /\ Supported(served'.version) => RewriteOK(served'),
         served'.status = 200 /\ Supported(served'.version) => AnswerOK(served')
  PROVE  ServedOK'
<1>1. RewriteOK(served)' <=> RewriteOK(served')
  BY DEF RewriteOK, Upto, versions_!Shape
<1>2. AnswerOK(served)' <=> AnswerOK(served')
  BY DEF AnswerOK, versions_!Shape
<1>3. Supported(served.version)' <=> Supported(served'.version)
  BY DEF Supported
<1>4. QED BY <1>1, <1>2, <1>3 DEF ServedOK

LEMMA RejectedOK ==
  ASSUME UNCHANGED <<ctx, contract, todo>>, todo = {},
         NEW why \in {"Malformed", "FromTheFuture", "Sunset", "NotTransformable"},
         versions_!Reject(why)
  PROVE  ServedOK'
<1>1. served'.status \in {400, 410, 500}
  BY DEF versions_!Reject, versions_!RejectionStatus
<1>2. served'.status # 0 /\ served'.status # 200
  BY <1>1
<1>3. QED BY <1>2, ServedStep

LEMMA UpgradePreserves ==
  ASSUME VersionsInv, versions_!UpgradeRequest
  PROVE  VersionsInv'
<1> DEFINE s == served
           t == ctx.transforms[s.at]
<1>1. /\ s # None /\ s.status = 0 /\ s.phase = "request" /\ s.at <= Len(ctx.transforms)
      /\ UNCHANGED <<ctx, contract, todo>>
  BY DEF versions_!UpgradeRequest, versions_!Rewriting
<1>2. /\ ContextOK /\ RegistryOK /\ todo = {} /\ s = [f \in WorkFields |-> s[f]]
      /\ Supported(s.version) => RewriteOK(s)
  BY <1>1 DEF VersionsInv, ServedOK
<1>3. served' = [s EXCEPT !.at = @ + 1,
                    !.saw = IF versions_!Applies(t, s.version, s.route)
                            THEN versions_!Upgrade(@, t) ELSE @]
  BY DEF versions_!UpgradeRequest
<1>4. /\ served' = [f \in WorkFields |-> served'[f]]
      /\ served'.status = 0 /\ served'.phase = "request" /\ served'.version = s.version
      /\ served'.route = s.route /\ served'.at = s.at + 1
      /\ served'.saw = IF versions_!Applies(t, s.version, s.route)
                       THEN versions_!Upgrade(s.saw, t) ELSE s.saw
  BY <1>1, <1>2, <1>3 DEF WorkFields
<1>5. ASSUME Supported(s.version) PROVE RewriteOK(served')
  <2> DEFINE n == Len(ctx.transforms)
             k == s.at
  <2>1. n \in Nat
    BY <1>2 DEF RegistryOK, IsSeq
  <2>2. \/ s.saw = None /\ k = n + 1
        \/ k \in 1..(n + 1) /\ s.saw = Upto(s.version, s.route, k - 1)
    BY <1>1, <1>2, <1>5 DEF RewriteOK
  <2>3. k \in 1..n /\ s.saw = Upto(s.version, s.route, k - 1)
    BY <1>1, <2>1, <2>2
  <2>4. served'.saw = Upto(s.version, s.route, k)
    BY <1>2, <1>4, <1>5, <2>3, WayUp
  <2>5. k + 1 \in 1..(n + 1) /\ (k + 1) - 1 = k
    BY <2>1, <2>3
  <2>6. QED BY <1>4, <2>4, <2>5 DEF RewriteOK
<1>6. ServedOK'
  <2>1. served'.status # 200
    BY <1>4
  <2>2. QED BY <1>1, <1>2, <1>4, <1>5, <2>1, ServedStep
<1>7. QED BY <1>1, <1>6, SameBuild

LEMMA DowngradePreserves ==
  ASSUME VersionsInv, versions_!DowngradeResponse
  PROVE  VersionsInv'
<1> DEFINE s == served
           t == ctx.transforms[s.at]
<1>1. /\ s # None /\ s.status = 0 /\ s.phase = "response" /\ s.at >= 1
      /\ UNCHANGED <<ctx, contract, todo>>
  BY DEF versions_!DowngradeResponse, versions_!Rewriting
<1>2. /\ ContextOK /\ RegistryOK /\ todo = {} /\ s = [f \in WorkFields |-> s[f]]
      /\ Supported(s.version) => RewriteOK(s)
  BY <1>1 DEF VersionsInv, ServedOK
<1>3. served' = [s EXCEPT !.at = @ - 1,
                    !.body = IF versions_!Applies(t, s.version, s.route)
                             THEN versions_!Downgrade(@, t) ELSE @]
  BY DEF versions_!DowngradeResponse, versions_!Downgraded
<1>4. /\ served' = [f \in WorkFields |-> served'[f]]
      /\ served'.status = 0 /\ served'.phase = "response" /\ served'.version = s.version
      /\ served'.route = s.route /\ served'.at = s.at - 1 /\ served'.saw = s.saw
      /\ served'.body = IF versions_!Applies(t, s.version, s.route)
                        THEN versions_!Downgrade(s.body, t) ELSE s.body
  BY <1>1, <1>2, <1>3 DEF WorkFields
<1>5. ASSUME Supported(s.version) PROVE RewriteOK(served')
  <2> DEFINE n == Len(ctx.transforms)
             k == s.at
  <2>1. n \in Nat
    BY <1>2 DEF RegistryOK, IsSeq
  <2>2. /\ s.saw \in {None, versions_!Shape(ctx.current, s.route)}
        /\ \/ s.body = None /\ k = 0
           \/ k \in 0..n /\ s.body = Upto(s.version, s.route, k)
    BY <1>1, <1>2, <1>5 DEF RewriteOK
  <2>3. k \in 1..n /\ s.body = Upto(s.version, s.route, k)
    BY <1>1, <2>1, <2>2
  <2>4. served'.body = Upto(s.version, s.route, k - 1)
    BY <1>2, <1>4, <1>5, <2>3, WayDown
  <2>5. k - 1 \in 0..n
    BY <2>1, <2>3
  <2>6. QED BY <1>4, <2>2, <2>4, <2>5 DEF RewriteOK
<1>6. ServedOK'
  <2>1. served'.status # 200
    BY <1>4
  <2>2. QED BY <1>1, <1>2, <1>4, <1>5, <2>1, ServedStep
<1>7. QED BY <1>1, <1>6, SameBuild

\* The handler's answer starts its way at the current shape; the request has reached it.
LEMMA RewriteResponsePreserves ==
  ASSUME VersionsInv, NEW kind, versions_!RewriteResponse(kind)
  PROVE  VersionsInv'
<1> DEFINE s == served
           n == Len(ctx.transforms)
<1>1. /\ s # None /\ s.status = 0 /\ s.phase = "request" /\ s.at = n + 1
      /\ UNCHANGED <<ctx, contract, todo>>
  BY DEF versions_!RewriteResponse, versions_!Rewriting
<1>2. /\ ContextOK /\ RegistryOK /\ todo = {} /\ s = [f \in WorkFields |-> s[f]]
      /\ Supported(s.version) => RewriteOK(s)
  BY <1>1 DEF VersionsInv, ServedOK
<1>3. CASE kind = "big"
  <2>1. versions_!Reject("NotTransformable")
    BY <1>3 DEF versions_!RewriteResponse
  <2>2. QED BY <1>1, <1>2, <2>1, RejectedOK, SameBuild
<1>4. CASE kind # "big"
  <2>1. served' = [s EXCEPT !.phase = "response", !.at = IF kind = "json" THEN n ELSE 0,
                      !.body = IF kind = "json" THEN versions_!Shape(ctx.current, s.route) ELSE None]
    BY <1>4 DEF versions_!RewriteResponse
  <2>2. /\ served' = [f \in WorkFields |-> served'[f]]
        /\ served'.status = 0 /\ served'.phase = "response" /\ served'.version = s.version
        /\ served'.route = s.route /\ served'.saw = s.saw
        /\ served'.at = IF kind = "json" THEN n ELSE 0
        /\ served'.body = IF kind = "json" THEN versions_!Shape(ctx.current, s.route) ELSE None
    BY <1>1, <1>2, <2>1 DEF WorkFields
  <2>3. ASSUME Supported(s.version) PROVE RewriteOK(served')
    <3>1. n \in Nat /\ (n + 1) - 1 = n /\ n \in 0..n
      BY <1>2 DEF RegistryOK, IsSeq
    <3>2. Upto(s.version, s.route, n) = versions_!Shape(ctx.current, s.route)
      BY <1>2, <2>3, WayEnds
    <3>3. s.saw = None \/ s.saw = Upto(s.version, s.route, (n + 1) - 1)
      BY <1>1, <1>2, <2>3 DEF RewriteOK
    <3>4. s.saw \in {None, versions_!Shape(ctx.current, s.route)}
      BY <3>1, <3>2, <3>3
    <3>5. QED BY <2>2, <3>1, <3>2, <3>4 DEF RewriteOK
  <2>4. served'.status # 200
    BY <2>2
  <2>5. ServedOK'
    BY <1>1, <1>2, <2>2, <2>3, <2>4, ServedStep
  <2>6. QED BY <1>1, <2>5, SameBuild
<1>5. QED BY <1>3, <1>4

LEMMA RewrittenPreserves ==
  ASSUME VersionsInv, versions_!Rewritten
  PROVE  VersionsInv'
<1> DEFINE s == served
<1>1. /\ s # None /\ s.status = 0 /\ s.phase = "response" /\ s.at = 0
      /\ UNCHANGED <<ctx, contract, todo>>
      /\ served' = [status |-> 200, version |-> s.version, route |-> s.route, saw |-> s.saw,
                    body |-> s.body]
  BY DEF versions_!Rewritten, versions_!Rewriting, versions_!Respond
<1>2. /\ ContextOK /\ RegistryOK /\ todo = {}
      /\ Supported(s.version) => RewriteOK(s)
  BY <1>1 DEF VersionsInv, ServedOK
<1>3. /\ served'.status = 200 /\ served'.version = s.version /\ served'.route = s.route
      /\ served'.saw = s.saw /\ served'.body = s.body
  BY <1>1
<1>4. ASSUME Supported(s.version) PROVE AnswerOK(served')
  <2>1. /\ s.saw \in {None, versions_!Shape(ctx.current, s.route)}
        /\ s.body = None \/ s.body = Upto(s.version, s.route, 0)
    BY <1>1, <1>2, <1>4 DEF RewriteOK
  <2>2. Upto(s.version, s.route, 0) = versions_!Shape(s.version, s.route)
    BY <1>2, <1>4, WayEnds
  <2>3. QED BY <1>3, <2>1, <2>2 DEF AnswerOK
<1>5. ServedOK'
  <2>1. served'.status # 0
    BY <1>3
  <2>2. QED BY <1>1, <1>2, <1>3, <1>4, <2>1, ServedStep
<1>6. QED BY <1>1, <1>5, SameBuild

\* negotiate: what is passed through has no change in its way.
LEMMA RequestPreserves ==
  ASSUME VersionsInv, NEW route, versions_!Request(route)
  PROVE  VersionsInv'
<1>1. todo = {} /\ UNCHANGED <<ctx, contract, todo>> /\ ContextOK /\ RegistryOK
  BY DEF versions_!Request, VersionsInv
<1>2. PICK raw, pin, sent : versions_!Negotiate(raw, pin, route, sent)
  BY DEF versions_!Request
<1> DEFINE r == versions_!Resolve(raw, pin)
           v == r.version
<1>3. CASE ~r.ok /\ versions_!Reject(r.why)
  <2>1. r.why \in {"Malformed", "FromTheFuture", "Sunset"}
    BY <1>3 DEF versions_!Resolve
  <2> HIDE DEF r
  <2>2. ServedOK'
    BY <1>1, <1>3, <2>1, RejectedOK
  <2>3. QED BY <1>1, <2>2, SameBuild
<1>4. CASE /\ ~versions_!Touches(v, route)
           /\ \E answered \in versions_!Kinds :
                 versions_!Respond(v, route, versions_!Untouched(versions_!Shape(v, route), sent),
                    versions_!Untouched(versions_!Shape(ctx.current, route), answered))
  <2> HIDE DEF v
  <2>1. PICK answered :
          versions_!Respond(v, route, versions_!Untouched(versions_!Shape(v, route), sent),
                    versions_!Untouched(versions_!Shape(ctx.current, route), answered))
    BY <1>4
  <2>2. /\ served'.status = 200 /\ served'.version = v /\ served'.route = route
        /\ served'.saw \in {None, versions_!Shape(v, route)}
        /\ served'.body \in {None, versions_!Shape(ctx.current, route)}
    BY <2>1 DEF versions_!Respond, versions_!Untouched
  <2>3. ASSUME Supported(v) PROVE versions_!Shape(v, route) = versions_!Shape(ctx.current, route)
    <3>1. /\ Upto(v, route, 0) = versions_!Shape(v, route)
          /\ Upto(v, route, Len(ctx.transforms)) = versions_!Shape(ctx.current, route)
      BY <1>1, <2>3, WayEnds
    <3>2. v \in Int /\ \A c \in contract : c.version \in Nat
      BY <1>1, <2>3, ChangeFacts DEF Supported
    <3>3. \A i \in 1..Len(ctx.transforms) :
            ctx.transforms[i].route = route => ~(ctx.transforms[i].version > v)
      BY <1>4 DEF versions_!Touches, versions_!Applies
    <3>4. \A c \in contract : c.route = route /\ (\E i \in 1..Len(ctx.transforms) : ctx.transforms[i] = c)
                                => c.version <= v
      BY <3>2, <3>3
    <3>5. Upto(v, route, Len(ctx.transforms)) = Upto(v, route, 0)
      BY <3>4 DEF Upto
    <3>6. QED BY <3>1, <3>5
  <2>4. ASSUME Supported(v) PROVE AnswerOK(served')
    BY <2>2, <2>3, <2>4 DEF AnswerOK
  <2>5. served'.status # 0
    BY <2>2
  <2>6. ServedOK'
    BY <1>1, <2>2, <2>4, <2>5, ServedStep
  <2>7. QED BY <1>1, <2>6, SameBuild
<1>5. CASE versions_!RewriteRequest(v, route, sent)
  <2> HIDE DEF v
  <2>1. CASE sent = "big"
    <3>1. versions_!Reject("NotTransformable")
      BY <1>5, <2>1 DEF versions_!RewriteRequest
    <3>2. QED BY <1>1, <3>1, RejectedOK, SameBuild
  <2>2. CASE sent # "big"
    <3> DEFINE n == Len(ctx.transforms)
    <3>1. served' = [status |-> 0, phase |-> "request", version |-> v, route |-> route,
                     at |-> IF sent = "json" THEN 1 ELSE n + 1,
                     saw |-> IF sent = "json" THEN versions_!Shape(v, route) ELSE None,
                     body |-> None]
      BY <1>5, <2>2 DEF versions_!RewriteRequest
    <3>2. /\ served' = [f \in WorkFields |-> served'[f]]
          /\ served'.status = 0 /\ served'.phase = "request" /\ served'.version = v
          /\ served'.route = route /\ served'.at = IF sent = "json" THEN 1 ELSE n + 1
          /\ served'.saw = IF sent = "json" THEN versions_!Shape(v, route) ELSE None
      BY <3>1 DEF WorkFields
    <3>3. ASSUME Supported(v) PROVE RewriteOK(served')
      <4>1. n \in Nat /\ 1 \in 1..(n + 1) /\ 1 - 1 = 0
        BY <1>1 DEF RegistryOK, IsSeq
      <4>2. Upto(v, route, 1 - 1) = versions_!Shape(v, route)
        BY <1>1, <3>3, <4>1, WayEnds
      <4>3. QED BY <3>2, <4>1, <4>2 DEF RewriteOK
    <3>4. served'.status # 200
      BY <3>2
    <3>5. ServedOK'
      BY <1>1, <3>2, <3>3, <3>4, ServedStep
    <3>6. QED BY <1>1, <3>5, SameBuild
  <2>3. QED BY <2>1, <2>2
<1>6. QED BY <1>2, <1>3, <1>4, <1>5 DEF versions_!Negotiate

LEMMA VersionsInductive == VersionsInv /\ versions_!Next => VersionsInv'
<1> SUFFICES ASSUME VersionsInv, versions_!Next PROVE VersionsInv'
  OBVIOUS
<1>1. CASE versions_!Answered
  <2>1. served' = None /\ UNCHANGED <<ctx, contract, todo>>
    BY <1>1 DEF versions_!Answered
  <2>2. ServedOK'
    BY <2>1 DEF ServedOK
  <2>3. QED BY <2>1, <2>2, SameBuild
<1>2. CASE versions_!UpgradeRequest \/ versions_!DowngradeResponse \/ versions_!Rewritten
  BY <1>2, UpgradePreserves, DowngradePreserves, RewrittenPreserves
<1>3. CASE \E kind \in versions_!Kinds : versions_!RewriteResponse(kind)
  BY <1>3, RewriteResponsePreserves
<1>4. CASE \E t \in todo : versions_!With(t)
  BY <1>4, WithPreserves
<1>5. CASE \E routes \in SUBSET Routes : versions_!Release(routes)
  BY <1>5, ReleasePreserves
<1>6. CASE \E oldest, default \in versions_!Versions : versions_!RaiseFloor(oldest, default)
  BY <1>6, RaiseFloorPreserves
<1>7. CASE \E route \in Routes : versions_!Request(route)
  BY <1>7, RequestPreserves
<1>8. QED BY <1>1, <1>2, <1>3, <1>4, <1>5, <1>6, <1>7 DEF versions_!Next

LEMMA VersionsPreserved == VersionsInv /\ [EdgeNext]_edgeVars => VersionsInv'
<1> SUFFICES ASSUME VersionsInv, [EdgeNext]_edgeVars PROVE VersionsInv'
  OBVIOUS
<1>1. CASE VersionsStep
  BY <1>1, VersionsInductive DEF VersionsStep
<1>2. CASE UNCHANGED versionsVars
  <2>1. UNCHANGED <<ctx, contract, todo, served>>
    BY <1>2 DEF versionsVars
  <2>2. ServedOK'
    BY <2>1 DEF VersionsInv, ServedOK, Supported, RewriteOK, AnswerOK, Upto, versions_!Shape
  <2>3. QED BY <2>1, <2>2, SameBuild
<1>3. QED
  BY <1>1, <1>2 DEF EdgeNext, edgeVars, LimiterStep, HttpStep, BillingStep, ScopesStep, PoolStep

\* transform.rs:89-93, policy.rs:97-100: for any number of contracts, on any routes, with
\* the transforms registered in any order, a client at a supported version is answered in
\* the shape of its version and its request reaches the handler in the current one, or the
\* answer is an error.
THEOREM ShapesCorrect == EdgeSpec => []ServedInItsShape
<1>1. EdgeInit => VersionsInv
  BY VersionsInitially DEF EdgeInit
<1>2. VersionsInv => ServedInItsShape
  BY DEF VersionsInv, ServedOK, Supported, AnswerOK, ServedInItsShape, versions_!ServedInItsShape
<1>3. QED BY <1>1, <1>2, VersionsPreserved, PTL DEF EdgeSpec

=============================================================================
