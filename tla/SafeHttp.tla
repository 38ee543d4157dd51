------------------------------ MODULE SafeHttp ------------------------------
(***************************************************************************)
(* The guarded outbound requests of crates/http: safe_get with its manual  *)
(* redirects, safe_post_form, the address check and the capped body.  The  *)
(* client keeps nothing between requests, so one request is followed.      *)
(* Servers answer as they like, and every DNS lookup may answer something  *)
(* else than the one before.                                               *)
(***************************************************************************)
EXTENDS Naturals, Sequences, FiniteSets

CONSTANTS Addresses,     \* what lookup_host may answer
          MaxRedirects,  \* SafeFetchOpts::max_redirects
          MaxBodyBytes,  \* SafeFetchOpts::max_body_bytes, in chunks' units
          None

VARIABLE fetch

hvars == <<fetch>>

NoFetch == [phase |-> "idle", method |-> None, hops |-> 0, pinned |-> None,
            peer |-> None, requests |-> 0, bytes |-> 0, result |-> None]

Init == fetch = NoFetch

-----------------------------------------------------------------------------
\* Addresses: four octets, or eight segments

\* is_public_unicast_v4, the predicates of Ipv4Addr spelled out
IsPublicUnicastV4(o) ==
    /\ o # <<255, 255, 255, 255>>
    /\ o[1] \notin {0, 10, 127} /\ o[1] < 224
    /\ ~(o[1] = 172 /\ o[2] \in 16..31) /\ ~(o[1] = 192 /\ o[2] = 168)
    /\ ~(o[1] = 169 /\ o[2] = 254)
    /\ <<o[1], o[2], o[3]>> \notin {<<192, 0, 0>>, <<192, 0, 2>>, <<198, 51, 100>>,
                                    <<203, 0, 113>>, <<192, 88, 99>>}
    /\ ~(o[1] = 100 /\ o[2] \in 64..127) /\ ~(o[1] = 198 /\ o[2] \in {18, 19})

Octets(hi, lo) == <<hi \div 256, hi % 256, lo \div 256, lo % 256>>

\* embedded_v4: to_ipv4 (mapped or compatible), NAT64, 6to4
EmbeddedV4(s) ==
    CASE \A i \in 1..5 : s[i] = 0 /\ s[6] \in {0, 65535} -> Octets(s[7], s[8])
      [] s[1] = 100 /\ s[2] = 65435 /\ \A i \in 3..6 : s[i] = 0 -> Octets(s[7], s[8])
      [] s[1] = 8194 -> Octets(s[2], s[3])
      [] OTHER -> None

\* is_public_unicast_v6: masks are divisions by the power of two below them
IsPublicUnicastV6(s) ==
    /\ s \notin {<<0, 0, 0, 0, 0, 0, 0, 0>>, <<0, 0, 0, 0, 0, 0, 0, 1>>} /\ s[1] < 65280
    /\ s[1] \div 512 # 126 /\ s[1] \div 64 \notin {1018, 1019}
    /\ ~(s[1] = 8193 /\ (s[2] \div 512 = 0 \/ s[2] = 3512))
    /\ ~(s[1] = 16383 /\ s[2] \div 4096 = 0)
    /\ ~(s[1] = 256 /\ s[2] = 0 /\ s[3] = 0 /\ s[4] = 0)
    /\ ~(s[1] = 100 /\ s[2] = 65435 /\ s[3] = 1)
    /\ EmbeddedV4(s) # None => IsPublicUnicastV4(EmbeddedV4(s))

\* is_public_unicast
IsPublicUnicast(a) == IF Len(a) = 4 THEN IsPublicUnicastV4(a) ELSE IsPublicUnicastV6(a)

-----------------------------------------------------------------------------
\* A request

End(result) == fetch' = [fetch EXCEPT !.phase = "done", !.pinned = None, !.result = result]

\* safe_get or safe_post_form is called; the one before is forgotten.
Start(method) ==
    /\ fetch.phase \in {"idle", "done"}
    /\ fetch' = [NoFetch EXCEPT !.phase = "url", !.method = method]

\* The URL at hand, from the caller or a Location header: refused for its form or its
\* scheme, or naming a host or an address.
RefusedUrl ==
    /\ fetch.phase = "url"
    /\ \E why \in {"InvalidUrl", "UnsupportedScheme", "MissingHost"} : End(why)

\* What lookup_host may return (external); an address literal is its own answer.
Answers == {<<a>> : a \in Addresses} \cup (Addresses \X Addresses)

\* resolve_and_validate: one address that is not public refuses them all, the first is pinned
ResolveAndValidate(answer) ==
    /\ fetch.phase = "url"
    /\ IF \E i \in 1..Len(answer) : ~IsPublicUnicast(answer[i]) THEN End("BlockedAddress")
       ELSE fetch' = [fetch EXCEPT !.phase = "send", !.pinned = answer[1]]

LookupFails ==
    /\ fetch.phase = "url"
    /\ \E why \in {"DnsLookup", "DnsEmpty"} : End(why)

\* Mutant: the client resolves the name again.
ConnectsByName == Addresses

\* The client is built with resolve(host, pinned), without proxy and redirect policy.
Connects == {fetch.pinned}

\* send().await
Send ==
    /\ fetch.phase = "send"
    /\ \E a \in Connects :
          fetch' = [fetch EXCEPT !.phase = "sent", !.peer = a, !.requests = @ + 1]

\* A redirection, which only safe_get follows: at most MaxRedirects, and only with a
\* Location that joins to a URL, which goes through the same checks.
Redirect(location) ==
    /\ fetch.phase = "sent" /\ fetch.method = "get"
    /\ IF fetch.hops >= MaxRedirects THEN End("TooManyRedirects")
       ELSE IF location = "none" THEN End("BadRedirect")
       ELSE IF location = "unjoinable" THEN End("InvalidUrl")
       ELSE fetch' = [fetch EXCEPT !.phase = "url", !.pinned = None, !.hops = @ + 1]

\* Any other answer; to a POST, redirections too.
Answer ==
    /\ fetch.phase = "sent"
    /\ fetch' = [fetch EXCEPT !.phase = "body"]

\* read_capped: one chunk
Chunk(n) ==
    /\ fetch.phase = "body"
    /\ IF fetch.bytes + n > MaxBodyBytes THEN End("BodyTooLarge")
       ELSE fetch' = [fetch EXCEPT !.bytes = @ + n]

EndOfBody ==
    /\ fetch.phase = "body"
    /\ End("Ok")

\* reqwest fails, or tokio::time::timeout drops the future, at any await.
Fails ==
    /\ fetch.phase \in {"url", "send", "sent", "body"}
    /\ \E why \in {"Http", "Timeout"} : End(why)

Next ==
    \/ \E method \in {"get", "post"} : Start(method)
    \/ RefusedUrl \/ LookupFails \/ \E answer \in Answers : ResolveAndValidate(answer)
    \/ Send \/ Answer
    \/ \E location \in {"none", "unjoinable", "url"} : Redirect(location)
    \/ \E n \in 1..2 : Chunk(n)
    \/ EndOfBody \/ Fails

-----------------------------------------------------------------------------

\* Loopback, private, shared, link-local and reserved IPv4 blocks: their first and last /16.
InternalV4 ==
    {<<0, 255>>, <<2560, 2815>>, <<25664, 25727>>, <<32512, 32767>>, <<43518, 43518>>,
     <<44048, 44063>>, <<49320, 49320>>, <<57344, 65535>>}

\* Unique local, link- and site-local and multicast IPv6 blocks: their first and last /16.
InternalV6 == {<<64512, 65023>>, <<65152, 65279>>, <<65280, 65535>>}

\* Where a packet to a ends up: IPv6 addresses that carry an IPv4 address are translated,
\* those of 6to4 and of the prefixes of mapped addresses and of NAT64.
Prefixes == {<<0, 0, 0, 0, 0, 65535>>, <<100, 65435, 0, 0, 0, 0>>}

Destination(a) ==
    IF Len(a) = 4 THEN a
    ELSE IF a[1] = 8194 THEN Octets(a[2], a[3])
    ELSE IF \E p \in Prefixes : \A i \in 1..6 : a[i] = p[i] THEN Octets(a[7], a[8])
    ELSE a

Internal(a) ==
    IF Len(a) = 4 THEN \E b \in InternalV4 : a[1] * 256 + a[2] \in b[1]..b[2]
    ELSE (\E b \in InternalV6 : a[1] \in b[1]..b[2]) \/ \A i \in 1..7 : a[i] = 0

\* lib.rs:7-25: however names resolve from one moment to the next and wherever servers
\* redirect to, a request goes to public addresses only, takes at most MaxRedirects
\* redirections (a POST none), and hands out no more than the body limit.
OnlyVettedPeers ==
    /\ fetch.peer # None => ~Internal(Destination(fetch.peer))
    /\ fetch.requests <= (IF fetch.method = "get" THEN MaxRedirects + 1 ELSE 1)
    /\ fetch.bytes <= MaxBodyBytes

=============================================================================
