----------------------------- MODULE CachePool -----------------------------
(***************************************************************************)
(* The Valkey pool of crates/cache (lib.rs): the configuration, what its   *)
(* Debug shows, the encoding of a password in the URL, and connect, which  *)
(* probes the server for a bounded time and otherwise leaves a pool that   *)
(* reconnects in the background.  The server goes up and down at any time. *)
(*                                                                         *)
(* URLs are sequences of characters, of which x stands for every letter    *)
(* and digit; the scheme in front is left out.                             *)
(***************************************************************************)
EXTENDS Naturals, Sequences, SequencesExt

CONSTANTS MaxPassword,  \* longest password of this instance
          None

VARIABLES
    server,  \* up or down, and whether it takes the certificate and the password
    config,  \* the CacheConfig the process started with
    call,    \* connect: where it is, what it returned
    pools    \* the fred pools, the probe and the second one: none yet, running, told to quit

uvars == <<server, config, call, pools>>

-----------------------------------------------------------------------------
\* URLs

\* ? stands for # too, which the code treats alike.
Reserved == {"@", ":", "/", "?", "%"}
Passwords == UNION {[1..n -> {"x"} \cup Reserved] : n \in 1..MaxPassword}
Host == <<"h">>
Tails == {<<>>, <<"/", "0">>, <<"?", "n", "=", "@">>}

\* The places of cs in s, and the part of s before the first of them.
Places(s, cs) == {i \in 1..Len(s) : s[i] \in cs}
Before(s, cs) ==
    IF Places(s, cs) = {} THEN s
    ELSE SubSeq(s, 1, (CHOOSE i \in Places(s, cs) : \A j \in Places(s, cs) : i <= j) - 1)
LastAt(s) == CHOOSE i \in Places(s, {"@"}) : \A j \in Places(s, {"@"}) : j <= i
From(s, i) == SubSeq(s, i, Len(s))

\* utf8_percent_encode with NON_ALPHANUMERIC, and its inverse in fred
Escape(c) ==
    CASE c = "@" -> "%40" [] c = ":" -> "%3A" [] c = "/" -> "%2F" [] c = "?" -> "%3F"
      [] c = "%" -> "%25"
Encode(s) == [i \in 1..Len(s) |-> IF s[i] \in Reserved THEN Escape(s[i]) ELSE s[i]]
Decode(s) == [i \in 1..Len(s) |-> IF \E c \in Reserved : s[i] = Escape(c)
                                  THEN CHOOSE c \in Reserved : s[i] = Escape(c) ELSE s[i]]

\* Mutant: a slash ends the authority before the password has been encoded.
PercentEncodeUserinfoBeforeSlash(url) ==
    LET bound == Before(url, {"/", "?"})
    IN  IF "@" \notin Range(bound) THEN url
        ELSE LET info == SubSeq(url, 1, LastAt(bound) - 1)
             IN  <<":">> \o Encode(From(info, 2)) \o From(url, LastAt(bound))

\* percent_encode_userinfo: the last @ before any ? ends the userinfo, the first : in it
\* the (empty) user
PercentEncodeUserinfo(url) ==
    LET bound == Before(url, {"?"})
    IN  IF "@" \notin Range(bound) THEN url
        ELSE LET info == SubSeq(url, 1, LastAt(bound) - 1)
                 user == Before(info, {":"})
             IN  Encode(user) \o (IF user = info THEN <<>>
                                  ELSE <<":">> \o Encode(From(info, Len(user) + 2)))
                 \o From(url, LastAt(bound))

\* Config::from_url (external): the authority ends at the first / or ?, the userinfo at its
\* last @.  A host is letters: a URL whose host is empty or has anything else is refused.
FromUrl(url) ==
    LET authority == Before(url, {"/", "?"})
        info == IF "@" \in Range(authority) THEN SubSeq(authority, 1, LastAt(authority) - 1)
                ELSE <<>>
        host == IF "@" \in Range(authority) THEN From(authority, LastAt(authority) + 1)
                ELSE authority
    IN  [host |-> host,
         password |-> IF Len(Before(info, {":"})) + 2 <= Len(info)
                      THEN Decode(From(info, Len(Before(info, {":"})) + 2)) ELSE None]

\* redact_url, as Debug for CacheConfig uses it
RedactUrl(url) ==
    LET bound == Before(url, {"?"})
    IN  CASE "@" \in Range(bound) -> Before(From(url, LastAt(bound) + 1), {"/", "?"})
          [] "@" \in Range(url) /\ "@" \notin Range(bound) -> <<"<redacted>">>
          [] OTHER -> Before(url, {"/", "?"})

-----------------------------------------------------------------------------
\* Configurations

\* from_env: a password in the URL, one in VALKEY_PASSWORD, both or neither; a CA file,
\* with redis:// too; VALKEY_POOL_SIZE
EnvPasswords == {<<"x">>, <<"?", "%">>}
Configs ==
    [url : Passwords \cup {None}, env : EnvPasswords \cup {None}, tail : Tails,
     tls : BOOLEAN, ca : {"none", "good", "bad"}, pool_size : {0, 6}]

Url(c) == (IF c.url # None THEN <<":">> \o c.url \o <<"@">> ELSE <<>>) \o Host \o c.tail

\* The password that is meant: the environment's before the URL's.
Password(c) == IF c.env # None THEN c.env ELSE c.url

\* lib.rs:41-46: a URL cannot carry a password with a raw ?
Representable(c) == c.url # None => "?" \notin Range(c.url)

NoCall == [phase |-> "idle", cfg |-> None, result |-> None]
NoPools == [p \in {"probe", "pool"} |-> "none"]

Init ==
    /\ server = "down"
    /\ config = None
    /\ call = NoCall
    /\ pools = NoPools

\* The process starts.
FromEnv(c) ==
    /\ config = None
    /\ config' = c
    /\ UNCHANGED <<server, call, pools>>

ServerToggles ==
    /\ server' \in {"up", "down", "rejecting"} \ {server}
    /\ UNCHANGED <<config, call, pools>>

-----------------------------------------------------------------------------
\* connect

Return(result) == call' = [call EXCEPT !.phase = "done", !.result = result]

\* What connect hands to fred: config.password takes priority over the URL's.
Sanitized(c) ==
    LET cfg == FromUrl(PercentEncodeUserinfo(Url(c)))
    IN  IF c.env # None THEN [cfg EXCEPT !.password = c.env] ELSE cfg

\* from_url refuses the URL, rustls_config_with_ca the file, which is read with rediss:// only,
\* or Pool::new the size (external).
Misconfigured(c) ==
    \/ Sanitized(c).host = <<>> \/ Range(Sanitized(c).host) \cap Reserved # {}
    \/ c.tls /\ c.ca = "bad"
    \/ c.pool_size = 0

\* Up to the probe, which is built and started.
Connect ==
    /\ config # None /\ call.phase = "idle"
    /\ IF Misconfigured(config) THEN Return("misconfigured") /\ UNCHANGED pools
       ELSE /\ call' = [call EXCEPT !.phase = "probing", !.cfg = Sanitized(config)]
            /\ pools' = [pools EXCEPT !["probe"] = "running"]
    /\ UNCHANGED <<server, config>>

\* The server takes the connection: the right host and the right password.
Accepts == server = "up" /\ call.cfg.host = Host /\ call.cfg.password = Password(config)

\* wait_for_connect returns: connected, or what fail_fast reports
ProbeConnects ==
    /\ call.phase = "probing" /\ Accepts
    /\ Return("ok")
    /\ UNCHANGED <<server, config, pools>>

\* is_transient
IsTransient(error) == error \in {"Timeout", "Canceled", "refused", "reset", "lookup"}

Errors ==
    IF server = "down" THEN {"refused", "reset", "lookup", "Timeout"}
    ELSE IF Accepts THEN {} ELSE {"Auth", "Tls"}

\* Mutant: the probe is left alone.
QuitForgotten(p) == UNCHANGED pools

\* quit: the pool is told to close.  Its answer is ignored, so it may still be closing, or
\* fail to (external).
Quit(p) == pools' = [pools EXCEPT ![p] = "quit"]

\* An error of the probe: quit it, and give up or go on without fail_fast.
ProbeFails(error) ==
    /\ call.phase = "probing" /\ error \in Errors
    /\ Quit("probe")
    /\ IF IsTransient(error) THEN call' = [call EXCEPT !.phase = "background"]
       ELSE Return("refused")
    /\ UNCHANGED <<server, config>>

\* INITIAL_CONNECT_WAIT passes.
ProbeTimesOut ==
    /\ call.phase = "probing"
    /\ Quit("probe")
    /\ call' = [call EXCEPT !.phase = "background"]
    /\ UNCHANGED <<server, config>>

\* The second pool, of the same size, which reconnects for ever, is returned without waiting.
Background ==
    /\ call.phase = "background"
    /\ pools' = [pools EXCEPT !["pool"] = "running"]
    /\ Return("ok")
    /\ UNCHANGED <<server, config>>

\* The process stops.
Stop ==
    /\ call.phase = "done"
    /\ config' = None /\ call' = NoCall /\ pools' = NoPools
    /\ UNCHANGED server

Next ==
    \/ ServerToggles \/ Connect \/ ProbeConnects \/ ProbeTimesOut \/ Background \/ Stop
    \/ \E c \in Configs : FromEnv(c)
    \/ \E error \in {"refused", "reset", "lookup", "Timeout", "Auth", "Tls"} : ProbeFails(error)

-----------------------------------------------------------------------------

Running == {p \in DOMAIN pools : pools[p] = "running"}

\* The last @ before a ? is not the one that ends the userinfo: redact_url takes the
\* characters between the two for the host.
Misleading(c) == c.url # None /\ "?" \in Range(c.url) /\ "@" \in Range(Before(c.url, {"?"}))

\* lib.rs:3-9, 29-48, 52-60: a password that the URL can carry, or the environment's, reaches
\* the right host unchanged, whatever stands in the URL besides, and is no reason to refuse the
\* configuration; no letter of any password, one with a raw ? included, is in the log, the exception
\* to what lines 56-59 promise being a @ before that ?, which misleads redact_url; and however the probe ends, connect leaves one pool running if it succeeds and
\* none if it fails.
ConnectsAsConfigured ==
    /\ config # None =>
          /\ Misleading(config) \/ "x" \notin Range(RedactUrl(Url(config)))
          /\ Representable(config) =>
                /\ call.cfg # None => call.cfg = [host |-> Host, password |-> Password(config)]
                /\ call.result = "misconfigured" =>
                      config.pool_size = 0 \/ (config.tls /\ config.ca = "bad")
    /\ call.result = "ok" => \E p \in Running : Running = {p}
    /\ call.result \in {"refused", "misconfigured"} => Running = {}

=============================================================================
