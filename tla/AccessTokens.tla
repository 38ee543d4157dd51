---------------------------- MODULE AccessTokens ----------------------------
(***************************************************************************)
(* Signed tokens: the access tokens of crates/auth (jwt.rs), the extractor *)
(* that takes them off a request (middleware.rs), and the licenses of      *)
(* crates/license with their generator.                                    *)
(*                                                                         *)
(* The issuer service and the verify-only services are redeployed one by   *)
(* one, in any order, while a signing key is rotated the way               *)
(* with_previous_public_pem documents it: the new key comes with the       *)
(* outgoing one as previous key, which is dropped once every token minted  *)
(* under it has expired.  One rotation ends before the next begins.        *)
(* Clocks agree: leeway is 0.                                              *)
(***************************************************************************)
EXTENDS Naturals, Sequences

CONSTANTS Slots,     \* tokens and licenses in circulation
          Verifiers, \* verify-only services, each with the audience of its name
          Legacy,    \* a verify-only service configured without an audience
          Keys,      \* how many signing keys take turns, three at least
          Ttl,       \* lifetime of a token, in ticks
          None

VARIABLES
    config,  \* JwtConfig::decoding_keys of each service, the current key first
    token    \* the tokens that exist

avars == <<config, token>>

Issuer == "issuer"
Services == Verifiers \cup {Issuer, Legacy}

\* with_audience, per service
Audience(s) == IF s = Legacy THEN None ELSE s

\* from_ed25519_pems and verifier_from_public_pem, and with_previous_public_pem on top
FromPem(key) == <<key>>
WithPrevious(keys, key) == Append(keys, key)

\* JwtConfig::encoding_key, which from_ed25519_pems takes with the current public key
SigningKey == config[Issuer][1]

Init ==
    /\ config = [s \in Services |-> FromPem(0)]
    /\ token = [t \in Slots |-> None]

Less(n) == IF n > 0 THEN n - 1 ELSE 0

Tick ==
    /\ token' = [t \in Slots |-> IF token[t] = None THEN None
                                 ELSE [token[t] EXCEPT !.exp = Less(@), !.nbf = Less(@)]]
    /\ UNCHANGED config

-----------------------------------------------------------------------------
\* jsonwebtoken (external)

\* decode::<Claims>: the signature, the required claims, then exp, nbf, iss and aud.  exp
\* and nbf are ticks from now.  A license's kind is a claim an access token does not have.
Decode(t, key, v) ==
    IF t.by # key THEN "InvalidSignature"
    ELSE IF "aud" \in v.required /\ t.aud = None THEN "MissingAud"
    ELSE IF t.exp = 0 THEN "ExpiredSignature"
    ELSE IF t.nbf > 0 THEN "ImmatureSignature"
    ELSE IF t.iss # v.iss THEN "InvalidIssuer"
    ELSE IF t.aud # v.aud THEN "InvalidAudience"
    ELSE "Ok"

-----------------------------------------------------------------------------
\* jwt.rs

\* JwtConfig::validation
Validation(s) ==
    [iss |-> "api", aud |-> Audience(s),
     required |-> IF Audience(s) = None THEN {"exp", "iss"} ELSE {"exp", "iss", "aud"}]

\* map_error, onto JwtError
MapError(e) ==
    CASE e = "ExpiredSignature" -> "Expired"
      [] e = "ImmatureSignature" -> "NotYetValid"
      [] e = "InvalidIssuer" -> "WrongIssuer"
      [] e \in {"InvalidAudience", "MissingAud"} -> "WrongAudience"
      [] OTHER -> "Invalid"

\* Mutant: the outcome of the last key wins.
VerifyTokenLastKey(s, t) ==
    LET last == Decode(t, config[s][Len(config[s])], Validation(s))
    IN  IF last = "Ok" THEN "Ok" ELSE MapError(last)

\* verify_token: some key decodes it, or the refusal of a claim is reported, or the bad
\* signature.  A token has one signature, so no two keys disagree about a claim.
VerifyToken(s, t) ==
    LET outcomes == {Decode(t, config[s][i], Validation(s)) : i \in 1..Len(config[s])}
        claims == outcomes \ {"InvalidSignature"}
    IN  IF "Ok" \in outcomes THEN "Ok"
        ELSE IF claims # {} THEN MapError(CHOOSE e \in claims : TRUE)
        ELSE MapError("InvalidSignature")

\* Claims, signed with the current key
Claims(sub, org, iss, audience, nbf) ==
    [by |-> SigningKey, iss |-> iss, aud |-> audience, exp |-> Ttl, nbf |-> nbf,
     sub |-> sub, org |-> org, kind |-> "access"]

\* issue_token_for; issue_token passes the config's own audience.  A verify-only service
\* holds no key and answers VerifyOnly.
IssueTokenFor(t, audience, org) ==
    /\ token[t] = None
    /\ token' = [token EXCEPT ![t] = Claims(t, org, "api", audience, 0)]
    /\ UNCHANGED config

\* Another issuer with the same key sets nbf (external).
ForeignToken(t) ==
    /\ token[t] = None
    /\ \E iss \in {"api", "other"}, s \in Verifiers :
          token' = [token EXCEPT ![t] = Claims(t, None, iss, s, 1)]
    /\ UNCHANGED config

\* AuthUser::require_org
RequireOrg(user) == IF user.org = None THEN "Unauthorized" ELSE user.org

\* AuthUser::extract: bearer_token, then verify_token, every error answered alike
Extract(s, header) ==
    IF header.scheme # "Bearer " \/ VerifyToken(s, header.token) # "Ok"
    THEN [ok |-> FALSE, status |-> "Unauthorized"]
    ELSE [ok |-> TRUE, user |-> header.token.sub, org |-> header.token.org]

-----------------------------------------------------------------------------
\* Licenses: one key that is never rotated

LicenseKey == Keys

\* parse_features: what remains of a comma-separated list, trimmed, empty items dropped
ParseFeatures(raw) == raw \ {""}

\* licensegen's Args; without --seats there is no cap
Args == [product : Verifiers, kind : {"admin", "customer"}, features : {{"", "sso"}},
         seats : {None, 1}, days : {Ttl}]

\* The Claims of LicenseSigner::sign: nbf is issued_at
Sign(t, spec) ==
    [by |-> LicenseKey, iss |-> "ferrlabs-licensing", aud |-> spec.product, exp |-> spec.days,
     nbf |-> 0, sub |-> t, org |-> None, kind |-> spec.kind, features |-> spec.features,
     seats |-> spec.seats]

\* licensegen's main: the expiry is counted from now
Licensegen(t, args) ==
    /\ token[t] = None
    /\ token' = [token EXCEPT ![t] =
                    Sign(t, [args EXCEPT !.features = ParseFeatures(@)])]
    /\ UNCHANGED config

\* map_jwt_err, onto LicenseError
MapJwtErr(e) ==
    CASE e = "ExpiredSignature" -> "Expired"
      [] e = "ImmatureSignature" -> "NotYetValid"
      [] e = "InvalidIssuer" -> "WrongIssuer"
      [] e = "InvalidAudience" -> "WrongProduct"
      [] OTHER -> "Invalid"

\* LicenseVerifier::verify
VerifyLicense(t, product) ==
    LET e == Decode(t, LicenseKey, [iss |-> "ferrlabs-licensing", aud |-> product,
                                    required |-> {"exp", "iss", "aud", "nbf"}])
    IN  IF e = "Ok" THEN "Ok" ELSE MapJwtErr(e)

\* License::allows and License::seat_limit
Allows(license, feature) == license.kind = "admin" \/ feature \in license.features
SeatLimit(license) == IF license.kind = "admin" THEN None ELSE license.seats

-----------------------------------------------------------------------------
\* Rotation and expiry

Live(t) == token[t] # None /\ token[t].exp > 0

KeyAfter(key) == (key + 1) % Keys

\* The operator starts s, which has the outgoing key old, with the new key and the outgoing
\* one; the other services are before, in or past that step of the same rotation.
Redeploy(s, old) ==
    LET new == WithPrevious(FromPem(KeyAfter(old)), old)
    IN  /\ config[s] = FromPem(old)
        /\ \A o \in Services \ {s} : config[o] \in {FromPem(old), new, FromPem(KeyAfter(old))}
        /\ config' = [config EXCEPT ![s] = new]
        /\ UNCHANGED token

\* s is started without the previous key, whose tokens have all expired.
DropPrevious(s) ==
    /\ Len(config[s]) = 2 /\ config[s][1] = SigningKey
    /\ \A t \in Slots : Live(t) => token[t].by # config[s][2]
    /\ config' = [config EXCEPT ![s] = FromPem(config[s][1])]
    /\ UNCHANGED token

\* Nobody presents an expired token any more.
Discard(t) ==
    /\ token[t] # None /\ ~Live(t)
    /\ token' = [token EXCEPT ![t] = None]
    /\ UNCHANGED config

Next ==
    \/ Tick
    \/ \E s \in Services : DropPrevious(s) \/ \E old \in 0..Keys - 1 : Redeploy(s, old)
    \/ \E t \in Slots :
          \/ \E s \in Services, org \in {None, "org"} : IssueTokenFor(t, Audience(s), org)
          \/ ForeignToken(t)
          \/ \E args \in Args : Licensegen(t, args)
          \/ Discard(t)

-----------------------------------------------------------------------------

\* s waits for its redeployment, and the issuer has had it: s has no key but the outgoing one.
Behind(s) == Len(config[s]) = 1 /\ SigningKey = KeyAfter(config[s][1])

\* jwt.rs:14-22, 136-149, 262-303 and license/lib.rs:15-16, 112-116: throughout a rotation a
\* live token is taken by the services of its audience and by no other; the other services
\* name the claim they refuse it for and do not report a bad signature, whichever of their
\* keys it was signed with.  No service refuses a live token's signature, unless it is behind
\* the issuer and the token is of the new key: the outstanding tokens stay good everywhere.
\* A license is taken by its product and nowhere else, and caps what a customer's asks for.
TokensReachTheirAudience ==
    \A t \in Slots : Live(t) =>
        IF token[t].kind = "access"
        THEN \A s \in Services :
                LET mine == token[t].aud = Audience(s) /\ token[t].nbf = 0 /\ token[t].iss = "api"
                    auth == Extract(s, [scheme |-> "Bearer ", token |-> token[t]])
                IN  \/ /\ Behind(s) /\ token[t].by = SigningKey
                       /\ VerifyToken(s, token[t]) = "Invalid"
                    \/ /\ auth.ok = mine
                       /\ mine => auth.user = t /\ RequireOrg(auth) = RequireOrg(token[t])
                       /\ ~mine => VerifyToken(s, token[t]) # "Invalid"
        ELSE /\ \A s \in Services : VerifyToken(s, token[t]) # "Ok"
             /\ \A p \in Verifiers :
                  VerifyLicense(token[t], p) = IF p = token[t].aud THEN "Ok" ELSE "WrongProduct"
             /\ ~Allows(token[t], "") <=> token[t].kind = "customer"
             /\ SeatLimit(token[t]) # None <=>
                  token[t].kind = "customer" /\ token[t].seats # None

=============================================================================
