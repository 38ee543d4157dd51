------------------------------- MODULE Login -------------------------------
(***************************************************************************)
(* Authorization-code logins of crates/oauth: the fixed providers of       *)
(* OAuthClient (lib.rs) and a tenant's OIDC issuer (oidc.rs).              *)
(*                                                                         *)
(* A login owns the random state, nonce and PKCE verifier of its authorize *)
(* request; those values are the login itself, since random_token never    *)
(* repeats one.  Codes name the login whose authorize URL they were issued *)
(* for.  A callback may bring any code to any login.  The caller compares  *)
(* the state only where the code sends neither a verifier nor a nonce: the *)
(* other providers have to tell a foreign code without its help.           *)
(***************************************************************************)
EXTENDS Naturals, FiniteSets

CONSTANTS Logins,  \* login attempts in flight; a finished one is used again
          Kids,    \* key ids of the issuer
          None

VARIABLES
    client,  \* the OidcClient: None before discovery, then its algorithms and issuer
    login    \* the attempts

lvars == <<client, login>>

Providers == {"google", "github", "discord", "oidc"}

\* OAuthProvider::supports_pkce, and OidcClient::authorize, which always sends a challenge
SupportsPkce(p) == p \in {"google", "oidc"}

\* From<OidcError> for ApiError: what the login's caller answers
OidcStatus(why) ==
    CASE why \in {"IssuerUrl", "IssuerMismatch", "Endpoint", "NoUsableAlgorithm"} -> "BadRequest"
      [] why \in {"UnexpectedAlgorithm", "UnknownKey", "IdToken", "NonceMismatch",
                  "AzpMismatch", "MissingIdToken"} -> "Unauthorized"
      [] why \in {"Discovery", "Jwks", "TokenRequest", "TokenEndpoint"} -> "Internal"

\* From<OAuthError> for ApiError
OAuthStatus(why) == IF why = "Http" THEN "Internal" ELSE "BadRequest"

NoLogin == [phase |-> "idle", provider |-> None, code |-> None, result |-> None]

Init ==
    /\ client = None
    /\ login = [l \in Logins |-> NoLogin]

-----------------------------------------------------------------------------
\* Discovery

\* Metadata documents: the issuer they name (with a trailing slash or not, or another
\* one), whether all three endpoints are https URLs, the algorithms they advertise.
Documents == [issuer : {"issuer", "issuer/", "other"}, https : BOOLEAN,
              algs : {{}, {"RS256", "ES256", "HS256", "unknown"}, {"HS256", "unknown"}}]

\* trim_end_matches('/')
Trimmed(iss) == IF iss = "issuer/" THEN "issuer" ELSE iss

\* check_metadata against the issuer normalize_issuer has stripped of its slash
CheckMetadata(doc) ==
    IF Trimmed(doc.issuer) # "issuer" THEN "IssuerMismatch"
    ELSE IF ~doc.https THEN "Endpoint"
    ELSE "Ok"

\* signing_algorithms: what Algorithm::from_str knows and is_asymmetric lets through
SigningAlgorithms(doc) ==
    IF doc.algs = {} THEN {"RS256"} ELSE doc.algs \cap {"RS256", "ES256"}

\* discover and OidcClient::new.  A URL that normalize_issuer refuses, a failed fetch
\* and a refused document leave nothing behind.
Discover ==
    /\ client = None
    /\ \E doc \in Documents :
          /\ CheckMetadata(doc) = "Ok"
          /\ SigningAlgorithms(doc) # {}
          /\ client' = [issuer |-> doc.issuer, algorithms |-> SigningAlgorithms(doc)]
    /\ UNCHANGED login

-----------------------------------------------------------------------------
\* A login

\* random_token, as state, nonce and verifier: no two logins draw the same
RandomToken(l) == l

\* pkce_challenge_s256: no two verifiers have the same challenge
PkceChallenge(verifier) == [s256 |-> verifier]

\* The user is sent to the provider.
Sent(l, p) ==
    /\ login[l].phase = "idle"
    /\ login' = [login EXCEPT ![l].phase = "sent", ![l].provider = p]
    /\ UNCHANGED client

\* OAuthClient::authorize_url
AuthorizeUrl(l, p) == p # "oidc" /\ Sent(l, p)

\* OidcClient::authorize
Authorize(l) == client # None /\ Sent(l, "oidc")

\* A callback with the code of some login's authorize request reaches login l.  State is
\* compared where nothing else binds the code (external: the product's handler).
Callback(l, for) ==
    /\ login[l].phase = "sent"
    /\ login[for].phase # "idle" /\ login[for].provider = login[l].provider
    /\ SupportsPkce(login[l].provider) \/ for = l
    /\ login' = [login EXCEPT ![l].phase = "callback", ![l].code = for]
    /\ UNCHANGED client

End(l, result) ==
    login' = [login EXCEPT ![l] =
        [phase |-> "done", provider |-> login[l].provider, code |-> login[l].code,
         result |-> result]]

Refused(status) == [ok |-> FALSE, status |-> status]

\* The token endpoint redeems a code for the verifier its challenge was made from;
\* Google and a fixed provider insist on it, a tenant's issuer may not (external).
Redeems(l, insists) ==
    insists /\ SupportsPkce(login[l].provider) =>
        PkceChallenge(RandomToken(l)) = PkceChallenge(RandomToken(login[l].code))

\* OAuthClient::exchange_code
ExchangeCode(l) ==
    /\ login[l].phase = "callback" /\ login[l].provider # "oidc"
    /\ \/ \E why \in {"Http", "Provider", "MissingField"} : End(l, Refused(OAuthStatus(why)))
       \/ /\ Redeems(l, TRUE)
          /\ login' = [login EXCEPT ![l].phase = "profile"]
    /\ UNCHANGED client

\* parse_user: email_verified as the profile asserts it; GitHub's does not say.
ParseUser(p, said) == IF p = "github" THEN FALSE ELSE said = "yes"

\* What a profile or an ID token says about the address (external).
Assertions(p) == IF p = "github" THEN {"silent"} ELSE {"yes", "no", "silent"}

Identity(l, said, verified) ==
    [ok |-> TRUE, of |-> login[l].code, said |-> said, verified |-> verified]

\* OAuthClient::fetch_user
FetchUser(l) ==
    /\ login[l].phase = "profile"
    /\ \/ \E why \in {"Http", "Provider"} : End(l, Refused(OAuthStatus(why)))
       \/ \E said \in Assertions(login[l].provider) :
             End(l, Identity(l, said, ParseUser(login[l].provider, said)))
    /\ UNCHANGED client

\* owns_installation: a body without a list of installations reads as not owned.
OwnsInstallation(payload) == payload = "listed"

\* GithubOauth::user_owns_installation: the code of a GitHub login is redeemed for one
\* listing of the user's installations and nothing is kept; an error is no answer.
UserOwnsInstallation(l) ==
    /\ login[l].phase = "callback" /\ login[l].provider = "github"
    /\ \/ End(l, Refused("Internal"))
       \/ /\ Redeems(l, TRUE)
          /\ \E payload \in {"listed", "unlisted", "malformed"} :
                End(l, [ok |-> TRUE, of |-> login[l].code, owns |-> OwnsInstallation(payload),
                        said |-> payload, verified |-> FALSE])
    /\ UNCHANGED client

-----------------------------------------------------------------------------
\* ID tokens

\* The token an issuer signs in answer to a code, and the ways in which a token may
\* differ from it.
IdToken(l, header) ==
    [kid |-> header.kid, by |-> header.by, alg |-> "RS256", iss |-> client.issuer,
     aud |-> {"client"}, azp |-> None, nonce |-> RandomToken(login[l].code), sub |-> "user",
     live |-> TRUE]

Deviations(t) ==
    {t, [t EXCEPT !.alg = "ES256"], [t EXCEPT !.alg = "HS256"],
     [t EXCEPT !.aud = {"other"}], [t EXCEPT !.aud = {"client", "other"}],
     [t EXCEPT !.aud = {"client", "other"}, !.azp = "client"],
     [t EXCEPT !.aud = {"client", "other"}, !.azp = "other"],
     [t EXCEPT !.nonce = None], [t EXCEPT !.sub = None], [t EXCEPT !.live = FALSE]}

\* The issuer's keys are RSA keys.  A JWK declares the algorithm it is for, one that signs
\* nothing, or none.
Declarations == {"RS256", "RSA-OAEP", None}

\* select_key: only a key that declares an algorithm is compared with the header's
SelectKey(set, declared, t) ==
    IF t.kid # None /\ t.kid \notin set THEN "UnknownKey"
    ELSE IF t.kid = None /\ Cardinality(set) # 1 THEN "UnknownKey"
    ELSE IF declared \notin {None, t.alg} THEN "UnexpectedAlgorithm"
    ELSE "Ok"

\* decode with issuer, audience, exp (leeway included) and a signature by the selected key,
\* which no other algorithm than RSA's can check
Decode(set, t) ==
    /\ t.alg = "RS256"
    /\ t.by = (IF t.kid = None THEN CHOOSE k \in set : TRUE ELSE t.kid)
    /\ t.iss = Trimmed(client.issuer)
    /\ "client" \in t.aud /\ t.sub # None /\ t.live

\* Mutant: the nonce is not compared.
CheckClaimsWithoutNonce(l, t) ==
    IF Cardinality(t.aud) > 1 /\ t.azp # "client" THEN "AzpMismatch" ELSE "Ok"

\* check_claims
CheckClaims(l, t) ==
    IF t.nonce # RandomToken(l) THEN "NonceMismatch"
    ELSE IF t.sub = None THEN "IdToken"
    ELSE IF Cardinality(t.aud) > 1 /\ t.azp # "client" THEN "AzpMismatch"
    ELSE "Ok"

\* validate_id_token
Validate(l, t, set, declared) ==
    IF t.alg \notin client.algorithms THEN "UnexpectedAlgorithm"
    ELSE IF SelectKey(set, declared, t) # "Ok" THEN SelectKey(set, declared, t)
    ELSE IF ~Decode(set, t) THEN "IdToken"
    ELSE CheckClaims(l, t)

\* The rest of exchange_code once keys_for has returned set, identity_from_claims included.
Accept(l, header, set, declared) ==
    \E t \in Deviations(IdToken(l, header)), said \in Assertions("oidc") :
        LET why == Validate(l, t, set, declared)
        IN  End(l, IF why = "Ok" THEN Identity(l, said, said = "yes")
                   ELSE Refused(OidcStatus(why)))

\* OidcClient::exchange_code.  keys_for (module KeySets) fails or returns some set of the
\* keys the issuer has published; exchange_code awaits nothing after it.
ExchangeIdToken(l) ==
    /\ login[l].phase = "callback" /\ login[l].provider = "oidc"
    /\ \/ \E why \in {"TokenRequest", "TokenEndpoint", "MissingIdToken", "IdToken",
                       "Jwks", "UnknownKey"} :
             End(l, Refused(OidcStatus(why)))
       \/ \E insists \in BOOLEAN, k \in Kids, kid \in Kids \cup {None} :
             /\ Redeems(l, insists)
             /\ kid \in {k, None}
             /\ \E set \in SUBSET Kids, declared \in Declarations :
                   Accept(l, [kid |-> kid, by |-> k], set, declared)
    /\ UNCHANGED client

\* A finished attempt makes room for another, once nobody is about to redeem its code.
Forget(l) ==
    /\ login[l].phase = "done"
    /\ \A m \in Logins \ {l} : login[m].code # l \/ login[m].phase = "done"
    /\ login' = [login EXCEPT ![l] = NoLogin]
    /\ UNCHANGED client

Next ==
    \/ Discover
    \/ \E l \in Logins :
          \/ Authorize(l) \/ \E p \in Providers : AuthorizeUrl(l, p)
          \/ \E for \in Logins : Callback(l, for)
          \/ ExchangeCode(l) \/ FetchUser(l) \/ UserOwnsInstallation(l)
          \/ ExchangeIdToken(l) \/ Forget(l)

-----------------------------------------------------------------------------

\* lib.rs:204, oidc.rs:193-218: an identity belongs to the login that asked for it, by PKCE
\* or, at issuers that ignore PKCE, by the nonce; and its address counts as verified only
\* if the provider said so.
IdentityIsVouchedFor ==
    \A l \in Logins :
        LET r == login[l].result
        IN  r # None /\ r.ok => r.of = l /\ (r.verified => r.said = "yes")

=============================================================================
