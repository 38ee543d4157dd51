--------------------------- MODULE IdentityProofs ---------------------------
(***************************************************************************)
(* Proofs about the components of MCTrust that decide who somebody is:     *)
(* logins at providers, second factors, and signed access tokens.  Each    *)
(* component has an inductive invariant of its own; the others' steps      *)
(* leave its variables alone.                                              *)
(***************************************************************************)
EXTENDS MCTrust, Sequences, TLAPS

-----------------------------------------------------------------------------
(***************************************************************************)
(* Login                                                                   *)
(***************************************************************************)

\* What an attempt may hold on its way: a code that reached a provider without PKCE is the
\* attempt's own (its state was compared), and so is one that an OAuth token endpoint has
\* redeemed; an identity is the attempt's own, and verified only by the provider's word.
LoginOK(l) ==
    /\ login[l].phase = "callback" =>
          login_!SupportsPkce(login[l].provider) \/ login[l].code = l
    /\ login[l].phase = "profile" => login[l].code = l
    /\ login[l].result # None /\ login[l].result.ok =>
          /\ login[l].result.of = l
          /\ login[l].result.verified => login[l].result.said = "yes"

\* An attempt is a record of four fields.
LoginShape(l) ==
    login[l] = [phase |-> login[l].phase, provider |-> login[l].provider,
                code |-> login[l].code, result |-> login[l].result]

\* The inductive invariant of logins.
LoginInv ==
    /\ login = [l \in Actors |-> login[l]]
    /\ \A l \in Actors : LoginShape(l) /\ LoginOK(l)

LEMMA LoginInitially == login_!Init => LoginInv
  BY DEF login_!Init, login_!NoLogin, LoginInv, LoginShape, LoginOK

\* One attempt replaced by a well-formed one preserves the invariant.
LEMMA LoginReplaced ==
  ASSUME LoginInv, NEW l \in Actors, NEW q,
         q = [phase |-> q.phase, provider |-> q.provider, code |-> q.code, result |-> q.result],
         q.phase = "callback" => login_!SupportsPkce(q.provider) \/ q.code = l,
         q.phase = "profile" => q.code = l,
         q.result # None /\ q.result.ok =>
             q.result.of = l /\ (q.result.verified => q.result.said = "yes"),
         login' = [m \in Actors |-> login'[m]], login'[l] = q,
         \A m \in Actors \ {l} : login'[m] = login[m]
  PROVE  LoginInv'
<1>1. ASSUME NEW m \in Actors
      PROVE  LoginShape(m)' /\ LoginOK(m)'
  <2>1. CASE m = l
    <3>1. login'[m] = q
      BY <2>1
    <3>2. QED BY <3>1, <2>1 DEF LoginShape, LoginOK
  <2>2. CASE m # l
    <3>1. login'[m] = login[m]
      BY <2>2
    <3>2. QED BY <3>1 DEF LoginShape, LoginOK, LoginInv
  <2>3. QED BY <2>1, <2>2
<1>2. QED BY <1>1 DEF LoginInv

\* An attempt that ends in an answer without an identity.
LEMMA LoginRefused ==
  ASSUME LoginInv, NEW l \in Actors, NEW status, login_!End(l, login_!Refused(status))
  PROVE  LoginInv'
<1> DEFINE q == [phase |-> "done", provider |-> login[l].provider, code |-> login[l].code,
                 result |-> login_!Refused(status)]
<1>1. /\ login' = [m \in Actors |-> login'[m]] /\ login'[l] = q
      /\ \A m \in Actors \ {l} : login'[m] = login[m]
  BY DEF login_!End, LoginInv
<1>2. q.phase = "done" /\ q.result.ok = FALSE
  BY DEF login_!Refused
<1>3. q = [phase |-> q.phase, provider |-> q.provider, code |-> q.code, result |-> q.result]
  OBVIOUS
<1> HIDE DEF q
<1>4. QED BY <1>1, <1>2, <1>3, LoginReplaced

\* An attempt that ends in an identity: its code has to be its own.
LEMMA LoginAnswered ==
  ASSUME LoginInv, NEW l \in Actors, NEW result,
         result.of = l, result.verified => result.said = "yes",
         login_!End(l, result)
  PROVE  LoginInv'
<1> DEFINE q == [phase |-> "done", provider |-> login[l].provider, code |-> login[l].code,
                 result |-> result]
<1>1. /\ login' = [m \in Actors |-> login'[m]] /\ login'[l] = q
      /\ \A m \in Actors \ {l} : login'[m] = login[m]
  BY DEF login_!End, LoginInv
<1>2. q.phase = "done" /\ q.result = result
  OBVIOUS
<1>3. q = [phase |-> q.phase, provider |-> q.provider, code |-> q.code, result |-> q.result]
  OBVIOUS
<1> HIDE DEF q
<1>4. QED BY <1>1, <1>2, <1>3, LoginReplaced

\* A code that is redeemed at a fixed provider is the attempt's own: PKCE binds it, or the
\* state did.
LEMMA LoginRedeemed ==
  ASSUME LoginInv, NEW l \in Actors, login[l].phase = "callback", login_!Redeems(l, TRUE)
  PROVE  login[l].code = l
<1>1. CASE login_!SupportsPkce(login[l].provider)
  BY <1>1 DEF login_!Redeems, login_!PkceChallenge, login_!RandomToken
<1>2. CASE ~login_!SupportsPkce(login[l].provider)
  BY <1>2 DEF LoginInv, LoginOK
<1>3. QED BY <1>1, <1>2

\* However an ID token deviates from the issuer's, its nonce is the one of the login the
\* code was issued for, or missing.
LEMMA NonceOfTheCode ==
  ASSUME NEW l, NEW header, NEW t \in login_!Deviations(login_!IdToken(l, header))
  PROVE  t.nonce \in {login[l].code, None}
<1> DEFINE u == login_!IdToken(l, header)
<1>1. u.nonce = login[l].code
  BY DEF login_!IdToken, login_!RandomToken
<1>2. DOMAIN u = {"kid", "by", "alg", "iss", "aud", "azp", "nonce", "sub", "live"}
  BY DEF login_!IdToken
<1>3. t \in login_!Deviations(u)
  OBVIOUS
<1> HIDE DEF u
<1>4. QED BY <1>1, <1>2, <1>3 DEF login_!Deviations

\* A token that validates carries the nonce of the login that presents it.
LEMMA ValidatedNonce ==
  ASSUME NEW l, NEW t, NEW set, NEW declared,
         login_!Validate(l, t, set, declared) = "Ok"
  PROVE  t.nonce = l
<1>1. login_!CheckClaims(l, t) = "Ok"
  BY DEF login_!Validate
<1>2. QED BY <1>1 DEF login_!CheckClaims, login_!RandomToken

\* exchange_code of the OIDC client, from the key set on.
LEMMA LoginAccepted ==
  ASSUME LoginInv, NEW l \in Actors, NEW header, NEW set, NEW declared,
         login_!Accept(l, header, set, declared)
  PROVE  LoginInv'
<1>1. PICK t \in login_!Deviations(login_!IdToken(l, header)), said \in login_!Assertions("oidc") :
          login_!End(l, IF login_!Validate(l, t, set, declared) = "Ok"
                        THEN login_!Identity(l, said, said = "yes")
                        ELSE login_!Refused(login_!OidcStatus(login_!Validate(l, t, set, declared))))
  BY DEF login_!Accept
<1>2. CASE login_!Validate(l, t, set, declared) = "Ok"
  <2>1. login[l].code = l
    BY <1>1, <1>2, ValidatedNonce, NonceOfTheCode, NoneAssumption
  <2> DEFINE r == login_!Identity(l, said, said = "yes")
  <2>2. login_!End(l, r)
    BY <1>1, <1>2
  <2>3. r.of = l /\ (r.verified => r.said = "yes")
    BY <2>1 DEF login_!Identity
  <2> HIDE DEF r
  <2>4. QED BY <2>2, <2>3, LoginAnswered
<1>3. CASE login_!Validate(l, t, set, declared) # "Ok"
  BY <1>1, <1>3, LoginRefused
<1>4. QED BY <1>2, <1>3

LEMMA LoginInductive ==
  ASSUME LoginInv, login_!Next
  PROVE  LoginInv'
<1>1. CASE login_!Discover
  BY <1>1 DEF login_!Discover, LoginInv, LoginShape, LoginOK
<1>2. ASSUME NEW l \in Actors, NEW p, login_!Sent(l, p)
      PROVE  LoginInv'
  <2> DEFINE q == [phase |-> "sent", provider |-> p, code |-> login[l].code,
                   result |-> login[l].result]
  <2>1. login[l] = [phase |-> login[l].phase, provider |-> login[l].provider,
                    code |-> login[l].code, result |-> login[l].result]
    BY DEF LoginInv, LoginShape
  <2>2. /\ login' = [m \in Actors |-> login'[m]] /\ login'[l] = q
        /\ \A m \in Actors \ {l} : login'[m] = login[m]
    BY <1>2, <2>1 DEF login_!Sent, LoginInv
  <2>3. /\ q = [phase |-> q.phase, provider |-> q.provider, code |-> q.code, result |-> q.result]
        /\ q.phase = "sent" /\ q.result = login[l].result
    OBVIOUS
  <2>4. q.result # None /\ q.result.ok =>
            q.result.of = l /\ (q.result.verified => q.result.said = "yes")
    BY <2>3 DEF LoginInv, LoginOK
  <2> HIDE DEF q
  <2>5. QED BY <2>2, <2>3, <2>4, LoginReplaced
<1>3. ASSUME NEW l \in Actors, NEW for \in Actors, login_!Callback(l, for)
      PROVE  LoginInv'
  <2> DEFINE q == [phase |-> "callback", provider |-> login[l].provider, code |-> for,
                   result |-> login[l].result]
  <2>1. login[l] = [phase |-> login[l].phase, provider |-> login[l].provider,
                    code |-> login[l].code, result |-> login[l].result]
    BY DEF LoginInv, LoginShape
  <2>2. /\ login' = [m \in Actors |-> login'[m]] /\ login'[l] = q
        /\ \A m \in Actors \ {l} : login'[m] = login[m]
    BY <1>3, <2>1 DEF login_!Callback, LoginInv
  <2>3. /\ q = [phase |-> q.phase, provider |-> q.provider, code |-> q.code, result |-> q.result]
        /\ q.phase = "callback" /\ q.result = login[l].result
    OBVIOUS
  <2>4. login_!SupportsPkce(q.provider) \/ q.code = l
    BY <1>3 DEF login_!Callback
  <2>5. q.result # None /\ q.result.ok =>
            q.result.of = l /\ (q.result.verified => q.result.said = "yes")
    BY <2>3 DEF LoginInv, LoginOK
  <2> HIDE DEF q
  <2>6. QED BY <2>2, <2>3, <2>4, <2>5, LoginReplaced
<1>4. ASSUME NEW l \in Actors, login_!ExchangeCode(l)
      PROVE  LoginInv'
  <2>1. CASE \E why \in {"Http", "Provider", "MissingField"} :
                login_!End(l, login_!Refused(login_!OAuthStatus(why)))
    BY <2>1, LoginRefused
  <2>2. CASE login_!Redeems(l, TRUE) /\ login' = [login EXCEPT ![l].phase = "profile"]
    <3> DEFINE q == [phase |-> "profile", provider |-> login[l].provider,
                     code |-> login[l].code, result |-> login[l].result]
    <3>1. login[l] = [phase |-> login[l].phase, provider |-> login[l].provider,
                      code |-> login[l].code, result |-> login[l].result]
      BY DEF LoginInv, LoginShape
    <3>2. /\ login' = [m \in Actors |-> login'[m]] /\ login'[l] = q
          /\ \A m \in Actors \ {l} : login'[m] = login[m]
      BY <2>2, <3>1 DEF LoginInv
    <3>3. /\ q = [phase |-> q.phase, provider |-> q.provider, code |-> q.code,
                  result |-> q.result]
          /\ q.phase = "profile" /\ q.result = login[l].result /\ q.code = login[l].code
      OBVIOUS
    <3>4. q.code = l
      BY <1>4, <2>2, LoginRedeemed DEF login_!ExchangeCode
    <3>5. q.result # None /\ q.result.ok =>
              q.result.of = l /\ (q.result.verified => q.result.said = "yes")
      BY <3>3 DEF LoginInv, LoginOK
    <3> HIDE DEF q
    <3>6. QED BY <3>2, <3>3, <3>4, <3>5, LoginReplaced
  <2>3. QED BY <1>4, <2>1, <2>2 DEF login_!ExchangeCode
<1>5. ASSUME NEW l \in Actors, login_!FetchUser(l)
      PROVE  LoginInv'
  <2>1. CASE \E why \in {"Http", "Provider"} :
                login_!End(l, login_!Refused(login_!OAuthStatus(why)))
    BY <2>1, LoginRefused
  <2>2. ASSUME NEW said,
               login_!End(l, login_!Identity(l, said, login_!ParseUser(login[l].provider, said)))
        PROVE  LoginInv'
    <3> DEFINE r == login_!Identity(l, said, login_!ParseUser(login[l].provider, said))
    <3>1. login[l].code = l
      BY <1>5 DEF login_!FetchUser, LoginInv, LoginOK
    <3>2. r.of = l /\ (r.verified => r.said = "yes")
      BY <3>1 DEF login_!Identity, login_!ParseUser
    <3>3. login_!End(l, r)
      BY <2>2
    <3> HIDE DEF r
    <3>4. QED BY <3>2, <3>3, LoginAnswered
  <2>3. QED BY <1>5, <2>1, <2>2 DEF login_!FetchUser
<1>6. ASSUME NEW l \in Actors, login_!UserOwnsInstallation(l)
      PROVE  LoginInv'
  <2>1. CASE login_!End(l, login_!Refused("Internal"))
    BY <2>1, LoginRefused
  <2>2. ASSUME login_!Redeems(l, TRUE), NEW payload,
               login_!End(l, [ok |-> TRUE, of |-> login[l].code,
                              owns |-> login_!OwnsInstallation(payload),
                              said |-> payload, verified |-> FALSE])
        PROVE  LoginInv'
    <3> DEFINE r == [ok |-> TRUE, of |-> login[l].code,
                     owns |-> login_!OwnsInstallation(payload),
                     said |-> payload, verified |-> FALSE]
    <3>1. r.of = l
      BY <1>6, <2>2, LoginRedeemed DEF login_!UserOwnsInstallation
    <3>2. r.verified = FALSE
      OBVIOUS
    <3>3. login_!End(l, r)
      BY <2>2
    <3> HIDE DEF r
    <3>4. QED BY <3>1, <3>2, <3>3, LoginAnswered
  <2>3. QED BY <1>6, <2>1, <2>2 DEF login_!UserOwnsInstallation
<1>7. ASSUME NEW l \in Actors, login_!ExchangeIdToken(l)
      PROVE  LoginInv'
  <2>1. CASE \E why \in {"TokenRequest", "TokenEndpoint", "MissingIdToken", "IdToken",
                         "Jwks", "UnknownKey"} :
                login_!End(l, login_!Refused(login_!OidcStatus(why)))
    BY <2>1, LoginRefused
  <2>2. ASSUME NEW header, NEW set, NEW declared, login_!Accept(l, header, set, declared)
        PROVE  LoginInv'
    BY <2>2, LoginAccepted
  <2>3. QED BY <1>7, <2>1, <2>2 DEF login_!ExchangeIdToken
<1>8. ASSUME NEW l \in Actors, login_!Forget(l)
      PROVE  LoginInv'
  <2> DEFINE q == login_!NoLogin
  <2>1. /\ login' = [m \in Actors |-> login'[m]] /\ login'[l] = q
        /\ \A m \in Actors \ {l} : login'[m] = login[m]
    BY <1>8 DEF login_!Forget, LoginInv
  <2>2. /\ q = [phase |-> q.phase, provider |-> q.provider, code |-> q.code, result |-> q.result]
        /\ q.phase = "idle" /\ q.result = None
    BY DEF login_!NoLogin
  <2> HIDE DEF q
  <2>3. QED BY <2>1, <2>2, LoginReplaced
<1>9. QED
  BY <1>1, <1>2, <1>3, <1>4, <1>5, <1>6, <1>7, <1>8
  DEF login_!Next, login_!Authorize, login_!AuthorizeUrl

LEMMA LoginPreserved == LoginInv /\ [Next]_vars => LoginInv'
<1> SUFFICES ASSUME LoginInv, [Next]_vars PROVE LoginInv'
  OBVIOUS
<1>1. CASE LoginStep
  BY <1>1, LoginInductive DEF LoginStep
<1>2. CASE UNCHANGED loginVars
  BY <1>2 DEF loginVars, LoginInv, LoginShape, LoginOK
<1>3. QED
  BY <1>1, <1>2 DEF Next, vars, KeysStep, DeksStep, GithubStep, FactorStep, TokensStep

\* lib.rs:204, oidc.rs:193-218: an identity belongs to the login that asked for it, by state,
\* PKCE or nonce, and its address is verified only by the provider's word, for any number of
\* concurrent logins and of issuer keys.
THEOREM IdentityCorrect == Spec => []IdentityIsVouchedFor
<1>1. Init => LoginInv
  BY LoginInitially DEF Init
<1>2. LoginInv => IdentityIsVouchedFor
  BY DEF LoginInv, LoginOK, IdentityIsVouchedFor, login_!IdentityIsVouchedFor
<1>3. QED BY <1>1, <1>2, LoginPreserved, PTL DEF Spec

-----------------------------------------------------------------------------
(***************************************************************************)
(* SecondFactor                                                            *)
(***************************************************************************)

\* An attempt that waits to persist a step matched one later than the step it read.
AttemptOK(q) ==
    /\ q = [phase |-> q.phase, last |-> q.last, hashes |-> q.hashes, match |-> q.match]
    /\ q.last \in factor_!Steps \cup {None}
    /\ q.phase = "totp" => /\ q.match \in factor_!Steps
                           /\ q.last # None => q.match > q.last

AttemptsOK ==
    /\ attempt = [a \in Actors |-> attempt[a]]
    /\ \A a \in Actors : AttemptOK(attempt[a])

AccountOK ==
    /\ account = [enrolled |-> account.enrolled, last |-> account.last,
                  batch |-> account.batch, hashes |-> account.hashes]
    /\ account.last \in factor_!Steps \cup {None}
    /\ account.batch \in 0..MaxBatch
    /\ ~account.enrolled => account.batch = 0

WinsOK ==
    /\ wins = [totp |-> wins.totp, recovery |-> wins.recovery]
    /\ wins.totp \in [factor_!Steps -> Nat]
    /\ wins.recovery \in [factor_!RecoveryCodes -> Nat]

\* Steps that let a login through are at or below the step on record.
StepsSpent ==
    \A c \in factor_!Steps :
        wins.totp[c] # 0 => wins.totp[c] = 1 /\ account.last # None /\ c <= account.last

\* Recovery codes that let a login through are of a batch that was generated.
CodesSpent ==
    \A c \in factor_!RecoveryCodes :
        wins.recovery[c] # 0 => wins.recovery[c] = 1 /\ c[1] <= account.batch

\* The hashes on record are the unused codes of the current batch, each once.
HashesOK ==
    /\ account.hashes \in Seq([hash : factor_!RecoveryCodes])
    /\ \A i \in 1..Len(account.hashes) :
          /\ account.hashes[i].hash[1] = account.batch
          /\ wins.recovery[account.hashes[i].hash] = 0
    /\ \A i, j \in 1..Len(account.hashes) : account.hashes[i] = account.hashes[j] => i = j

\* The inductive invariant of second factors.
FactorInv == AttemptsOK /\ AccountOK /\ WinsOK /\ StepsSpent /\ CodesSpent /\ HashesOK

LEMMA FactorInitially == factor_!Init => FactorInv
<1> SUFFICES ASSUME factor_!Init PROVE FactorInv
  OBVIOUS
<1> USE DEF factor_!Init
<1>1. AttemptsOK
  BY DEF AttemptsOK, AttemptOK, factor_!Idle
<1>2. AccountOK
  BY SecondFactorAssumption DEF AccountOK
<1>3. WinsOK
  BY DEF WinsOK
<1>4. StepsSpent /\ CodesSpent
  BY DEF StepsSpent, CodesSpent
<1>5. HashesOK
  BY DEF HashesOK
<1>6. QED BY <1>1, <1>2, <1>3, <1>4, <1>5 DEF FactorInv

LEMMA AttemptReplaced ==
  ASSUME AttemptsOK, NEW a \in Actors, NEW q, AttemptOK(q), attempt' = [attempt EXCEPT ![a] = q]
  PROVE  AttemptsOK'
<1>1. attempt' = [m \in Actors |-> IF m = a THEN q ELSE attempt[m]]
  BY DEF AttemptsOK
<1>2. attempt' = [m \in Actors |-> attempt'[m]]
  BY <1>1
<1>3. ASSUME NEW m \in Actors PROVE AttemptOK(attempt'[m])
  BY <1>1 DEF AttemptsOK
<1>4. QED BY <1>2, <1>3 DEF AttemptsOK

LEMMA IdleOK == AttemptOK(factor_!Idle)
  BY DEF AttemptOK, factor_!Idle

LEMMA NoneIsNoStep == None \notin factor_!Steps /\ factor_!Steps \subseteq Nat
  BY NoneAssumption, SecondFactorAssumption DEF factor_!Steps

\* verify_step_at returns a step later than the last one, or nothing.
LEMMA StepIsLater ==
  ASSUME NEW code \in factor_!Steps, NEW last \in factor_!Steps \cup {None},
         factor_!VerifyStepAt(code, last) # None
  PROVE  /\ factor_!VerifyStepAt(code, last) \in factor_!Steps
         /\ last # None => factor_!VerifyStepAt(code, last) > last
  BY NoneIsNoStep DEF factor_!VerifyStepAt, factor_!Check

\* A fresh batch: its codes have let nobody through.
LEMMA BatchGenerated ==
  ASSUME FactorInv, NEW b \in 1..MaxBatch, account.batch < b,
         account' = [enrolled |-> TRUE, last |-> account.last, batch |-> b,
                     hashes |-> factor_!GenerateRecoveryCodes(b)],
         UNCHANGED <<attempt, wins>>
  PROVE  FactorInv'
<1> DEFINE G == factor_!GenerateRecoveryCodes(b)
<1>1. G = [i \in 1..Count |-> [hash |-> <<b, i>>]] /\ Count \in Nat
  BY SecondFactorAssumption DEF factor_!GenerateRecoveryCodes, factor_!HashRecoveryCode
<1>2. G \in Seq([hash : factor_!RecoveryCodes]) /\ Len(G) = Count
  <2>1. \A i \in 1..Count : [hash |-> <<b, i>>] \in [hash : factor_!RecoveryCodes]
    BY DEF factor_!RecoveryCodes
  <2>2. QED BY <1>1, <2>1
<1>3. \A i \in 1..Count : G[i].hash = <<b, i>> /\ G[i].hash[1] = b /\ G[i].hash[2] = i
  BY <1>1
<1>4. \A i \in 1..Count : <<b, i>> \in factor_!RecoveryCodes /\ <<b, i>>[1] = b
  BY DEF factor_!RecoveryCodes
<1>5. \A i \in 1..Count : wins.recovery[<<b, i>>] = 0
  <2> SUFFICES ASSUME NEW i \in 1..Count PROVE wins.recovery[<<b, i>>] = 0
    OBVIOUS
  <2>1. wins.recovery[<<b, i>>] # 0 => b <= account.batch
    BY <1>4 DEF FactorInv, CodesSpent
  <2>2. account.batch \in Int /\ b \in Int /\ account.batch < b
    BY SecondFactorAssumption DEF FactorInv, AccountOK
  <2>3. QED BY <2>1, <2>2
<1> HIDE DEF G
<1>6. account'.hashes = G /\ account'.batch = b /\ account'.last = account.last
  BY DEF G
<1>7. HashesOK'
  <2>1. (account.hashes)' \in Seq([hash : factor_!RecoveryCodes]) /\ Len(account'.hashes) = Count
    BY <1>2, <1>6
  <2>2. \A i \in 1..Count : account'.hashes[i].hash[1] = account'.batch /\ wins'.recovery[account'.hashes[i].hash] = 0
    BY <1>3, <1>5, <1>6
  <2>3. \A i, j \in 1..Count : account'.hashes[i] = account'.hashes[j] => i = j
    BY <1>3, <1>6
  <2>4. QED BY <2>1, <2>2, <2>3 DEF HashesOK
<1>8. AccountOK'
  BY SecondFactorAssumption DEF FactorInv, AccountOK
<1>9. CodesSpent'
  <2> SUFFICES ASSUME NEW c \in factor_!RecoveryCodes, wins.recovery[c] # 0
               PROVE  wins.recovery[c] = 1 /\ c[1] <= b
    BY <1>6 DEF CodesSpent
  <2>1. wins.recovery[c] = 1 /\ c[1] <= account.batch
    BY DEF FactorInv, CodesSpent
  <2>2. c[1] \in Int /\ account.batch \in Int
    BY SecondFactorAssumption DEF FactorInv, AccountOK, factor_!RecoveryCodes
  <2>3. QED BY <2>1, <2>2, SecondFactorAssumption
<1>10. StepsSpent'
  BY <1>6 DEF FactorInv, StepsSpent
<1>11. AttemptsOK' /\ WinsOK'
  BY DEF FactorInv, AttemptsOK, WinsOK
<1>12. QED BY <1>7, <1>8, <1>9, <1>10, <1>11 DEF FactorInv

\* The rest of the invariant speaks of the account and of what was let through.
LEMMA OnlyAttempts ==
  ASSUME FactorInv, AttemptsOK', UNCHANGED <<account, wins>>
  PROVE  FactorInv'
  BY DEF FactorInv, AccountOK, WinsOK, StepsSpent, CodesSpent, HashesOK

\* A step is persisted on the condition that the row has the step the attempt read: the
\* step on record only grows, and the persisted one had let nobody through.
LEMMA StepPersisted ==
  ASSUME FactorInv, NEW a \in Actors, factor_!PersistStep(a)
  PROVE  FactorInv'
<1>1. AttemptsOK'
  BY AttemptReplaced, IdleOK DEF factor_!PersistStep, FactorInv
<1>2. CASE account.last = attempt[a].last
  <2> DEFINE m == attempt[a].match
  <2>1. /\ account' = [account EXCEPT !.last = m]
        /\ wins' = [wins EXCEPT !.totp[m] = @ + 1]
    BY <1>2 DEF factor_!PersistStep
  <2>2. m \in factor_!Steps /\ (account.last # None => m > account.last)
    BY <1>2 DEF factor_!PersistStep, FactorInv, AttemptsOK, AttemptOK
  <2> HIDE DEF m
  <2>3. /\ account' = [enrolled |-> account.enrolled, last |-> m, batch |-> account.batch,
                       hashes |-> account.hashes]
        /\ account'.last = m /\ account'.batch = account.batch
        /\ account'.hashes = account.hashes
    BY <2>1 DEF FactorInv, AccountOK
  <2>4. /\ wins'.totp = [wins.totp EXCEPT ![m] = wins.totp[m] + 1]
        /\ wins'.recovery = wins.recovery
        /\ wins' = [totp |-> wins'.totp, recovery |-> wins'.recovery]
    BY <2>1 DEF FactorInv, WinsOK
  <2>5. \A c \in factor_!Steps : wins'.totp[c] = IF c = m THEN wins.totp[m] + 1 ELSE wins.totp[c]
    BY <2>4, <2>2 DEF FactorInv, WinsOK
  <2>6. wins.totp[m] = 0
    <3>1. wins.totp[m] # 0 => account.last # None /\ m <= account.last
      BY <2>2 DEF FactorInv, StepsSpent
    <3>2. account.last # None => account.last \in Nat /\ m \in Nat /\ m > account.last
      BY <2>2, NoneIsNoStep DEF FactorInv, AccountOK
    <3>3. QED BY <3>1, <3>2
  <2>7. AccountOK'
    BY <2>2, <2>3 DEF FactorInv, AccountOK
  <2>8. WinsOK'
    BY <2>2, <2>4, <2>6 DEF FactorInv, WinsOK
  <2>9. StepsSpent'
    <3> SUFFICES ASSUME NEW c \in factor_!Steps, wins'.totp[c] # 0
                 PROVE  wins'.totp[c] = 1 /\ m # None /\ c <= m
      BY <2>3 DEF StepsSpent
    <3>1. m # None /\ m \in Nat /\ c \in Nat
      BY <2>2, NoneIsNoStep
    <3>2. CASE c = m
      BY <3>1, <3>2, <2>5, <2>6
    <3>3. CASE c # m
      <4>1. wins'.totp[c] = wins.totp[c]
        BY <3>3, <2>5
      <4>2. wins.totp[c] = 1 /\ account.last # None /\ c <= account.last
        BY <4>1 DEF FactorInv, StepsSpent
      <4>3. account.last \in Nat /\ m > account.last
        BY <4>2, <2>2, NoneIsNoStep DEF FactorInv, AccountOK
      <4>4. QED BY <3>1, <4>1, <4>2, <4>3
    <3>4. QED BY <3>2, <3>3
  <2>10. CodesSpent'
    BY <2>3, <2>4 DEF FactorInv, CodesSpent
  <2>11. HashesOK'
    BY <2>3, <2>4 DEF FactorInv, HashesOK
  <2>12. QED BY <1>1, <2>7, <2>8, <2>9, <2>10, <2>11 DEF FactorInv
<1>3. CASE account.last # attempt[a].last
  <2>1. UNCHANGED <<account, wins>>
    BY <1>3 DEF factor_!PersistStep
  <2>2. QED BY <1>1, <2>1, OnlyAttempts
<1>4. QED BY <1>2, <1>3

\* Removing one of the distinct entries of a list leaves the others.
LEMMA WithoutOne ==
  ASSUME NEW S, NEW h \in Seq(S), NEW i \in 1..Len(h)
  PROVE  /\ factor_!Without(h, i) \in Seq(S)
         /\ Len(factor_!Without(h, i)) = Len(h) - 1
         /\ \A j \in 1..Len(h) - 1 :
               factor_!Without(h, i)[j] = IF j < i THEN h[j] ELSE h[j + 1]
<1>1. Len(h) \in Nat /\ \A j \in 1..Len(h) : h[j] \in S
  OBVIOUS
<1>2. Len(h) - 1 \in Nat
  BY <1>1
<1>3. \A j \in 1..Len(h) - 1 : (IF j < i THEN h[j] ELSE h[j + 1]) \in S
  BY <1>1
<1>4. QED BY <1>2, <1>3 DEF factor_!Without

\* A hash is removed from the row that still holds it: it had let nobody through, and the
\* hashes that stay are other codes.
LEMMA HashConsumed ==
  ASSUME FactorInv, NEW a \in Actors, factor_!Consume(a)
  PROVE  FactorInv'
<1>1. AttemptsOK'
  BY AttemptReplaced, IdleOK DEF factor_!Consume, FactorInv
<1>2. CASE UNCHANGED <<account, wins>>
  BY <1>1, <1>2, OnlyAttempts
<1>3. ASSUME NEW i \in 1..Len(account.hashes),
             account' = [account EXCEPT !.hashes = factor_!Without(@, i)],
             wins' = [wins EXCEPT !.recovery[account.hashes[i].hash] = @ + 1]
      PROVE  FactorInv'
  <2> DEFINE h == account.hashes
             c == h[i].hash
             R == factor_!Without(h, i)
  <2>1. /\ account' = [enrolled |-> account.enrolled, last |-> account.last,
                       batch |-> account.batch, hashes |-> R]
        /\ account'.last = account.last /\ account'.batch = account.batch
        /\ account'.hashes = R
    BY <1>3 DEF FactorInv, AccountOK
  <2>2. /\ h \in Seq([hash : factor_!RecoveryCodes]) /\ Len(h) \in Nat
        /\ \A j \in 1..Len(h) : h[j] \in [hash : factor_!RecoveryCodes]
    <3>1. h \in Seq([hash : factor_!RecoveryCodes])
      BY DEF FactorInv, HashesOK
    <3>2. ASSUME NEW S, NEW s \in Seq(S)
          PROVE  Len(s) \in Nat /\ \A j \in 1..Len(s) : s[j] \in S
      OBVIOUS
    <3> HIDE DEF h
    <3>3. QED BY ONLY <3>1, <3>2
  <2>3. c \in factor_!RecoveryCodes /\ c[1] = account.batch /\ wins.recovery[c] = 0
    BY <2>2 DEF FactorInv, HashesOK
  <2>4. /\ wins'.recovery = [wins.recovery EXCEPT ![c] = wins.recovery[c] + 1]
        /\ wins'.totp = wins.totp
        /\ wins' = [totp |-> wins'.totp, recovery |-> wins'.recovery]
    BY <1>3 DEF FactorInv, WinsOK
  <2>5. \A d \in factor_!RecoveryCodes :
            wins'.recovery[d] = IF d = c THEN 1 ELSE wins.recovery[d]
    BY <2>3, <2>4 DEF FactorInv, WinsOK
  <2>6. /\ R \in Seq([hash : factor_!RecoveryCodes]) /\ Len(R) = Len(h) - 1
        /\ \A j \in 1..Len(h) - 1 : R[j] = IF j < i THEN h[j] ELSE h[j + 1]
    BY <2>2, WithoutOne
  <2>7. AccountOK'
    BY <2>1 DEF FactorInv, AccountOK
  <2>8. WinsOK'
    BY <2>3, <2>4 DEF FactorInv, WinsOK
  <2>9. StepsSpent'
    BY <2>1, <2>4 DEF FactorInv, StepsSpent
  <2>10. CodesSpent'
    <3> SUFFICES ASSUME NEW d \in factor_!RecoveryCodes, wins'.recovery[d] # 0
                 PROVE  wins'.recovery[d] = 1 /\ d[1] <= account.batch
      BY <2>1 DEF CodesSpent
    <3>1. CASE d = c
      <4>1. account.batch \in Int
        BY SecondFactorAssumption DEF FactorInv, AccountOK
      <4>2. QED BY <3>1, <4>1, <2>3, <2>5
    <3>2. CASE d # c
      BY <3>2, <2>5 DEF FactorInv, CodesSpent
    <3>3. QED BY <3>1, <3>2
  <2>11. HashesOK'
    <3> DEFINE from(j) == IF j < i THEN j ELSE j + 1
    <3>1. \A j \in 1..Len(R) : from(j) \in 1..Len(h) /\ from(j) # i /\ R[j] = h[from(j)]
      BY <2>2, <2>6
    <3>2. \A j, k \in 1..Len(R) : from(j) = from(k) => j = k
      BY <2>2, <2>6
    <3> HIDE DEF from, R, c, h
    <3>3. \A j, k \in 1..Len(h) : h[j] = h[k] => j = k
      BY DEF FactorInv, HashesOK, h
    <3>4. \A j \in 1..Len(h) : h[j].hash[1] = account.batch /\ wins.recovery[h[j].hash] = 0
      BY DEF FactorInv, HashesOK, h
    <3>5. ASSUME NEW j \in 1..Len(R)
          PROVE  R[j].hash[1] = account.batch /\ wins'.recovery[R[j].hash] = 0
      <4>1. h[from(j)] # h[i]
        BY <3>1, <3>3, <1>3 DEF h
      <4>2. h[from(j)] = [hash |-> h[from(j)].hash] /\ h[i] = [hash |-> h[i].hash]
        BY <2>2, <3>1 DEF h
      <4>3. R[j].hash # c
        BY <3>1, <4>1, <4>2 DEF c
      <4>4. R[j].hash \in factor_!RecoveryCodes
        BY <3>1, <2>2
      <4>5. QED BY <3>1, <3>4, <4>3, <4>4, <2>5
    <3>6. \A j, k \in 1..Len(R) : R[j] = R[k] => j = k
      BY <3>1, <3>2, <3>3
    <3>7. QED BY <3>5, <3>6, <2>1, <2>6 DEF HashesOK
  <2>12. QED BY <1>1, <2>7, <2>8, <2>9, <2>10, <2>11 DEF FactorInv
<1>4. QED BY <1>2, <1>3 DEF factor_!Consume

LEMMA FactorInductive ==
  ASSUME FactorInv, factor_!Next
  PROVE  FactorInv'
<1>1. CASE factor_!Clock
  BY <1>1 DEF factor_!Clock, FactorInv, AttemptsOK, AccountOK, WinsOK, StepsSpent, CodesSpent,
              HashesOK
<1>2. CASE factor_!Regenerate
  <2>1. account.batch + 1 \in 1..MaxBatch /\ account.batch < account.batch + 1
    BY <1>2, SecondFactorAssumption DEF factor_!Regenerate, FactorInv, AccountOK
  <2>2. QED BY <1>2, <2>1, BatchGenerated DEF factor_!Regenerate
<1>3. ASSUME NEW code, factor_!Enrol(code)
      PROVE  FactorInv'
  <2>1. account.batch < 1 /\ 1 \in 1..MaxBatch
    BY <1>3, SecondFactorAssumption DEF factor_!Enrol, FactorInv, AccountOK
  <2>2. QED BY <1>3, <2>1, BatchGenerated DEF factor_!Enrol
<1>4. ASSUME NEW a \in Actors, factor_!FirstFactor(a)
      PROVE  FactorInv'
  <2> DEFINE q == [phase |-> "password", last |-> attempt[a].last,
                   hashes |-> attempt[a].hashes, match |-> attempt[a].match]
  <2>1. AttemptOK(q)
    BY DEF AttemptOK, FactorInv, AttemptsOK
  <2>2. attempt' = [attempt EXCEPT ![a] = q]
    <3>1. attempt[a] = [phase |-> attempt[a].phase, last |-> attempt[a].last,
                        hashes |-> attempt[a].hashes, match |-> attempt[a].match]
      BY DEF FactorInv, AttemptsOK, AttemptOK
    <3>2. attempt' = [attempt EXCEPT ![a].phase = "password"]
      BY <1>4 DEF factor_!FirstFactor
    <3>3. attempt'[a] = q
      BY <3>1, <3>2 DEF FactorInv, AttemptsOK
    <3>4. QED BY <3>2, <3>3 DEF FactorInv, AttemptsOK
  <2> HIDE DEF q
  <2>3. QED BY <1>4, <2>1, <2>2, AttemptReplaced, OnlyAttempts DEF factor_!FirstFactor, FactorInv
<1>5. ASSUME NEW a \in Actors, factor_!UnsealSeed(a)
      PROVE  FactorInv'
  <2> DEFINE q == [phase |-> "read", last |-> account.last, hashes |-> account.hashes,
                   match |-> None]
  <2>1. AttemptOK(q)
    BY DEF AttemptOK, FactorInv, AccountOK
  <2>2. attempt' = [attempt EXCEPT ![a] = q] \/ attempt' = [attempt EXCEPT ![a] = factor_!Idle]
    BY <1>5 DEF factor_!UnsealSeed
  <2> HIDE DEF q
  <2>3. AttemptsOK'
    BY <2>1, <2>2, IdleOK, AttemptReplaced DEF FactorInv
  <2>4. QED BY <1>5, <2>3, OnlyAttempts DEF factor_!UnsealSeed
<1>6. ASSUME NEW a \in Actors, NEW code \in factor_!Steps, factor_!PresentTotp(a, code)
      PROVE  FactorInv'
  <2> DEFINE m == factor_!VerifyStepAt(code, attempt[a].last)
             q == IF m = None THEN factor_!Idle
                  ELSE [phase |-> "totp", last |-> attempt[a].last,
                        hashes |-> attempt[a].hashes, match |-> m]
  <2>1. attempt[a].last \in factor_!Steps \cup {None}
    BY DEF FactorInv, AttemptsOK, AttemptOK
  <2>2. m # None => m \in factor_!Steps /\ (attempt[a].last # None => m > attempt[a].last)
    BY <2>1, StepIsLater
  <2>3. attempt' = [attempt EXCEPT ![a] = q]
    BY <1>6 DEF factor_!PresentTotp, factor_!Judged
  <2> HIDE DEF m
  <2>4. AttemptOK(q)
    BY <2>1, <2>2, IdleOK DEF AttemptOK
  <2> HIDE DEF q
  <2>5. AttemptsOK'
    BY <2>3, <2>4, AttemptReplaced DEF FactorInv
  <2>6. QED BY <1>6, <2>5, OnlyAttempts DEF factor_!PresentTotp
<1>7. ASSUME NEW a \in Actors, NEW code \in factor_!RecoveryCodes,
             factor_!PresentRecovery(a, code)
      PROVE  FactorInv'
  <2> DEFINE m == factor_!VerifyAndConsume(code, attempt[a].hashes)
             q == IF m = None THEN factor_!Idle
                  ELSE [phase |-> "recovery", last |-> attempt[a].last,
                        hashes |-> attempt[a].hashes, match |-> m]
  <2>1. attempt[a].last \in factor_!Steps \cup {None}
    BY DEF FactorInv, AttemptsOK, AttemptOK
  <2>2. attempt' = [attempt EXCEPT ![a] = q]
    BY <1>7 DEF factor_!PresentRecovery, factor_!Judged
  <2> HIDE DEF m
  <2>3. AttemptOK(q)
    BY <2>1, IdleOK DEF AttemptOK
  <2> HIDE DEF q
  <2>4. AttemptsOK'
    BY <2>2, <2>3, AttemptReplaced DEF FactorInv
  <2>5. QED BY <1>7, <2>4, OnlyAttempts DEF factor_!PresentRecovery
<1>8. ASSUME NEW a \in Actors, factor_!PersistStep(a) \/ factor_!Consume(a)
      PROVE  FactorInv'
  BY <1>8, StepPersisted, HashConsumed
<1>9. QED
  BY <1>1, <1>2, <1>3, <1>4, <1>5, <1>6, <1>7, <1>8 DEF factor_!Next

LEMMA FactorPreserved == FactorInv /\ [Next]_vars => FactorInv'
<1> SUFFICES ASSUME FactorInv, [Next]_vars PROVE FactorInv'
  OBVIOUS
<1>1. CASE FactorStep
  BY <1>1, FactorInductive DEF FactorStep
<1>2. CASE UNCHANGED factorVars
  BY <1>2 DEF factorVars, FactorInv, AttemptsOK, AccountOK, WinsOK, StepsSpent, CodesSpent,
              HashesOK
<1>3. QED
  BY <1>1, <1>2 DEF Next, vars, LoginStep, KeysStep, DeksStep, GithubStep, TokensStep

\* totp.rs:122-127, 17-21: one login per TOTP step and per recovery code, and none for a code
\* of a replaced batch, for any number of concurrent attempts, steps, batches and codes.
THEOREM CodesCorrect == Spec => []CodesWorkOnce
<1>1. Init => FactorInv
  BY FactorInitially DEF Init
<1>2. FactorInv => CodesWorkOnce
  <2> SUFFICES ASSUME FactorInv PROVE CodesWorkOnce
    OBVIOUS
  <2>1. ASSUME NEW c \in factor_!Steps PROVE wins.totp[c] <= 1
    <3>1. wins.totp[c] = 0 \/ wins.totp[c] = 1
      BY DEF FactorInv, StepsSpent
    <3>2. QED BY <3>1
  <2>2. ASSUME NEW c \in factor_!RecoveryCodes PROVE wins.recovery[c] <= 1
    <3>1. wins.recovery[c] = 0 \/ wins.recovery[c] = 1
      BY DEF FactorInv, CodesSpent
    <3>2. QED BY <3>1
  <2>3. QED BY <2>1, <2>2 DEF FactorInv, HashesOK, CodesWorkOnce, factor_!CodesWorkOnce
<1>3. QED BY <1>1, <1>2, FactorPreserved, PTL DEF Spec

-----------------------------------------------------------------------------
(***************************************************************************)
(* AccessTokens                                                            *)
(***************************************************************************)

\* The service verifies signatures by key k.
Holds(s, k) == \E i \in 1..Len(config[s]) : config[s][i] = k

ConfigOK == config = [s \in tokens_!Services |-> config[s]]

IsAccess(t, k) ==
    /\ DOMAIN k = {"by", "iss", "aud", "exp", "nbf", "sub", "org", "kind"}
    /\ k.kind = "access" /\ k.sub = t /\ k.iss \in {"api", "other"}
    /\ k.exp \in Nat /\ k.nbf \in Nat

IsLicense(k) ==
    /\ DOMAIN k = {"by", "iss", "aud", "exp", "nbf", "sub", "org", "kind", "features", "seats"}
    /\ k.kind \in {"admin", "customer"} /\ k.by = SigningKeys /\ k.iss = "ferrlabs-licensing"
    /\ k.aud \in Verifiers /\ "" \notin k.features
    /\ k.exp \in Nat /\ k.nbf = 0

TokensOK ==
    /\ token = [t \in Actors |-> token[t]]
    /\ \A t \in Actors : token[t] # None => IsAccess(t, token[t]) \/ IsLicense(token[t])

\* A token of the rotating keys that is alive.
Issued(t) == tokens_!Live(t) /\ token[t].kind = "access"

\* The rotation away from key old: a service waits for the next key, has both, or has dropped
\* old.  Tokens are of these two keys, of old only before the issuer has the next, and of the
\* next only once some service has dropped old.
Rotation(old, new) ==
    /\ \A s \in tokens_!Services : config[s] \in {<<old>>, <<new, old>>, <<new>>}
    /\ \A t \in Actors : Issued(t) => token[t].by \in {old, new}
    /\ tokens_!SigningKey = old => \A t \in Actors : Issued(t) => token[t].by = old
    /\ \A s \in tokens_!Services : config[s] = <<new>> =>
          tokens_!SigningKey = new /\ \A t \in Actors : Issued(t) => token[t].by = new

RotationOK == \E old \in 0..SigningKeys - 1 : Rotation(old, tokens_!KeyAfter(old))

\* The inductive invariant of access tokens.
TokensInv == ConfigOK /\ TokensOK /\ RotationOK

\* The keys of a rotation and of the next one are different.
LEMMA KeysDiffer ==
  ASSUME NEW k \in 0..SigningKeys - 1
  PROVE  LET n == tokens_!KeyAfter(k)
         IN  n \in 0..SigningKeys - 1 /\ n # k /\ tokens_!KeyAfter(n) # k
<1>1. SigningKeys \in Nat /\ SigningKeys > 2
  BY AccessTokensAssumption
<1>2. CASE k + 1 < SigningKeys - 1
  <2>1. tokens_!KeyAfter(k) = k + 1
    BY <1>1, <1>2 DEF tokens_!KeyAfter
  <2>2. tokens_!KeyAfter(k + 1) = k + 2
    BY <1>1, <1>2 DEF tokens_!KeyAfter
  <2>3. QED BY <1>1, <1>2, <2>1, <2>2
<1>3. CASE k + 1 = SigningKeys - 1
  <2>1. tokens_!KeyAfter(k) = k + 1
    BY <1>1, <1>3 DEF tokens_!KeyAfter
  <2>2. tokens_!KeyAfter(k + 1) = 0
    BY <1>1, <1>3 DEF tokens_!KeyAfter
  <2>3. QED BY <1>1, <1>3, <2>1, <2>2
<1>4. CASE k = SigningKeys - 1
  <2>1. tokens_!KeyAfter(k) = 0
    BY <1>1, <1>4 DEF tokens_!KeyAfter
  <2>2. tokens_!KeyAfter(0) = 1
    BY <1>1 DEF tokens_!KeyAfter
  <2>3. QED BY <1>1, <1>4, <2>1, <2>2
<1>5. QED BY <1>1, <1>2, <1>3, <1>4

\* Lists of one and two keys
LEMMA KeyLists ==
  ASSUME NEW a, NEW b
  PROVE  /\ Len(<<a>>) = 1 /\ <<a>>[1] = a
         /\ Len(<<a, b>>) = 2 /\ <<a, b>>[1] = a /\ <<a, b>>[2] = b
OBVIOUS

LEMMA IssuerIsAService == tokens_!Issuer \in tokens_!Services
BY DEF tokens_!Services

LEMMA TokensInitially == tokens_!Init => TokensInv
<1> SUFFICES ASSUME tokens_!Init PROVE TokensInv
  OBVIOUS
<1>1. /\ config = [s \in tokens_!Services |-> <<0>>]
      /\ token = [t \in Actors |-> None]
  BY DEF tokens_!Init, tokens_!FromPem
<1>2. ConfigOK /\ TokensOK
  BY <1>1 DEF ConfigOK, TokensOK
<1>3. \A t \in Actors : ~Issued(t)
  BY <1>1 DEF Issued, tokens_!Live
<1> DEFINE n == tokens_!KeyAfter(0)
<1>4. 0 \in 0..SigningKeys - 1 /\ n # 0
  BY KeysDiffer, AccessTokensAssumption
<1> HIDE DEF n
<1>5. \A s \in tokens_!Services : config[s] = <<0>> /\ config[s] # <<n>>
  <2>1. <<n>>[1] = n /\ <<0>>[1] = 0
    OBVIOUS
  <2>2. QED BY <1>1, <1>4, <2>1
<1>6. Rotation(0, n)
  BY <1>3, <1>5 DEF Rotation
<1>7. QED BY <1>2, <1>4, <1>6 DEF TokensInv, RotationOK, n

\* The service's signing key is of the rotation.
LEMMA SigningKeyIsOf ==
  ASSUME NEW old, NEW new, Rotation(old, new)
  PROVE  tokens_!SigningKey \in {old, new}
<1>1. config[tokens_!Issuer] \in {<<old>>, <<new, old>>, <<new>>}
  BY IssuerIsAService DEF Rotation
<1>2. <<old>>[1] = old /\ <<new>>[1] = new /\ <<new, old>>[1] = new
  OBVIOUS
<1>3. QED BY <1>1, <1>2 DEF tokens_!SigningKey

\* No key is issued by a step that leaves the services alone and signs, if at all, with the
\* signing key.
LEMMA SameRotation ==
  ASSUME TokensInv, UNCHANGED config, TokensOK',
         \A t \in Actors : Issued(t)' =>
            \/ Issued(t) /\ token'[t].by = token[t].by
            \/ token'[t].by = tokens_!SigningKey
  PROVE  TokensInv'
<1>1. PICK old \in 0..SigningKeys - 1 : Rotation(old, tokens_!KeyAfter(old))
  BY DEF TokensInv, RotationOK
<1> DEFINE new == tokens_!KeyAfter(old)
<1>2. tokens_!SigningKey \in {old, new} /\ tokens_!SigningKey' = tokens_!SigningKey
  BY <1>1, SigningKeyIsOf DEF tokens_!SigningKey
<1>3. new' = new
  OBVIOUS
<1> HIDE DEF new
<1>4. Rotation(old, new)
  BY <1>1 DEF new
<1>5. /\ \A s \in tokens_!Services : config'[s] \in {<<old>>, <<new, old>>, <<new>>}
      /\ \A t \in Actors : Issued(t)' => token'[t].by \in {old, new}
  BY <1>2, <1>4 DEF Rotation
<1>6. tokens_!SigningKey = old => \A t \in Actors : Issued(t)' => token'[t].by = old
  BY <1>4 DEF Rotation
<1>7. \A s \in tokens_!Services : config'[s] = <<new>> =>
          tokens_!SigningKey = new /\ \A t \in Actors : Issued(t)' => token'[t].by = new
  BY <1>4 DEF Rotation
<1>8. Rotation(old, new)'
  BY <1>2, <1>3, <1>5, <1>6, <1>7 DEF Rotation
<1>9. ConfigOK'
  BY DEF TokensInv, ConfigOK
<1>10. QED BY <1>3, <1>8, <1>9 DEF TokensInv, RotationOK, new

\* A new token, or none, in a slot.
LEMMA TokenReplaced ==
  ASSUME TokensInv, NEW t \in Actors, NEW k, UNCHANGED config,
         token' = [token EXCEPT ![t] = k],
         k # None => \/ IsAccess(t, k) /\ k.by = tokens_!SigningKey
                     \/ IsLicense(k)
  PROVE  TokensInv'
<1>1. /\ token' = [u \in Actors |-> token'[u]]
      /\ \A u \in Actors : token'[u] = IF u = t THEN k ELSE token[u]
  BY DEF TokensInv, TokensOK
<1>2. TokensOK'
  BY <1>1 DEF TokensInv, TokensOK
<1>3. ASSUME NEW u \in Actors, Issued(u)'
      PROVE  \/ Issued(u) /\ token'[u].by = token[u].by
             \/ token'[u].by = tokens_!SigningKey
  <2>1. CASE u = t
    <3>1. k # None /\ k.kind = "access" /\ token'[u] = k
      BY <1>1, <1>3, <2>1 DEF Issued, tokens_!Live
    <3>2. k.by = tokens_!SigningKey
      BY <3>1 DEF IsLicense
    <3>3. QED BY <3>1, <3>2
  <2>2. CASE u # t
    <3>1. token'[u] = token[u]
      BY <1>1, <2>2
    <3>2. QED BY <1>3, <3>1 DEF Issued, tokens_!Live
  <2>3. QED BY <2>1, <2>2
<1>4. QED BY <1>2, <1>3, SameRotation

\* Claims as issue_token_for signs them, or another issuer with the same key.
LEMMA ClaimsAreAccess ==
  ASSUME NEW t, NEW org, NEW iss \in {"api", "other"}, NEW audience, NEW nbf \in Nat
  PROVE  LET k == tokens_!Claims(t, org, iss, audience, nbf)
         IN  IsAccess(t, k) /\ k.by = tokens_!SigningKey
<1> DEFINE k == tokens_!Claims(t, org, iss, audience, nbf)
<1>1. DOMAIN k = {"by", "iss", "aud", "exp", "nbf", "sub", "org", "kind"}
  BY DEF tokens_!Claims
<1>2. k.kind = "access" /\ k.sub = t /\ k.iss = iss /\ k.exp = TokenTtl /\ k.nbf = nbf
  BY DEF tokens_!Claims
<1>3. k.by = tokens_!SigningKey
  BY DEF tokens_!Claims
<1> HIDE DEF k
<1>4. IsAccess(t, k)
  BY <1>1, <1>2, AccessTokensAssumption DEF IsAccess
<1>5. QED BY <1>3, <1>4 DEF k

LEMMA SignIsLicense ==
  ASSUME NEW t, NEW args \in tokens_!Args
  PROVE  IsLicense(tokens_!Sign(t, [args EXCEPT !.features = tokens_!ParseFeatures(@)]))
<1> DEFINE spec == [args EXCEPT !.features = tokens_!ParseFeatures(@)]
           k == tokens_!Sign(t, spec)
<1>1. /\ args.product \in Verifiers /\ args.kind \in {"admin", "customer"}
      /\ args.days = TokenTtl
      /\ args = [product |-> args.product, kind |-> args.kind, features |-> args.features,
                 seats |-> args.seats, days |-> args.days]
  BY DEF tokens_!Args
<1>2. /\ spec.product = args.product /\ spec.kind = args.kind /\ spec.days = args.days
      /\ spec.features = args.features \ {""}
  BY <1>1 DEF tokens_!ParseFeatures
<1> HIDE DEF spec
<1>3. /\ DOMAIN k = {"by", "iss", "aud", "exp", "nbf", "sub", "org", "kind", "features", "seats"}
      /\ k.kind = spec.kind /\ k.by = SigningKeys /\ k.iss = "ferrlabs-licensing"
      /\ k.aud = spec.product /\ k.features = spec.features
      /\ k.exp = spec.days /\ k.nbf = 0
  BY DEF tokens_!Sign, tokens_!LicenseKey
<1> HIDE DEF k
<1>4. IsLicense(k)
  BY <1>1, <1>2, <1>3, AccessTokensAssumption DEF IsLicense
<1>5. QED BY <1>4 DEF k, spec

\* Time passes: no token comes back to life.
LEMMA TokensTick ==
  ASSUME TokensInv, tokens_!Tick
  PROVE  TokensInv'
<1>1. /\ token' = [t \in Actors |-> token'[t]]
      /\ \A t \in Actors : token'[t] = IF token[t] = None THEN None
            ELSE [token[t] EXCEPT !.exp = tokens_!Less(@), !.nbf = tokens_!Less(@)]
      /\ config' = config
  BY DEF tokens_!Tick
<1>2. ASSUME NEW t \in Actors, token[t] # None
      PROVE  /\ IsAccess(t, token'[t]) \/ IsLicense(token'[t])
             /\ token'[t].by = token[t].by /\ token'[t].kind = token[t].kind
             /\ token'[t].exp > 0 => token[t].exp > 0
  <2> DEFINE k == token[t]
  <2>1. token'[t] = [k EXCEPT !.exp = tokens_!Less(k.exp), !.nbf = tokens_!Less(k.nbf)]
    BY <1>1, <1>2
  <2>2. IsAccess(t, k) \/ IsLicense(k)
    BY <1>2 DEF TokensInv, TokensOK
  <2>3. \A n \in Nat : tokens_!Less(n) \in Nat /\ (tokens_!Less(n) > 0 => n > 0)
    BY DEF tokens_!Less
  <2>4. tokens_!Less(0) = 0
    BY DEF tokens_!Less
  <2> HIDE DEF k
  <2>5. CASE IsAccess(t, k)
    <3>1. /\ DOMAIN token'[t] = DOMAIN k
          /\ token'[t].by = k.by /\ token'[t].kind = k.kind /\ token'[t].sub = k.sub
          /\ token'[t].iss = k.iss /\ token'[t].exp = tokens_!Less(k.exp)
          /\ token'[t].nbf = tokens_!Less(k.nbf)
      BY <2>1, <2>5 DEF IsAccess
    <3>2. IsAccess(t, token'[t])
      BY <3>1, <2>3, <2>5 DEF IsAccess
    <3>3. QED BY <3>1, <3>2, <2>3, <2>5 DEF IsAccess, k
  <2>6. CASE IsLicense(k)
    <3>1. /\ DOMAIN token'[t] = DOMAIN k
          /\ token'[t].by = k.by /\ token'[t].kind = k.kind
          /\ token'[t].iss = k.iss /\ token'[t].exp = tokens_!Less(k.exp)
          /\ token'[t].nbf = tokens_!Less(k.nbf) /\ token'[t].aud = k.aud
          /\ token'[t].features = k.features /\ token'[t].seats = k.seats
      BY <2>1, <2>6 DEF IsLicense
    <3>2. IsLicense(token'[t])
      BY <3>1, <2>3, <2>4, <2>6 DEF IsLicense
    <3>3. QED BY <3>1, <3>2, <2>3, <2>6 DEF IsLicense, k
  <2>7. QED BY <2>2, <2>5, <2>6
<1>3. TokensOK'
  BY <1>1, <1>2 DEF TokensOK
<1>4. ASSUME NEW t \in Actors, Issued(t)'
      PROVE  Issued(t) /\ token'[t].by = token[t].by
  <2>1. token[t] # None /\ token'[t].exp > 0 /\ token'[t].kind = "access"
    BY <1>1, <1>4 DEF Issued, tokens_!Live
  <2>2. QED BY <1>2, <2>1 DEF Issued, tokens_!Live
<1>5. QED BY <1>1, <1>3, <1>4, SameRotation

LEMMA AppendToOne ==
  ASSUME NEW a, NEW b
  PROVE  Append(<<a>>, b) = <<a, b>>
<1>1. <<a>> \in Seq({a, b}) /\ Len(<<a>>) = 1
  OBVIOUS
<1>2. Len(Append(<<a>>, b)) = 2 /\ Append(<<a>>, b)[1] = a /\ Append(<<a>>, b)[2] = b
  BY <1>1
<1>3. Append(<<a>>, b) = [i \in 1..2 |-> IF i = 1 THEN a ELSE b]
  BY <1>1, <1>2
<1>4. <<a, b>> = [i \in 1..2 |-> IF i = 1 THEN a ELSE b]
  OBVIOUS
<1>5. QED BY <1>3, <1>4

\* s is given the new key beside the outgoing one, in a rotation under way or in a new one,
\* for which the last has to be over.
LEMMA TokensRedeploy ==
  ASSUME TokensInv, NEW s \in tokens_!Services, NEW k \in 0..SigningKeys - 1,
         tokens_!Redeploy(s, k)
  PROVE  TokensInv'
<1> DEFINE n == tokens_!KeyAfter(k)
<1>1. /\ config[s] = <<k>> /\ config' = [config EXCEPT ![s] = <<n, k>>]
      /\ \A o \in tokens_!Services \ {s} : config[o] \in {<<k>>, <<n, k>>, <<n>>}
      /\ UNCHANGED token
  <2>1. /\ config[s] = <<k>> /\ config' = [config EXCEPT ![s] = Append(<<n>>, k)]
        /\ \A o \in tokens_!Services \ {s} : config[o] \in {<<k>>, Append(<<n>>, k), <<n>>}
        /\ UNCHANGED token
    BY DEF tokens_!Redeploy, tokens_!FromPem, tokens_!WithPrevious
  <2> HIDE DEF n
  <2>2. Append(<<n>>, k) = <<n, k>>
    BY AppendToOne
  <2>3. QED BY <2>1, <2>2
<1>2. n # k /\ tokens_!KeyAfter(n) # k
  BY KeysDiffer
<1>3. PICK old \in 0..SigningKeys - 1 : Rotation(old, tokens_!KeyAfter(old))
  BY DEF TokensInv, RotationOK
<1> DEFINE new == tokens_!KeyAfter(old)
<1>4. new # old /\ tokens_!KeyAfter(new) # old
  BY KeysDiffer
\* Before the step, the rotation is the one away from k.
<1>5. Rotation(k, n)
  <2>1. config[s] \in {<<old>>, <<new, old>>, <<new>>}
    BY <1>3 DEF Rotation
  <2>2. /\ \A a, b : <<a>> = <<b>> => a = b
        /\ \A a, b, c : <<a>> # <<b, c>>
        /\ \A a, b, c, d : <<a, b>> = <<c, d>> => a = c /\ b = d
    <3>1. \A a, b : Len(<<a>>) = 1 /\ <<a>>[1] = a /\ Len(<<a, b>>) = 2 /\ <<a, b>>[1] = a
                    /\ <<a, b>>[2] = b
      BY KeyLists
    <3>2. QED BY <3>1
  <2>3. CASE k = old
    BY <1>3, <2>3
  <2>4. CASE k = new
    <3> HIDE DEF n
    <3>1. n # old
      BY <1>4, <2>4 DEF n
    <3>2. ASSUME NEW o \in tokens_!Services PROVE config[o] = <<k>>
      <4>1. CASE o = s
        BY <1>1, <4>1
      <4>2. CASE o # s
        <5>1. config[o] \in {<<k>>, <<n, k>>, <<n>>}
          BY <1>1, <4>2
        <5>2. config[o] \in {<<old>>, <<k, old>>, <<k>>}
          BY <1>3, <2>4 DEF Rotation
        <5>3. n # k
          BY <1>2
        <5>4. QED BY <1>4, <2>2, <2>4, <3>1, <5>1, <5>2, <5>3
      <4>3. QED BY <4>1, <4>2
    <3>3. \A t \in Actors : Issued(t) => token[t].by = k
      BY <1>1, <1>3, <2>4 DEF Rotation
    <3>4. \A o \in tokens_!Services : config[o] # <<n>>
      BY <1>2, <2>2, <3>2
    <3>5. QED BY <3>2, <3>3, <3>4 DEF Rotation
  <2>5. QED BY <1>1, <2>1, <2>2, <2>3, <2>4
<1> HIDE DEF n, new
<1>6. /\ config' = [o \in tokens_!Services |-> config'[o]]
      /\ config'[s] = <<n, k>>
      /\ \A o \in tokens_!Services \ {s} : config'[o] = config[o]
  BY <1>1 DEF TokensInv, ConfigOK
<1>7. Len(<<n, k>>) = 2 /\ <<n, k>>[1] = n /\ Len(<<n>>) = 1 /\ <<k>>[1] = k
  OBVIOUS
<1>8. \A t \in Actors : Issued(t)' <=> Issued(t)
  BY <1>1 DEF Issued, tokens_!Live
<1>9. tokens_!SigningKey' = IF s = tokens_!Issuer THEN n ELSE tokens_!SigningKey
  BY <1>6, <1>7, IssuerIsAService DEF tokens_!SigningKey
<1>10. s = tokens_!Issuer => tokens_!SigningKey = k
  BY <1>1, <1>7 DEF tokens_!SigningKey
<1>11. /\ \A o \in tokens_!Services : config'[o] \in {<<k>>, <<n, k>>, <<n>>}
       /\ \A t \in Actors : Issued(t)' => token'[t].by \in {k, n}
  BY <1>1, <1>5, <1>6, <1>8 DEF Rotation
<1>12. tokens_!SigningKey' = k => \A t \in Actors : Issued(t)' => token'[t].by = k
  BY <1>1, <1>2, <1>5, <1>8, <1>9 DEF Rotation
<1>13. ASSUME NEW o \in tokens_!Services, config'[o] = <<n>>
       PROVE  tokens_!SigningKey' = n /\ \A t \in Actors : Issued(t)' => token'[t].by = n
  <2>1. o # s /\ config[o] = <<n>>
    BY <1>6, <1>7, <1>13
  <2>2. tokens_!SigningKey = n /\ \A t \in Actors : Issued(t) => token[t].by = n
    BY <1>5, <2>1 DEF Rotation
  <2>3. QED BY <1>1, <1>8, <1>9, <2>2
<1>14. Rotation(k, n)'
  BY <1>11, <1>12, <1>13 DEF Rotation
<1>15. ConfigOK' /\ TokensOK'
  BY <1>1, <1>6 DEF TokensInv, ConfigOK, TokensOK
<1>16. QED BY <1>14, <1>15 DEF TokensInv, RotationOK, n

\* s forgets the previous key: no live token needs it, and no more are signed with it.
LEMMA TokensDropPrevious ==
  ASSUME TokensInv, NEW s \in tokens_!Services, tokens_!DropPrevious(s)
  PROVE  TokensInv'
<1>1. /\ Len(config[s]) = 2 /\ config[s][1] = tokens_!SigningKey
      /\ \A t \in Actors : tokens_!Live(t) => token[t].by # config[s][2]
      /\ config' = [config EXCEPT ![s] = <<config[s][1]>>]
      /\ UNCHANGED token
  BY DEF tokens_!DropPrevious, tokens_!FromPem
<1>2. PICK old \in 0..SigningKeys - 1 : Rotation(old, tokens_!KeyAfter(old))
  BY DEF TokensInv, RotationOK
<1> DEFINE new == tokens_!KeyAfter(old)
<1>3. new # old
  BY KeysDiffer
<1>4. Rotation(old, new)
  BY <1>2
<1> HIDE DEF new
<1>5. /\ Len(<<old>>) = 1 /\ Len(<<new>>) = 1 /\ <<new, old>>[1] = new /\ <<new, old>>[2] = old
      /\ <<new>>[1] = new
  OBVIOUS
<1>6. config[s] = <<new, old>>
  BY <1>1, <1>4, <1>5 DEF Rotation
<1>7. tokens_!SigningKey = new /\ config' = [config EXCEPT ![s] = <<new>>]
  BY <1>1, <1>5, <1>6
<1>8. \A t \in Actors : Issued(t) => token[t].by = new
  BY <1>1, <1>4, <1>5, <1>6 DEF Issued, Rotation
<1>9. /\ config' = [o \in tokens_!Services |-> config'[o]]
      /\ config'[s] = <<new>>
      /\ \A o \in tokens_!Services \ {s} : config'[o] = config[o]
  BY <1>7 DEF TokensInv, ConfigOK
<1>10. tokens_!SigningKey' = new
  BY <1>5, <1>7, <1>9, IssuerIsAService DEF tokens_!SigningKey
<1>11. \A t \in Actors : Issued(t)' => token'[t].by = new
  BY <1>1, <1>8 DEF Issued, tokens_!Live
<1>12. \A o \in tokens_!Services : config'[o] \in {<<old>>, <<new, old>>, <<new>>}
  BY <1>4, <1>9 DEF Rotation
<1>13. Rotation(old, new)'
  BY <1>3, <1>10, <1>11, <1>12 DEF Rotation
<1>14. ConfigOK' /\ TokensOK'
  BY <1>1, <1>9 DEF TokensInv, ConfigOK, TokensOK
<1>15. QED BY <1>13, <1>14 DEF TokensInv, RotationOK, new

LEMMA TokensInductive ==
  ASSUME TokensInv, tokens_!Next
  PROVE  TokensInv'
<1>1. CASE tokens_!Tick
  BY <1>1, TokensTick
<1>2. CASE \E s \in tokens_!Services :
             \/ tokens_!DropPrevious(s)
             \/ \E old \in 0..SigningKeys - 1 : tokens_!Redeploy(s, old)
  BY <1>2, TokensRedeploy, TokensDropPrevious
<1>3. ASSUME NEW t \in Actors, NEW audience, NEW org, tokens_!IssueTokenFor(t, audience, org)
      PROVE  TokensInv'
  <2> DEFINE k == tokens_!Claims(t, org, "api", audience, 0)
  <2>1. token' = [token EXCEPT ![t] = k] /\ UNCHANGED config
    BY <1>3 DEF tokens_!IssueTokenFor
  <2>2. IsAccess(t, k) /\ k.by = tokens_!SigningKey
    BY ClaimsAreAccess
  <2> HIDE DEF k
  <2>3. QED BY <2>1, <2>2, TokenReplaced
<1>4. ASSUME NEW t \in Actors, tokens_!ForeignToken(t)
      PROVE  TokensInv'
  <2>1. PICK iss \in {"api", "other"}, s \in Verifiers :
            token' = [token EXCEPT ![t] = tokens_!Claims(t, None, iss, s, 1)]
    BY <1>4 DEF tokens_!ForeignToken
  <2> DEFINE k == tokens_!Claims(t, None, iss, s, 1)
  <2>2. token' = [token EXCEPT ![t] = k] /\ UNCHANGED config
    BY <1>4, <2>1 DEF tokens_!ForeignToken
  <2>3. IsAccess(t, k) /\ k.by = tokens_!SigningKey
    BY ClaimsAreAccess
  <2> HIDE DEF k
  <2>4. QED BY <2>2, <2>3, TokenReplaced
<1>5. ASSUME NEW t \in Actors, NEW args \in tokens_!Args, tokens_!Licensegen(t, args)
      PROVE  TokensInv'
  <2> DEFINE k == tokens_!Sign(t, [args EXCEPT !.features = tokens_!ParseFeatures(@)])
  <2>1. token' = [token EXCEPT ![t] = k] /\ UNCHANGED config
    BY <1>5 DEF tokens_!Licensegen
  <2>2. IsLicense(k)
    BY SignIsLicense
  <2> HIDE DEF k
  <2>3. QED BY <2>1, <2>2, TokenReplaced
<1>6. ASSUME NEW t \in Actors, tokens_!Discard(t)
      PROVE  TokensInv'
  BY <1>6, TokenReplaced DEF tokens_!Discard
<1>7. QED
  BY <1>1, <1>2, <1>3, <1>4, <1>5, <1>6 DEF tokens_!Next

LEMMA TokensPreserved == TokensInv /\ [Next]_vars => TokensInv'
<1> SUFFICES ASSUME TokensInv, [Next]_vars PROVE TokensInv'
  OBVIOUS
<1>1. CASE TokensStep
  BY <1>1, TokensInductive DEF TokensStep
<1>2. CASE UNCHANGED tokensVars
  <2>1. UNCHANGED <<config, token>>
    BY <1>2 DEF tokensVars
  <2>2. TokensOK'
    BY <2>1 DEF TokensInv, TokensOK
  <2>3. \A t \in Actors : Issued(t)' => Issued(t) /\ token'[t].by = token[t].by
    BY <2>1 DEF Issued, tokens_!Live
  <2>4. QED BY <2>1, <2>2, <2>3, SameRotation
<1>3. QED
  BY <1>1, <1>2 DEF Next, vars, LoginStep, KeysStep, DeksStep, GithubStep, FactorStep

\* The outcomes of verify_token's loop over its keys: a service that holds the token's key
\* reports what that key's decoding says of the claims, whatever the other key says.
LEMMA VerdictOfTheKey ==
  ASSUME NEW s, NEW k, Holds(s, k.by)
  PROVE  LET d == tokens_!Decode(k, k.by, tokens_!Validation(s))
         IN  tokens_!VerifyToken(s, k) = IF d = "Ok" THEN "Ok" ELSE tokens_!MapError(d)
<1> DEFINE v == tokens_!Validation(s)
           d == tokens_!Decode(k, k.by, v)
           outcomes == {tokens_!Decode(k, config[s][i], v) : i \in 1..Len(config[s])}
           claims == outcomes \ {"InvalidSignature"}
<1>1. d # "InvalidSignature"
  BY DEF tokens_!Decode
<1>2. d \in outcomes
  BY DEF Holds
<1>3. ASSUME NEW e \in outcomes PROVE e = d \/ e = "InvalidSignature"
  <2>1. PICK i \in 1..Len(config[s]) : e = tokens_!Decode(k, config[s][i], v)
    OBVIOUS
  <2>2. CASE config[s][i] = k.by
    BY <2>1, <2>2
  <2>3. CASE config[s][i] # k.by
    BY <2>1, <2>3 DEF tokens_!Decode
  <2>4. QED BY <2>2, <2>3
<1>4. tokens_!VerifyToken(s, k) =
        IF "Ok" \in outcomes THEN "Ok"
        ELSE IF claims # {} THEN tokens_!MapError(CHOOSE e \in claims : TRUE)
        ELSE tokens_!MapError("InvalidSignature")
  BY DEF tokens_!VerifyToken
<1> HIDE DEF d, outcomes
<1>5. claims = {d}
  BY <1>1, <1>2, <1>3
<1>6. (CHOOSE e \in claims : TRUE) = d
  BY <1>5
<1>7. "Ok" \in outcomes <=> d = "Ok"
  BY <1>2, <1>3
<1> HIDE DEF claims
<1>8. tokens_!VerifyToken(s, k) = IF d = "Ok" THEN "Ok" ELSE tokens_!MapError(d)
  <2>1. CASE d = "Ok"
    BY <1>4, <1>7, <2>1
  <2>2. CASE d # "Ok"
    <3>1. "Ok" \notin outcomes /\ claims # {}
      BY <1>5, <1>7, <2>2
    <3>2. QED BY <1>4, <1>6, <2>2, <3>1
  <2>3. QED BY <2>1, <2>2
<1>9. QED BY <1>8 DEF d, v

\* A live access token at a service that holds its key: taken by its audience once it is
\* valid, and refused elsewhere for a claim.
LEMMA AccessVerdict ==
  ASSUME NEW t, NEW k, IsAccess(t, k), k.exp > 0, NEW s \in tokens_!Services, Holds(s, k.by)
  PROVE  LET mine == k.aud = tokens_!Audience(s) /\ k.nbf = 0 /\ k.iss = "api"
         IN  /\ mine => tokens_!VerifyToken(s, k) = "Ok"
             /\ ~mine => tokens_!VerifyToken(s, k) \notin {"Ok", "Invalid"}
<1> DEFINE mine == k.aud = tokens_!Audience(s) /\ k.nbf = 0 /\ k.iss = "api"
           v == tokens_!Validation(s)
           d == tokens_!Decode(k, k.by, v)
<1>1. /\ v.iss = "api" /\ v.aud = tokens_!Audience(s)
      /\ "aud" \in v.required <=> tokens_!Audience(s) # None
  BY DEF tokens_!Validation
<1>2. k.exp # 0 /\ (k.nbf > 0 <=> k.nbf # 0)
  BY DEF IsAccess
<1>3. d = IF "aud" \in v.required /\ k.aud = None THEN "MissingAud"
          ELSE IF k.nbf > 0 THEN "ImmatureSignature"
          ELSE IF k.iss # v.iss THEN "InvalidIssuer"
          ELSE IF k.aud # v.aud THEN "InvalidAudience"
          ELSE "Ok"
  <2> HIDE DEF v
  <2>1. QED BY <1>2 DEF tokens_!Decode
<1>4. tokens_!VerifyToken(s, k) = IF d = "Ok" THEN "Ok" ELSE tokens_!MapError(d)
  BY VerdictOfTheKey
<1> HIDE DEF v, d
<1>5. CASE mine
  <2>1. d = "Ok"
    BY <1>1, <1>2, <1>3, <1>5
  <2>2. QED BY <1>4, <1>5, <2>1
<1>6. CASE ~mine
  <2>1. d \in {"MissingAud", "ImmatureSignature", "InvalidIssuer", "InvalidAudience"}
    BY <1>1, <1>2, <1>3, <1>6
  <2>2. tokens_!MapError(d) \in {"WrongAudience", "NotYetValid", "WrongIssuer"}
    BY <2>1 DEF tokens_!MapError
  <2>3. QED BY <1>4, <1>6, <2>1, <2>2
<1>7. QED BY <1>5, <1>6

\* A license is not an access token anywhere, and is taken by its own product only.
LEMMA LicenseVerdict ==
  ASSUME RotationOK, NEW k, IsLicense(k), k.exp > 0
  PROVE  /\ \A s \in tokens_!Services : tokens_!VerifyToken(s, k) # "Ok"
         /\ \A p \in Verifiers :
               tokens_!VerifyLicense(k, p) = IF p = k.aud THEN "Ok" ELSE "WrongProduct"
<1>1. ASSUME NEW s \in tokens_!Services PROVE tokens_!VerifyToken(s, k) # "Ok"
  <2> DEFINE v == tokens_!Validation(s)
             outcomes == {tokens_!Decode(k, config[s][i], v) : i \in 1..Len(config[s])}
             claims == outcomes \ {"InvalidSignature"}
  <2>1. \A i \in 1..Len(config[s]) : k.by # config[s][i]
    <3>1. \A i \in 1..Len(config[s]) : config[s][i] \in 0..SigningKeys - 1
      <4>1. PICK old \in 0..SigningKeys - 1 : Rotation(old, tokens_!KeyAfter(old))
        BY DEF RotationOK
      <4> DEFINE new == tokens_!KeyAfter(old)
      <4>2. new \in 0..SigningKeys - 1
        BY KeysDiffer
      <4>3. config[s] \in {<<old>>, <<new, old>>, <<new>>}
        BY <4>1 DEF Rotation
      <4> HIDE DEF new
      <4>4. QED BY <4>2, <4>3
    <3>2. SigningKeys \notin 0..SigningKeys - 1
      BY AccessTokensAssumption
    <3>3. k.by = SigningKeys
      BY DEF IsLicense
    <3>4. QED BY <3>1, <3>2, <3>3
  <2>2. \A e \in outcomes : e = "InvalidSignature"
    BY <2>1 DEF tokens_!Decode
  <2>3. tokens_!VerifyToken(s, k) =
          IF "Ok" \in outcomes THEN "Ok"
          ELSE IF claims # {} THEN tokens_!MapError(CHOOSE e \in claims : TRUE)
          ELSE tokens_!MapError("InvalidSignature")
    BY DEF tokens_!VerifyToken
  <2> HIDE DEF outcomes
  <2>4. "Ok" \notin outcomes /\ claims = {}
    BY <2>2
  <2>5. tokens_!VerifyToken(s, k) = tokens_!MapError("InvalidSignature")
    BY <2>3, <2>4
  <2>6. QED BY <2>5 DEF tokens_!MapError
<1>2. ASSUME NEW p \in Verifiers
      PROVE  tokens_!VerifyLicense(k, p) = IF p = k.aud THEN "Ok" ELSE "WrongProduct"
  <2> DEFINE v == [iss |-> "ferrlabs-licensing", aud |-> p, required |-> {"exp", "iss", "aud", "nbf"}]
             e == tokens_!Decode(k, tokens_!LicenseKey, v)
  <2>1. v.iss = "ferrlabs-licensing" /\ v.aud = p
    OBVIOUS
  <2>2. /\ k.by = tokens_!LicenseKey /\ k.aud # None /\ k.exp # 0 /\ ~(k.nbf > 0)
        /\ k.iss = "ferrlabs-licensing"
    <3>1. /\ k.by = tokens_!LicenseKey /\ k.aud \in Verifiers /\ k.exp \in Nat /\ k.nbf = 0
          /\ k.iss = "ferrlabs-licensing"
      BY DEF IsLicense, tokens_!LicenseKey
    <3>2. QED BY <3>1, NoneAssumption
  <2>3. tokens_!VerifyLicense(k, p) = IF e = "Ok" THEN "Ok" ELSE tokens_!MapJwtErr(e)
    BY DEF tokens_!VerifyLicense
  <2> HIDE DEF v
  <2>4. e = IF k.aud # p THEN "InvalidAudience" ELSE "Ok"
    BY <2>1, <2>2 DEF tokens_!Decode
  <2> HIDE DEF e
  <2>5. QED BY <2>3, <2>4 DEF tokens_!MapJwtErr
<1>3. QED BY <1>1, <1>2

\* A service that lacks the key of a live token waits for its redeployment, and the token is
\* of the key the issuer has been given.
LEMMA LackedKey ==
  ASSUME TokensInv, NEW t \in Actors, Issued(t), NEW s \in tokens_!Services,
         ~Holds(s, token[t].by)
  PROVE  /\ tokens_!Behind(s) /\ token[t].by = tokens_!SigningKey
         /\ tokens_!VerifyToken(s, token[t]) = "Invalid"
<1>1. PICK old \in 0..SigningKeys - 1 : Rotation(old, tokens_!KeyAfter(old))
  BY DEF TokensInv, RotationOK
<1> DEFINE new == tokens_!KeyAfter(old)
           k == token[t]
<1>2. tokens_!SigningKey \in {old, new}
  BY <1>1, SigningKeyIsOf
<1>3. config[s] \in {<<old>>, <<new, old>>, <<new>>} /\ k.by \in {old, new}
  BY <1>1 DEF Rotation
<1>4. config[s] # <<new, old>>
  <2> HIDE DEF new, k
  <2>1. 1 \in 1..Len(<<new, old>>) /\ 2 \in 1..Len(<<new, old>>)
        /\ <<new, old>>[1] = new /\ <<new, old>>[2] = old
    OBVIOUS
  <2>2. QED BY <1>3, <2>1 DEF Holds, k
<1>5. config[s] # <<new>>
  <2>1. config[s] = <<new>> => k.by = new
    BY <1>1 DEF Rotation
  <2> HIDE DEF new, k
  <2>2. 1 \in 1..Len(<<new>>) /\ <<new>>[1] = new
    OBVIOUS
  <2>3. QED BY <2>1, <2>2 DEF Holds, k
<1>6. config[s] = <<old>>
  BY <1>3, <1>4, <1>5
<1>7. Len(config[s]) = 1 /\ config[s][1] = old
  BY <1>6
<1>8. k.by # old
  BY <1>7 DEF Holds
<1>9. tokens_!SigningKey # old
  BY <1>1, <1>8 DEF Rotation
<1>10. tokens_!Behind(s) /\ k.by = tokens_!SigningKey
  BY <1>2, <1>3, <1>7, <1>8, <1>9 DEF tokens_!Behind
<1> DEFINE outcomes == {tokens_!Decode(k, config[s][i], tokens_!Validation(s)) :
                          i \in 1..Len(config[s])}
           claims == outcomes \ {"InvalidSignature"}
<1>11. \A e \in outcomes : e = "InvalidSignature"
  BY <1>7, <1>8 DEF tokens_!Decode
<1>12. tokens_!VerifyToken(s, k) =
         IF "Ok" \in outcomes THEN "Ok"
         ELSE IF claims # {} THEN tokens_!MapError(CHOOSE e \in claims : TRUE)
         ELSE tokens_!MapError("InvalidSignature")
  BY DEF tokens_!VerifyToken
<1> HIDE DEF outcomes
<1>13. "Ok" \notin outcomes /\ claims = {}
  BY <1>11
<1>14. tokens_!VerifyToken(s, k) = tokens_!MapError("InvalidSignature")
  BY <1>12, <1>13
<1>15. tokens_!VerifyToken(s, k) = "Invalid"
  BY <1>14 DEF tokens_!MapError
<1>16. QED BY <1>10, <1>15

\* jwt.rs:14-22, 136-149, 262-303 and license/lib.rs:15-16, 112-116: live tokens are taken by
\* their audience and by nobody else throughout rotations in any order of redeployment, for
\* any number of tokens, services and signing keys; a signature is refused only by a service
\* that is behind the issuer.
THEOREM TokensCorrect == Spec => []TokensReachTheirAudience
<1>1. Init => TokensInv
  BY TokensInitially DEF Init
<1>2. TokensInv => TokensReachTheirAudience
  <2> SUFFICES ASSUME TokensInv PROVE TokensReachTheirAudience
    OBVIOUS
  <2>1. ASSUME NEW t \in Actors, tokens_!Live(t), token[t].kind = "access",
               NEW s \in tokens_!Services, Holds(s, token[t].by)
        PROVE  LET mine == /\ token[t].aud = tokens_!Audience(s)
                           /\ token[t].nbf = 0 /\ token[t].iss = "api"
                   auth == tokens_!Extract(s, [scheme |-> "Bearer ", token |-> token[t]])
               IN  /\ auth.ok = mine
                   /\ mine => /\ auth.user = t
                              /\ tokens_!RequireOrg(auth) = tokens_!RequireOrg(token[t])
                   /\ ~mine => tokens_!VerifyToken(s, token[t]) # "Invalid"
    <3> DEFINE k == token[t]
               mine == k.aud = tokens_!Audience(s) /\ k.nbf = 0 /\ k.iss = "api"
               auth == tokens_!Extract(s, [scheme |-> "Bearer ", token |-> k])
    <3>1. IsAccess(t, k) /\ k.exp > 0 /\ Holds(s, k.by)
      BY <2>1 DEF TokensInv, TokensOK, tokens_!Live, IsLicense
    <3>2. /\ mine => tokens_!VerifyToken(s, k) = "Ok"
          /\ ~mine => tokens_!VerifyToken(s, k) \notin {"Ok", "Invalid"}
      BY <3>1, AccessVerdict
    <3>3. k.sub = t
      BY <3>1 DEF IsAccess
    <3>4. auth = IF tokens_!VerifyToken(s, k) # "Ok"
                 THEN [ok |-> FALSE, status |-> "Unauthorized"]
                 ELSE [ok |-> TRUE, user |-> k.sub, org |-> k.org]
      BY DEF tokens_!Extract
    <3> HIDE DEF k, auth
    <3>5. CASE mine
      <4>1. auth = [ok |-> TRUE, user |-> t, org |-> k.org]
        BY <3>2, <3>3, <3>4, <3>5
      <4>2. auth.ok = TRUE /\ auth.user = t /\ auth.org = k.org
        BY <4>1
      <4>3. tokens_!RequireOrg(auth) = tokens_!RequireOrg(k)
        BY <4>2 DEF tokens_!RequireOrg
      <4>4. QED BY <3>5, <4>2, <4>3 DEF k, auth
    <3>6. CASE ~mine
      <4>1. auth = [ok |-> FALSE, status |-> "Unauthorized"]
        BY <3>2, <3>4, <3>6
      <4>2. auth.ok = FALSE
        BY <4>1
      <4>3. QED BY <3>2, <3>6, <4>2 DEF k, auth
    <3>7. QED BY <3>5, <3>6
  <2>2. ASSUME NEW t \in Actors, tokens_!Live(t), token[t].kind # "access"
        PROVE  /\ \A s \in tokens_!Services : tokens_!VerifyToken(s, token[t]) # "Ok"
               /\ \A p \in Verifiers :
                     tokens_!VerifyLicense(token[t], p) =
                         IF p = token[t].aud THEN "Ok" ELSE "WrongProduct"
               /\ ~tokens_!Allows(token[t], "") <=> token[t].kind = "customer"
               /\ tokens_!SeatLimit(token[t]) # None <=>
                     token[t].kind = "customer" /\ token[t].seats # None
    <3>1. IsLicense(token[t]) /\ token[t].exp > 0
      BY <2>2 DEF TokensInv, TokensOK, tokens_!Live, IsAccess
    <3>2. ~tokens_!Allows(token[t], "") <=> token[t].kind = "customer"
      BY <3>1 DEF IsLicense, tokens_!Allows
    <3>3. tokens_!SeatLimit(token[t]) # None <=>
            token[t].kind = "customer" /\ token[t].seats # None
      <4>1. token[t].kind \in {"admin", "customer"}
        BY <3>1 DEF IsLicense
      <4>2. QED BY <4>1 DEF tokens_!SeatLimit
    <3>4. QED BY <3>1, <3>2, <3>3, LicenseVerdict DEF TokensInv
  <2>3. ASSUME NEW t \in Actors, tokens_!Live(t), token[t].kind = "access",
               NEW s \in tokens_!Services, ~Holds(s, token[t].by)
        PROVE  /\ tokens_!Behind(s) /\ token[t].by = tokens_!SigningKey
               /\ tokens_!VerifyToken(s, token[t]) = "Invalid"
    BY <2>3, LackedKey DEF Issued
  <2>4. QED BY <2>1, <2>2, <2>3 DEF TokensReachTheirAudience, tokens_!TokensReachTheirAudience
<1>3. QED BY <1>1, <1>2, TokensPreserved, PTL DEF Spec

=============================================================================
