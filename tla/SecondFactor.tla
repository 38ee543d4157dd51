---------------------------- MODULE SecondFactor ----------------------------
(***************************************************************************)
(* Password, TOTP and recovery codes of crates/auth (password.rs, totp.rs) *)
(* for one account, with the product's login handler around them: it reads *)
(* the account's row, awaits the key provider that unseals the seed, asks  *)
(* the library, and then persists what the library returned, on condition  *)
(* that the row still holds what was read (external; totp.rs:125-127 and   *)
(* 212-214 ask for it).  Several attempts run at once, with any code, and  *)
(* the process's clock may be set back.                                    *)
(***************************************************************************)
EXTENDS Integers, Sequences

CONSTANTS Attempts,   \* login requests in flight
          MaxStep,    \* the last TOTP step of the clock
          MaxBatch,   \* how often recovery codes are generated
          Count,      \* recovery codes per batch
          None

VARIABLES
    now,      \* the clock's TOTP step: unix time / TOTP_STEP_SECS
    account,  \* the account's row
    attempt,  \* the logins under way
    wins      \* logins each code has let through

svars == <<now, account, attempt, wins>>

Steps == 0..MaxStep

\* A recovery code is the batch it was generated in and its place there.
RecoveryCodes == (1..MaxBatch) \X (1..Count)

\* hash_recovery_code: no two codes share a hash
HashRecoveryCode(code) == [hash |-> code]

Idle == [phase |-> "idle", last |-> None, hashes |-> <<>>, match |-> None]

Init ==
    /\ now = 0
    /\ account = [enrolled |-> FALSE, last |-> None, batch |-> 0, hashes |-> <<>>]
    /\ attempt = [a \in Attempts |-> Idle]
    /\ wins = [totp |-> [c \in Steps |-> 0], recovery |-> [c \in RecoveryCodes |-> 0]]

\* The clock moves on, or is set back.
Clock ==
    /\ now' \in {now - 1, now + 1} \cap Steps
    /\ UNCHANGED <<account, attempt, wins>>

-----------------------------------------------------------------------------
\* The library

TotpSkew == 1

\* Totp::check as totp() configures it: the step of the window whose code was presented
\* (external; a code is the step it was generated for).
Check(code) == IF code \in now - TotpSkew .. now + TotpSkew THEN code ELSE None

\* Mutant: the step last used is accepted again.
VerifyStepAtInclusive(code, last) ==
    IF Check(code) # None /\ (last = None \/ Check(code) >= last) THEN Check(code) ELSE None

\* verify_step_at, and verify_step_now at the clock's time
VerifyStepAt(code, last) ==
    IF Check(code) # None /\ (last = None \/ Check(code) > last) THEN Check(code) ELSE None

\* verify_at, and verify_now, which is verify_at at the clock's time
VerifyAt(code) == VerifyStepAt(code, None) # None
VerifyNow(code) == VerifyAt(code)

\* generate_recovery_codes, of which only the hashes are persisted
GenerateRecoveryCodes(batch) == [i \in 1..Count |-> HashRecoveryCode(<<batch, i>>)]

\* verify_and_consume: the last place whose hash is the presented code's
VerifyAndConsume(code, hashes) ==
    LET matched == {i \in 1..Len(hashes) : hashes[i] = HashRecoveryCode(code)}
    IN  IF matched = {} THEN None ELSE CHOOSE i \in matched : \A j \in matched : j <= i

-----------------------------------------------------------------------------
\* The account

\* generate, provisioning_uri and seal_seed, and the user's first code, which verify_now
\* confirms and nothing remembers.  A wrong code or a key provider that fails changes nothing.
Enrol(code) ==
    /\ ~account.enrolled /\ VerifyNow(code)
    /\ account' = [enrolled |-> TRUE, last |-> account.last, batch |-> 1,
                   hashes |-> GenerateRecoveryCodes(1)]
    /\ UNCHANGED <<now, attempt, wins>>

\* New recovery codes replace the old ones, while logins are under way.
Regenerate ==
    /\ account.enrolled /\ account.batch < MaxBatch
    /\ account' = [enrolled |-> TRUE, last |-> account.last, batch |-> account.batch + 1,
                   hashes |-> GenerateRecoveryCodes(account.batch + 1)]
    /\ UNCHANGED <<now, attempt, wins>>

\* password::verify against the stored hash.  A wrong password, or a hash that does not
\* parse, ends the attempt where it began.
FirstFactor(a) ==
    /\ attempt[a].phase = "idle" /\ account.enrolled
    /\ attempt' = [attempt EXCEPT ![a].phase = "password"]
    /\ UNCHANGED <<now, account, wins>>

\* The row is read and unseal_seed awaited; the key provider may fail.
UnsealSeed(a) ==
    /\ attempt[a].phase = "password"
    /\ \/ attempt' = [attempt EXCEPT ![a] =
             [phase |-> "read", last |-> account.last, hashes |-> account.hashes, match |-> None]]
       \/ attempt' = [attempt EXCEPT ![a] = Idle]
    /\ UNCHANGED <<now, account, wins>>

\* The library's verdict on a presented code: what it matched, or the end of the attempt.
Judged(a, phase, match) ==
    attempt' = [attempt EXCEPT ![a] =
        IF match = None THEN Idle
        ELSE [phase |-> phase, last |-> attempt[a].last, hashes |-> attempt[a].hashes,
              match |-> match]]

\* from_seed and verify_step_now with the step that was read
PresentTotp(a, code) ==
    /\ attempt[a].phase = "read"
    /\ Judged(a, "totp", VerifyStepAt(code, attempt[a].last))
    /\ UNCHANGED <<now, account, wins>>

\* verify_and_consume with the hashes that were read
PresentRecovery(a, code) ==
    /\ attempt[a].phase = "read"
    /\ Judged(a, "recovery", VerifyAndConsume(code, attempt[a].hashes))
    /\ UNCHANGED <<now, account, wins>>

\* The handler stores the step if the row still has the one it read (external).
PersistStep(a) ==
    /\ attempt[a].phase = "totp"
    /\ IF account.last = attempt[a].last
       THEN /\ account' = [account EXCEPT !.last = attempt[a].match]
            /\ wins' = [wins EXCEPT !.totp[attempt[a].match] = @ + 1]
       ELSE UNCHANGED <<account, wins>>
    /\ attempt' = [attempt EXCEPT ![a] = Idle]
    /\ UNCHANGED now

\* The list without its entry at place i.
Without(hashes, i) == [j \in 1..Len(hashes) - 1 |-> IF j < i THEN hashes[j] ELSE hashes[j + 1]]

\* The handler removes the hash at the returned place from the row, if it is still there
\* (external).
Consume(a) ==
    /\ attempt[a].phase = "recovery"
    /\ LET hash == attempt[a].hashes[attempt[a].match]
       IN  \/ \E i \in 1..Len(account.hashes) :
                 /\ account.hashes[i] = hash
                 /\ account' = [account EXCEPT !.hashes = Without(@, i)]
                 /\ wins' = [wins EXCEPT !.recovery[hash.hash] = @ + 1]
           \/ /\ \A i \in 1..Len(account.hashes) : account.hashes[i] # hash
              /\ UNCHANGED <<account, wins>>
    /\ attempt' = [attempt EXCEPT ![a] = Idle]
    /\ UNCHANGED now

Next ==
    \/ Clock \/ Regenerate
    \/ \E code \in Steps : Enrol(code)
    \/ \E a \in Attempts :
          \/ FirstFactor(a) \/ UnsealSeed(a)
          \/ \E code \in Steps : PresentTotp(a, code)
          \/ \E code \in RecoveryCodes : PresentRecovery(a, code)
          \/ PersistStep(a) \/ Consume(a)

-----------------------------------------------------------------------------

\* totp.rs:122-127, 17-21: a handler that persists what it is told as the documentation asks
\* lets one login through per code, whatever is presented concurrently, when the clock is
\* set back, and when recovery codes are regenerated meanwhile; and a code of a batch that
\* has been replaced lets none through.
CodesWorkOnce ==
    /\ \A c \in Steps : wins.totp[c] <= 1
    /\ \A c \in RecoveryCodes : wins.recovery[c] <= 1
    /\ \A i \in 1..Len(account.hashes) :
          account.hashes[i].hash[1] = account.batch /\ wins.recovery[account.hashes[i].hash] = 0

=============================================================================
