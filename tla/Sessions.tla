------------------------------ MODULE Sessions ------------------------------
(***************************************************************************)
(* PgSessionStore of ferrlabs-auth (crates/auth/src/session.rs): refresh   *)
(* sessions in Postgres, rotated on every use, with family revocation when *)
(* a rotated token comes back.                                             *)
(*                                                                         *)
(* rotate runs in an explicit transaction, the other operations in         *)
(* implicit ones, all at Postgres's default READ COMMITTED.  What the code *)
(* relies on of it is modelled here and external to the repository: a row  *)
(* lock is held until the end of the transaction; writes become visible at *)
(* COMMIT; an UPDATE chooses its rows from a snapshot taken when the       *)
(* statement starts, then waits for the lock of each and re-checks its     *)
(* WHERE clause on the version it gets, so it never sees a row inserted    *)
(* after the snapshot.                                                     *)
(*                                                                         *)
(* A token is identified with its session: hashes do not collide.  Anyone  *)
(* may present any token that was ever issued, the thief as well as the    *)
(* owner.  Each session counts down to its expires_at and stays at -1 once *)
(* that is past.                                                           *)
(***************************************************************************)
EXTENDS Integers, FiniteSets

CONSTANTS
    SessionIds,   \* rows (and refresh tokens) that may come to exist
    Families,     \* family ids
    Clients,      \* concurrent callers of the store
    Ttl,          \* refresh_ttl, in ticks
    None

ASSUME SessionsAssumption ==
    /\ Ttl \in Nat
    /\ None \notin SessionIds \cup Families \cup Clients

VARIABLES
    row,      \* absent, active (revoked_at IS NULL) or revoked, as committed
    family,   \* family_id
    left,     \* expires_at - now
    parent,   \* history: the session it was rotated from
    locks,    \* the transaction that has locked the row
    call,     \* what each client's current operation is doing
    burned,   \* history: families some caller was told are revoked
    raced     \* history: families with a rotation committed in the middle of a revocation

vars == <<row, family, left, parent, locks, call, burned, raced>>
table == <<row, family, left, parent>>

Idle == [op |-> "idle", on |-> None, targets |-> {}]

Init ==
    /\ row = [s \in SessionIds |-> "absent"]
    /\ family = [s \in SessionIds |-> None]
    /\ left = [s \in SessionIds |-> 0]
    /\ parent = [s \in SessionIds |-> None]
    /\ locks = [s \in SessionIds |-> None]
    /\ call = [c \in Clients |-> Idle]
    /\ burned = {}
    /\ raced = {}

Active(f) == {s \in SessionIds : row[s] = "active" /\ family[s] = f}

\* Uuid::new_v4: an id nobody has.  Ids are interchangeable, so one choice stands for all.
Fresh(s) == row[s] = "absent" /\ s = CHOOSE t \in SessionIds : row[t] = "absent"
Unused(f) == \A s \in SessionIds : family[s] # f

\* Variant: the old session's id is bound where its family_id belongs.
IssueUnderOldId(s, f, from) ==
    /\ family' = [family EXCEPT ![s] = from]
    /\ left' = [left EXCEPT ![s] = Ttl]
    /\ parent' = [parent EXCEPT ![s] = from]

\* INSERT of a session that lives for Ttl from now.
Issue(s, f, from) ==
    /\ family' = [family EXCEPT ![s] = f]
    /\ left' = [left EXCEPT ![s] = Ttl]
    /\ parent' = [parent EXCEPT ![s] = from]

-----------------------------------------------------------------------------
\* Login: a new family, in one statement.
Create(s, f) ==
    /\ Fresh(s)
    /\ Unused(f) /\ f = CHOOSE g \in Families : Unused(g)
    /\ row' = [row EXCEPT ![s] = "active"]
    /\ Issue(s, f, None)
    /\ UNCHANGED <<locks, call, burned, raced>>

\* rotate is called with the token of s; an unknown token is NotFound and changes nothing.
RotateCalled(c, s) ==
    /\ call[c] = Idle
    /\ row[s] # "absent"
    /\ call' = [call EXCEPT ![c] = [op |-> "waiting", on |-> s, targets |-> {}]]
    /\ UNCHANGED <<table, locks, burned, raced>>

\* Variant: the SELECT without FOR UPDATE.
SelectNoLock(c) ==
    /\ call[c].op = "waiting"
    /\ row[call[c].on] = "active"
    /\ call' = [call EXCEPT ![c].op = "rotating"]
    /\ UNCHANGED <<table, locks, burned, raced>>

\* SELECT ... FOR UPDATE returns an active row: it waited for the lock and read the
\* version it locked.
SelectForUpdate(c) ==
    /\ call[c].op = "waiting"
    /\ locks[call[c].on] = None
    /\ row[call[c].on] = "active"
    /\ locks' = [locks EXCEPT ![call[c].on] = c]
    /\ call' = [call EXCEPT ![c].op = "rotating"]
    /\ UNCHANGED <<table, burned, raced>>

\* The end of c's transaction: its locks are free.
Unlock(c) == locks' = [s \in SessionIds |-> IF locks[s] = c THEN None ELSE locks[s]]
Return(c) == call' = [call EXCEPT ![c] = Idle]

\* Variant: the transaction of an expired token is leaked, not rolled back.
RotateExpiredLeaks(c) ==
    /\ call[c].op = "rotating"
    /\ left[call[c].on] < 0
    /\ Return(c)
    /\ UNCHANGED <<table, locks, burned, raced>>

\* expires_at < now: Err(Expired), and the transaction is dropped.
RotateExpired(c) ==
    /\ call[c].op = "rotating"
    /\ left[call[c].on] < 0
    /\ Unlock(c) /\ Return(c)
    /\ UNCHANGED <<table, burned, raced>>

\* A revocation of family f is between its snapshot and its COMMIT.
RevocationInFlight(f) ==
    \E d \in Clients : call[d].op = "burning" /\ family[call[d].on] = f

\* The old session is revoked and its successor n inserted, both at COMMIT.  The expiry
\* check and the COMMIT are one step: no other session's state depends on the gap.
RotateCommits(c, n) ==
    LET s == call[c].on IN
    /\ call[c].op = "rotating"
    /\ left[s] >= 0
    /\ Fresh(n)
    /\ row' = [row EXCEPT ![s] = "revoked", ![n] = "active"]
    /\ Issue(n, family[s], s)
    /\ Unlock(c) /\ Return(c)
    /\ raced' = IF RevocationInFlight(family[s]) THEN raced \cup {family[s]} ELSE raced
    /\ UNCHANGED burned

\* Start of UPDATE sessions SET revoked_at = now() WHERE family_id = f AND revoked_at
\* IS NULL: the snapshot decides which rows it will try.
RevocationStarts(c, f, op, s) ==
    /\ call' = [call EXCEPT ![c] = [op |-> op, on |-> s, targets |-> Active(f)]]
    /\ UNCHANGED <<table, burned, raced>>

\* The locked row is revoked: this is a replay, burn the family in the same transaction.
ReuseDetected(c) ==
    LET s == call[c].on IN
    /\ call[c].op = "waiting"
    /\ locks[s] = None
    /\ row[s] = "revoked"
    /\ locks' = [locks EXCEPT ![s] = c]
    /\ RevocationStarts(c, family[s], "burning", s)

\* revoke_family: logout, through the family id of one of its sessions.
LogoutCalled(c, s) ==
    /\ call[c] = Idle
    /\ row[s] # "absent"
    /\ RevocationStarts(c, family[s], "burning", s)
    /\ UNCHANGED locks

\* Variant: ReuseDetected is returned before the COMMIT, which rolls the UPDATE back.
RevocationRolledBack(c) ==
    /\ call[c].op = "burning"
    /\ \A t \in call[c].targets : locks[t] \in {None, c}
    /\ burned' = burned \cup {family[call[c].on]}
    /\ Unlock(c) /\ Return(c)
    /\ UNCHANGED <<table, raced>>

\* The UPDATE has had the lock of every row of its snapshot, and COMMITs; a row that a
\* rotation revoked meanwhile no longer passes the WHERE clause.
RevocationCommits(c) ==
    /\ call[c].op = "burning"
    /\ \A t \in call[c].targets : locks[t] \in {None, c}
    /\ row' = [t \in SessionIds |-> IF t \in call[c].targets THEN "revoked" ELSE row[t]]
    /\ burned' = burned \cup {family[call[c].on]}
    /\ Unlock(c) /\ Return(c)
    /\ UNCHANGED <<family, left, parent, raced>>

\* A database error, or the caller goes away: the transaction is rolled back.
RolledBack(c) ==
    /\ call[c] # Idle
    /\ Unlock(c) /\ Return(c)
    /\ UNCHANGED <<table, burned, raced>>

\* Nobody looks at the expiry of a revoked session.
Tick ==
    /\ \E s \in SessionIds : row[s] = "active" /\ left[s] >= 0
    /\ left' = [s \in SessionIds |-> IF row[s] = "active" /\ left[s] >= 0
                                     THEN left[s] - 1 ELSE left[s]]
    /\ UNCHANGED <<row, family, parent, locks, call, burned, raced>>

-----------------------------------------------------------------------------
Proceed(c) ==
    \/ SelectForUpdate(c) \/ ReuseDetected(c)
    \/ RotateExpired(c) \/ \E n \in SessionIds : RotateCommits(c, n)
    \/ RevocationCommits(c)

Next ==
    \/ \E s \in SessionIds, f \in Families : Create(s, f)
    \/ \E c \in Clients, s \in SessionIds : RotateCalled(c, s) \/ LogoutCalled(c, s)
    \/ \E c \in Clients : Proceed(c) \/ RolledBack(c)
    \/ Tick

Spec == Init /\ [][Next]_vars

\* A transaction that can go on does, and Postgres hands a lock to its waiters in turn.
Fairness == \A c \in Clients : SF_vars(Proceed(c))
FairSpec == Spec /\ Fairness

-----------------------------------------------------------------------------
(* Properties                                                               *)

\* Rows, locks and calls have the types of the schema and of the code's local variables.
TypeOK ==
    /\ row \in [SessionIds -> {"absent", "active", "revoked"}]
    /\ family \in [SessionIds -> Families \cup {None}]
    /\ left \in [SessionIds -> -1..Ttl]
    /\ parent \in [SessionIds -> SessionIds \cup {None}]
    /\ locks \in [SessionIds -> Clients \cup {None}]
    /\ call \in [Clients -> [op : {"idle", "waiting", "rotating", "burning"},
                            on : SessionIds \cup {None}, targets : SUBSET SessionIds]]
    /\ burned \subseteq Families /\ raced \subseteq Families

\* However many callers present the same token at once, a token is exchanged for at most
\* one successor, in its own family, and never stays usable next to it: the rotations of a
\* login form a chain with at most one live end.
RotationsFormAChain ==
    /\ \A s, t \in SessionIds : parent[s] # None /\ parent[s] = parent[t] => s = t
    /\ \A s \in SessionIds : parent[s] # None =>
          family[s] = family[parent[s]] /\ row[parent[s]] = "revoked"
    /\ \A f \in Families : Cardinality(Active(f)) <= 1

\* Once a caller was told ReuseDetected or was logged out, no token of that family works
\* any more, unless a rotation of the family committed while the UPDATE was under way.
BurnedUnlessRaced == \A f \in burned \ raced : Active(f) = {}

\* No call waits for ever on the row locks of others, whether these commit, expire, burn
\* the family or are rolled back (SessionIds bounds the sessions of a behaviour).
CallsReturn ==
    \A c \in Clients : call[c].op = "waiting" ~>
        call[c] = Idle \/ \A s \in SessionIds : row[s] # "absent"

\* session.rs on a replayed token: "the whole family is revoked, forcing the attacker *and*
\* the legitimate user to re-authenticate"; on revoke_family: "Revoke every session in the
\* given family".
RevocationIsComplete == \A f \in burned : Active(f) = {}
=============================================================================
