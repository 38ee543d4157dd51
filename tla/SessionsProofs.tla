--------------------------- MODULE SessionsProofs ---------------------------
(***************************************************************************)
(* Proofs about Sessions, for any sets of sessions, families and callers   *)
(* and any lifetime: the rotations of a login form a chain, and a burned   *)
(* family has no usable token unless a rotation raced the revocation.      *)
(***************************************************************************)
EXTENDS Sessions, FiniteSetTheorems, TLAPS

-----------------------------------------------------------------------------
(* The inductive invariant                                                  *)

\* Session s's row: it is in a family exactly if it exists, and the session it was rotated
\* from is revoked and in its family.
RowOK(s) ==
    /\ row[s] = "absent" <=> family[s] = None
    /\ parent[s] # None =>
          row[s] # "absent" /\ row[parent[s]] = "revoked" /\ family[s] = family[parent[s]]

\* A session has one successor, and no two sessions of a family are active.
PairOK(s, t) ==
    /\ parent[s] # None /\ parent[s] = parent[t] => s = t
    /\ row[s] = "active" /\ row[t] = "active" /\ family[s] = family[t] => s = t

Rows == (\A s \in SessionIds : RowOK(s)) /\ \A s, t \in SessionIds : PairOK(s, t)

\* Client c's transaction: rotate has locked the active row it is about to exchange, and no
\* statement works on a row that was never committed.
TransactionOK(c) ==
    /\ call[c].op # "idle" => call[c].on \in SessionIds /\ row[call[c].on] # "absent"
    /\ call[c].op = "rotating" => row[call[c].on] = "active" /\ locks[call[c].on] = c
    /\ \A t \in call[c].targets : row[t] # "absent"

Transactions == \A c \in Clients : TransactionOK(c)

\* The revocation client c has under way: its snapshot has every active session of the
\* family, unless a rotation raced it.
SnapshotOK(c) ==
    call[c].op = "burning" /\ family[call[c].on] \notin raced =>
        \A t \in SessionIds :
            row[t] = "active" /\ family[t] = family[call[c].on] => t \in call[c].targets

\* A burned family exists, and has no active session unless it was raced.
BurnedOK(f) ==
    /\ \E t \in SessionIds : family[t] = f
    /\ f \notin raced => \A t \in SessionIds : family[t] = f => row[t] # "active"

Revocations == (\A c \in Clients : SnapshotOK(c)) /\ \A f \in burned : BurnedOK(f)

IInv == TypeOK /\ Rows /\ Transactions /\ Revocations

-----------------------------------------------------------------------------
(* What the parts say                                                       *)

\* A set whose elements are all equal has at most one.
LEMMA AtMostOne ==
    ASSUME NEW S, \A x, y \in S : x = y
    PROVE  Cardinality(S) <= 1
<1>1. CASE S = {}
  BY <1>1, FS_EmptySet
<1>2. CASE S # {}
  <2>1. PICK x : x \in S  BY <1>2
  <2>2. S = {x}  BY <2>1
  <2> QED  BY <2>2, FS_Singleton
<1> QED  BY <1>1, <1>2

\* The invariant has the properties the runs check.
LEMMA InvariantImplies == IInv => TypeOK /\ RotationsFormAChain /\ BurnedUnlessRaced
<1> SUFFICES ASSUME IInv PROVE RotationsFormAChain /\ BurnedUnlessRaced
  BY DEF IInv
<1>1. ASSUME NEW f \in Families PROVE Cardinality(Active(f)) <= 1
  <2>1. \A x, y \in Active(f) : x = y  BY DEF IInv, Rows, PairOK, Active
  <2> QED  BY <2>1, AtMostOne
<1>2. RotationsFormAChain
  BY <1>1 DEF IInv, Rows, RowOK, PairOK, RotationsFormAChain
<1>3. BurnedUnlessRaced
  BY DEF IInv, Revocations, BurnedOK, BurnedUnlessRaced, Active
<1> QED  BY <1>2, <1>3

LEMMA InitIInv == Init => IInv
<1> SUFFICES ASSUME Init PROVE IInv  OBVIOUS
<1> USE SessionsAssumption
<1>1. TypeOK  BY DEF Init, TypeOK, Idle
<1>2. Rows  BY DEF Init, Rows, RowOK, PairOK
<1>3. Transactions  BY DEF Init, Transactions, TransactionOK, Idle
<1>4. Revocations  BY DEF Init, Revocations, SnapshotOK, Idle
<1> QED  BY <1>1, <1>2, <1>3, <1>4 DEF IInv

-----------------------------------------------------------------------------
(* One lemma per action                                                     *)

\* What a client's revocation and what a burned family need of a step that adds no active
\* session and changes no family.
LEMMA RevocationsKept ==
    ASSUME TypeOK, Transactions, Revocations,
           raced \subseteq raced', burned' = burned,
           \A t \in SessionIds : family[t] # None => family'[t] = family[t],
           \A t \in SessionIds : row'[t] = "active" =>
               \/ row[t] = "active" /\ family'[t] = family[t]
               \/ family'[t] \notin burned \ raced'
    PROVE  \A f \in burned' : BurnedOK(f)'
<1> TAKE f \in burned'
<1> USE SessionsAssumption
<1>1. f \in burned /\ f # None  BY DEF TypeOK
<1>2. BurnedOK(f)  BY <1>1 DEF Revocations
<1>3. \E t \in SessionIds : family'[t] = f  BY <1>1, <1>2 DEF BurnedOK
<1>4. ASSUME f \notin raced', NEW t \in SessionIds, family'[t] = f PROVE row'[t] # "active"
  BY <1>1, <1>2, <1>4 DEF BurnedOK
<1> QED  BY <1>3, <1>4 DEF BurnedOK

\* Login inserts into a family that nobody has, so no revocation is about it.
LEMMA CreatePreserves ==
    ASSUME IInv, NEW s \in SessionIds, NEW f \in Families, Create(s, f)
    PROVE  IInv'
<1> USE SessionsAssumption DEF IInv
<1>1. row[s] = "absent" /\ \A t \in SessionIds : family[t] # f
  BY DEF Create, Fresh, Unused
<1>2. /\ row'[s] = "active" /\ family'[s] = f /\ parent'[s] = None
      /\ \A t \in SessionIds : t # s =>
            row'[t] = row[t] /\ family'[t] = family[t] /\ parent'[t] = parent[t]
  BY DEF Create, Issue, TypeOK
<1>3. UNCHANGED <<locks, call, burned, raced>>  BY DEF Create
<1>4. f # None /\ family[s] = None  BY <1>1 DEF Rows, RowOK
<1>5. TypeOK'
  BY DEF Create, Issue, TypeOK
<1>6. ASSUME NEW t \in SessionIds PROVE RowOK(t)'
  <2>1. RowOK(t)  BY DEF Rows
  <2>2. CASE t = s  BY <1>2, <1>4, <2>2 DEF RowOK
  <2>3. CASE t # s
    <3>1. CASE parent[t] = None  BY <1>2, <2>1, <2>3, <3>1 DEF RowOK
    <3>2. CASE parent[t] # None
      <4>1. parent[t] \in SessionIds /\ parent[t] # s
        BY <1>1, <2>1, <3>2 DEF TypeOK, RowOK
      <4> QED  BY <1>2, <2>1, <2>3, <3>2, <4>1 DEF RowOK
    <3> QED  BY <3>1, <3>2
  <2> QED  BY <2>2, <2>3
<1>7. ASSUME NEW t \in SessionIds, NEW u \in SessionIds PROVE PairOK(t, u)'
  <2>1. PairOK(t, u)  BY DEF Rows
  <2> QED  BY <1>1, <1>2, <2>1 DEF PairOK
<1>8. ASSUME NEW c \in Clients PROVE TransactionOK(c)'
  <2>1. TransactionOK(c) /\ call[c].targets \subseteq SessionIds
    BY DEF Transactions, TypeOK
  <2> QED  BY <1>1, <1>2, <1>3, <2>1 DEF TransactionOK
<1>9. ASSUME NEW c \in Clients PROVE SnapshotOK(c)'
  <2>1. SnapshotOK(c) /\ TransactionOK(c)  BY DEF Revocations, Transactions
  <2>2. call[c].op = "burning" => call[c].on \in SessionIds /\ call[c].on # s
    BY <1>1, <2>1 DEF TransactionOK
  <2> QED  BY <1>1, <1>2, <1>3, <2>1, <2>2 DEF SnapshotOK
<1>10. f \notin burned  BY <1>1 DEF Revocations, BurnedOK
<1>11. \A g \in burned' : BurnedOK(g)'
  BY <1>2, <1>3, <1>4, <1>10, RevocationsKept
<1> QED  BY <1>5, <1>6, <1>7, <1>8, <1>9, <1>11 DEF Rows, Transactions, Revocations

\* A step that changes no row keeps what the rows say.
LEMMA RowsKept ==
    ASSUME Rows, UNCHANGED <<row, family, parent>>
    PROVE  Rows'
BY DEF Rows, RowOK, PairOK

\* A call begins: nothing but call changes.
LEMMA RotateCalledPreserves ==
    ASSUME IInv, NEW c \in Clients, NEW s \in SessionIds, RotateCalled(c, s)
    PROVE  IInv'
<1> USE SessionsAssumption DEF IInv
<1>1. UNCHANGED <<row, family, left, parent, locks, burned, raced>>
  BY DEF RotateCalled, table
<1>2. TypeOK'  BY DEF RotateCalled, table, TypeOK
<1>3. Rows'  BY <1>1, RowsKept
<1>4. ASSUME NEW d \in Clients PROVE TransactionOK(d)' /\ SnapshotOK(d)'
  <2>1. TransactionOK(d) /\ SnapshotOK(d)  BY DEF Transactions, Revocations
  <2>2. CASE d = c
    <3>1. call'[d] = [op |-> "waiting", on |-> s, targets |-> {}] /\ row[s] # "absent"
      BY <2>2 DEF RotateCalled, TypeOK
    <3> QED  BY <1>1, <3>1 DEF TransactionOK, SnapshotOK
  <2>3. CASE d # c
    <3>1. call'[d] = call[d]  BY <2>3 DEF RotateCalled, TypeOK
    <3> QED  BY <1>1, <2>1, <3>1 DEF TransactionOK, SnapshotOK
  <2> QED  BY <2>2, <2>3
<1>5. \A f \in burned' : BurnedOK(f)'  BY <1>1, RevocationsKept
<1> QED  BY <1>2, <1>3, <1>4, <1>5 DEF Transactions, Revocations

\* The row was free, so no other rotation had locked it.
LEMMA SelectForUpdatePreserves ==
    ASSUME IInv, NEW c \in Clients, SelectForUpdate(c)
    PROVE  IInv'
<1> USE SessionsAssumption DEF IInv
<1>1. UNCHANGED <<row, family, left, parent, burned, raced>>
  BY DEF SelectForUpdate, table
<1>2. /\ call[c].on \in SessionIds
      /\ locks[call[c].on] = None /\ row[call[c].on] = "active"
      /\ locks' = [locks EXCEPT ![call[c].on] = c]
  BY DEF SelectForUpdate, Transactions, TransactionOK
<1>3. TypeOK'  BY <1>2 DEF SelectForUpdate, table, TypeOK
<1>4. Rows'  BY <1>1, RowsKept
<1>5. ASSUME NEW d \in Clients PROVE TransactionOK(d)' /\ SnapshotOK(d)'
  <2>1. TransactionOK(d) /\ SnapshotOK(d)  BY DEF Transactions, Revocations
  <2>2. CASE d = c
    <3>1. /\ call'[d].op = "rotating" /\ call'[d].on = call[c].on
          /\ call'[d].targets = call[d].targets
      BY <2>2 DEF SelectForUpdate, TypeOK
    <3>2. locks'[call[c].on] = c  BY <1>2 DEF TypeOK
    <3> QED  BY <1>1, <1>2, <2>1, <2>2, <3>1, <3>2 DEF TransactionOK, SnapshotOK
  <2>3. CASE d # c
    <3>1. call'[d] = call[d]  BY <2>3 DEF SelectForUpdate, TypeOK
    <3>2. call[d].op = "rotating" => locks'[call[d].on] = d
      BY <1>2, <2>1 DEF TransactionOK, TypeOK
    <3> QED  BY <1>1, <2>1, <3>1, <3>2 DEF TransactionOK, SnapshotOK
  <2> QED  BY <2>2, <2>3
<1>6. \A f \in burned' : BurnedOK(f)'  BY <1>1, RevocationsKept
<1> QED  BY <1>3, <1>4, <1>5, <1>6 DEF Transactions, Revocations

\* The end of a call that changes no row: an expired token, a rollback.
LEMMA ReturnPreserves ==
    ASSUME IInv, NEW c \in Clients, Unlock(c), Return(c), UNCHANGED <<table, burned, raced>>
    PROVE  IInv'
<1> USE SessionsAssumption DEF IInv
<1>1. UNCHANGED <<row, family, left, parent, burned, raced>>  BY DEF table
<1>2. TypeOK'  BY <1>1 DEF Unlock, Return, TypeOK, Idle
<1>3. Rows'  BY <1>1, RowsKept
<1>4. ASSUME NEW d \in Clients PROVE TransactionOK(d)' /\ SnapshotOK(d)'
  <2>1. TransactionOK(d) /\ SnapshotOK(d)  BY DEF Transactions, Revocations
  <2>2. CASE d = c
    <3>1. call'[d] = Idle  BY <2>2 DEF Return, TypeOK
    <3> QED  BY <3>1 DEF TransactionOK, SnapshotOK, Idle
  <2>3. CASE d # c
    <3>1. call'[d] = call[d]  BY <2>3 DEF Return, TypeOK
    <3>2. call[d].op = "rotating" => locks'[call[d].on] = d
      BY <2>1, <2>3 DEF TransactionOK, TypeOK, Unlock
    <3> QED  BY <1>1, <2>1, <3>1, <3>2 DEF TransactionOK, SnapshotOK
  <2> QED  BY <2>2, <2>3
<1>5. \A f \in burned' : BurnedOK(f)'  BY <1>1, RevocationsKept
<1> QED  BY <1>2, <1>3, <1>4, <1>5 DEF Transactions, Revocations

\* The successor is the family's only active session, as the session it replaces was; a
\* revocation of the family that is under way is raced from here on.
LEMMA RotateCommitsPreserves ==
    ASSUME IInv, NEW c \in Clients, NEW n \in SessionIds, RotateCommits(c, n)
    PROVE  IInv'
<1> USE SessionsAssumption DEF IInv
<1> DEFINE s == call[c].on
           f == family[s]
<1>1. /\ s \in SessionIds /\ row[s] = "active" /\ locks[s] = c
      /\ row[n] = "absent" /\ s # n
  BY DEF RotateCommits, Fresh, Transactions, TransactionOK
<1>2. f \in Families /\ f # None /\ family[n] = None
  BY <1>1 DEF Rows, RowOK, TypeOK
<1>3. /\ row'[s] = "revoked" /\ family'[s] = f /\ parent'[s] = parent[s]
      /\ row'[n] = "active" /\ family'[n] = f /\ parent'[n] = s
      /\ \A t \in SessionIds : t # s /\ t # n =>
            row'[t] = row[t] /\ family'[t] = family[t] /\ parent'[t] = parent[t]
  BY <1>1 DEF RotateCommits, Issue, TypeOK
<1>4. /\ burned' = burned /\ raced \subseteq raced' /\ raced' \subseteq raced \cup {f}
      /\ RevocationInFlight(f) => f \in raced'
  BY DEF RotateCommits
<1>5. TypeOK'
  <2>1. row' \in [SessionIds -> {"absent", "active", "revoked"}]
    BY <1>1 DEF RotateCommits, TypeOK
  <2>2. /\ family' \in [SessionIds -> Families \cup {None}]
        /\ left' \in [SessionIds -> -1..Ttl]
        /\ parent' \in [SessionIds -> SessionIds \cup {None}]
    BY <1>1, <1>2 DEF RotateCommits, Issue, TypeOK
  <2>3. /\ locks' \in [SessionIds -> Clients \cup {None}]
        /\ call' \in [Clients -> [op : {"idle", "waiting", "rotating", "burning"},
                                 on : SessionIds \cup {None}, targets : SUBSET SessionIds]]
    BY DEF RotateCommits, Unlock, Return, Idle, TypeOK
  <2>4. burned' \subseteq Families /\ raced' \subseteq Families
    BY <1>2, <1>4 DEF TypeOK
  <2> QED  BY <2>1, <2>2, <2>3, <2>4 DEF TypeOK
<1>6. ASSUME NEW t \in SessionIds PROVE RowOK(t)'
  <2>1. RowOK(t)  BY DEF Rows
  <2>2. CASE t = n  BY <1>1, <1>2, <1>3, <2>2 DEF RowOK
  <2>3. CASE t # n
    <3>1. parent'[t] = parent[t] /\ family'[t] = family[t] /\ (row'[t] = "absent" <=> row[t] = "absent")
      BY <1>1, <1>3, <2>3
    <3>2. parent[t] # None => /\ parent[t] \in SessionIds
                              /\ parent[t] # s /\ parent[t] # n
      BY <1>1, <2>1 DEF RowOK, TypeOK
    <3> QED  BY <1>3, <2>1, <3>1, <3>2 DEF RowOK
  <2> QED  BY <2>2, <2>3
<1>7. \A t \in SessionIds : parent[t] # s
  BY <1>1 DEF Rows, RowOK
<1>8. ASSUME NEW t \in SessionIds, NEW u \in SessionIds PROVE PairOK(t, u)'
  <2>1. PairOK(t, u) /\ PairOK(s, t) /\ PairOK(s, u)  BY <1>1 DEF Rows
  <2>2. parent'[t] # None /\ parent'[t] = parent'[u] => t = u
    BY <1>1, <1>3, <1>7, <2>1 DEF PairOK
  <2>3. row'[t] = "active" /\ row'[u] = "active" /\ family'[t] = family'[u] => t = u
    BY <1>1, <1>3, <2>1 DEF PairOK
  <2> QED  BY <2>2, <2>3 DEF PairOK
<1>9. call'[c] = Idle /\ \A d \in Clients : d # c => call'[d] = call[d]
  BY DEF RotateCommits, Return, TypeOK
<1>10. ASSUME NEW d \in Clients PROVE TransactionOK(d)'
  <2>1. TransactionOK(d) /\ call[d].targets \subseteq SessionIds
    BY DEF Transactions, TypeOK
  <2>2. CASE d = c  BY <1>9, <2>2 DEF TransactionOK, Idle
  <2>3. CASE d # c
    <3>1. call[d].op = "rotating" =>
             /\ call[d].on \in SessionIds /\ call[d].on # s /\ call[d].on # n
             /\ locks'[call[d].on] = d
      BY <1>1, <2>1, <2>3 DEF TransactionOK, TypeOK, RotateCommits, Unlock
    <3>2. \A t \in SessionIds : row[t] # "absent" => row'[t] # "absent"
      BY <1>1, <1>3
    <3> QED  BY <1>3, <1>9, <2>1, <2>3, <3>1, <3>2 DEF TransactionOK
  <2> QED  BY <2>2, <2>3
<1>11. ASSUME NEW d \in Clients PROVE SnapshotOK(d)'
  <2>1. TransactionOK(d) /\ SnapshotOK(d)  BY DEF Transactions, Revocations
  <2>2. CASE d = c  BY <1>9, <2>2 DEF SnapshotOK, Idle
  <2>3. CASE d # c
    <3> SUFFICES ASSUME call[d].op = "burning", family'[call[d].on] \notin raced',
                        NEW t \in SessionIds, row'[t] = "active",
                        family'[t] = family'[call[d].on]
                 PROVE  t \in call[d].targets
      BY <1>9, <2>3 DEF SnapshotOK
    <3>1. call[d].on \in SessionIds /\ call[d].on # n /\ family'[call[d].on] = family[call[d].on]
      BY <1>1, <1>3, <2>1 DEF TransactionOK
    <3>2. family[call[d].on] # f
      BY <1>4, <3>1 DEF RevocationInFlight
    <3>3. row[t] = "active" /\ family[t] = family[call[d].on]
      BY <1>3, <3>1, <3>2
    <3> QED  BY <1>4, <2>1, <3>1, <3>3 DEF SnapshotOK
  <2> QED  BY <2>2, <2>3
<1>12. \A g \in burned' : BurnedOK(g)'
  <2>1. f \notin burned \ raced'
    BY <1>1, <1>4 DEF Revocations, BurnedOK
  <2>2. \A t \in SessionIds : family[t] # None => family'[t] = family[t]
    BY <1>2, <1>3
  <2>3. \A t \in SessionIds : row'[t] = "active" =>
           \/ row[t] = "active" /\ family'[t] = family[t]
           \/ family'[t] \notin burned \ raced'
    BY <1>1, <1>3, <2>1
  <2> QED  BY <1>4, <2>2, <2>3, RevocationsKept
<1> QED  BY <1>5, <1>6, <1>8, <1>10, <1>11, <1>12 DEF Rows, Transactions, Revocations

\* The snapshot is taken of the family as it is, on behalf of a session that exists; a lock
\* taken meanwhile is not one that a rotation holds.
LEMMA RevocationStartsPreserves ==
    ASSUME IInv, NEW c \in Clients, NEW s \in SessionIds, row[s] # "absent",
           RevocationStarts(c, family[s], "burning", s),
           locks' \in [SessionIds -> Clients \cup {None}],
           \A t \in SessionIds : row[t] = "active" => locks'[t] = locks[t]
    PROVE  IInv'
<1> USE SessionsAssumption DEF IInv
<1>1. UNCHANGED <<row, family, left, parent, burned, raced>>
  BY DEF RevocationStarts, table
<1>2. TypeOK'  BY <1>1 DEF RevocationStarts, TypeOK, Active
<1>3. Rows'  BY <1>1, RowsKept
<1>4. ASSUME NEW d \in Clients PROVE TransactionOK(d)' /\ SnapshotOK(d)'
  <2>1. TransactionOK(d) /\ SnapshotOK(d)  BY DEF Transactions, Revocations
  <2>2. CASE d = c
    <3>1. call'[d] = [op |-> "burning", on |-> s, targets |-> Active(family[s])]
      BY <2>2 DEF RevocationStarts, TypeOK
    <3> QED  BY <1>1, <3>1 DEF TransactionOK, SnapshotOK, Active
  <2>3. CASE d # c
    <3>1. call'[d] = call[d]  BY <2>3 DEF RevocationStarts, TypeOK
    <3> QED  BY <1>1, <2>1, <3>1 DEF TransactionOK, SnapshotOK
  <2> QED  BY <2>2, <2>3
<1>5. \A f \in burned' : BurnedOK(f)'  BY <1>1, RevocationsKept
<1> QED  BY <1>2, <1>3, <1>4, <1>5 DEF Transactions, Revocations

\* The COMMIT of a revocation waited for every rotation of its snapshot, so it revokes no
\* row that one has locked, and leaves the family without an active session.
LEMMA RevocationCommitsPreserves ==
    ASSUME IInv, NEW c \in Clients, RevocationCommits(c)
    PROVE  IInv'
<1> USE SessionsAssumption DEF IInv
<1> DEFINE T == call[c].targets
           f == family[call[c].on]
<1>1. /\ call[c].on \in SessionIds /\ row[call[c].on] # "absent"
      /\ T \subseteq SessionIds /\ \A t \in T : row[t] # "absent" /\ locks[t] \in {None, c}
  BY DEF RevocationCommits, Transactions, TransactionOK, TypeOK
<1>2. f \in Families /\ f # None  BY <1>1 DEF Rows, RowOK, TypeOK
<1>3. /\ \A t \in SessionIds : row'[t] = IF t \in T THEN "revoked" ELSE row[t]
      /\ UNCHANGED <<family, left, parent, raced>>
      /\ burned' = burned \cup {f}
  BY DEF RevocationCommits
<1>4. TypeOK'
  BY <1>2, <1>3 DEF RevocationCommits, Unlock, Return, Idle, TypeOK
<1>5. ASSUME NEW t \in SessionIds PROVE RowOK(t)'
  <2>1. RowOK(t) /\ (parent[t] # None => parent[t] \in SessionIds)  BY DEF Rows, TypeOK
  <2> QED  BY <1>1, <1>3, <2>1 DEF RowOK
<1>6. ASSUME NEW t \in SessionIds, NEW u \in SessionIds PROVE PairOK(t, u)'
  <2>1. PairOK(t, u)  BY DEF Rows
  <2> QED  BY <1>3, <2>1 DEF PairOK
<1>7. call'[c] = Idle /\ \A d \in Clients : d # c => call'[d] = call[d]
  BY DEF RevocationCommits, Return, TypeOK
<1>8. ASSUME NEW d \in Clients PROVE TransactionOK(d)' /\ SnapshotOK(d)'
  <2>1. TransactionOK(d) /\ SnapshotOK(d) /\ call[d].targets \subseteq SessionIds
    BY DEF Transactions, Revocations, TypeOK
  <2>2. CASE d = c  BY <1>7, <2>2 DEF TransactionOK, SnapshotOK, Idle
  <2>3. CASE d # c
    <3>1. call[d].op = "rotating" =>
             call[d].on \in SessionIds /\ call[d].on \notin T /\ locks'[call[d].on] = d
      BY <1>1, <2>1, <2>3 DEF TransactionOK, RevocationCommits, Unlock
    <3>2. TransactionOK(d)'
      BY <1>3, <1>7, <2>1, <2>3, <3>1 DEF TransactionOK
    <3>3. SnapshotOK(d)'  BY <1>3, <1>7, <2>1, <2>3 DEF SnapshotOK
    <3> QED  BY <3>2, <3>3
  <2> QED  BY <2>2, <2>3
<1>9. ASSUME NEW g \in burned' PROVE BurnedOK(g)'
  <2>1. CASE g = f
    <3>1. f \notin raced => \A t \in SessionIds : row[t] = "active" /\ family[t] = f => t \in T
      BY DEF RevocationCommits, Revocations, SnapshotOK
    <3> QED  BY <1>1, <1>3, <2>1, <3>1 DEF BurnedOK
  <2>2. CASE g # f
    <3>1. BurnedOK(g)  BY <1>3, <2>2 DEF Revocations
    <3> QED  BY <1>3, <3>1 DEF BurnedOK
  <2> QED  BY <2>1, <2>2
<1> QED  BY <1>4, <1>5, <1>6, <1>8, <1>9 DEF Rows, Transactions, Revocations

\* Time only changes left.
LEMMA TickPreserves ==
    ASSUME IInv, Tick
    PROVE  IInv'
<1> USE SessionsAssumption DEF IInv
<1>1. TypeOK'  BY DEF Tick, TypeOK
<1>2. UNCHANGED <<row, family, parent, locks, call, burned, raced>>  BY DEF Tick
<1> QED
  BY <1>1, <1>2 DEF Rows, RowOK, PairOK, Transactions, TransactionOK, Revocations,
                    SnapshotOK, BurnedOK

\* Every step keeps the invariant.
LEMMA StepPreserves == IInv /\ [Next]_vars => IInv'
<1> SUFFICES ASSUME IInv, [Next]_vars PROVE IInv'  OBVIOUS
<1>1. ASSUME NEW c \in Clients, NEW s \in SessionIds, LogoutCalled(c, s) PROVE IInv'
  <2>1. locks' \in [SessionIds -> Clients \cup {None}]
    BY <1>1 DEF LogoutCalled, IInv, TypeOK
  <2> QED  BY <1>1, <2>1, RevocationStartsPreserves DEF LogoutCalled
<1>2. ASSUME NEW c \in Clients, ReuseDetected(c) PROVE IInv'
  <2>1. call[c].on \in SessionIds  BY <1>2 DEF ReuseDetected, IInv, Transactions, TransactionOK
  <2>2. locks' \in [SessionIds -> Clients \cup {None}]
    BY <1>2, <2>1 DEF ReuseDetected, IInv, TypeOK
  <2>3. \A t \in SessionIds : row[t] = "active" => locks'[t] = locks[t]
    BY <1>2, <2>1 DEF ReuseDetected, IInv, TypeOK
  <2>4. row[call[c].on] # "absent" /\ RevocationStarts(c, family[call[c].on], "burning", call[c].on)
    BY <1>2 DEF ReuseDetected
  <2> QED  BY <2>1, <2>2, <2>3, <2>4, RevocationStartsPreserves
<1>3. ASSUME NEW c \in Clients, RotateExpired(c) \/ RolledBack(c) PROVE IInv'
  BY <1>3, ReturnPreserves DEF RotateExpired, RolledBack
<1>4. CASE UNCHANGED vars
  BY <1>4 DEF vars, IInv, TypeOK, Rows, RowOK, PairOK, Transactions, TransactionOK,
              Revocations, SnapshotOK, BurnedOK
<1> QED
  BY <1>1, <1>2, <1>3, <1>4, CreatePreserves, RotateCalledPreserves, SelectForUpdatePreserves,
     RotateCommitsPreserves, RevocationCommitsPreserves, TickPreserves DEF Next, Proceed

-----------------------------------------------------------------------------
(* The theorems                                                             *)

\* The invariant holds in every reachable state of the store.
THEOREM Invariance == Spec => []IInv
BY InitIInv, StepPreserves, PTL DEF Spec

\* Rows, locks and calls always have the types of session.rs's schema and local variables.
THEOREM TypeCorrect == Spec => []TypeOK
BY Invariance, InvariantImplies, PTL

\* PgSessionStore::rotate exchanges a token for at most one successor, in its own family,
\* whatever the number of callers that present it at once, and a family never has two
\* sessions that are not revoked.
THEOREM ChainCorrect == Spec => []RotationsFormAChain
BY Invariance, InvariantImplies, PTL

\* After ReuseDetected or revoke_family no token of the family is usable, unless a rotation
\* of the family committed between the snapshot of the UPDATE and its COMMIT.
THEOREM BurnCorrect == Spec => []BurnedUnlessRaced
BY Invariance, InvariantImplies, PTL
=============================================================================
