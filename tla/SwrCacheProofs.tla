--------------------------- MODULE SwrCacheProofs ---------------------------
(***************************************************************************)
(* Proofs about SwrCache, for any number of callers and refresh tasks and  *)
(* any TTLs: single flight under the lock unless a winner outlived it, how *)
(* late a loser's last resort comes, and how old the served data can get.  *)
(***************************************************************************)
EXTENDS SwrCache, TLAPS

-----------------------------------------------------------------------------
(* The inductive invariant                                                  *)

\* Only a winner goes on to DEL the lock, and a loser that polls has a poll left.
Roles ==
    /\ \A p \in Procs : pc[p] = "releasing" => mode[p] = "winner"
    /\ \A c \in Callers : pc[c] = "polling" => polls[c] >= 1

\* A winner's lock stands, unless one has been outlived.
LockHeld == \A p \in Procs : Holding(p) => lock > 0 \/ overrun

\* How much of the life of the lock it lost to a polling loser has slept through.
Slept(c) == (MaxPolls - polls[c]) * PollInterval + (PollInterval - sleep[c])

\* A loser whose lock still stands has slept through what is gone of it, and loads only when
\* less than a poll interval is left.
WaitOK(c) ==
    awaited[c] =>
        /\ lock > 0
        /\ pc[c] = "polling" => lock + Slept(c) <= LockTtl
        /\ pc[c] # "polling" => mode[c] = "last" /\ lock < PollInterval

\* The envelope's age and remaining TTL add up, and so does the age of the data in it.
EnvelopeOK ==
    cached # None => /\ cached.age + cached.left <= HardTtl
                     /\ cached.data + cached.left <= OldestData

IInv ==
    /\ TypeOK
    /\ Roles
    /\ LockHeld
    /\ SingleFlightUnlessOverrun
    /\ \A c \in Callers : WaitOK(c)
    /\ EnvelopeOK

-----------------------------------------------------------------------------
(* The polls                                                                *)

LEMMA MaxPollsType == MaxPolls \in Nat \ {0}
BY TtlAssumption DEF MaxPolls

\* max_polls polls sleep through all of lock_ttl but a fraction of a poll interval.
LEMMA PollsCoverLock == LockTtl - MaxPolls * PollInterval < PollInterval
BY TtlAssumption DEF MaxPolls

LEMMA SleptStep ==
    ASSUME NEW m \in Nat, NEW k \in Nat
    PROVE  (m - (k - 1)) * PollInterval = (m - k) * PollInterval + PollInterval
BY TtlAssumption

-----------------------------------------------------------------------------
(* The invariant at the start, and what it says                             *)

LEMMA InvariantImplies ==
    IInv => TypeOK /\ SingleFlightUnlessOverrun /\ LastResortIsLate /\ ServedDataIsRecent
<1> SUFFICES ASSUME IInv PROVE LastResortIsLate /\ ServedDataIsRecent
  BY DEF IInv
<1>1. LastResortIsLate
  BY DEF IInv, WaitOK, LastResortIsLate, TypeOK, Procs
<1>2. ServedDataIsRecent  BY DEF IInv, EnvelopeOK, ServedDataIsRecent
<1> QED  BY <1>1, <1>2

LEMMA InitIInv == Init => IInv
<1> SUFFICES ASSUME Init PROVE IInv  OBVIOUS
<1> USE TtlAssumption, MaxPollsType DEF Init
<1>1. TypeOK
  <2>1. /\ pc \in [Procs -> Places] /\ mode \in [Procs -> Modes]
        /\ run \in [Procs -> 0..MaxRun]
    BY DEF TypeOK, Procs, Places, Modes
  <2>2. polls \in [Callers -> 0..MaxPolls] /\ sleep \in [Callers -> 0..PollInterval]
    BY DEF TypeOK, Procs
  <2>3. awaited \in [Callers -> BOOLEAN] /\ overrun \in BOOLEAN
    BY DEF TypeOK
  <2>4. /\ cached = None \/ cached \in [age : 0..HardTtl, data : Nat, left : 1..HardTtl]
        /\ lock \in 0..LockTtl
    BY DEF TypeOK
  <2>5. /\ \A t \in Tasks : pc[t] \notin {"reading", "polling"}
        /\ \A q \in Procs : (mode[q] # "none") <=> (pc[q] \in {"loading", "storing", "releasing"})
    BY DEF TypeOK, Procs
  <2> QED  BY <2>1, <2>2, <2>3, <2>4, <2>5 DEF TypeOK
<1>2. Roles  BY DEF Roles, Procs
<1>3. LockHeld /\ SingleFlightUnlessOverrun
  BY DEF LockHeld, SingleFlightUnlessOverrun, Holding
<1>4. \A c \in Callers : WaitOK(c)  BY DEF WaitOK
<1>5. EnvelopeOK  BY DEF EnvelopeOK
<1> QED  BY <1>1, <1>2, <1>3, <1>4, <1>5 DEF IInv

-----------------------------------------------------------------------------
(* Lemmas for the actions that leave the server alone                       *)

\* A step that makes no new winner and leaves the lock and overrun alone.
LEMMA FlightKept ==
    ASSUME LockHeld, SingleFlightUnlessOverrun, lock' = lock, overrun' = overrun,
           \A p \in Procs : mode'[p] = "winner" => mode[p] = "winner"
    PROVE  LockHeld' /\ SingleFlightUnlessOverrun'
BY DEF LockHeld, SingleFlightUnlessOverrun, Holding

-----------------------------------------------------------------------------
(* One lemma per action                                                     *)

\* Time: the lock of a winner at work expires only into an overrun, a loser sleeps through
\* what goes by of its lock, and the envelope ages as its TTL runs down.
LEMMA TickPreserves ==
    ASSUME IInv, Tick PROVE IInv'
<1> USE TtlAssumption, MaxPollsType DEF IInv
<1>1. TypeOK'  BY DEF Tick, TypeOK, EnvelopeOK, LockExpires
<1>2. Roles'  BY DEF Tick, Roles
<1>3. ASSUME NEW p \in Procs, Holding(p)' PROVE (lock > 0 \/ overrun)'
  <2>1. Holding(p)  BY <1>3 DEF Tick, Holding
  <2>2. lock > 0 \/ overrun  BY <2>1 DEF LockHeld
  <2>3. CASE overrun  BY <2>3 DEF Tick
  <2>4. CASE lock = 1  BY <2>1, <2>4 DEF Tick, LockExpires
  <2>5. CASE lock > 1  BY <2>5 DEF Tick, TypeOK
  <2> QED  BY <2>2, <2>3, <2>4, <2>5 DEF TypeOK
<1>4. overrun => overrun'  BY DEF Tick
<1>5. SingleFlightUnlessOverrun'
  BY <1>4 DEF Tick, SingleFlightUnlessOverrun, Holding
<1>6. ASSUME NEW c \in Callers PROVE WaitOK(c)'
  <2> SUFFICES ASSUME awaited'[c] PROVE WaitOK(c)'  BY DEF WaitOK
  <2>1. awaited[c] /\ lock # 1  BY DEF Tick, LockExpires
  <2>2. WaitOK(c) /\ lock > 1 /\ lock' = lock - 1  BY <2>1 DEF Tick, WaitOK, TypeOK
  <2>3. pc'[c] = pc[c] /\ mode'[c] = mode[c] /\ polls'[c] = polls[c]  BY DEF Tick
  <2>4. sleep[c] \in Nat /\ sleep'[c] >= sleep[c] - 1 /\ sleep'[c] \in Nat
    BY DEF Tick, TypeOK
  <2>5. Slept(c)' <= Slept(c) + 1
    <3> DEFINE past == (MaxPolls - polls[c]) * PollInterval
    <3>1. past \in Int  BY DEF TypeOK
    <3>2. Slept(c) = past + (PollInterval - sleep[c])  BY DEF Slept
    <3>3. Slept(c)' = past + (PollInterval - sleep'[c])  BY <2>3 DEF Slept
    <3> HIDE DEF past
    <3> QED  BY <2>4, <3>1, <3>2, <3>3
  <2>6. Slept(c) \in Int /\ Slept(c)' \in Int  BY <2>3, <2>4 DEF Slept, TypeOK
  <2> QED  BY <2>1, <2>2, <2>3, <2>5, <2>6 DEF WaitOK, TypeOK
<1>7. EnvelopeOK'
  BY DEF Tick, TypeOK, EnvelopeOK, OldestData
<1> QED  BY <1>1, <1>2, <1>3, <1>5, <1>6, <1>7 DEF LockHeld

LEMMA CallPreserves ==
    ASSUME IInv, NEW c \in Callers, Call(c) PROVE IInv'
<1> USE TtlAssumption, MaxPollsType, ProcsAssumption DEF IInv
<1>1. TypeOK'
  <2>1. /\ pc' \in [Procs -> Places] /\ mode' \in [Procs -> Modes]
        /\ run' \in [Procs -> 0..MaxRun]
    BY DEF Call, Goto, StartLoad, TypeOK, Procs, Places, Modes
  <2>2. polls' \in [Callers -> 0..MaxPolls] /\ sleep' \in [Callers -> 0..PollInterval]
    BY DEF Call, Goto, StartLoad, TypeOK, Procs
  <2>3. awaited' \in [Callers -> BOOLEAN] /\ overrun' \in BOOLEAN
    BY DEF Call, Goto, StartLoad, TypeOK
  <2>4. /\ cached' = None \/ cached' \in [age : 0..HardTtl, data : Nat, left : 1..HardTtl]
        /\ lock' \in 0..LockTtl
    BY DEF Call, Goto, StartLoad, TypeOK
  <2>5. /\ \A t \in Tasks : pc'[t] \notin {"reading", "polling"}
        /\ \A q \in Procs : (mode'[q] # "none") <=> (pc'[q] \in {"loading", "storing", "releasing"})
    BY DEF Call, Goto, StartLoad, TypeOK, Procs
  <2> QED  BY <2>1, <2>2, <2>3, <2>4, <2>5 DEF TypeOK
<1>2. Roles'  BY DEF Call, Goto, StartLoad, Roles, TypeOK, Procs
<1>3. LockHeld' /\ SingleFlightUnlessOverrun'
  BY FlightKept DEF Call, Goto, StartLoad, TypeOK
<1>4. ASSUME NEW d \in Callers PROVE WaitOK(d)'
  BY DEF Call, Goto, StartLoad, WaitOK, Slept, TypeOK, Procs
<1>5. EnvelopeOK'  BY DEF Call, EnvelopeOK
<1> QED  BY <1>1, <1>2, <1>3, <1>4, <1>5

LEMMA ReadFailsPreserves ==
    ASSUME IInv, NEW c \in Callers, ReadFails(c) PROVE IInv'
<1> USE TtlAssumption, MaxPollsType, ProcsAssumption DEF IInv
<1>1. TypeOK'  BY DEF ReadFails, Goto, StartLoad, TypeOK, Procs, Places, Modes, Roles
<1>2. Roles'  BY DEF ReadFails, Goto, StartLoad, Roles, TypeOK, Procs
<1>3. LockHeld' /\ SingleFlightUnlessOverrun'
  BY FlightKept DEF ReadFails, Goto, StartLoad, TypeOK
<1>4. ASSUME NEW d \in Callers PROVE WaitOK(d)'
  BY DEF ReadFails, Goto, StartLoad, WaitOK, Slept, TypeOK, Procs, Roles
<1>5. EnvelopeOK'  BY DEF ReadFails, Goto, StartLoad, EnvelopeOK
<1> QED  BY <1>1, <1>2, <1>3, <1>4, <1>5

LEMMA ReadFreshPreserves ==
    ASSUME IInv, NEW c \in Callers, ReadFresh(c) PROVE IInv'
<1> USE TtlAssumption, MaxPollsType, ProcsAssumption DEF IInv
<1>1. TypeOK'  BY DEF ReadFresh, Goto, Return, TypeOK, Procs, Places, Modes, Roles
<1>2. Roles'  BY DEF ReadFresh, Goto, Return, Roles, TypeOK, Procs
<1>3. LockHeld' /\ SingleFlightUnlessOverrun'
  BY FlightKept DEF ReadFresh, Goto, Return, TypeOK
<1>4. ASSUME NEW d \in Callers PROVE WaitOK(d)'
  BY DEF ReadFresh, Goto, Return, WaitOK, Slept, TypeOK, Procs, Roles
<1>5. EnvelopeOK'  BY DEF ReadFresh, Goto, Return, EnvelopeOK
<1> QED  BY <1>1, <1>2, <1>3, <1>4, <1>5

LEMMA ReadStalePreserves ==
    ASSUME IInv, NEW c \in Callers, ReadStale(c) PROVE IInv'
<1> USE TtlAssumption, MaxPollsType, ProcsAssumption DEF IInv
<1>1. TypeOK'  BY DEF ReadStale, Goto, TypeOK, Procs, Places, Modes, Roles
<1>2. Roles'  BY DEF ReadStale, Goto, Roles, TypeOK, Procs
<1>3. LockHeld' /\ SingleFlightUnlessOverrun'
  BY FlightKept DEF ReadStale, Goto, TypeOK
<1>4. ASSUME NEW d \in Callers PROVE WaitOK(d)'
  BY DEF ReadStale, Goto, WaitOK, Slept, TypeOK, Procs, Roles
<1>5. EnvelopeOK'  BY DEF ReadStale, Goto, EnvelopeOK
<1> QED  BY <1>1, <1>2, <1>3, <1>4, <1>5

LEMMA ReadMissPreserves ==
    ASSUME IInv, NEW c \in Callers, ReadMiss(c) PROVE IInv'
<1> USE TtlAssumption, MaxPollsType, ProcsAssumption DEF IInv
<1>1. TypeOK'  BY DEF ReadMiss, Goto, TypeOK, Procs, Places, Modes, Roles
<1>2. Roles'  BY DEF ReadMiss, Goto, Roles, TypeOK, Procs
<1>3. LockHeld' /\ SingleFlightUnlessOverrun'
  BY FlightKept DEF ReadMiss, Goto, TypeOK
<1>4. ASSUME NEW d \in Callers PROVE WaitOK(d)'
  BY DEF ReadMiss, Goto, WaitOK, Slept, TypeOK, Procs, Roles
<1>5. EnvelopeOK'  BY DEF ReadMiss, Goto, EnvelopeOK
<1> QED  BY <1>1, <1>2, <1>3, <1>4, <1>5

\* The lock was free: a winner still at work has been overrun.
LEMMA TryLockWinsPreserves ==
    ASSUME IInv, NEW p \in Procs, TryLockWins(p) PROVE IInv'
<1> USE TtlAssumption, MaxPollsType, ProcsAssumption DEF IInv
<1>1. TypeOK'  BY DEF TryLockWins, Goto, StartLoad, TypeOK, Procs, Places, Modes, Roles
<1>2. Roles'  BY DEF TryLockWins, Goto, StartLoad, Roles, TypeOK, Procs
<1>3. LockHeld' /\ SingleFlightUnlessOverrun'
  <2>1. lock = 0 /\ lock' > 0 /\ overrun' = overrun  BY DEF TryLockWins, Lockable
  <2>2. \A q \in Procs : q # p => mode'[q] = mode[q]
    BY DEF TryLockWins, StartLoad, TypeOK
  <2> QED  BY <2>1, <2>2 DEF LockHeld, SingleFlightUnlessOverrun, Holding
<1>4. ASSUME NEW d \in Callers PROVE WaitOK(d)'
  BY DEF TryLockWins, Lockable, WaitOK
<1>5. EnvelopeOK'  BY DEF TryLockWins, Goto, StartLoad, EnvelopeOK
<1> QED  BY <1>1, <1>2, <1>3, <1>4, <1>5

LEMMA TryLockLosesPreserves ==
    ASSUME IInv, NEW p \in Procs, TryLockLoses(p) PROVE IInv'
<1> USE TtlAssumption, MaxPollsType, ProcsAssumption DEF IInv
<1>1. TypeOK'
  <2>1. /\ pc' \in [Procs -> Places] /\ mode' \in [Procs -> Modes]
        /\ run' \in [Procs -> 0..MaxRun]
    BY DEF TryLockLoses, Goto, Return, TypeOK, Procs, Places, Modes
  <2>2. polls' \in [Callers -> 0..MaxPolls] /\ sleep' \in [Callers -> 0..PollInterval]
    BY DEF TryLockLoses, Goto, Return, TypeOK, Procs
  <2>3. awaited' \in [Callers -> BOOLEAN] /\ overrun' \in BOOLEAN
    <3>1. CASE p \in Tasks  BY <3>1 DEF TryLockLoses, Return, TypeOK
    <3>2. CASE p \notin Tasks
      <4>1. (lock' > 0) \in BOOLEAN  OBVIOUS
      <4>2. awaited' = [awaited EXCEPT ![p] = lock' > 0] /\ overrun' = overrun
        BY <3>2 DEF TryLockLoses
      <4> QED  BY <4>1, <4>2 DEF TypeOK
    <3> QED  BY <3>1, <3>2
  <2>4. /\ cached' = None \/ cached' \in [age : 0..HardTtl, data : Nat, left : 1..HardTtl]
        /\ lock' \in 0..LockTtl
    BY DEF TryLockLoses, Goto, Return, TypeOK
  <2>5. /\ \A t \in Tasks : pc'[t] \notin {"reading", "polling"}
        /\ \A q \in Procs : (mode'[q] # "none") <=> (pc'[q] \in {"loading", "storing", "releasing"})
    BY DEF TryLockLoses, Goto, Return, TypeOK, Procs
  <2> QED  BY <2>1, <2>2, <2>3, <2>4, <2>5 DEF TypeOK
<1>2. Roles'  BY DEF TryLockLoses, Goto, Return, Roles, TypeOK, Procs
<1>3. LockHeld' /\ SingleFlightUnlessOverrun'
  <2>1. lock > 0 => lock' > 0  BY DEF TryLockLoses
  <2>2. \A q \in Procs : mode'[q] = "winner" => mode[q] = "winner"
    BY DEF TryLockLoses, Return, TypeOK
  <2>3. overrun' = overrun  BY DEF TryLockLoses
  <2> QED  BY <2>1, <2>2, <2>3 DEF LockHeld, SingleFlightUnlessOverrun, Holding
<1>4. ASSUME NEW d \in Callers PROVE WaitOK(d)'
  BY DEF TryLockLoses, Goto, Return, WaitOK, Slept, TypeOK, Procs, Roles
<1>5. EnvelopeOK'  BY DEF TryLockLoses, Goto, Return, EnvelopeOK
<1> QED  BY <1>1, <1>2, <1>3, <1>4, <1>5

LEMMA PollFindsPreserves ==
    ASSUME IInv, NEW c \in Callers, PollFinds(c) PROVE IInv'
<1> USE TtlAssumption, MaxPollsType, ProcsAssumption DEF IInv
<1>1. TypeOK'  BY DEF PollFinds, Goto, Return, TypeOK, Procs, Places, Modes, Roles
<1>2. Roles'  BY DEF PollFinds, Goto, Return, Roles, TypeOK, Procs
<1>3. LockHeld' /\ SingleFlightUnlessOverrun'
  BY FlightKept DEF PollFinds, Goto, Return, TypeOK
<1>4. ASSUME NEW d \in Callers PROVE WaitOK(d)'
  BY DEF PollFinds, Goto, Return, WaitOK, Slept, TypeOK, Procs, Roles
<1>5. EnvelopeOK'  BY DEF PollFinds, Goto, Return, EnvelopeOK
<1> QED  BY <1>1, <1>2, <1>3, <1>4, <1>5

\* A loser that sleeps again has slept one poll interval more; one that gives up has slept
\* through max_polls of them.
LEMMA PollMissesPreserves ==
    ASSUME IInv, NEW c \in Callers, PollMisses(c) PROVE IInv'
<1> USE TtlAssumption, MaxPollsType, ProcsAssumption DEF IInv
<1>1. TypeOK'  BY DEF PollMisses, Goto, StartLoad, TypeOK, Procs, Places, Modes, Roles
<1>2. Roles'  BY DEF PollMisses, Goto, StartLoad, Roles, TypeOK, Procs
<1>3. LockHeld' /\ SingleFlightUnlessOverrun'
  BY FlightKept DEF PollMisses, Goto, StartLoad, TypeOK
<1>4. ASSUME NEW d \in Callers PROVE WaitOK(d)'
  BY PollsCoverLock, SleptStep DEF PollMisses, Goto, StartLoad, WaitOK, Slept, TypeOK, Procs, Roles
<1>5. EnvelopeOK'  BY DEF PollMisses, Goto, StartLoad, EnvelopeOK
<1> QED  BY <1>1, <1>2, <1>3, <1>4, <1>5

LEMMA LoadOkPreserves ==
    ASSUME IInv, NEW p \in Procs, LoadOk(p) PROVE IInv'
<1> USE TtlAssumption, MaxPollsType, ProcsAssumption DEF IInv
<1>1. TypeOK'
  <2>1. /\ pc' \in [Procs -> Places] /\ mode' \in [Procs -> Modes]
        /\ run' \in [Procs -> 0..MaxRun]
    BY DEF LoadOk, Goto, Return, TypeOK, Procs, Places, Modes
  <2>2. polls' \in [Callers -> 0..MaxPolls] /\ sleep' \in [Callers -> 0..PollInterval]
    BY DEF LoadOk, Goto, Return, TypeOK, Procs
  <2>3. awaited' \in [Callers -> BOOLEAN] /\ overrun' \in BOOLEAN
    BY DEF LoadOk, Goto, Return, TypeOK
  <2>4. /\ cached' = None \/ cached' \in [age : 0..HardTtl, data : Nat, left : 1..HardTtl]
        /\ lock' \in 0..LockTtl
    BY DEF LoadOk, Goto, Return, TypeOK
  <2>5. /\ \A t \in Tasks : pc'[t] \notin {"reading", "polling"}
        /\ \A q \in Procs : (mode'[q] # "none") <=> (pc'[q] \in {"loading", "storing", "releasing"})
    BY DEF LoadOk, Goto, Return, TypeOK, Procs
  <2> QED  BY <2>1, <2>2, <2>3, <2>4, <2>5 DEF TypeOK
<1>2. Roles'  BY DEF LoadOk, Goto, Return, Roles, TypeOK, Procs
<1>3. LockHeld' /\ SingleFlightUnlessOverrun'
  BY FlightKept DEF LoadOk, Goto, Return, TypeOK
<1>4. ASSUME NEW d \in Callers PROVE WaitOK(d)'
  BY DEF LoadOk, Goto, Return, WaitOK, Slept, TypeOK, Procs, Roles
<1>5. EnvelopeOK'  BY DEF LoadOk, Goto, Return, EnvelopeOK
<1> QED  BY <1>1, <1>2, <1>3, <1>4, <1>5

LEMMA LoadErrPreserves ==
    ASSUME IInv, NEW p \in Procs, LoadErr(p) PROVE IInv'
<1> USE TtlAssumption, MaxPollsType, ProcsAssumption DEF IInv
<1>1. TypeOK'
  <2>1. /\ pc' \in [Procs -> Places] /\ mode' \in [Procs -> Modes]
        /\ run' \in [Procs -> 0..MaxRun]
    BY DEF LoadErr, Goto, Return, ToRelease, Holding, TypeOK, Procs, Places, Modes
  <2>2. polls' \in [Callers -> 0..MaxPolls] /\ sleep' \in [Callers -> 0..PollInterval]
    BY DEF LoadErr, Goto, Return, ToRelease, Holding, TypeOK, Procs
  <2>3. awaited' \in [Callers -> BOOLEAN] /\ overrun' \in BOOLEAN
    BY DEF LoadErr, Goto, Return, ToRelease, Holding, TypeOK
  <2>4. /\ cached' = None \/ cached' \in [age : 0..HardTtl, data : Nat, left : 1..HardTtl]
        /\ lock' \in 0..LockTtl
    BY DEF LoadErr, Goto, Return, ToRelease, Holding, TypeOK
  <2>5. /\ \A t \in Tasks : pc'[t] \notin {"reading", "polling"}
        /\ \A q \in Procs : (mode'[q] # "none") <=> (pc'[q] \in {"loading", "storing", "releasing"})
    BY DEF LoadErr, Goto, Return, ToRelease, Holding, TypeOK, Procs
  <2> QED  BY <2>1, <2>2, <2>3, <2>4, <2>5 DEF TypeOK
<1>2. Roles'  BY DEF LoadErr, Goto, Return, ToRelease, Holding, Roles, TypeOK, Procs
<1>3. LockHeld' /\ SingleFlightUnlessOverrun'
  BY FlightKept DEF LoadErr, Goto, Return, ToRelease, Holding, TypeOK
<1>4. ASSUME NEW d \in Callers PROVE WaitOK(d)'
  BY DEF LoadErr, Goto, Return, ToRelease, Holding, WaitOK, Slept, TypeOK, Procs, Roles
<1>5. EnvelopeOK'  BY DEF LoadErr, Goto, Return, ToRelease, Holding, EnvelopeOK
<1> QED  BY <1>1, <1>2, <1>3, <1>4, <1>5

LEMMA StorePreserves ==
    ASSUME IInv, NEW p \in Procs, Store(p) PROVE IInv'
<1> USE TtlAssumption, MaxPollsType, ProcsAssumption DEF IInv
<1>1. TypeOK'
  <2>1. /\ pc' \in [Procs -> Places] /\ mode' \in [Procs -> Modes]
        /\ run' \in [Procs -> 0..MaxRun]
    BY DEF Store, Goto, Return, ToRelease, Holding, Envelope, TypeOK, Procs, Places, Modes
  <2>2. polls' \in [Callers -> 0..MaxPolls] /\ sleep' \in [Callers -> 0..PollInterval]
    BY DEF Store, Goto, Return, ToRelease, Holding, Envelope, TypeOK, Procs
  <2>3. awaited' \in [Callers -> BOOLEAN] /\ overrun' \in BOOLEAN
    BY DEF Store, Goto, Return, ToRelease, Holding, Envelope, TypeOK
  <2>4. /\ cached' = None \/ cached' \in [age : 0..HardTtl, data : Nat, left : 1..HardTtl]
        /\ lock' \in 0..LockTtl
    BY DEF Store, Goto, Return, ToRelease, Holding, Envelope, TypeOK
  <2>5. /\ \A t \in Tasks : pc'[t] \notin {"reading", "polling"}
        /\ \A q \in Procs : (mode'[q] # "none") <=> (pc'[q] \in {"loading", "storing", "releasing"})
    BY DEF Store, Goto, Return, ToRelease, Holding, Envelope, TypeOK, Procs
  <2> QED  BY <2>1, <2>2, <2>3, <2>4, <2>5 DEF TypeOK
<1>2. Roles'  BY DEF Store, Goto, Return, ToRelease, Holding, Envelope, Roles, TypeOK, Procs
<1>3. LockHeld' /\ SingleFlightUnlessOverrun'
  BY FlightKept DEF Store, Goto, Return, ToRelease, Holding, Envelope, TypeOK
<1>4. ASSUME NEW d \in Callers PROVE WaitOK(d)'
  BY DEF Store, Goto, Return, ToRelease, Holding, Envelope, WaitOK, Slept, TypeOK, Procs, Roles
<1>5. EnvelopeOK'  BY DEF Store, Envelope, EnvelopeOK, OldestData, TypeOK
<1> QED  BY <1>1, <1>2, <1>3, <1>4, <1>5

\* Whoever deletes the lock, another winner still at work has been overrun before.
LEMMA ReleasePreserves ==
    ASSUME IInv, NEW p \in Procs, Release(p) PROVE IInv'
<1> USE TtlAssumption, MaxPollsType, ProcsAssumption DEF IInv
<1>1. TypeOK'
  <2>1. /\ pc' \in [Procs -> Places] /\ mode' \in [Procs -> Modes]
        /\ run' \in [Procs -> 0..MaxRun]
    BY DEF Release, Goto, Return, TypeOK, Procs, Places, Modes
  <2>2. polls' \in [Callers -> 0..MaxPolls] /\ sleep' \in [Callers -> 0..PollInterval]
    BY DEF Release, Goto, Return, TypeOK, Procs
  <2>3. awaited' \in [Callers -> BOOLEAN] /\ overrun' \in BOOLEAN
    BY DEF Release, Goto, Return, TypeOK
  <2>4. /\ cached' = None \/ cached' \in [age : 0..HardTtl, data : Nat, left : 1..HardTtl]
        /\ lock' \in 0..LockTtl
    BY DEF Release, Goto, Return, TypeOK
  <2>5. /\ \A t \in Tasks : pc'[t] \notin {"reading", "polling"}
        /\ \A q \in Procs : (mode'[q] # "none") <=> (pc'[q] \in {"loading", "storing", "releasing"})
    BY DEF Release, Goto, Return, TypeOK, Procs
  <2> QED  BY <2>1, <2>2, <2>3, <2>4, <2>5 DEF TypeOK
<1>2. Roles'  BY DEF Release, Goto, Return, Roles, TypeOK, Procs
<1>3. LockHeld' /\ SingleFlightUnlessOverrun'
  <2>1. Holding(p)  BY DEF Release, Roles, Holding
  <2>2. \A q \in Procs : mode'[q] = IF q = p THEN "none" ELSE mode[q]
    BY DEF Release, Return, TypeOK
  <2>3. ASSUME NEW q \in Procs, Holding(q)' PROVE overrun'
    <3>1. q # p /\ Holding(q)  BY <2>2, <2>3 DEF Holding
    <3>2. overrun  BY <2>1, <3>1 DEF SingleFlightUnlessOverrun
    <3> QED  BY <3>1, <3>2 DEF Release
  <2> QED  BY <2>3 DEF LockHeld, SingleFlightUnlessOverrun
<1>4. ASSUME NEW d \in Callers PROVE WaitOK(d)'
  BY DEF Release, Goto, Return, WaitOK, Slept, TypeOK, Procs, Roles
<1>5. EnvelopeOK'  BY DEF Release, Goto, Return, EnvelopeOK
<1> QED  BY <1>1, <1>2, <1>3, <1>4, <1>5

LEMMA StepPreserves == IInv /\ [Next]_vars => IInv'
<1> SUFFICES ASSUME IInv, [Next]_vars PROVE IInv'  OBVIOUS
<1>1. CASE UNCHANGED vars
  BY <1>1 DEF vars, IInv, TypeOK, Roles, LockHeld, SingleFlightUnlessOverrun, Holding, WaitOK,
              Slept, EnvelopeOK
<1> QED
  BY <1>1, TickPreserves, CallPreserves, ReadFailsPreserves, ReadFreshPreserves,
     ReadStalePreserves, ReadMissPreserves, TryLockWinsPreserves, TryLockLosesPreserves,
     PollFindsPreserves, PollMissesPreserves, LoadOkPreserves, LoadErrPreserves, StorePreserves,
     ReleasePreserves DEF Next, Step, CallStep

-----------------------------------------------------------------------------
(* The theorems                                                             *)

\* The invariant holds in every reachable state of the cache and its callers.
THEOREM Invariance == Spec => []IInv
BY InitIInv, StepPreserves, PTL DEF Spec

\* Every caller and refresh task is where get_or_load or spawn_refresh puts it, and every
\* TTL within its setting.
THEOREM TypeCorrect == Spec => []TypeOK
BY Invariance, InvariantImplies, PTL

\* Two processes load under the lock at once only after a winner outlived lock_ttl.
THEOREM SingleFlightCorrect == Spec => []SingleFlightUnlessOverrun
BY Invariance, InvariantImplies, PTL

\* A loser loads for itself next to a standing lock only in the last fraction of a poll
\* interval of it, whatever lock_ttl is.
THEOREM LastResortCorrect == Spec => []LastResortIsLate
BY Invariance, InvariantImplies, PTL

\* The data in the value key is never older than hard_ttl plus the time its load took.
THEOREM RecencyCorrect == Spec => []ServedDataIsRecent
BY Invariance, InvariantImplies, PTL
=============================================================================
