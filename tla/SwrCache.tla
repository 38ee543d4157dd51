------------------------------ MODULE SwrCache ------------------------------
(***************************************************************************)
(* The stale-while-revalidate cache of crates/cache/src/swr.rs: several    *)
(* processes read one Valkey key through Swr::get_or_load.  A fresh value  *)
(* is served, a stale one is served while a spawned task refreshes it, and *)
(* a missing one is loaded by whoever wins the lock key (SET NX PX) while  *)
(* the losers poll and, as a last resort, load for themselves.             *)
(*                                                                         *)
(* The server keeps two keys: the value (cached) and the lock.  Both carry *)
(* a TTL; time passes in Tick, which ages everything, so no clock value is *)
(* kept.  Every command may fail (the pool times commands out), with or    *)
(* without its effect.  The cached payload is abstracted to the age of the *)
(* data in it, counted from the moment its loader started.                 *)
(***************************************************************************)
EXTENDS Integers

CONSTANTS Callers,       \* concurrent calls of get_or_load
          Tasks,         \* slots for the tasks spawn_refresh starts
          FreshTtl,      \* Swr::fresh_ttl, in ticks
          HardTtl,       \* Swr::hard_ttl
          LockTtl,       \* Swr::lock_ttl
          PollInterval,  \* the 25 ms of the polling losers
          MaxRun,        \* the longest a loader and the SET after it take
          None

\* PX 0 is an error of the server.
ASSUME TtlAssumption ==
    FreshTtl \in Nat /\ {HardTtl, LockTtl, PollInterval, MaxRun} \subseteq Nat \ {0}

ASSUME ProcsAssumption == Callers \cap Tasks = {}

VARIABLES
    pc,       \* where each caller and each refresh task is
    mode,     \* why a process loads: what it does with the value follows
    run,      \* ticks since its loader started
    polls,    \* polls a losing caller has left
    sleep,    \* ticks left of its current sleep
    cached,   \* the value key: None or its envelope and remaining TTL
    lock,     \* the lock key: its remaining TTL, 0 when there is no lock
    awaited,  \* ghost: the lock this caller lost to has been there ever since
    overrun   \* ghost: the lock expired while a winner was at work

vars == <<pc, mode, run, polls, sleep, cached, lock, awaited, overrun>>

Procs == Callers \cup Tasks

Places == {"idle", "reading", "locking", "polling", "loading", "storing", "releasing"}

Modes == {"none", "bypass", "direct", "winner", "last"}

\* let max_polls = (lock_ttl / poll_interval).max(1)
MaxPolls == IF LockTtl \div PollInterval = 0 THEN 1 ELSE LockTtl \div PollInterval

OldestData == MaxRun + HardTtl

Init ==
    /\ pc = [p \in Procs |-> "idle"]
    /\ mode = [p \in Procs |-> "none"]
    /\ run = [p \in Procs |-> 0]
    /\ polls = [c \in Callers |-> 0]
    /\ sleep = [c \in Callers |-> 0]
    /\ cached = None
    /\ lock = 0
    /\ awaited = [c \in Callers |-> FALSE]
    /\ overrun = FALSE

-----------------------------------------------------------------------------

\* A winner between its SET NX and its DEL.
Holding(p) == mode[p] = "winner"

Goto(p, place) == pc' = [pc EXCEPT ![p] = place]

\* The call or the task is over.
Return(p) ==
    /\ Goto(p, "idle")
    /\ mode' = [mode EXCEPT ![p] = "none"]
    /\ run' = [run EXCEPT ![p] = 0]
    /\ awaited' = [c \in Callers |-> awaited[c] /\ c # p]

StartLoad(p, why) ==
    /\ Goto(p, "loading")
    /\ mode' = [mode EXCEPT ![p] = why]
    /\ run' = [run EXCEPT ![p] = 0]

\* A winner is done with its load and goes on to DEL the lock.
ToRelease(p) ==
    /\ Goto(p, "releasing")
    /\ run' = [run EXCEPT ![p] = 0]
    /\ UNCHANGED <<mode, awaited>>

\* get_or_load is called, with bypass set or not.
Call(c) ==
    /\ pc[c] = "idle"
    /\ \/ Goto(c, "reading") /\ UNCHANGED <<mode, run>>
       \/ StartLoad(c, "bypass")
    /\ UNCHANGED <<polls, sleep, cached, lock, awaited, overrun>>

Fresh == cached # None /\ cached.age < FreshTtl

\* GET failed: load inline, without the lock and without storing.
ReadFails(c) ==
    /\ pc[c] = "reading"
    /\ StartLoad(c, "direct")
    /\ UNCHANGED <<polls, sleep, cached, lock, awaited, overrun>>

ReadFresh(c) ==
    /\ pc[c] = "reading"
    /\ Fresh
    /\ Return(c)
    /\ UNCHANGED <<polls, sleep, cached, lock, overrun>>

\* Mutant: serving the stale value keeps it alive for the refresh to replace.
ReadStaleKeepsAlive(c) ==
    /\ pc[c] = "reading"
    /\ cached # None /\ ~Fresh
    /\ \E t \in Tasks :
          /\ pc[t] = "idle"
          /\ pc' = [pc EXCEPT ![c] = "idle", ![t] = "locking"]
    /\ cached' = [cached EXCEPT !.left = HardTtl]
    /\ UNCHANGED <<mode, run, polls, sleep, lock, awaited, overrun>>

\* Serve the old value and spawn the refresh.  The number of refresh tasks in
\* flight is bounded by Tasks.
ReadStale(c) ==
    /\ pc[c] = "reading"
    /\ cached # None /\ ~Fresh
    /\ \E t \in Tasks :
          /\ pc[t] = "idle"
          /\ pc' = [pc EXCEPT ![c] = "idle", ![t] = "locking"]
    /\ UNCHANGED <<mode, run, polls, sleep, cached, lock, awaited, overrun>>

\* No value, or one this reader's type does not decode (a deploy changed it).
ReadMiss(c) ==
    /\ pc[c] = "reading"
    /\ Goto(c, "locking")
    /\ UNCHANGED <<mode, run, polls, sleep, cached, lock, awaited, overrun>>

-----------------------------------------------------------------------------

\* Mutant: SET without NX.
LockableAlways == TRUE

\* SET lock NX PX lock_ttl
Lockable == lock = 0

TryLockWins(p) ==
    /\ pc[p] = "locking"
    /\ Lockable
    /\ lock' = LockTtl
    /\ StartLoad(p, "winner")
    /\ UNCHANGED <<polls, sleep, cached, awaited, overrun>>

\* Mutant: the first poll comes before the first sleep.
TryLockLosesPollsAtOnce(p) ==
    /\ pc[p] = "locking"
    /\ UNCHANGED lock
    /\ IF p \in Tasks
       THEN Return(p) /\ UNCHANGED <<polls, sleep>>
       ELSE /\ Goto(p, "polling")
            /\ polls' = [polls EXCEPT ![p] = MaxPolls]
            /\ sleep' = [sleep EXCEPT ![p] = 0]
            /\ awaited' = [awaited EXCEPT ![p] = lock > 0]
            /\ UNCHANGED <<mode, run>>
    /\ UNCHANGED <<cached, overrun>>

\* The lock is taken, or the command failed (even if the server applied it: the
\* reply was lost and nobody will delete that lock).  A refresh task gives up, a
\* caller starts to poll.
TryLockLoses(p) ==
    /\ pc[p] = "locking"
    /\ \/ UNCHANGED lock
       \/ lock = 0 /\ lock' = LockTtl
    /\ IF p \in Tasks
       THEN Return(p) /\ UNCHANGED <<polls, sleep>>
       ELSE /\ Goto(p, "polling")
            /\ polls' = [polls EXCEPT ![p] = MaxPolls]
            /\ sleep' = [sleep EXCEPT ![p] = PollInterval]
            /\ awaited' = [awaited EXCEPT ![p] = lock' > 0]
            /\ UNCHANGED <<mode, run>>
    /\ UNCHANGED <<cached, overrun>>

PollFinds(c) ==
    /\ pc[c] = "polling" /\ sleep[c] = 0
    /\ Fresh
    /\ Return(c)
    /\ polls' = [polls EXCEPT ![c] = 0]
    /\ UNCHANGED <<sleep, cached, lock, overrun>>

\* Mutant: the loser polls until the value appears.
PollMissesForever(c) ==
    /\ pc[c] = "polling" /\ sleep[c] = 0
    /\ sleep' = [sleep EXCEPT ![c] = PollInterval]
    /\ UNCHANGED <<pc, mode, run, polls, cached, lock, awaited, overrun>>

\* Mutant: the poll count is tested after it is decremented (one poll too many).
PollMissesOnceMore(c) ==
    /\ pc[c] = "polling" /\ sleep[c] = 0
    /\ polls' = [polls EXCEPT ![c] = @ - 1]
    /\ IF polls[c] > 0
       THEN sleep' = [sleep EXCEPT ![c] = PollInterval] /\ UNCHANGED <<pc, mode, run>>
       ELSE StartLoad(c, "last") /\ UNCHANGED sleep
    /\ UNCHANGED <<cached, lock, awaited, overrun>>

\* Nothing fresh, nothing that decodes, or GET failed: sleep again, or load as a
\* last resort.
PollMisses(c) ==
    /\ pc[c] = "polling" /\ sleep[c] = 0
    /\ polls' = [polls EXCEPT ![c] = @ - 1]
    /\ IF polls[c] > 1
       THEN sleep' = [sleep EXCEPT ![c] = PollInterval] /\ UNCHANGED <<pc, mode, run>>
       ELSE StartLoad(c, "last") /\ UNCHANGED sleep
    /\ UNCHANGED <<cached, lock, awaited, overrun>>

-----------------------------------------------------------------------------

\* The loader answers: its value goes to store(), except after a failed GET; its
\* error ends the call, after the lock is released if it was ours.
LoadOk(p) ==
    /\ pc[p] = "loading"
    /\ IF mode[p] = "direct"
       THEN Return(p)
       ELSE Goto(p, "storing") /\ UNCHANGED <<mode, run, awaited>>
    /\ UNCHANGED <<polls, sleep, cached, lock, overrun>>

LoadErr(p) ==
    /\ pc[p] = "loading"
    /\ IF Holding(p) THEN ToRelease(p) ELSE Return(p)
    /\ UNCHANGED <<polls, sleep, cached, lock, overrun>>

\* SET key PX hard_ttl; the envelope is stamped now, whenever the load began.
Envelope(p) == [age |-> 0, data |-> run[p], left |-> HardTtl]

\* store(): a failed SET is ignored.
Store(p) ==
    /\ pc[p] = "storing"
    /\ cached' \in {Envelope(p), cached}
    /\ IF Holding(p) THEN ToRelease(p) ELSE Return(p)
    /\ UNCHANGED <<polls, sleep, lock, overrun>>

\* DEL lock, whoever set the one that is there now; a failed DEL is ignored and
\* the lock lasts until its TTL.
Release(p) ==
    /\ pc[p] = "releasing"
    /\ \/ UNCHANGED lock /\ Return(p)
       \/ /\ lock' = 0
          /\ Goto(p, "idle")
          /\ mode' = [mode EXCEPT ![p] = "none"]
          /\ run' = [run EXCEPT ![p] = 0]
          /\ awaited' = [c \in Callers |-> FALSE]
    /\ overrun' = (overrun /\ \E q \in Procs \ {p} : Holding(q))
    /\ UNCHANGED <<polls, sleep, cached>>

-----------------------------------------------------------------------------

\* A load whose value will be stored: the age of the others' data is not kept.
Running(p) == pc[p] \in {"loading", "storing"} /\ mode[p] # "direct"

LockExpires == lock = 1

\* A tick passes: TTLs run down, sleepers sleep, loads get older.  No loader
\* outlasts MaxRun.
Tick ==
    /\ \A p \in Procs : Running(p) => run[p] < MaxRun
    /\ run' = [p \in Procs |-> IF Running(p) THEN run[p] + 1 ELSE run[p]]
    /\ sleep' = [c \in Callers |-> IF sleep[c] = 0 THEN 0 ELSE sleep[c] - 1]
    /\ cached' = IF cached = None \/ cached.left = 1 THEN None
                 ELSE [age |-> cached.age + 1, data |-> cached.data + 1, left |-> cached.left - 1]
    /\ lock' = IF lock = 0 THEN 0 ELSE lock - 1
    /\ awaited' = [c \in Callers |-> awaited[c] /\ ~LockExpires]
    /\ overrun' = (overrun \/ (LockExpires /\ \E p \in Procs : Holding(p)))
    /\ UNCHANGED <<pc, mode, polls>>

Step(p) ==
    \/ TryLockWins(p) \/ TryLockLoses(p)
    \/ LoadOk(p) \/ LoadErr(p)
    \/ Store(p) \/ Release(p)

CallStep(c) ==
    \/ ReadFails(c) \/ ReadFresh(c) \/ ReadStale(c) \/ ReadMiss(c)
    \/ PollFinds(c) \/ PollMisses(c)

Next ==
    \/ Tick
    \/ \E c \in Callers : Call(c) \/ CallStep(c)
    \/ \E p \in Procs : Step(p)

Spec == Init /\ [][Next]_vars

\* Time passes, loaders end, commands time out (COMMAND_TIMEOUT, one second) and
\* the runtime schedules every task that can go on.  Nobody has to call.
FairSpec ==
    /\ Spec
    /\ WF_vars(Tick)
    /\ \A p \in Procs : WF_vars(Step(p))
    /\ \A c \in Callers : WF_vars(CallStep(c))

-----------------------------------------------------------------------------

\* Every process is where its role allows and every TTL is within its setting:
\* only losers poll, only callers read, what is stored came from a load.
TypeOK ==
    /\ pc \in [Procs -> Places]
    /\ mode \in [Procs -> Modes]
    /\ run \in [Procs -> 0..MaxRun]
    /\ polls \in [Callers -> 0..MaxPolls]
    /\ sleep \in [Callers -> 0..PollInterval]
    /\ cached = None \/ cached \in [age : 0..HardTtl, data : Nat, left : 1..HardTtl]
    /\ lock \in 0..LockTtl
    /\ awaited \in [Callers -> BOOLEAN]
    /\ overrun \in BOOLEAN
    /\ \A t \in Tasks : pc[t] \notin {"reading", "polling"}
    /\ \A p \in Procs : (mode[p] # "none") <=> (pc[p] \in {"loading", "storing", "releasing"})

\* swr.rs:156-158, cluster-wide single flight: two processes load under the lock
\* at the same time only after a winner outlived lock_ttl.  The lock has no owner
\* token, so the late winner's DEL may take the lock of the next one too; that is
\* the only way the overlap can spread.
SingleFlightUnlessOverrun ==
    \A p, q \in Procs : (Holding(p) /\ Holding(q) /\ p # q) => overrun

\* swr.rs:135-151: a loser loads for itself while the lock it lost to still stands
\* only in the last fraction of a poll interval of that lock's life, because
\* max_polls is lock_ttl / 25 ms rounded down (or 1).
LastResortIsLate ==
    \A c \in Callers :
        (awaited[c] /\ mode[c] = "last") => (0 < lock /\ lock < PollInterval)

\* The data a reader can be served is never older than hard_ttl plus the time its
\* own load took, whichever of the winners, late winners, bypassing callers and
\* last-resort losers wrote it, and in whatever order (swr.rs:43-44, 201-203).
ServedDataIsRecent ==
    cached # None => cached.data + cached.left <= OldestData

\* swr.rs:116-118, "never an unbounded wait": every call returns, with a leaked or
\* overrun lock, failing commands and failing loaders, and every refresh task ends.
CallsReturn == \A p \in Procs : (pc[p] # "idle") ~> (pc[p] = "idle")

=============================================================================
