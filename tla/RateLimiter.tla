----------------------------- MODULE RateLimiter -----------------------------
(***************************************************************************)
(* The in-memory token bucket of crates/ratelimit/src/lib.rs, shared by    *)
(* several threads.  try_consume and prune read the clock first and take   *)
(* the bucket's entry (a DashMap shard lock) afterwards, so the clock may  *)
(* move, and other threads may update the bucket with a later reading, in  *)
(* between.  The entry is held from the refill to the subtraction, so each *)
(* of those is one step.                                                   *)
(*                                                                         *)
(* Tokens and seconds are f64 in the code; here they are integers, with a  *)
(* tick of the clock adding Rate tokens: what rounding does to a float     *)
(* bucket is not modelled.                                                 *)
(***************************************************************************)
EXTENDS Integers

CONSTANTS Threads,   \* threads that call check or prune
          Keys,      \* bucket keys
          Capacity,  \* Quota::capacity
          Rate,      \* Quota::refill_per_sec, in tokens per tick
          MaxClock,  \* bound: the clock stops here
          Calls,     \* bound: no check of a key starts after this many admissions
          None

ASSUME QuotaAssumption == Capacity \in Nat /\ Rate \in Nat

ASSUME BoundsAssumption == MaxClock \in Nat /\ Calls \in Nat

\* struct Bucket
Bucket == [tokens : 0..Capacity, last_refill : Nat]

ASSUME NoneAssumption == None \notin Bucket

VARIABLES
    clock,     \* Clock::now_secs
    op,        \* what each thread is doing: a check or a prune, and on what key
    now,       \* the clock reading it made
    bucket,    \* buckets: None, or tokens and last_refill
    admitted,  \* ghost: checks of the key that returned true
    synced,    \* ghost: the time up to which the key's tokens are accounted for
    rewound    \* ghost: how far that time was moved back, in total

vars == <<clock, op, now, bucket, admitted, synced, rewound>>

Idle == [kind |-> "idle", key |-> None]

Max0(n) == IF n > 0 THEN n ELSE 0

Init ==
    /\ clock = 0
    /\ op = [t \in Threads |-> Idle]
    /\ now = [t \in Threads |-> 0]
    /\ bucket = [k \in Keys |-> None]
    /\ admitted = [k \in Keys |-> 0]
    /\ synced = [k \in Keys |-> 0]
    /\ rewound = [k \in Keys |-> 0]

Tick ==
    /\ clock < MaxClock
    /\ clock' = clock + 1
    /\ UNCHANGED <<op, now, bucket, admitted, synced, rewound>>

\* let now = self.clock.now_secs(), at the head of try_consume and of prune.
\* retain() takes the shards one after the other: a prune is modelled key by key.
ReadClock(t) ==
    /\ op[t] = Idle
    /\ \E kind \in {"check", "prune"}, k \in Keys :
          /\ kind = "check" => admitted[k] < Calls
          /\ op' = [op EXCEPT ![t] = [kind |-> kind, key |-> k]]
    /\ now' = [now EXCEPT ![t] = clock]
    /\ UNCHANGED <<clock, bucket, admitted, synced, rewound>>

\* entry(key).or_insert(a full bucket, refilled now)
Entry(k, at) ==
    IF bucket[k] = None THEN [tokens |-> Capacity, last_refill |-> at] ELSE bucket[k]

\* Mutant: the refill is not capped.
RefilledUncapped(b, at) == b.tokens + Max0(at - b.last_refill) * Rate

\* The tokens of b at time at: (tokens + elapsed * refill_per_sec).min(capacity)
Refilled(b, at) ==
    LET full == b.tokens + Max0(at - b.last_refill) * Rate
    IN  IF full < Capacity THEN full ELSE Capacity

\* Mutant: the refill forgets to move last_refill.
LastRefillKept(t, b) == b.last_refill

\* entry.last_refill = now, even when now is the earlier reading
LastRefill(t, b) == now[t]

\* Mutant: the token is taken before the balance is tested.
TryConsumeFirst(t) ==
    /\ op[t].kind = "check"
    /\ LET k == op[t].key
           tokens == Refilled(Entry(k, now[t]), now[t])
       IN  /\ bucket' = [bucket EXCEPT ![k] =
                 [tokens |-> Max0(tokens - 1), last_refill |-> now[t]]]
           /\ admitted' = [admitted EXCEPT ![k] = IF tokens > 1 THEN @ + 1 ELSE @]
           /\ rewound' = [rewound EXCEPT ![k] = @ + Max0(synced[k] - now[t])]
           /\ synced' = [synced EXCEPT ![k] = now[t]]
    /\ op' = [op EXCEPT ![t] = Idle]
    /\ now' = [now EXCEPT ![t] = 0]
    /\ UNCHANGED clock

\* The rest of try_consume(key, 1.0), under the entry's lock.
TryConsume(t) ==
    /\ op[t].kind = "check"
    /\ LET k == op[t].key
           b == Entry(k, now[t])
           tokens == Refilled(b, now[t])
       IN  /\ bucket' = [bucket EXCEPT ![k] =
                 [tokens |-> IF tokens >= 1 THEN tokens - 1 ELSE tokens,
                  last_refill |-> LastRefill(t, b)]]
           /\ admitted' = [admitted EXCEPT ![k] = IF tokens >= 1 THEN @ + 1 ELSE @]
           /\ rewound' = [rewound EXCEPT ![k] = @ + Max0(synced[k] - now[t])]
           /\ synced' = [synced EXCEPT ![k] = now[t]]
    /\ op' = [op EXCEPT ![t] = Idle]
    /\ now' = [now EXCEPT ![t] = 0]
    /\ UNCHANGED clock

\* Mutant: prune drops every bucket that has not been touched in this tick.
FullIdle(b, at) == b.last_refill < at

\* A bucket a prune at that time drops: !(tokens + elapsed * refill_per_sec < capacity)
Full(b, at) == b.tokens + Max0(at - b.last_refill) * Rate >= Capacity

\* The rest of prune, for one key.
Prune(t) ==
    /\ op[t].kind = "prune"
    /\ LET k == op[t].key
       IN  IF bucket[k] # None /\ Full(bucket[k], now[t])
           THEN /\ bucket' = [bucket EXCEPT ![k] = None]
                /\ synced' = [synced EXCEPT ![k] = @ + Max0(now[t] - @)]
           ELSE UNCHANGED <<bucket, synced>>
    /\ op' = [op EXCEPT ![t] = Idle]
    /\ now' = [now EXCEPT ![t] = 0]
    /\ UNCHANGED <<clock, admitted, rewound>>

Next ==
    \/ Tick
    \/ \E t \in Threads : ReadClock(t) \/ TryConsume(t) \/ Prune(t)

Spec == Init /\ [][Next]_vars
-----------------------------------------------------------------------------

\* No bucket holds more than its capacity or less than nothing, and no reading of
\* the clock lies in the future, whatever order the threads' updates come in.
TypeOK ==
    /\ clock \in Nat
    /\ op \in [Threads -> {Idle} \cup [kind : {"check", "prune"}, key : Keys]]
    /\ now \in [Threads -> Nat]
    /\ bucket \in [Keys -> Bucket \cup {None}]
    /\ admitted \in [Keys -> Nat]
    /\ synced \in [Keys -> Nat]
    /\ rewound \in [Keys -> Nat]
    /\ \A t \in Threads : now[t] <= clock

\* lib.rs:104-113: a key is admitted at most its capacity plus what the quota adds
\* over the time that passed, plus what it adds over the time by which late threads
\* moved last_refill back.  Pruning a bucket and starting a new one adds nothing.
AdmissionIsBounded ==
    \A k \in Keys : admitted[k] <= Capacity + Rate * (clock + rewound[k])

\* The first Capacity checks of a key are admitted, whatever the threads' order and
\* whenever prune runs: only an admission ever costs a token (lib.rs:115-120, 126).
RefusalsCostNothing ==
    \A k \in Keys : bucket[k] # None => bucket[k].tokens + admitted[k] >= Capacity

=============================================================================
