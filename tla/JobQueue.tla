------------------------------ MODULE JobQueue ------------------------------
(***************************************************************************)
(* The `jobs` table of ferrlabs-queue (crates/queue) and everybody who     *)
(* writes it: producers (Queue::enqueue, Queue::cancel), worker loops      *)
(* (claim_one, process_claimed, the mark_* updates) and sweepers.          *)
(*                                                                         *)
(* Every SQL statement of the crate is one implicit transaction, so it is  *)
(* one atomic step here; what happens between two statements of the same   *)
(* task (the handler runs, the process dies, the lease goes stale) is an   *)
(* interleaving of steps.  A statement that finds nothing to do, or that   *)
(* fails before it commits, leaves the state alone and needs no action.    *)
(*                                                                         *)
(* Time is relative: run_in[j] counts down to run_at, locked_for[j] is the *)
(* age of locked_at, and Tick lets one unit pass.  Both saturate, so the   *)
(* state space is finite without a bound on the length of a behaviour.     *)
(***************************************************************************)
EXTENDS Integers, FiniteSets

CONSTANTS
    Jobs,            \* row ids the database may hand out
    Workers,         \* worker ids: name-uuid, one per call of spawn_worker
    Producers,       \* tasks that call Queue::enqueue
    Queues,          \* values of Payload::QUEUE
    Keys,            \* idempotency keys
    Options,         \* the enqueue calls considered, see OptionsAssumption
    WorkerQueue,     \* the queue each worker serves
    StaleAfter,      \* WorkerConfig::stale_after of each worker
    MaxBackoff,      \* the cap of backoff_seconds (3600 in the source)
    DefaultAttempts, \* max_attempts when none is given (3 in the source)
    I32Max,          \* largest value of the INTEGER columns
    MaxAge,          \* where the age of a lock saturates
    RunFloor,        \* how long past run_at is still told apart
    MaxLate,         \* bound on the abandoned statements on the wire at once
    Skew,            \* largest difference between an app clock and the database's
    None

ASSUME NoneAssumption ==
    /\ None \notin Jobs \cup Workers \cup Keys \cup Options \cup Nat
    /\ None \notin [job : Jobs, attempt : Nat]

ASSUME WorkerAssumption ==
    /\ WorkerQueue \in [Workers -> Queues]
    /\ StaleAfter \in [Workers -> Nat]

ASSUME BoundsAssumption ==
    /\ MaxBackoff \in Nat /\ Skew \in Nat /\ RunFloor \in Nat /\ MaxAge \in Nat
    /\ MaxLate \in Nat /\ DefaultAttempts \in Nat /\ I32Max \in Nat /\ DefaultAttempts <= I32Max
    /\ \A w \in Workers : StaleAfter[w] + Skew < MaxAge

\* EnqueueOptions and the queue it is for; delay is run_at - now, in the past or not.
ASSUME OptionsAssumption ==
    Options \subseteq [queue : Queues, key : Keys \cup {None}, priority : Int,
                       max_attempts : Nat \cup {None}, delay : Int]

-----------------------------------------------------------------------------
(* State                                                                   *)

VARIABLES
    status,       \* per row; "absent" until the row is inserted
    job,          \* the columns no statement changes: queue, key, priority, max_attempts
    attempts,
    run_in,       \* run_at - now, saturating at -RunFloor
    locked_for,   \* now - locked_at, or None when locked_at is NULL
    locked_by,
    pc,           \* where each worker's loop_task is
    sweeper,      \* whether its sweep_task runs
    held,         \* the job and attempt number its process_claimed works on
    held_for,     \* history: age of that claim as its worker sees it
    late,         \* mark_* statements on the wire whose task no longer waits for them
    calls,        \* enqueue calls that met a conflict and will SELECT the row
    answers,      \* history: the ids enqueue returned for each queue and key
    swept         \* history: rows a sweeper has ever taken back

rowVars == <<status, job, attempts, run_in, locked_for, locked_by>>
workerVars == <<pc, sweeper, held, held_for, late>>
producerVars == <<calls, answers>>
vars == <<status, job, attempts, run_in, locked_for, locked_by,
          pc, sweeper, held, held_for, late, calls, answers, swept>>

Terminal == {"done", "cancelled", "dead"}
Status == {"queued", "running", "failed"} \cup Terminal
\* off: not spawned yet; gone: shut down, aborted or killed, or a panic of the handler
\* took loop_task with it.  The sweeper has a life of its own.
LoopStates == {"off", "idle", "handling", "gone"}

Columns == [queue : Queues, key : Keys \cup {None}, priority : Int,
            max_attempts : 0..I32Max]
Claim == [job : Jobs, attempt : Nat]
LateMarks == [job : Jobs, attempt : Nat, to : {"done", "dead", "failed"}]

Init ==
    /\ status = [j \in Jobs |-> "absent"]
    /\ job = [j \in Jobs |-> None]
    /\ attempts = [j \in Jobs |-> 0]
    /\ run_in = [j \in Jobs |-> 0]
    /\ locked_for = [j \in Jobs |-> None]
    /\ locked_by = [j \in Jobs |-> None]
    /\ pc = [w \in Workers |-> "off"]
    /\ sweeper = [w \in Workers |-> FALSE]
    /\ late = {}
    /\ held = [w \in Workers |-> None]
    /\ held_for = [w \in Workers |-> 0]
    /\ calls = [p \in Producers |-> None]
    /\ answers = [q \in Queues |-> [k \in Keys |-> {}]]
    /\ swept = {}

-----------------------------------------------------------------------------
(* Producers: Queue::enqueue and Queue::cancel                              *)

\* Variant: the conversion to INTEGER is not checked.
MaxAttemptsUnchecked(m) == m

\* i32::try_from(opts.max_attempts.unwrap_or(3)).unwrap_or(3)
MaxAttemptsFor(m) == IF m \in 0..I32Max THEN m ELSE DefaultAttempts

\* Variant: the unique index covers unfinished jobs only.
ConflictingWhileOpen(o) ==
    {j \in Jobs : /\ status[j] \in Status \ Terminal
                  /\ o.key # None
                  /\ job[j].queue = o.queue
                  /\ job[j].key = o.key}

\* The rows an insert of `o` conflicts with: jobs_idempotency_idx is partial,
\* a NULL key conflicts with nothing.
Conflicting(o) ==
    {j \in Jobs : /\ status[j] # "absent"
                  /\ o.key # None
                  /\ job[j].queue = o.queue
                  /\ job[j].key = o.key}

\* The answer of an enqueue: what a caller with this queue and key is told.
Answer(o, j) ==
    answers' = IF o.key = None THEN answers
               ELSE [answers EXCEPT ![o.queue][o.key] = @ \cup {j}]

\* INSERT ... ON CONFLICT DO NOTHING RETURNING id found no conflict.
Insert(p, o, j) ==
    /\ calls[p] = None
    /\ Conflicting(o) = {}
    /\ status[j] = "absent"
    /\ status' = [status EXCEPT ![j] = "queued"]
    /\ job' = [job EXCEPT ![j] = [queue |-> o.queue, key |-> o.key, priority |-> o.priority,
                                  max_attempts |-> MaxAttemptsFor(o.max_attempts)]]
    /\ run_in' = [run_in EXCEPT ![j] = IF o.delay < -RunFloor THEN -RunFloor ELSE o.delay]
    /\ Answer(o, j)
    /\ UNCHANGED <<attempts, locked_for, locked_by, workerVars, calls, swept>>

\* The insert did nothing: the call goes on to its SELECT.
InsertConflicts(p, o) ==
    /\ calls[p] = None
    /\ Conflicting(o) # {}
    /\ calls' = [calls EXCEPT ![p] = o]
    /\ UNCHANGED <<rowVars, workerVars, answers, swept>>

\* SELECT id FROM jobs WHERE queue = $1 AND idempotency_key = $2
SelectExisting(p) ==
    /\ calls[p] # None
    /\ \E j \in Conflicting(calls[p]) : Answer(calls[p], j)
    /\ calls' = [calls EXCEPT ![p] = None]
    /\ UNCHANGED <<rowVars, workerVars, swept>>

\* The SELECT fails: enqueue returns Err and the caller may call it again.
SelectFails(p) ==
    /\ calls[p] # None
    /\ calls' = [calls EXCEPT ![p] = None]
    /\ UNCHANGED <<rowVars, workerVars, answers, swept>>

\* Variant: cancel forgets that done and dead rows are finished.
CancelFinished(q, j) ==
    /\ status[j] \in Status \ {"cancelled"}
    /\ job[j].queue = q
    /\ status' = [status EXCEPT ![j] = "cancelled"]
    /\ UNCHANGED <<job, attempts, run_in, locked_for, locked_by, workerVars, producerVars, swept>>

\* Through the Queue handle of queue q; any other row is JobNotFound.
Cancel(q, j) ==
    /\ status[j] \in Status \ Terminal
    /\ job[j].queue = q
    /\ status' = [status EXCEPT ![j] = "cancelled"]
    /\ UNCHANGED <<job, attempts, run_in, locked_for, locked_by, workerVars, producerVars, swept>>

-----------------------------------------------------------------------------
(* The worker loop: claim_one, then process_claimed                         *)

\* Variants of the WHERE clause: it takes running rows too, it ignores the budget,
\* it forgets rows waiting for a retry.
ClaimableRunning(q, j) ==
    /\ status[j] \in {"queued", "failed", "running"}
    /\ job[j].queue = q
    /\ run_in[j] <= 0
    /\ attempts[j] < job[j].max_attempts
ClaimableForever(q, j) ==
    /\ status[j] \in {"queued", "failed"}
    /\ job[j].queue = q
    /\ run_in[j] <= 0
ClaimableOnce(q, j) ==
    /\ status[j] = "queued"
    /\ job[j].queue = q
    /\ run_in[j] <= 0
    /\ attempts[j] < job[j].max_attempts

\* The WHERE clause of the claim's subquery.
Claimable(q, j) ==
    /\ status[j] \in {"queued", "failed"}
    /\ job[j].queue = q
    /\ run_in[j] <= 0
    /\ attempts[j] < job[j].max_attempts

\* ORDER BY priority DESC, run_at ASC
ClaimedBefore(i, j) ==
    \/ job[i].priority > job[j].priority
    \/ job[i].priority = job[j].priority /\ run_in[i] < run_in[j]

\* Variant: the claim names its owner and forgets the time.
LockRowUntimed(w, j) ==
    /\ locked_by' = [locked_by EXCEPT ![j] = w]
    /\ UNCHANGED locked_for

\* locked_at = NOW(), locked_by = $1
LockRow(w, j) ==
    /\ locked_for' = [locked_for EXCEPT ![j] = 0]
    /\ locked_by' = [locked_by EXCEPT ![j] = w]

\* The row the UPDATE of claim_one picks and what it sets.
ClaimRow(w, j) ==
    /\ pc[w] = "idle"
    /\ Claimable(WorkerQueue[w], j)
    /\ \A i \in Jobs : Claimable(WorkerQueue[w], i) => ~ClaimedBefore(i, j)
    /\ status' = [status EXCEPT ![j] = "running"]
    /\ attempts' = [attempts EXCEPT ![j] = @ + 1]
    /\ LockRow(w, j)
    /\ UNCHANGED <<job, run_in, producerVars, swept>>

ClaimOne(w, j) ==
    /\ ClaimRow(w, j)
    /\ pc' = [pc EXCEPT ![w] = "handling"]
    /\ held' = [held EXCEPT ![w] = [job |-> j, attempt |-> attempts[j] + 1]]
    /\ held_for' = [held_for EXCEPT ![w] = 0]
    /\ UNCHANGED <<sweeper, late>>

\* The UPDATE commits and its reply is lost: claim_one warns and returns None.
ClaimReplyLost(w, j) ==
    /\ ClaimRow(w, j)
    /\ UNCHANGED workerVars

\* The worker is done with its job, whatever became of the row.
Release(w, state) ==
    /\ pc[w] = "handling"
    /\ pc' = [pc EXCEPT ![w] = state]
    /\ held' = [held EXCEPT ![w] = None]
    /\ held_for' = [held_for EXCEPT ![w] = 0]
    /\ UNCHANGED sweeper

\* UPDATE jobs SET status = s, locked_at = NULL, locked_by = NULL WHERE id = j:
\* neither the status nor the owner of the row is looked at.
Mark(j, s) ==
    /\ status' = [status EXCEPT ![j] = s]
    /\ locked_for' = [locked_for EXCEPT ![j] = None]
    /\ locked_by' = [locked_by EXCEPT ![j] = None]
    /\ UNCHANGED <<job, attempts, producerVars, swept>>

mark_done(j) == Mark(j, "done") /\ UNCHANGED run_in
mark_dead(j) == Mark(j, "dead") /\ UNCHANGED run_in
mark_failed_for_retry(j, delay) ==
    Mark(j, "failed") /\ run_in' = [run_in EXCEPT ![j] = delay]

\* min(2^attempt, 3600)
Backoff(attempt) == IF 2^attempt \in 0..MaxBackoff THEN 2^attempt ELSE MaxBackoff

\* What an app clock may read when the database's reads 0.
ClockErrors == -Skew .. Skew

\* A run_at set by an app clock, as the database's clock sees it.
RunIn(delay, e) == IF delay + e < -RunFloor THEN -RunFloor ELSE delay + e

retry_or_bury(j, attempt) ==
    \/ /\ attempt >= job[j].max_attempts
       /\ mark_dead(j)
    \/ /\ attempt < job[j].max_attempts
       /\ \E e \in ClockErrors : mark_failed_for_retry(j, RunIn(Backoff(attempt), e))

\* handle returned Ok
HandleOk(w) == Release(w, "idle") /\ mark_done(held[w].job) /\ UNCHANGED late

\* handle returned Permanent, or the payload does not deserialize
HandlePermanent(w) == Release(w, "idle") /\ mark_dead(held[w].job) /\ UNCHANGED late

\* handle returned Retriable
HandleRetriable(w) ==
    Release(w, "idle") /\ retry_or_bury(held[w].job, held[w].attempt) /\ UNCHANGED late

\* The marks process_claimed may have sent for the claim w holds.
MarksOf(w) ==
    {[job |-> held[w].job, attempt |-> held[w].attempt, to |-> s] :
        s \in {"done", "dead"} \cup
              (IF held[w].attempt < job[held[w].job].max_attempts THEN {"failed"} ELSE {})}

\* The task stops waiting for its mark_* before it knows the outcome: the statement was
\* not sent or will not commit, or it is on the wire and commits when it gets there.
LeaveMark(w) ==
    \/ UNCHANGED late
    \/ /\ held[w] # None /\ Cardinality(late) < MaxLate
       /\ \E m \in MarksOf(w) : late' = late \cup {m}

\* Whatever handle returned, execute() of the mark_* returns Err; that is only logged.
MarkFails(w) ==
    Release(w, "idle") /\ LeaveMark(w) /\ UNCHANGED <<rowVars, producerVars, swept>>

\* handle panics: loop_task ends, nothing marks the row.
HandlerPanics(w) ==
    Release(w, "gone") /\ UNCHANGED <<late, rowVars, producerVars, swept>>

\* A mark nobody waits for commits.  Its run_at was computed when it was sent.
LateMark(m) ==
    /\ m \in late
    /\ late' = late \ {m}
    /\ Mark(m.job, m.to)
    /\ \/ m.to # "failed" /\ UNCHANGED run_in
       \/ /\ m.to = "failed"
          /\ \E r \in -RunFloor .. RunIn(Backoff(m.attempt), Skew) :
                run_in' = [run_in EXCEPT ![m.job] = r]
    /\ UNCHANGED <<pc, sweeper, held, held_for>>

-----------------------------------------------------------------------------
(* Worker lifecycle and sweeper                                             *)

Spawn(w) ==
    /\ pc[w] = "off"
    /\ pc' = [pc EXCEPT ![w] = "idle"]
    /\ sweeper' = [sweeper EXCEPT ![w] = TRUE]
    /\ UNCHANGED <<rowVars, held, held_for, late, producerVars, swept>>

\* notify_waiters of WorkerHandle::shutdown: only tasks waiting in their select! hear it.
\* A loop in claim_one or process_claimed misses it and stays up, with or without its
\* sweeper; a sweeper in its UPDATE misses it too (module WorkerLoop has the detail).
Shutdown(w, heard) ==
    /\ pc[w] # "off" /\ heard # {}
    /\ "loop" \in heard => pc[w] = "idle"
    /\ "sweeper" \in heard => sweeper[w]
    /\ pc' = IF "loop" \in heard THEN [pc EXCEPT ![w] = "gone"] ELSE pc
    /\ sweeper' = IF "sweeper" \in heard THEN [sweeper EXCEPT ![w] = FALSE] ELSE sweeper
    /\ UNCHANGED <<rowVars, held, held_for, late, producerVars, swept>>

\* WorkerHandle::abort, or the process is killed; in the middle of a job or not, perhaps
\* with its mark_* on the wire.
Abort(w) ==
    /\ pc[w] \in {"idle", "handling"}
    /\ pc' = [pc EXCEPT ![w] = "gone"]
    /\ held' = [held EXCEPT ![w] = None]
    /\ held_for' = [held_for EXCEPT ![w] = 0]
    /\ LeaveMark(w)
    /\ UNCHANGED <<sweeper, rowVars, producerVars, swept>>

\* sweep_task.abort() of shutdown and abort, or the process is killed: the sweeper ends
\* some time after the loop, and an UPDATE it had sent may commit until then.
SweeperAborted(w) ==
    /\ pc[w] = "gone"
    /\ sweeper[w]
    /\ sweeper' = [sweeper EXCEPT ![w] = FALSE]
    /\ UNCHANGED <<rowVars, pc, held, held_for, late, producerVars, swept>>

SweeperRuns(w) == sweeper[w]

\* Variants: the sweeper looks at no age, or only at the rows its own worker locked.
StaleAtAnyAge(w, e) == {j \in Jobs : status[j] = "running" /\ locked_for[j] # None}
StaleOwnRows(w, e) ==
    {j \in Jobs : /\ status[j] = "running"
                  /\ locked_by[j] = w
                  /\ locked_for[j] # None
                  /\ locked_for[j] + e > StaleAfter[w]}

\* The rows w's sweeper takes back, of every queue, when its clock is off by e.
Stale(w, e) ==
    {j \in Jobs : /\ status[j] = "running"
                  /\ locked_for[j] # None
                  /\ locked_for[j] + e > StaleAfter[w]}

\* Variant: a swept job gets its attempt back.
SweepRefunds(w, e) ==
    /\ SweeperRuns(w)
    /\ Stale(w, e) # {}
    /\ status' = [j \in Jobs |-> IF j \in Stale(w, e) THEN "queued" ELSE status[j]]
    /\ attempts' = [j \in Jobs |-> IF j \in Stale(w, e) THEN attempts[j] - 1 ELSE attempts[j]]
    /\ locked_for' = [j \in Jobs |-> IF j \in Stale(w, e) THEN None ELSE locked_for[j]]
    /\ locked_by' = [j \in Jobs |-> IF j \in Stale(w, e) THEN None ELSE locked_by[j]]
    /\ swept' = swept \cup Stale(w, e)
    /\ UNCHANGED <<job, run_in, workerVars, producerVars>>

Sweep(w, e) ==
    /\ SweeperRuns(w)
    /\ Stale(w, e) # {}
    /\ status' = [j \in Jobs |-> IF j \in Stale(w, e) THEN "queued" ELSE status[j]]
    /\ locked_for' = [j \in Jobs |-> IF j \in Stale(w, e) THEN None ELSE locked_for[j]]
    /\ locked_by' = [j \in Jobs |-> IF j \in Stale(w, e) THEN None ELSE locked_by[j]]
    /\ swept' = swept \cup Stale(w, e)
    /\ UNCHANGED <<job, attempts, run_in, workerVars, producerVars>>

Older(age) == IF age < MaxAge THEN age + 1 ELSE age

Tick ==
    /\ run_in' = [j \in Jobs |-> IF status[j] # "absent" /\ run_in[j] > -RunFloor
                                 THEN run_in[j] - 1 ELSE run_in[j]]
    /\ locked_for' = [j \in Jobs |-> IF locked_for[j] = None THEN None ELSE Older(locked_for[j])]
    /\ held_for' = [w \in Workers |-> IF held[w] = None THEN held_for[w] ELSE Older(held_for[w])]
    /\ UNCHANGED <<status, job, attempts, locked_by, pc, sweeper, held, late, producerVars,
                   swept>>

-----------------------------------------------------------------------------
Produce(p) ==
    \/ \E o \in Options : InsertConflicts(p, o) \/ \E j \in Jobs : Insert(p, o, j)
    \/ SelectExisting(p)
    \/ SelectFails(p)

\* A loop that has claimed a job either finishes it or dies with it.
Finish(w) ==
    HandleOk(w) \/ HandlePermanent(w) \/ HandleRetriable(w) \/ MarkFails(w)

Work(w) ==
    \/ Spawn(w) \/ Abort(w) \/ SweeperAborted(w)
    \/ \E heard \in SUBSET {"loop", "sweeper"} : Shutdown(w, heard)
    \/ \E j \in Jobs : ClaimOne(w, j) \/ ClaimReplyLost(w, j)
    \/ Finish(w)
    \/ HandlerPanics(w)
    \/ \E e \in ClockErrors : Sweep(w, e)

Next ==
    \/ \E p \in Producers : Produce(p)
    \/ \E q \in Queues, j \in Jobs : Cancel(q, j)
    \/ \E w \in Workers : Work(w)
    \/ \E m \in late : LateMark(m)
    \/ Tick

Spec == Init /\ [][Next]_vars
-----------------------------------------------------------------------------
(* Properties                                                               *)

\* The columns and the local variables of the tasks keep the types the schema
\* (schema.rs) and the Rust declarations give them.
TypeOK ==
    /\ status \in [Jobs -> Status \cup {"absent"}]
    /\ job \in [Jobs -> Columns \cup {None}]
    /\ attempts \in [Jobs -> Nat]
    /\ run_in \in [Jobs -> Int]
    /\ locked_for \in [Jobs -> (0..MaxAge) \cup {None}]
    /\ locked_by \in [Jobs -> Workers \cup {None}]
    /\ pc \in [Workers -> LoopStates]
    /\ sweeper \in [Workers -> BOOLEAN]
    /\ late \subseteq LateMarks
    /\ held \in [Workers -> Claim \cup {None}]
    /\ held_for \in [Workers -> 0..MaxAge]
    /\ calls \in [Producers -> Options \cup {None}]
    /\ answers \in [Queues -> [Keys -> SUBSET Jobs]]
    /\ swept \in SUBSET Jobs

Holds(w, j) == held[w] # None /\ held[w].job = j
Holders(j) == {w \in Workers : Holds(w, j)}
Unheld(j) == \A w \in Workers : ~Holds(w, j)
Unmarked(j) == \A m \in late : m.job # j

\* No attempt of a job is handed out twice and none lies beyond max_attempts,
\* whatever sweeps, crashes, lost replies and late marks come between
\* (claim_one is the only statement that touches attempts, and it always adds 1).
AttemptsHandedOutOnce ==
    /\ \A v, w \in Workers, j \in Jobs :
          Holds(v, j) /\ Holds(w, j) /\ held[v].attempt = held[w].attempt => v = w
    /\ \A w \in Workers, j \in Jobs :
          Holds(w, j) => held[w].attempt \in 1..attempts[j]
    /\ \A j \in Jobs : status[j] # "absent" => attempts[j] <= job[j].max_attempts

\* A running row always carries a lock, so a sweeper can free it, and while it
\* runs the only worker that may hold its latest attempt is the one in
\* locked_by, with a lock exactly as old as that worker's claim.
LockNamesLatestClaim ==
    \A j \in Jobs : status[j] = "running" =>
        /\ locked_for[j] # None /\ locked_by[j] # None
        /\ \A w \in Workers :
              Holds(w, j) /\ held[w].attempt = attempts[j] =>
                  locked_by[j] = w /\ locked_for[j] = held_for[w]

\* As long as no sweeper has taken a row back, at most one worker is in process_claimed
\* for it, and while one is, the row is running or was cancelled under it and no mark of
\* an earlier attempt is on its way: cancellation, failed or late marks and retries alone
\* never put a job in two handlers at once, nor mark it for the wrong one.
SingleHandlerUnlessSwept ==
    \A j \in Jobs \ swept :
        /\ \A v, w \in Workers : Holds(v, j) /\ Holds(w, j) => v = w
        /\ Holders(j) # {} => status[j] \in {"running", "cancelled"} /\ Unmarked(j)

\* A sweeper takes a job away from the worker that is handling its latest attempt only
\* when that claim is older than the stale_after of some worker, less the clock skew.
SweptOnlyWhenStale ==
    \A w \in Workers, j \in Jobs :
        Holds(w, j) /\ held[w].attempt = attempts[j] /\ status[j] = "queued" =>
            \E v \in Workers : held_for[w] + Skew > StaleAfter[v]

Keyed(j, q, k) == status[j] # "absent" /\ job[j].queue = q /\ job[j].key = k

\* All enqueue calls with one queue and key are told the same id, that of the only row
\* with that key: a caller may retry, or race another one, without making a second job.
EnqueueIsIdempotent ==
    \A q \in Queues, k \in Keys :
        /\ \A j \in answers[q][k] : Keyed(j, q, k)
        /\ \A i, j \in Jobs : Keyed(i, q, k) /\ Keyed(j, q, k) => i = j

\* A finished job that no handler still works on, and that no mark_* on the wire names,
\* stays as it is: neither a claim nor a sweep nor a cancel, nor what other workers do,
\* brings a done, dead or cancelled row back.
SettledStaysSettled ==
    [][\A j \in Jobs :
          status[j] \in Terminal /\ Unheld(j) /\ Unmarked(j) => status'[j] = status[j]]_vars

\* job.rs: "`cancelled` and `dead` are terminal"; tests/retry.rs: "a dead job must never
\* be claimed again": such a job is not up for another attempt.
TerminalIsFinal ==
    [][\A j \in Jobs : status[j] \in {"cancelled", "dead"} => status'[j] \in Terminal]_vars

\* README.md, Worker liveness: a swept job "goes back to `queued` and any worker can pick
\* it up again".
SweptJobsAreClaimable ==
    \A j \in swept : status[j] = "queued" => attempts[j] < job[j].max_attempts

\* The refinement mapping: max_attempts is the budget, attempts the last number issued,
\* and the numbers that are out are those in the hands of a process_claimed.
Budget == [j \in Jobs |-> IF status[j] = "absent" THEN None ELSE job[j].max_attempts]
Out == [j \in Jobs |-> {held[w].attempt : w \in Holders(j)}]
Tickets == INSTANCE AttemptTickets WITH budget <- Budget, issued <- attempts, out <- Out

\* The table, its workers and its sweepers implement the delivery promise of
\* AttemptTickets: claim_one issues numbers, and nothing else does.
ImplementsTickets == Tickets!Spec

-----------------------------------------------------------------------------
(* Fairness and liveness                                                    *)

\* A task that stays alive keeps being polled by tokio, handlers return, and a
\* statement that can be carried out is not refused by the database for ever.
Fairness ==
    /\ WF_vars(Tick)
    /\ \A w \in Workers :
          /\ WF_vars(\E j \in Jobs : ClaimOne(w, j))
          /\ WF_vars(Finish(w))
          /\ WF_vars(\E e \in ClockErrors : Sweep(w, e))

FairSpec == Spec /\ Fairness

Serves(w, j) ==
    status[j] # "absent" /\ WorkerQueue[w] = job[j].queue /\ pc[w] \in {"idle", "handling"}

\* No attempt is left and nobody will look at the row again (see SweptJobsAreClaimable).
Exhausted(j) == status[j] \in {"queued", "failed"} /\ attempts[j] >= job[j].max_attempts

\* Another row goes first whenever a worker of its queue asks: claim_one has no aging.
Overtaken(j) ==
    /\ status[j] # "absent" /\ Claimable(job[j].queue, j)
    /\ \E i \in Jobs \ {j} : Claimable(job[j].queue, i) /\ ClaimedBefore(i, j)

\* While a loop of its queue and some sweeper stay up (not the same worker's, and a
\* shutdown() the loop missed leaves it without one), a job is not stuck in queued, running
\* or failed: it comes to be done, dead or cancelled, or out of attempts, however many other
\* workers crash, panic, lose replies or fail to mark it, unless rows that go before it keep
\* it waiting.
JobsGetSettled ==
    \A j \in Jobs :
        /\ \E w \in Workers : <>[]Serves(w, j)
        /\ \E w \in Workers : <>[]SweeperRuns(w)
        => []<>(status[j] \in Terminal \/ Exhausted(j) \/ Overtaken(j))

\* The row of a worker that died is given back: while some sweeper stays up, no row
\* stays running without a worker in process_claimed for it.
AbandonedRowsAreFreed ==
    \A j \in Jobs :
        (\E w \in Workers : <>[]SweeperRuns(w)) =>
            []<>~(status[j] = "running" /\ Unheld(j))
=============================================================================
