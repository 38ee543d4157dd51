--------------------------- MODULE JobQueueProofs ---------------------------
(***************************************************************************)
(* Proofs about JobQueue, for any sets of jobs, workers, producers, queues *)
(* and keys, any options, leases and clock skew.                           *)
(***************************************************************************)
EXTENDS JobQueue, TLAPS

-----------------------------------------------------------------------------
(* The operators                                                            *)

LEMMA MaxAttemptsForType ==
    ASSUME NEW m
    PROVE  MaxAttemptsFor(m) \in 0..I32Max
BY BoundsAssumption DEF MaxAttemptsFor

LEMMA BackoffType ==
    ASSUME NEW n
    PROVE  Backoff(n) \in Nat
BY BoundsAssumption DEF Backoff

LEMMA OlderType ==
    ASSUME NEW age \in 0..MaxAge
    PROVE  Older(age) \in 0..MaxAge /\ Older(age) >= age
BY BoundsAssumption DEF Older

\* What a row's owner sees as an age is never the absence of a lock.
LEMMA NoneIsNoAge == None \notin 0..MaxAge
BY NoneAssumption, BoundsAssumption

-----------------------------------------------------------------------------
(* Type correctness                                                         *)

LEMMA TypeInit == Init => TypeOK
BY BoundsAssumption DEF Init, TypeOK, Status, LoopStates

LEMMA TypeInsert ==
    ASSUME TypeOK, NEW p \in Producers, NEW o \in Options, NEW j \in Jobs, Insert(p, o, j)
    PROVE  TypeOK'
<1>1. o \in [queue : Queues, key : Keys \cup {None}, priority : Int,
             max_attempts : Nat \cup {None}, delay : Int]
  BY OptionsAssumption
<1>2. [queue |-> o.queue, key |-> o.key, priority |-> o.priority,
       max_attempts |-> MaxAttemptsFor(o.max_attempts)] \in Columns
  BY <1>1, MaxAttemptsForType DEF Columns
<1>3. job' \in [Jobs -> Columns \cup {None}]
  BY <1>2 DEF TypeOK, Insert
<1>4. answers' \in [Queues -> [Keys -> SUBSET Jobs]]
  BY <1>1 DEF TypeOK, Insert, Answer
<1>5. run_in' \in [Jobs -> Int]
  BY <1>1, BoundsAssumption DEF TypeOK, Insert
<1> QED
  BY <1>3, <1>4, <1>5 DEF TypeOK, Insert, workerVars, Status, Terminal

LEMMA TypeProduce ==
    ASSUME TypeOK, NEW p \in Producers, Produce(p)
    PROVE  TypeOK'
<1>1. ASSUME NEW o \in Options, InsertConflicts(p, o) PROVE TypeOK'
  BY <1>1 DEF TypeOK, InsertConflicts, rowVars, workerVars
<1>2. CASE SelectExisting(p)
  <2>1. PICK j \in Conflicting(calls[p]) : Answer(calls[p], j)
    BY <1>2 DEF SelectExisting
  <2>2. calls[p] \in Options /\ j \in Jobs
    BY <1>2 DEF SelectExisting, TypeOK, Conflicting
  <2>3. calls[p].queue \in Queues /\ calls[p].key \in Keys \cup {None}
    BY <2>2, OptionsAssumption
  <2>4. answers' \in [Queues -> [Keys -> SUBSET Jobs]]
    BY <2>1, <2>2, <2>3 DEF Answer, TypeOK
  <2> QED
    BY <1>2, <2>4 DEF TypeOK, SelectExisting, rowVars, workerVars
<1>3. CASE SelectFails(p)
  BY <1>3 DEF TypeOK, SelectFails, rowVars, workerVars
<1> QED
  BY <1>1, <1>2, <1>3, TypeInsert DEF Produce

LEMMA TypeClaim ==
    ASSUME TypeOK, NEW w \in Workers, NEW j \in Jobs,
           ClaimOne(w, j) \/ ClaimReplyLost(w, j)
    PROVE  TypeOK'
<1>1. ClaimRow(w, j)
  BY DEF ClaimOne, ClaimReplyLost
<1>2. /\ status' \in [Jobs -> Status \cup {"absent"}]
      /\ attempts' \in [Jobs -> Nat]
      /\ locked_for' \in [Jobs -> (0..MaxAge) \cup {None}]
      /\ locked_by' \in [Jobs -> Workers \cup {None}]
  BY <1>1, BoundsAssumption DEF ClaimRow, LockRow, TypeOK, Status
<1>3. /\ pc' \in [Workers -> LoopStates]
      /\ held' \in [Workers -> Claim \cup {None}]
      /\ held_for' \in [Workers -> 0..MaxAge]
      /\ sweeper' = sweeper /\ late' = late
  <2>1. [job |-> j, attempt |-> attempts[j] + 1] \in Claim
    BY DEF TypeOK, Claim
  <2>2. CASE ClaimOne(w, j)
    BY <2>1, <2>2, BoundsAssumption DEF ClaimOne, TypeOK, LoopStates
  <2>3. CASE ClaimReplyLost(w, j)
    BY <2>3 DEF ClaimReplyLost, workerVars, TypeOK
  <2> QED
    BY <2>2, <2>3
<1> QED
  BY <1>1, <1>2, <1>3 DEF TypeOK, ClaimRow, producerVars

LEMMA TypeRelease ==
    ASSUME TypeOK, NEW w \in Workers, NEW s \in LoopStates, Release(w, s)
    PROVE  /\ pc' \in [Workers -> LoopStates]
           /\ held' \in [Workers -> Claim \cup {None}]
           /\ held_for' \in [Workers -> 0..MaxAge]
           /\ sweeper' = sweeper
BY BoundsAssumption DEF TypeOK, Release

\* What stays on the wire is the mark of the claim that was held.
LEMMA TypeLeaveMark ==
    ASSUME TypeOK, NEW w \in Workers, LeaveMark(w)
    PROVE  /\ late' \subseteq LateMarks
           /\ late' = late \/ \E m \in LateMarks : Holds(w, m.job) /\ late' = late \cup {m}
<1>1. ASSUME held[w] # None, NEW m \in MarksOf(w)
      PROVE  m \in LateMarks /\ Holds(w, m.job)
  BY <1>1 DEF TypeOK, Claim, MarksOf, LateMarks, Holds
<1> QED
  BY <1>1 DEF LeaveMark, TypeOK

LEMMA TypeMark ==
    ASSUME TypeOK, NEW j, NEW s \in Status, Mark(j, s)
    PROVE  /\ status' \in [Jobs -> Status \cup {"absent"}]
           /\ locked_for' \in [Jobs -> (0..MaxAge) \cup {None}]
           /\ locked_by' \in [Jobs -> Workers \cup {None}]
           /\ UNCHANGED <<job, attempts, calls, answers, swept>>
BY DEF TypeOK, Mark, producerVars

LEMMA TypeFinish ==
    ASSUME TypeOK, NEW w \in Workers, Finish(w) \/ HandlerPanics(w)
    PROVE  TypeOK'
<1>1. CASE HandleOk(w)
  BY <1>1, TypeRelease, TypeMark DEF HandleOk, mark_done, TypeOK, Status, Terminal, LoopStates
<1>2. CASE HandlePermanent(w)
  BY <1>2, TypeRelease, TypeMark
     DEF HandlePermanent, mark_dead, TypeOK, Status, Terminal, LoopStates
<1>3. CASE HandleRetriable(w)
  <2>1. CASE mark_dead(held[w].job)
    BY <1>3, <2>1, TypeRelease, TypeMark
       DEF HandleRetriable, mark_dead, TypeOK, Status, Terminal, LoopStates
  <2>2. ASSUME NEW e \in ClockErrors,
               mark_failed_for_retry(held[w].job, RunIn(Backoff(held[w].attempt), e))
        PROVE  TypeOK'
    <3>1. RunIn(Backoff(held[w].attempt), e) \in Int
      BY BackoffType, BoundsAssumption DEF RunIn, ClockErrors
    <3>2. run_in' \in [Jobs -> Int]
      BY <2>2, <3>1 DEF mark_failed_for_retry, TypeOK
    <3> QED
      BY <1>3, <2>2, <3>2, TypeRelease, TypeMark
         DEF HandleRetriable, mark_failed_for_retry, TypeOK, Status, LoopStates
  <2> QED
    BY <1>3, <2>1, <2>2 DEF HandleRetriable, retry_or_bury
<1>4. CASE MarkFails(w)
  BY <1>4, TypeRelease, TypeLeaveMark DEF MarkFails, rowVars, producerVars, TypeOK, LoopStates
<1>5. CASE HandlerPanics(w)
  BY <1>5, TypeRelease DEF HandlerPanics, rowVars, producerVars, TypeOK, LoopStates
<1> QED
  BY <1>1, <1>2, <1>3, <1>4, <1>5 DEF Finish

LEMMA TypeLateMark ==
    ASSUME TypeOK, NEW m \in late, LateMark(m)
    PROVE  TypeOK'
<1>1. m \in LateMarks
  BY DEF TypeOK
<1>2. run_in' \in [Jobs -> Int]
  <2>1. ASSUME NEW r \in -RunFloor .. RunIn(Backoff(m.attempt), Skew) PROVE r \in Int
    BY BackoffType, BoundsAssumption DEF RunIn
  <2> QED
    BY <2>1 DEF LateMark, TypeOK
<1> QED
  BY <1>1, <1>2, TypeMark DEF LateMark, LateMarks, TypeOK, Status, Terminal

LEMMA TypeTick ==
    ASSUME TypeOK, Tick
    PROVE  TypeOK'
<1>1. locked_for' \in [Jobs -> (0..MaxAge) \cup {None}]
  BY OlderType DEF Tick, TypeOK
<1>2. held_for' \in [Workers -> 0..MaxAge]
  BY OlderType DEF Tick, TypeOK
<1>3. run_in' \in [Jobs -> Int]
  BY DEF Tick, TypeOK
<1> QED
  BY <1>1, <1>2, <1>3 DEF Tick, TypeOK, producerVars

LEMMA TypeSweep ==
    ASSUME TypeOK, NEW w \in Workers, NEW e \in ClockErrors, Sweep(w, e)
    PROVE  TypeOK'
<1>1. Stale(w, e) \subseteq Jobs
  BY DEF Stale
<1> QED
  BY <1>1 DEF Sweep, TypeOK, Status, workerVars, producerVars

\* The steps of a worker's life that touch neither rows nor claims.
Lifecycle(w) ==
    \/ Spawn(w) \/ SweeperAborted(w)
    \/ \E heard \in SUBSET {"loop", "sweeper"} : Shutdown(w, heard)

LEMMA TypeNext == TypeOK /\ [Next]_vars => TypeOK'
<1> SUFFICES ASSUME TypeOK, [Next]_vars PROVE TypeOK'
  OBVIOUS
<1>1. ASSUME NEW q \in Queues, NEW j \in Jobs, Cancel(q, j) PROVE TypeOK'
  BY <1>1 DEF Cancel, TypeOK, Status, Terminal, workerVars, producerVars
<1>2. ASSUME NEW w \in Workers, Lifecycle(w) \/ Abort(w) PROVE TypeOK'
  <2>1. CASE Spawn(w) \/ SweeperAborted(w)
    BY <2>1 DEF Spawn, SweeperAborted, TypeOK, LoopStates, rowVars, producerVars
  <2>2. ASSUME NEW heard, Shutdown(w, heard) PROVE TypeOK'
    BY <2>2 DEF Shutdown, TypeOK, LoopStates, rowVars, producerVars
  <2>3. CASE Abort(w)
    BY <2>3, TypeLeaveMark, BoundsAssumption
       DEF Abort, TypeOK, LoopStates, rowVars, producerVars
  <2> QED
    BY <1>2, <2>1, <2>2, <2>3 DEF Lifecycle
<1>3. CASE UNCHANGED vars
  BY <1>3 DEF vars, TypeOK
<1> QED
  BY <1>1, <1>2, <1>3, TypeProduce, TypeClaim, TypeFinish, TypeLateMark, TypeSweep, TypeTick
     DEF Next, Work, Lifecycle

\* The columns of the table and the variables of the tasks keep their types under every
\* statement of queue.rs and worker.rs; in particular max_attempts fits its INTEGER column.
THEOREM TypeCorrect == Spec => []TypeOK
BY TypeInit, TypeNext, PTL DEF Spec

-----------------------------------------------------------------------------
(* The inductive invariant                                                  *)

\* A row has its columns and its first attempts only once it is inserted, and a worker
\* works on an attempt of it only while it is in process_claimed.
RowsAndClaims ==
    /\ \A j \in Jobs : IF status[j] = "absent" THEN attempts[j] = 0
                        ELSE job[j] \in Columns /\ attempts[j] <= job[j].max_attempts
    /\ \A w \in Workers : held[w] # None <=> pc[w] = "handling"

\* A mark on the wire is of a row that exists, and until a sweeper takes the row back it is
\* the only one and finds the row as its handler left it.
MarksOnTheWire ==
    \A m \in late :
        /\ status[m.job] # "absent"
        /\ m.job \notin swept =>
              /\ status[m.job] \in {"running", "cancelled"}
              /\ \A n \in late : n.job = m.job => n = m

\* TypeOK and the safety invariants are inductive together with RowsAndClaims and
\* MarksOnTheWire.
IInv ==
    /\ TypeOK
    /\ RowsAndClaims
    /\ MarksOnTheWire
    /\ AttemptsHandedOutOnce
    /\ LockNamesLatestClaim
    /\ SingleHandlerUnlessSwept
    /\ SweptOnlyWhenStale
    /\ EnqueueIsIdempotent

LEMMA InvInit == Init => IInv
<1> SUFFICES ASSUME Init PROVE IInv
  OBVIOUS
<1>1. TypeOK
  BY TypeInit
<1>2. RowsAndClaims /\ MarksOnTheWire
  BY DEF Init, RowsAndClaims, MarksOnTheWire
<1>3. AttemptsHandedOutOnce
  BY DEF Init, AttemptsHandedOutOnce, Holds
<1>4. LockNamesLatestClaim
  BY DEF Init, LockNamesLatestClaim
<1>5. SingleHandlerUnlessSwept /\ SweptOnlyWhenStale
  BY DEF Init, SingleHandlerUnlessSwept, SweptOnlyWhenStale, Holds, Holders
<1>6. EnqueueIsIdempotent
  BY DEF Init, EnqueueIsIdempotent, Keyed
<1> QED
  BY <1>1, <1>2, <1>3, <1>4, <1>5, <1>6 DEF IInv

\* A row that was never inserted is in nobody's hands.
LEMMA AbsentIsUnheld ==
    ASSUME TypeOK, RowsAndClaims, AttemptsHandedOutOnce,
           NEW j \in Jobs, status[j] = "absent"
    PROVE  Unheld(j)
BY DEF TypeOK, RowsAndClaims, AttemptsHandedOutOnce, Unheld

\* A claim that a worker holds names a job of the table.
LEMMA HeldType ==
    ASSUME TypeOK, NEW w \in Workers, held[w] # None
    PROVE  held[w].job \in Jobs /\ held[w].attempt \in Nat /\ Holds(w, held[w].job)
BY DEF TypeOK, Claim, Holds

-----------------------------------------------------------------------------
(* Steps of producers                                                       *)

LEMMA InvInsert ==
    ASSUME IInv, TypeOK', NEW p \in Producers, NEW o \in Options, NEW j \in Jobs,
           Insert(p, o, j)
    PROVE  IInv'
<1>0. /\ o.queue \in Queues /\ o.key \in Keys \cup {None} /\ None \notin Keys
  BY OptionsAssumption, NoneAssumption
<1>1. /\ status[j] = "absent" /\ attempts[j] = 0 /\ Unheld(j)
      /\ \A w \in Workers, i \in Jobs : Holds(w, i)' <=> Holds(w, i)
      /\ \A w \in Workers : held'[w] = held[w] /\ held_for'[w] = held_for[w] /\ pc'[w] = pc[w]
      /\ \A i \in Jobs : attempts'[i] = attempts[i]
      /\ \A i \in Jobs : locked_for'[i] = locked_for[i] /\ locked_by'[i] = locked_by[i]
      /\ swept' = swept /\ late' = late
      /\ \A i \in Jobs : i # j => status'[i] = status[i] /\ job'[i] = job[i]
      /\ status'[j] = "queued"
      /\ job'[j] = [queue |-> o.queue, key |-> o.key, priority |-> o.priority,
                    max_attempts |-> MaxAttemptsFor(o.max_attempts)]
      /\ job'[j] \in Columns
  <2>1. status[j] = "absent"
    BY DEF Insert
  <2>2. [queue |-> o.queue, key |-> o.key, priority |-> o.priority,
         max_attempts |-> MaxAttemptsFor(o.max_attempts)] \in Columns
    BY MaxAttemptsForType, OptionsAssumption DEF Columns
  <2> QED
    BY <2>1, <2>2, AbsentIsUnheld DEF Insert, workerVars, Holds, IInv, TypeOK, RowsAndClaims
<1>2. RowsAndClaims'
  BY <1>1 DEF IInv, TypeOK, RowsAndClaims, Columns
<1>2a. MarksOnTheWire'
  BY <1>1 DEF IInv, TypeOK, MarksOnTheWire, LateMarks
<1>3. AttemptsHandedOutOnce'
  <2>1. attempts'[j] <= job'[j].max_attempts
    BY <1>1, BoundsAssumption DEF Columns
  <2> QED
    BY <1>1, <2>1 DEF IInv, AttemptsHandedOutOnce
<1>4. LockNamesLatestClaim'
  BY <1>1 DEF IInv, LockNamesLatestClaim
<1>5. SingleHandlerUnlessSwept' /\ SweptOnlyWhenStale'
  BY <1>1 DEF IInv, SingleHandlerUnlessSwept, SweptOnlyWhenStale, Holders, Unheld, Unmarked
<1>6. EnqueueIsIdempotent'
  <2>1. ASSUME NEW q \in Queues, NEW k \in Keys, NEW i \in Jobs
        PROVE  Keyed(i, q, k)' <=> Keyed(i, q, k) \/ (i = j /\ q = o.queue /\ k = o.key)
    BY <1>1 DEF Keyed
  <2>2. ASSUME NEW i \in Jobs, o.key # None
        PROVE  ~Keyed(i, o.queue, o.key)
    BY <2>2 DEF Insert, Conflicting, Keyed
  <2>3. ASSUME NEW q \in Queues, NEW k \in Keys, NEW i \in answers'[q][k]
        PROVE  i \in Jobs /\ (i \in answers[q][k] \/ (i = j /\ q = o.queue /\ k = o.key))
    BY <1>0, <2>3 DEF Insert, Answer, IInv, TypeOK
  <2>4. ASSUME NEW q \in Queues, NEW k \in Keys, NEW i \in answers'[q][k]
        PROVE  Keyed(i, q, k)'
    <3>1. i \in answers[q][k] => Keyed(i, q, k)
      BY DEF IInv, EnqueueIsIdempotent
    <3> QED
      BY <2>1, <2>3, <3>1
  <2>5. ASSUME NEW q \in Queues, NEW k \in Keys, NEW h \in Jobs, NEW i \in Jobs,
               Keyed(h, q, k)', Keyed(i, q, k)'
        PROVE  h = i
    <3>1. Keyed(h, q, k) /\ Keyed(i, q, k) => h = i
      BY DEF IInv, EnqueueIsIdempotent
    <3>2. k # None
      BY <1>0
    <3> QED
      BY <2>1, <2>2, <2>5, <3>1, <3>2
  <2> QED
    BY <2>4, <2>5 DEF EnqueueIsIdempotent
<1> QED
  BY <1>2, <1>2a, <1>3, <1>4, <1>5, <1>6 DEF IInv

\* A step that changes neither rows nor claims disturbs only what is said of the answers.
LEMMA InvRowsAndClaimsUnchanged ==
    ASSUME IInv, TypeOK', rowVars' = rowVars, workerVars' = workerVars, swept' = swept,
           EnqueueIsIdempotent'
    PROVE  IInv'
<1>1. /\ status' = status /\ job' = job /\ attempts' = attempts /\ locked_for' = locked_for
      /\ locked_by' = locked_by /\ pc' = pc /\ held' = held /\ held_for' = held_for
      /\ late' = late
  BY DEF rowVars, workerVars
<1> QED
  BY <1>1 DEF IInv, RowsAndClaims, MarksOnTheWire, AttemptsHandedOutOnce, LockNamesLatestClaim,
     SingleHandlerUnlessSwept, SweptOnlyWhenStale, Holders, Holds, Unmarked

LEMMA InvProduce ==
    ASSUME IInv, TypeOK', NEW p \in Producers, Produce(p)
    PROVE  IInv'
<1>1. ASSUME NEW o \in Options, InsertConflicts(p, o) PROVE IInv'
  <2>1. EnqueueIsIdempotent'
    BY <1>1 DEF IInv, EnqueueIsIdempotent, Keyed, InsertConflicts, rowVars
  <2> QED
    BY <1>1, <2>1, InvRowsAndClaimsUnchanged DEF InsertConflicts
<1>2. CASE SelectExisting(p)
  <2>1. PICK j \in Conflicting(calls[p]) : Answer(calls[p], j)
    BY <1>2 DEF SelectExisting
  <2>2. /\ calls[p].queue \in Queues /\ calls[p].key \in Keys
        /\ j \in Jobs /\ status[j] # "absent"
        /\ job[j].queue = calls[p].queue /\ job[j].key = calls[p].key
    BY <1>2, OptionsAssumption DEF SelectExisting, IInv, TypeOK, Conflicting
  <2>3. ASSUME NEW q \in Queues, NEW k \in Keys, NEW i \in answers'[q][k]
        PROVE  i \in answers[q][k] \/ (i = j /\ q = calls[p].queue /\ k = calls[p].key)
    BY <2>1, <2>2, <2>3, NoneAssumption DEF Answer, IInv, TypeOK
  <2>4. \A i \in Jobs, q \in Queues, k \in Keys : Keyed(i, q, k)' <=> Keyed(i, q, k)
    BY <1>2 DEF SelectExisting, rowVars, Keyed
  <2>5. ASSUME NEW q \in Queues, NEW k \in Keys, NEW i \in answers'[q][k]
        PROVE  Keyed(i, q, k)'
    <3>1. i \in Jobs
      BY <2>5 DEF TypeOK
    <3>2. Keyed(i, q, k)
      BY <2>2, <2>3 DEF IInv, EnqueueIsIdempotent, Keyed
    <3> QED
      BY <2>4, <3>1, <3>2
  <2>6. EnqueueIsIdempotent'
    BY <2>4, <2>5 DEF IInv, EnqueueIsIdempotent
  <2> QED
    BY <1>2, <2>6, InvRowsAndClaimsUnchanged DEF SelectExisting
<1>3. CASE SelectFails(p)
  <2>1. EnqueueIsIdempotent'
    BY <1>3 DEF IInv, EnqueueIsIdempotent, Keyed, SelectFails, rowVars
  <2> QED
    BY <1>3, <2>1, InvRowsAndClaimsUnchanged DEF SelectFails
<1> QED
  BY <1>1, <1>2, <1>3, InvInsert DEF Produce

\* What is said of the answers survives any step that changes neither them nor the keys.
LEMMA IdempotentUnchanged ==
    ASSUME TypeOK, EnqueueIsIdempotent, answers' = answers,
           \A i \in Jobs, q \in Queues, k \in Keys : Keyed(i, q, k)' <=> Keyed(i, q, k)
    PROVE  EnqueueIsIdempotent'
<1>1. \A q \in Queues, k \in Keys : answers[q][k] \subseteq Jobs
  BY DEF TypeOK
<1> QED
  BY <1>1 DEF EnqueueIsIdempotent

LEMMA InvCancel ==
    ASSUME IInv, TypeOK', NEW q \in Queues, NEW j \in Jobs, Cancel(q, j)
    PROVE  IInv'
<1>1. /\ \A i \in Jobs : i # j => status'[i] = status[i]
      /\ status[j] # "absent" /\ status'[j] = "cancelled"
      /\ job' = job /\ attempts' = attempts /\ locked_for' = locked_for
      /\ locked_by' = locked_by /\ pc' = pc /\ held' = held /\ held_for' = held_for
      /\ answers' = answers /\ swept' = swept /\ late' = late
  BY DEF Cancel, IInv, TypeOK, Status, Terminal, workerVars, producerVars
<1>2. RowsAndClaims' /\ AttemptsHandedOutOnce'
  BY <1>1 DEF IInv, RowsAndClaims, AttemptsHandedOutOnce, Holds
<1>2a. MarksOnTheWire'
  BY <1>1 DEF IInv, TypeOK, MarksOnTheWire, LateMarks
<1>3. LockNamesLatestClaim'
  BY <1>1 DEF IInv, LockNamesLatestClaim, Holds
<1>4. SingleHandlerUnlessSwept' /\ SweptOnlyWhenStale'
  BY <1>1 DEF IInv, SingleHandlerUnlessSwept, SweptOnlyWhenStale, Holders, Holds, Unmarked
<1>5. EnqueueIsIdempotent'
  <2>1. \A i \in Jobs, r \in Queues, k \in Keys : Keyed(i, r, k)' <=> Keyed(i, r, k)
    BY <1>1 DEF Keyed
  <2> QED
    BY <1>1, <2>1, IdempotentUnchanged DEF IInv
<1> QED
  BY <1>2, <1>2a, <1>3, <1>4, <1>5 DEF IInv

-----------------------------------------------------------------------------
(* Steps of worker loops                                                    *)

\* The new attempt number is beyond every number that is held.
LEMMA InvClaim ==
    ASSUME IInv, TypeOK', NEW w \in Workers, NEW j \in Jobs,
           ClaimOne(w, j) \/ ClaimReplyLost(w, j)
    PROVE  IInv'
<1>1. /\ pc[w] = "idle" /\ held[w] = None
      /\ status[j] \in {"queued", "failed"} /\ attempts[j] < job[j].max_attempts
      /\ \A i \in Jobs : i # j => /\ status'[i] = status[i] /\ attempts'[i] = attempts[i]
                                  /\ locked_for'[i] = locked_for[i]
                                  /\ locked_by'[i] = locked_by[i]
      /\ status'[j] = "running" /\ attempts'[j] = attempts[j] + 1
      /\ locked_for'[j] = 0 /\ locked_by'[j] = w
      /\ job' = job /\ answers' = answers /\ swept' = swept /\ late' = late
  BY DEF ClaimOne, ClaimReplyLost, ClaimRow, Claimable, LockRow, IInv, TypeOK, RowsAndClaims,
         producerVars, workerVars
<1>2. \A v \in Workers : v # w => held'[v] = held[v] /\ held_for'[v] = held_for[v]
  BY DEF ClaimOne, ClaimReplyLost, workerVars, IInv, TypeOK
<1>3. \/ held'[w] = None
      \/ held'[w] = [job |-> j, attempt |-> attempts[j] + 1] /\ held_for'[w] = 0
  BY <1>1 DEF ClaimOne, ClaimReplyLost, workerVars, IInv, TypeOK
<1>4. /\ \A v \in Workers, i \in Jobs : v # w => (Holds(v, i)' <=> Holds(v, i))
      /\ \A i \in Jobs : i # j => ~Holds(w, i)'
      /\ Holds(w, j)' => held'[w].attempt = attempts[j] + 1 /\ held_for'[w] = 0
  BY <1>2, <1>3 DEF Holds
<1>5. /\ attempts[j] \in Nat
      /\ \A v \in Workers : Holds(v, j) => held[v].attempt \in 1..attempts[j]
  BY DEF IInv, TypeOK, AttemptsHandedOutOnce
<1>6. RowsAndClaims'
  <2>1. \A v \in Workers : held'[v] # None <=> pc'[v] = "handling"
    <3>1. CASE ClaimOne(w, j)
      <4>1. [job |-> j, attempt |-> attempts[j] + 1] # None
        BY NoneAssumption DEF IInv, TypeOK
      <4> QED
        BY <3>1, <4>1 DEF ClaimOne, IInv, TypeOK, RowsAndClaims
    <3>2. CASE ClaimReplyLost(w, j)
      BY <3>2 DEF ClaimReplyLost, workerVars, IInv, RowsAndClaims
    <3> QED
      BY <3>1, <3>2
  <2>2. job[j] \in Columns /\ attempts'[j] <= job[j].max_attempts
    BY <1>1, <1>5 DEF IInv, RowsAndClaims, Columns
  <2> QED
    BY <1>1, <2>1, <2>2 DEF IInv, RowsAndClaims
<1>6a. MarksOnTheWire' /\ (j \notin swept => Unmarked(j))
  BY <1>1 DEF IInv, TypeOK, MarksOnTheWire, LateMarks, Unmarked
<1>7. AttemptsHandedOutOnce'
  <2>1. ASSUME NEW u \in Workers, NEW v \in Workers, NEW i \in Jobs,
               Holds(u, i)', Holds(v, i)', held'[u].attempt = held'[v].attempt
        PROVE  u = v
    BY <1>2, <1>4, <1>5, <2>1 DEF IInv, AttemptsHandedOutOnce
  <2>2. ASSUME NEW v \in Workers, NEW i \in Jobs, Holds(v, i)'
        PROVE  held'[v].attempt \in 1..attempts'[i]
    BY <1>1, <1>2, <1>4, <1>5, <2>2 DEF IInv, AttemptsHandedOutOnce
  <2>3. \A i \in Jobs : status'[i] # "absent" => attempts'[i] <= job'[i].max_attempts
    BY <1>1, <1>5, <1>6 DEF RowsAndClaims
  <2> QED
    BY <2>1, <2>2, <2>3 DEF AttemptsHandedOutOnce
<1>8. LockNamesLatestClaim'
  <2>1. ASSUME NEW v \in Workers, Holds(v, j)', held'[v].attempt = attempts'[j]
        PROVE  v = w /\ held_for'[v] = 0
    BY <1>1, <1>2, <1>4, <1>5, <2>1
  <2>2. /\ locked_for'[j] # None /\ locked_by'[j] # None
    BY <1>1, NoneAssumption
  <2>3. ASSUME NEW i \in Jobs, i # j, status'[i] = "running"
        PROVE  /\ locked_for'[i] # None /\ locked_by'[i] # None
               /\ \A v \in Workers : Holds(v, i)' /\ held'[v].attempt = attempts'[i] =>
                     locked_by'[i] = v /\ locked_for'[i] = held_for'[v]
    BY <1>1, <1>2, <1>4, <2>3 DEF IInv, LockNamesLatestClaim
  <2> QED
    BY <1>1, <2>1, <2>2, <2>3 DEF LockNamesLatestClaim
<1>9. SingleHandlerUnlessSwept' /\ SweptOnlyWhenStale'
  <2>1. j \notin swept => \A v \in Workers : ~Holds(v, j)
    BY <1>1 DEF IInv, SingleHandlerUnlessSwept, Holders
  <2>2. SingleHandlerUnlessSwept'
    BY <1>1, <1>4, <1>6a, <2>1 DEF IInv, SingleHandlerUnlessSwept, Holders, Unmarked
  <2>3. SweptOnlyWhenStale'
    BY <1>1, <1>2, <1>4 DEF IInv, SweptOnlyWhenStale
  <2> QED
    BY <2>2, <2>3
<1>10. EnqueueIsIdempotent'
  <2>1. \A i \in Jobs, q \in Queues, k \in Keys : Keyed(i, q, k)' <=> Keyed(i, q, k)
    BY <1>1 DEF Keyed
  <2> QED
    BY <1>1, <2>1, IdempotentUnchanged DEF IInv
<1> QED
  BY <1>6, <1>6a, <1>7, <1>8, <1>9, <1>10 DEF IInv

\* Worker w lets go of what it holds, and the row it held gets a status other than running
\* and queued, or is left alone, perhaps with its mark on the wire: what Finish, a panic and
\* an abort have in common.
LetGo(w, state) ==
    /\ pc' = [pc EXCEPT ![w] = state]
    /\ held' = [held EXCEPT ![w] = None]
    /\ held_for' = [held_for EXCEPT ![w] = 0]
    /\ \A i \in Jobs :
          \/ /\ status'[i] = status[i] /\ locked_for'[i] = locked_for[i]
             /\ locked_by'[i] = locked_by[i]
          \/ Holds(w, i) /\ status'[i] \in {"done", "dead", "failed"} /\ late' = late
    /\ \/ late' = late
       \/ \E m \in LateMarks : Holds(w, m.job) /\ late' = late \cup {m}
    /\ job' = job /\ attempts' = attempts /\ answers' = answers /\ swept' = swept

LEMMA InvLetGo ==
    ASSUME IInv, TypeOK', NEW w \in Workers, NEW s \in LoopStates \ {"handling"}, LetGo(w, s)
    PROVE  IInv'
<1>1. /\ held'[w] = None /\ pc'[w] # "handling"
      /\ \A v \in Workers : v # w => /\ held'[v] = held[v] /\ held_for'[v] = held_for[v]
                                     /\ pc'[v] = pc[v]
  BY DEF LetGo, IInv, TypeOK
<1>2. \A v \in Workers, i \in Jobs : Holds(v, i)' <=> Holds(v, i) /\ v # w
  BY <1>1 DEF Holds
<1>3. \A i \in Jobs : /\ status'[i] = "absent" <=> status[i] = "absent"
                      /\ status'[i] \in {"running", "queued"} =>
                            /\ status'[i] = status[i] /\ locked_for'[i] = locked_for[i]
                            /\ locked_by'[i] = locked_by[i]
  BY AbsentIsUnheld DEF LetGo, IInv, Unheld
<1>4. RowsAndClaims'
  BY <1>1, <1>3 DEF LetGo, IInv, RowsAndClaims
<1>5. AttemptsHandedOutOnce'
  BY <1>1, <1>2, <1>3 DEF LetGo, IInv, AttemptsHandedOutOnce
<1>6. LockNamesLatestClaim'
  BY <1>1, <1>2, <1>3 DEF LetGo, IInv, LockNamesLatestClaim
<1>7. SingleHandlerUnlessSwept'
  <2>1. ASSUME NEW i \in Jobs \ swept, NEW v \in Workers, Holds(v, i)'
        PROVE  status'[i] = status[i] /\ Unmarked(i)'
    <3>1. Holds(v, i) /\ ~Holds(w, i) /\ Unmarked(i)
      BY <1>2, <2>1 DEF IInv, SingleHandlerUnlessSwept, Holders
    <3> QED
      BY <3>1 DEF LetGo, Unmarked
  <2> QED
    BY <1>2, <2>1 DEF LetGo, IInv, SingleHandlerUnlessSwept, Holders
<1>7a. MarksOnTheWire'
  <2>1. late' \subseteq LateMarks /\ late \subseteq LateMarks
    BY DEF IInv, TypeOK
  <2>2. ASSUME NEW i \in Jobs \ swept, Holds(w, i)
        PROVE  Unmarked(i) /\ status[i] \in {"running", "cancelled"}
    BY <2>2 DEF IInv, SingleHandlerUnlessSwept, Holders
  <2>3. ASSUME NEW m \in late'
        PROVE  status'[m.job] # "absent"
    <3>1. m.job \in Jobs
      BY <2>1, <2>3 DEF LateMarks
    <3>2. m \in late \/ Holds(w, m.job)
      BY <2>3 DEF LetGo
    <3>3. status[m.job] # "absent"
      BY <3>1, <3>2, AbsentIsUnheld DEF IInv, MarksOnTheWire, Unheld
    <3> QED
      BY <1>3, <3>1, <3>3
  <2>4. ASSUME NEW m \in late', m.job \notin swept'
        PROVE  /\ status'[m.job] \in {"running", "cancelled"}
               /\ \A n \in late' : n.job = m.job => n = m
    <3>1. m.job \in Jobs \ swept
      BY <2>1, <2>4 DEF LateMarks, LetGo
    <3>2. CASE late' = late
      BY <2>2, <2>4, <3>1, <3>2 DEF LetGo, IInv, MarksOnTheWire, Unmarked
    <3>3. CASE late' # late
      <4>1. PICK l \in LateMarks : Holds(w, l.job) /\ late' = late \cup {l}
        BY <3>3 DEF LetGo
      <4>2. status'[m.job] = status[m.job]
        BY <3>1, <3>3 DEF LetGo
      <4> QED
        BY <2>2, <2>4, <3>1, <4>1, <4>2 DEF IInv, MarksOnTheWire, Unmarked
    <3> QED
      BY <3>2, <3>3
  <2> QED
    BY <2>3, <2>4 DEF MarksOnTheWire
<1>8. SweptOnlyWhenStale'
  BY <1>1, <1>2, <1>3 DEF LetGo, IInv, SweptOnlyWhenStale
<1>9. EnqueueIsIdempotent'
  <2>1. \A i \in Jobs, q \in Queues, k \in Keys : Keyed(i, q, k)' <=> Keyed(i, q, k)
    BY <1>3 DEF LetGo, Keyed
  <2> QED
    BY <2>1, IdempotentUnchanged DEF LetGo, IInv
<1> QED
  BY <1>4, <1>5, <1>6, <1>7, <1>7a, <1>8, <1>9 DEF IInv

LEMMA FinishLetsGo ==
    ASSUME IInv, NEW w \in Workers, Finish(w) \/ HandlerPanics(w) \/ Abort(w)
    PROVE  \E s \in LoopStates \ {"handling"} : LetGo(w, s)
<1>1. ASSUME NEW s \in {"done", "dead", "failed"}, Release(w, "idle"), Mark(held[w].job, s),
             UNCHANGED late
      PROVE  LetGo(w, "idle")
  <2>1. held[w] # None
    BY <1>1 DEF Release, IInv, RowsAndClaims
  <2>2. held[w].job \in Jobs /\ Holds(w, held[w].job)
    BY <2>1, HeldType DEF IInv
  <2> QED
    BY <1>1, <2>2 DEF Release, Mark, LetGo, IInv, TypeOK, producerVars
<1>2. CASE HandleOk(w)
  BY <1>1, <1>2 DEF HandleOk, mark_done, LoopStates
<1>3. CASE HandlePermanent(w)
  BY <1>1, <1>3 DEF HandlePermanent, mark_dead, LoopStates
<1>4. CASE HandleRetriable(w)
  BY <1>1, <1>4
     DEF HandleRetriable, retry_or_bury, mark_dead, mark_failed_for_retry, LoopStates
<1>5. CASE MarkFails(w)
  <2>1. LetGo(w, "idle")
    BY <1>5, TypeLeaveMark DEF MarkFails, Release, LetGo, IInv, rowVars, producerVars
  <2> QED
    BY <2>1 DEF LoopStates
<1>6. CASE HandlerPanics(w)
  <2>1. LetGo(w, "gone")
    BY <1>6 DEF HandlerPanics, Release, LetGo, rowVars, producerVars
  <2> QED
    BY <2>1 DEF LoopStates
<1>7. CASE Abort(w)
  <2>1. LetGo(w, "gone")
    BY <1>7, TypeLeaveMark DEF Abort, LetGo, IInv, rowVars, producerVars
  <2> QED
    BY <2>1 DEF LoopStates
<1> QED
  BY <1>2, <1>3, <1>4, <1>5, <1>6, <1>7 DEF Finish

LEMMA InvFinish ==
    ASSUME IInv, TypeOK', NEW w \in Workers, Finish(w) \/ HandlerPanics(w) \/ Abort(w)
    PROVE  IInv'
BY FinishLetsGo, InvLetGo

LEMMA InvLifecycle ==
    ASSUME IInv, TypeOK', NEW w \in Workers, Lifecycle(w)
    PROVE  IInv'
<1>1. /\ rowVars' = rowVars /\ held' = held /\ held_for' = held_for /\ swept' = swept
      /\ answers' = answers /\ late' = late
      /\ \A v \in Workers : pc'[v] = "handling" <=> pc[v] = "handling"
  <2>1. CASE Spawn(w)
    BY <2>1 DEF Spawn, IInv, TypeOK, producerVars
  <2>2. CASE SweeperAborted(w)
    BY <2>2 DEF SweeperAborted, producerVars
  <2>3. ASSUME NEW heard, Shutdown(w, heard)
        PROVE  /\ UNCHANGED <<rowVars, held, held_for, swept, answers, late>>
               /\ \A v \in Workers : pc'[v] = "handling" <=> pc[v] = "handling"
    <3>1. pc' = pc \/ (pc[w] = "idle" /\ pc' = [pc EXCEPT ![w] = "gone"])
      BY <2>3 DEF Shutdown
    <3> QED
      BY <2>3, <3>1 DEF Shutdown, IInv, TypeOK, producerVars
  <2> QED
    BY <2>1, <2>2, <2>3 DEF Lifecycle
<1>2. RowsAndClaims' /\ MarksOnTheWire'
  BY <1>1 DEF IInv, RowsAndClaims, MarksOnTheWire, rowVars
<1>3. /\ AttemptsHandedOutOnce' /\ LockNamesLatestClaim' /\ SingleHandlerUnlessSwept'
      /\ SweptOnlyWhenStale' /\ EnqueueIsIdempotent'
  BY <1>1 DEF IInv, AttemptsHandedOutOnce, LockNamesLatestClaim, SingleHandlerUnlessSwept,
     SweptOnlyWhenStale, EnqueueIsIdempotent, Keyed, Holders, Holds, Unmarked, rowVars
<1> QED
  BY <1>2, <1>3 DEF IInv

\* Until the row has been swept, the late mark is the only one and nobody else holds the row.
LEMMA InvLateMark ==
    ASSUME IInv, TypeOK', NEW m \in late, LateMark(m)
    PROVE  IInv'
<1>1. /\ m \in LateMarks /\ m.job \in Jobs /\ late \subseteq LateMarks
      /\ status[m.job] # "absent" /\ status'[m.job] \in {"done", "dead", "failed"}
      /\ \A i \in Jobs : i # m.job => /\ status'[i] = status[i]
                                      /\ locked_for'[i] = locked_for[i]
                                      /\ locked_by'[i] = locked_by[i]
      /\ job' = job /\ attempts' = attempts /\ pc' = pc /\ held' = held
      /\ held_for' = held_for /\ answers' = answers /\ swept' = swept /\ late' = late \ {m}
  BY DEF LateMark, LateMarks, Mark, IInv, TypeOK, MarksOnTheWire, producerVars
<1>2. RowsAndClaims' /\ AttemptsHandedOutOnce'
  BY <1>1 DEF IInv, RowsAndClaims, AttemptsHandedOutOnce, Holds
<1>3. MarksOnTheWire'
  <2>1. ASSUME NEW n \in late' PROVE n.job \in Jobs /\ n \in late /\ n # m
    BY <1>1, <2>1 DEF LateMarks
  <2> QED
    BY <1>1, <2>1 DEF IInv, MarksOnTheWire
<1>4. LockNamesLatestClaim' /\ SweptOnlyWhenStale'
  BY <1>1 DEF IInv, LockNamesLatestClaim, SweptOnlyWhenStale, Holds
<1>5. SingleHandlerUnlessSwept'
  <2>1. m.job \notin swept => Holders(m.job) = {}
    BY <1>1 DEF IInv, SingleHandlerUnlessSwept, Unmarked
  <2> QED
    BY <1>1, <2>1 DEF IInv, SingleHandlerUnlessSwept, Holders, Holds, Unmarked
<1>6. EnqueueIsIdempotent'
  <2>1. \A i \in Jobs, q \in Queues, k \in Keys : Keyed(i, q, k)' <=> Keyed(i, q, k)
    BY <1>1 DEF Keyed
  <2> QED
    BY <1>1, <2>1, IdempotentUnchanged DEF IInv
<1> QED
  BY <1>2, <1>3, <1>4, <1>5, <1>6 DEF IInv

-----------------------------------------------------------------------------
(* Steps of sweepers and of time                                            *)

\* A swept row was running, so its lock is as old as the claim it is taken from.
LEMMA InvSweep ==
    ASSUME IInv, TypeOK', NEW w \in Workers, NEW e \in ClockErrors, Sweep(w, e)
    PROVE  IInv'
<1>1. /\ \A i \in Stale(w, e) : /\ i \in Jobs /\ status[i] = "running" /\ status'[i] = "queued"
                                 /\ locked_for[i] # None
                                 /\ locked_for[i] + e > StaleAfter[w]
      /\ \A i \in Jobs \ Stale(w, e) :
            /\ status'[i] = status[i] /\ locked_for'[i] = locked_for[i]
            /\ locked_by'[i] = locked_by[i]
      /\ swept' = swept \cup Stale(w, e)
      /\ job' = job /\ attempts' = attempts /\ pc' = pc /\ held' = held
      /\ held_for' = held_for /\ answers' = answers /\ late' = late
  BY DEF Sweep, Stale, workerVars, producerVars
<1>2. RowsAndClaims' /\ AttemptsHandedOutOnce'
  BY <1>1 DEF IInv, RowsAndClaims, AttemptsHandedOutOnce, Holds
<1>2a. MarksOnTheWire'
  BY <1>1 DEF IInv, TypeOK, MarksOnTheWire, LateMarks
<1>3. LockNamesLatestClaim'
  BY <1>1 DEF IInv, LockNamesLatestClaim, Holds
<1>4. SingleHandlerUnlessSwept'
  BY <1>1 DEF IInv, SingleHandlerUnlessSwept, Holders, Holds, Unmarked
<1>5. SweptOnlyWhenStale'
  <2>1. ASSUME NEW v \in Workers, NEW i \in Stale(w, e),
               Holds(v, i), held[v].attempt = attempts[i]
        PROVE  held_for[v] + Skew > StaleAfter[w]
    <3>1. locked_for[i] = held_for[v]
      BY <1>1, <2>1 DEF IInv, LockNamesLatestClaim
    <3>2. held_for[v] + e > StaleAfter[w]
      BY <1>1, <3>1
    <3>3. /\ held_for[v] \in Int /\ e \in Int /\ e <= Skew /\ Skew \in Int
          /\ StaleAfter[w] \in Int
      BY BoundsAssumption, WorkerAssumption DEF IInv, TypeOK, ClockErrors
    <3> QED
      BY <3>2, <3>3
  <2> QED
    BY <1>1, <2>1 DEF IInv, SweptOnlyWhenStale, Holds
<1>6. EnqueueIsIdempotent'
  <2>1. \A i \in Jobs, q \in Queues, k \in Keys : Keyed(i, q, k)' <=> Keyed(i, q, k)
    BY <1>1 DEF Keyed
  <2> QED
    BY <1>1, <2>1, IdempotentUnchanged DEF IInv
<1> QED
  BY <1>2, <1>2a, <1>3, <1>4, <1>5, <1>6 DEF IInv

\* A lock and the claim it belongs to age together.
LEMMA InvTick ==
    ASSUME IInv, TypeOK', Tick
    PROVE  IInv'
<1>1. /\ status' = status /\ job' = job /\ attempts' = attempts /\ locked_by' = locked_by
      /\ pc' = pc /\ held' = held /\ answers' = answers /\ swept' = swept
      /\ late' = late
      /\ \A i \in Jobs : locked_for'[i] = IF locked_for[i] = None THEN None
                                           ELSE Older(locked_for[i])
      /\ \A v \in Workers : held_for'[v] = IF held[v] = None THEN held_for[v]
                                            ELSE Older(held_for[v])
  BY DEF Tick, producerVars
<1>2. \A v \in Workers : /\ held_for[v] \in 0..MaxAge /\ held_for'[v] \in 0..MaxAge
                          /\ held_for'[v] >= held_for[v]
  BY <1>1, OlderType, BoundsAssumption DEF IInv, TypeOK
<1>3. RowsAndClaims' /\ MarksOnTheWire' /\ AttemptsHandedOutOnce' /\ SingleHandlerUnlessSwept'
  BY <1>1 DEF IInv, RowsAndClaims, MarksOnTheWire, AttemptsHandedOutOnce,
     SingleHandlerUnlessSwept, Holders, Holds, Unmarked
<1>4. LockNamesLatestClaim'
  <2>1. ASSUME NEW i \in Jobs, locked_for[i] # None
        PROVE  locked_for'[i] = Older(locked_for[i]) /\ locked_for'[i] # None
    <3>1. locked_for[i] \in 0..MaxAge
      BY <2>1 DEF IInv, TypeOK
    <3> QED
      BY <1>1, <2>1, <3>1, OlderType, NoneIsNoAge
  <2> QED
    BY <1>1, <2>1 DEF IInv, LockNamesLatestClaim, Holds
<1>5. SweptOnlyWhenStale'
  <2>1. ASSUME NEW v \in Workers, NEW u \in Workers, held_for[v] + Skew > StaleAfter[u]
        PROVE  held_for'[v] + Skew > StaleAfter[u]
    BY <1>2, <2>1, BoundsAssumption, WorkerAssumption
  <2> QED
    BY <1>1, <2>1 DEF IInv, SweptOnlyWhenStale, Holds
<1>6. EnqueueIsIdempotent'
  BY <1>1 DEF IInv, EnqueueIsIdempotent, Keyed
<1> QED
  BY <1>3, <1>4, <1>5, <1>6 DEF IInv

-----------------------------------------------------------------------------
(* The theorems                                                             *)

LEMMA InvNext == IInv /\ [Next]_vars => IInv'
<1> SUFFICES ASSUME IInv, [Next]_vars PROVE IInv'
  OBVIOUS
<1>1. TypeOK'
  BY TypeNext DEF IInv
<1>2. CASE UNCHANGED vars
  <2>1. rowVars' = rowVars /\ workerVars' = workerVars /\ swept' = swept /\ answers' = answers
    BY <1>2 DEF vars, rowVars, workerVars
  <2>2. EnqueueIsIdempotent'
    BY <2>1 DEF IInv, EnqueueIsIdempotent, Keyed, rowVars
  <2> QED
    BY <1>1, <2>1, <2>2, InvRowsAndClaimsUnchanged
<1> QED
  BY <1>1, <1>2, InvProduce, InvCancel, InvClaim, InvFinish, InvLifecycle, InvLateMark, InvSweep,
     InvTick DEF Next, Work, Lifecycle

LEMMA InvAlways == Spec => []IInv
BY InvInit, InvNext, PTL DEF Spec

\* Each attempt number of a job goes to at most one worker, ever, and never beyond
\* max_attempts: claim_one increments and checks in the same statement.
THEOREM AttemptsCorrect == Spec => []AttemptsHandedOutOnce
BY InvAlways, PTL DEF IInv

\* locked_at and locked_by of a running row always describe the latest claim.
THEOREM LocksCorrect == Spec => []LockNamesLatestClaim
BY InvAlways, PTL DEF IInv

\* Two workers are in process_claimed for one job only after a sweeper took it back.
THEOREM SingleHandler == Spec => []SingleHandlerUnlessSwept
BY InvAlways, PTL DEF IInv

\* A sweeper never takes a job from a live worker before some stale_after has passed.
THEOREM SweepsCorrect == Spec => []SweptOnlyWhenStale
BY InvAlways, PTL DEF IInv

\* enqueue with an idempotency key creates one row and always answers with its id.
THEOREM EnqueueCorrect == Spec => []EnqueueIsIdempotent
BY InvAlways, PTL DEF IInv

-----------------------------------------------------------------------------
(* Finished jobs                                                            *)

LEMMA SettledStep ==
    ASSUME IInv, [Next]_vars, NEW j \in Jobs, status[j] \in Terminal, Unheld(j), Unmarked(j)
    PROVE  status'[j] = status[j]
<1>1. ASSUME NEW p \in Producers, Produce(p) PROVE status'[j] = status[j]
  BY <1>1 DEF Produce, Insert, InsertConflicts, SelectExisting, SelectFails, rowVars, Terminal,
     IInv, TypeOK
<1>2. ASSUME NEW q \in Queues, NEW i \in Jobs, Cancel(q, i) PROVE status'[j] = status[j]
  BY <1>2 DEF Cancel, Terminal, IInv, TypeOK
<1>3. ASSUME NEW w \in Workers, Work(w) PROVE status'[j] = status[j]
  <2>1. ASSUME NEW i \in Jobs, ClaimOne(w, i) \/ ClaimReplyLost(w, i)
        PROVE  status'[j] = status[j]
    BY <2>1 DEF ClaimOne, ClaimReplyLost, ClaimRow, Claimable, Terminal, IInv, TypeOK
  <2>2. CASE Finish(w)
    <3>1. pc[w] = "handling"
      BY <2>2 DEF Finish, HandleOk, HandlePermanent, HandleRetriable, MarkFails, Release
    <3>2. held[w] # None
      BY <3>1 DEF IInv, RowsAndClaims
    <3>3. held[w].job # j
      BY <3>2 DEF Unheld, Holds
    <3> QED
      BY <2>2, <3>3 DEF Finish, HandleOk, HandlePermanent, HandleRetriable, MarkFails, mark_done,
         mark_dead, mark_failed_for_retry, retry_or_bury, Mark, rowVars, IInv, TypeOK
  <2>3. CASE Lifecycle(w) \/ Abort(w) \/ HandlerPanics(w)
    BY <2>3 DEF Lifecycle, Spawn, Shutdown, SweeperAborted, Abort, HandlerPanics, rowVars
  <2>4. ASSUME NEW e \in ClockErrors, Sweep(w, e) PROVE status'[j] = status[j]
    BY <2>4 DEF Sweep, Stale, Terminal
  <2> QED
    BY <1>3, <2>1, <2>2, <2>3, <2>4 DEF Work, Lifecycle
<1>4. ASSUME NEW m \in late, LateMark(m) PROVE status'[j] = status[j]
  BY <1>4 DEF LateMark, Mark, Unmarked, IInv, TypeOK
<1>5. CASE Tick
  BY <1>5 DEF Tick
<1>6. CASE UNCHANGED vars
  BY <1>6 DEF vars
<1> QED
  BY <1>1, <1>2, <1>3, <1>4, <1>5, <1>6 DEF Next

\* No statement of the crate brings back a done, dead or cancelled job, except a mark_*
\* of a worker that was still handling it or has left it on the wire.
THEOREM SettledCorrect == Spec => SettledStaysSettled
<1>1. IInv /\ [Next]_vars =>
          [\A j \in Jobs : status[j] \in Terminal /\ Unheld(j) /\ Unmarked(j)
                             => status'[j] = status[j]]_vars
  BY SettledStep
<1> QED
  BY <1>1, InvAlways, PTL DEF Spec, SettledStaysSettled

-----------------------------------------------------------------------------
(* Refinement of AttemptTickets                                             *)

LEMMA TicketsInit == Init => Tickets!Init
BY DEF Init, Tickets!Init, Budget, Out, Holders, Holds

\* A step that leaves the rows' presence, columns, attempts and claims alone is a stutter.
LEMMA TicketsStutter ==
    ASSUME IInv, job' = job, attempts' = attempts, held' = held,
           \A i \in Jobs : status'[i] = "absent" <=> status[i] = "absent"
    PROVE  UNCHANGED Tickets!vars
<1>1. Budget' = Budget
  BY DEF Budget
<1>2. Out' = Out
  BY DEF Out, Holders, Holds
<1> QED
  BY <1>1, <1>2 DEF Tickets!vars

LEMMA TicketsSubmit ==
    ASSUME IInv, IInv', NEW p \in Producers, NEW o \in Options, NEW j \in Jobs, Insert(p, o, j)
    PROVE  Tickets!Submit(j)
<1>1. Budget[j] = None /\ Budget'[j] \in Nat
  <2>1. status[j] = "absent" /\ status'[j] = "queued"
    BY DEF Insert, IInv, TypeOK
  <2>2. job'[j].max_attempts \in Nat
    BY <2>1, BoundsAssumption DEF IInv, RowsAndClaims, Columns
  <2> QED
    BY <2>1, <2>2 DEF Budget
<1>2. Budget' = [Budget EXCEPT ![j] = Budget'[j]]
  <2>1. \A i \in Jobs : i # j => status'[i] = status[i] /\ job'[i] = job[i]
    BY DEF Insert, IInv, TypeOK
  <2> QED
    BY <2>1 DEF Budget
<1>3. Out' = Out /\ attempts' = attempts
  BY DEF Insert, workerVars, Out, Holders, Holds
<1> QED
  BY <1>1, <1>2, <1>3 DEF Tickets!Submit

LEMMA TicketsIssue ==
    ASSUME IInv, IInv', NEW w \in Workers, NEW j \in Jobs,
           ClaimOne(w, j) \/ ClaimReplyLost(w, j)
    PROVE  \E received \in BOOLEAN : Tickets!Issue(j, received)
<1>1. /\ held[w] = None /\ status[j] # "absent"
      /\ attempts[j] \in Nat /\ attempts[j] < job[j].max_attempts
      /\ attempts' = [attempts EXCEPT ![j] = @ + 1]
      /\ job' = job /\ \A i \in Jobs : status'[i] = "absent" <=> status[i] = "absent"
  BY DEF ClaimOne, ClaimReplyLost, ClaimRow, Claimable, IInv, TypeOK, RowsAndClaims
<1>2. job[j].max_attempts # None
  <2>1. job[j].max_attempts \in Nat
    BY <1>1, BoundsAssumption DEF IInv, RowsAndClaims, Columns
  <2> QED
    BY <2>1, NoneAssumption
<1>3. Budget' = Budget /\ Budget[j] = job[j].max_attempts
  BY <1>1 DEF Budget
<1>4. CASE ClaimReplyLost(w, j)
  <2>1. Out' = Out
    BY <1>4 DEF ClaimReplyLost, workerVars, Out, Holders, Holds
  <2>2. Tickets!Issue(j, FALSE)
    BY <1>1, <1>2, <1>3, <2>1 DEF Tickets!Issue
  <2> QED
    BY <2>2
<1>5. CASE ClaimOne(w, j)
  <2>1. /\ held'[w] = [job |-> j, attempt |-> attempts[j] + 1] /\ held'[w] # None
        /\ \A v \in Workers : v # w => held'[v] = held[v]
    BY <1>5, NoneAssumption DEF ClaimOne, IInv, TypeOK
  <2>2. /\ Holders(j)' = Holders(j) \cup {w} /\ w \notin Holders(j)
        /\ \A i \in Jobs : i # j => Holders(i)' = Holders(i) /\ w \notin Holders(i)
    BY <1>1, <2>1 DEF Holders, Holds
  <2>3. {held'[v].attempt : v \in Holders(j)'}
            = {held[v].attempt : v \in Holders(j)} \cup {attempts[j] + 1}
    BY <2>1, <2>2 DEF Holders
  <2>4. \A i \in Jobs : i # j => {held'[v].attempt : v \in Holders(i)'}
                                   = {held[v].attempt : v \in Holders(i)}
    BY <2>1, <2>2 DEF Holders
  <2>5. Out' = [Out EXCEPT ![j] = @ \cup {attempts[j] + 1}]
    BY <2>3, <2>4 DEF Out
  <2>6. Tickets!Issue(j, TRUE)
    BY <1>1, <1>2, <1>3, <2>5 DEF Tickets!Issue
  <2> QED
    BY <2>6
<1> QED
  BY <1>4, <1>5

\* No other worker has the number that w gives back: AttemptsHandedOutOnce.
LEMMA TicketsReturn ==
    ASSUME IInv, IInv', NEW w \in Workers, NEW s, LetGo(w, s),
           NEW j \in Jobs, NEW n \in Nat, Holds(w, j), held[w].attempt = n
    PROVE  Tickets!Return(j, n)
<1>1. w \in Holders(j)
  BY DEF Holders
<1>2. held'[w] = None /\ \A v \in Workers : v # w => held'[v] = held[v]
  BY DEF LetGo, IInv, TypeOK
<1>3. /\ Holders(j)' = Holders(j) \ {w}
      /\ \A i \in Jobs : i # j => Holders(i)' = Holders(i) /\ w \notin Holders(i)
  BY <1>2 DEF Holders, Holds
<1>4. \A v \in Holders(j) : v # w => held[v].attempt # n
  BY <1>1 DEF IInv, AttemptsHandedOutOnce, Holders
<1>5. {held'[v].attempt : v \in Holders(j)'} = {held[v].attempt : v \in Holders(j)} \ {n}
  BY <1>2, <1>3, <1>4 DEF Holders
<1>6. \A i \in Jobs : i # j => {held'[v].attempt : v \in Holders(i)'}
                                 = {held[v].attempt : v \in Holders(i)}
  BY <1>2, <1>3 DEF Holders
<1>7. Out' = [Out EXCEPT ![j] = @ \ {n}] /\ n \in Out[j]
  BY <1>1, <1>5, <1>6 DEF Out
<1>8. \A i \in Jobs : status'[i] = "absent" <=> status[i] = "absent"
  BY AbsentIsUnheld DEF LetGo, IInv, Unheld
<1>9. Budget' = Budget /\ attempts' = attempts
  BY <1>8 DEF Budget, LetGo
<1> QED
  BY <1>7, <1>9 DEF Tickets!Return

LEMMA TicketsNext == IInv /\ IInv' /\ [Next]_vars => [Tickets!Next]_(Tickets!vars)
<1> SUFFICES ASSUME IInv, IInv', [Next]_vars PROVE [Tickets!Next]_(Tickets!vars)
  OBVIOUS
<1>1. ASSUME NEW p \in Producers, Produce(p) PROVE [Tickets!Next]_(Tickets!vars)
  <2>1. ASSUME NEW o \in Options, NEW j \in Jobs, Insert(p, o, j)
        PROVE  Tickets!Next
    BY <2>1, TicketsSubmit DEF Tickets!Next
  <2>2. CASE SelectExisting(p) \/ SelectFails(p) \/ \E o \in Options : InsertConflicts(p, o)
    BY <2>2, TicketsStutter DEF SelectExisting, SelectFails, InsertConflicts, rowVars, workerVars
  <2> QED
    BY <1>1, <2>1, <2>2 DEF Produce
<1>2. ASSUME NEW q \in Queues, NEW j \in Jobs, Cancel(q, j) PROVE UNCHANGED Tickets!vars
  <2>1. \A i \in Jobs : status'[i] = "absent" <=> status[i] = "absent"
    BY <1>2 DEF Cancel, IInv, TypeOK, Status, Terminal
  <2> QED
    BY <1>2, <2>1, TicketsStutter DEF Cancel, workerVars
<1>3. ASSUME NEW w \in Workers, Work(w) PROVE [Tickets!Next]_(Tickets!vars)
  <2>1. ASSUME NEW j \in Jobs, ClaimOne(w, j) \/ ClaimReplyLost(w, j)
        PROVE  Tickets!Next
    BY <2>1, TicketsIssue DEF Tickets!Next
  <2>2. CASE Finish(w) \/ HandlerPanics(w) \/ Abort(w)
    <3>1. PICK s \in LoopStates \ {"handling"} : LetGo(w, s)
      BY <2>2, FinishLetsGo
    <3>2. CASE held[w] # None
      <4>1. PICK j \in Jobs, n \in Nat : Holds(w, j) /\ held[w].attempt = n
        BY <3>2, HeldType DEF IInv
      <4>2. Tickets!Return(j, n)
        BY <3>1, <4>1, TicketsReturn
      <4> QED
        BY <4>2 DEF Tickets!Next, Tickets!Return
    <3>3. CASE held[w] = None
      <4>1. held' = held
        BY <3>1, <3>3 DEF LetGo, IInv, TypeOK
      <4>2. \A i \in Jobs : status'[i] = "absent" <=> status[i] = "absent"
        BY <3>1, <3>3 DEF LetGo, Holds
      <4> QED
        BY <3>1, <4>1, <4>2, TicketsStutter DEF LetGo
    <3> QED
      BY <3>2, <3>3
  <2>3. CASE Lifecycle(w)
    BY <2>3, TicketsStutter DEF Lifecycle, Spawn, Shutdown, SweeperAborted, rowVars
  <2>4. ASSUME NEW e \in ClockErrors, Sweep(w, e) PROVE UNCHANGED Tickets!vars
    <3>1. \A i \in Jobs : status'[i] = "absent" <=> status[i] = "absent"
      BY <2>4 DEF Sweep, Stale
    <3> QED
      BY <2>4, <3>1, TicketsStutter DEF Sweep, workerVars
  <2> QED
    BY <1>3, <2>1, <2>2, <2>3, <2>4 DEF Work, Lifecycle
<1>4. ASSUME NEW m \in late, LateMark(m) PROVE UNCHANGED Tickets!vars
  <2>1. \A i \in Jobs : status'[i] = "absent" <=> status[i] = "absent"
    <3>1. m.job \in Jobs /\ status[m.job] # "absent" /\ m.to # "absent"
      BY DEF IInv, TypeOK, MarksOnTheWire, LateMarks
    <3> QED
      BY <1>4, <3>1 DEF LateMark, Mark, IInv, TypeOK
  <2> QED
    BY <1>4, <2>1, TicketsStutter DEF LateMark, Mark
<1>5. CASE Tick
  BY <1>5, TicketsStutter DEF Tick
<1>6. CASE UNCHANGED vars
  BY <1>6, TicketsStutter DEF vars
<1> QED
  BY <1>1, <1>2, <1>3, <1>4, <1>5, <1>6 DEF Next

\* The queue hands out attempts exactly as AttemptTickets allows: numbered, once each,
\* within the budget given to enqueue.
THEOREM QueueImplementsTickets == Spec => ImplementsTickets
BY TicketsInit, TicketsNext, InvAlways, PTL DEF Spec, ImplementsTickets, Tickets!Spec
=============================================================================
