-------------------------- MODULE WorkerLoopProofs --------------------------
(***************************************************************************)
(* Proofs about WorkerLoop, for any bound on the rows and the messages:    *)
(* who holds a notification, and who may take a job away from the loop     *)
(* that processes it.                                                      *)
(***************************************************************************)
EXTENDS WorkerLoop, TLAPS

-----------------------------------------------------------------------------
(* The inductive invariant                                                  *)

\* The loop is asked to abort by WorkerHandle::abort and by nothing else, and only a task
\* that was asked is dropped.
AbortsAreCalled ==
    /\ "loop" \in aborting => handle = "aborted"
    /\ handle = "open" => aborting = {}

IInv == TypeOK /\ AbortsAreCalled

-----------------------------------------------------------------------------
(* Groups of actions                                                        *)

\* Producers, other workers and time touch the table and the wire only.
Outside == Insert \/ PgNotify \/ PgNotifyFails \/ ComesDue \/ OtherWorkerClaims

\* The steps of run_loop, of sweeper_loop and of listener_loop.
LoopStep ==
    \/ ClaimFound \/ (\E failed \in BOOLEAN : ClaimNothing(failed))
    \/ Processed \/ HandlerPanics
    \/ TakeShutdown \/ TakeWake \/ PollTimer

SweeperStep == Swept \/ SweeperShutdown \/ SweepTimer

ListenerStep ==
    \/ ListenerConnects \/ ListenerRefused \/ Receive \/ Wake
    \/ StreamBreaks \/ BackoffTimer \/ ListenerShutdown

HandleStep == ShutdownCalled \/ ShutdownReturns \/ AbortCalled

\* The runtime drops a task.
DropStep == LoopDropped \/ SweeperDropped \/ ListenerDropped

LEMMA NextGroups ==
    Next <=> Outside \/ LoopStep \/ SweeperStep \/ ListenerStep \/ HandleStep \/ DropStep
BY DEF Next, Outside, LoopStep, SweeperStep, ListenerStep, HandleStep, DropStep

-----------------------------------------------------------------------------
(* One lemma per group                                                      *)

LEMMA OutsidePreserves ==
    ASSUME IInv, Outside PROVE IInv'
<1> USE MaxReadyAssumption
<1>1. UNCHANGED <<loop, sweeper, listener, handle, aborting, told, woken>>
  BY DEF Outside, Insert, PgNotify, PgNotifyFails, ComesDue, OtherWorkerClaims, tasks
<1>2. ready' \in 0..MaxReady /\ unannounced' \in 0..MaxReady /\ wire' \in 0..MaxReady
  BY DEF Outside, Insert, PgNotify, PgNotifyFails, ComesDue, OtherWorkerClaims, IInv, TypeOK
<1> QED
  BY <1>1, <1>2 DEF IInv, TypeOK, Waiting, AbortsAreCalled

LEMMA LoopStepPreserves ==
    ASSUME IInv, LoopStep PROVE IInv'
<1> USE DEF IInv, table
<1>1. /\ loop \in {"claim", "busy", "select"}
      /\ loop' \in {"claim", "busy", "select", "exited", "panicked"}
      /\ UNCHANGED <<sweeper, listener, handle, aborting, unannounced, wire>>
      /\ ready' = ready \/ (ready > 0 /\ ready' = ready - 1)
  BY DEF LoopStep, ClaimFound, ClaimNothing, Processed, HandlerPanics, TakeShutdown, TakeWake,
         PollTimer, LeaveSelect
<1>2. \/ loop # "select" /\ told' = told /\ woken' = woken
      \/ told' = told \ {"loop"} /\ woken' = FALSE
  BY DEF LoopStep, ClaimFound, ClaimNothing, Processed, HandlerPanics, TakeShutdown, TakeWake,
         PollTimer, LeaveSelect
<1>3. "loop" \notin told' /\ told' \subseteq told
  BY <1>2 DEF TypeOK, Waiting
<1>4. told' \subseteq Waiting'
  BY <1>1, <1>3 DEF TypeOK, Waiting
<1>5. woken' = FALSE
  BY <1>2 DEF TypeOK
<1>6. TypeOK'
  <2>1. loop' \in {"claim", "busy", "select", "exited", "panicked", "aborted"}
    BY <1>1
  <2>2. ready' \in 0..MaxReady
    BY <1>1, MaxReadyAssumption DEF TypeOK
  <2> QED  BY <1>1, <1>4, <1>5, <2>1, <2>2 DEF TypeOK
<1> QED  BY <1>1, <1>6 DEF AbortsAreCalled

LEMMA SweeperStepPreserves ==
    ASSUME IInv, SweeperStep PROVE IInv'
<1> USE DEF IInv, table
<1>1. /\ sweeper \in {"sweep", "select"} /\ sweeper' \in {"sweep", "select", "exited"}
      /\ UNCHANGED <<loop, listener, handle, aborting, woken, ready, unannounced, wire>>
      /\ \/ sweeper = "sweep" /\ told' = told
         \/ told' = told \ {"sweeper"}
  BY DEF SweeperStep, Swept, SweeperShutdown, SweepTimer, LeaveSweeperSelect
<1>2. "sweeper" \notin told' /\ told' \subseteq told
  BY <1>1 DEF TypeOK, Waiting
<1>3. told' \subseteq Waiting'
  BY <1>1, <1>2 DEF TypeOK, Waiting
<1>4. TypeOK'
  BY <1>1, <1>3 DEF TypeOK
<1> QED  BY <1>1, <1>4 DEF AbortsAreCalled

LEMMA ListenerStepPreserves ==
    ASSUME IInv, ListenerStep PROVE IInv'
<1> USE DEF IInv, table
<1>1. /\ listener \in {"connect", "backoff", "listen", "waking"}
      /\ listener' \in {"connect", "backoff", "listen", "waking", "exited"}
      /\ UNCHANGED <<loop, sweeper, handle, aborting, ready, unannounced>>
      /\ \/ listener \in {"connect", "waking"} /\ told' = told
         \/ told' = told \ {"listener"}
  BY DEF ListenerStep, ListenerConnects, ListenerRefused, OpenListener, Receive, Wake,
         StreamBreaks, BackoffTimer, ListenerShutdown, LeaveListenerSelect
<1>2. woken' \in BOOLEAN /\ (woken' => loop' = "select")
  <2>1. woken' = woken \/ woken' = (woken \/ loop = "select")
    BY DEF ListenerStep, ListenerConnects, ListenerRefused, OpenListener, Receive, Wake,
           StreamBreaks, BackoffTimer, ListenerShutdown, LeaveListenerSelect
  <2>2. woken \in BOOLEAN /\ (woken => loop = "select") /\ loop' = loop
    BY <1>1 DEF TypeOK
  <2>3. CASE woken' = woken  BY <2>2, <2>3
  <2>4. CASE woken' = (woken \/ loop = "select")
    <3>1. woken' \in BOOLEAN  BY <2>4
    <3>2. woken' => loop' = "select"  BY <2>2, <2>4
    <3> QED  BY <3>1, <3>2
  <2> QED  BY <2>1, <2>3, <2>4
<1>3. wire' \in 0..MaxReady
  <2>1. wire' = wire \/ wire' = 0 \/ (wire > 0 /\ wire' = wire - 1)
    BY DEF ListenerStep, ListenerConnects, ListenerRefused, OpenListener, Receive, Wake,
           StreamBreaks, BackoffTimer, ListenerShutdown, LeaveListenerSelect
  <2> QED  BY <2>1, MaxReadyAssumption DEF TypeOK
<1>4. "listener" \notin told' /\ told' \subseteq told
  BY <1>1 DEF TypeOK, Waiting
<1>5. told' \subseteq Waiting'
  BY <1>1, <1>4 DEF TypeOK, Waiting
<1>6. TypeOK'
  BY <1>1, <1>2, <1>5, <1>3 DEF TypeOK
<1> QED  BY <1>1, <1>6 DEF AbortsAreCalled

\* The handle moves no task: it notifies the ones that wait and asks others to abort.
LEMMA HandleStepPreserves ==
    ASSUME IInv, HandleStep PROVE IInv'
<1> USE DEF IInv
<1>1. CASE ShutdownCalled
  <2>1. TypeOK'  BY <1>1 DEF ShutdownCalled, tasks, table, TypeOK, Waiting
  <2> QED
    BY <1>1, <2>1 DEF ShutdownCalled, AbortsAreCalled
<1>2. ASSUME NEW ts \in SUBSET {"loop", "sweeper", "listener"}, AbortAll(ts),
             handle' \in {"returned", "aborted"}
      PROVE  TypeOK'
  BY <1>2 DEF AbortAll, tasks, table, TypeOK, Waiting
<1>3. CASE ShutdownReturns
  <2>1. TypeOK'  BY <1>2, <1>3 DEF ShutdownReturns
  <2>2. "loop" \notin aborting'
    BY <1>3 DEF ShutdownReturns, AbortAll, AbortsAreCalled
  <2> QED  BY <1>3, <2>1, <2>2 DEF ShutdownReturns, AbortsAreCalled
<1>4. CASE AbortCalled
  <2>1. TypeOK'  BY <1>2, <1>4 DEF AbortCalled
  <2> QED  BY <1>4, <2>1 DEF AbortCalled, AbortsAreCalled
<1> QED  BY <1>1, <1>3, <1>4 DEF HandleStep

\* A dropped task takes its notifications with it.
LEMMA DropStepPreserves ==
    ASSUME IInv, DropStep PROVE IInv'
<1> USE DEF IInv
<1>1. handle' = handle /\ aborting' = aborting
  BY DEF DropStep, LoopDropped, SweeperDropped, ListenerDropped
<1>2. CASE LoopDropped
  <2>1. told' \subseteq Waiting'  BY <1>2 DEF LoopDropped, TypeOK, Waiting
  <2>2. woken' = FALSE  BY <1>2 DEF LoopDropped
  <2> QED  BY <1>1, <1>2, <2>1, <2>2 DEF LoopDropped, table, TypeOK, AbortsAreCalled
<1>3. CASE SweeperDropped
  <2>1. told' \subseteq Waiting'  BY <1>3 DEF SweeperDropped, TypeOK, Waiting
  <2> QED  BY <1>1, <1>3, <2>1 DEF SweeperDropped, table, TypeOK, AbortsAreCalled
<1>4. CASE ListenerDropped
  <2>1. told' \subseteq Waiting'  BY <1>4 DEF ListenerDropped, TypeOK, Waiting
  <2>2. wire' \in 0..MaxReady  BY <1>4, MaxReadyAssumption DEF ListenerDropped
  <2> QED  BY <1>1, <1>4, <2>1, <2>2 DEF ListenerDropped, TypeOK, AbortsAreCalled
<1> QED  BY <1>2, <1>3, <1>4 DEF DropStep

-----------------------------------------------------------------------------
(* The theorems                                                             *)

LEMMA InitIInv == Init => IInv
<1> SUFFICES ASSUME Init PROVE IInv  OBVIOUS
<1>1. TypeOK
  <2>1. 0 \in 0..MaxReady  BY MaxReadyAssumption
  <2> QED  BY <2>1 DEF Init, TypeOK
<1> QED  BY <1>1 DEF Init, IInv, AbortsAreCalled

LEMMA StepPreserves == IInv /\ [Next]_vars => IInv'
<1> SUFFICES ASSUME IInv, [Next]_vars PROVE IInv'  OBVIOUS
<1>1. CASE UNCHANGED vars
  BY <1>1 DEF vars, IInv, TypeOK, Waiting, AbortsAreCalled
<1> QED
  BY <1>1, NextGroups, OutsidePreserves, LoopStepPreserves, SweeperStepPreserves,
     ListenerStepPreserves, HandleStepPreserves, DropStepPreserves

\* The invariant holds in every reachable state of the worker.
THEOREM Invariance == Spec => []IInv
BY InitIInv, StepPreserves, PTL DEF Spec

\* The three tasks are always in one of their states, and only a task inside a select!
\* holds a notification of `shutdown` or `wake`.
THEOREM TypeCorrect == Spec => []TypeOK
<1>1. IInv => TypeOK  BY DEF IInv
<1> QED  BY <1>1, Invariance, PTL

\* A job leaves a loop that processes it because process_claimed is done or panicked, or
\* because WorkerHandle::abort was called before; never because of a shutdown, a
\* notification or a timer.
THEOREM JobsCorrect == Spec => JobsAreNotCutShort
<1>1. IInv /\ [Next]_vars => [loop = "busy" /\ loop' # "busy" =>
                                 loop' \in {"claim", "panicked"} \/ handle = "aborted"]_vars
  <2> SUFFICES ASSUME IInv, Next, loop = "busy", loop' # "busy"
               PROVE  loop' \in {"claim", "panicked"} \/ handle = "aborted"
    OBVIOUS
  <2>1. CASE Outside
    BY <2>1 DEF Outside, Insert, PgNotify, PgNotifyFails, ComesDue, OtherWorkerClaims, tasks
  <2>2. CASE LoopStep
    BY <2>2 DEF LoopStep, ClaimFound, ClaimNothing, Processed, HandlerPanics, TakeShutdown,
                TakeWake, PollTimer
  <2>3. CASE SweeperStep
    BY <2>3 DEF SweeperStep, Swept, SweeperShutdown, SweepTimer, LeaveSweeperSelect
  <2>4. CASE ListenerStep
    BY <2>4 DEF ListenerStep, ListenerConnects, ListenerRefused, OpenListener, Receive, Wake,
                StreamBreaks, BackoffTimer, ListenerShutdown, LeaveListenerSelect
  <2>5. CASE HandleStep
    BY <2>5 DEF HandleStep, ShutdownCalled, ShutdownReturns, AbortCalled, AbortAll, tasks
  <2>6. CASE DropStep
    BY <2>6 DEF DropStep, LoopDropped, SweeperDropped, ListenerDropped, IInv, AbortsAreCalled
  <2> QED  BY <2>1, <2>2, <2>3, <2>4, <2>5, <2>6, NextGroups
<1> QED  BY <1>1, Invariance, PTL DEF Spec, JobsAreNotCutShort
=============================================================================
