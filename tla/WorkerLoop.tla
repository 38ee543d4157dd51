----------------------------- MODULE WorkerLoop -----------------------------
(***************************************************************************)
(* One WorkerHandle of ferrlabs-queue and its three tokio tasks: run_loop, *)
(* sweeper_loop and listener_loop (crates/queue/src/worker.rs), which meet *)
(* in two tokio::sync::Notify: `wake` and `shutdown`.                      *)
(*                                                                         *)
(* Notify::notify_waiters stores no permit: it reaches the Notified        *)
(* futures that exist at that moment and nobody else.  A future exists     *)
(* from the evaluation of its select! until one branch of that select! is  *)
(* taken; the futures of the other branches are dropped with whatever they *)
(* had received.  Of several ready branches select! takes any one.         *)
(*                                                                         *)
(* The table is abstracted to the number of rows this queue's claim_one    *)
(* would find (module JobQueue has the rows).                              *)
(***************************************************************************)
EXTENDS Naturals

CONSTANT MaxReady    \* bound on the claimable rows and on the messages in flight

ASSUME MaxReadyAssumption == MaxReady \in Nat \ {0}

VARIABLES
    loop,        \* run_loop
    sweeper,     \* sweeper_loop
    listener,    \* listener_loop and consume_notifications
    handle,      \* the owner of the WorkerHandle
    aborting,    \* tasks whose JoinHandle::abort was called
    told,        \* tasks whose current select! holds a shutdown notification
    woken,       \* run_loop's current select! holds a wake notification
    ready,       \* claimable rows
    unannounced, \* enqueue calls between their INSERT and their pg_notify
    wire         \* notifications the listener's connection has not read yet

vars == <<loop, sweeper, listener, handle, aborting, told, woken, ready, unannounced, wire>>
tasks == <<loop, sweeper, listener>>
table == <<ready, unannounced, wire>>

Init ==
    /\ loop = "claim" /\ sweeper = "sweep" /\ listener = "connect"
    /\ handle = "open" /\ aborting = {}
    /\ told = {} /\ woken = FALSE
    /\ ready = 0 /\ unannounced = 0 /\ wire = 0

-----------------------------------------------------------------------------
(* The outside: producers, other workers, time passing over a run_at        *)

Insert ==
    /\ ready < MaxReady /\ unannounced < MaxReady
    /\ ready' = ready + 1
    /\ unannounced' = unannounced + 1
    /\ UNCHANGED <<tasks, handle, aborting, told, woken, wire>>

\* pg_notify goes to the sessions that LISTEN now.
PgNotify ==
    /\ unannounced > 0
    /\ unannounced' = unannounced - 1
    /\ wire' = IF listener \in {"listen", "waking"} /\ wire < MaxReady THEN wire + 1 ELSE wire
    /\ UNCHANGED <<tasks, handle, aborting, told, woken, ready>>

\* `let _ =`: an error of pg_notify is ignored.
PgNotifyFails ==
    /\ unannounced > 0
    /\ unannounced' = unannounced - 1
    /\ UNCHANGED <<tasks, handle, aborting, told, woken, ready, wire>>

\* A delayed or retried row comes due, or is swept: nobody is notified of that.
ComesDue ==
    /\ ready < MaxReady
    /\ ready' = ready + 1
    /\ UNCHANGED <<tasks, handle, aborting, told, woken, unannounced, wire>>

OtherWorkerClaims ==
    /\ ready > 0
    /\ ready' = ready - 1
    /\ UNCHANGED <<tasks, handle, aborting, told, woken, unannounced, wire>>

-----------------------------------------------------------------------------
(* run_loop                                                                 *)

ClaimFound ==
    /\ loop = "claim" /\ ready > 0
    /\ loop' = "busy"
    /\ ready' = ready - 1
    /\ UNCHANGED <<sweeper, listener, handle, aborting, told, woken, unannounced, wire>>

\* Nothing to claim, or the statement failed: enter the select! with fresh futures.
ClaimNothing(failed) ==
    /\ loop = "claim"
    /\ ready = 0 \/ failed
    /\ loop' = "select"
    /\ UNCHANGED <<sweeper, listener, handle, aborting, told, woken, table>>

Processed ==
    /\ loop = "busy"
    /\ loop' = "claim"
    /\ UNCHANGED <<sweeper, listener, handle, aborting, told, woken, table>>

HandlerPanics ==
    /\ loop = "busy"
    /\ loop' = "panicked"
    /\ UNCHANGED <<sweeper, listener, handle, aborting, told, woken, table>>

\* One branch is taken, the futures of all branches are dropped.
LeaveSelect(next) ==
    /\ loop' = next
    /\ told' = told \ {"loop"}
    /\ woken' = FALSE
    /\ UNCHANGED <<sweeper, listener, handle, aborting, table>>

TakeShutdown == loop = "select" /\ "loop" \in told /\ LeaveSelect("exited")
TakeWake == loop = "select" /\ woken /\ LeaveSelect("claim")
\* Variant: the loop trusts LISTEN and does not poll.
NoPoll == FALSE
PollTimer == loop = "select" /\ LeaveSelect("claim")

-----------------------------------------------------------------------------
(* sweeper_loop                                                             *)

Swept ==
    /\ sweeper = "sweep"
    /\ sweeper' = "select"
    /\ UNCHANGED <<loop, listener, handle, aborting, told, woken, table>>

LeaveSweeperSelect(next) ==
    /\ sweeper = "select"
    /\ sweeper' = next
    /\ told' = told \ {"sweeper"}
    /\ UNCHANGED <<loop, listener, handle, aborting, woken, table>>

SweeperShutdown == "sweeper" \in told /\ LeaveSweeperSelect("exited")
SweepTimer == LeaveSweeperSelect("sweep")

-----------------------------------------------------------------------------
(* listener_loop                                                            *)

OpenListener(next) ==
    /\ listener = "connect"
    /\ listener' = next
    /\ UNCHANGED <<loop, sweeper, handle, aborting, told, woken, table>>

ListenerConnects == OpenListener("listen")
ListenerRefused == OpenListener("backoff")

LeaveListenerSelect(next) ==
    /\ listener' = next
    /\ told' = told \ {"listener"}
    /\ UNCHANGED <<loop, sweeper, handle, aborting, woken, ready, unannounced>>

\* Some(Ok(_)): the select!'s futures are gone before wake is called.
Receive == listener = "listen" /\ wire > 0 /\ LeaveListenerSelect("waking") /\ wire' = wire - 1

\* Variant: notify_one, which stores a permit for a loop that is not waiting.
WakeOne ==
    /\ listener = "waking"
    /\ listener' = "listen"
    /\ woken' = TRUE
    /\ UNCHANGED <<loop, sweeper, handle, aborting, told, table>>

\* wake.notify_waiters()
Wake ==
    /\ listener = "waking"
    /\ listener' = "listen"
    /\ woken' = (woken \/ loop = "select")
    /\ UNCHANGED <<loop, sweeper, handle, aborting, told, table>>

\* Variant: a broken stream ends the task instead of reconnecting.
StreamBreaksForGood == listener = "listen" /\ LeaveListenerSelect("exited") /\ wire' = 0
\* Some(Err(_)) or None: unread notifications are lost with the connection.
StreamBreaks == listener = "listen" /\ LeaveListenerSelect("connect") /\ wire' = 0

\* wait_or_shutdown
BackoffTimer == listener = "backoff" /\ LeaveListenerSelect("connect") /\ UNCHANGED wire

ListenerShutdown ==
    /\ listener \in {"listen", "backoff"} /\ "listener" \in told
    /\ LeaveListenerSelect("exited") /\ wire' = 0

-----------------------------------------------------------------------------
(* WorkerHandle                                                             *)

\* The tasks that have a Notified of `shutdown` at this moment.
Waiting ==
    {t \in {"loop", "sweeper", "listener"} :
        \/ t = "loop" /\ loop = "select"
        \/ t = "sweeper" /\ sweeper = "select"
        \/ t = "listener" /\ listener \in {"listen", "backoff"}}

\* shutdown(): notify_waiters, then await loop_task.
ShutdownCalled ==
    /\ handle = "open"
    /\ handle' = "draining"
    /\ told' = told \cup Waiting
    /\ UNCHANGED <<tasks, aborting, woken, table>>

\* JoinHandle::abort only asks: nobody awaits the task, and it goes on until the runtime
\* drops it, see LoopDropped and its siblings.
AbortAll(ts) == aborting' = aborting \cup ts /\ UNCHANGED <<tasks, told, woken, table>>

\* Variants: shutdown aborts loop_task like the two others instead of awaiting it; it
\* trusts the listener to have heard the notification.
ShutdownAborts ==
    /\ handle = "draining"
    /\ handle' = "returned"
    /\ AbortAll({"loop", "sweeper", "listener"})
ShutdownTrusts ==
    /\ handle = "draining"
    /\ loop \in {"exited", "panicked"}
    /\ handle' = "returned"
    /\ AbortAll({"sweeper"})

\* loop_task has ended (a panic ends it too): abort the two others and return.
ShutdownReturns ==
    /\ handle = "draining"
    /\ loop \in {"exited", "panicked"}
    /\ handle' = "returned"
    /\ AbortAll({"sweeper", "listener"})

AbortCalled ==
    /\ handle = "open"
    /\ handle' = "aborted"
    /\ AbortAll({"loop", "sweeper", "listener"})

Ended == {"exited", "panicked", "aborted"}

\* The runtime drops an aborted task at one of its awaits, with the futures it holds and,
\* for the listener, its connection; a task that has ended meanwhile stays as it ended.
LoopDropped ==
    /\ "loop" \in aborting /\ loop \notin Ended
    /\ loop' = "aborted" /\ told' = told \ {"loop"} /\ woken' = FALSE
    /\ UNCHANGED <<sweeper, listener, handle, aborting, table>>

SweeperDropped ==
    /\ "sweeper" \in aborting /\ sweeper \notin Ended
    /\ sweeper' = "aborted" /\ told' = told \ {"sweeper"}
    /\ UNCHANGED <<loop, listener, handle, aborting, woken, table>>

ListenerDropped ==
    /\ "listener" \in aborting /\ listener \notin Ended
    /\ listener' = "aborted" /\ told' = told \ {"listener"} /\ wire' = 0
    /\ UNCHANGED <<loop, sweeper, handle, aborting, woken, ready, unannounced>>

-----------------------------------------------------------------------------
Next ==
    \/ Insert \/ PgNotify \/ PgNotifyFails \/ ComesDue \/ OtherWorkerClaims
    \/ ClaimFound \/ (\E failed \in BOOLEAN : ClaimNothing(failed))
    \/ Processed \/ HandlerPanics
    \/ TakeShutdown \/ TakeWake \/ PollTimer
    \/ Swept \/ SweeperShutdown \/ SweepTimer
    \/ ListenerConnects \/ ListenerRefused \/ Receive \/ Wake
    \/ StreamBreaks \/ BackoffTimer \/ ListenerShutdown
    \/ ShutdownCalled \/ ShutdownReturns \/ AbortCalled
    \/ LoopDropped \/ SweeperDropped \/ ListenerDropped

Spec == Init /\ [][Next]_vars

\* tokio polls every ready task and timers fire (WF); handlers return (WF); a
\* statement or connection that is tried over and over succeeds some time (SF); an
\* aborted task is dropped some time (WF).
\* Nothing forces anybody to call shutdown or abort, or select! to prefer a branch.
Fairness ==
    /\ SF_vars(ClaimFound) /\ WF_vars(\E failed \in BOOLEAN : ClaimNothing(failed))
    /\ WF_vars(Processed \/ HandlerPanics)
    /\ WF_vars(TakeShutdown \/ TakeWake \/ PollTimer)
    /\ WF_vars(Swept) /\ WF_vars(SweeperShutdown \/ SweepTimer)
    /\ SF_vars(ListenerConnects) /\ WF_vars(ListenerRefused)
    /\ WF_vars(Receive \/ ListenerShutdown) /\ WF_vars(Wake) /\ WF_vars(BackoffTimer)
    /\ WF_vars(ShutdownReturns)
    /\ WF_vars(LoopDropped) /\ WF_vars(SweeperDropped) /\ WF_vars(ListenerDropped)

FairSpec == Spec /\ Fairness

-----------------------------------------------------------------------------
(* Properties                                                               *)

\* A task is in one of its states, and only a task inside a select! holds a notification.
TypeOK ==
    /\ loop \in {"claim", "busy", "select", "exited", "panicked", "aborted"}
    /\ sweeper \in {"sweep", "select", "exited", "aborted"}
    /\ listener \in {"connect", "backoff", "listen", "waking", "exited", "aborted"}
    /\ handle \in {"open", "draining", "returned", "aborted"}
    /\ aborting \subseteq {"loop", "sweeper", "listener"}
    /\ told \subseteq Waiting
    /\ woken \in BOOLEAN /\ (woken => loop = "select")
    /\ ready \in 0..MaxReady /\ unannounced \in 0..MaxReady /\ wire \in 0..MaxReady

LoopRuns == loop \notin Ended

\* Only abort() or a panic takes a job away from a loop that is processing it; a shutdown
\* request, whenever it comes, does not.
JobsAreNotCutShort ==
    [][loop = "busy" /\ loop' # "busy" =>
           loop' \in {"claim", "panicked"} \/ handle = "aborted"]_vars

\* A worker whose shutdown() has returned, or that was aborted, comes to an end with all
\* three tasks, also when a side task missed the notification (the listener connecting, the
\* sweeper in its UPDATE) and would otherwise sweep or reconnect for ever.
StoppedWorkersEnd ==
    handle \in {"returned", "aborted"} ~> {loop, sweeper, listener} \subseteq Ended

\* However many notifications are lost (listener down, loop busy, loop between claim_one
\* and select!), a claimable row does not wait for ever while the loop runs.
ReadyRowsAreClaimed ==
    ready > 0 /\ LoopRuns ~> loop = "busy" \/ ready = 0 \/ ~LoopRuns

\* A refused or broken LISTEN connection is opened again while nobody stops the worker.
ListenerReconnects ==
    handle = "open" /\ listener # "listen" ~> listener = "listen" \/ handle # "open"

\* worker.rs, WorkerHandle::shutdown: "Signal the worker loop to stop and wait for it to
\* drain"; README.md, Shutdown: "the worker finishes its current job (if any) and then
\* exits cleanly".
ShutdownCompletes == handle = "draining" ~> handle = "returned"
=============================================================================
