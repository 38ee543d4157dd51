--------------------------- MODULE AttemptTickets ---------------------------
(***************************************************************************)
(* What ferrlabs-queue promises its callers about delivery, with no table, *)
(* lock, clock or worker in it: a submitted job has a budget of attempts,  *)
(* the attempts are numbered 1, 2, 3..., each number is handed to one      *)
(* handler and never again, and a handler that gives its attempt back      *)
(* (finished or dead) does not get the number issued a second time.        *)
(* "At-least-once delivery" means more than one number may be out at once. *)
(***************************************************************************)
EXTENDS Naturals

CONSTANTS Jobs, None

VARIABLES
    budget,   \* attempts each job may use; None before it is submitted
    issued,   \* the last attempt number handed out
    out       \* the attempt numbers some handler is working on

vars == <<budget, issued, out>>

Init ==
    /\ budget = [j \in Jobs |-> None]
    /\ issued = [j \in Jobs |-> 0]
    /\ out = [j \in Jobs |-> {}]

Submit(j) ==
    /\ budget[j] = None
    /\ budget'[j] \in Nat
    /\ budget' = [budget EXCEPT ![j] = budget'[j]]
    /\ UNCHANGED <<issued, out>>

\* The next number goes to a handler, or is lost on the way to it.
Issue(j, received) ==
    /\ budget[j] # None
    /\ issued[j] < budget[j]
    /\ issued' = [issued EXCEPT ![j] = @ + 1]
    /\ out' = IF received THEN [out EXCEPT ![j] = @ \cup {issued[j] + 1}] ELSE out
    /\ UNCHANGED budget

Return(j, n) ==
    /\ n \in out[j]
    /\ out' = [out EXCEPT ![j] = @ \ {n}]
    /\ UNCHANGED <<budget, issued>>

Next ==
    \E j \in Jobs :
        \/ Submit(j)
        \/ \E received \in BOOLEAN : Issue(j, received)
        \/ \E n \in out[j] : Return(j, n)

Spec == Init /\ [][Next]_vars
=============================================================================
