----------------------------- MODULE RequestWork ----------------------------
(***************************************************************************)
(* Requests, webhooks and jobs in progress.  Each has read what it goes on *)
(* with, and is the `job` of a handler until it ends.                      *)
(***************************************************************************)
CONSTANT Handlers  \* requests in progress at the same time

VARIABLE work      \* what each handler is doing

Idle == [pc |-> "idle"]
At(h, pc) == work[h].pc = pc
Begin(h, job) == work[h] = Idle /\ work' = [work EXCEPT ![h] = job]
Goto(h, pc) == work' = [work EXCEPT ![h].pc = pc]
Finish(h) == work' = [work EXCEPT ![h] = Idle]
=============================================================================
