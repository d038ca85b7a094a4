---------------------------- MODULE BoundedQueue ----------------------------
(***************************************************************************)
(* What the task queue of a server promises: EDITs come out in the order   *)
(* in which they went in, one that finds the queue full is dropped, and a  *)
(* queue that is being emptied takes no new ones.                          *)
(***************************************************************************)
EXTENDS Naturals, Sequences

CONSTANTS Task, Limit, NoTask

VARIABLES
    tasks,      \* the queued EDITs
    executed,   \* the EDIT the latest step executed, or NoTask
    loop        \* "none", "draining" or "freeing"

queueVars == <<tasks, executed, loop>>

QueueInit == tasks = << >> /\ executed = NoTask /\ loop = "none"

Push(t) ==
    /\ loop = "none"
    /\ tasks' = IF Len(tasks) < Limit THEN Append(tasks, t) ELSE tasks
    /\ executed' = NoTask
    /\ UNCHANGED loop

Enter(l) ==
    /\ loop = "none"
    /\ loop' = l
    /\ executed' = NoTask
    /\ UNCHANGED tasks

Take ==
    /\ loop # "none" /\ tasks # << >>
    /\ executed' = IF loop = "draining" THEN Head(tasks) ELSE NoTask
    /\ tasks' = Tail(tasks)
    /\ UNCHANGED loop

\* The last server is freed when it has been drained.
Leave ==
    /\ loop # "none" /\ tasks = << >>
    /\ loop' \in {"none", "freeing"} \ {loop}
    /\ executed' = NoTask
    /\ UNCHANGED tasks

QueueNext ==
    \/ \E t \in Task : Push(t)
    \/ Enter("draining") \/ Enter("freeing")
    \/ Take \/ Leave

QueueSpec == QueueInit /\ [][QueueNext]_queueVars
=============================================================================
