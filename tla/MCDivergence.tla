---------------------------- MODULE MCDivergence ----------------------------
(***************************************************************************)
(* Instances in which the program does something other than what it, or a  *)
(* comment on it, says it does.                                            *)
(***************************************************************************)
EXTENDS DistributedDatabase

\* Two servers of one label each, and documents of which one has the hash of
\* a server.
TwoServers == {1, 2}
TwoHashes == [s \in TwoServers |-> [i \in {0} |-> <<30, 10>>[s]]]
DocsOnPoint == [d \in 1..2 |-> <<30, 40>>[d]]
DocsOffPoint == [d \in 1..2 |-> <<5, 25>>[d]]

\* AcknowledgedEditsAreQueued: an EDIT answered with "has been added to queue"
\* is in the queue of a server.  It is what MSG_A says of every EDIT, also of
\* one that push_task_queue drops because the queue is full.
AcknowledgedEditsAreQueued ==
    [][\A d \in Doc : \A c \in Content :
        Edit(d, c) /\ reply' = Queued(d) =>
            \E s \in live : /\ taskQueue'[s] # <<>>
                            /\ taskQueue'[s] # taskQueue[s]
                            /\ taskQueue'[s][Len(taskQueue'[s])] = [doc |-> d, content |-> c]]_vars
=============================================================================
