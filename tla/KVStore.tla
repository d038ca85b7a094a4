------------------------------ MODULE KVStore ------------------------------
(***************************************************************************)
(* What the database promises its client, whatever the servers, queues and *)
(* caches behind it: one store in which an EDIT takes effect at once and a *)
(* GET answers with the last content given to the document.                *)
(***************************************************************************)
CONSTANTS Doc, Content, NoContent, NoAnswer

VARIABLES
    store,      \* store[d]: the content of d, NoContent before its first EDIT
    serving,    \* whether there is a server
    answer      \* what this step told the client about a document, if anything

kvVars == <<store, serving, answer>>

Empty == [d \in Doc |-> NoContent]

Answer(d, c) == [doc |-> d, content |-> c]

KVInit == store = Empty /\ serving = FALSE /\ answer = NoAnswer

Put(d, c) ==
    /\ serving
    /\ store' = [store EXCEPT ![d] = c]
    /\ answer' = NoAnswer
    /\ UNCHANGED serving

Get(d) ==
    /\ serving
    /\ answer' = Answer(d, store[d])
    /\ UNCHANGED <<store, serving>>

\* Adding or removing a server, and anything done inside the database.
Internal ==
    /\ serving' \in BOOLEAN
    /\ answer' = NoAnswer
    /\ UNCHANGED store

\* The last server left, or the program ended: nothing is persistent.  This is
\* the only way to lose a document, and it loses all of them.
Forget ==
    /\ serving' = FALSE
    /\ store' = Empty
    /\ answer' = NoAnswer

KVNext ==
    \/ \E d \in Doc, c \in Content : Put(d, c)
    \/ \E d \in Doc : Get(d)
    \/ Internal
    \/ Forget

KVSpec == KVInit /\ [][KVNext]_kvVars
=============================================================================
