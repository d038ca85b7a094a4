---------------------------- MODULE DocumentMoves ----------------------------
(***************************************************************************)
(* Moving documents between two servers as DistributedDatabase sees it: a  *)
(* set of documents that leave, taken one by one in any order, until none  *)
(* is left.  This is what the walks over the lists implement.              *)
(***************************************************************************)
CONSTANT Doc

VARIABLES
    source,     \* the documents of the server that documents leave
    target,     \* the documents of the server that receives them
    leaving,    \* which documents are to leave
    moving      \* whether a walk is going on

movesVars == <<source, target, leaving, moving>>

MovesInit ==
    /\ source = {} /\ target = {} /\ leaving = {}
    /\ moving = FALSE

\* The source executes an EDIT of a new document.
Create(d) ==
    /\ ~ moving
    /\ d \notin source \union target
    /\ source' = source \union {d}
    /\ UNCHANGED <<target, leaving, moving>>

Begin ==
    /\ ~ moving
    /\ leaving' \in SUBSET Doc
    /\ moving' = TRUE
    /\ UNCHANGED <<source, target>>

Move(d) ==
    /\ moving
    /\ d \in source \intersect leaving
    /\ source' = source \ {d}
    /\ target' = target \union {d}
    /\ UNCHANGED <<leaving, moving>>

End ==
    /\ moving
    /\ source \intersect leaving = {}
    /\ moving' = FALSE
    /\ leaving' = {}
    /\ UNCHANGED <<source, target>>

\* The source is freed with what it still stores.
Free(d) ==
    /\ ~ moving
    /\ d \in source
    /\ source' = source \ {d}
    /\ UNCHANGED <<target, leaving, moving>>

\* The documents of the target are taken over by others, and it starts empty.
Renew ==
    /\ ~ moving
    /\ target' = {}
    /\ UNCHANGED <<source, leaving, moving>>

MovesNext ==
    \/ \E d \in Doc : Create(d) \/ Move(d) \/ Free(d)
    \/ Begin \/ End \/ Renew

MovesSpec == MovesInit /\ [][MovesNext]_movesVars
=============================================================================
