--------------------------- MODULE SessionRegistry ---------------------------
(***************************************************************************)
(* What the terminal daemon promises about the table of live sessions      *)
(* (TerminalHost.sessions): under one id there is at most one session at a *)
(* time, a session is never overwritten by another one (it has to leave    *)
(* the table first), and a session that has been in the table never comes  *)
(* back.  TerminalHost implements this specification.                      *)
(***************************************************************************)
CONSTANTS Ids,        \* terminal session ids (the renderer's pane ids)
          Sessions,   \* Session objects that can ever be created
          None        \* no session

VARIABLES registry,   \* [Ids -> Sessions \cup {None}]
          spent       \* the sessions that have been registered so far

vars == <<registry, spent>>

Init == /\ registry = [id \in Ids |-> None]
        /\ spent = {}

\* A fresh session enters the table under an id that is free.
Register(id, s) ==
    /\ registry[id] = None
    /\ s \notin spent
    /\ registry' = [registry EXCEPT ![id] = s]
    /\ spent' = spent \cup {s}

\* The sessions under the ids of D leave the table.
Remove(D) ==
    /\ registry' = [id \in Ids |-> IF id \in D THEN None ELSE registry[id]]
    /\ UNCHANGED spent

Next == \/ \E id \in Ids, s \in Sessions : Register(id, s)
        \/ \E D \in SUBSET Ids : Remove(D)

Spec == Init /\ [][Next]_vars
=============================================================================
