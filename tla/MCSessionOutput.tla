---------------------------- MODULE MCSessionOutput ----------------------------
(***************************************************************************)
(* A small instance of SessionOutput for TLC, looked at in two ways:       *)
(*   clients  two sockets and two attaches; one item of output             *)
(*   items    one socket that stays, and one attach; more items            *)
(***************************************************************************)
EXTENDS SessionOutput

CONSTANTS c1, k1

VARIABLE part  \* the way of looking at it

MCInit == Init /\ part \in {"clients", "items"}

\* Bounds on output and on attaches only, which nobody owes.
MCNext == /\ Next /\ UNCHANGED part
          /\ \/ part = "clients" /\ arrived' <= 1
             \/ /\ part = "items" /\ Socks \ {k1} \subseteq open'
                /\ \A c \in Calls : csock'[c] # None => c = c1 /\ csock'[c] = k1

MCSpec == MCInit /\ [][MCNext]_<<vars, part>> /\ Fairness
=============================================================================
