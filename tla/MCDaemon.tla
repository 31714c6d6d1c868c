------------------------------- MODULE MCDaemon -------------------------------
(***************************************************************************)
(* Three machines about the terminal daemon in one run: the processes and  *)
(* their files (DaemonStart), the connections of one of them               *)
(* (DaemonServer), and the app's end of a connection (TerminalHostClient). *)
(* Each takes the others to do anything that they might, and they share    *)
(* nothing that the modules speak of; so TLC explores each from its        *)
(* initial states while the others stay in theirs.                         *)
(***************************************************************************)
EXTENDS DaemonStart, DaemonServer, TerminalHostClient

CONSTANT first  \* one of the clients

VARIABLE part  \* the machine that moves

\* All connections of two clients, and failing writes with those of one: clients differ
\* in their names only, and the first to say hello is the first.
Said == {clientState[s].client : s \in {t \in Sockets : clientState[t] # Nobody}}
Narrow == \/ Said \subseteq {first}
          \/ first \in Said /\ fails = 0

MCInit == Init /\ ServerInit /\ ClientInit /\ part \in {"processes", "connections", "client"}

MCNext == /\ UNCHANGED part
          /\ \/ part = "processes" /\ Next /\ UNCHANGED <<serverVars, clientVars>>
             \/ part = "connections" /\ ServerNext /\ Narrow' /\ UNCHANGED <<vars, clientVars>>
             \/ part = "client" /\ ClientNext /\ UNCHANGED <<vars, serverVars>>

\* The initial states of DaemonStart and of the client owe no step, so their fairness
\* asks for nothing while they stay there.
MCSpec == MCInit /\ [][MCNext]_<<vars, serverVars, clientVars, part>>
          /\ Fairness /\ ClientFairness
=============================================================================
