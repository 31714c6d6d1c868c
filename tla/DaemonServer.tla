----------------------------- MODULE DaemonServer -----------------------------
(***************************************************************************)
(* The connections of one terminal daemon                                  *)
(* (apps/desktop/src/main/terminal-host/index.ts): a client says hello on  *)
(* a control and on a stream socket, which clientsById pairs; a hello for  *)
(* a role that is taken replaces the older socket, whose close event comes *)
(* later.  What sessions a socket is attached to is TerminalHost's part,   *)
(* which also models the detachFromAllSessions() of a hello and a close.   *)
(*                                                                         *)
(* External: the clients, which connect, say hello once or again and close *)
(* their sockets at any time.  Not here: refused hellos (another protocol, *)
(* a wrong token, fields that are missing), which change nothing, and the  *)
(* other requests, which read the tables only.                             *)
(***************************************************************************)
EXTENDS Naturals

CONSTANTS Clients,     \* client ids
          MaxSockets,  \* bound: connections ever made
          MaxFails     \* bound: writes that throw

Roles == {"control", "stream"}
Sockets == 1..MaxSockets
NoSocket == 0
Nobody == [client |-> NoSocket, role |-> "none"]

VARIABLES
  clientsById,   \* the control and the stream socket of each client id
  clientState,   \* what the hello on each socket said, Nobody before it
  sockets,       \* the number of sockets connected so far
  open, closing, \* sockets that are open; whose close event is to come
  fails

serverVars == <<clientsById, clientState, sockets, open, closing, fails>>

-----------------------------------------------------------------------------
(* Wrong variants of definitions below, which the properties must tell apart. *)
MatchesAny(s) == clientsById[clientState[s].client][clientState[s].role] # NoSocket
KeepPrevious(s, p) == UNCHANGED <<open, closing>>
CloseTwice(s, p) == /\ open' = open \ {p}
                    /\ closing' = closing \cup {p}

-----------------------------------------------------------------------------

ServerInit ==
    /\ clientsById = [c \in Clients |-> [r \in Roles |-> NoSocket]]
    /\ clientState = [s \in Sockets |-> Nobody]
    /\ sockets = 0 /\ open = {} /\ closing = {} /\ fails = 0

HandleConnection(s) ==
    /\ sockets < MaxSockets /\ s = sockets + 1 /\ sockets' = s
    /\ open' = open \cup {s}
    /\ UNCHANGED <<clientsById, clientState, closing, fails>>

\* The hello on s destroys socket p, which had the role before.
DestroyPrevious(s, p) ==
    IF p \in {NoSocket, s} THEN UNCHANGED <<open, closing>>
    ELSE open' = open \ {p} /\ closing' = closing \cup (open \cap {p})

\* handlers.hello: a client uses a socket for one role, and may say hello on it again.
Hello(s, c, r) ==
    /\ s \in open /\ clientState[s] \in {Nobody, [client |-> c, role |-> r]}
    /\ clientState' = [clientState EXCEPT ![s] = [client |-> c, role |-> r]]
    /\ DestroyPrevious(s, clientsById[c][r])
    /\ clientsById' = [clientsById EXCEPT ![c][r] = s]
    /\ UNCHANGED <<sockets, fails>>

\* The client, or the network, closes a socket.
PeerCloses(s) ==
    /\ s \in open
    /\ open' = open \ {s} /\ closing' = closing \cup {s}
    /\ UNCHANGED <<clientsById, clientState, sockets, fails>>

\* Whether the entry is still the one of s, whose close event has come.
Matches(s) == clientsById[clientState[s].client][clientState[s].role] = s

HandleDisconnect(s) ==
    /\ s \in closing /\ closing' = closing \ {s}
    /\ IF clientState[s] # Nobody /\ Matches(s)
       THEN clientsById' =
               [clientsById EXCEPT ![clientState[s].client][clientState[s].role] = NoSocket]
       ELSE UNCHANGED clientsById
    /\ UNCHANGED <<clientState, sockets, open, fails>>

\* The entry of a client whose stream socket failed keeps the control socket.
WithoutStream(c) == [clientsById EXCEPT ![c]["stream"] = NoSocket]

\* broadcastEventToAllStreamSockets(), where the write to the socket of c throws.
WriteFails(c) ==
    /\ fails < MaxFails /\ fails' = fails + 1
    /\ clientsById[c]["stream"] # NoSocket
    /\ LET s == clientsById[c]["stream"] IN
       open' = open \ {s} /\ closing' = closing \cup {s}
    /\ clientsById' = WithoutStream(c)
    /\ UNCHANGED <<clientState, sockets>>

-----------------------------------------------------------------------------

ServerNext ==
    \/ \E s \in Sockets : \/ HandleConnection(s) \/ PeerCloses(s) \/ HandleDisconnect(s)
                          \/ \E c \in Clients, r \in Roles : Hello(s, c, r)
    \/ \E c \in Clients : WriteFails(c)

ServerSpec == ServerInit /\ [][ServerNext]_serverVars

-----------------------------------------------------------------------------
(* Properties *)

\* The type of every variable; a close event is due once, after the socket was open.
TablesOK ==
    /\ clientsById \in [Clients -> [Roles -> Sockets \cup {NoSocket}]]
    /\ clientState \in [Sockets -> {Nobody} \cup [client : Clients, role : Roles]]
    /\ sockets \in Nat /\ fails \in Nat
    /\ open \cup closing \subseteq {s \in Sockets : s <= sockets}
    /\ open \cap closing = {}

\* An entry names a socket that said hello for it and whose close event has not
\* come: nothing is left of a client that has gone.
EntriesLead ==
    \A c \in Clients, r \in Roles :
        LET s == clientsById[c][r] IN
        s # NoSocket => /\ s \in open \cup closing
                    /\ clientState[s] = [client |-> c, role |-> r]

\* An open socket that said hello is the one in its entry: a replaced socket is
\* closed, and its late close event does not take the entry of the new one.
OpenAreListed ==
    \A s \in open : clientState[s] # Nobody =>
        clientsById[clientState[s].client][clientState[s].role] = s

\* Both directions of the pairing, whatever sockets are replaced, fail or close late.
PairsSound == TablesOK /\ EntriesLead /\ OpenAreListed
=============================================================================
