--------------------------- MODULE TerminalHostClient ---------------------------
(***************************************************************************)
(* The connection of the desktop app to the terminal daemon                *)
(* (apps/desktop/src/main/lib/terminal-host/client.ts): a control and a    *)
(* stream socket, which calls of ensureConnected() make and authenticate   *)
(* step by step, probes that make the control socket only, and the resets  *)
(* that a closed socket, a failed step or an explicit disconnect lead to.  *)
(* What follows an await up to the next one is one action.                 *)
(*                                                                         *)
(* External: the daemon, which accepts or refuses, answers a hello or not, *)
(* may speak an older protocol, and closes any socket at any time; and the *)
(* start of a daemon.  A missing token file is met like an old protocol.   *)
(* Not here: requests on a connection that is made, calls that only wait   *)
(* for another's attempt (they change nothing), the connection that        *)
(* shutdownIfRunning() makes for itself, and the rebuilt daemon script of  *)
(* development.                                                            *)
(***************************************************************************)
EXTENDS Naturals, FiniteSets

CONSTANTS Connects,       \* calls of ensureConnected()
          Probes,         \* calls of tryConnectAndAuthenticate()
          MaxConnections, \* bound: sockets that are connected
          MaxDisconnects  \* bound: calls of disconnect()

ASSUME ClientBounds == MaxConnections \in Nat /\ MaxDisconnects \in Nat

ClientSockets == 1..MaxConnections
Null == 0
Calls == Connects \cup Probes

VARIABLES
  state,                      \* connectionState
  control, stream,            \* controlSocket, streamSocket, None for null
  controlAuth, streamAuth,    \* controlAuthenticated, streamAuthenticated
  armed,                      \* disconnectArmed
  pc,                         \* what each call awaits
  at,                         \* the socket on which it said hello
  retried,                    \* calls in their second attempt
  opened,                     \* sockets made so far
  live, closeDue,             \* sockets that are open; whose close event is to come
  listeners,                  \* data listeners that setupStreamSocketHandlers() added
  disconnects

fieldVars == <<state, control, stream, controlAuth, streamAuth, armed>>
callVars == <<pc, at, retried>>
socketVars == <<opened, live, closeDue, listeners>>
clientVars == <<fieldVars, callVars, socketVars, disconnects>>

Ready == /\ state = "connected"
         /\ control # Null /\ stream # Null
         /\ controlAuth /\ streamAuth

-----------------------------------------------------------------------------
(* Wrong variants of definitions below, which the properties must tell apart. *)
ForgetButState == /\ control' = Null /\ stream' = Null
                  /\ controlAuth' = FALSE /\ streamAuth' = FALSE /\ UNCHANGED state
HeardOnce(s) == IF \E t \in ClientSockets : listeners[t] > 0 THEN listeners
                ELSE [listeners EXCEPT ![s] = 1]

-----------------------------------------------------------------------------

ClientInit ==
    /\ state = "disconnected"
    /\ control = Null /\ stream = Null
    /\ controlAuth = FALSE /\ streamAuth = FALSE /\ armed = FALSE
    /\ pc = [c \in Calls |-> "idle"]
    /\ at = [c \in Calls |-> Null]
    /\ retried = {}
    /\ opened = 0 /\ live = {} /\ closeDue = {}
    /\ listeners = [s \in ClientSockets |-> 0]
    /\ disconnects = 0

\* The calls whose pending request a reset rejects: they fail with it.
Rejected == {c \in Calls : pc[c] \in {"hello", "probeHello"}}

\* The fields as resetConnectionState() leaves them.
Forget == /\ control' = Null /\ stream' = Null
          /\ controlAuth' = FALSE /\ streamAuth' = FALSE
          /\ state' = "disconnected"

\* resetConnectionState(), by call c if c is one; c awaits "where" afterwards.
ResetConnectionState(c, where) ==
    /\ Forget
    /\ live' = live \ {control, stream}
    /\ closeDue' = closeDue \ {control, stream}
    /\ pc' = [d \in Calls |-> IF d = c THEN where
                              ELSE IF d \in Rejected THEN "idle" ELSE pc[d]]
    /\ at' = [d \in Calls |-> IF d \in Rejected \cup {c} THEN Null ELSE at[d]]

\* A socket is connected.
Connected(s) == /\ opened < MaxConnections /\ opened' = opened + 1 /\ s = opened'
                /\ live' = live \cup {s} /\ UNCHANGED closeDue

SayHello(c, where, s) == pc' = [pc EXCEPT ![c] = where] /\ at' = [at EXCEPT ![c] = s]
GoTo(c, where) == SayHello(c, where, Null)

\* setupStreamSocketHandlers
Heard(s) == [listeners EXCEPT ![s] = @ + 1]

\* The end of connectAndAuthenticate() and of ensureConnected().
Finish(c) ==
    /\ listeners' = IF stream = Null THEN listeners ELSE Heard(stream)
    /\ state' = "connected" /\ armed' = FALSE
    /\ GoTo(c, "idle")

\* connectAndAuthenticate() from its check of the stream socket on; the state is "now".
FromStream(c, now, nowArmed) ==
    \/ /\ stream = Null
       /\ GoTo(c, "stream") /\ streamAuth' = FALSE
       /\ state' = now /\ armed' = nowArmed
       /\ UNCHANGED listeners
    \/ /\ stream # Null /\ ~streamAuth
       /\ SayHello(c, "streamHello", stream)
       /\ state' = now /\ armed' = nowArmed
       /\ UNCHANGED <<streamAuth, listeners>>
    \/ /\ stream # Null /\ streamAuth
       /\ Finish(c) /\ UNCHANGED streamAuth

\* The same from its check of the control socket on, which is now s.
FromControl(c, s, now, nowArmed) ==
    \/ /\ s = Null
       /\ GoTo(c, "control") /\ controlAuth' = FALSE
       /\ state' = now /\ armed' = nowArmed
       /\ UNCHANGED <<streamAuth, listeners>>
    \/ /\ s # Null /\ ~controlAuth
       /\ SayHello(c, "hello", s)
       /\ state' = now /\ armed' = nowArmed
       /\ UNCHANGED <<controlAuth, streamAuth, listeners>>
    \/ /\ s # Null /\ controlAuth
       /\ FromStream(c, now, nowArmed) /\ UNCHANGED controlAuth

-----------------------------------------------------------------------------
(* ensureConnected *)

EnsureConnected(c) ==
    /\ pc[c] = "idle" /\ c \in Connects
    /\ ~Ready /\ state # "connecting"
    /\ FromControl(c, control, "connecting", FALSE)
    /\ retried' = retried \ {c}
    /\ UNCHANGED <<control, stream, opened, live, closeDue, disconnects>>

\* tryConnectControl() succeeds.
ControlConnected(c, s) ==
    /\ pc[c] \in {"control", "controlAgain"}
    /\ Connected(s) /\ control' = s
    /\ FromControl(c, s, state, armed)
    /\ UNCHANGED <<stream, retried, disconnects>>

\* It fails or times out the first time: spawnDaemon().
ControlRefused(c) ==
    /\ pc[c] = "control" /\ GoTo(c, "spawn")
    /\ UNCHANGED <<fieldVars, retried, socketVars, disconnects>>

\* spawnDaemon() has returned: tryConnectControl() destroys what another call may have connected.
Spawned(c) ==
    /\ pc[c] = "spawn" /\ GoTo(c, "controlAgain")
    /\ control' = Null /\ controlAuth' = FALSE
    /\ live' = live \ {control} /\ closeDue' = closeDue \ {control}
    /\ UNCHANGED <<state, armed, stream, streamAuth, retried, opened, listeners, disconnects>>

\* The daemon speaks another protocol or has no token: it is replaced, once.
Mismatch(c) ==
    /\ pc[c] = "hello" /\ c \notin retried
    /\ ResetConnectionState(c, "respawn")
    /\ retried' = retried \cup {c}
    /\ UNCHANGED <<armed, opened, listeners, disconnects>>

\* The old daemon is gone and a new one has started: the second attempt.
Respawned(c) ==
    /\ pc[c] = "respawn"
    /\ FromControl(c, control, state, armed)
    /\ UNCHANGED <<control, stream, retried, opened, live, closeDue, disconnects>>

\* The answer to the hello on the control socket.
HelloAnswered(c) ==
    /\ pc[c] = "hello" /\ at[c] \in live \cup closeDue
    /\ controlAuth' = TRUE
    /\ FromStream(c, state, armed)
    /\ UNCHANGED <<control, stream, retried, opened, live, closeDue, disconnects>>

\* The stream socket is connected; a hello goes out on it, unless another call's has been answered.
StreamConnected(c, s) ==
    /\ pc[c] = "stream"
    /\ Connected(s) /\ stream' = s
    /\ \/ /\ ~streamAuth /\ SayHello(c, "streamHello", s)
          /\ UNCHANGED <<state, armed, listeners>>
       \/ /\ streamAuth
          /\ listeners' = Heard(s)
          /\ state' = "connected" /\ armed' = FALSE
          /\ GoTo(c, "idle")
    /\ UNCHANGED <<control, controlAuth, streamAuth, retried, disconnects>>

StreamHelloAnswered(c) ==
    /\ pc[c] = "streamHello" /\ at[c] \in live \cup closeDue
    /\ streamAuth' = TRUE
    /\ Finish(c)
    /\ UNCHANGED <<control, stream, controlAuth, retried, opened, live, closeDue, disconnects>>

\* What a call awaits fails or times out: the catch blocks of both functions.
StepFails(c) ==
    /\ pc[c] \notin {"idle", "control"}
    /\ ResetConnectionState(c, "idle")
    /\ UNCHANGED <<armed, retried, opened, listeners, disconnects>>

-----------------------------------------------------------------------------
(* tryConnectAndAuthenticate *)

Probe(c) ==
    /\ pc[c] = "idle" /\ c \in Probes
    /\ ~(control # Null /\ controlAuth) /\ state # "connecting"
    /\ state' = "connecting"
    /\ GoTo(c, "probe")
    /\ control' = Null /\ controlAuth' = FALSE
    /\ live' = live \ {control} /\ closeDue' = closeDue \ {control}
    /\ UNCHANGED <<stream, streamAuth, armed, retried, opened, listeners, disconnects>>

ProbeConnected(c, s) ==
    /\ pc[c] = "probe"
    /\ Connected(s) /\ control' = s
    /\ SayHello(c, "probeHello", s)
    /\ UNCHANGED <<state, armed, stream, controlAuth, streamAuth, retried, listeners, disconnects>>

\* The connection may be a control socket only.
ProbeAnswered(c) ==
    /\ pc[c] = "probeHello" /\ at[c] \in live \cup closeDue
    /\ controlAuth' = TRUE /\ state' = "connected"
    /\ GoTo(c, "idle")
    /\ UNCHANGED <<control, stream, streamAuth, armed, retried, socketVars, disconnects>>

-----------------------------------------------------------------------------
(* The end of connections *)

DaemonCloses(s) ==
    /\ s \in live
    /\ live' = live \ {s} /\ closeDue' = closeDue \cup {s}
    /\ UNCHANGED <<fieldVars, callVars, opened, listeners, disconnects>>

\* The handlers ask whether the socket is still in its field.
Concerns(s) == s \in {control, stream}

\* The close handlers and handleDisconnect().
SocketClosed(s) ==
    /\ s \in closeDue
    /\ IF Concerns(s) /\ ~armed
       THEN ResetConnectionState(Null, "idle") /\ armed' = TRUE
       ELSE /\ closeDue' = closeDue \ {s}
            /\ UNCHANGED <<fieldVars, pc, at, live>>
    /\ UNCHANGED <<retried, opened, listeners, disconnects>>

\* disconnect(), with which shutdownIfRunning() ends.
Disconnect ==
    /\ disconnects < MaxDisconnects /\ disconnects' = disconnects + 1
    /\ ResetConnectionState(Null, "idle") /\ armed' = TRUE
    /\ UNCHANGED <<retried, opened, listeners>>

-----------------------------------------------------------------------------

ClientNext ==
    \/ \E c \in Calls : \/ EnsureConnected(c)
                        \/ \E s \in ClientSockets : ControlConnected(c, s) \/ StreamConnected(c, s)
                                              \/ ProbeConnected(c, s)
                        \/ ControlRefused(c) \/ Spawned(c)
                        \/ Mismatch(c) \/ Respawned(c)
                        \/ HelloAnswered(c) \/ StreamHelloAnswered(c) \/ StepFails(c)
                        \/ Probe(c) \/ ProbeAnswered(c)
    \/ \E s \in ClientSockets : DaemonCloses(s) \/ SocketClosed(s)
    \/ Disconnect

ClientSpec == ClientInit /\ [][ClientNext]_clientVars

\* Every await of an attempt but the shutdown of an old daemon has a time-out.
TimesOut(c) == ControlRefused(c) \/ (pc[c] # "respawn" /\ StepFails(c))

ClientFairness == /\ \A c \in Calls : WF_clientVars(TimesOut(c))
                  /\ \A s \in ClientSockets : WF_clientVars(SocketClosed(s))
ClientFairSpec == ClientSpec /\ ClientFairness

-----------------------------------------------------------------------------
(* Properties *)

Steps == {"idle", "control", "controlAgain", "spawn", "respawn", "hello", "stream",
          "streamHello", "probe", "probeHello"}

\* As long as the client says that it is connecting, which makes every other call
\* wait, some call is making the connection.
ConnectingHasTask == state = "connecting" => \E c \in Calls : pc[c] # "idle"

\* The events of a stream that a ready connection uses are heard.
StreamIsHeard == Ready => listeners[stream] > 0

\* Nobody is told that there is an authenticated connection which closed long ago
\* (tryConnectAndAuthenticate: "Returns true if successfully connected and authenticated").
AuthenticatedIsConnected ==
    control # Null /\ controlAuth => control \in live \cup closeDue

\* The first two of them.
ConnectionSound == ConnectingHasTask /\ StreamIsHeard

\* The client does not say for ever that it is connecting.
ConnectingEnds == state = "connecting" ~> state # "connecting"
=============================================================================
