------------------------ MODULE TerminalHostClientProofs ------------------------
(***************************************************************************)
(* The connection of TerminalHostClient is sound for any number of calls,  *)
(* sockets and disconnects.                                                *)
(***************************************************************************)
EXTENDS TerminalHostClient, TLAPS

ConnectionTypes ==
    /\ opened \in 0..MaxConnections
    /\ stream \in 0..opened /\ control \in 0..opened
    /\ pc \in [Calls -> Steps]
    /\ listeners \in [ClientSockets -> Nat]

\* Whoever learns that a stream socket is authenticated listens to the one that is
\* in its field, though the answer may belong to another.
AuthenticatedIsHeard == streamAuth /\ stream # Null => listeners[stream] > 0

ConnectionInv == ConnectionTypes /\ ConnectingHasTask /\ AuthenticatedIsHeard

-----------------------------------------------------------------------------

LEMMA InitConnection == ClientInit => ConnectionInv
  BY ClientBounds DEF ClientInit, ConnectionInv, ConnectionTypes, ConnectingHasTask,
     AuthenticatedIsHeard, Steps, ClientSockets, Null

\* A reset forgets the sockets and whether they were authenticated.
LEMMA ResetConnection ==
  ASSUME ConnectionInv, NEW c, NEW where \in Steps, ResetConnectionState(c, where),
         UNCHANGED <<opened, listeners>>
  PROVE  ConnectionInv'
  BY DEF ResetConnectionState, Forget, ConnectionInv, ConnectionTypes, ConnectingHasTask,
     AuthenticatedIsHeard, Steps, Null

\* A call goes on to another await and leaves the stream alone.
LEMMA CallGoesOn ==
  ASSUME ConnectionInv, NEW c \in Calls, NEW where \in Steps \ {"idle"},
         pc' = [pc EXCEPT ![c] = where],
         opened' \in 0..MaxConnections, opened' >= opened, control' \in 0..opened',
         stream' = stream, streamAuth' => streamAuth, UNCHANGED listeners
  PROVE  ConnectionInv'
<1>1. ConnectionTypes' /\ AuthenticatedIsHeard'
  BY ClientBounds DEF ConnectionInv, ConnectionTypes, AuthenticatedIsHeard
<1>2. pc'[c] # "idle"
  BY DEF ConnectionInv, ConnectionTypes
<1>3. ConnectingHasTask'
  BY <1>2 DEF ConnectingHasTask
<1> QED BY <1>1, <1>3 DEF ConnectionInv

\* A call is done, and the stream it leaves is listened to.
LEMMA CallFinishes ==
  ASSUME ConnectionInv, NEW c \in Calls, Finish(c),
         opened' \in 0..MaxConnections, opened' >= opened, control' \in 0..opened', UNCHANGED stream
  PROVE  ConnectionInv'
<1>1. stream # Null => stream \in ClientSockets
  BY ClientBounds DEF ConnectionInv, ConnectionTypes, ClientSockets, Null
<1>2. listeners' \in [ClientSockets -> Nat] /\ (stream # Null => listeners'[stream] > 0)
  <2>1. listeners \in [ClientSockets -> Nat]
    BY DEF ConnectionInv, ConnectionTypes
  <2> QED BY <1>1, <2>1 DEF Finish, Heard
<1>3. pc' \in [Calls -> Steps]
  BY DEF Finish, GoTo, SayHello, ConnectionInv, ConnectionTypes, Steps
<1>4. ConnectionTypes'
  BY <1>2, <1>3, ClientBounds DEF ConnectionInv, ConnectionTypes
<1>5. AuthenticatedIsHeard' /\ ConnectingHasTask'
  BY <1>2 DEF Finish, AuthenticatedIsHeard, ConnectingHasTask
<1> QED BY <1>4, <1>5 DEF ConnectionInv

LEMMA FromStreamConnection ==
  ASSUME ConnectionInv, NEW c \in Calls, NEW now, NEW nowArmed, FromStream(c, now, nowArmed),
         opened' \in 0..MaxConnections, opened' >= opened, control' \in 0..opened', UNCHANGED stream
  PROVE  ConnectionInv'
<1>1. CASE stream = Null
  BY <1>1, CallGoesOn DEF FromStream, GoTo, SayHello, Steps
<1>2. CASE stream # Null /\ ~streamAuth
  BY <1>2, CallGoesOn DEF FromStream, SayHello, Steps
<1>3. CASE stream # Null /\ streamAuth
  BY <1>3, CallFinishes DEF FromStream
<1> QED BY <1>1, <1>2, <1>3

LEMMA FromControlConnection ==
  ASSUME ConnectionInv, NEW c \in Calls, NEW s, NEW now, NEW nowArmed,
         FromControl(c, s, now, nowArmed),
         opened' \in 0..MaxConnections, opened' >= opened, control' \in 0..opened', UNCHANGED stream
  PROVE  ConnectionInv'
<1>1. CASE s = Null
  BY <1>1, CallGoesOn DEF FromControl, GoTo, SayHello, Steps
<1>2. CASE s # Null /\ ~controlAuth
  BY <1>2, CallGoesOn DEF FromControl, SayHello, Steps
<1>3. CASE s # Null /\ controlAuth
  BY <1>3, FromStreamConnection DEF FromControl
<1> QED BY <1>1, <1>2, <1>3

\* The steps of ensureConnected().
LEMMA ConnectSteps ==
  ASSUME ConnectionInv, NEW c \in Calls,
         \/ EnsureConnected(c) \/ ControlRefused(c) \/ Spawned(c) \/ Mismatch(c) \/ Respawned(c)
         \/ HelloAnswered(c) \/ StreamHelloAnswered(c) \/ StepFails(c)
         \/ \E s \in ClientSockets : ControlConnected(c, s) \/ StreamConnected(c, s)
  PROVE  ConnectionInv'
<1>0. opened \in 0..MaxConnections /\ opened >= opened /\ control \in 0..opened
  BY ClientBounds DEF ConnectionInv, ConnectionTypes
<1>1. CASE EnsureConnected(c)
  BY <1>0, <1>1, FromControlConnection DEF EnsureConnected
<1>2. CASE ControlRefused(c)
  BY <1>0, <1>2, CallGoesOn DEF ControlRefused, GoTo, SayHello, fieldVars, socketVars, Steps
<1>3. CASE Spawned(c)
  <2>1. control' \in 0..opened' /\ opened' = opened
    BY <1>0, <1>3 DEF Spawned, Null, ConnectionInv, ConnectionTypes
  <2> QED BY <1>0, <1>3, <2>1, CallGoesOn DEF Spawned, GoTo, SayHello, Steps
<1>4. CASE Mismatch(c)
  BY <1>4, ResetConnection DEF Mismatch, Steps
<1>5. CASE Respawned(c)
  BY <1>0, <1>5, FromControlConnection DEF Respawned
<1>6. CASE HelloAnswered(c)
  BY <1>0, <1>6, FromStreamConnection DEF HelloAnswered
<1>7. CASE StreamHelloAnswered(c)
  BY <1>0, <1>7, CallFinishes DEF StreamHelloAnswered
<1>8. CASE StepFails(c)
  BY <1>8, ResetConnection DEF StepFails, Steps
<1>9. ASSUME NEW s \in ClientSockets, ControlConnected(c, s) PROVE ConnectionInv'
  <2>1. opened' \in 0..MaxConnections /\ opened' >= opened /\ control' \in 0..opened'
    BY <1>0, <1>9, ClientBounds DEF ControlConnected, Connected, ClientSockets
  <2> QED BY <1>9, <2>1, FromControlConnection DEF ControlConnected
<1>10. ASSUME NEW s \in ClientSockets, StreamConnected(c, s) PROVE ConnectionInv'
  <2>1. opened' = opened + 1 /\ opened' \in 0..MaxConnections /\ s = opened' /\ stream' = s
        /\ UNCHANGED <<control, streamAuth>>
    BY <1>0, <1>10, ClientBounds DEF StreamConnected, Connected, ClientSockets
  <2>2. CASE ~streamAuth /\ SayHello(c, "streamHello", s) /\ UNCHANGED listeners
    <3>1. pc'[c] # "idle"
      BY <2>2 DEF SayHello, ConnectionInv, ConnectionTypes
    <3>2. ConnectionTypes' /\ AuthenticatedIsHeard'
      BY <1>0, <2>1, <2>2 DEF SayHello, ConnectionInv, ConnectionTypes, AuthenticatedIsHeard, Steps
    <3> QED BY <3>1, <3>2 DEF ConnectionInv, ConnectingHasTask
  <2>3. CASE listeners' = Heard(s) /\ state' = "connected" /\ GoTo(c, "idle")
    <3>1. ConnectionTypes' /\ AuthenticatedIsHeard'
      BY <1>0, <2>1, <2>3 DEF GoTo, SayHello, Heard, ConnectionInv, ConnectionTypes,
         AuthenticatedIsHeard, Steps
    <3> QED BY <2>3, <3>1 DEF ConnectionInv, ConnectingHasTask
  <2> QED BY <1>10, <2>2, <2>3 DEF StreamConnected
<1> QED BY <1>1, <1>2, <1>3, <1>4, <1>5, <1>6, <1>7, <1>8, <1>9, <1>10

\* The steps of tryConnectAndAuthenticate().
LEMMA ProbeSteps ==
  ASSUME ConnectionInv, NEW c \in Calls,
         Probe(c) \/ ProbeAnswered(c) \/ \E s \in ClientSockets : ProbeConnected(c, s)
  PROVE  ConnectionInv'
<1>0. opened \in 0..MaxConnections /\ opened >= opened /\ control \in 0..opened
  BY ClientBounds DEF ConnectionInv, ConnectionTypes
<1>1. CASE Probe(c)
  <2>1. control' \in 0..opened' /\ opened' = opened
    BY <1>0, <1>1 DEF Probe, Null, ConnectionInv, ConnectionTypes
  <2> QED BY <1>0, <1>1, <2>1, CallGoesOn DEF Probe, GoTo, SayHello, Steps
<1>2. CASE ProbeAnswered(c)
  BY <1>2 DEF ProbeAnswered, GoTo, SayHello, socketVars, ConnectionInv, ConnectionTypes,
     ConnectingHasTask, AuthenticatedIsHeard, Steps
<1>3. ASSUME NEW s \in ClientSockets, ProbeConnected(c, s) PROVE ConnectionInv'
  <2>1. opened' \in 0..MaxConnections /\ opened' >= opened /\ control' \in 0..opened'
    BY <1>0, <1>3, ClientBounds DEF ProbeConnected, Connected, ClientSockets
  <2> QED BY <1>3, <2>1, CallGoesOn DEF ProbeConnected, SayHello, Steps
<1> QED BY <1>1, <1>2, <1>3

LEMMA ConnectionInvariant == ConnectionInv /\ [ClientNext]_clientVars => ConnectionInv'
<1> SUFFICES ASSUME ConnectionInv, [ClientNext]_clientVars PROVE ConnectionInv'
  OBVIOUS
<1> USE DEF ConnectionInv, ConnectionTypes, ConnectingHasTask, AuthenticatedIsHeard
<1>1. CASE UNCHANGED clientVars
  BY <1>1 DEF clientVars, fieldVars, callVars, socketVars
<1>2. ASSUME NEW s \in ClientSockets, DaemonCloses(s) PROVE ConnectionInv'
  BY <1>2 DEF DaemonCloses, fieldVars, callVars
<1>3. ASSUME NEW s \in ClientSockets, SocketClosed(s) PROVE ConnectionInv'
  <2>1. CASE ResetConnectionState(Null, "idle")
    BY <1>3, <2>1, ResetConnection DEF SocketClosed, Steps
  <2>2. CASE UNCHANGED <<fieldVars, pc, at, live>>
    BY <1>3, <2>2 DEF SocketClosed, fieldVars
  <2> QED BY <1>3, <2>1, <2>2 DEF SocketClosed
<1>4. CASE Disconnect
  BY <1>4, ResetConnection DEF Disconnect, Steps
<1> QED BY <1>1, <1>2, <1>3, <1>4, ConnectSteps, ProbeSteps DEF ClientNext

\* While the client is connecting a call is at work, and a ready connection's
\* stream is heard, however attempts, probes, resets and closed sockets interleave
\* (ensureConnected, tryConnectAndAuthenticate and handleDisconnect, client.ts).
THEOREM ConnectionCorrect == ClientSpec => []ConnectionSound
<1>1. ConnectionInv => ConnectionSound
  BY DEF ConnectionInv, ConnectionSound, StreamIsHeard, AuthenticatedIsHeard, Ready
<1> QED BY <1>1, InitConnection, ConnectionInvariant, PTL DEF ClientSpec
=============================================================================
