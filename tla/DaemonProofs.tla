------------------------------ MODULE DaemonProofs ------------------------------
(***************************************************************************)
(* The terminal daemon: its processes and their files (DaemonStart), and   *)
(* the connections of one of them (DaemonServer).                          *)
(***************************************************************************)
EXTENDS DaemonStart, DaemonServer, TLAPS

-----------------------------------------------------------------------------
(* The spawn lock *)

\* What the lock depends on: the calls alone.
CallsType == call \in [Callers -> {"idle", "seenStale", "locked", "spawned"}]

LEMMA LockInit == Init => CallsType /\ OneSpawner
  BY DEF Init, CallsType, OneSpawner

LEMMA LockStep == CallsType /\ OneSpawner /\ [Next]_vars => CallsType' /\ OneSpawner'
<1> SUFFICES ASSUME CallsType, OneSpawner, [Next]_vars
             PROVE  CallsType' /\ OneSpawner'
  OBVIOUS
<1> USE DEF CallsType, OneSpawner
<1>0. ASSUME NEW c \in Callers, Launch(c), call[c] # "spawned"
      PROVE  CallsType' /\ OneSpawner'
  <2>1. CASE lock # "none" /\ call' = [call EXCEPT ![c] = "locked"] /\ UNCHANGED lock
    <3>1. \A e \in Callers : call'[e] = "spawned" <=> call[e] = "spawned"
      BY <1>0, <2>1
    <3>2. CallsType'
      BY <2>1
    <3>3. QED
      BY <2>1, <3>1, <3>2
  <2>2. CASE lock = "none" /\ lock' = "held" /\ call' = [call EXCEPT ![c] = "spawned"]
    <3>1. \A e \in Callers : call[e] # "spawned"
      BY <2>2
    <3>2. \A e \in Callers : call'[e] = "spawned" <=> e = c
      BY <2>2, <3>1
    <3>3. CallsType'
      BY <2>2
    <3>4. QED
      BY <2>2, <3>2, <3>3
  <2>3. \/ lock # "none" /\ call' = [call EXCEPT ![c] = "locked"] /\ UNCHANGED lock
        \/ lock = "none" /\ lock' = "held" /\ call' = [call EXCEPT ![c] = "spawned"]
    BY <1>0 DEF Launch
  <2>4. QED
    BY <2>1, <2>2, <2>3
<1>1. CASE \E c \in Callers : SpawnDaemon(c)
  <2>1. PICK c \in Callers : SpawnDaemon(c)
    BY <1>1
  <2>2. CASE Launch(c)
    BY <1>0, <2>1, <2>2 DEF SpawnDaemon
  <2>3. CASE call' = [call EXCEPT ![c] = "seenStale"] /\ UNCHANGED lock
    <3>1. \A e \in Callers : call'[e] = "spawned" <=> call[e] = "spawned"
      BY <2>1, <2>3 DEF SpawnDaemon
    <3>2. CallsType'
      BY <2>3
    <3>3. QED
      BY <2>3, <3>1, <3>2
  <2>4. QED
    BY <2>1, <2>2, <2>3 DEF SpawnDaemon
<1>2. CASE \E c \in Callers : RemoveStale(c)
  BY <1>0, <1>2 DEF RemoveStale
<1>3. CASE \E c \in Callers : WaitEnds(c)
  <2>1. PICK c \in Callers : WaitEnds(c)
    BY <1>3
  <2>2. call' = [call EXCEPT ![c] = "idle"] /\ lock' = IF call[c] = "spawned" THEN "none" ELSE lock
    BY <2>1 DEF WaitEnds, Release
  <2>3. \A e \in Callers : call'[e] = "spawned" <=> e # c /\ call[e] = "spawned"
    BY <2>2
  <2>4. QED
    BY <2>2, <2>3
<1>4. CASE LockExpires
  BY <1>4 DEF LockExpires
<1>5. CASE \E d \in Daemons : \/ StartStep(d) \/ StopStep(d)
                              \/ ClientConnects(d) \/ ClientLeaves(d)
                              \/ ShutdownOnce(d) \/ ShutdownRequest(d) \/ Crash(d)
  <2>1. UNCHANGED spawnVars
    BY <1>5 DEF StartStep, StopStep, LookAtPath, AnotherRuns, UnlinkStale, Bind, Serve, CloseServer,
                ServerClosed, RemoveFiles, ForceExit, ClientConnects, ClientLeaves, ShutdownOnce,
                ShutdownRequest, Crash
  <2>2. QED
    BY <2>1 DEF spawnVars
<1>6. CASE UNCHANGED vars
  BY <1>6 DEF vars, spawnVars
<1>7. QED
  BY <1>1, <1>2, <1>3, <1>4, <1>5, <1>6 DEF Next

\* Whatever calls overlap, at most one of them awaits a daemon that it has started,
\* and the spawn lock is held exactly then (acquireSpawnLock, releaseSpawnLock).
THEOREM OneSpawnerCorrect == Spec => []OneSpawner
<1>1. CallsType /\ OneSpawner /\ [Next]_vars => CallsType' /\ OneSpawner'
  BY LockStep
<1>2. QED
  BY LockInit, <1>1, PTL DEF Spec

-----------------------------------------------------------------------------
(* Retries of one call over a stale socket, where nothing ends a daemon *)

\* Who awaits something has been called.
Retries == /\ CallsType /\ ends \in Nat
           /\ \A c \in Callers : call[c] # "idle" => c \in called

\* Retries is inductive, and what is alone was alone before.
LEMMA RetriesStep ==
  ASSUME Retries, [Next]_vars
  PROVE  Retries' /\ (Alone' => Alone /\ UNCHANGED ends)
<1> USE DEF Retries, CallsType, Alone
<1>1. ASSUME NEW c \in Callers, SpawnDaemon(c)
      PROVE  Retries' /\ (Alone' => Alone /\ UNCHANGED ends)
  BY <1>1 DEF SpawnDaemon, Launch
<1>2. ASSUME NEW c \in Callers, RemoveStale(c) \/ WaitEnds(c)
      PROVE  Retries' /\ (Alone' => Alone /\ UNCHANGED ends)
  BY <1>2 DEF RemoveStale, Launch, WaitEnds
<1>3. CASE LockExpires
  BY <1>3 DEF LockExpires
<1>4. ASSUME NEW d \in Daemons, \/ StartStep(d) \/ StopStep(d)
                                \/ ClientConnects(d) \/ ClientLeaves(d)
      PROVE  Retries' /\ (Alone' => Alone /\ UNCHANGED ends)
  <2>1. UNCHANGED <<call, ends, called>>
    BY <1>4 DEF StartStep, StopStep, LookAtPath, AnotherRuns, UnlinkStale, Bind, Serve, CloseServer,
                ServerClosed, RemoveFiles, ForceExit, ClientConnects, ClientLeaves, spawnVars
  <2>2. QED
    BY <2>1
<1>5. ASSUME NEW d \in Daemons, ShutdownOnce(d) \/ ShutdownRequest(d) \/ Crash(d)
      PROVE  Retries' /\ (Alone' => Alone /\ UNCHANGED ends)
  <2>1. UNCHANGED <<call, called>> /\ ends' = ends + 1
    BY <1>5 DEF ShutdownOnce, ShutdownRequest, Crash, Ends, spawnVars
  <2>2. QED
    BY <2>1
<1>6. CASE UNCHANGED vars
  BY <1>6 DEF vars, spawnVars
<1>7. QED
  BY <1>1, <1>2, <1>3, <1>4, <1>5, <1>6 DEF Next

Starting == {"unborn", "starting", "seenLive", "bind", "bound", "serving", "dead"}

StaleFile == sock # None /\ ~Listening(sock)

\* The socket that an earlier daemon left is seen by calls only, and only before the
\* first daemon starts; after that the file is there exactly if its owner listens.
Calm ==
    /\ sock \in {None} \cup Daemons /\ made \in 0..MaxDaemons
    /\ proc \in [Daemons -> Starting] /\ forced = {}
    /\ \A d \in Daemons : proc[d] \in {"bound", "serving"} => sock = d
    /\ StaleFile => \A d \in Daemons : ~Alive(d)
    /\ \A c \in Callers : call[c] = "seenStale" => StaleFile

LEMMA CalmInit == Init => Retries /\ Calm
<1> SUFFICES ASSUME Init PROVE Retries /\ Calm
  OBVIOUS
<1>1. sock \in {None} \cup Daemons /\ made \in 0..MaxDaemons
  BY StartAssumption DEF Init, Daemons, None
<1>2. QED
  BY <1>1 DEF Init, Retries, Calm, CallsType, Starting, StaleFile, Alive, Listening

LEMMA CalmStep ==
  ASSUME Retries, Alone => Calm, [Next]_vars, Alone'
  PROVE  Calm'
<1>0. Calm /\ UNCHANGED ends /\ Retries'
  BY RetriesStep
<1> USE DEF Calm, CallsType, Starting, StaleFile, Alive, Listening
<1>1. Daemons \subseteq Nat \ {0} /\ None = 0 /\ MaxDaemons \in Nat
  BY StartAssumption DEF Daemons, None
<1>2. ASSUME NEW c \in Callers, Launch(c), sock' = None, StaleFile \/ sock = None,
             \A d \in Daemons : proc[d] \notin {"bound", "serving"}, UNCHANGED forced
      PROVE  Calm'
  <2>1. made' \in 0..MaxDaemons /\ (made' # made => made' \in Daemons)
    BY <1>0, <1>1, <1>2 DEF Launch, Daemons
  <2>2. \A e \in Callers : call'[e] # "seenStale"
    <3>1. call'[c] # "idle" /\ call'[c] # "seenStale"
      BY <1>0, <1>2 DEF Launch, Retries
    <3>2. \A e \in Callers : call'[e] # "idle" => e = c
      BY <1>0, <3>1 DEF Retries, Alone
    <3>3. QED
      BY <3>1, <3>2
  <2>3. proc' \in [Daemons -> Starting]
        /\ \A d \in Daemons : proc'[d] \notin {"bound", "serving"}
    BY <1>0, <1>2, <2>1 DEF Launch
  <2>4. QED
    BY <1>0, <1>2, <2>1, <2>2, <2>3
<1>3. CASE \E c \in Callers : SpawnDaemon(c)
  <2>1. PICK c \in Callers : SpawnDaemon(c)
    BY <1>0, <1>3
  <2>2. CASE sock = None /\ Launch(c)
    <3>1. \A d \in Daemons : proc[d] \notin {"bound", "serving"}
      BY <1>0, <1>1, <2>2
    <3>2. QED
      BY <1>0, <1>2, <2>1, <2>2, <3>1 DEF SpawnDaemon, stopVars
  <2>3. CASE sock # None /\ call' = [call EXCEPT ![c] = "seenStale"]
             /\ UNCHANGED <<pidFile, lock, made, proc>>
    BY <1>0, <2>1, <2>3 DEF SpawnDaemon, stopVars
  <2>4. QED
    BY <1>0, <2>1, <2>2, <2>3 DEF SpawnDaemon, stopVars
<1>4. CASE \E c \in Callers : RemoveStale(c)
  <2>1. PICK c \in Callers : RemoveStale(c)
    BY <1>0, <1>4
  <2>2. \A d \in Daemons : proc[d] \notin {"bound", "serving"}
    BY <1>0, <2>1 DEF RemoveStale, stopVars
  <2>3. QED
    BY <1>0, <1>2, <2>1, <2>2 DEF RemoveStale, stopVars
<1>5. CASE \E c \in Callers : WaitEnds(c)
  BY <1>0, <1>5 DEF WaitEnds, Release, fileVars, stopVars
<1>6. CASE LockExpires
  BY <1>0, <1>6 DEF LockExpires, fileVars, stopVars
<1>7. ASSUME NEW d \in Daemons, StartStep(d)
      PROVE  Calm'
  <2>1. Alive(d) /\ ~StaleFile /\ (\A c \in Callers : call[c] # "seenStale") /\ UNCHANGED spawnVars
    BY <1>0, <1>7 DEF StartStep, LookAtPath, AnotherRuns, UnlinkStale, Bind, Serve
  <2>2. CASE LookAtPath(d)
    BY <1>0, <2>1, <2>2 DEF LookAtPath, Found, fileVars, spawnVars, stopVars
  <2>3. CASE AnotherRuns(d)
    BY <1>0, <2>1, <2>3 DEF AnotherRuns, fileVars, spawnVars, stopVars
  <2>4. CASE UnlinkStale(d)
    BY <1>0, <2>4 DEF UnlinkStale
  <2>5. CASE Bind(d)
    BY <1>0, <1>1, <2>1, <2>5 DEF Bind, spawnVars, stopVars
  <2>6. CASE Serve(d)
    BY <1>0, <2>1, <2>6 DEF Serve, spawnVars, stopVars
  <2>7. QED
    BY <1>0, <1>7, <2>2, <2>3, <2>4, <2>5, <2>6 DEF StartStep
<1>8. ASSUME NEW d \in Daemons, StopStep(d)
      PROVE  Calm'
  BY <1>0, <1>8 DEF StopStep, CloseServer, ServerClosed, RemoveFiles, ForceExit
<1>9. ASSUME NEW d \in Daemons, ClientConnects(d) \/ ClientLeaves(d)
      PROVE  Calm'
  BY <1>0, <1>9 DEF ClientConnects, ClientLeaves, fileVars, spawnVars, stopVars
<1>10. ASSUME NEW d \in Daemons, ShutdownOnce(d) \/ ShutdownRequest(d) \/ Crash(d)
       PROVE  Calm'
  BY <1>0, <1>10 DEF ShutdownOnce, ShutdownRequest, Crash, Ends, Retries
<1>11. CASE UNCHANGED vars
  BY <1>0, <1>11 DEF vars, fileVars, spawnVars, stopVars
<1>12. QED
  BY <1>0, <1>3, <1>4, <1>5, <1>6, <1>7, <1>8, <1>9, <1>10, <1>11 DEF Next

\* However often one call is retried over a socket that a crashed daemon left, and
\* however slow the daemons are that it starts: who serves is reached by the path
\* (startServer, spawnDaemon).
THEOREM NoOrphanCorrect == Spec => []NoOrphan
<1>1. Init => Retries /\ (Alone => Calm)
  BY CalmInit
<1>2. Retries /\ (Alone => Calm) /\ [Next]_vars => Retries' /\ (Alone => Calm)'
  BY CalmStep, RetriesStep
<1>3. (Alone => Calm) => NoOrphan
  BY DEF Calm, NoOrphan
<1>4. QED
  BY <1>1, <1>2, <1>3, PTL DEF Spec

-----------------------------------------------------------------------------
(* The type of every variable, with what each file, timer and client belongs to *)

\* A server that is being closed, and one that has a socket.
Stopping == {"disposing", "closing", "closed"}
Reachable == {"bound", "serving"} \cup Stopping

\* Only a daemon that shuts down has a timer that forces its exit, only one that has a
\* server has clients; and a third call of stopServer() is that of a signal, which comes once.
Belongs ==
    /\ \A d \in Daemons : Alive(d) => d <= made
    /\ \A d \in forced : proc[d] \in Stopping
    /\ \A d \in users : proc[d] \in Reachable
    /\ \A d \in Daemons : d \notin shutting => stops[d] <= 2

TypeInv == TypeOK /\ Belongs

LEMMA DaemonsAreNumbers == Daemons = 1..MaxDaemons /\ MaxDaemons \in Nat \ {0}
  BY StartAssumption DEF Daemons

LEMMA TypeInit == Init => TypeInv
<1> SUFFICES ASSUME Init PROVE TypeInv
  OBVIOUS
<1>1. sock \in {0, 1} /\ (sock = 1 => 1 \in Daemons) /\ made = sock /\ pidFile = sock
  BY DaemonsAreNumbers DEF Init, None
<1>2. \A d \in Daemons : ~Alive(d)
  BY DEF Init, Alive
<1> QED BY <1>1, <1>2, DaemonsAreNumbers, StartAssumption DEF Init, TypeInv, TypeOK, Belongs

\* A step of daemon d alone
LEMMA TypeMoves ==
  ASSUME TypeInv, NEW d \in Daemons, Alive(d), NEW p,
         p \in {"seenLive", "seenStale", "bind", "bound", "serving", "disposing", "closing",
                "closed", "dead"},
         proc' = [proc EXCEPT ![d] = p],
         sock' \in {sock, None, d}, pidFile' \in {pidFile, None, d},
         stops' = stops \/ (/\ stops' = [stops EXCEPT ![d] = @ + 1]
                            /\ stops[d] < 2 \/ (d \notin shutting /\ d \in shutting')),
         shutting \subseteq shutting', shutting' \subseteq shutting \cup {d},
         forced' \subseteq forced \cup {d}, d \in forced' => p \in Stopping,
         users' \subseteq users \cup {d}, d \in users' => p \in Reachable,
         UNCHANGED spawnVars, ends' \in 0..MaxEnds, called' = called
  PROVE  TypeInv'
<1> USE DEF TypeInv, TypeOK, Belongs, spawnVars
<1>1. d \in 1..made /\ made \in Nat /\ made' = made
  BY DaemonsAreNumbers
<1>2. \A e \in Daemons : proc'[e] = IF e = d THEN p ELSE proc[e]
  OBVIOUS
<1>3. \A e \in Daemons : Alive(e)' <=> IF e = d THEN p # "dead" ELSE Alive(e)
  BY <1>2 DEF Alive
<1>4. proc' \in [Daemons -> {"unborn", "starting", "seenLive", "seenStale", "bind", "bound",
                             "serving", "disposing", "closing", "closed", "dead"}]
  OBVIOUS
<1>5. /\ stops' \in [Daemons -> 0..3]
      /\ \A e \in Daemons : e \notin shutting' => stops'[e] <= 2
  <2>1. CASE stops' = stops
    BY <2>1
  <2>2. CASE /\ stops' = [stops EXCEPT ![d] = @ + 1]
             /\ stops[d] < 2 \/ (d \notin shutting /\ d \in shutting')
    <3>1. stops[d] \in 0..2 /\ (d \notin shutting' => stops[d] \in 0..1)
      BY <2>2
    <3>2. /\ stops'[d] \in 1..3 /\ (d \notin shutting' => stops'[d] \in 1..2)
          /\ \A e \in Daemons \ {d} : stops'[e] = stops[e]
      BY <2>2, <3>1
    <3>3. stops' \in [Daemons -> 0..3]
      BY <2>2, <3>2
    <3>4. ASSUME NEW e \in Daemons, e \notin shutting' PROVE stops'[e] <= 2
      <4>1. CASE e = d
        BY <3>2, <3>4, <4>1
      <4>2. CASE e # d
        <5>1. e \notin shutting /\ stops'[e] = stops[e]
          BY <3>2, <3>4, <4>2
        <5> QED BY <5>1
      <4> QED BY <4>1, <4>2
    <3> QED BY <3>3, <3>4
  <2> QED BY <2>1, <2>2
<1>6. sock' \in 0..made /\ pidFile' \in 0..made
  BY <1>1 DEF None
<1>7. /\ \A e \in forced' : e \in Daemons /\ proc'[e] \in Stopping
      /\ \A e \in users' : e \in Daemons /\ proc'[e] \in Reachable
  BY <1>2
<1>8. \A e \in forced' \cup users' : e \in Daemons /\ Alive(e)'
  BY <1>7 DEF Alive, Reachable, Stopping
<1>9. shutting' \subseteq 1..made
  BY <1>1
<1>10. \A e \in Daemons : Alive(e)' => e <= made
  BY <1>1, <1>3
<1> QED BY <1>1, <1>4, <1>5, <1>6, <1>7, <1>8, <1>9, <1>10

\* A step of a call, which may start the next daemon
LEMMA TypeCalls ==
  ASSUME TypeInv, NEW c \in Callers, UNCHANGED <<stopVars, users, ends>>,
         sock' \in {sock, None}, pidFile' \in {pidFile, None},
         call' \in [Callers -> {"idle", "seenStale", "locked", "spawned"}],
         lock' \in {"none", "held", "left"}, called' \subseteq Callers,
         \/ UNCHANGED <<made, proc>>
         \/ /\ made < MaxDaemons /\ made' = made + 1
            /\ proc' = [proc EXCEPT ![made'] = "starting"]
  PROVE  TypeInv'
<1> USE DaemonsAreNumbers DEF TypeInv, TypeOK, Belongs, stopVars
<1>1. made' \in 0..MaxDaemons /\ made \in Nat /\ made <= made'
  OBVIOUS
<1>2. sock' \in 0..made' /\ pidFile' \in 0..made' /\ shutting' \subseteq 1..made'
  BY <1>1 DEF None
<1>3. CASE UNCHANGED <<made, proc>>
  BY <1>2, <1>3 DEF Alive
<1>4. CASE made < MaxDaemons /\ made' = made + 1 /\ proc' = [proc EXCEPT ![made'] = "starting"]
  <2>1. made' \in Daemons /\ ~Alive(made')
    BY <1>1, <1>4
  <2>2. \A d \in Daemons : proc'[d] = IF d = made' THEN "starting" ELSE proc[d]
    BY <1>4, <2>1
  <2>3. \A d \in forced \cup users : d \in Daemons /\ d # made' /\ Alive(d)
    BY <2>1
  <2>4. \A d \in Daemons : Alive(d)' => d <= made'
    BY <1>1, <1>4, <2>2 DEF Alive
  <2>5. proc' \in [Daemons -> {"unborn", "starting", "seenLive", "seenStale", "bind", "bound",
                               "serving", "disposing", "closing", "closed", "dead"}]
    BY <1>4, <2>1
  <2>6. \A d \in forced \cup users : Alive(d)' /\ proc'[d] = proc[d]
    BY <2>2, <2>3 DEF Alive
  <2> QED BY <1>1, <1>2, <2>3, <2>4, <2>5, <2>6
<1> QED BY <1>3, <1>4

LEMMA TypeStep == TypeInv /\ [Next]_vars => TypeInv'
<1> SUFFICES ASSUME TypeInv, [Next]_vars PROVE TypeInv'
  OBVIOUS
<1>0. ends \in 0..MaxEnds /\ MaxEnds \in Nat /\ called \subseteq Callers
      /\ lock \in {"none", "held", "left"}
      /\ call \in [Callers -> {"idle", "seenStale", "locked", "spawned"}]
  BY StartAssumption DEF TypeInv, TypeOK
<1>1. ASSUME NEW c \in Callers, SpawnDaemon(c) \/ RemoveStale(c) \/ WaitEnds(c) PROVE TypeInv'
  <2>1. /\ UNCHANGED <<stopVars, users, ends>>
        /\ sock' \in {sock, None} /\ pidFile' \in {pidFile, None}
        /\ call' \in [Callers -> {"idle", "seenStale", "locked", "spawned"}]
        /\ lock' \in {"none", "held", "left"} /\ called' \subseteq Callers
    BY <1>0, <1>1 DEF SpawnDaemon, RemoveStale, WaitEnds, Launch, Release, fileVars
  <2>2. \/ UNCHANGED <<made, proc>>
        \/ /\ made < MaxDaemons /\ made' = made + 1
           /\ proc' = [proc EXCEPT ![made'] = "starting"]
    BY <1>1 DEF SpawnDaemon, RemoveStale, WaitEnds, Launch
  <2> QED BY <2>1, <2>2, TypeCalls
<1>2. CASE LockExpires
  BY <1>2 DEF LockExpires, TypeInv, TypeOK, Belongs, Alive, fileVars, stopVars
<1>3. ASSUME NEW d \in Daemons, StartStep(d) PROVE TypeInv'
  <2>1. /\ Alive(d) /\ proc[d] \notin Stopping /\ d \notin forced
        /\ proc[d] \in Reachable => proc[d] = "bound"
        /\ d \in users => proc[d] = "bound"
        /\ UNCHANGED <<stopVars, users, ends, spawnVars, called>>
    BY <1>3 DEF StartStep, LookAtPath, AnotherRuns, UnlinkStale, Bind, Serve, Alive, Stopping,
                Reachable, TypeInv, Belongs
  <2>2. sock' \in {sock, None, d} /\ pidFile' \in {pidFile, None, d}
    BY <1>3 DEF StartStep, LookAtPath, AnotherRuns, UnlinkStale, Bind, Serve, fileVars
  <2>3. \E p \in {"seenLive", "seenStale", "bind", "bound", "serving", "dead"} :
           /\ proc' = [proc EXCEPT ![d] = p]
           /\ proc[d] = "bound" => p = "serving"
    BY <1>3 DEF StartStep, LookAtPath, Found, AnotherRuns, UnlinkStale, Bind, Serve
  <2> QED BY <1>0, <2>1, <2>2, <2>3, TypeMoves DEF Reachable, stopVars
<1>4. ASSUME NEW d \in Daemons, StopStep(d) PROVE TypeInv'
  <2>1. proc[d] \in Stopping
    BY <1>4 DEF StopStep, CloseServer, ServerClosed, RemoveFiles, ForceExit, Stopping, TypeInv, Belongs
  <2>2. /\ Alive(d) /\ UNCHANGED <<stops, shutting, ends, spawnVars, called>>
        /\ sock' \in {sock, None} /\ pidFile' \in {pidFile, None}
        /\ forced' \subseteq forced /\ users' \subseteq users
    BY <1>4, <2>1 DEF StopStep, CloseServer, ServerClosed, RemoveFiles, ForceExit, Exit, Stopping,
                Alive, fileVars, stopVars
  <2>3. \E p \in {"closing", "closed", "dead"} :
           /\ proc' = [proc EXCEPT ![d] = p]
           /\ p = "dead" => d \notin forced' /\ d \notin users'
    BY <1>4 DEF StopStep, CloseServer, ServerClosed, RemoveFiles, ForceExit, Exit
  <2> QED BY <1>0, <2>2, <2>3, TypeMoves DEF Reachable, Stopping
<1>5. ASSUME NEW d \in Daemons, ClientConnects(d) \/ ClientLeaves(d) PROVE TypeInv'
  <2>1. /\ UNCHANGED <<fileVars, spawnVars, proc, stopVars, ends, called>>
        /\ users' \subseteq users \cup {d}
        /\ d \in users' => proc[d] \in Reachable
    BY <1>5 DEF ClientConnects, ClientLeaves, Listening, Reachable, Stopping, TypeInv, Belongs
  <2>2. \A e \in users' : e \in Daemons /\ proc[e] \in Reachable /\ Alive(e)
    BY <2>1 DEF TypeInv, TypeOK, Belongs, Reachable, Stopping, Alive
  <2> QED BY <2>1, <2>2 DEF TypeInv, TypeOK, Belongs, Alive, fileVars, spawnVars, stopVars
<1>6. ASSUME NEW d \in Daemons, ShutdownOnce(d) \/ ShutdownRequest(d) \/ Crash(d) PROVE TypeInv'
  <2>1. ends' \in 0..MaxEnds /\ UNCHANGED <<fileVars, spawnVars, called>> /\ Alive(d)
    BY <1>0, <1>6 DEF ShutdownOnce, ShutdownRequest, Crash, Ends, Alive
  <2>2. CASE Crash(d)
    <3>1. /\ proc' = [proc EXCEPT ![d] = "dead"] /\ UNCHANGED <<stops, shutting>>
          /\ forced' = forced \ {d} /\ users' = users \ {d}
      BY <2>2 DEF Crash, Exit
    <3> QED BY <2>1, <3>1, TypeMoves DEF fileVars
  <2>3. ASSUME StopServer(d), users' = users,
               proc[d] \in {"seenLive", "seenStale", "serving", "disposing", "closing"}
        PROVE  \E p \in Stopping :
                  /\ proc' = [proc EXCEPT ![d] = p] /\ p \in Reachable
    BY <2>3 DEF StopServer, Stopping, Reachable
  <2>4. CASE ShutdownOnce(d)
    <3>1. PICK p \in Stopping : proc' = [proc EXCEPT ![d] = p] /\ p \in Reachable
      BY <2>3, <2>4 DEF ShutdownOnce
    <3>2. /\ users' = users /\ forced' = forced \cup {d}
          /\ d \notin shutting /\ shutting' = shutting \cup {d}
          /\ stops' = [stops EXCEPT ![d] = @ + 1]
      BY <2>4 DEF ShutdownOnce, ArmForceExit, StopServer
    <3> QED BY <2>1, <3>1, <3>2, TypeMoves DEF Stopping, fileVars
  <2>5. CASE ShutdownRequest(d)
    <3>1. PICK p \in Stopping : proc' = [proc EXCEPT ![d] = p] /\ p \in Reachable
      BY <2>3, <2>5 DEF ShutdownRequest
    <3>2. /\ UNCHANGED <<users, forced, shutting>> /\ stops[d] < 2
          /\ stops' = [stops EXCEPT ![d] = @ + 1]
      BY <2>5 DEF ShutdownRequest, StopServer
    <3> QED BY <2>1, <3>1, <3>2, TypeMoves DEF Stopping, fileVars
  <2> QED BY <1>6, <2>2, <2>4, <2>5
<1>7. CASE UNCHANGED vars
  BY <1>7 DEF vars, fileVars, spawnVars, stopVars, TypeInv, TypeOK, Belongs, Alive
<1> QED BY <1>1, <1>2, <1>3, <1>4, <1>5, <1>6, <1>7 DEF Next

\* Files name daemons that were started, and timers and clients belong to processes that
\* are alive: the pid of no other process is ever taken for that of the daemon.
THEOREM DaemonTypeCorrect == Spec => []TypeOK
<1>1. TypeInv => TypeOK
  BY DEF TypeInv
<1> QED BY <1>1, TypeInit, TypeStep, PTL DEF Spec

-----------------------------------------------------------------------------
(* The connections of one daemon *)

\* A socket that has not been made has said nothing.
UnmadeSilent == \A s \in Sockets : s > sockets => clientState[s] = Nobody

PairsInv == TablesOK /\ UnmadeSilent /\ EntriesLead /\ OpenAreListed

Ids == [client : Clients, role : Roles]

\* What a socket said, once it said hello, is an id and no longer Nobody.
LEMMA SocketsAreNumbers == Sockets \subseteq Nat \ {NoSocket}
  BY DEF Sockets, NoSocket

LEMMA NobodyIsNoId == Nobody \notin Ids
<1>1. Nobody.role \notin Roles
  BY DEF Nobody, Roles
<1>2. QED
  BY <1>1 DEF Ids

LEMMA PairsInit == ServerInit => PairsInv
<1> SUFFICES ASSUME ServerInit PROVE PairsInv
  OBVIOUS
<1>1. TablesOK /\ UnmadeSilent
  BY DEF ServerInit, TablesOK, UnmadeSilent
<1>2. EntriesLead /\ OpenAreListed
  BY DEF ServerInit, EntriesLead, OpenAreListed
<1>3. QED
  BY <1>1, <1>2 DEF PairsInv

LEMMA ConnectionStep ==
  ASSUME PairsInv, NEW s \in Sockets, HandleConnection(s)
  PROVE  PairsInv'
<1> USE DEF PairsInv, HandleConnection
<1>1. TablesOK'
  <2>1. sockets \in Nat /\ sockets' = sockets + 1 /\ s = sockets + 1 /\ s \in Sockets
    BY DEF TablesOK
  <2>2. \A t \in Sockets : t <= sockets => t # s /\ t <= sockets'
    BY <2>1, SocketsAreNumbers
  <2>3. open' \cup closing' \subseteq {t \in Sockets : t <= sockets'}
    <3>1. s <= sockets'
      BY <2>1
    <3>2. open' \cup closing' = (open \cup closing) \cup {s}
      OBVIOUS
    <3>3. open \cup closing \subseteq {t \in Sockets : t <= sockets}
      BY DEF TablesOK
    <3>4. QED
      BY <2>1, <2>2, <3>1, <3>2, <3>3
  <2>4. open' \cap closing' = {}
    BY <2>2 DEF TablesOK
  <2>5. QED
    BY <2>1, <2>3, <2>4 DEF TablesOK
<1>2. UnmadeSilent'
  BY SocketsAreNumbers DEF UnmadeSilent, TablesOK
<1>3. EntriesLead'
  BY DEF EntriesLead
<1>4. clientState[s] = Nobody
  BY SocketsAreNumbers DEF UnmadeSilent, TablesOK
<1>5. OpenAreListed'
  BY <1>4 DEF OpenAreListed
<1>6. QED
  BY <1>1, <1>2, <1>3, <1>5

\* Sockets close, and entries of sockets that are not open any more may go.
LEMMA ClosingStep ==
  ASSUME PairsInv, NEW s \in Sockets, s <= sockets,
         open' = open \ {s}, closing' \in {closing \cup {s}, closing \ {s}},
         UNCHANGED <<clientState, sockets>>, fails' \in Nat,
         clientsById' \in [Clients -> [Roles -> Sockets \cup {NoSocket}]],
         \A c \in Clients, r \in Roles :
            \/ clientsById'[c][r] = clientsById[c][r]
            \/ clientsById'[c][r] = NoSocket /\ clientsById[c][r] = s,
         \A c \in Clients, r \in Roles : clientsById'[c][r] = s => s \in closing'
  PROVE  PairsInv'
<1> USE DEF PairsInv
<1>1. TablesOK' /\ UnmadeSilent'
  BY DEF TablesOK, UnmadeSilent
<1>2. EntriesLead'
  BY DEF EntriesLead
<1>3. OpenAreListed'
  <2> SUFFICES ASSUME NEW t \in open, t # s, clientState[t] # Nobody
               PROVE  clientsById'[clientState[t].client][clientState[t].role] = t
    BY DEF OpenAreListed
  <2>1. clientState[t] \in Ids
    BY DEF TablesOK, Ids
  <2>2. clientsById[clientState[t].client][clientState[t].role] = t
    BY DEF OpenAreListed
  <2>3. clientState[t].client \in Clients /\ clientState[t].role \in Roles
    BY <2>1 DEF Ids
  <2>4. QED
    BY <2>2, <2>3
<1>4. QED
  BY <1>1, <1>2, <1>3

LEMMA PeerClosesStep ==
  ASSUME PairsInv, NEW s \in Sockets, PeerCloses(s)
  PROVE  PairsInv'
<1>1. s <= sockets /\ fails' \in Nat /\ clientsById' \in [Clients -> [Roles -> Sockets \cup {NoSocket}]]
  BY DEF PairsInv, TablesOK, PeerCloses
<1>2. QED
  BY <1>1, ClosingStep DEF PeerCloses

\* The entry of s, if it is there, is the one of the client and the role of its hello.
LEMMA DisconnectStep ==
  ASSUME PairsInv, NEW s \in Sockets, HandleDisconnect(s)
  PROVE  PairsInv'
<1> USE DEF HandleDisconnect
<1>1. s \in closing /\ s <= sockets /\ open' = open \ {s} /\ fails' \in Nat
  BY DEF PairsInv, TablesOK
<1>2. CASE clientState[s] # Nobody /\ Matches(s)
  <2> DEFINE c0 == clientState[s].client
             r0 == clientState[s].role
  <2>1. c0 \in Clients /\ r0 \in Roles
    BY <1>2 DEF PairsInv, TablesOK
  <2>2. clientsById[c0][r0] = s
    BY <1>2 DEF Matches
  <2>3. clientsById' = [clientsById EXCEPT ![c0][r0] = NoSocket]
    BY <1>2
  <2> HIDE DEF c0, r0
  <2>4. /\ clientsById' \in [Clients -> [Roles -> Sockets \cup {NoSocket}]]
        /\ \A c \in Clients, r \in Roles :
              clientsById'[c][r] = IF c = c0 /\ r = r0 THEN NoSocket ELSE clientsById[c][r]
    BY <2>1, <2>3 DEF PairsInv, TablesOK
  <2>5. \A c \in Clients, r \in Roles : clientsById[c][r] = s => c = c0 /\ r = r0
    <3> SUFFICES ASSUME NEW c \in Clients, NEW r \in Roles, clientsById[c][r] = s
                 PROVE  c = c0 /\ r = r0
      OBVIOUS
    <3>1. clientState[s] = [client |-> c, role |-> r]
      BY SocketsAreNumbers DEF PairsInv, EntriesLead
    <3>2. QED
      BY <3>1 DEF c0, r0
  <2>6. \A c \in Clients, r \in Roles : clientsById'[c][r] # s
    BY <2>4, <2>5, SocketsAreNumbers
  <2>7. QED
    BY <1>1, <2>2, <2>4, <2>6, ClosingStep
<1>3. CASE ~(clientState[s] # Nobody /\ Matches(s))
  <2>1. UNCHANGED clientsById
    BY <1>3
  <2>2. \A c \in Clients, r \in Roles : clientsById[c][r] # s
    <3> SUFFICES ASSUME NEW c \in Clients, NEW r \in Roles, clientsById[c][r] = s PROVE FALSE
      OBVIOUS
    <3>1. clientState[s] = [client |-> c, role |-> r]
      BY SocketsAreNumbers DEF PairsInv, EntriesLead
    <3>2. clientState[s] # Nobody
      BY <3>1, NobodyIsNoId DEF Ids
    <3>3. Matches(s)
      BY <3>1 DEF Matches
    <3>4. QED
      BY <1>3, <3>2, <3>3
  <2>3. clientsById' \in [Clients -> [Roles -> Sockets \cup {NoSocket}]]
    BY <2>1 DEF PairsInv, TablesOK
  <2>4. QED
    BY <1>1, <2>1, <2>2, <2>3, ClosingStep
<1>4. QED
  BY <1>2, <1>3

LEMMA WriteFailsStep ==
  ASSUME PairsInv, NEW c \in Clients, WriteFails(c)
  PROVE  PairsInv'
<1> DEFINE s == clientsById[c]["stream"]
<1>1. "stream" \in Roles
  BY DEF Roles
<1>2. s \in Sockets /\ s <= sockets
  BY <1>1 DEF PairsInv, TablesOK, EntriesLead, WriteFails
<1>3. open' = open \ {s} /\ closing' = closing \cup {s} /\ UNCHANGED <<clientState, sockets>>
  BY DEF WriteFails
<1>4. fails' \in Nat
  BY DEF WriteFails, PairsInv, TablesOK
<1>5. clientsById' = [clientsById EXCEPT ![c]["stream"] = NoSocket]
  BY DEF WriteFails, WithoutStream
<1>6. /\ clientsById' \in [Clients -> [Roles -> Sockets \cup {NoSocket}]]
      /\ \A e \in Clients, r \in Roles :
            clientsById'[e][r] = IF e = c /\ r = "stream" THEN NoSocket ELSE clientsById[e][r]
  BY <1>1, <1>5 DEF PairsInv, TablesOK
<1>7. \A e \in Clients, r \in Roles : \/ clientsById'[e][r] = clientsById[e][r]
                                      \/ clientsById'[e][r] = NoSocket /\ clientsById[e][r] = s
  BY <1>6
<1> HIDE DEF s
<1>8. QED
  BY <1>2, <1>3, <1>4, <1>6, <1>7, ClosingStep

\* A hello on s: the socket that had the role closes, and s is in its place.
LEMMA HelloStep ==
  ASSUME PairsInv, NEW s \in Sockets, NEW c \in Clients, NEW r \in Roles, Hello(s, c, r)
  PROVE  PairsInv'
<1> DEFINE id == [client |-> c, role |-> r]
           p == clientsById[c][r]
<1>1. id \in Ids /\ id # Nobody /\ s \in open /\ s <= sockets /\ s # NoSocket
  BY NobodyIsNoId, SocketsAreNumbers DEF Ids, Hello, PairsInv, TablesOK
<1>2. /\ clientState' = [clientState EXCEPT ![s] = id]
      /\ clientsById' = [clientsById EXCEPT ![c][r] = s]
      /\ UNCHANGED <<sockets, fails>>
      /\ clientState[s] \in {Nobody, id}
  BY DEF Hello
<1>3. /\ clientsById' \in [Clients -> [Roles -> Sockets \cup {NoSocket}]]
      /\ \A e \in Clients, q \in Roles :
            clientsById'[e][q] = IF e = c /\ q = r THEN s ELSE clientsById[e][q]
  BY <1>2 DEF PairsInv, TablesOK
<1>4. /\ clientState' \in [Sockets -> {Nobody} \cup Ids]
      /\ \A t \in Sockets : clientState'[t] = IF t = s THEN id ELSE clientState[t]
  BY <1>1, <1>2 DEF PairsInv, TablesOK, Ids
<1>5. /\ s \in open' /\ open' \subseteq open
      /\ open' \cup closing' = open \cup closing
      /\ open' \cap closing' = {}
      /\ p \notin {NoSocket, s} => p \notin open'
  BY <1>1 DEF Hello, DestroyPrevious, PairsInv, TablesOK
<1> HIDE DEF id, p
<1>6. TablesOK'
  BY <1>2, <1>3, <1>4, <1>5 DEF PairsInv, TablesOK, Ids
<1>7. UnmadeSilent'
  BY <1>1, <1>2, <1>4, SocketsAreNumbers DEF PairsInv, TablesOK, UnmadeSilent
<1>8. EntriesLead'
  <2> SUFFICES ASSUME NEW e \in Clients, NEW q \in Roles, clientsById'[e][q] # NoSocket
               PROVE  /\ clientsById'[e][q] \in open' \cup closing'
                      /\ clientState'[clientsById'[e][q]] = [client |-> e, role |-> q]
    BY DEF EntriesLead
  <2>1. CASE e = c /\ q = r
    BY <2>1, <1>3, <1>4, <1>5 DEF id
  <2>2. CASE ~(e = c /\ q = r)
    <3>1. clientsById'[e][q] = clientsById[e][q]
      BY <2>2, <1>3
    <3> DEFINE t == clientsById[e][q]
    <3>2. t \in open \cup closing /\ clientState[t] = [client |-> e, role |-> q] /\ t \in Sockets
      BY <3>1 DEF PairsInv, EntriesLead, TablesOK
    <3>3. clientState[t] \notin {Nobody, id}
      <4>1. clientState[t] \in Ids
        BY <3>2 DEF Ids
      <4>2. clientState[t] # id
        BY <2>2, <3>2 DEF id
      <4>3. QED
        BY <4>1, <4>2, NobodyIsNoId
    <3>4. t # s
      BY <1>2, <3>3
    <3>5. clientState'[t] = clientState[t]
      BY <1>4, <3>2, <3>4
    <3>6. QED
      BY <1>5, <3>1, <3>2, <3>5
  <2>3. QED
    BY <2>1, <2>2
<1>9. OpenAreListed'
  <2> SUFFICES ASSUME NEW t \in open', clientState'[t] # Nobody
               PROVE  clientsById'[clientState'[t].client][clientState'[t].role] = t
    BY DEF OpenAreListed
  <2>1. CASE t = s
    BY <2>1, <1>3, <1>4 DEF id
  <2>2. CASE t # s
    <3>1. t \in open /\ t \in Sockets
      BY <1>5 DEF PairsInv, TablesOK
    <3>2. clientState'[t] = clientState[t]
      BY <2>2, <1>4, <3>1
    <3> DEFINE e == clientState[t].client
               q == clientState[t].role
    <3>3. clientsById[e][q] = t
      BY <3>1, <3>2 DEF PairsInv, OpenAreListed
    <3>4. e \in Clients /\ q \in Roles
      BY <3>1, <3>2 DEF PairsInv, TablesOK
    <3>5. ~(e = c /\ q = r)
      <4>1. t # NoSocket
        BY <3>1, SocketsAreNumbers
      <4>2. e = c /\ q = r => t = p
        BY <3>3 DEF p
      <4>3. QED
        BY <4>1, <4>2, <2>2, <1>5
    <3>6. clientsById'[e][q] = clientsById[e][q]
      BY <3>4, <3>5, <1>3
    <3>7. QED
      BY <3>2, <3>3, <3>6
  <2>3. QED
    BY <2>1, <2>2
<1>10. QED
  BY <1>6, <1>7, <1>8, <1>9 DEF PairsInv

\* However many sockets a client replaces and in whatever order their close events
\* come, the table of clients (clientsById) names open sockets by what they said, and
\* every open socket that said hello is in it.
THEOREM PairsCorrect == ServerSpec => []PairsSound
<1>1. PairsInv /\ [ServerNext]_serverVars => PairsInv'
  <2> SUFFICES ASSUME PairsInv, [ServerNext]_serverVars PROVE PairsInv'
    OBVIOUS
  <2>1. CASE UNCHANGED serverVars
    BY <2>1 DEF serverVars, PairsInv, TablesOK, UnmadeSilent, EntriesLead, OpenAreListed
  <2>2. CASE ServerNext
    BY <2>2, ConnectionStep, PeerClosesStep, DisconnectStep, HelloStep, WriteFailsStep DEF ServerNext
  <2>3. QED
    BY <2>1, <2>2
<1>2. PairsInv => PairsSound
  BY DEF PairsInv, PairsSound
<1>3. QED
  BY PairsInit, <1>1, <1>2, PTL DEF ServerSpec
=============================================================================
