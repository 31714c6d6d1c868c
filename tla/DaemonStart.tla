------------------------------ MODULE DaemonStart ------------------------------
(***************************************************************************)
(* The terminal daemon as a process among others: who has the socket path, *)
(* the pid file and the spawn lock.  Daemons start and stop by             *)
(* apps/desktop/src/main/terminal-host/index.ts and signal-handlers.ts;    *)
(* calls of spawnDaemon() in one app (main/lib/terminal-host/client.ts)    *)
(* start them.  Calls of one app interleave at their awaits only; daemons  *)
(* run beside them, so a step of a daemon is one access to the socket path.*)
(*                                                                         *)
(* External: the operating system's sockets (bind() fails when the path    *)
(* exists, a connect is refused when nobody listens, closing a server      *)
(* unlinks its path whoever has made it).  Not here: the token file, the   *)
(* script's modification time in development, the attempt of a probe that  *)
(* runs into its time-out although the daemon listens.                     *)
(***************************************************************************)
EXTENDS Naturals

CONSTANTS Callers,     \* calls of spawnDaemon() that may overlap
          MaxDaemons,  \* bound: daemons ever started
          MaxEnds,     \* bound: how often a daemon is made to end ...
          Causes,      \* ... by a "signal" (or an error), a "request" or a "crash"
          Left         \* whether an earlier daemon and app left a socket and a lock

ASSUME StartAssumption == /\ MaxDaemons \in Nat \ {0} /\ MaxEnds \in Nat
                          /\ Causes \subseteq {"signal", "request", "crash"}
                          /\ Left \in BOOLEAN

Daemons == 1..MaxDaemons
None == 0

VARIABLES
  sock,     \* the daemon that has bound the socket path, None for no file
  pidFile,  \* the daemon whose pid is in the pid file, None for no file
  lock,     \* the spawn lock file: "none", "held" by a call, "left" by another app
  call,     \* what each call of spawnDaemon() awaits
  proc,     \* what each daemon does
  stops,    \* how many times its stopServer() was called
  shutting, \* daemons whose isShuttingDown is set
  forced,   \* daemons whose forceExitTimer runs
  users,    \* daemons to which a client is connected
  made,     \* daemons started so far
  ends,     \* how often one was made to end
  called    \* history: the calls made so far

fileVars == <<sock, pidFile>>
spawnVars == <<lock, call, made>>
stopVars == <<stops, shutting, forced>>
vars == <<fileVars, spawnVars, proc, stopVars, users, ends, called>>

\* A connect to the server of d succeeds.
Listening(d) == d # None /\ proc[d] \in {"bound", "serving", "disposing"}
Alive(d) == proc[d] \notin {"unborn", "dead"}

-----------------------------------------------------------------------------
(* Wrong variants of definitions below, which the properties must tell apart. *)
ReleaseByAny(c) == lock' = IF call[c] \in {"spawned", "locked"} THEN "none" ELSE lock
FoundUnasked(d) == IF sock = None THEN "bind" ELSE "seenStale"
NoTimer(d) == UNCHANGED forced
StartAgain(d) == /\ proc[d] = "seenLive"
                 /\ proc' = [proc EXCEPT ![d] = "starting"]
                 /\ UNCHANGED <<fileVars, spawnVars, stopVars, users, ends, called>>
ExitWithTimer(d) == /\ proc' = [proc EXCEPT ![d] = "dead"]
                    /\ users' = users \ {d} /\ UNCHANGED forced

-----------------------------------------------------------------------------

\* With Left, daemon 1 is one that crashed, and the app that started another one, too.
Init ==
    /\ sock = IF Left THEN 1 ELSE None
    /\ pidFile = sock
    /\ lock = IF Left THEN "left" ELSE "none"
    /\ call = [c \in Callers |-> "idle"]
    /\ proc = [d \in Daemons |-> IF Left /\ d = 1 THEN "dead" ELSE "unborn"]
    /\ stops = [d \in Daemons |-> 0] /\ shutting = {} /\ forced = {}
    /\ users = {} /\ made = sock /\ ends = 0 /\ called = {}

-----------------------------------------------------------------------------
(* client.ts: spawnDaemon *)

\* From the removal of a stale pid file on: the lock, and the process.
Launch(c) ==
    /\ pidFile' = None
    /\ \/ /\ lock # "none" /\ call' = [call EXCEPT ![c] = "locked"]
          /\ UNCHANGED <<lock, made, proc>>
       \/ /\ lock = "none" /\ made < MaxDaemons
          /\ lock' = "held" /\ made' = made + 1
          /\ proc' = [proc EXCEPT ![made'] = "starting"]
          /\ call' = [call EXCEPT ![c] = "spawned"]

\* The path exists and nobody answers on it: the call awaits the refusal.
SpawnDaemon(c) ==
    /\ call[c] = "idle" /\ ~Listening(sock)
    /\ \/ /\ sock = None /\ Launch(c)
       \/ /\ sock # None /\ call' = [call EXCEPT ![c] = "seenStale"]
          /\ UNCHANGED <<pidFile, lock, made, proc>>
    /\ called' = called \cup {c}
    /\ UNCHANGED <<sock, stopVars, users, ends>>

\* "Socket exists but not responsive - safe to remove"
RemoveStale(c) ==
    /\ call[c] = "seenStale"
    /\ sock' = None /\ Launch(c)
    /\ UNCHANGED <<stopVars, users, ends, called>>

\* releaseSpawnLock() in the finally block of the call that has the lock
Release(c) == lock' = IF call[c] = "spawned" THEN "none" ELSE lock

\* waitForDaemon(): the path is there, or SPAWN_WAIT_MS have passed.
WaitEnds(c) ==
    /\ call[c] \in {"spawned", "locked"}
    /\ call' = [call EXCEPT ![c] = "idle"]
    /\ Release(c)
    /\ UNCHANGED <<fileVars, made, proc, stopVars, users, ends, called>>

\* acquireSpawnLock() finds the lock older than SPAWN_LOCK_TIMEOUT_MS, which a wait never is.
LockExpires ==
    /\ lock = "left" /\ lock' = "none"
    /\ UNCHANGED <<fileVars, call, made, proc, stopVars, users, ends, called>>

-----------------------------------------------------------------------------
(* index.ts: startServer *)

\* What the daemon does after its look at the path, and after the probe if there is a file.
Found(d) == IF sock = None THEN "bind"
            ELSE IF Listening(sock) THEN "seenLive" ELSE "seenStale"

LookAtPath(d) ==
    /\ proc[d] = "starting"
    /\ proc' = [proc EXCEPT ![d] = Found(d)]
    /\ UNCHANGED <<fileVars, spawnVars, stopVars, users, ends, called>>

\* "Another daemon is already running": process.exit(1)
AnotherRuns(d) ==
    /\ proc[d] = "seenLive"
    /\ proc' = [proc EXCEPT ![d] = "dead"]
    /\ UNCHANGED <<fileVars, spawnVars, stopVars, users, ends, called>>

\* unlinkSync() throws, and the daemon exits, when the path has gone meanwhile.
UnlinkStale(d) ==
    /\ proc[d] = "seenStale"
    /\ sock' = None
    /\ proc' = [proc EXCEPT ![d] = IF sock = None THEN "dead" ELSE "bind"]
    /\ UNCHANGED <<pidFile, spawnVars, stopVars, users, ends, called>>

\* The old pid file goes; then listen(): EADDRINUSE ends the process.
Bind(d) ==
    /\ proc[d] = "bind" /\ pidFile' = None
    /\ sock' = IF sock = None THEN d ELSE sock
    /\ proc' = [proc EXCEPT ![d] = IF sock = None THEN "bound" ELSE "dead"]
    /\ UNCHANGED <<spawnVars, stopVars, users, ends, called>>

\* The callback of listen()
Serve(d) ==
    /\ proc[d] = "bound" /\ pidFile' = d
    /\ proc' = [proc EXCEPT ![d] = "serving"]
    /\ UNCHANGED <<sock, spawnVars, stopVars, users, ends, called>>

ClientConnects(d) ==
    /\ Listening(d) /\ sock = d /\ users' = users \cup {d}
    /\ UNCHANGED <<fileVars, spawnVars, proc, stopVars, ends, called>>

ClientLeaves(d) ==
    /\ d \in users /\ users' = users \ {d}
    /\ UNCHANGED <<fileVars, spawnVars, proc, stopVars, ends, called>>

-----------------------------------------------------------------------------
(* index.ts: stopServer, and what calls it *)

Ends(cause) == cause \in Causes /\ ends < MaxEnds /\ ends' = ends + 1

\* stopServer() is called: a daemon that still probes has no server to close.
StopServer(d) ==
    /\ stops' = [stops EXCEPT ![d] = @ + 1]
    /\ proc' = [proc EXCEPT ![d] = CASE @ = "serving" -> "disposing"
                                     [] @ \in {"seenLive", "seenStale"} -> "closed"
                                     [] OTHER -> @]

ArmForceExit(d) == forced' = forced \cup {d}

\* shutdownOnce(), by SIGINT, SIGTERM, SIGHUP, a fatal error or too many transient ones.
ShutdownOnce(d) ==
    /\ Ends("signal") /\ d \notin shutting /\ shutting' = shutting \cup {d}
    /\ proc[d] \in {"seenLive", "seenStale", "serving", "disposing", "closing"}
    /\ ArmForceExit(d) /\ StopServer(d)
    /\ UNCHANGED <<fileVars, spawnVars, users, called>>

\* The shutdown request of a client that is connected
ShutdownRequest(d) ==
    /\ Ends("request") /\ d \in users /\ proc[d] \in {"serving", "disposing"} /\ stops[d] < 2
    /\ StopServer(d)
    /\ UNCHANGED <<fileVars, spawnVars, shutting, forced, users, called>>

\* terminalHost.dispose() is done; server.close() unlinks the path.
CloseServer(d) ==
    /\ proc[d] = "disposing" /\ sock' = None
    /\ proc' = [proc EXCEPT ![d] = "closing"]
    /\ UNCHANGED <<pidFile, spawnVars, stopVars, users, ends, called>>

\* The callback of server.close(): no client is left, or the server was closed already.
ServerClosed(d) ==
    /\ proc[d] = "closing" /\ (d \notin users \/ stops[d] > 1)
    /\ proc' = [proc EXCEPT ![d] = "closed"]
    /\ UNCHANGED <<fileVars, spawnVars, stopVars, users, ends, called>>

\* The process of d is gone, and with it its timers and connections.
Exit(d) == /\ proc' = [proc EXCEPT ![d] = "dead"]
           /\ forced' = forced \ {d} /\ users' = users \ {d}

\* The two files go, then the process.
RemoveFiles(d) ==
    /\ proc[d] = "closed"
    /\ sock' = None /\ pidFile' = None
    /\ Exit(d)
    /\ UNCHANGED <<spawnVars, stops, shutting, ends, called>>

\* "Ensure we always terminate even if cleanup hangs."
ForceExit(d) ==
    /\ d \in forced /\ Exit(d)
    /\ UNCHANGED <<fileVars, spawnVars, stops, shutting, ends, called>>

Crash(d) ==
    /\ Ends("crash") /\ Alive(d) /\ Exit(d)
    /\ UNCHANGED <<fileVars, spawnVars, stops, shutting, called>>

-----------------------------------------------------------------------------

StartStep(d) == LookAtPath(d) \/ AnotherRuns(d) \/ UnlinkStale(d) \/ Bind(d) \/ Serve(d)
StopStep(d) == CloseServer(d) \/ ServerClosed(d) \/ RemoveFiles(d) \/ ForceExit(d)

Next ==
    \/ \E c \in Callers : SpawnDaemon(c) \/ RemoveStale(c) \/ WaitEnds(c)
    \/ LockExpires
    \/ \E d \in Daemons : \/ StartStep(d) \/ StopStep(d)
                          \/ ClientConnects(d) \/ ClientLeaves(d)
                          \/ ShutdownOnce(d) \/ ShutdownRequest(d) \/ Crash(d)

Spec == Init /\ [][Next]_vars

\* Continuations and timers run; clients stay as long as they like.
Fairness == /\ \A c \in Callers : WF_vars(RemoveStale(c)) /\ WF_vars(WaitEnds(c))
            /\ \A d \in Daemons : WF_vars(StartStep(d)) /\ WF_vars(StopStep(d))
FairSpec == Spec /\ Fairness

-----------------------------------------------------------------------------
(* Properties *)

\* The type of every variable; a file names a daemon that was started, and a timer
\* or a client belongs to a process that is alive.
TypeOK ==
    /\ sock \in 0..made /\ pidFile \in 0..made /\ made \in 0..MaxDaemons
    /\ lock \in {"none", "held", "left"}
    /\ call \in [Callers -> {"idle", "seenStale", "locked", "spawned"}]
    /\ proc \in [Daemons -> {"unborn", "starting", "seenLive", "seenStale", "bind", "bound",
                             "serving", "disposing", "closing", "closed", "dead"}]
    /\ stops \in [Daemons -> 0..3]
    /\ forced \subseteq {d \in Daemons : Alive(d)} /\ users \subseteq {d \in Daemons : Alive(d)}
    /\ shutting \subseteq 1..made
    /\ ends \in 0..MaxEnds /\ called \subseteq Callers

\* The spawn lock is held exactly while one call awaits the daemon that it has
\* started: calls that overlap never start two daemons at the same time.
OneSpawner ==
    /\ \A c, e \in Callers : call[c] = "spawned" /\ call[e] = "spawned" => c = e
    /\ (lock = "held") = (\E c \in Callers : call[c] = "spawned")

\* The calls so far are retries of one, and no daemon was made to end.
Alone == ends = 0 /\ \A c, e \in called : c = e

\* Who connects to the path reaches the daemon that serves: however often one call is
\* retried, over a socket that was left behind and beside daemons that are slow to
\* start, none of them serves out of reach, with sessions that nobody sees again.
NoOrphan == Alone => \A d \in Daemons : proc[d] = "serving" => sock = d

\* A daemon that was told to stop by a signal or an error ends, whatever its
\* clients do, and one that starts comes to serve or exits.
DaemonsSettle ==
    \A d \in Daemons :
        /\ (d \in shutting) ~> (proc[d] = "dead")
        /\ (proc[d] = "starting") ~> (proc[d] \in {"serving", "disposing", "closing",
                                                   "closed", "dead"})
=============================================================================
