-------------------------- MODULE HostServiceManager --------------------------
(***************************************************************************)
(* The desktop app's manager of host service processes                     *)
(* (apps/desktop/src/main/lib/host-service-manager.ts), for one            *)
(* organization: its maps are keyed by organization and no entry reads     *)
(* another's.  A service is started on demand, reports its port within a   *)
(* time, is restarted after a crash, and is stopped.                       *)
(*                                                                         *)
(* An attempt is one call of spawn(): it stands for the instance, the      *)
(* pending start and the child process which that call makes.  External:   *)
(* the environment that spawn() awaits, and the child, which may report    *)
(* its port once and may exit at any time, and does after a SIGTERM.       *)
(***************************************************************************)
EXTENDS Naturals

CONSTANTS Callers,      \* calls of start()
          MaxAttempts,  \* bound: calls of spawn()
          MaxStops      \* bound: calls of stop()

ASSUME BoundsAssumption == MaxAttempts \in Nat /\ MaxStops \in Nat

Attempts == 1..MaxAttempts
NoAttempt == 0

VARIABLES
  instance,     \* the organization's entry in instances, NoAttempt when absent
  pending,      \* its entry in pendingStarts
  status,       \* instance.status of each attempt
  port,         \* attempts whose instance.port is set
  child,        \* the process: "none", "alive", "signalled", "gone"
  env,          \* attempts whose spawn() awaits the environment
  listening,    \* attempts whose child has onMessage as a listener
  timed,        \* attempts whose startupTimeout is armed
  restarts,     \* armed timers of scheduleRestart
  call,         \* calls: "idle", "waiting", "port", "error"
  on, joined,   \* the attempt a call waits for; calls that wait for its promise
  attempts, stops,
  wanted        \* history: start() was called since the last stop()

mapVars == <<instance, pending>>
instanceVars == <<status, port, child, env>>
startVars == <<listening, timed>>
callVars == <<call, on, joined>>
hostVars == <<mapVars, instanceVars, startVars, restarts, callVars, attempts, stops,
              wanted>>

\* instance.process is set
HasProcess(a) == child[a] # "none"
Serves(a) == child[a] = "alive"

-----------------------------------------------------------------------------
(* Wrong variants of definitions below, which the properties must tell apart. *)
CheckNothing(a) == instance # NoAttempt
ClearedButPending(a) ==
    /\ timed' = timed \ {a}
    /\ listening' = IF a \in listening THEN listening \ {instance} ELSE listening
    /\ UNCHANGED pending
ForgetPendingStart ==
    /\ timed' = timed \ {pending}
    /\ listening' = IF pending \in listening THEN listening \ {instance} ELSE listening
    /\ pending' = NoAttempt
    /\ UNCHANGED call
RestartIfItRan == restarts' = IF instance \in port THEN restarts + 1 ELSE restarts
StopKeepsProcess(a) == child

-----------------------------------------------------------------------------

HostInit ==
    /\ instance = NoAttempt /\ pending = NoAttempt
    /\ status = [a \in Attempts |-> "none"]
    /\ port = {} /\ env = {}
    /\ child = [a \in Attempts |-> "none"]
    /\ listening = {} /\ timed = {} /\ restarts = 0
    /\ call = [c \in Callers |-> "idle"]
    /\ on = [c \in Callers |-> NoAttempt]
    /\ joined = {}
    /\ attempts = 0 /\ stops = 0 /\ wanted = FALSE

\* spawn() up to its first await.
Spawn ==
    /\ attempts < MaxAttempts
    /\ attempts' = attempts + 1
    /\ instance' = attempts' /\ pending' = attempts'
    /\ status' = [status EXCEPT ![attempts'] = "starting"]
    /\ env' = env \cup {attempts'}

\* clearPendingStart of attempt a: the listener is taken off the process of
\* the organization's instance.
ClearPendingStart(a) ==
    /\ timed' = timed \ {a}
    /\ listening' = IF a \in listening THEN listening \ {instance} ELSE listening
    /\ pending' = IF pending = a THEN NoAttempt ELSE pending

\* The promise of attempt a is settled, or spawn() itself throws: the first
\* settles the calls that wait for it, which are all once the child is there.
Settle(a, outcome, thrown) ==
    call' = [c \in Callers |->
               IF call[c] = "waiting" /\ on[c] = a /\ (thrown \/ c \in joined \/ a \notin env)
               THEN outcome ELSE call[c]]

\* cancelPendingStart
CancelPendingStart ==
    IF pending = NoAttempt THEN UNCHANGED <<timed, listening, pending, call>>
                           ELSE ClearPendingStart(pending) /\ Settle(pending, "error", FALSE)

\* scheduleRestart
ScheduleRestart == restarts' = IF instance = NoAttempt THEN restarts ELSE restarts + 1

Signalled(a) == [child EXCEPT ![a] = IF child[a] = "alive" THEN "signalled" ELSE child[a]]

-----------------------------------------------------------------------------

\* start(): the port of a running service, the promise of a pending start, or
\* a new attempt, which takes the place of a crashed instance.
Running == instance # NoAttempt /\ status[instance] = "running" /\ instance \in port

Start(c) ==
    /\ call[c] = "idle"
    /\ wanted' = TRUE
    /\ \/ /\ Running
          /\ call' = [call EXCEPT ![c] = "port"]
          /\ UNCHANGED <<mapVars, instanceVars, on, joined, attempts>>
       \/ /\ ~Running
          /\ call' = [call EXCEPT ![c] = "waiting"]
          /\ \/ /\ pending # NoAttempt
                /\ on' = [on EXCEPT ![c] = pending]
                /\ joined' = joined \cup {c}
                /\ UNCHANGED <<mapVars, instanceVars, attempts>>
             \/ /\ pending = NoAttempt
                /\ Spawn
                /\ on' = [on EXCEPT ![c] = attempts']
                /\ UNCHANGED <<joined, port, child>>
    /\ UNCHANGED <<startVars, restarts, stops>>

\* spawn() after the await: the start is still wanted and the child is there, or
\* it was cancelled, or the environment or the spawn failed.
StillWanted(a) == instance = a /\ pending = a

Spawned(a) ==
    /\ a \in env
    /\ StillWanted(a)
    /\ env' = env \ {a}
    /\ child' = [child EXCEPT ![a] = "alive"]
    /\ listening' = listening \cup {a} /\ timed' = timed \cup {a}
    /\ UNCHANGED <<mapVars, status, port, restarts, callVars, attempts, stops, wanted>>

SpawnThrows(a) ==
    /\ a \in env
    /\ env' = env \ {a}
    /\ instance' = IF instance = a /\ a \notin port THEN NoAttempt ELSE instance
    /\ ClearPendingStart(a)
    /\ Settle(a, "error", TRUE)
    /\ UNCHANGED <<status, port, child, restarts, on, joined, attempts, stops, wanted>>

\* onMessage with the port
Ready(a) ==
    /\ a \in listening /\ child[a] \in {"alive", "signalled"}
    /\ ClearPendingStart(a)
    /\ port' = port \cup {a}
    /\ status' = [status EXCEPT ![a] = "running"]
    /\ Settle(a, "port", FALSE)
    /\ UNCHANGED <<instance, child, env, restarts, on, joined, attempts, stops, wanted>>

\* failStartup, after ten seconds
StartupTimeout(a) ==
    /\ a \in timed
    /\ ClearPendingStart(a)
    /\ status' = [status EXCEPT ![a] = "crashed"]
    /\ Settle(a, "error", FALSE)
    /\ child' = Signalled(a)
    /\ ScheduleRestart
    /\ UNCHANGED <<instance, port, env, on, joined, attempts, stops, wanted>>

\* The exit event; it counts if the child is the instance's and not given up.
OwnExit(a) == instance = a /\ HasProcess(a) /\ status[a] # "crashed"

ChildExit(a) ==
    /\ child[a] \in {"alive", "signalled"}
    /\ child' = [child EXCEPT ![a] = "gone"]
    /\ \/ /\ OwnExit(a)
          /\ IF instance \in port THEN UNCHANGED <<timed, listening, pending, call>>
                                  ELSE CancelPendingStart
          /\ status' = [status EXCEPT ![instance] = "crashed"]
          /\ ScheduleRestart
       \/ /\ ~OwnExit(a)
          /\ UNCHANGED <<timed, listening, pending, call, status, restarts>>
    /\ UNCHANGED <<instance, port, env, on, joined, attempts, stops, wanted>>

\* The restart timer: only a crashed instance is replaced.
MayRestart == instance # NoAttempt /\ status[instance] = "crashed"

RestartTimer ==
    /\ restarts > 0
    /\ restarts' = restarts - 1
    /\ \/ MayRestart /\ Spawn
       \/ ~MayRestart /\ UNCHANGED <<mapVars, status, env, attempts>>
    /\ UNCHANGED <<port, child, startVars, callVars, stops, wanted>>

AfterStop(a) == Signalled(a)

Stop ==
    /\ stops < MaxStops
    /\ stops' = stops + 1
    /\ wanted' = FALSE
    /\ \/ /\ instance # NoAttempt
          /\ status' = [status EXCEPT ![instance] = "crashed"]
          /\ CancelPendingStart
          /\ child' = AfterStop(instance)
          /\ instance' = NoAttempt
       \/ instance = NoAttempt /\ UNCHANGED <<mapVars, status, child, startVars, call>>
    /\ UNCHANGED <<port, env, restarts, on, joined, attempts>>

HostNext ==
    \/ \E c \in Callers : Start(c)
    \/ \E a \in Attempts : \/ Spawned(a) \/ SpawnThrows(a) \/ Ready(a)
                           \/ StartupTimeout(a) \/ ChildExit(a)
    \/ RestartTimer
    \/ Stop

HostSpec == HostInit /\ [][HostNext]_hostVars

\* The environment is found or not, timers fire, and a child that was sent
\* SIGTERM exits; nothing is assumed of a child that was not.
HostFairness ==
    /\ \A a \in Attempts : /\ WF_hostVars(Spawned(a) \/ SpawnThrows(a))
                           /\ WF_hostVars(StartupTimeout(a))
                           /\ WF_hostVars(child[a] = "signalled" /\ ChildExit(a))
    /\ WF_hostVars(RestartTimer)
HostFairSpec == HostSpec /\ HostFairness

-----------------------------------------------------------------------------

\* No process is lost: one that runs and was not told to end is the one the
\* organization's instance knows, is wanted since the last stop, and is either
\* running or being started with the time for it limited.  Hence there is one.
NoProcessIsLost ==
    \A a \in Attempts : Serves(a) =>
        /\ instance = a /\ wanted
        /\ \/ status[a] = "running" /\ a \in port /\ a \notin timed
           \/ status[a] = "starting" /\ pending = a /\ a \in timed /\ a \in listening

\* A pending start is one that somebody will settle: it belongs to the current
\* instance and awaits its environment or its time limit.
PendingIsCurrent ==
    pending # NoAttempt => /\ pending = instance /\ status[pending] = "starting"
                      /\ pending \in env \cup timed

\* A crash is followed by a restart: an instance that has crashed has a timer,
\* whatever older timers were armed and what they did meanwhile.
CrashedHasTimer == MayRestart => restarts > 0

\* Nothing that waits for a timer waits in vain.
TimersSound == PendingIsCurrent /\ CrashedHasTimer

\* Every start() settles.
StartsSettle == \A c \in Callers : call[c] = "waiting" ~> call[c] # "waiting"
=============================================================================
