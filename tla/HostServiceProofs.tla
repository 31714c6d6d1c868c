---------------------------- MODULE HostServiceProofs ----------------------------
(***************************************************************************)
(* The host service of an organization: no process of HostServiceManager   *)
(* is lost and what waits for a timer has one, for any number of callers,  *)
(* attempts and stops; the watchers that the streams of workspace-fs share *)
(* in it (FsWatcher), for any number of streams and reports; and what is   *)
(* made of the reports (FsEvents), for any paths, reports and batches:     *)
(* coalesced, reconciled to renames and published in their order they make *)
(* of what a listener knows, and of the search index, the files that are   *)
(* there.  What is still to be told leads from the one to the other        *)
(* (Behind): the batches in flight make files of which the reports, one    *)
(* change after another, tell.  What is known of a path after some reports *)
(* (Known) is a fold; its function of the positions is what the proofs     *)
(* speak of.                                                               *)
(***************************************************************************)
EXTENDS HostServiceManager, FsWatcher, FsEvents, FiniteSetTheorems, SequenceTheorems,
        TLAPS

-----------------------------------------------------------------------------
(* HostServiceManager *)

Statuses == {"none", "starting", "running", "crashed"}
Processes == {"none", "alive", "signalled", "gone"}

ServiceTypes ==
    /\ attempts \in 0..MaxAttempts
    /\ instance \in 0..attempts /\ pending \in 0..attempts
    /\ status \in [Attempts -> Statuses] /\ child \in [Attempts -> Processes]
    /\ port \subseteq Attempts /\ env \subseteq 1..attempts
    /\ listening \subseteq Attempts /\ timed \subseteq Attempts
    /\ restarts \in Nat

\* What a new attempt finds, and one whose environment has not come.
Unused ==
    /\ \A a \in Attempts : a > attempts => child[a] = "none" /\ a \notin port
    /\ \A a \in env : child[a] = "none" /\ a \notin port

\* Only the pending start, which has not reported its port, has a time limit and
\* a listener: clearing it cannot touch those of another attempt.
OnlyPendingIsLimited ==
    /\ timed \subseteq {pending} /\ listening \subseteq {pending}
    /\ timed \cap env = {} /\ \A a \in timed : child[a] # "none"
    /\ pending \notin port

WantedIfThere == instance # NoAttempt => wanted

ServiceInv ==
    /\ ServiceTypes /\ Unused /\ OnlyPendingIsLimited /\ WantedIfThere
    /\ NoProcessIsLost /\ PendingIsCurrent /\ CrashedHasTimer

-----------------------------------------------------------------------------

LEMMA InitService == HostInit => ServiceInv
  BY BoundsAssumption DEF HostInit, ServiceInv, ServiceTypes, Unused, OnlyPendingIsLimited, WantedIfThere,
     NoProcessIsLost, PendingIsCurrent, CrashedHasTimer, MayRestart, Attempts, NoAttempt, Serves,
     Statuses, Processes

\* A new attempt is made when there is no pending start, and the instance it
\* replaces has no process to lose.
LEMMA SpawnService ==
  ASSUME ServiceInv, Spawn, pending = NoAttempt,
         \A a \in Attempts : ~Serves(a),
         UNCHANGED <<port, child, listening, timed>>,
         restarts' \in Nat, wanted'
  PROVE  ServiceInv'
<1>0. attempts' = attempts + 1 /\ attempts' \in Attempts /\ attempts' \in 1..MaxAttempts
  BY BoundsAssumption DEF Spawn, Attempts, ServiceInv, ServiceTypes
<1>1. ServiceTypes'
  BY <1>0 DEF ServiceInv, ServiceTypes, Spawn, Statuses
<1>2. Unused'
  BY <1>0 DEF ServiceInv, ServiceTypes, Unused, Spawn, Attempts
<1>3. OnlyPendingIsLimited'
  BY <1>0 DEF ServiceInv, ServiceTypes, Unused, OnlyPendingIsLimited, Spawn, Attempts, NoAttempt
<1>4. WantedIfThere' /\ NoProcessIsLost'
  BY DEF ServiceInv, WantedIfThere, NoProcessIsLost, Serves
<1>5. PendingIsCurrent' /\ CrashedHasTimer'
  BY <1>0 DEF ServiceInv, ServiceTypes, PendingIsCurrent, CrashedHasTimer, MayRestart, Spawn
<1> QED BY <1>1, <1>2, <1>3, <1>4, <1>5 DEF ServiceInv

LEMMA StartService == ASSUME ServiceInv, NEW c \in Callers, Start(c) PROVE ServiceInv'
<1>1. CASE UNCHANGED <<mapVars, instanceVars, attempts>>
  BY <1>1 DEF Start, ServiceInv, ServiceTypes, Unused, OnlyPendingIsLimited, WantedIfThere,
     NoProcessIsLost, PendingIsCurrent, CrashedHasTimer, MayRestart, Serves,
     mapVars, instanceVars, startVars
<1>2. CASE ~Running /\ pending = NoAttempt /\ Spawn /\ UNCHANGED <<port, child>>
  <2>1. \A a \in Attempts : ~Serves(a)
    BY <1>2 DEF Running, ServiceInv, NoProcessIsLost, Attempts, NoAttempt
  <2> QED BY <1>2, <2>1, SpawnService DEF Start, startVars, ServiceInv, ServiceTypes
<1> QED BY <1>1, <1>2 DEF Start

LEMMA RestartService == ASSUME ServiceInv, RestartTimer PROVE ServiceInv'
<1>0. restarts' \in Nat /\ UNCHANGED <<port, child, listening, timed, wanted>>
  BY DEF RestartTimer, ServiceInv, ServiceTypes, startVars
<1>1. CASE MayRestart /\ Spawn
  <2>1. (\A a \in Attempts : ~Serves(a)) /\ pending = NoAttempt /\ wanted
    BY <1>1 DEF MayRestart, ServiceInv, NoProcessIsLost, PendingIsCurrent, WantedIfThere
  <2> QED BY <1>0, <1>1, <2>1, SpawnService
<1>2. CASE ~MayRestart /\ UNCHANGED <<mapVars, status, env, attempts>>
  BY <1>0, <1>2 DEF ServiceInv, ServiceTypes, Unused, OnlyPendingIsLimited, WantedIfThere,
     NoProcessIsLost, PendingIsCurrent, CrashedHasTimer, MayRestart, Serves, mapVars
<1> QED BY <1>1, <1>2 DEF RestartTimer

LEMMA SpawnedService == ASSUME ServiceInv, NEW a \in Attempts, Spawned(a) PROVE ServiceInv'
  BY DEF Spawned, StillWanted, ServiceInv, ServiceTypes, Unused, OnlyPendingIsLimited, WantedIfThere,
     NoProcessIsLost, PendingIsCurrent, CrashedHasTimer, MayRestart, Serves, mapVars, Attempts,
     Processes, NoAttempt

LEMMA ThrowsService == ASSUME ServiceInv, NEW a \in Attempts, SpawnThrows(a) PROVE ServiceInv'
  BY DEF SpawnThrows, ClearPendingStart, ServiceInv, ServiceTypes, Unused, OnlyPendingIsLimited,
     WantedIfThere, NoProcessIsLost, PendingIsCurrent, CrashedHasTimer, MayRestart, Serves, Attempts, NoAttempt

LEMMA ReadyService == ASSUME ServiceInv, NEW a \in Attempts, Ready(a) PROVE ServiceInv'
  BY DEF Ready, ClearPendingStart, ServiceInv, ServiceTypes, Unused, OnlyPendingIsLimited,
     WantedIfThere, NoProcessIsLost, PendingIsCurrent, CrashedHasTimer, MayRestart, Serves, Attempts,
     NoAttempt, Statuses

\* The instance is given up, its process told to end or gone, and a restart timed.
LEMMA Ended ==
  ASSUME ServiceInv, NEW a \in Attempts, instance = a, a # NoAttempt, child[a] # "none",
         status' = [status EXCEPT ![a] = "crashed"],
         pending' = NoAttempt, timed' = {}, listening' = {},
         NEW end \in Processes \ {"none", "alive"}, child' = [child EXCEPT ![a] = end],
         restarts' = restarts + 1,
         UNCHANGED <<instance, port, env, attempts, wanted>>
  PROVE  ServiceInv'
<1>1. a \notin env /\ a <= attempts
  BY DEF ServiceInv, Unused, ServiceTypes, Attempts
<1>2. ServiceTypes' /\ WantedIfThere'
  BY DEF ServiceInv, ServiceTypes, WantedIfThere, Statuses, NoAttempt
<1>3. Unused' /\ OnlyPendingIsLimited'
  BY <1>1 DEF ServiceInv, ServiceTypes, Unused, OnlyPendingIsLimited, Attempts, NoAttempt
<1>4. NoProcessIsLost'
  BY DEF ServiceInv, ServiceTypes, NoProcessIsLost, Serves, Processes
<1>5. PendingIsCurrent' /\ CrashedHasTimer'
  BY DEF ServiceInv, ServiceTypes, PendingIsCurrent, CrashedHasTimer
<1> QED BY <1>2, <1>3, <1>4, <1>5 DEF ServiceInv

LEMMA TimeoutService == ASSUME ServiceInv, NEW a \in Attempts, StartupTimeout(a) PROVE ServiceInv'
<1>1. a = pending /\ instance = a /\ a # NoAttempt /\ a \notin port /\ status[a] = "starting"
  BY DEF StartupTimeout, ServiceInv, OnlyPendingIsLimited, PendingIsCurrent, Attempts, NoAttempt
<1>2. /\ status' = [status EXCEPT ![a] = "crashed"]
      /\ pending' = NoAttempt /\ timed' = {} /\ listening' = {}
      /\ child' = [child EXCEPT ![a] = IF child[a] = "alive" THEN "signalled" ELSE child[a]]
      /\ child[a] # "none"
      /\ restarts' = restarts + 1
      /\ UNCHANGED <<instance, port, env, attempts, wanted>>
  BY <1>1 DEF StartupTimeout, ClearPendingStart, Signalled, ScheduleRestart, ServiceInv,
     OnlyPendingIsLimited
<1>3. PICK end \in Processes \ {"none", "alive"} : child' = [child EXCEPT ![a] = end]
  BY <1>2 DEF ServiceInv, ServiceTypes, Processes
<1> QED BY <1>1, <1>2, <1>3, Ended

\* After cancelPendingStart no start is pending, and none limited or listened to.
LEMMA NothingPending ==
  ASSUME ServiceInv, CancelPendingStart
  PROVE  pending' = NoAttempt /\ timed' = {} /\ listening' = {}
<1>1. CASE pending = NoAttempt
  <2>1. timed = {} /\ listening = {}
    BY <1>1 DEF ServiceInv, OnlyPendingIsLimited, ServiceTypes, Attempts, NoAttempt
  <2> QED BY <1>1, <2>1 DEF CancelPendingStart
<1>2. CASE pending # NoAttempt
  <2>1. pending = instance
    BY <1>2 DEF ServiceInv, PendingIsCurrent
  <2>2. timed \subseteq {pending} /\ listening \subseteq {pending}
    BY DEF ServiceInv, OnlyPendingIsLimited
  <2>3. ClearPendingStart(pending)
    BY <1>2 DEF CancelPendingStart
  <2> QED BY <2>1, <2>2, <2>3 DEF ClearPendingStart
<1> QED BY <1>1, <1>2

LEMMA ExitService == ASSUME ServiceInv, NEW a \in Attempts, ChildExit(a) PROVE ServiceInv'
<1>0. child' = [child EXCEPT ![a] = "gone"] /\ UNCHANGED <<instance, port, env, attempts, wanted>>
  BY DEF ChildExit
<1>1. CASE OwnExit(a)
  <2>1. instance = a /\ a # NoAttempt
    BY <1>1 DEF OwnExit, Attempts, NoAttempt
  <2>2. status' = [status EXCEPT ![a] = "crashed"] /\ restarts' = restarts + 1
    BY <1>1, <2>1 DEF ChildExit, ScheduleRestart
  <2>3. pending' = NoAttempt /\ timed' = {} /\ listening' = {}
    <3>1. CASE a \in port
      <4>1. pending = NoAttempt
        BY <2>1, <3>1 DEF ServiceInv, PendingIsCurrent, OnlyPendingIsLimited
      <4>2. UNCHANGED <<timed, listening, pending>>
        BY <1>1, <2>1, <3>1 DEF ChildExit
      <4>3. timed = {} /\ listening = {}
        BY <4>1 DEF ServiceInv, OnlyPendingIsLimited, ServiceTypes, Attempts, NoAttempt
      <4> QED BY <4>1, <4>2, <4>3
    <3>2. CASE a \notin port
      BY <1>1, <2>1, <3>2, NothingPending DEF ChildExit
    <3> QED BY <3>1, <3>2
  <2> QED BY <1>0, <1>1, <2>1, <2>2, <2>3, Ended DEF OwnExit, HasProcess, Processes
<1>2. CASE ~OwnExit(a)
  <2>1. UNCHANGED <<timed, listening, pending, status, restarts>>
    BY <1>2 DEF ChildExit
  <2>2. ~(a \in env)
    BY DEF ChildExit, ServiceInv, Unused
  <2>3. a <= attempts
    BY DEF ChildExit, ServiceInv, Unused, ServiceTypes, Attempts
  <2>4. ServiceTypes' /\ Unused' /\ OnlyPendingIsLimited' /\ WantedIfThere'
    BY <1>0, <2>1, <2>2, <2>3 DEF ServiceInv, ServiceTypes, Unused, OnlyPendingIsLimited, WantedIfThere,
       Processes, Attempts
  <2>5. NoProcessIsLost' /\ PendingIsCurrent' /\ CrashedHasTimer'
    BY <1>0, <2>1 DEF ServiceInv, ServiceTypes, NoProcessIsLost, PendingIsCurrent, CrashedHasTimer,
       MayRestart, Serves
  <2> QED BY <2>4, <2>5 DEF ServiceInv
<1> QED BY <1>1, <1>2

LEMMA StopService == ASSUME ServiceInv, Stop PROVE ServiceInv'
<1>1. UNCHANGED <<port, env, restarts, attempts>>
  BY DEF Stop
<1>2. CASE instance # NoAttempt
  <2>1. /\ status' = [status EXCEPT ![instance] = "crashed"]
        /\ child' = [child EXCEPT ![instance] = IF child[instance] = "alive" THEN "signalled"
                                                                         ELSE child[instance]]
        /\ instance' = NoAttempt
    BY <1>2 DEF Stop, AfterStop, Signalled
  <2>2. pending' = NoAttempt /\ timed' = {} /\ listening' = {}
    BY <1>2, NothingPending DEF Stop
  <2>3. instance \in Attempts
    BY <1>2, BoundsAssumption DEF ServiceInv, ServiceTypes, Attempts, NoAttempt
  <2>4. ServiceTypes'
    BY <1>1, <2>1, <2>2, <2>3 DEF ServiceInv, ServiceTypes, Statuses, Processes, NoAttempt
  <2>5. Unused' /\ OnlyPendingIsLimited' /\ WantedIfThere'
    BY <1>1, <2>1, <2>2, <2>3 DEF ServiceInv, ServiceTypes, Unused, OnlyPendingIsLimited, WantedIfThere,
       Attempts, NoAttempt
  <2>6. NoProcessIsLost'
    BY <2>1, <2>3 DEF ServiceInv, ServiceTypes, NoProcessIsLost, Serves
  <2>7. PendingIsCurrent' /\ CrashedHasTimer'
    BY <2>1, <2>2 DEF PendingIsCurrent, CrashedHasTimer, MayRestart
  <2> QED BY <2>4, <2>5, <2>6, <2>7 DEF ServiceInv
<1>3. CASE instance = NoAttempt
  <2>1. UNCHANGED <<instance, pending, status, child, listening, timed>>
    BY <1>3 DEF Stop, mapVars, startVars
  <2>2. \A a \in Attempts : ~Serves(a)
    BY <1>3 DEF ServiceInv, NoProcessIsLost, Attempts, NoAttempt
  <2>3. ServiceTypes' /\ Unused' /\ OnlyPendingIsLimited'
    BY <1>1, <2>1 DEF ServiceInv, ServiceTypes, Unused, OnlyPendingIsLimited
  <2>4. WantedIfThere' /\ NoProcessIsLost'
    BY <1>3, <2>1, <2>2 DEF WantedIfThere, NoProcessIsLost, Serves
  <2>5. PendingIsCurrent' /\ CrashedHasTimer'
    BY <1>1, <2>1 DEF ServiceInv, PendingIsCurrent, CrashedHasTimer, MayRestart
  <2> QED BY <2>3, <2>4, <2>5 DEF ServiceInv
<1> QED BY <1>2, <1>3

LEMMA ServiceInvariant == ServiceInv /\ [HostNext]_hostVars => ServiceInv'
<1> SUFFICES ASSUME ServiceInv, [HostNext]_hostVars PROVE ServiceInv'
  OBVIOUS
<1>1. CASE UNCHANGED hostVars
  BY <1>1 DEF hostVars, mapVars, instanceVars, startVars, ServiceInv, ServiceTypes, Unused,
     OnlyPendingIsLimited, WantedIfThere, NoProcessIsLost, PendingIsCurrent, CrashedHasTimer,
     MayRestart, Serves
<1> QED BY <1>1, StartService, RestartService, SpawnedService, ThrowsService, ReadyService,
           TimeoutService, ExitService, StopService DEF HostNext

\* A process that was not told to end is the organization's, wanted, and serves or
\* is being started within its time (start, stop, scheduleRestart and the handlers
\* of the child, host-service-manager.ts).
THEOREM NoProcessIsLostCorrect == HostSpec => []NoProcessIsLost
<1>1. ServiceInv => NoProcessIsLost
  BY DEF ServiceInv
<1> QED BY <1>1, InitService, ServiceInvariant, PTL DEF HostSpec

\* A pending start will be settled, a crashed instance has a restart timer
\* (attachStartupReadyListener, scheduleRestart).
THEOREM TimersCorrect == HostSpec => []TimersSound
<1>1. ServiceInv => TimersSound
  BY DEF ServiceInv, TimersSound
<1> QED BY <1>1, InitService, ServiceInvariant, PTL DEF HostSpec

-----------------------------------------------------------------------------
(* FsWatcher *)

Busy(s) == step[s] \in {"creating", "unsubscribing"}

SharedType ==
    /\ watchers \in Watchers \cup {None} /\ made \in Nat
    /\ native \in [Watchers -> {"none", "subscribing", "on", "unsubscribing", "off"}]
    /\ listeners \in [Watchers -> SUBSET Streams]
    /\ step \in [Streams -> {"idle", "creating", "on", "unsubscribing", "off", "failed"}]
    /\ own \in [Streams -> Watchers \cup {None}]
    /\ failed \subseteq Watchers
    /\ \A s \in Streams : Busy(s) => own[s] \in Watchers

\* Who makes or ends a watcher does so alone.
BusyAlone == \A s, t \in Streams : Busy(s) /\ (Busy(t) \/ step[t] = "on") => s = t

\* The watcher of a stream, by what the stream is doing.
CreatingOwns == \A s \in Streams : step[s] = "creating" =>
                    own[s] \in Watchers /\ native[own[s]] = "subscribing" /\ watchers = None
OnHears == \A s \in Streams : step[s] = "on" =>
               watchers # None /\ native[watchers] # "unsubscribing"
EndingOwns == \A s \in Streams : step[s] = "unsubscribing" => own[s] \in Watchers /\ watchers = own[s]

\* The watcher in the map is there, or could not be unsubscribed.
EntryLives == watchers # None => \/ native[watchers] \in {"on", "unsubscribing"}
                                 \/ native[watchers] = "off" /\ watchers \in failed

\* Those who are told are those who watch.
ListenersWatch == \A w \in Watchers, s \in Streams :
                      s \in listeners[w] <=> step[s] = "on" /\ w = watchers

\* What is not over has a stream that will see to it, or one that failed to.
Attended ==
    /\ \A w \in Watchers :
          /\ native[w] = "subscribing" => \E s \in Streams : step[s] = "creating" /\ own[s] = w
          /\ native[w] = "unsubscribing" => \E s \in Streams : step[s] = "unsubscribing" /\ own[s] = w
          /\ native[w] = "on" => w = watchers /\ (w \in failed \/ \E s \in Streams : step[s] = "on")
    /\ watchers # None => watchers \in failed \/ \E s \in Streams : step[s] \in {"on", "unsubscribing"}

Shared == BusyAlone /\ CreatingOwns /\ OnHears /\ EndingOwns /\ EntryLives /\ ListenersWatch /\ Attended

WatcherInv == SharedType /\ (~overlapped => Shared)

LEMMA NumbersAreNotNone == None \notin Watchers
  BY DEF None, Watchers

LEMMA WatcherInit == Init => WatcherInv
<1> SUFFICES ASSUME Init PROVE WatcherInv
  OBVIOUS
<1>1. SharedType
  BY DEF Init, SharedType, Busy
<1>2. Shared
  BY NumbersAreNotNone DEF Init, Shared, BusyAlone, Busy, CreatingOwns, OnHears, EndingOwns, EntryLives,
                              ListenersWatch, Attended
<1>3. QED
  BY <1>1, <1>2 DEF WatcherInv

\* A stream joins a watcher that is there, or makes one.
LEMMA SubscribeStep ==
  ASSUME WatcherInv, NEW s \in Streams, Subscribe(s)
  PROVE  WatcherInv'
<1>1. CASE /\ watchers # None
           /\ listeners' = [listeners EXCEPT ![watchers] = @ \cup {s}]
           /\ GoTo(s, "on", None) /\ UNCHANGED <<native, made>>
  <2>1. SharedType'
    BY <1>1 DEF WatcherInv, SharedType, Subscribe, GoTo, Busy
  <2>2. ASSUME ~overlapped' PROVE Shared'
    <3>1. Shared /\ \A t \in Streams : ~Busy(t)
      BY <2>2 DEF Subscribe, WatcherInv, Busy
    <3>2. /\ \A t \in Streams : step'[t] = IF t = s THEN "on" ELSE step[t]
          /\ \A w \in Watchers : listeners'[w] = IF w = watchers THEN listeners[w] \cup {s}
                                                 ELSE listeners[w]
          /\ UNCHANGED <<watchers, native, failed>>
      BY <1>1 DEF WatcherInv, SharedType, Subscribe, GoTo, Busy
    <3>3. native[watchers] # "unsubscribing" /\ watchers # None /\ watchers \in Watchers
      BY <1>1, <3>1 DEF Shared, Attended, Busy, WatcherInv, SharedType
    <3>4. \A t \in Streams : step'[t] \notin {"creating", "unsubscribing"}
      BY <3>1, <3>2 DEF Busy
    <3>5. BusyAlone' /\ CreatingOwns' /\ EndingOwns' /\ OnHears' /\ EntryLives'
      BY <3>1, <3>2, <3>3, <3>4 DEF Shared, BusyAlone, CreatingOwns, EndingOwns, OnHears, EntryLives, Busy
    <3>6. ListenersWatch'
      <4> SUFFICES ASSUME NEW w \in Watchers, NEW t \in Streams
                   PROVE  t \in listeners'[w] <=> step'[t] = "on" /\ w = watchers
        BY <3>2 DEF ListenersWatch
      <4>1. t \in listeners[w] <=> step[t] = "on" /\ w = watchers
        BY <3>1 DEF Shared, ListenersWatch
      <4>2. QED
        BY <3>2, <4>1
    <3>7. Attended'
      BY <3>1, <3>2, <3>3 DEF Shared, Attended, Busy
    <3>8. QED
      BY <3>5, <3>6, <3>7 DEF Shared
  <2>3. QED
    BY <2>1, <2>2 DEF WatcherInv
<1>2. CASE /\ watchers = None /\ made + 1 \in Watchers
           /\ made' = made + 1 /\ native' = [native EXCEPT ![made'] = "subscribing"]
           /\ GoTo(s, "creating", made') /\ UNCHANGED listeners
  <2>0. made' \in Watchers /\ made' \in Nat
    BY <1>2 DEF WatcherInv, SharedType
  <2>1. SharedType'
    BY <1>2, <2>0 DEF WatcherInv, SharedType, Subscribe, GoTo, Busy
  <2>2. ASSUME ~overlapped' PROVE Shared'
    <3>1. Shared /\ \A t \in Streams : ~Busy(t)
      BY <2>2 DEF Subscribe, WatcherInv, Busy
    <3>2. /\ \A t \in Streams : step'[t] = IF t = s THEN "creating" ELSE step[t]
          /\ \A t \in Streams : own'[t] = IF t = s THEN made' ELSE own[t]
          /\ \A w \in Watchers : native'[w] = IF w = made' THEN "subscribing" ELSE native[w]
          /\ UNCHANGED <<watchers, listeners, failed>>
      BY <1>2, <2>0 DEF WatcherInv, SharedType, Subscribe, GoTo, Busy
    <3>3. \A t \in Streams : step[t] \notin {"on", "creating", "unsubscribing"}
      BY <1>2, <3>1 DEF Shared, OnHears, Busy
    <3>4. \A t \in Streams : step'[t] \in {"on", "creating", "unsubscribing"} =>
             t = s /\ step'[t] = "creating"
      BY <3>2, <3>3
    <3>5. BusyAlone' /\ CreatingOwns' /\ EndingOwns' /\ OnHears' /\ EntryLives'
      BY <1>2, <2>0, <3>2, <3>4 DEF BusyAlone, CreatingOwns, EndingOwns, OnHears, EntryLives, Busy
    <3>6. ListenersWatch'
      BY <3>1, <3>2, <3>3, <3>4 DEF Shared, ListenersWatch
    <3>7. Attended'
      BY <1>2, <2>0, <3>1, <3>2, <3>3 DEF Shared, Attended
    <3>8. QED
      BY <3>5, <3>6, <3>7 DEF Shared
  <2>3. QED
    BY <2>1, <2>2 DEF WatcherInv
<1>3. QED
  BY <1>1, <1>2 DEF Subscribe

\* Whoever is alone with its watcher stops: the watcher is over and leaves the map.
LEMMA WatcherEnds ==
  ASSUME WatcherInv, NEW s \in Streams, Busy(s),
         native' = [native EXCEPT ![own[s]] = "off"],
         GoTo(s, "off", None), watchers' \in {watchers, None},
         step[s] = "unsubscribing" => watchers' = None,
         UNCHANGED <<listeners, made, overlapped, failed>>
  PROVE  WatcherInv'
<1>1. SharedType'
  BY DEF WatcherInv, SharedType, GoTo, Busy
<1>2. ASSUME ~overlapped PROVE Shared'
  <2>1. Shared
    BY <1>2 DEF WatcherInv
  <2>2. /\ \A t \in Streams : step'[t] = IF t = s THEN "off" ELSE step[t]
        /\ \A w \in Watchers : native'[w] = IF w = own[s] THEN "off" ELSE native[w]
    BY DEF WatcherInv, SharedType, GoTo, Busy
  <2>3. \A t \in Streams : t # s => step[t] \notin {"on", "creating", "unsubscribing"}
    BY <2>1 DEF Shared, BusyAlone, Busy
  <2>4. \A t \in Streams : step'[t] \notin {"on", "creating", "unsubscribing"}
    BY <2>2, <2>3
  <2>5. watchers' = None
    BY <2>1 DEF Shared, CreatingOwns, Busy
  <2>6. BusyAlone' /\ CreatingOwns' /\ EndingOwns' /\ OnHears' /\ EntryLives'
    BY <2>4, <2>5 DEF BusyAlone, CreatingOwns, EndingOwns, OnHears, EntryLives, Busy
  <2>7. ListenersWatch'
    <3>1. \A t \in Streams : step[t] # "on"
      BY <2>3 DEF Busy
    <3>2. QED
      BY <2>1, <2>4, <3>1 DEF Shared, ListenersWatch
  <2>8. Attended'
    <3>1. \A w \in Watchers : native'[w] \in {"none", "off"}
      BY <2>1, <2>2, <2>3, NumbersAreNotNone DEF Shared, Attended, CreatingOwns, EndingOwns, Busy,
         WatcherInv, SharedType
    <3>2. QED
      BY <2>5, <3>1 DEF Attended
  <2>9. QED
    BY <2>6, <2>7, <2>8 DEF Shared
<1>3. QED
  BY <1>1, <1>2 DEF WatcherInv

\* The watcher of s is in the map and ends, and nobody else has anything to do with one.
LEMMA EndsAlone ==
  ASSUME SharedType, Shared, NEW s \in Streams, NEW o \in Watchers,
         \A t \in Streams : step'[t] = IF t = s THEN "unsubscribing" ELSE step[t],
         \A w \in Watchers : w # o => native'[w] = native[w],
         \/ native'[o] = "unsubscribing"
         \/ native'[o] = "off" /\ o \in failed,
         failed' = failed, own'[s] = o, watchers' = o, watchers \in {None, o},
         step[s] = "creating" => own[s] = o,
         step[s] \in {"creating", "on"},
         \A t \in Streams : t # s => step[t] \notin {"on", "creating", "unsubscribing"},
         \A w \in Watchers : listeners'[w] = {}
  PROVE  Shared'
<1>1. \A t \in Streams : step'[t] \in {"on", "creating", "unsubscribing"} =>
         t = s /\ step'[t] = "unsubscribing"
  OBVIOUS
<1>2. BusyAlone' /\ CreatingOwns' /\ EndingOwns' /\ OnHears' /\ EntryLives'
  BY <1>1 DEF BusyAlone, CreatingOwns, EndingOwns, OnHears, EntryLives, Busy
<1>3. ListenersWatch'
  BY <1>1 DEF ListenersWatch
<1>4. \A w \in Watchers : w # o => native'[w] \in {"none", "off"}
  BY NumbersAreNotNone DEF Shared, Attended, SharedType
<1>5. Attended'
  BY <1>4 DEF Attended
<1>6. QED
  BY <1>2, <1>3, <1>5 DEF Shared

\* createWatcher() is done.
LEMMA SubscribedStep ==
  ASSUME WatcherInv, NEW s \in Streams, Subscribed(s)
  PROVE  WatcherInv'
<1>1. step[s] = "creating" /\ own[s] \in Watchers
  BY DEF Subscribed, WatcherInv, SharedType, Busy
<1>2. CASE /\ s \notin closed
           /\ native' = [native EXCEPT ![own[s]] = "on"]
           /\ listeners' = [listeners EXCEPT ![own[s]] = @ \cup {s}]
           /\ GoTo(s, "on", None)
  <2>1. SharedType'
    BY <1>1, <1>2 DEF Subscribed, WatcherInv, SharedType, GoTo, Busy
  <2>2. ASSUME ~overlapped' PROVE Shared'
    <3>1. Shared
      BY <2>2 DEF Subscribed, WatcherInv
    <3>2. /\ \A t \in Streams : step'[t] = IF t = s THEN "on" ELSE step[t]
          /\ \A w \in Watchers : native'[w] = IF w = own[s] THEN "on" ELSE native[w]
          /\ \A w \in Watchers : listeners'[w] = IF w = own[s] THEN listeners[w] \cup {s}
                                                 ELSE listeners[w]
          /\ watchers' = own[s] /\ failed' = failed
      BY <1>1, <1>2 DEF WatcherInv, SharedType, Subscribed, GoTo
    <3>3. /\ \A t \in Streams : t # s => step[t] \notin {"on", "creating", "unsubscribing"}
          /\ watchers = None
      BY <1>1, <3>1 DEF Shared, BusyAlone, Busy, CreatingOwns
    <3>4. \A t \in Streams : step'[t] \in {"on", "creating", "unsubscribing"} =>
             t = s /\ step'[t] = "on"
      BY <3>2, <3>3
    <3>5. BusyAlone' /\ CreatingOwns' /\ EndingOwns' /\ OnHears' /\ EntryLives'
      BY <1>1, <3>2, <3>4, NumbersAreNotNone DEF BusyAlone, CreatingOwns, EndingOwns, OnHears,
         EntryLives, Busy
    <3>6. \A w \in Watchers : listeners[w] = {}
      <4>1. \A t \in Streams : step[t] # "on"
        BY <1>1, <3>3
      <4>2. QED
        BY <3>1, <4>1 DEF Shared, ListenersWatch, WatcherInv, SharedType
    <3>7. ListenersWatch'
      <4> SUFFICES ASSUME NEW w \in Watchers, NEW t \in Streams
                   PROVE  t \in listeners'[w] <=> step'[t] = "on" /\ w = own[s]
        BY <3>2 DEF ListenersWatch
      <4>1. CASE w = own[s]
        <5>1. listeners'[w] = listeners[w] \cup {s} /\ listeners[w] = {}
          BY <3>2, <3>6, <4>1
        <5>2. QED
          BY <3>2, <3>4, <4>1, <5>1
      <4>2. CASE w # own[s]
        <5>1. listeners'[w] = {}
          BY <3>2, <3>6, <4>2
        <5>2. QED
          BY <4>2, <5>1
      <4>3. QED
        BY <4>1, <4>2
    <3>8. Attended'
      BY <1>1, <3>1, <3>2, <3>3, NumbersAreNotNone DEF Shared, Attended
    <3>9. QED
      BY <3>5, <3>7, <3>8 DEF Shared
  <2>3. QED
    BY <2>1, <2>2 DEF WatcherInv
<1>3. CASE /\ s \in closed
           /\ listeners' = listeners
           /\ native' = [native EXCEPT ![own[s]] = "unsubscribing"]
           /\ GoTo(s, "unsubscribing", own[s])
  <2>1. SharedType'
    BY <1>1, <1>3 DEF Subscribed, WatcherInv, SharedType, GoTo, Busy
  <2>2. ASSUME ~overlapped' PROVE Shared'
    <3>1. Shared
      BY <2>2 DEF Subscribed, WatcherInv
    <3>2. /\ \A t \in Streams : step'[t] = IF t = s THEN "unsubscribing" ELSE step[t]
          /\ \A w \in Watchers : native'[w] = IF w = own[s] THEN "unsubscribing" ELSE native[w]
          /\ watchers' = own[s] /\ own' = own /\ listeners' = listeners /\ failed' = failed
      BY <1>1, <1>3 DEF WatcherInv, SharedType, Subscribed, GoTo
    <3>3. /\ \A t \in Streams : t # s => step[t] \notin {"on", "creating", "unsubscribing"}
          /\ watchers = None
      BY <1>1, <3>1 DEF Shared, BusyAlone, Busy, CreatingOwns
    <3>4. \A w \in Watchers : listeners'[w] = {}
      <4>1. \A t \in Streams : step[t] # "on"
        BY <1>1, <3>3
      <4>2. QED
        BY <3>1, <3>2, <4>1 DEF Shared, ListenersWatch, WatcherInv, SharedType
    <3>5. SharedType /\ own'[s] = own[s]
      BY <3>2 DEF WatcherInv
    <3>6. QED
      BY <1>1, <3>1, <3>2, <3>3, <3>4, <3>5, EndsAlone
  <2>3. QED
    BY <2>1, <2>2 DEF WatcherInv
<1>4. QED
  BY <1>2, <1>3 DEF Subscribed

\* The function that subscribe() returns, called for a stream that watches.
LEMMA CloseStep ==
  ASSUME WatcherInv, NEW s \in Streams, Close(s)
  PROVE  WatcherInv'
<1>1. CASE step[s] = "creating" /\ UNCHANGED <<native, listeners, step, own>>
  BY <1>1 DEF Close, WatcherInv, SharedType, Shared, BusyAlone, Busy, CreatingOwns, OnHears, EndingOwns,
              EntryLives, ListenersWatch, Attended
<1>2. CASE step[s] = "on" /\ Cleanup(s, watchers, listeners)
  <2>1. CASE watchers = None /\ listeners' = listeners /\ GoTo(s, "off", None) /\ UNCHANGED native
    <3>1. SharedType'
      BY <2>1 DEF Close, WatcherInv, SharedType, GoTo, Busy
    <3>2. overlapped /\ overlapped'
      BY <1>2, <2>1 DEF Close, WatcherInv, Shared, OnHears
    <3>3. QED
      BY <3>1, <3>2 DEF WatcherInv
  <2>2. CASE watchers # None /\ listeners' = [listeners EXCEPT ![watchers] = @ \ {s}]
    <3>1. watchers \in Watchers /\ UNCHANGED <<watchers, made, overlapped, failed>>
      BY <2>2 DEF WatcherInv, SharedType, Close
    <3>2. \A w \in Watchers : listeners'[w] = IF w = watchers THEN listeners[w] \ {s} ELSE listeners[w]
      BY <2>2 DEF WatcherInv, SharedType
    <3>3. CASE listeners'[watchers] # {} /\ GoTo(s, "off", None) /\ UNCHANGED native
      <4>1. SharedType'
        BY <2>2, <3>1, <3>3 DEF WatcherInv, SharedType, GoTo, Busy
      <4>2. ASSUME ~overlapped PROVE Shared'
        <5>1. Shared
          BY <4>2 DEF WatcherInv
        <5>2. \A t \in Streams : step'[t] = IF t = s THEN "off" ELSE step[t]
          BY <3>3 DEF WatcherInv, SharedType, GoTo
        <5>3. \A t \in Streams : step[t] \notin {"creating", "unsubscribing"}
          BY <1>2, <5>1 DEF Shared, BusyAlone, Busy
        <5>4. PICK t \in Streams : t \in listeners'[watchers]
          BY <3>1, <3>2, <3>3 DEF WatcherInv, SharedType
        <5>5. t # s /\ step[t] = "on"
          BY <3>1, <3>2, <5>1, <5>4 DEF Shared, ListenersWatch
        <5>6. BusyAlone' /\ CreatingOwns' /\ EndingOwns' /\ OnHears' /\ EntryLives'
          BY <3>1, <3>3, <5>1, <5>2, <5>3 DEF Shared, BusyAlone, CreatingOwns, EndingOwns, OnHears,
             EntryLives, Busy
        <5>7. ListenersWatch'
          <6> SUFFICES ASSUME NEW w \in Watchers, NEW u \in Streams
                       PROVE  u \in listeners'[w] <=> step'[u] = "on" /\ w = watchers
            BY <3>1 DEF ListenersWatch
          <6>1. u \in listeners[w] <=> step[u] = "on" /\ w = watchers
            BY <5>1 DEF Shared, ListenersWatch
          <6>2. QED
            BY <3>2, <5>2, <6>1
        <5>8. Attended'
          BY <3>1, <3>3, <5>1, <5>2, <5>3, <5>5 DEF Shared, Attended
        <5>9. QED
          BY <5>6, <5>7, <5>8 DEF Shared
      <4>3. QED
        BY <3>1, <4>1, <4>2 DEF WatcherInv
    <3>4. CASE /\ listeners'[watchers] = {} /\ GoTo(s, "unsubscribing", watchers)
               /\ native' = [native EXCEPT ![watchers] = IF @ = "on" THEN "unsubscribing" ELSE @]
      <4>1. SharedType'
        BY <2>2, <3>1, <3>4 DEF WatcherInv, SharedType, GoTo, Busy
      <4>2. ASSUME ~overlapped PROVE Shared'
        <5>1. Shared /\ SharedType
          BY <4>2 DEF WatcherInv
        <5>2. /\ \A t \in Streams : step'[t] = IF t = s THEN "unsubscribing" ELSE step[t]
              /\ own'[s] = watchers
          BY <3>4 DEF WatcherInv, SharedType, GoTo
        <5>3. \/ native[watchers] = "on"
              \/ native[watchers] = "off" /\ watchers \in failed
          BY <1>2, <2>2, <5>1 DEF Shared, OnHears, EntryLives
        <5>4. /\ \A w \in Watchers : w # watchers => native'[w] = native[w]
              /\ \/ native'[watchers] = "unsubscribing"
                 \/ native'[watchers] = "off" /\ watchers \in failed
          BY <3>1, <3>4, <5>1, <5>3 DEF SharedType
        <5>5. \A t \in Streams : step[t] \notin {"creating", "unsubscribing"}
          BY <1>2, <5>1 DEF Shared, BusyAlone, Busy
        <5>6. \A t \in Streams : t # s => step[t] # "on"
          <6>1. \A t \in Streams : t # s => t \notin listeners[watchers]
            BY <3>1, <3>2, <3>4
          <6>2. QED
            BY <3>1, <5>1, <6>1 DEF Shared, ListenersWatch
        <5>7. \A w \in Watchers : listeners'[w] = {}
          <6> SUFFICES ASSUME NEW w \in Watchers, w # watchers PROVE listeners[w] = {}
            BY <3>2, <3>4
          <6>1. \A t \in Streams : t \notin listeners[w]
            BY <5>1 DEF Shared, ListenersWatch
          <6>2. QED
            BY <5>1, <6>1 DEF SharedType
        <5>8. QED
          BY <1>2, <3>1, <5>1, <5>2, <5>4, <5>5, <5>6, <5>7, EndsAlone
      <4>3. QED
        BY <3>1, <4>1, <4>2 DEF WatcherInv
    <3>5. QED
      BY <1>2, <2>2, <3>3, <3>4 DEF Cleanup
  <2>3. QED
    BY <1>2, <2>1, <2>2 DEF Cleanup
<1>3. QED
  BY <1>1, <1>2 DEF Close

\* unsubscribe() is rejected: the watcher stays in the map, and nobody watches.
LEMMA UnsubscribeFailsStep ==
  ASSUME WatcherInv, NEW s \in Streams, UnsubscribeFails(s)
  PROVE  WatcherInv'
<1> DEFINE o == own[s]
<1>1. /\ step[s] = "unsubscribing" /\ o \in Watchers /\ Busy(s)
      /\ watchers' = watchers /\ failed' = failed \cup {o} /\ GoTo(s, "failed", None)
      /\ UNCHANGED <<listeners, made, overlapped>>
  BY DEF UnsubscribeFails, EntryAfterFailure, WatcherInv, SharedType, Busy
<1>2. PICK after \in {"on", "off"} :
         native' = [native EXCEPT ![o] = IF @ = "off" THEN @ ELSE after]
  BY DEF UnsubscribeFails
<1> HIDE DEF o
<1>3. SharedType'
  BY <1>1, <1>2 DEF WatcherInv, SharedType, GoTo, Busy
<1>4. ASSUME ~overlapped PROVE Shared'
  <2>1. Shared /\ SharedType
    BY <1>4 DEF WatcherInv
  <2>2. watchers = o
    BY <1>1, <2>1 DEF Shared, EndingOwns, o
  <2>3. /\ \A t \in Streams : step'[t] = IF t = s THEN "failed" ELSE step[t]
        /\ \A w \in Watchers : w # o => native'[w] = native[w]
        /\ native'[o] \in {"on", "off"}
    BY <1>1, <1>2, <2>1 DEF SharedType, GoTo
  <2>4. \A t \in Streams : t # s => step[t] \notin {"on", "creating", "unsubscribing"}
    BY <1>1, <2>1 DEF Shared, BusyAlone, Busy
  <2>5. \A t \in Streams : step'[t] \notin {"on", "creating", "unsubscribing"}
    BY <2>3, <2>4
  <2>6. BusyAlone' /\ CreatingOwns' /\ EndingOwns' /\ OnHears'
    BY <2>5 DEF BusyAlone, CreatingOwns, EndingOwns, OnHears, Busy
  <2>7. EntryLives'
    BY <1>1, <2>2, <2>3 DEF EntryLives
  <2>8. ListenersWatch'
    <3>1. \A t \in Streams : step[t] # "on"
      BY <1>1, <2>4
    <3>2. QED
      BY <1>1, <2>1, <2>5, <3>1 DEF Shared, ListenersWatch
  <2>9. Attended'
    <3>1. \A w \in Watchers : w # o => native'[w] \in {"none", "off"}
      BY <1>1, <2>1, <2>2, <2>3, <2>4 DEF Shared, Attended, SharedType, o
    <3>2. QED
      BY <1>1, <2>2, <2>3, <3>1 DEF Attended
  <2>10. QED
    BY <2>6, <2>7, <2>8, <2>9 DEF Shared
<1>5. QED
  BY <1>1, <1>3, <1>4 DEF WatcherInv

LEMMA WatcherStep == WatcherInv /\ [Next]_vars => WatcherInv'
<1> SUFFICES ASSUME WatcherInv, [Next]_vars PROVE WatcherInv'
  OBVIOUS
<1>1. ASSUME UNCHANGED <<managerVars, step, own>> PROVE WatcherInv'
  BY <1>1 DEF managerVars, WatcherInv, SharedType, Shared, BusyAlone, Busy, CreatingOwns, OnHears,
              EndingOwns, EntryLives, ListenersWatch, Attended
<1>2. ASSUME NEW s \in Streams, SubscribeFails(s) \/ Unsubscribed(s) PROVE WatcherInv'
  <2>1. /\ Busy(s) /\ native' = [native EXCEPT ![own[s]] = "off"] /\ GoTo(s, "off", None)
        /\ watchers' \in {watchers, None}
        /\ step[s] = "unsubscribing" => watchers' = None
        /\ UNCHANGED <<listeners, made, overlapped, failed>>
    BY <1>2 DEF SubscribeFails, Unsubscribed, Busy
  <2>2. QED
    BY <2>1, WatcherEnds
<1>3. ASSUME NEW s \in Streams, Read(s) PROVE WatcherInv'
  BY <1>1, <1>3 DEF Read
<1>4. ASSUME NEW w \in Watchers, Emit(w) PROVE WatcherInv'
  BY <1>1, <1>4 DEF Emit
<1>5. CASE UNCHANGED vars
  BY <1>1, <1>5 DEF vars
<1>6. QED
  BY <1>2, <1>3, <1>4, <1>5, SubscribeStep, SubscribedStep, CloseStep,
     UnsubscribeFailsStep DEF Next

\* However many streams come, fail, close and end, as long as none begins while the
\* watcher of another is being made or ended: there is one native watcher; nobody who
\* watches has one that is over, and none is left when all have gone, but for one that
\* could not be unsubscribed, which stays in the map for the next stream (subscribe()
\* and the function that it returns, watch.ts).
THEOREM SharedCorrect == Spec => []WatcherShared
<1>1. WatcherInv => WatcherShared
  <2> SUFFICES ASSUME WatcherInv, ~overlapped
               PROVE  NoneLeftRunning /\ SubscribersHear /\ OneWatcher
    BY DEF WatcherShared
  <2>1. Shared /\ SharedType
    BY DEF WatcherInv
  <2>2. NoneLeftRunning
    BY <2>1 DEF Shared, Attended, SharedType, NoneLeftRunning
  <2>3. SubscribersHear
    BY <2>1 DEF Shared, OnHears, EntryLives, ListenersWatch, SharedType, SubscribersHear
  <2>4. OneWatcher
    BY <2>1 DEF Shared, Attended, OneWatcher
  <2>5. QED
    BY <2>2, <2>3, <2>4
<1>2. QED
  BY WatcherInit, WatcherStep, <1>1, PTL DEF Spec

-----------------------------------------------------------------------------
(* What a reader gets *)

Batch == Nat

QueueType ==
    /\ queue \in [Streams -> Seq(Batch)] /\ read \in [Streams -> Seq(Batch)]
    /\ told \in [Streams -> Seq(Batch)]
    /\ waiters \in [Streams -> Nat] /\ batches \in Nat
    /\ closed \subseteq Streams /\ overlapped \in BOOLEAN

InOrder(s) == read[s] \o queue[s] = told[s] /\ (waiters[s] > 0 => queue[s] = <<>>)

ReaderInv == WatcherInv /\ QueueType /\ \A s \in Streams : InOrder(s)

LEMMA EmptyRight == \A q \in Seq(Batch) : q \o <<>> = q
  OBVIOUS

LEMMA MoveHead ==
  ASSUME NEW r \in Seq(Batch), NEW q \in Seq(Batch), q # <<>>
  PROVE  Append(r, Head(q)) \o Tail(q) = r \o q /\ Head(q) \in Batch /\ Tail(q) \in Seq(Batch)
<1>1. Head(q) \in Batch /\ Tail(q) \in Seq(Batch) /\ q = <<Head(q)>> \o Tail(q)
  BY HeadTailProperties, ConcatProperties
<1>2. Append(r, Head(q)) = r \o <<Head(q)>>
  BY <1>1, AppendIsConcat
<1>3. (r \o <<Head(q)>>) \o Tail(q) = r \o (<<Head(q)>> \o Tail(q))
  BY <1>1, ConcatAssociative
<1>4. QED
  BY <1>1, <1>2, <1>3

LEMMA AppendRight ==
  ASSUME NEW r \in Seq(Batch), NEW q \in Seq(Batch), NEW b \in Batch
  PROVE  r \o Append(q, b) = Append(r \o q, b)
<1>1. r \o q \in Seq(Batch) /\ Append(q, b) = q \o <<b>> /\ Append(r \o q, b) = (r \o q) \o <<b>>
  BY AppendIsConcat, ConcatProperties
<1>2. QED
  BY <1>1, ConcatAssociative

\* No batch comes or is read, and some calls of next() may be answered.
LEMMA QuietStep ==
  ASSUME QueueType, \A s \in Streams : InOrder(s),
         UNCHANGED <<queue, read, told, batches>>, closed' \subseteq Streams,
         overlapped' \in BOOLEAN,
         waiters' = waiters \/ \E s \in Streams : waiters' = Dismissed(s)
  PROVE  QueueType' /\ \A s \in Streams : InOrder(s)'
<1>1. waiters' \in [Streams -> Nat] /\ \A s \in Streams : waiters'[s] > 0 => waiters[s] > 0
  <2>1. CASE waiters' = waiters
    BY <2>1 DEF QueueType
  <2>2. ASSUME NEW s \in Streams, waiters' = [waiters EXCEPT ![s] = 0]
        PROVE  waiters' \in [Streams -> Nat] /\ \A t \in Streams : waiters'[t] > 0 => waiters[t] > 0
    <3>1. 0 \in Nat /\ waiters \in [Streams -> Nat]
      BY DEF QueueType
    <3>2. waiters' \in [Streams -> Nat]
      BY <2>2, <3>1
    <3>3. ASSUME NEW t \in Streams, waiters'[t] > 0 PROVE waiters[t] > 0
      <4>1. CASE t = s
        BY <2>2, <3>1, <3>3, <4>1
      <4>2. CASE t # s
        BY <2>2, <3>1, <3>3, <4>2
      <4>3. QED
        BY <4>1, <4>2
    <3>4. QED
      BY <3>2, <3>3
  <2>3. QED
    BY <2>1, <2>2 DEF Dismissed
<1>2. QED
  BY <1>1 DEF QueueType, InOrder

LEMMA EmitStep ==
  ASSUME QueueType, \A s \in Streams : InOrder(s), NEW w \in Watchers, Emit(w)
  PROVE  QueueType' /\ \A s \in Streams : InOrder(s)'
<1> DEFINE heard == listeners[w] \ closed
           b == batches'
<1>1. b \in Batch /\ b \in Nat /\ UNCHANGED <<closed, overlapped>>
  BY DEF Emit, QueueType, Batch, managerVars
<1>2. /\ waiters' = [s \in Streams |-> waiters[s] - (IF s \in Served(w) THEN 1 ELSE 0)]
      /\ read' = [s \in Streams |-> IF s \in Served(w) THEN Append(read[s], b) ELSE read[s]]
      /\ queue' = [s \in Streams |-> IF s \in heard \ Served(w) THEN Append(queue[s], b) ELSE queue[s]]
      /\ told' = [s \in Streams |-> IF s \in heard THEN Append(told[s], b) ELSE told[s]]
  BY DEF Emit
<1> HIDE DEF b, heard
<1>3. ASSUME NEW s \in Streams
      PROVE  /\ queue'[s] \in Seq(Batch) /\ read'[s] \in Seq(Batch) /\ told'[s] \in Seq(Batch)
             /\ waiters'[s] \in Nat /\ InOrder(s)'
  <2>0. /\ queue[s] \in Seq(Batch) /\ read[s] \in Seq(Batch) /\ told[s] \in Seq(Batch)
        /\ waiters[s] \in Nat /\ read[s] \o queue[s] = told[s]
        /\ waiters[s] > 0 => queue[s] = <<>>
    BY DEF QueueType, InOrder
  <2>1. CASE s \in Served(w)
    <3>1. s \in heard /\ waiters[s] > 0 /\ queue[s] = <<>>
      BY <2>0, <2>1 DEF Served, heard
    <3>2. /\ queue'[s] = queue[s] /\ read'[s] = Append(read[s], b) /\ told'[s] = Append(told[s], b)
          /\ waiters'[s] = waiters[s] - 1
      BY <1>2, <2>1, <3>1
    <3>3. told[s] = read[s] /\ read'[s] \in Seq(Batch)
      BY <1>1, <2>0, <3>1, <3>2, EmptyRight, AppendProperties
    <3>4. read'[s] \o queue'[s] = told'[s]
      BY <3>1, <3>2, <3>3, EmptyRight
    <3>5. waiters'[s] \in Nat
      BY <2>0, <3>1, <3>2
    <3>6. QED
      BY <2>0, <3>1, <3>2, <3>3, <3>4, <3>5 DEF InOrder
  <2>2. CASE s \in heard \ Served(w)
    <3>1. ~(waiters[s] > 0)
      BY <2>2 DEF Served, heard
    <3>2. /\ queue'[s] = Append(queue[s], b) /\ read'[s] = read[s] /\ told'[s] = Append(told[s], b)
          /\ waiters'[s] = waiters[s]
      BY <1>2, <2>0, <2>2
    <3>3. queue'[s] \in Seq(Batch) /\ told'[s] \in Seq(Batch)
      BY <1>1, <2>0, <3>2, AppendProperties
    <3>4. read'[s] \o queue'[s] = told'[s]
      BY <1>1, <2>0, <3>2, AppendRight
    <3>5. QED
      BY <2>0, <3>1, <3>2, <3>3, <3>4 DEF InOrder
  <2>3. CASE s \notin heard /\ s \notin Served(w)
    <3>1. /\ queue'[s] = queue[s] /\ read'[s] = read[s] /\ told'[s] = told[s]
          /\ waiters'[s] = waiters[s]
      BY <1>2, <2>0, <2>3
    <3>2. QED
      BY <2>0, <3>1 DEF InOrder
  <2>4. QED
    BY <2>1, <2>2, <2>3
<1>4. QueueType'
  BY <1>1, <1>2, <1>3 DEF QueueType, b
<1>5. QED
  BY <1>3, <1>4

LEMMA ReadStep ==
  ASSUME QueueType, \A s \in Streams : InOrder(s), NEW s \in Streams, Read(s)
  PROVE  QueueType' /\ \A t \in Streams : InOrder(t)'
<1>0. UNCHANGED <<told, batches, closed, overlapped>>
  BY DEF Read, managerVars
<1>1. CASE Take(s)
  <2>1. /\ queue[s] \in Seq(Batch) /\ read[s] \in Seq(Batch) /\ queue[s] # <<>>
        /\ read[s] \o queue[s] = told[s] /\ waiters' = waiters
        /\ waiters[s] > 0 => queue[s] = <<>>
    BY <1>1 DEF QueueType, InOrder, Take
  <2>2. /\ Append(read[s], Head(queue[s])) \o Tail(queue[s]) = told[s]
        /\ Append(read[s], Head(queue[s])) \in Seq(Batch) /\ Tail(queue[s]) \in Seq(Batch)
    BY <2>1, MoveHead, AppendProperties
  <2>3. /\ queue' = [queue EXCEPT ![s] = Tail(queue[s])]
        /\ read' = [read EXCEPT ![s] = Append(read[s], Head(queue[s]))]
    BY <1>1 DEF Take
  <2>4. QueueType'
    BY <1>0, <2>1, <2>2, <2>3 DEF QueueType
  <2>5. ASSUME NEW t \in Streams PROVE InOrder(t)'
    <3>1. CASE t = s
      BY <1>0, <2>1, <2>2, <2>3, <3>1 DEF QueueType, InOrder
    <3>2. CASE t # s
      BY <1>0, <2>1, <2>3, <3>2 DEF QueueType, InOrder
    <3>3. QED
      BY <3>1, <3>2
  <2>6. QED
    BY <2>4, <2>5
<1>2. CASE /\ queue[s] = <<>> /\ waiters[s] < MaxReads
           /\ waiters' = [waiters EXCEPT ![s] = @ + 1]
           /\ UNCHANGED <<queue, read>>
  BY <1>0, <1>2 DEF QueueType, InOrder
<1>3. QED
  BY <1>1, <1>2 DEF Read

\* Whatever calls of next() wait and however batches, closing and the end of the native
\* watcher interleave, a reader gets what its stream was told of, in order and once each
\* (createAsyncQueue).
THEOREM ReadsCorrect == Spec => []ReadsInOrder
<1>1. Init => ReaderInv
  <2> SUFFICES ASSUME Init PROVE QueueType /\ \A s \in Streams : InOrder(s)
    BY WatcherInit DEF ReaderInv
  <2>1. <<>> \in Seq(Batch) /\ <<>> \o <<>> = <<>>
    BY EmptyRight
  <2>2. 0 \in Nat
    OBVIOUS
  <2>3. QueueType
    BY <2>1, <2>2 DEF Init, QueueType
  <2>4. \A s \in Streams : queue[s] = <<>> /\ read[s] = <<>> /\ told[s] = <<>>
    BY DEF Init
  <2>5. QED
    BY <2>1, <2>3, <2>4 DEF InOrder
<1>2. ReaderInv /\ [Next]_vars => ReaderInv'
  <2> SUFFICES ASSUME ReaderInv, [Next]_vars PROVE QueueType' /\ \A s \in Streams : InOrder(s)'
    BY WatcherStep DEF ReaderInv
  <2>0. QueueType /\ \A s \in Streams : InOrder(s)
    BY DEF ReaderInv
  <2>1. ASSUME NEW s \in Streams, \/ Subscribe(s) \/ SubscribeFails(s) \/ Subscribed(s)
                                  \/ Close(s) \/ Unsubscribed(s) \/ UnsubscribeFails(s)
        PROVE  QueueType' /\ \A t \in Streams : InOrder(t)'
    <3>1. UNCHANGED <<queue, read, told, batches>>
      BY <2>1 DEF Subscribe, SubscribeFails, Subscribed, Close, Unsubscribed, UnsubscribeFails, queueVars
    <3>2. closed' \subseteq Streams /\ overlapped' \in BOOLEAN
      BY <2>0, <2>1 DEF QueueType, Subscribe, SubscribeFails, Subscribed, Close, Unsubscribed, UnsubscribeFails
    <3>3. waiters' = waiters \/ waiters' = Dismissed(s)
      BY <2>1 DEF Subscribe, SubscribeFails, Subscribed, Close, Unsubscribed, UnsubscribeFails, queueVars
    <3>4. QED
      BY <2>0, <3>1, <3>2, <3>3, QuietStep
  <2>2. CASE UNCHANGED vars
    BY <2>0, <2>2 DEF vars, managerVars, queueVars, QueueType, InOrder
  <2>3. QED
    BY <2>0, <2>1, <2>2, EmitStep, ReadStep DEF Next
<1>3. ReaderInv => ReadsInOrder
  BY DEF ReaderInv, WatcherInv, SharedType, QueueType, InOrder, ReadsInOrder, TypeOK, Batch
<1>4. QED
  BY <1>1, <1>2, <1>3, PTL DEF Spec

-----------------------------------------------------------------------------
(* FsEvents *)

Reports == [path : Paths, kind : Kinds]
Batches == SUBSET [path : Paths, kind : Kinds, from : Paths]
Said == Kinds \cup {"none"}

\* A report of what makes the files T of the files S
Seen(S, r, T) ==
    /\ r.kind = "create" <=> r.path \notin S
    /\ T = IF r.kind = "delete" THEN S \ {r.path} ELSE S \cup {r.path}

\* The reports rs are those of what makes T of S, one change after another; h has the
\* files of every moment.
Tells(S, rs, T) ==
    \E h \in [0..Len(rs) -> SUBSET Paths] :
       /\ h[0] = S /\ h[Len(rs)] = T
       /\ \A i \in 1..Len(rs) : Seen(h[i - 1], rs[i], h[i])

\* The batches fs make T of S when they are published in their order.
Makes(S, fs, T) ==
    \E h \in [0..Len(fs) -> SUBSET Paths] :
       /\ h[0] = S /\ h[Len(fs)] = T
       /\ \A i \in 1..Len(fs) : h[i] = Apply(h[i - 1], Reconciled(fs[i]))

\* A set of files is behind the files that are there by what is still to be told: the
\* batches fs and the reports rs.
Behind(S, fs, rs, T) == \E M \in SUBSET Paths : Makes(S, fs, M) /\ Tells(M, rs, T)
Follows(S) == Behind(S, flights, pendingEvents \o reports, files)

\* Each path is in one event of a batch.
Plain(E) == \A e \in E : e.from = e.path /\ \A f \in E : f.path = e.path => f = e
PlainBatches == {E \in Batches : Plain(E)}

TypesInv == EventTypes /\ flights \in Seq(PlainBatches)

\* What was reported, and is still to be told, leads from the files that a listener
\* knows to those that are there, unless reports were lost or batches overtook.
ViewInv == TypesInv /\ (mishaps \subseteq {"disturbed"} => Follows(view))

\* A build begins when all is told, and nothing changes as long as it runs: an index
\* that may be stored has those of the paths that were looked at that are there.
BuildsAreQuiet ==
    /\ RunningBuilds # {} => Settled
    /\ \A b \in RunningBuilds : builds[b].current => builds[b].found = files \ builds[b].left

\* The index is behind as a listener is: when reports are lost, then there is none.
IndexFollows == BuildsAreQuiet /\ (cache.has => Follows(cache.items))
IndexInv == TypesInv /\ (mishaps \subseteq {"lost"} => IndexFollows)

\* A set of numbers that is not empty has a smallest member: the finite sets 0..x-1 are
\* well-founded by strict inclusion.
LEMMA NatMin ==
    ASSUME NEW T, T \subseteq Nat, T # {}
    PROVE  Min(T) \in T /\ \A y \in T : Min(T) <= y
<1> DEFINE Below(n) == IF n = 0 THEN {} ELSE 0..(n-1)
           U == {Below(x) : x \in T}
<1>1. U \subseteq FiniteSubsetsOf(Nat)
  <2> SUFFICES ASSUME NEW x \in T PROVE 0..(x-1) \in FiniteSubsetsOf(Nat)
    BY FS_EmptySet DEF FiniteSubsetsOf
  <2>1. 0..(x-1) \subseteq Nat
    OBVIOUS
  <2>2. IsFiniteSet(0..(x-1))
    BY FS_Interval
  <2> QED BY <2>1, <2>2 DEF FiniteSubsetsOf
<1>2. U # {}
  OBVIOUS
<1>3. PICK B \in U : \A C \in U : ~ (<<C, B>> \in StrictSubsetOrdering(Nat))
  <2> HIDE DEF U
  <2> QED BY <1>1, <1>2, FS_StrictSubsetOrderingWellFounded, WFMin
<1>4. PICK x \in T : B = Below(x)
  OBVIOUS
<1>5. ASSUME NEW y \in T, y < x PROVE FALSE
  <2>1. ~ (<<Below(y), Below(x)>> \in StrictSubsetOrdering(Nat))
    BY <1>3, <1>4
  <2>2. Below(y) \subseteq Below(x) /\ Below(y) # Below(x)
    <3>1. x \in Nat /\ y \in Nat
      OBVIOUS
    <3>2. x-1 \in Below(x) /\ x-1 \notin Below(y)
      BY <3>1, <1>5
    <3> QED BY <3>1, <3>2, <1>5
  <2>3. Below(y) \in SUBSET Nat /\ Below(x) \in SUBSET Nat
    BY x \in Nat, y \in Nat
  <2> QED BY <2>1, <2>2, <2>3 DEF StrictSubsetOrdering
<1>6. \E z \in T : \A y \in T : z <= y
  BY <1>5
<1> QED BY <1>6 DEF Min

LEMMA MaxIs ==
    ASSUME NEW m \in Nat, NEW s \in SUBSET (1..m), m \in s
    PROVE  Max(s) = m
<1>1. \A y \in s : m >= y
  OBVIOUS
<1>2. Max(s) \in s /\ \A y \in s : Max(s) >= y
  BY <1>1 DEF Max
<1>3. \A x \in s : x >= m => x = m
  OBVIOUS
<1> QED BY <1>2, <1>3

-----------------------------------------------------------------------------
(* What is known of the paths is a fold over the reports.                   *)

Nothing == [p \in Paths |-> "none"]

\* Its function of the positions, and what is known after the first i reports
KnownOver(f, rs, d) ==
    f = [s \in SUBSET d |-> IF s = {} THEN Nothing ELSE Noted(f[s \ {Max(s)}], rs[Max(s)])]
Knower(rs, d) == CHOOSE f : KnownOver(f, rs, d)
KnownAfter(rs, i) == Knower(rs, 1..Len(rs))[1..i]

LEMMA KnownIs ==
    ASSUME NEW rs, DOMAIN rs = 1..Len(rs)
    PROVE  Known(rs) = KnownAfter(rs, Len(rs))
BY DEF Known, Nothing, FoldLeft, MapThenFoldSet, Knower, KnownOver, KnownAfter

\* The function exists, for what is known after n reports can be continued.
LEMMA KnowerExists ==
    ASSUME NEW rs, NEW n \in Nat
    PROVE  \E f : KnownOver(f, rs, 1..n)
<1> DEFINE T == {k \in Nat : ~\E f : KnownOver(f, rs, 1..k)}
<1>1. SUFFICES ASSUME T # {} PROVE FALSE
  OBVIOUS
<1>2. PICK m \in Nat : m \in T /\ \A k \in T : m <= k
  BY <1>1, NatMin
<1>3. m # 0
  <2>1. 1..0 = {}
    OBVIOUS
  <2>2. KnownOver([s \in SUBSET (1..0) |-> Nothing], rs, 1..0)
    BY <2>1 DEF KnownOver
  <2> QED BY <2>2, <1>2
<1>4. PICK l \in Nat : m = l + 1
  <2>1. m - 1 \in Nat /\ m = (m - 1) + 1
    BY <1>3
  <2> QED BY <2>1
<1>5. PICK f : KnownOver(f, rs, 1..l)
  BY <1>2, <1>4
<1> DEFINE g == [s \in SUBSET (1..m) |-> IF m \in s THEN Noted(f[s \ {m}], rs[m]) ELSE f[s]]
<1>6. KnownOver(g, rs, 1..m)
  <2>1. ASSUME NEW s \in SUBSET (1..m)
        PROVE  g[s] = IF s = {} THEN Nothing ELSE Noted(g[s \ {Max(s)}], rs[Max(s)])
    <3>1. CASE m \in s
      <4>1. Max(s) = m
        BY <3>1, MaxIs
      <4>2. g[s \ {m}] = f[s \ {m}]
        OBVIOUS
      <4> QED BY <3>1, <4>1, <4>2
    <3>2. CASE m \notin s
      <4>1. s \in SUBSET (1..l)
        BY <3>2, <1>4
      <4>2. f[s] = IF s = {} THEN Nothing ELSE Noted(f[s \ {Max(s)}], rs[Max(s)])
        BY <4>1, <1>5 DEF KnownOver
      <4>3. g[s \ {Max(s)}] = f[s \ {Max(s)}] /\ g[s] = f[s]
        BY <3>2
      <4> QED BY <4>2, <4>3
    <3> QED BY <3>1, <3>2
  <2>2. g = [s \in SUBSET (1..m) |-> IF s = {} THEN Nothing
                                     ELSE Noted(g[s \ {Max(s)}], rs[Max(s)])]
    BY <2>1
  <2> QED BY <2>2 DEF KnownOver
<1> QED BY <1>2, <1>6

LEMMA UpTo ==
    ASSUME NEW n \in Nat, NEW i \in 1..n
    PROVE  i \in Nat /\ 1..i \in SUBSET (1..n) /\ 1..i # {} /\ i \in 1..i
OBVIOUS

LEMMA KnownStep ==
    ASSUME NEW rs, Len(rs) \in Nat
    PROVE  /\ KnownAfter(rs, 0) = Nothing
           /\ \A i \in 1..Len(rs) : KnownAfter(rs, i) = Noted(KnownAfter(rs, i - 1), rs[i])
<1> DEFINE n == Len(rs)
           f == Knower(rs, 1..n)
<1>1. f = [s \in SUBSET (1..n) |-> IF s = {} THEN Nothing ELSE Noted(f[s \ {Max(s)}], rs[Max(s)])]
  <2>1. KnownOver(f, rs, 1..n)
    BY KnowerExists DEF Knower
  <2> HIDE DEF f
  <2> QED BY <2>1 DEF KnownOver
<1> HIDE DEF f
<1>2. f[1..0] = Nothing
  BY <1>1
<1>3. n \in Nat
  OBVIOUS
<1> HIDE DEF n
<1>4. ASSUME NEW i \in 1..n
      PROVE  f[1..i] = Noted(f[1..(i - 1)], rs[i])
  <2>1. i \in Nat /\ 1..i \in SUBSET (1..n) /\ 1..i # {} /\ i \in 1..i
    BY <1>3, UpTo
  <2>2. Max(1..i) = i
    BY <2>1, MaxIs
  <2>3. (1..i) \ {i} = 1..(i - 1)
    BY <2>1
  <2>4. f[1..i] = Noted(f[(1..i) \ {Max(1..i)}], rs[Max(1..i)])
    BY <1>1, <2>1
  <2> QED BY <2>2, <2>3, <2>4
<1> QED BY <1>2, <1>4 DEF f, n, KnownAfter

-----------------------------------------------------------------------------
(* Coalescing: the reports of a sequence of changes say of each path what   *)
(* it was before the first and is after the last one.                       *)

\* What is known of a path says whether it is in the files S and T; with nothing known,
\* it is in both or in neither.
Leads(S, k, T) ==
    /\ k \in [Paths -> Said]
    /\ \A p \in Paths :
          /\ k[p] = "none" => (p \in S <=> p \in T)
          /\ k[p] = "create" => p \notin S /\ p \in T
          /\ k[p] = "update" => p \in S /\ p \in T
          /\ k[p] = "delete" => p \in S /\ p \notin T

LEMMA CoalesceTyped == \A a \in Said, b \in Kinds : Coalesce(a, b) \in Said
BY DEF Said, Kinds, Coalesce

LEMMA LeadsStep ==
    ASSUME NEW S, NEW k, NEW T, Leads(S, k, T), NEW r \in Reports, NEW U, Seen(T, r, U)
    PROVE  Leads(S, Noted(k, r), U)
<1> DEFINE n == Noted(k, r)
<1>1. r.path \in Paths /\ r.kind \in Kinds
  BY DEF Reports
<1>2. k \in [Paths -> Said]
  BY DEF Leads
<1>3. n[r.path] = Coalesce(k[r.path], r.kind) /\ \A p \in Paths : p # r.path => n[p] = k[p]
  BY <1>1, <1>2 DEF Noted
<1>5. n \in [Paths -> Said]
  BY <1>1, <1>2, CoalesceTyped DEF Noted
<1> HIDE DEF n
<1>6. ASSUME NEW p \in Paths
      PROVE  /\ n[p] = "none" => (p \in S <=> p \in U)
             /\ n[p] = "create" => p \notin S /\ p \in U
             /\ n[p] = "update" => p \in S /\ p \in U
             /\ n[p] = "delete" => p \in S /\ p \notin U
  <2>1. CASE p # r.path
    <3>1. p \in U <=> p \in T
      BY <2>1 DEF Seen
    <3> QED BY <2>1, <3>1, <1>3 DEF Leads
  <2>2. CASE p = r.path
    <3>1. /\ r.kind = "create" <=> p \notin T
          /\ p \in U <=> r.kind # "delete"
      BY <2>2 DEF Seen
    <3>2. /\ k[p] \in Said
          /\ k[p] = "none" => (p \in S <=> p \in T)
          /\ k[p] = "create" => p \notin S /\ p \in T
          /\ k[p] = "update" => p \in S /\ p \in T
          /\ k[p] = "delete" => p \in S /\ p \notin T
      BY <1>2 DEF Leads
    <3>3. n[p] = Coalesce(k[p], r.kind)
      BY <2>2, <1>3
    <3> QED BY <3>1, <3>2, <3>3, <1>1 DEF Said, Kinds, Coalesce
  <2> QED BY <2>1, <2>2
<1> QED BY <1>5, <1>6 DEF n, Leads

LEMMA TellsLeads ==
    ASSUME NEW S, NEW rs \in Seq(Reports), NEW T, Tells(S, rs, T)
    PROVE  Leads(S, Known(rs), T)
<1>1. PICK h \in [0..Len(rs) -> SUBSET Paths] :
         /\ h[0] = S /\ h[Len(rs)] = T
         /\ \A i \in 1..Len(rs) : Seen(h[i - 1], rs[i], h[i])
  BY DEF Tells
<1>2. Len(rs) \in Nat /\ DOMAIN rs = 1..Len(rs)
  BY LenProperties
<1>3. \A i \in 1..Len(rs) : rs[i] \in Reports
  BY <1>2, ElementOfSeq
<1> DEFINE n == Len(rs)
           B == {i \in 0..n : ~Leads(S, KnownAfter(rs, i), h[i])}
<1>4. /\ KnownAfter(rs, 0) = Nothing
      /\ \A i \in 1..n : KnownAfter(rs, i) = Noted(KnownAfter(rs, i - 1), rs[i])
  BY <1>2, KnownStep
<1>5. Leads(S, Nothing, S)
  BY DEF Leads, Nothing, Said
<1>6. n \in Nat
  BY <1>2
<1>7. /\ \A i \in 1..n : rs[i] \in Reports /\ Seen(h[i - 1], rs[i], h[i])
      /\ h[0] = S /\ h[n] = T
  BY <1>1, <1>3
<1>8. Known(rs) = KnownAfter(rs, n)
  BY <1>2, KnownIs
<1> HIDE DEF n
<1>9. B = {}
  <2>1. SUFFICES ASSUME B # {} PROVE FALSE
    OBVIOUS
  <2>2. B \subseteq Nat
    BY <1>6
  <2>3. PICK m \in B : \A k \in B : m <= k
    BY <2>1, <2>2, NatMin
  <2>4. m # 0
    BY <1>4, <1>5, <1>7
  <2>5. m \in 1..n /\ m - 1 \in 0..n /\ ~(m <= m - 1)
    BY <2>4, <1>6
  <2>6. Leads(S, KnownAfter(rs, m - 1), h[m - 1])
    BY <2>3, <2>5
  <2>7. rs[m] \in Reports /\ Seen(h[m - 1], rs[m], h[m])
    BY <2>5, <1>7
  <2>8. Leads(S, Noted(KnownAfter(rs, m - 1), rs[m]), h[m])
    BY <2>6, <2>7, LeadsStep
  <2> QED BY <2>5, <2>8, <1>4
<1>10. n \in 0..n
  BY <1>6
<1> QED BY <1>7, <1>8, <1>9, <1>10

-----------------------------------------------------------------------------
(* Renames: pairs are of one deletion and one creation each, and those that *)
(* are paired are in one pair.                                              *)

Pairing(P, dels, creates) ==
    /\ P \subseteq dels \X creates
    /\ \A x, y \in P : x[1] = y[1] \/ x[2] = y[2] => x = y

LEMMA UniqueIsPairing ==
    ASSUME NEW dels, NEW creates, NEW part
    PROVE  Pairing(UniquePairs(dels, creates, part), dels, creates)
<1> DEFINE U == UniquePairs(dels, creates, part)
<1>1. U \subseteq dels \X creates
  BY DEF UniquePairs
<1>2. ASSUME NEW x \in U, NEW y \in U, x[1] = y[1] \/ x[2] = y[2]
      PROVE  x = y
  <2>1. /\ x \in dels \X creates /\ y \in dels \X creates
        /\ x[1][part] = x[2][part] /\ y[1][part] = y[2][part]
        /\ \A q \in dels : q[part] = x[1][part] => q = x[1]
        /\ \A q \in creates : q[part] = x[2][part] => q = x[2]
    BY DEF UniquePairs
  <2>2. /\ x[1] \in dels /\ x[2] \in creates /\ y[1] \in dels /\ y[2] \in creates
        /\ x = <<x[1], x[2]>> /\ y = <<y[1], y[2]>>
    BY <2>1
  <2>3. x[1][part] = y[1][part]
    BY <1>2, <2>1
  <2>4. y[1] = x[1] /\ y[2] = x[2]
    BY <2>1, <2>2, <2>3
  <2> QED BY <2>2, <2>4
<1> QED BY <1>1, <1>2 DEF Pairing

LEMMA PairingMore ==
    ASSUME NEW dels, NEW creates, NEW P, NEW Q, Pairing(P, dels, creates),
           Pairing(Q, dels \ Firsts(P), creates \ Seconds(P))
    PROVE  Pairing(P \cup Q, dels, creates)
<1>1. P \cup Q \subseteq dels \X creates
  BY DEF Pairing
<1>2. ASSUME NEW x \in P, NEW y \in Q PROVE x[1] # y[1] /\ x[2] # y[2]
  <2>1. y \in (dels \ Firsts(P)) \X (creates \ Seconds(P))
    BY DEF Pairing
  <2>2. y[1] \notin Firsts(P) /\ y[2] \notin Seconds(P)
    BY <2>1
  <2> QED BY <2>2 DEF Firsts, Seconds
<1>3. ASSUME NEW x \in P \cup Q, NEW y \in P \cup Q, x[1] = y[1] \/ x[2] = y[2]
      PROVE  x = y
  BY <1>2, <1>3 DEF Pairing
<1> QED BY <1>1, <1>3 DEF Pairing

\* The rounds of pairRenameCandidates pair nothing twice.
LEMMA PairsArePairing ==
    ASSUME NEW dels, NEW creates
    PROVE  Pairing(Pairs(dels, creates), dels, creates)
<1> DEFINE byParent == UniquePairs(dels, creates, 1)
           byName == UniquePairs(dels \ Firsts(byParent), creates \ Seconds(byParent), 2)
           some == byParent \cup byName
           rest == (dels \ Firsts(some)) \X (creates \ Seconds(some))
           last == {x \in rest : rest = {x}}
<1>1. Pairing(byParent, dels, creates)
  BY UniqueIsPairing
<1>2. Pairing(byName, dels \ Firsts(byParent), creates \ Seconds(byParent))
  BY UniqueIsPairing
<1>3. Pairing(some, dels, creates)
  <2> HIDE DEF byParent, byName
  <2> QED BY <1>1, <1>2, PairingMore
<1>4. Pairing(last, dels \ Firsts(some), creates \ Seconds(some))
  <2> HIDE DEF some
  <2> QED BY DEF Pairing
<1>5. Pairing(some \cup last, dels, creates)
  <2> HIDE DEF some, last
  <2> QED BY <1>3, <1>4, PairingMore
<1> QED BY <1>5 DEF Pairs

-----------------------------------------------------------------------------
(* What the reconciled events tell is what the events of a batch tell.      *)

\* The paths of the events of a kind
OfKind(E, kind) == {e.path : e \in {f \in E : f.kind = kind}}
PairsOf(E) == Pairs(OfKind(E, "delete"), OfKind(E, "create"))
Renames(P) == {[path |-> x[2], kind |-> "rename", from |-> x[1]] : x \in P}

LEMMA ReconciledIs ==
    ASSUME NEW E
    PROVE  Reconciled(E) = {e \in E : e.path \notin Firsts(PairsOf(E)) \cup Seconds(PairsOf(E))}
                           \cup Renames(PairsOf(E))
BY DEF Reconciled, PairsOf, OfKind, Renames

LEMMA PairsOfPlain ==
    ASSUME NEW E \in Batches, Plain(E)
    PROVE  /\ \A x \in PairsOf(E) : /\ \E d \in E : d.path = x[1] /\ d.kind = "delete"
                                    /\ \E c \in E : c.path = x[2] /\ c.kind = "create"
           /\ \A x, y \in PairsOf(E) : /\ x[1] # y[2]
                                       /\ x[1] = y[1] \/ x[2] = y[2] => x = y
<1> DEFINE D == OfKind(E, "delete")
           C == OfKind(E, "create")
           P == PairsOf(E)
<1>1. Pairing(P, D, C)
  BY PairsArePairing DEF PairsOf
<1> HIDE DEF P
<1>2. \A x \in P : x[1] \in D /\ x[2] \in C
  <2> HIDE DEF D, C
  <2> QED BY <1>1 DEF Pairing
<1>3. \A p \in D : \E d \in E : d.path = p /\ d.kind = "delete"
  BY DEF OfKind
<1>4. \A p \in C : \E c \in E : c.path = p /\ c.kind = "create"
  BY DEF OfKind
<1> HIDE DEF D, C
<1>5. \A p \in D : p \notin C
  BY <1>3, <1>4 DEF Plain
<1>6. \A x, y \in P : x[1] = y[1] \/ x[2] = y[2] => x = y
  BY <1>1 DEF Pairing
<1> QED BY <1>2, <1>3, <1>4, <1>5, <1>6 DEF P

\* A reconciled event is an event of the batch that is in no pair, or a rename.
LEMMA ReconciledCases ==
    ASSUME NEW E \in Batches, Plain(E)
    PROVE  /\ \A e \in Reconciled(E) :
                 \/ /\ e \in E /\ e.from = e.path /\ e.kind \in Kinds
                    /\ \A x \in PairsOf(E) : e.path # x[1] /\ e.path # x[2]
                 \/ \E x \in PairsOf(E) : e = [path |-> x[2], kind |-> "rename", from |-> x[1]]
           /\ \A e \in E : \/ e \in Reconciled(E)
                           \/ \E x \in PairsOf(E) : e.path = x[1] \/ e.path = x[2]
           /\ \A x \in PairsOf(E) :
                 [path |-> x[2], kind |-> "rename", from |-> x[1]] \in Reconciled(E)
<1> DEFINE P == PairsOf(E)
<1>1. Reconciled(E) = {e \in E : e.path \notin Firsts(P) \cup Seconds(P)} \cup Renames(P)
  BY ReconciledIs
<1>2. \A e \in E : e.from = e.path /\ e.kind \in Kinds
  BY DEF Plain, Batches
<1> HIDE DEF P
<1>3. \A p : p \in Firsts(P) <=> \E x \in P : p = x[1]
  BY DEF Firsts
<1>4. \A p : p \in Seconds(P) <=> \E x \in P : p = x[2]
  BY DEF Seconds
<1>5. \A e : e \in Renames(P) <=>
               \E x \in P : e = [path |-> x[2], kind |-> "rename", from |-> x[1]]
  BY DEF Renames
<1> QED BY <1>1, <1>2, <1>3, <1>4, <1>5 DEF P

LEMMA ReconciledOnce ==
    ASSUME NEW E \in Batches, Plain(E)
    PROVE  ToldOnce(E)
<1> DEFINE events == Reconciled(E)
           P == PairsOf(E)
           R(x) == [path |-> x[2], kind |-> "rename", from |-> x[1]]
<1>1. /\ \A e \in events : \/ /\ e \in E /\ e.from = e.path /\ e.kind \in Kinds
                            /\ \A x \in P : e.path # x[1] /\ e.path # x[2]
                         \/ \E x \in P : e = R(x)
      /\ \A e \in E : e \in events \/ \E x \in P : e.path = x[1] \/ e.path = x[2]
      /\ \A x \in P : R(x) \in events
  BY ReconciledCases
<1>2. /\ \A x \in P : /\ \E d \in E : d.path = x[1] /\ d.kind = "delete"
                      /\ \E c \in E : c.path = x[2] /\ c.kind = "create"
      /\ \A x, y \in P : x[1] # y[2] /\ (x[1] = y[1] \/ x[2] = y[2] => x = y)
  BY PairsOfPlain
<1>3. \A x : R(x).path = x[2] /\ R(x).from = x[1]
  OBVIOUS
<1> HIDE DEF events, P, R
<1>4. UNION {{e.path, e.from} : e \in events} = {e.path : e \in E}
  <2>1. ASSUME NEW e \in events PROVE \E f, g \in E : f.path = e.path /\ g.path = e.from
    <3>1. CASE e \in E /\ e.from = e.path
      BY <3>1
    <3>2. CASE \E x \in P : e = R(x)
      BY <3>2, <1>2, <1>3
    <3> QED BY <1>1, <3>1, <3>2
  <2>2. ASSUME NEW e \in E PROVE \E f \in events : e.path = f.path \/ e.path = f.from
    <3>1. CASE e \in events
      BY <3>1
    <3>2. CASE \E x \in P : e.path = x[1] \/ e.path = x[2]
      BY <3>2, <1>1, <1>3
    <3> QED BY <1>1, <3>1, <3>2
  <2> QED BY <2>1, <2>2
<1>5. ASSUME NEW e \in events, NEW f \in events, {e.path, e.from} \cap {f.path, f.from} # {}
      PROVE  e = f
  <2>1. CASE (e \in E /\ e.from = e.path) /\ (f \in E /\ f.from = f.path)
    BY <2>1, <1>5 DEF Plain
  <2>2. CASE \E x \in P : e = R(x)
    <3>1. PICK x \in P : e = R(x)
      BY <2>2
    <3>2. CASE \E y \in P : f = R(y)
      <4>1. PICK y \in P : f = R(y)
        BY <3>2
      <4>2. e.path = x[2] /\ e.from = x[1] /\ f.path = y[2] /\ f.from = y[1]
        BY <3>1, <4>1, <1>3
      <4>3. x[1] # y[2] /\ y[1] # x[2]
        BY <1>2
      <4>4. x = y
        BY <4>2, <4>3, <1>2, <1>5
      <4> QED BY <3>1, <4>1, <4>4
    <3>3. CASE f.from = f.path /\ \A y \in P : f.path # y[1] /\ f.path # y[2]
      BY <3>1, <3>3, <1>3, <1>5
    <3> QED BY <3>2, <3>3, <1>1
  <2>3. CASE /\ e.from = e.path /\ \A y \in P : e.path # y[1] /\ e.path # y[2]
             /\ \E x \in P : f = R(x)
    BY <2>3, <1>3, <1>5
  <2> QED BY <2>1, <2>2, <2>3, <1>1
<1> QED BY <1>4, <1>5 DEF ToldOnce, events

\* What is gone and what is there after a set of events
Gone(E) == {e.path : e \in {f \in E : f.kind = "delete"}}
           \cup {e.from : e \in {f \in E : f.kind = "rename"}}
There(E) == {e.path : e \in {f \in E : f.kind # "delete"}}

LEMMA ApplyIs ==
    ASSUME NEW S, NEW E
    PROVE  Apply(S, E) = (S \ Gone(E)) \cup There(E)
BY DEF Apply, Gone, There

LEMMA ReconciledSame ==
    ASSUME NEW E \in Batches, Plain(E)
    PROVE  Gone(Reconciled(E)) = Gone(E) /\ There(Reconciled(E)) = There(E)
<1> DEFINE events == Reconciled(E)
           P == PairsOf(E)
           R(x) == [path |-> x[2], kind |-> "rename", from |-> x[1]]
<1>1. /\ \A e \in events : \/ /\ e \in E /\ e.from = e.path /\ e.kind \in Kinds
                            /\ \A x \in P : e.path # x[1] /\ e.path # x[2]
                         \/ \E x \in P : e = R(x)
      /\ \A e \in E : e \in events \/ \E x \in P : e.path = x[1] \/ e.path = x[2]
      /\ \A x \in P : R(x) \in events
  BY ReconciledCases
<1>2. /\ \A x \in P : /\ \E d \in E : d.path = x[1] /\ d.kind = "delete"
                      /\ \E c \in E : c.path = x[2] /\ c.kind = "create"
  BY PairsOfPlain
<1>3. \A x : R(x).path = x[2] /\ R(x).from = x[1] /\ R(x).kind = "rename"
  OBVIOUS
<1>4. \A e \in E : e.kind # "rename"
  BY DEF Batches, Kinds
<1> HIDE DEF events, P, R
<1>5. \A F, p : p \in Gone(F) <=> \/ \E e \in F : e.kind = "delete" /\ p = e.path
                                  \/ \E e \in F : e.kind = "rename" /\ p = e.from
  BY DEF Gone
<1>6. \A F, p : p \in There(F) <=> \E e \in F : e.kind # "delete" /\ p = e.path
  BY DEF There
<1>7. ASSUME NEW p, p \in Gone(events) PROVE p \in Gone(E)
  BY <1>7, <1>1, <1>2, <1>3, <1>5 DEF Kinds
<1>8. ASSUME NEW p, p \in Gone(E) PROVE p \in Gone(events)
  <2>1. PICK e \in E : e.kind = "delete" /\ p = e.path
    BY <1>8, <1>4, <1>5
  <2>2. CASE e \in events
    BY <2>1, <2>2, <1>5
  <2>3. CASE \E x \in P : e.path = x[1]
    BY <2>1, <2>3, <1>1, <1>3, <1>5
  <2>4. CASE \E x \in P : e.path = x[2]
    BY <2>1, <2>4, <1>2 DEF Plain
  <2> QED BY <2>2, <2>3, <2>4, <1>1
<1>9. ASSUME NEW p, p \in There(events) PROVE p \in There(E)
  BY <1>9, <1>1, <1>2, <1>3, <1>6
<1>10. ASSUME NEW p, p \in There(E) PROVE p \in There(events)
  <2>1. PICK e \in E : e.kind # "delete" /\ p = e.path
    BY <1>10, <1>6
  <2>2. CASE e \in events
    BY <2>1, <2>2, <1>6
  <2>3. CASE \E x \in P : e.path = x[2]
    BY <2>1, <2>3, <1>1, <1>3, <1>6
  <2>4. CASE \E x \in P : e.path = x[1]
    BY <2>1, <2>4, <1>2 DEF Plain
  <2> QED BY <2>2, <2>3, <2>4, <1>1
<1>11. Gone(events) = Gone(E)
  BY <1>7, <1>8
<1>12. There(events) = There(E)
  BY <1>9, <1>10
<1> QED BY <1>11, <1>12 DEF events

-----------------------------------------------------------------------------
(* Taking a batch out of those that are looked at                           *)

LEMMA RemovedIsSeq ==
    ASSUME NEW S, NEW q \in Seq(S), NEW i \in 1..Len(q)
    PROVE  RemoveAt(q, i) \in Seq(S)
<1>1. Len(q) \in Nat /\ \A j \in 1..Len(q) : q[j] \in S
  BY LenProperties, ElementOfSeq
<1>2. /\ 1 \in Int /\ i - 1 \in Int /\ i + 1 \in Int /\ Len(q) \in Int
      /\ \A j \in 1..(i - 1) : j \in 1..Len(q)
      /\ \A j \in (i + 1)..Len(q) : j \in 1..Len(q)
  BY <1>1
<1>3. SubSeq(q, 1, i - 1) \in Seq(S)
  <2>1. \A j \in 1..(i - 1) : q[j] \in S
    BY <1>1, <1>2
  <2> QED BY <1>2, <2>1, SubSeqProperties
<1>4. SubSeq(q, i + 1, Len(q)) \in Seq(S)
  <2>1. \A j \in (i + 1)..Len(q) : q[j] \in S
    BY <1>1, <1>2
  <2> QED BY <1>2, <2>1, SubSeqProperties
<1> QED BY <1>3, <1>4, ConcatProperties DEF RemoveAt

LEMMA RemovedFirst ==
    ASSUME NEW S, NEW q \in Seq(S), q # <<>>
    PROVE  RemoveAt(q, 1) = Tail(q)
<1>1. 1 \in Int /\ 1 - 1 \in Int /\ 1 - 1 < 1 /\ 1 + 1 = 2
  OBVIOUS
<1>2. SubSeq(q, 1, 1 - 1) = <<>>
  BY <1>1, SubSeqEmpty
<1>3. Tail(q) = SubSeq(q, 2, Len(q)) /\ Tail(q) \in Seq(S)
  BY TailIsSubSeq, HeadTailProperties
<1>4. RemoveAt(q, 1) = <<>> \o Tail(q)
  BY <1>1, <1>2, <1>3 DEF RemoveAt
<1> QED BY <1>3, <1>4, ConcatEmptySeq

-----------------------------------------------------------------------------
(* A batch makes of the files before its first report the files after the   *)
(* last one.                                                                *)

LEMMA CoalescedIs ==
    ASSUME NEW rs, NEW k \in [Paths -> Said], k = Known(rs)
    PROVE  /\ Coalesced(rs) \in Batches /\ Plain(Coalesced(rs))
           /\ \A p \in Paths : k[p] # "none" =>
                 [path |-> p, kind |-> k[p], from |-> p] \in Coalesced(rs)
           /\ \A e \in Coalesced(rs) : e.path \in Paths /\ k[e.path] # "none" /\ e.kind = k[e.path]
<1> DEFINE Q == {q \in Paths : k[q] # "none"}
           e(p) == [path |-> p, kind |-> k[p], from |-> p]
<1>1. Coalesced(rs) = {e(p) : p \in Q}
  BY DEF Coalesced
<1>2. \A p \in Q : p \in Paths /\ k[p] \in Kinds
  BY DEF Said
<1>3. \A p \in Q : /\ e(p) \in [path : Paths, kind : Kinds, from : Paths]
                   /\ e(p).path = p /\ e(p).from = p /\ e(p).kind = k[p]
  BY <1>2
<1> HIDE DEF e
<1>4. \A f \in Coalesced(rs) : \E p \in Q : f = e(p)
  BY <1>1
<1>5. Coalesced(rs) \in Batches
  BY <1>3, <1>4 DEF Batches
<1>6. Plain(Coalesced(rs))
  BY <1>3, <1>4 DEF Plain
<1>7. \A p \in Paths : k[p] # "none" => e(p) \in Coalesced(rs)
  BY <1>1
<1>8. \A f \in Coalesced(rs) : f.path \in Paths /\ k[f.path] # "none" /\ f.kind = k[f.path]
  BY <1>3, <1>4
<1> QED BY <1>5, <1>6, <1>7, <1>8 DEF e

LEMMA BatchMakes ==
    ASSUME NEW S \in SUBSET Paths, NEW T \in SUBSET Paths, NEW rs \in Seq(Reports),
           Tells(S, rs, T)
    PROVE  /\ Coalesced(rs) \in Batches /\ Plain(Coalesced(rs))
           /\ Apply(S, Reconciled(Coalesced(rs))) = T
           /\ Coalesced(rs) = {} => S = T
<1> DEFINE k == Known(rs)
           E == Coalesced(rs)
<1>1. Leads(S, k, T)
  BY TellsLeads
<1>2. k \in [Paths -> Said]
  BY <1>1 DEF Leads
<1>3. /\ E \in Batches /\ Plain(E)
      /\ \A p \in Paths : k[p] # "none" => [path |-> p, kind |-> k[p], from |-> p] \in E
      /\ \A e \in E : e.path \in Paths /\ k[e.path] # "none" /\ e.kind = k[e.path]
  BY <1>2, CoalescedIs
<1>4. Gone(Reconciled(E)) = Gone(E) /\ There(Reconciled(E)) = There(E)
  BY <1>3, ReconciledSame
<1>5. Apply(S, Reconciled(E)) = (S \ Gone(E)) \cup There(E)
  BY <1>4, ApplyIs
<1> HIDE DEF k, E
<1>6. ASSUME NEW p \in Paths PROVE p \in Gone(E) <=> k[p] = "delete"
  <2>1. \A e \in E : e.kind # "rename"
    BY <1>3 DEF Batches, Kinds
  <2>2. p \in Gone(E) <=> \E e \in E : e.kind = "delete" /\ p = e.path
    BY <2>1 DEF Gone
  <2> QED BY <2>2, <1>3
<1>7. ASSUME NEW p \in Paths PROVE p \in There(E) <=> k[p] # "delete" /\ k[p] # "none"
  <2>1. p \in There(E) <=> \E e \in E : e.kind # "delete" /\ p = e.path
    BY DEF There
  <2> QED BY <2>1, <1>3
<1>8. There(E) \subseteq Paths
  BY <1>3 DEF There
<1>9. ASSUME NEW p \in Paths PROVE p \in (S \ Gone(E)) \cup There(E) <=> p \in T
  BY <1>1, <1>2, <1>6, <1>7 DEF Leads, Said, Kinds
<1>10. (S \ Gone(E)) \cup There(E) = T
  BY <1>8, <1>9
<1>11. ASSUME E = {} PROVE S = T
  BY <1>10, <1>11 DEF Gone, There
<1> QED BY <1>3, <1>5, <1>10, <1>11 DEF E

\* Published or not, batches are of the paths.
LEMMA ApplyTyped ==
    ASSUME NEW S \in SUBSET Paths, NEW E \in Batches, Plain(E)
    PROVE  Apply(S, Reconciled(E)) \in SUBSET Paths
<1>1. There(E) \subseteq Paths
  BY DEF There, Batches
<1>2. Apply(S, Reconciled(E)) = (S \ Gone(E)) \cup There(E)
  BY ReconciledSame, ApplyIs
<1> QED BY <1>1, <1>2

-----------------------------------------------------------------------------
(* Sequences of reports and of batches begin, go on, and are divided.       *)

LEMMA TellsNothing ==
    ASSUME NEW S \in SUBSET Paths
    PROVE  Tells(S, <<>>, S) /\ \A T : Tells(S, <<>>, T) => S = T
<1>1. Len(<<>>) = 0 /\ 1..0 = {} /\ 0 \in 0..0
  OBVIOUS
<1>2. Tells(S, <<>>, S)
  <2> DEFINE h == [i \in 0..0 |-> S]
  <2>1. h \in [0..0 -> SUBSET Paths] /\ h[0] = S
    OBVIOUS
  <2> HIDE DEF h
  <2> QED BY <1>1, <2>1 DEF Tells
<1>3. \A T : Tells(S, <<>>, T) => S = T
  BY <1>1 DEF Tells
<1> QED BY <1>2, <1>3

LEMMA TellsMore ==
    ASSUME NEW S \in SUBSET Paths, NEW T \in SUBSET Paths, NEW U \in SUBSET Paths,
           NEW rs \in Seq(Reports), NEW r \in Reports, Tells(S, rs, T), Seen(T, r, U)
    PROVE  Tells(S, Append(rs, r), U)
<1> DEFINE n == Len(rs)
           more == Append(rs, r)
<1>1. n \in Nat
  BY LenProperties
<1>2. Len(more) = n + 1 /\ more[n + 1] = r /\ \A i \in 1..n : more[i] = rs[i]
  BY AppendProperties
<1>3. PICK h \in [0..n -> SUBSET Paths] :
         h[0] = S /\ h[n] = T /\ \A i \in 1..n : Seen(h[i - 1], rs[i], h[i])
  BY DEF Tells
<1> HIDE DEF n, more
<1> DEFINE g == [i \in 0..(n + 1) |-> IF i = n + 1 THEN U ELSE h[i]]
<1>4. /\ g \in [0..(n + 1) -> SUBSET Paths] /\ g[n + 1] = U
      /\ \A i \in 0..n : g[i] = h[i]
  <2>1. \A i \in 0..(n + 1) : i = n + 1 \/ i \in 0..n
    BY <1>1
  <2>2. \A i \in 0..n : i # n + 1 /\ i \in 0..(n + 1)
    BY <1>1
  <2>3. n + 1 \in 0..(n + 1)
    BY <1>1
  <2> QED BY <2>1, <2>2, <2>3
<1> HIDE DEF g
<1>5. 0 \in 0..n /\ n \in 0..n /\ (n + 1) - 1 = n
  BY <1>1
<1>6. ASSUME NEW i \in 1..(n + 1) PROVE Seen(g[i - 1], more[i], g[i])
  <2>1. CASE i = n + 1
    BY <2>1, <1>2, <1>3, <1>4, <1>5
  <2>2. CASE i # n + 1
    <3>1. i \in 1..n /\ i \in 0..n /\ i - 1 \in 0..n
      BY <2>2, <1>1
    <3> QED BY <3>1, <1>2, <1>3, <1>4
  <2> QED BY <2>1, <2>2
<1> QED BY <1>2, <1>3, <1>4, <1>5, <1>6 DEF Tells, more

LEMMA TellsSplit ==
    ASSUME NEW S \in SUBSET Paths, NEW T \in SUBSET Paths, NEW a \in Seq(Reports),
           NEW b \in Seq(Reports), Tells(S, a \o b, T)
    PROVE  \E M \in SUBSET Paths : Tells(S, a, M) /\ Tells(M, b, T)
<1> DEFINE n == Len(a)
           m == Len(b)
           ab == a \o b
<1>1. n \in Nat /\ m \in Nat
  BY LenProperties
<1>2. /\ Len(ab) = n + m
      /\ \A i \in 1..n : ab[i] = a[i]
      /\ \A i \in 1..m : ab[n + i] = b[i]
  <2>1. /\ Len(ab) = Len(a) + Len(b)
        /\ \A i \in 1..Len(a) + Len(b) : ab[i] = IF i <= Len(a) THEN a[i] ELSE b[i - Len(a)]
    BY ConcatProperties
  <2> HIDE DEF ab
  <2>2. \A i \in 1..n : i \in 1..n + m /\ i <= n
    BY <1>1
  <2>3. \A i \in 1..m : n + i \in 1..n + m /\ ~(n + i <= n) /\ (n + i) - n = i
    BY <1>1
  <2> QED BY <2>1, <2>2, <2>3
<1>3. PICK h \in [0..(n + m) -> SUBSET Paths] :
         h[0] = S /\ h[n + m] = T /\ \A i \in 1..(n + m) : Seen(h[i - 1], ab[i], h[i])
  BY <1>2 DEF Tells
<1> HIDE DEF n, m, ab
<1> DEFINE g1 == [i \in 0..n |-> h[i]]
           g2 == [i \in 0..m |-> h[n + i]]
<1>4. /\ 0 \in 0..n /\ n \in 0..n /\ 0 \in 0..m /\ m \in 0..m /\ n \in 0..(n + m)
      /\ \A i \in 0..n : i \in 0..(n + m)
      /\ \A i \in 1..n : i \in 0..n /\ i - 1 \in 0..n /\ i \in 1..(n + m)
      /\ \A i \in 0..m : n + i \in 0..(n + m)
      /\ \A i \in 1..m : /\ i \in 0..m /\ i - 1 \in 0..m /\ n + i \in 1..(n + m)
                         /\ n + (i - 1) = (n + i) - 1
      /\ n + 0 = n
  BY <1>1
<1>5. /\ g1 \in [0..n -> SUBSET Paths] /\ g2 \in [0..m -> SUBSET Paths]
      /\ \A i \in 0..n : g1[i] = h[i]
      /\ \A i \in 0..m : g2[i] = h[n + i]
  BY <1>4
<1> HIDE DEF g1, g2
<1>6. Tells(S, a, h[n])
  <2>1. ASSUME NEW i \in 1..n PROVE Seen(g1[i - 1], a[i], g1[i])
    BY <1>2, <1>3, <1>4, <1>5
  <2>2. g1[0] = S /\ g1[n] = h[n]
    BY <1>3, <1>4, <1>5
  <2> QED BY <2>1, <2>2, <1>5 DEF Tells, n
<1>7. Tells(h[n], b, T)
  <2>1. ASSUME NEW i \in 1..m PROVE Seen(g2[i - 1], b[i], g2[i])
    <3>1. Seen(h[(n + i) - 1], ab[n + i], h[n + i])
      BY <1>3, <1>4
    <3>2. ab[n + i] = b[i] /\ g2[i] = h[n + i] /\ g2[i - 1] = h[n + (i - 1)]
      BY <1>2, <1>4, <1>5
    <3>3. n + (i - 1) = (n + i) - 1
      BY <1>4
    <3> QED BY <3>1, <3>2, <3>3
  <2>2. g2[0] = h[n] /\ g2[m] = T
    BY <1>3, <1>4, <1>5
  <2> QED BY <2>1, <2>2, <1>5 DEF Tells, m
<1>8. h[n] \in SUBSET Paths
  BY <1>3, <1>4
<1> QED BY <1>6, <1>7, <1>8

LEMMA MakesNothing ==
    ASSUME NEW S \in SUBSET Paths
    PROVE  Makes(S, <<>>, S) /\ \A T : Makes(S, <<>>, T) => S = T
<1>1. Len(<<>>) = 0 /\ 1..0 = {} /\ 0 \in 0..0
  OBVIOUS
<1>2. Makes(S, <<>>, S)
  <2> DEFINE h == [i \in 0..0 |-> S]
  <2>1. h \in [0..0 -> SUBSET Paths] /\ h[0] = S
    OBVIOUS
  <2> HIDE DEF h
  <2> QED BY <1>1, <2>1 DEF Makes
<1>3. \A T : Makes(S, <<>>, T) => S = T
  BY <1>1 DEF Makes
<1> QED BY <1>2, <1>3

LEMMA MakesMore ==
    ASSUME NEW S \in SUBSET Paths, NEW T \in SUBSET Paths, NEW U \in SUBSET Paths,
           NEW fs \in Seq(PlainBatches), NEW E \in PlainBatches, Makes(S, fs, T),
           U = Apply(T, Reconciled(E))
    PROVE  Makes(S, Append(fs, E), U)
<1> DEFINE n == Len(fs)
           more == Append(fs, E)
<1>1. n \in Nat
  BY LenProperties
<1>2. Len(more) = n + 1 /\ more[n + 1] = E /\ \A i \in 1..n : more[i] = fs[i]
  BY AppendProperties
<1>3. PICK h \in [0..n -> SUBSET Paths] :
         h[0] = S /\ h[n] = T /\ \A i \in 1..n : h[i] = Apply(h[i - 1], Reconciled(fs[i]))
  BY DEF Makes
<1> HIDE DEF n, more
<1> DEFINE g == [i \in 0..(n + 1) |-> IF i = n + 1 THEN U ELSE h[i]]
<1>4. /\ g \in [0..(n + 1) -> SUBSET Paths] /\ g[n + 1] = U
      /\ \A i \in 0..n : g[i] = h[i]
  <2>1. \A i \in 0..(n + 1) : i = n + 1 \/ i \in 0..n
    BY <1>1
  <2>2. \A i \in 0..n : i # n + 1 /\ i \in 0..(n + 1)
    BY <1>1
  <2>3. n + 1 \in 0..(n + 1)
    BY <1>1
  <2> QED BY <2>1, <2>2, <2>3
<1> HIDE DEF g
<1>5. 0 \in 0..n /\ n \in 0..n /\ (n + 1) - 1 = n
  BY <1>1
<1>6. ASSUME NEW i \in 1..(n + 1) PROVE g[i] = Apply(g[i - 1], Reconciled(more[i]))
  <2>1. CASE i = n + 1
    BY <2>1, <1>2, <1>3, <1>4, <1>5
  <2>2. CASE i # n + 1
    <3>1. i \in 1..n /\ i \in 0..n /\ i - 1 \in 0..n
      BY <2>2, <1>1
    <3> QED BY <3>1, <1>2, <1>3, <1>4
  <2> QED BY <2>1, <2>2
<1> QED BY <1>2, <1>3, <1>4, <1>5, <1>6 DEF Makes, more

\* The oldest batch is published.
LEMMA MakesLess ==
    ASSUME NEW S \in SUBSET Paths, NEW T \in SUBSET Paths, NEW fs \in Seq(PlainBatches),
           fs # <<>>, Makes(S, fs, T)
    PROVE  Makes(Apply(S, Reconciled(fs[1])), RemoveAt(fs, 1), T)
<1> DEFINE n == Len(fs)
           less == RemoveAt(fs, 1)
<1>1. n \in Nat /\ n # 0
  BY LenProperties, EmptySeq
<1>2. PICK m \in Nat : n = m + 1
  <2>1. n - 1 \in Nat /\ n = (n - 1) + 1
    BY <1>1
  <2> QED BY <2>1
<1>3. Len(less) = m /\ \A i \in 1..m : less[i] = fs[i + 1]
  <2>1. less = Tail(fs)
    BY RemovedFirst
  <2>2. /\ Len(Tail(fs)) = Len(fs) - 1
        /\ \A i \in 1..Len(Tail(fs)) : Tail(fs)[i] = fs[i + 1]
    BY HeadTailProperties
  <2>3. n - 1 = m
    BY <1>2
  <2> QED BY <2>1, <2>2, <2>3
<1>4. PICK h \in [0..n -> SUBSET Paths] :
         h[0] = S /\ h[n] = T /\ \A i \in 1..n : h[i] = Apply(h[i - 1], Reconciled(fs[i]))
  BY DEF Makes
<1> HIDE DEF n, less
<1> DEFINE g == [i \in 0..m |-> h[i + 1]]
<1>5. /\ 0 \in 0..m /\ m \in 0..m /\ 1 \in 1..n /\ 1 - 1 = 0 /\ 0 + 1 = 1
      /\ \A i \in 0..m : i + 1 \in 0..n
      /\ \A i \in 1..m : /\ i \in 0..m /\ i - 1 \in 0..m /\ i + 1 \in 1..n
                         /\ (i - 1) + 1 = i /\ (i + 1) - 1 = i
  BY <1>2
<1>6. g \in [0..m -> SUBSET Paths] /\ \A i \in 0..m : g[i] = h[i + 1]
  BY <1>5
<1> HIDE DEF g
<1>7. g[0] = Apply(S, Reconciled(fs[1])) /\ g[m] = T
  <2>1. h[1] = Apply(h[0], Reconciled(fs[1]))
    BY <1>4, <1>5
  <2>2. g[0] = h[1] /\ g[m] = h[m + 1]
    BY <1>5, <1>6
  <2> QED BY <2>1, <2>2, <1>2, <1>4
<1>8. ASSUME NEW i \in 1..m PROVE g[i] = Apply(g[i - 1], Reconciled(less[i]))
  <2>1. h[i + 1] = Apply(h[(i + 1) - 1], Reconciled(fs[i + 1]))
    BY <1>4, <1>5
  <2>2. g[i] = h[i + 1] /\ g[i - 1] = h[(i - 1) + 1] /\ less[i] = fs[i + 1]
    BY <1>3, <1>5, <1>6
  <2>3. (i - 1) + 1 = i /\ (i + 1) - 1 = i
    BY <1>5
  <2> QED BY <2>1, <2>2, <2>3
<1> QED BY <1>3, <1>6, <1>7, <1>8 DEF Makes, less

-----------------------------------------------------------------------------
(* What a set of files is behind by, when something happens                 *)

LEMMA BehindNothing ==
    ASSUME NEW S \in SUBSET Paths
    PROVE  Behind(S, <<>>, <<>>, S) /\ \A T : Behind(S, <<>>, <<>>, T) => S = T
BY TellsNothing, MakesNothing DEF Behind

\* A file changes, and it is reported.
LEMMA BehindMore ==
    ASSUME NEW S, NEW fs, NEW T \in SUBSET Paths, NEW U \in SUBSET Paths,
           NEW a \in Seq(Reports), NEW b \in Seq(Reports), NEW r \in Reports, Seen(T, r, U),
           Behind(S, fs, a \o b, T)
    PROVE  Behind(S, fs, a \o Append(b, r), U)
<1>1. a \o b \in Seq(Reports) /\ a \o Append(b, r) = Append(a \o b, r)
  <2>1. Append(b, r) = b \o <<r>> /\ Append(a \o b, r) = (a \o b) \o <<r>>
    BY ConcatProperties, AppendIsConcat
  <2>2. <<r>> \in Seq(Reports)
    OBVIOUS
  <2> QED BY <2>1, <2>2, ConcatProperties, ConcatAssociative
<1>2. PICK M \in SUBSET Paths : Makes(S, fs, M) /\ Tells(M, a \o b, T)
  BY DEF Behind
<1>3. Tells(M, Append(a \o b, r), U)
  BY <1>1, <1>2, TellsMore
<1> QED BY <1>1, <1>2, <1>3 DEF Behind

\* The reports a become a batch, which is published at once if there is no other.
LEMMA BehindFlushed ==
    ASSUME NEW S \in SUBSET Paths, NEW T \in SUBSET Paths, NEW fs \in Seq(PlainBatches),
           NEW a \in Seq(Reports), NEW b \in Seq(Reports), Behind(S, fs, a \o b, T)
    PROVE  /\ Coalesced(a) = {} => Behind(S, fs, <<>> \o b, T)
           /\ Behind(S, Append(fs, Coalesced(a)), <<>> \o b, T)
           /\ fs = <<>> => Behind(Apply(S, Reconciled(Coalesced(a))), fs, <<>> \o b, T)
<1> DEFINE E == Coalesced(a)
           A == Apply(S, Reconciled(E))
<1>1. PICK L \in SUBSET Paths : Makes(S, fs, L) /\ Tells(L, a \o b, T)
  BY DEF Behind
<1>2. PICK M \in SUBSET Paths : Tells(L, a, M) /\ Tells(M, b, T)
  BY <1>1, TellsSplit
<1>3. E \in PlainBatches /\ Apply(L, Reconciled(E)) = M /\ (E = {} => L = M)
  BY <1>2, BatchMakes DEF PlainBatches
<1> HIDE DEF E
<1>4. <<>> \o b = b
  BY ConcatEmptySeq
<1>5. Makes(S, Append(fs, E), M)
  BY <1>1, <1>3, MakesMore
<1>6. ASSUME fs = <<>> PROVE Behind(A, fs, b, T)
  <2>1. L = S
    BY <1>1, <1>6, MakesNothing
  <2>2. A = M
    BY <2>1, <1>3
  <2>3. Makes(M, fs, M)
    BY <1>6, MakesNothing
  <2> QED BY <2>2, <2>3, <1>2 DEF Behind
<1>7. E = {} => Behind(S, fs, b, T)
  BY <1>1, <1>2, <1>3 DEF Behind
<1>8. Behind(S, Append(fs, E), b, T)
  BY <1>2, <1>5 DEF Behind
<1> QED BY <1>4, <1>6, <1>7, <1>8 DEF E

\* The oldest batch is published.
LEMMA BehindLanded ==
    ASSUME NEW S \in SUBSET Paths, NEW T, NEW fs \in Seq(PlainBatches), fs # <<>>, NEW rs,
           Behind(S, fs, rs, T)
    PROVE  Behind(Apply(S, Reconciled(fs[1])), RemoveAt(fs, 1), rs, T)
BY MakesLess DEF Behind

-----------------------------------------------------------------------------
(* The types of FsEvents, and what is in a batch                            *)

LEMMA KnownTyped ==
    ASSUME NEW rs \in Seq(Reports)
    PROVE  Known(rs) \in [Paths -> Said]
<1>1. Len(rs) \in Nat /\ DOMAIN rs = 1..Len(rs)
  BY LenProperties
<1>2. \A i \in 1..Len(rs) : rs[i] \in Reports
  BY <1>1, ElementOfSeq
<1> DEFINE n == Len(rs)
           B == {i \in 0..n : KnownAfter(rs, i) \notin [Paths -> Said]}
<1>3. /\ KnownAfter(rs, 0) = Nothing
      /\ \A i \in 1..n : KnownAfter(rs, i) = Noted(KnownAfter(rs, i - 1), rs[i])
  BY <1>1, KnownStep
<1>4. Nothing \in [Paths -> Said]
  BY DEF Nothing, Said
<1>5. n \in Nat /\ Known(rs) = KnownAfter(rs, n)
  BY <1>1, KnownIs
<1>6. \A i \in 1..n : rs[i] \in Reports
  BY <1>2
<1> HIDE DEF n
<1>7. B = {}
  <2>1. SUFFICES ASSUME B # {} PROVE FALSE
    OBVIOUS
  <2>2. B \subseteq Nat
    BY <1>5
  <2>3. PICK m \in B : \A k \in B : m <= k
    BY <2>1, <2>2, NatMin
  <2>4. m # 0
    BY <1>3, <1>4
  <2>5. m \in 1..n /\ m - 1 \in 0..n /\ ~(m <= m - 1)
    BY <2>4, <1>5
  <2>6. KnownAfter(rs, m - 1) \in [Paths -> Said]
    BY <2>3, <2>5
  <2>7. rs[m] \in Reports
    BY <2>5, <1>6
  <2>8. rs[m].path \in Paths /\ rs[m].kind \in Kinds
    BY <2>7 DEF Reports
  <2>9. Noted(KnownAfter(rs, m - 1), rs[m]) \in [Paths -> Said]
    BY <2>6, <2>8, CoalesceTyped DEF Noted
  <2> QED BY <2>5, <2>9, <1>3
<1>8. n \in 0..n
  BY <1>5
<1> QED BY <1>5, <1>7, <1>8

LEMMA BatchIsPlain ==
    ASSUME NEW rs \in Seq(Reports)
    PROVE  Coalesced(rs) \in PlainBatches
BY KnownTyped, CoalescedIs DEF PlainBatches

BuildRecords == [runs : BOOLEAN, left : SUBSET Paths, found : SUBSET Paths,
                 current : BOOLEAN]
CacheRecords == [has : BOOLEAN, items : SUBSET Paths, old : BOOLEAN]

TypesOf ==
    /\ files \in SUBSET Paths /\ view \in SUBSET Paths /\ timer \in BOOLEAN
    /\ reports \in Seq(Reports) /\ pendingEvents \in Seq(Reports)
    /\ cache \in CacheRecords /\ builds \in [Builds -> BuildRecords]
    /\ registered \in {NoBuild} \cup RunningBuilds
    /\ flights \in Seq(PlainBatches)

LEMMA TypesAre == TypesInv <=> TypesOf /\ mishaps \subseteq Mishaps
<1>1. flights \in Seq(PlainBatches) => flights \in Seq(SUBSET [path : Paths, kind : Kinds,
                                                             from : Paths])
  <2>1. PlainBatches \subseteq Batches
    BY DEF PlainBatches
  <2>2. flights \in Seq(PlainBatches) => flights \in Seq(Batches)
    BY <2>1
  <2> QED BY <2>2 DEF Batches
<1> QED BY <1>1 DEF TypesInv, TypesOf, EventTypes, Reports, CacheRecords,
                    BuildRecords

LEMMA OutdatedTyped ==
    ASSUME builds \in [Builds -> BuildRecords]
    PROVE  /\ Outdated \in [Builds -> BuildRecords]
           /\ \A b \in Builds : /\ Outdated[b].runs = builds[b].runs
                                /\ ~Outdated[b].current
<1>1. ASSUME NEW b \in Builds
      PROVE  /\ [builds[b] EXCEPT !.current = FALSE] \in BuildRecords
             /\ [builds[b] EXCEPT !.current = FALSE].runs = builds[b].runs
             /\ ~[builds[b] EXCEPT !.current = FALSE].current
  <2>1. builds[b] \in BuildRecords
    OBVIOUS
  <2> QED BY <2>1 DEF BuildRecords
<1> QED BY <1>1 DEF Outdated

\* A batch becomes events of the paths: view and index stay of the paths.
LEMMA PublishTyped ==
    ASSUME TypesOf, NEW E \in PlainBatches, Publish(E)
    PROVE  /\ view' \in SUBSET Paths
           /\ cache' \in CacheRecords /\ builds' \in [Builds -> BuildRecords]
           /\ registered' \in {NoBuild} \cup RunningBuilds'
<1>1. E \in Batches /\ Plain(E)
  BY DEF PlainBatches
<1>2. Patch(Reconciled(E)) /\ view' = Apply(view, Reconciled(E))
  BY DEF Publish
<1>3. view' \in SUBSET Paths
  BY <1>1, <1>2, ApplyTyped DEF TypesOf
<1>4. cache.items \in SUBSET Paths
  BY DEF TypesOf, CacheRecords
<1>5. Apply(cache.items, Reconciled(E)) \in SUBSET Paths
  BY <1>1, <1>4, ApplyTyped
<1>6. CASE UNCHANGED indexVars
  BY <1>3, <1>6 DEF indexVars, TypesOf, RunningBuilds
<1>7. CASE /\ builds' = Outdated /\ registered' = NoBuild
           /\ cache' = IF cache.has
                       THEN [cache EXCEPT !.items = Apply(@, Reconciled(E)), !.old = FALSE]
                       ELSE cache
  <2>1. builds' \in [Builds -> BuildRecords] /\ registered' = NoBuild
    BY <1>7, OutdatedTyped DEF TypesOf
  <2>2. cache' \in CacheRecords
    <3>1. [cache EXCEPT !.items = Apply(@, Reconciled(E)), !.old = FALSE] \in CacheRecords
      BY <1>5 DEF TypesOf, CacheRecords
    <3> QED BY <1>7, <3>1 DEF TypesOf
  <2> QED BY <1>3, <2>1, <2>2
<1> QED BY <1>2, <1>6, <1>7 DEF Patch

LEMMA TypesInit == EventsInit => TypesInv
<1> SUFFICES ASSUME EventsInit PROVE TypesOf
  BY TypesAre DEF EventsInit
<1>1. \A R : <<>> \in Seq(R)
  BY EmptySeq
<1>2. cache \in CacheRecords
  BY DEF EventsInit, Rested, NoCache, CacheRecords
<1>3. builds \in [Builds -> BuildRecords]
  BY DEF EventsInit, Rested, Idle, BuildRecords
<1>4. files \in SUBSET Paths /\ view \in SUBSET Paths /\ timer \in BOOLEAN
  BY DEF EventsInit, Rested
<1>5. reports = <<>> /\ pendingEvents = <<>> /\ flights = <<>> /\ registered = NoBuild
  BY DEF EventsInit, Rested
<1> QED BY <1>1, <1>2, <1>3, <1>4, <1>5 DEF TypesOf

\* What has happened has happened.
LEMMA MishapsStay ==
    ASSUME mishaps \subseteq Mishaps, [EventsNext]_eventVars
    PROVE  mishaps \subseteq mishaps' /\ mishaps' \subseteq Mishaps
<1>1. UNCHANGED mishaps \/ \E m \in Mishaps, happens \in BOOLEAN : Mark(m, happens)
  <2>1. ASSUME Flush PROVE UNCHANGED mishaps \/ Mark("overtaken", flights # <<>>)
    BY <2>1 DEF Flush
  <2>2. ASSUME NEW i \in 1..MaxFlights, Land(i) PROVE Mark("overtaken", i # 1)
    BY <2>2 DEF Land
  <2>3. ASSUME NEW p \in Paths, NEW kind \in Kinds, Change(p, kind)
        PROVE  Mark("disturbed", RunningBuilds # {})
    BY <2>3 DEF Change
  <2>4. Search => Mark("disturbed", ~Settled)
    BY DEF Search
  <2>5. WatcherError => Mark("lost", TRUE)
    BY DEF WatcherError
  <2>6. ASSUME \/ Deliver \/ Age \/ UNCHANGED eventVars
               \/ \E b \in Builds : Finish(b) \/ \E p \in Paths : Scan(b, p)
        PROVE  UNCHANGED mishaps
    BY <2>6 DEF Deliver, Age, Finish, Scan, eventVars
  <2>7. "overtaken" \in Mishaps /\ "disturbed" \in Mishaps /\ "lost" \in Mishaps
    BY DEF Mishaps
  <2> QED BY <2>1, <2>2, <2>3, <2>4, <2>5, <2>6, <2>7 DEF EventsNext
<1> QED BY <1>1 DEF Mark

LEMMA TypesStep ==
    ASSUME TypesInv, [EventsNext]_eventVars
    PROVE  TypesInv'
<1> USE DEF TypesOf
<1>0. TypesOf
  BY TypesAre
<1>00. TypesInv' <=> TypesOf' /\ (mishaps \subseteq Mishaps)'
  BY TypesAre, PTL
<1>000. mishaps' \subseteq Mishaps
  BY TypesAre, MishapsStay
<1>1. ASSUME NEW p \in Paths, NEW kind \in Kinds, Change(p, kind) PROVE TypesOf'
  <2>1. [path |-> p, kind |-> kind] \in Reports
    BY DEF Reports
  <2>2. reports' \in Seq(Reports)
    BY <1>0, <1>1, <2>1, AppendProperties DEF Change
  <2>3. files' \in SUBSET Paths
    BY <1>0, <1>1 DEF Change
  <2>4. UNCHANGED <<pendingEvents, timer, flights, view, cache, registered, builds>>
    BY <1>1 DEF Change, indexVars
  <2>5. RunningBuilds' = RunningBuilds
    BY <2>4 DEF RunningBuilds
  <2> QED BY <1>0, <2>2, <2>3, <2>4, <2>5
<1>2. ASSUME Deliver PROVE TypesOf'
  <2>1. reports' \in Seq(Reports) /\ pendingEvents' \in Seq(Reports)
    BY <1>0, <1>2, EmptySeq, ConcatProperties DEF Deliver
  <2>2. timer' = TRUE /\ UNCHANGED <<files, flights, view, cache, registered, builds>>
    BY <1>2 DEF Deliver, indexVars
  <2>3. RunningBuilds' = RunningBuilds
    BY <2>2 DEF RunningBuilds
  <2> QED BY <1>0, <2>1, <2>2, <2>3
<1>3. ASSUME Flush PROVE TypesOf'
  <2> DEFINE E == Coalesced(pendingEvents)
  <2>1. E \in PlainBatches
    BY <1>0, BatchIsPlain
  <2>2. timer' = FALSE /\ pendingEvents' = <<>> /\ UNCHANGED <<files, reports>>
    BY <1>3 DEF Flush
  <2>3. pendingEvents' \in Seq(Reports)
    BY <2>2, EmptySeq
  <2>4. \/ UNCHANGED <<flights, view, indexVars>>
        \/ Publish(E) /\ UNCHANGED flights
        \/ flights' = Append(flights, E) /\ UNCHANGED <<view, indexVars>>
    BY <1>3 DEF Flush
  <2> HIDE DEF E
  <2>5. CASE UNCHANGED <<flights, view, indexVars>>
    BY <1>0, <2>2, <2>3, <2>5 DEF indexVars, RunningBuilds
  <2>6. CASE Publish(E) /\ UNCHANGED flights
    <3>1. /\ view' \in SUBSET Paths
          /\ cache' \in CacheRecords /\ builds' \in [Builds -> BuildRecords]
          /\ registered' \in {NoBuild} \cup RunningBuilds'
      BY <1>0, <2>1, <2>6, PublishTyped
    <3> QED BY <1>0, <2>2, <2>3, <2>6, <3>1
  <2>7. CASE flights' = Append(flights, E) /\ UNCHANGED <<view, indexVars>>
    <3>1. flights' \in Seq(PlainBatches)
      BY <1>0, <2>1, <2>7, AppendProperties
    <3> QED BY <1>0, <2>2, <2>3, <2>7, <3>1 DEF indexVars, RunningBuilds
  <2> QED BY <2>4, <2>5, <2>6, <2>7
<1>4. ASSUME NEW i \in 1..MaxFlights, Land(i) PROVE TypesOf'
  <2>1. /\ i \in DOMAIN flights /\ Publish(flights[i]) /\ flights' = RemoveAt(flights, i)
        /\ UNCHANGED <<files, reports, pendingEvents, timer>>
    BY <1>4 DEF Land
  <2>2. i \in 1..Len(flights)
    BY <1>0, <2>1, LenProperties
  <2>3. flights[i] \in PlainBatches
    BY <1>0, <2>2, ElementOfSeq
  <2>4. flights' \in Seq(PlainBatches)
    BY <1>0, <2>1, <2>2, RemovedIsSeq
  <2>5. /\ view' \in SUBSET Paths
        /\ cache' \in CacheRecords /\ builds' \in [Builds -> BuildRecords]
        /\ registered' \in {NoBuild} \cup RunningBuilds'
    BY <1>0, <2>1, <2>3, PublishTyped
  <2> QED BY <1>0, <2>1, <2>4, <2>5
<1>5. ASSUME WatcherError PROVE TypesOf'
  <2>1. /\ reports' = <<>> /\ view' = files /\ cache' = NoCache /\ registered' = NoBuild
        /\ builds' = Outdated /\ UNCHANGED <<files, pendingEvents, timer, flights>>
    BY <1>5 DEF WatcherError, Invalidate
  <2>2. builds' \in [Builds -> BuildRecords]
    BY <1>0, <2>1, OutdatedTyped
  <2>3. cache' \in CacheRecords
    BY <2>1 DEF NoCache, CacheRecords
  <2>4. reports' \in Seq(Reports)
    BY <2>1, EmptySeq
  <2> QED BY <1>0, <2>1, <2>2, <2>3, <2>4
<1>6. ASSUME Search PROVE TypesOf'
  <2>1. PICK b \in Builds :
           /\ builds' = [builds EXCEPT ![b] = [runs |-> TRUE, left |-> Paths, found |-> {},
                                               current |-> TRUE]]
           /\ registered' = b
    BY <1>6 DEF Search
  <2>2. [runs |-> TRUE, left |-> Paths, found |-> {}, current |-> TRUE] \in BuildRecords
    BY DEF BuildRecords
  <2>3. builds' \in [Builds -> BuildRecords] /\ builds'[b].runs
    BY <1>0, <2>1, <2>2
  <2>4. registered' \in RunningBuilds'
    BY <2>1, <2>3 DEF RunningBuilds
  <2>5. UNCHANGED <<files, reports, pendingEvents, timer, flights, view, cache>>
    BY <1>6 DEF Search
  <2> QED BY <1>0, <2>3, <2>4, <2>5
<1>7. ASSUME Age PROVE TypesOf'
  <2>1. /\ cache' = [cache EXCEPT !.old = TRUE]
        /\ UNCHANGED <<files, reports, pendingEvents, timer, flights, view, registered, builds>>
    BY <1>7 DEF Age
  <2>2. cache' \in CacheRecords
    BY <1>0, <2>1 DEF CacheRecords
  <2> QED BY <1>0, <2>1, <2>2 DEF RunningBuilds
<1>8. ASSUME NEW b \in Builds, Finish(b) PROVE TypesOf'
  <2>1. /\ cache' = IF Current(b)
                    THEN [has |-> TRUE, items |-> builds[b].found, old |-> FALSE] ELSE cache
        /\ registered' = NoBuild /\ builds' = [builds EXCEPT ![b] = Idle]
        /\ UNCHANGED <<files, reports, pendingEvents, timer, flights, view>>
    BY <1>8 DEF Finish, Unregistered
  <2>2. Idle \in BuildRecords
    BY DEF Idle, BuildRecords
  <2>3. builds' \in [Builds -> BuildRecords]
    BY <1>0, <2>1, <2>2
  <2>4. builds[b].found \in SUBSET Paths
    BY <1>0 DEF BuildRecords
  <2>5. cache' \in CacheRecords
    BY <1>0, <2>1, <2>4 DEF CacheRecords
  <2> QED BY <1>0, <2>1, <2>3, <2>5
<1>9. ASSUME NEW b \in Builds, NEW p \in Paths, Scan(b, p) PROVE TypesOf'
  <2>1. /\ builds' = [builds EXCEPT ![b].left = @ \ {p}, ![b].found = @ \cup (files \cap {p})]
        /\ UNCHANGED <<files, reports, pendingEvents, timer, flights, view, cache, registered>>
    BY <1>9 DEF Scan
  <2>2. builds[b] \in BuildRecords
    BY <1>0
  <2>3. builds' \in [Builds -> BuildRecords] /\ \A a \in Builds : builds'[a].runs = builds[a].runs
    BY <1>0, <2>1, <2>2 DEF BuildRecords
  <2>4. RunningBuilds' = RunningBuilds
    BY <2>3 DEF RunningBuilds
  <2> QED BY <1>0, <2>1, <2>3, <2>4
<1>10. ASSUME UNCHANGED eventVars PROVE TypesOf'
  BY <1>0, <1>10 DEF eventVars, indexVars, RunningBuilds
<1> QED BY <1>00, <1>000, <1>1, <1>2, <1>3, <1>4, <1>5, <1>6, <1>7, <1>8, <1>9, <1>10
        DEF EventsNext

-----------------------------------------------------------------------------
(* What a listener knows                                                    *)

LEMMA ReportSeen ==
    ASSUME NEW p \in Paths, NEW kind \in Kinds, Change(p, kind), files \in SUBSET Paths
    PROVE  /\ [path |-> p, kind |-> kind] \in Reports /\ files' \in SUBSET Paths
           /\ Seen(files, [path |-> p, kind |-> kind], files')
           /\ reports' = Append(reports, [path |-> p, kind |-> kind])
           /\ UNCHANGED <<pendingEvents, timer, flights, view, cache, registered, builds>>
BY DEF Change, Reports, Seen, indexVars

\* What a set of files is behind by in the next state
BehindNext(S) == Behind(S, flights', pendingEvents' \o reports', files')

\* Whatever happens to files, reports and batches, in order, a set that follows goes on
\* to follow: as it is, or after what is published.
LEMMA FollowsStep ==
    ASSUME TypesOf, NEW S \in SUBSET Paths, Follows(S), "overtaken" \notin mishaps',
           \/ \E p \in Paths, kind \in Kinds : Change(p, kind)
           \/ Deliver \/ Flush \/ \E i \in 1..MaxFlights : Land(i)
    PROVE  \/ BehindNext(S) /\ UNCHANGED <<view, indexVars>>
           \/ \E E \in PlainBatches : Publish(E) /\ BehindNext(Apply(S, Reconciled(E)))
<1> USE DEF TypesOf, Follows, BehindNext
<1>1. ASSUME NEW p \in Paths, NEW kind \in Kinds, Change(p, kind)
      PROVE  BehindNext(S) /\ UNCHANGED <<view, indexVars>>
  <2> DEFINE r == [path |-> p, kind |-> kind]
  <2>1. /\ r \in Reports /\ files' \in SUBSET Paths /\ Seen(files, r, files')
        /\ reports' = Append(reports, r)
        /\ UNCHANGED <<pendingEvents, flights, view, cache, registered, builds>>
    BY <1>1, ReportSeen
  <2> HIDE DEF r
  <2>2. Behind(S, flights, pendingEvents \o Append(reports, r), files')
    BY <2>1, BehindMore
  <2> QED BY <2>1, <2>2 DEF indexVars
<1>2. ASSUME Deliver PROVE BehindNext(S) /\ UNCHANGED <<view, indexVars>>
  <2>1. /\ reports' = <<>> /\ pendingEvents' = pendingEvents \o reports
        /\ UNCHANGED <<files, flights, view, indexVars>>
    BY <1>2 DEF Deliver
  <2>2. pendingEvents' \o reports' = pendingEvents \o reports
    BY <2>1, ConcatProperties, ConcatEmptySeq
  <2> QED BY <2>1, <2>2
<1>3. ASSUME Flush
      PROVE  \/ BehindNext(S) /\ UNCHANGED <<view, indexVars>>
             \/ \E E \in PlainBatches : Publish(E) /\ BehindNext(Apply(S, Reconciled(E)))
  <2> DEFINE E == Coalesced(pendingEvents)
  <2>1. pendingEvents' = <<>> /\ UNCHANGED <<files, reports>>
    BY <1>3 DEF Flush
  <2>2. \/ E = {} /\ UNCHANGED <<flights, view, indexVars>>
        \/ E # {} /\ Publish(E) /\ UNCHANGED flights
        \/ flights' = Append(flights, E) /\ UNCHANGED <<view, indexVars>>
    BY <1>3 DEF Flush
  <2>3. /\ E = {} => Behind(S, flights, <<>> \o reports, files)
        /\ Behind(S, Append(flights, E), <<>> \o reports, files)
        /\ flights = <<>> => Behind(Apply(S, Reconciled(E)), flights, <<>> \o reports, files)
    BY BehindFlushed
  <2>4. E # {} /\ UNCHANGED flights => flights = <<>>
    BY <1>3 DEF Flush, Mark
  <2>5. E \in PlainBatches
    BY BatchIsPlain
  <2> HIDE DEF E
  <2>6. CASE E = {} /\ UNCHANGED <<flights, view, indexVars>>
    BY <2>1, <2>3, <2>6
  <2>7. CASE E # {} /\ Publish(E) /\ UNCHANGED flights
    BY <2>1, <2>3, <2>4, <2>5, <2>7
  <2>8. CASE flights' = Append(flights, E) /\ UNCHANGED <<view, indexVars>>
    BY <2>1, <2>3, <2>8
  <2> QED BY <2>2, <2>6, <2>7, <2>8
<1>4. ASSUME NEW i \in 1..MaxFlights, Land(i)
      PROVE  \E E \in PlainBatches : Publish(E) /\ BehindNext(Apply(S, Reconciled(E)))
  <2>1. i = 1
    BY <1>4 DEF Land, Mark
  <2>2. /\ 1 \in DOMAIN flights /\ Publish(flights[1]) /\ flights' = RemoveAt(flights, 1)
        /\ UNCHANGED <<files, reports, pendingEvents>>
    BY <1>4, <2>1 DEF Land
  <2>3. flights # <<>> /\ flights[1] \in PlainBatches
    BY <2>2, LenProperties, ElementOfSeq
  <2>4. Behind(Apply(S, Reconciled(flights[1])), RemoveAt(flights, 1),
               pendingEvents \o reports, files)
    BY <2>3, BehindLanded
  <2> QED BY <2>2, <2>3, <2>4
<1> QED BY <1>1, <1>2, <1>3, <1>4

LEMMA OthersLeave ==
    ASSUME \/ Search \/ Age \/ UNCHANGED eventVars
           \/ \E b \in Builds : Finish(b) \/ \E p \in Paths : Scan(b, p)
    PROVE  UNCHANGED <<files, reports, pendingEvents, flights, view>>
BY DEF Search, Age, Finish, Scan, eventVars

LEMMA ViewStep ==
    ASSUME ViewInv, [EventsNext]_eventVars, mishaps' \subseteq {"disturbed"}
    PROVE  Follows(view)'
<1>0. TypesOf /\ Follows(view) /\ view \in SUBSET Paths
  BY TypesAre, MishapsStay DEF ViewInv, TypesOf
<1>1. ASSUME \/ \E p \in Paths, kind \in Kinds : Change(p, kind)
             \/ Deliver \/ Flush \/ \E i \in 1..MaxFlights : Land(i)
      PROVE  BehindNext(view')
  <2>1. \/ BehindNext(view) /\ UNCHANGED <<view, indexVars>>
        \/ \E E \in PlainBatches : Publish(E) /\ BehindNext(Apply(view, Reconciled(E)))
    BY <1>0, <1>1, FollowsStep
  <2> QED BY <2>1 DEF Publish
<1>2. ASSUME UNCHANGED <<files, reports, pendingEvents, flights, view>>
      PROVE  BehindNext(view')
  BY <1>0, <1>2 DEF Follows, BehindNext
<1>3. ~WatcherError
  BY DEF WatcherError, Mark
<1>4. BehindNext(view')
  BY <1>1, <1>2, <1>3, OthersLeave DEF EventsNext
<1> QED BY <1>4 DEF BehindNext, Follows

LEMMA PlainIsOnce == TypesInv => OneEventPerPath
<1> SUFFICES ASSUME TypesInv, NEW i \in DOMAIN flights PROVE ToldOnce(flights[i])
  BY DEF OneEventPerPath
<1>1. flights \in Seq(PlainBatches)
  BY DEF TypesInv
<1>2. i \in 1..Len(flights)
  BY <1>1, LenProperties
<1>3. flights[i] \in PlainBatches
  BY <1>1, <1>2, ElementOfSeq
<1> QED BY <1>3, ReconciledOnce DEF PlainBatches

\* The variables have their types.
THEOREM EventTypesCorrect == EventsSpec => []EventTypes
<1>1. TypesInv /\ [EventsNext]_eventVars => TypesInv'
  BY TypesStep
<1>2. TypesInv => EventTypes
  BY DEF TypesInv
<1> QED BY TypesInit, <1>1, <1>2, PTL DEF EventsSpec

\* Each path of a batch is in one of the events that are told of it, whatever files
\* change and whichever deletions and creations are paired to renames.
THEOREM OncePerPath == EventsSpec => []OneEventPerPath
<1>1. TypesInv /\ [EventsNext]_eventVars => TypesInv'
  BY TypesStep
<1> QED BY TypesInit, <1>1, PlainIsOnce, PTL DEF EventsSpec

LEMMA FollowsInit == EventsInit => Follows(files)
BY BehindNothing, EmptySeq, ConcatEmptySeq DEF EventsInit, Rested, Follows

LEMMA FollowsSettled ==
    ASSUME NEW S \in SUBSET Paths, Follows(S), Settled
    PROVE  S = files
<1>1. <<>> \o <<>> = <<>>
  BY EmptySeq, ConcatEmptySeq
<1> QED BY <1>1, BehindNothing DEF Follows, Settled

\* A listener that was told everything knows the files that are there, and was told of
\* each path once, as long as no batch of flushPendingEvents() overtakes another and the
\* native watcher loses no reports: coalesceWatchEvents and reconcileRenameEvents leave
\* out nothing that matters, whatever the paths, the changes and the batches are.
THEOREM ViewCorrect == EventsSpec => []ViewIsExact
<1>1. EventsInit => ViewInv
  BY TypesInit, FollowsInit DEF ViewInv, EventsInit, Rested
<1>2. ViewInv /\ [EventsNext]_eventVars => ViewInv'
  <2> SUFFICES ASSUME ViewInv, [EventsNext]_eventVars PROVE ViewInv'
    OBVIOUS
  <2>1. TypesInv'
    BY TypesStep DEF ViewInv
  <2>2. mishaps' \subseteq {"disturbed"} => Follows(view)'
    BY ViewStep
  <2> QED BY <2>1, <2>2 DEF ViewInv
<1>3. ViewInv => ViewIsExact
  <2> SUFFICES ASSUME ViewInv
               PROVE  OneEventPerPath
                      /\ (Settled /\ mishaps \subseteq {"disturbed"} => view = files)
    BY DEF ViewIsExact
  <2>1. view \in SUBSET Paths
    BY TypesAre DEF ViewInv, TypesOf
  <2> QED BY <2>1, PlainIsOnce, FollowsSettled DEF ViewInv
<1> QED BY <1>1, <1>2, <1>3, PTL DEF EventsSpec

-----------------------------------------------------------------------------
(* What the index has                                                       *)

\* The index is patched by what is published, and no build that runs may store its own.
LEMMA PublishPatches ==
    ASSUME TypesOf, NEW E \in PlainBatches, Publish(E)
    PROVE  /\ cache'.has = cache.has
           /\ cache.has => cache'.items = Apply(cache.items, Reconciled(E))
           /\ builds' = builds \/ builds' = Outdated
<1>1. Patch(Reconciled(E))
  BY DEF Publish
<1>2. cache \in CacheRecords
  BY DEF TypesOf
<1>3. CASE ~cache.has /\ registered = NoBuild /\ UNCHANGED indexVars
  BY <1>3 DEF indexVars
<1>4. CASE /\ builds' = Outdated
           /\ cache' = IF cache.has
                       THEN [cache EXCEPT !.items = Apply(@, Reconciled(E)), !.old = FALSE]
                       ELSE cache
  BY <1>2, <1>4 DEF CacheRecords
<1> QED BY <1>1, <1>3, <1>4 DEF Patch

LEMMA QuietOrPublished ==
    ASSUME TypesOf,
           \/ \E p \in Paths, kind \in Kinds : Change(p, kind)
           \/ Deliver \/ Flush \/ \E i \in 1..MaxFlights : Land(i)
    PROVE  UNCHANGED indexVars \/ \E E \in PlainBatches : Publish(E)
<1>1. ASSUME NEW i \in 1..MaxFlights, Land(i) PROVE \E E \in PlainBatches : Publish(E)
  BY <1>1, LenProperties, ElementOfSeq DEF Land, TypesOf
<1>2. Coalesced(pendingEvents) \in PlainBatches
  BY BatchIsPlain DEF TypesOf
<1>3. ASSUME Flush PROVE UNCHANGED indexVars \/ \E E \in PlainBatches : Publish(E)
  BY <1>2, <1>3 DEF Flush
<1>4. ASSUME Deliver \/ \E p \in Paths, kind \in Kinds : Change(p, kind)
      PROVE  UNCHANGED indexVars
  BY <1>4 DEF Deliver, Change
<1> QED BY <1>1, <1>3, <1>4

LEMMA NothingRuns ==
    ASSUME TypesOf, RunningBuilds = {}, builds' = builds \/ builds' = Outdated
    PROVE  RunningBuilds' = {}
BY OutdatedTyped DEF RunningBuilds, TypesOf

\* No event comes of no report.
LEMMA NoReportsNoEvents == Coalesced(<<>>) = {}
<1>1. Len(<<>>) = 0 /\ DOMAIN <<>> = 1..Len(<<>>)
  OBVIOUS
<1>2. Known(<<>>) = Nothing
  BY <1>1, KnownIs, KnownStep
<1> QED BY <1>2 DEF Coalesced, Nothing

LEMMA BuildsStayQuiet ==
    ASSUME TypesOf, BuildsAreQuiet, [EventsNext]_eventVars, "disturbed" \notin mishaps'
    PROVE  BuildsAreQuiet'
<1>0. TypesOf /\ BuildsAreQuiet
  OBVIOUS
<1>1. ASSUME RunningBuilds' = {} PROVE BuildsAreQuiet'
  BY <1>1 DEF BuildsAreQuiet
<1>2. ASSUME NEW p \in Paths, NEW kind \in Kinds, Change(p, kind) PROVE RunningBuilds' = {}
  BY <1>2 DEF Change, Mark, indexVars, RunningBuilds
<1>3. ASSUME Deliver PROVE RunningBuilds' = {}
  <2>1. RunningBuilds = {}
    BY <1>0, <1>3 DEF Deliver, BuildsAreQuiet, Settled
  <2> QED BY <2>1, <1>3 DEF Deliver, indexVars, RunningBuilds
<1>4. ASSUME NEW i \in 1..MaxFlights, Land(i) PROVE RunningBuilds' = {}
  <2>1. /\ i \in DOMAIN flights /\ Publish(flights[i])
    BY <1>4 DEF Land
  <2>2. flights # <<>>
    BY <2>1
  <2>3. RunningBuilds = {}
    BY <1>0, <2>2 DEF BuildsAreQuiet, Settled
  <2>4. flights[i] \in PlainBatches
    BY <1>0, <2>1, LenProperties, ElementOfSeq DEF TypesOf
  <2> QED BY <1>0, <2>1, <2>3, <2>4, PublishPatches, NothingRuns
<1>5. ASSUME Flush PROVE BuildsAreQuiet'
  <2> DEFINE E == Coalesced(pendingEvents)
  <2>1. pendingEvents' = <<>> /\ UNCHANGED <<files, reports>>
    BY <1>5 DEF Flush
  <2>2. \/ UNCHANGED <<flights, view, indexVars>>
        \/ E # {} /\ Publish(E) /\ UNCHANGED flights
        \/ E # {} /\ UNCHANGED <<view, indexVars>>
    BY <1>5 DEF Flush
  <2>3. E \in PlainBatches
    BY <1>0, BatchIsPlain DEF TypesOf
  <2>4. E # {} => pendingEvents # <<>>
    BY NoReportsNoEvents
  <2> HIDE DEF E
  <2>5. CASE UNCHANGED <<flights, view, indexVars>>
    <3>1. UNCHANGED <<files, builds>> /\ RunningBuilds' = RunningBuilds
      BY <2>1, <2>5 DEF indexVars, RunningBuilds
    <3>2. Settled => Settled'
      BY <2>1, <2>5 DEF Settled
    <3> QED BY <1>0, <3>1, <3>2 DEF BuildsAreQuiet
  <2>6. CASE E # {} /\ (Publish(E) \/ UNCHANGED <<view, indexVars>>)
    <3>1. RunningBuilds = {}
      BY <1>0, <2>4, <2>6 DEF BuildsAreQuiet, Settled
    <3>2. builds' = builds \/ builds' = Outdated
      BY <1>0, <2>3, <2>6, PublishPatches DEF indexVars
    <3> QED BY <1>0, <1>1, <3>1, <3>2, NothingRuns
  <2> QED BY <2>2, <2>5, <2>6
<1>6. ASSUME WatcherError PROVE BuildsAreQuiet'
  <2>1. /\ reports' = <<>> /\ builds' = Outdated
        /\ UNCHANGED <<files, pendingEvents, timer, flights>>
    BY <1>6 DEF WatcherError, Invalidate
  <2>2. \A b \in Builds : builds'[b].runs = builds[b].runs /\ ~builds'[b].current
    BY <1>0, <2>1, OutdatedTyped DEF TypesOf
  <2>3. RunningBuilds' = RunningBuilds
    BY <2>2 DEF RunningBuilds
  <2>4. Settled => Settled'
    BY <2>1 DEF Settled
  <2>5. \A b \in RunningBuilds' : ~builds'[b].current
    BY <2>2 DEF RunningBuilds
  <2> QED BY <1>0, <2>3, <2>4, <2>5 DEF BuildsAreQuiet
<1>7. ASSUME Search PROVE BuildsAreQuiet'
  <2>1. PICK b \in Builds \ RunningBuilds :
           builds' = [builds EXCEPT ![b] = [runs |-> TRUE, left |-> Paths, found |-> {},
                                            current |-> TRUE]]
    BY <1>7 DEF Search
  <2>2. Settled /\ UNCHANGED <<files, reports, pendingEvents, flights>>
    BY <1>7 DEF Search, Mark
  <2>3. Settled'
    BY <2>2 DEF Settled
  <2>4. files \subseteq Paths /\ builds \in [Builds -> BuildRecords]
    BY <1>0 DEF TypesOf
  <2>5. ASSUME NEW a \in RunningBuilds', builds'[a].current
        PROVE  builds'[a].found = files' \ builds'[a].left
    <3>1. CASE a = b
      <4>1. builds'[a].found = {} /\ builds'[a].left = Paths
        BY <2>1, <2>4, <3>1
      <4> QED BY <2>2, <2>4, <4>1
    <3>2. CASE a # b
      <4>1. a \in RunningBuilds /\ builds'[a] = builds[a]
        BY <2>1, <2>4, <2>5, <3>2 DEF RunningBuilds
      <4> QED BY <1>0, <2>2, <2>5, <4>1 DEF BuildsAreQuiet
    <3> QED BY <3>1, <3>2
  <2> QED BY <2>3, <2>5 DEF BuildsAreQuiet
<1>8. ASSUME UNCHANGED <<files, reports, pendingEvents, flights, builds>> PROVE BuildsAreQuiet'
  BY <1>0, <1>8 DEF BuildsAreQuiet, RunningBuilds, Settled
<1>9. ASSUME Age \/ UNCHANGED eventVars PROVE BuildsAreQuiet'
  BY <1>8, <1>9 DEF Age, eventVars, indexVars
<1>10. ASSUME NEW b \in Builds, Finish(b) PROVE BuildsAreQuiet'
  <2>1. /\ builds' = [builds EXCEPT ![b] = Idle]
        /\ UNCHANGED <<files, reports, pendingEvents, flights>>
    BY <1>10 DEF Finish
  <2>2. builds \in [Builds -> BuildRecords] /\ ~Idle.runs
    BY <1>0 DEF TypesOf, Idle
  <2>3. \A a \in RunningBuilds' : a \in RunningBuilds /\ builds'[a] = builds[a]
    BY <2>1, <2>2 DEF RunningBuilds
  <2>4. Settled => Settled'
    BY <2>1 DEF Settled
  <2> QED BY <1>0, <2>1, <2>3, <2>4 DEF BuildsAreQuiet
<1>11. ASSUME NEW b \in Builds, NEW p \in Paths, Scan(b, p) PROVE BuildsAreQuiet'
  <2>1. /\ p \in builds[b].left
        /\ builds' = [builds EXCEPT ![b].left = @ \ {p}, ![b].found = @ \cup (files \cap {p})]
        /\ UNCHANGED <<files, reports, pendingEvents, flights>>
    BY <1>11 DEF Scan
  <2>2. builds \in [Builds -> BuildRecords] /\ builds[b] \in BuildRecords
    BY <1>0 DEF TypesOf
  <2>3. /\ \A a \in Builds : a # b => builds'[a] = builds[a]
        /\ builds'[b].runs = builds[b].runs /\ builds'[b].current = builds[b].current
        /\ builds'[b].left = builds[b].left \ {p}
        /\ builds'[b].found = builds[b].found \cup (files \cap {p})
    BY <2>1, <2>2 DEF BuildRecords
  <2>4. RunningBuilds' = RunningBuilds
    BY <2>3 DEF RunningBuilds
  <2>5. Settled => Settled'
    BY <2>1 DEF Settled
  <2>6. ASSUME NEW a \in RunningBuilds', builds'[a].current
        PROVE  builds'[a].found = files' \ builds'[a].left
    <3>1. CASE a = b
      <4>1. builds[b].found = files \ builds[b].left
        BY <1>0, <2>3, <2>4, <2>6, <3>1 DEF BuildsAreQuiet
      <4>2. builds[b].found \cup (files \cap {p}) = files \ (builds[b].left \ {p})
        BY <2>1, <4>1
      <4> QED BY <2>1, <2>3, <3>1, <4>2
    <3>2. CASE a # b
      <4>1. a \in RunningBuilds /\ builds'[a] = builds[a]
        BY <2>3, <2>4, <3>2 DEF RunningBuilds
      <4> QED BY <1>0, <2>1, <2>6, <4>1 DEF BuildsAreQuiet
    <3> QED BY <3>1, <3>2
  <2> QED BY <1>0, <2>4, <2>5, <2>6 DEF BuildsAreQuiet
<1> QED BY <1>1, <1>2, <1>3, <1>4, <1>5, <1>6, <1>7, <1>9, <1>10, <1>11 DEF EventsNext

LEMMA SettledFollows ==
    ASSUME Settled, files \in SUBSET Paths
    PROVE  Behind(files, flights, pendingEvents \o reports, files)
BY BehindNothing, EmptySeq, ConcatEmptySeq DEF Settled

LEMMA IndexStep ==
    ASSUME TypesOf, IndexFollows, [EventsNext]_eventVars, "overtaken" \notin mishaps'
    PROVE  cache'.has => BehindNext(cache'.items)
<1>0. /\ TypesOf /\ BuildsAreQuiet /\ cache.items \in SUBSET Paths
      /\ cache.has => Follows(cache.items)
  BY DEF IndexFollows, TypesOf, CacheRecords
<1>1. ASSUME cache'.has,
             \/ \E p \in Paths, kind \in Kinds : Change(p, kind)
             \/ Deliver \/ Flush \/ \E i \in 1..MaxFlights : Land(i)
      PROVE  BehindNext(cache'.items)
  <2>1. CASE cache.has
    <3>1. \/ BehindNext(cache.items) /\ UNCHANGED <<view, indexVars>>
          \/ \E E \in PlainBatches : Publish(E) /\ BehindNext(Apply(cache.items, Reconciled(E)))
      BY <1>0, <1>1, <2>1, FollowsStep
    <3> QED BY <1>0, <2>1, <3>1, PublishPatches DEF indexVars
  <2>2. CASE ~cache.has
    <3>1. \/ UNCHANGED indexVars
          \/ \E E \in PlainBatches : Publish(E)
      BY <1>0, <1>1, QuietOrPublished
    <3> QED BY <1>0, <1>1, <2>2, <3>1, PublishPatches DEF indexVars
  <2> QED BY <2>1, <2>2
<1>2. ASSUME UNCHANGED <<files, reports, pendingEvents, flights>>, cache'.has,
             cache'.has = cache.has /\ cache'.items = cache.items
      PROVE  BehindNext(cache'.items)
  BY <1>0, <1>2 DEF Follows, BehindNext
<1>3. ASSUME WatcherError PROVE ~cache'.has
  BY <1>3 DEF WatcherError, Invalidate, NoCache
<1>4. ASSUME Search \/ UNCHANGED eventVars \/ \E b \in Builds, p \in Paths : Scan(b, p),
             cache'.has
      PROVE  BehindNext(cache'.items)
  <2>1. UNCHANGED <<files, reports, pendingEvents, flights, cache>>
    BY <1>4 DEF Search, eventVars, indexVars, Scan
  <2> QED BY <1>2, <1>4, <2>1
<1>5. ASSUME Age, cache'.has PROVE BehindNext(cache'.items)
  <2>1. cache' = [cache EXCEPT !.old = TRUE] /\ UNCHANGED <<files, reports, pendingEvents, flights>>
    BY <1>5 DEF Age
  <2>2. cache'.has = cache.has /\ cache'.items = cache.items
    BY <1>0, <2>1 DEF TypesOf, CacheRecords
  <2> QED BY <1>2, <1>5, <2>1, <2>2
<1>6. ASSUME NEW b \in Builds, Finish(b), cache'.has PROVE BehindNext(cache'.items)
  <2>1. /\ b \in RunningBuilds /\ builds[b].left = {}
        /\ cache' = IF builds[b].current
                    THEN [has |-> TRUE, items |-> builds[b].found, old |-> FALSE] ELSE cache
        /\ UNCHANGED <<files, reports, pendingEvents, flights>>
    BY <1>6 DEF Finish, Current
  <2>2. CASE builds[b].current
    <3>1. Settled /\ builds[b].found = files
      BY <1>0, <2>1, <2>2 DEF BuildsAreQuiet
    <3>2. Behind(files, flights, pendingEvents \o reports, files)
      BY <1>0, <3>1, SettledFollows DEF TypesOf
    <3> QED BY <2>1, <2>2, <3>1, <3>2 DEF BehindNext
  <2>3. CASE ~builds[b].current
    BY <1>2, <1>6, <2>1, <2>3
  <2> QED BY <2>2, <2>3
<1> QED BY <1>1, <1>3, <1>4, <1>5, <1>6 DEF EventsNext

\* An index that searches are answered from has the files that are there once all is
\* told, as long as no batch overtakes another and nothing happens while an index is
\* built: it is patched as files change, and dropped when reports are lost.
THEOREM IndexCorrect == EventsSpec => []IndexIsExact
<1>1. EventsInit => IndexInv
  BY TypesInit DEF IndexInv, IndexFollows, EventsInit, Rested, BuildsAreQuiet,
                   RunningBuilds, Idle, NoCache
<1>2. IndexInv /\ [EventsNext]_eventVars => IndexInv'
  <2> SUFFICES ASSUME IndexInv, [EventsNext]_eventVars PROVE IndexInv'
    OBVIOUS
  <2>1. TypesInv'
    BY TypesStep DEF IndexInv
  <2>2. ASSUME mishaps' \subseteq {"lost"} PROVE IndexFollows'
    <3>1. TypesOf /\ IndexFollows /\ "overtaken" \notin mishaps' /\ "disturbed" \notin mishaps'
      BY <2>2, TypesAre, MishapsStay DEF IndexInv
    <3>2. BuildsAreQuiet'
      BY <3>1, BuildsStayQuiet DEF IndexFollows
    <3>3. cache'.has => BehindNext(cache'.items)
      BY <3>1, IndexStep
    <3> QED BY <3>2, <3>3 DEF IndexFollows, Follows, BehindNext
  <2> QED BY <2>1, <2>2 DEF IndexInv
<1>3. IndexInv => IndexIsExact
  <2> SUFFICES ASSUME IndexInv
               PROVE  /\ EventTypes
                      /\ Settled /\ cache.has /\ mishaps \subseteq {"lost"} => cache.items = files
    BY DEF IndexIsExact
  <2>1. cache.items \in SUBSET Paths
    BY TypesAre DEF IndexInv, TypesOf, CacheRecords
  <2> QED BY <2>1, FollowsSettled DEF IndexInv, IndexFollows, TypesInv
<1> QED BY <1>1, <1>2, <1>3, PTL DEF EventsSpec
=============================================================================
