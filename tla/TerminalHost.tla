----------------------------- MODULE TerminalHost -----------------------------
(***************************************************************************)
(* The terminal daemon's session manager:                                  *)
(*   apps/desktop/src/main/terminal-host/terminal-host.ts  (TerminalHost,  *)
(*   Semaphore), with the life cycle of the sessions it manages, from      *)
(*   session.ts.                                                           *)
(*                                                                         *)
(* A createOrAttach call is an element of Reqs and runs as an asynchronous *)
(* function: pc[r] names the await at which it is suspended.  A call       *)
(* creates at most one Session, so a session is named by the call that     *)
(* created it.  A socket is a client's stream connection; a reconnection   *)
(* is another element of Socks.                                            *)
(*                                                                         *)
(* The daemon runs on one JavaScript thread.  Promise continuations run    *)
(* before the next I/O event or timer does, so the actions of timers,      *)
(* sockets and child processes wait until no continuation is runnable      *)
(* (Quiet); client requests do not, because several requests that arrive   *)
(* in one chunk are handled one after the other in the same turn.          *)
(***************************************************************************)
EXTENDS Naturals, Sequences, FiniteSets, SequencesExt

CONSTANTS Ids,         \* session ids (the renderer's pane ids)
          Reqs,        \* createOrAttach calls, and the sessions they create
          Socks,       \* stream sockets
          MaxSpawns,   \* MAX_CONCURRENT_SPAWNS
          None         \* null, undefined, a missing Map entry

ASSUME NoneAssumption == None \notin Reqs \cup Socks \cup Ids
ASSUME FiniteAssumption == IsFiniteSet(Reqs)
ASSUME MaxSpawnsAssumption == MaxSpawns \in Nat \ {0}

VARIABLES
  pc,            \* where the call is: see Stages
  rid, rsock,    \* the session id and the stream socket of the call
  aborted,       \* its AbortController's signal is aborted
  target,        \* the session the call attaches to
  inUse,         \* Semaphore.inUse of spawnLimiter
  waiters,       \* Semaphore.queue of spawnLimiter
  pending,       \* pendingAttaches: id -> the call that owns the id
  sessions,      \* sessions: id -> session
  killTimers,    \* killTimers: the ids with an armed fail-safe timer
  cleanups,      \* sessions whose exit armed a scheduleSessionCleanup timer
  sess,          \* the fields of each Session object
  clients,       \* attachedClients: session -> socket -> attach token
  child,         \* the PTY subprocess of each session (external)
  open           \* stream sockets that are connected (external)

callVars == <<pc, rid, rsock, aborted, target>>
limiterVars == <<inUse, waiters>>
tableVars == <<pending, sessions, killTimers, cleanups>>
objectVars == <<sess, clients>>
outsideVars == <<child, open>>
vars == <<callVars, limiterVars, tableVars, objectVars, outsideVars>>

-----------------------------------------------------------------------------

\* idle: not called; queued: in Semaphore.queue; acquired: acquire() resolved,
\* the continuation has not run; spawning: awaits waitForReady; attaching:
\* awaits the snapshot in Session.attach; then the call has settled.
Settled == {"ok", "canceled", "failed"}
Stages == {"idle", "queued", "acquired", "spawning", "attaching"} \cup Settled

ChildStates == {"none", "boot", "running", "exited", "gone"}

SessionFields == [subprocess : BOOLEAN,   \* this.subprocess is not null
                  ready : BOOLEAN,        \* ptyReadyPromise has resolved
                  pid : BOOLEAN,          \* ptyPid is not null
                  exitCode : BOOLEAN,     \* exitCode is not null
                  disposed : BOOLEAN,
                  terminating : BOOLEAN]  \* terminatingAt is not null

NewSession == [subprocess |-> FALSE, ready |-> FALSE, pid |-> FALSE,
               exitCode |-> FALSE, disposed |-> FALSE, terminating |-> FALSE]

NoClients == [k \in Socks |-> None]

Alive(s) == sess[s].subprocess /\ ~sess[s].exitCode
AttachableIfAlive(s) == Alive(s)            \* wrong variant, see below
Attachable(s) == Alive(s) /\ ~sess[s].terminating
Detached(s) == clients[s] = NoClients       \* clientCount = 0

Mapped(id) == sessions[id] # None

\* A promise continuation is runnable.
Runnable(r) == \/ pc[r] = "acquired"
               \/ pc[r] = "spawning" /\ sess[r].ready
               \/ pc[r] = "attaching" /\ aborted[r]
Quiet == \A r \in Reqs : ~Runnable(r)

Init ==
    /\ pc = [r \in Reqs |-> "idle"]
    /\ rid = [r \in Reqs |-> None]
    /\ rsock = [r \in Reqs |-> None]
    /\ aborted = [r \in Reqs |-> FALSE]
    /\ target = [r \in Reqs |-> None]
    /\ inUse = 0
    /\ waiters = <<>>
    /\ pending = [id \in Ids |-> None]
    /\ sessions = [id \in Ids |-> None]
    /\ killTimers = {}
    /\ cleanups = {}
    /\ sess = [s \in Reqs |-> NewSession]
    /\ clients = [s \in Reqs |-> NoClients]
    /\ child = [s \in Reqs |-> "none"]
    /\ open = Socks

-----------------------------------------------------------------------------
(* Steps shared by the handlers.                                            *)

\* Wrong variants of the steps below, each with one plausible slip, against
\* which the properties are tested.  No action uses them.
AbortForgotten(R) == UNCHANGED aborted
QueueKeepsAborted(r) == waiters
ClearPendingOfOthers(r) == pending' = [pending EXCEPT ![rid[r]] = None]
HandOverUncounted(r, st) ==
    /\ inUse' = inUse - 1
    /\ waiters' = IF waiters = <<>> THEN waiters ELSE Tail(waiters)
    /\ pc' = [q \in Reqs |-> IF q = r THEN st
                             ELSE IF waiters # <<>> /\ q = Head(waiters)
                                  THEN "acquired" ELSE pc[q]]
ReleaseWakesNobody(r, st) ==
    /\ inUse' = inUse - 1
    /\ pc' = [pc EXCEPT ![r] = st]
    /\ UNCHANGED waiters
DetachWithoutToken(s, k, r) == [clients[s] EXCEPT ![k] = None]
DetachForgotten(s, k, r) == clients[s]
ExitAnnouncedOnly(s) ==
    /\ killTimers' = killTimers \ {rid[s]}
    /\ cleanups' = IF Mapped(rid[s]) /\ Detached(sessions[rid[s]])
                   THEN cleanups ELSE cleanups \cup {s}

\* AbortController.abort() on the calls of R; the abort listener of a queued
\* waiter takes it out of the semaphore's queue and rejects it.
Abort(R) == aborted' = [r \in Reqs |-> aborted[r] \/ r \in R]
PcAfterAbort(R) ==
    [r \in Reqs |-> IF r \in R /\ pc[r] = "queued" THEN "canceled" ELSE pc[r]]
QueueAfterAbort(r) == RemoveFirst(waiters, r)

\* Session.dispose() of the sessions of S (idempotent).
Dispose(S) ==
    /\ sess' = [s \in Reqs |-> IF s \in S
                   THEN [sess[s] EXCEPT !.disposed = TRUE, !.subprocess = FALSE]
                   ELSE sess[s]]
    /\ clients' = [s \in Reqs |-> IF s \in S THEN NoClients ELSE clients[s]]

DiscardKeepsEntry(D) ==             \* wrong variant
    Dispose({sessions[id] : id \in D} \ {None}) /\ UNCHANGED sessions

\* The sessions under the ids of D are disposed and deleted from the map.
Discard(D) ==
    /\ Dispose({sessions[id] : id \in D} \ {None})
    /\ sessions' = [id \in Ids |-> IF id \in D THEN None ELSE sessions[id]]

\* The finally block of createOrAttach: the call gives its id up if it owns it.
ClearPending(r) ==
    pending' = [pending EXCEPT ![rid[r]] = IF @ = r THEN None ELSE @]

\* Semaphore.release() by call r, which goes on to stage st: the slot goes to
\* the head of the queue.  (The branch for an aborted head, lines 486-490, is
\* unreachable: aborting a waiter removes it, see WaitersAreQueued.)
ReleaseSlot(r, st) ==
    \/ /\ waiters = <<>>
       /\ inUse' = IF inUse > 0 THEN inUse - 1 ELSE 0
       /\ pc' = [pc EXCEPT ![r] = st]
       /\ UNCHANGED waiters
    \/ /\ waiters # <<>>
       /\ inUse' = IF inUse > 0 THEN inUse ELSE 1
       /\ pc' = [pc EXCEPT ![r] = st, ![Head(waiters)] = "acquired"]
       /\ waiters' = Tail(waiters)

-----------------------------------------------------------------------------
(* createOrAttach.                                                          *)

\* Everything up to the first await that does not depend on the session: a new
\* call aborts the one that owns the id and takes the id over.
Enter(r, k, id) ==
    /\ pc[r] = "idle"
    /\ k \in open
    /\ rid' = [rid EXCEPT ![r] = id]
    /\ rsock' = [rsock EXCEPT ![r] = k]
    /\ Abort({pending[id]})
    /\ pending' = [pending EXCEPT ![id] = r]

\* The id has an attachable session: it is resized and the socket attached.
AttachExisting(r, k, id) ==
    /\ Enter(r, k, id)
    /\ Mapped(id) /\ Attachable(sessions[id])
    /\ target' = [target EXCEPT ![r] = sessions[id]]
    /\ clients' = [clients EXCEPT ![sessions[id]] = [@ EXCEPT ![k] = r]]
    /\ pc' = [PcAfterAbort({pending[id]}) EXCEPT ![r] = "attaching"]
    /\ waiters' = QueueAfterAbort(pending[id])
    /\ UNCHANGED <<inUse, sessions, killTimers, cleanups, sess, outsideVars>>

\* There is no session, or a dead or terminating one, which is force-disposed;
\* the call then takes a spawn slot or queues for one.
SpawnNew(r, k, id) ==
    /\ Enter(r, k, id)
    /\ Mapped(id) => ~Attachable(sessions[id])
    /\ Discard({id})
    /\ killTimers' = IF Mapped(id) /\ sess[sessions[id]].terminating
                     THEN killTimers \ {id} ELSE killTimers
    /\ \/ /\ inUse < MaxSpawns
          /\ inUse' = inUse + 1
          /\ waiters' = QueueAfterAbort(pending[id])
          /\ pc' = [PcAfterAbort({pending[id]}) EXCEPT ![r] = "acquired"]
       \/ /\ inUse >= MaxSpawns
          /\ waiters' = Append(QueueAfterAbort(pending[id]), r)
          /\ pc' = [PcAfterAbort({pending[id]}) EXCEPT ![r] = "queued"]
          /\ UNCHANGED inUse
    /\ UNCHANGED <<target, cleanups, outsideVars>>

\* acquire() has resolved: the call was aborted meanwhile, or it creates the
\* session and spawns its subprocess.
SpawnStart(r) ==
    /\ pc[r] = "acquired"
    /\ \/ /\ aborted[r]
          /\ ReleaseSlot(r, "canceled")
          /\ ClearPending(r)
          /\ UNCHANGED <<sess, child>>
       \/ /\ ~aborted[r]
          /\ sess' = [sess EXCEPT ![r] = [@ EXCEPT !.subprocess = TRUE]]
          /\ child' = [child EXCEPT ![r] = "boot"]
          /\ pc' = [pc EXCEPT ![r] = "spawning"]
          /\ UNCHANGED <<limiterVars, pending>>
    /\ UNCHANGED <<rid, rsock, aborted, target, sessions, killTimers, cleanups,
                   clients, open>>

\* The spawn throws: the slot is released and the call rejected.
SpawnThrows(r) ==
    /\ pc[r] = "acquired" /\ ~aborted[r]
    /\ ReleaseSlot(r, "failed")
    /\ ClearPending(r)
    /\ UNCHANGED <<rid, rsock, aborted, target, sessions, killTimers, cleanups,
                   objectVars, outsideVars>>

\* The wait for the PTY is over: the slot is released, then the call is found
\* aborted, or the session dead or without a pid, or the session enters the
\* map and the socket is attached.  In the first case the catch block disposes
\* the new session (no client can have reached it) and deletes its id.
SpawnSettled(r) ==
    /\ pc[r] = "spawning"
    /\ \/ /\ aborted[r]
          /\ ReleaseSlot(r, "canceled")
          /\ ClearPending(r)
          /\ Dispose({r})
          /\ sessions' = [sessions EXCEPT ![rid[r]] = None]
          /\ UNCHANGED target
       \/ /\ ~aborted[r]
          /\ ~(Alive(r) /\ sess[r].pid)
          /\ ReleaseSlot(r, "failed")
          /\ ClearPending(r)
          /\ Dispose({r})
          /\ UNCHANGED <<sessions, target>>
       \/ /\ ~aborted[r]
          /\ Alive(r) /\ sess[r].pid
          /\ ReleaseSlot(r, "attaching")
          /\ sessions' = [sessions EXCEPT ![rid[r]] = r]
          /\ target' = [target EXCEPT ![r] = r]
          /\ clients' = [clients EXCEPT ![r] = [@ EXCEPT ![rsock[r]] = r]]
          /\ UNCHANGED <<pending, sess>>
    /\ UNCHANGED <<rid, rsock, aborted, killTimers, cleanups, outsideVars>>

SpawnReady(r) == sess[r].ready /\ SpawnSettled(r)
SpawnTimeout(r) == Quiet /\ SpawnSettled(r)

\* detachAttachedClient with a token: the clients of s without the attachment
\* of call r to socket k.
ClientsWithout(s, k, r) == [clients[s] EXCEPT ![k] = IF @ = r THEN None ELSE @]

\* The attach is aborted: the call takes back its own attachment only, and
\* disposes the session if it created it and nobody else is attached.
AttachAborted(r) ==
    LET s == target[r]
        left == ClientsWithout(s, rsock[r], r)
    IN  /\ pc[r] = "attaching" /\ aborted[r]
        /\ pc' = [pc EXCEPT ![r] = "canceled"]
        /\ ClearPending(r)
        /\ \/ /\ s = r /\ left = NoClients
              /\ Dispose({r})
              /\ sessions' = [sessions EXCEPT ![rid[r]] = None]
           \/ /\ ~(s = r /\ left = NoClients)
              /\ clients' = [clients EXCEPT ![s] = left]
              /\ UNCHANGED <<sess, sessions>>
        /\ UNCHANGED <<rid, rsock, aborted, target, limiterVars, killTimers,
                       cleanups, outsideVars>>

\* The emulator is flushed (or the flush timed out): the snapshot is returned.
AttachDone(r) ==
    /\ Quiet
    /\ pc[r] = "attaching"
    /\ pc' = [pc EXCEPT ![r] = "ok"]
    /\ ClearPending(r)
    /\ UNCHANGED <<rid, rsock, aborted, target, limiterVars, sessions,
                   killTimers, cleanups, objectVars, outsideVars>>

-----------------------------------------------------------------------------
(* The other requests of a client.                                          *)

CancelCreateOrAttach(r) ==
    /\ pc[r] # "idle"
    /\ pending[rid[r]] = r
    /\ Abort({r})
    /\ pending' = [pending EXCEPT ![rid[r]] = None]
    /\ pc' = PcAfterAbort({r})
    /\ waiters' = QueueAfterAbort(r)
    /\ UNCHANGED <<rid, rsock, target, inUse, sessions, killTimers, cleanups,
                   objectVars, outsideVars>>

\* kill() of the sessions under the ids of D: they are marked as terminating
\* and each id gets a fail-safe timer unless it has one.
KillAt(D) ==
    /\ sess' = [s \in Reqs |-> IF \E id \in D : sessions[id] = s
                               THEN [sess[s] EXCEPT !.terminating = TRUE]
                               ELSE sess[s]]
    /\ killTimers' = killTimers \cup D
    /\ UNCHANGED <<callVars, limiterVars, pending, sessions, cleanups, clients,
                   outsideVars>>

Kill(id) == Mapped(id) /\ KillAt({id})
KillAll == KillAt({id \in Ids : Mapped(id)})

\* session.detach(k) of the sessions under the ids of D; a dead session that
\* loses its last client is disposed and deleted.
DetachAt(k, D) ==
    LET left(s) == [clients[s] EXCEPT ![k] = None]
        dead == {id \in D : Mapped(id) /\ ~Alive(sessions[id])
                                       /\ left(sessions[id]) = NoClients}
    IN  /\ sess' = [s \in Reqs |-> IF \E id \in dead : sessions[id] = s
                       THEN [sess[s] EXCEPT !.disposed = TRUE, !.subprocess = FALSE]
                       ELSE sess[s]]
        /\ clients' = [s \in Reqs |-> IF \E id \in D : sessions[id] = s
                                      THEN left(s) ELSE clients[s]]
        /\ sessions' = [id \in Ids |-> IF id \in dead THEN None ELSE sessions[id]]
        /\ UNCHANGED <<callVars, limiterVars, pending, killTimers, cleanups,
                       child>>

Detach(k, id) == k \in open /\ Mapped(id) /\ DetachAt(k, {id}) /\ UNCHANGED open

\* A stream socket closes: detachFromAllSessions.
SocketClose(k) ==
    /\ Quiet
    /\ k \in open
    /\ open' = open \ {k}
    /\ DetachAt(k, Ids)

\* The daemon is stopped: calls in flight are aborted, timers cleared, all
\* sessions disposed.  Aborting empties the semaphore's queue, because each
\* waiter owns its id (WaitersAreQueued).
HostDispose ==
    LET R == {pending[id] : id \in Ids}
    IN  /\ Quiet
        /\ Abort(R)
        /\ pc' = PcAfterAbort(R)
        /\ waiters' = <<>>
        /\ pending' = [id \in Ids |-> None]
        /\ killTimers' = {}
        /\ Discard(Ids)
        /\ UNCHANGED <<rid, rsock, target, inUse, cleanups, outsideVars>>

-----------------------------------------------------------------------------
(* Timers.                                                                  *)

KillTimeout(id) ==
    /\ Quiet
    /\ id \in killTimers
    /\ killTimers' = killTimers \ {id}
    /\ Discard({i \in {id} : Mapped(i) /\ sess[sessions[i]].terminating})
    /\ UNCHANGED <<callVars, limiterVars, pending, cleanups, outsideVars>>

\* The cleanup timer armed by the exit of s fires; it looks its id up again,
\* and leaves a session alone that is alive.  While a client is attached to a
\* dead session the timer is armed again, which changes nothing here.
CleanupTimeout(s) ==
    LET id == rid[s] IN
    /\ Quiet
    /\ s \in cleanups
    /\ Mapped(id) /\ ~Alive(sessions[id]) => Detached(sessions[id])
    /\ cleanups' = cleanups \ {s}
    /\ Discard({i \in {id} : Mapped(i) /\ ~Alive(sessions[i])})
    /\ UNCHANGED <<callVars, limiterVars, pending, killTimers, outsideVars>>

-----------------------------------------------------------------------------
(* The PTY subprocess: what session.ts does with what it reports.  Frames   *)
(* of a session that has been disposed or whose subprocess is gone are      *)
(* dropped (subprocessDecoder is null); the exit event is not.              *)

\* onSessionExit: everything is looked up by id, not by session.
HandleSessionExit(s) ==
    /\ killTimers' = killTimers \ {rid[s]}
    /\ cleanups' = cleanups \cup {s}

\* A Spawned frame: the PTY is up.
ChildSpawned(s) ==
    /\ Quiet
    /\ child[s] = "boot"
    /\ child' = [child EXCEPT ![s] = "running"]
    /\ sess' = IF sess[s].subprocess
               THEN [sess EXCEPT ![s] = [@ EXCEPT !.pid = TRUE, !.ready = TRUE]]
               ELSE sess
    /\ UNCHANGED <<callVars, limiterVars, tableVars, clients, open>>

\* An Exit frame: the shell has exited, its subprocess has not.
ChildExitFrame(s) ==
    /\ Quiet
    /\ child[s] = "running"
    /\ child' = [child EXCEPT ![s] = "exited"]
    /\ \/ /\ sess[s].subprocess
          /\ sess' = [sess EXCEPT ![s] = [@ EXCEPT !.exitCode = TRUE]]
          /\ HandleSessionExit(s)
       \/ /\ ~sess[s].subprocess
          /\ UNCHANGED <<sess, killTimers, cleanups>>
    /\ UNCHANGED <<callVars, limiterVars, pending, sessions, clients, open>>

\* The subprocess's exit or error event (handleSubprocessExit).
ChildGone(s) ==
    /\ Quiet
    /\ child[s] \in {"boot", "running", "exited"}
    /\ child' = [child EXCEPT ![s] = "gone"]
    /\ sess' = [sess EXCEPT ![s] = [@ EXCEPT !.exitCode = TRUE, !.ready = TRUE,
                                              !.subprocess = FALSE]]
    /\ \/ /\ ~sess[s].exitCode
          /\ HandleSessionExit(s)
       \/ /\ sess[s].exitCode
          /\ UNCHANGED <<killTimers, cleanups>>
    /\ UNCHANGED <<callVars, limiterVars, pending, sessions, clients, open>>

-----------------------------------------------------------------------------

CallStep(r) == \/ SpawnStart(r) \/ SpawnThrows(r)
               \/ SpawnReady(r) \/ SpawnTimeout(r)
               \/ AttachAborted(r) \/ AttachDone(r)
               \/ CancelCreateOrAttach(r)

ChildStep(s) == ChildSpawned(s) \/ ChildExitFrame(s) \/ ChildGone(s)

Next ==
    \/ \E r \in Reqs, k \in Socks, id \in Ids :
          AttachExisting(r, k, id) \/ SpawnNew(r, k, id)
    \/ \E r \in Reqs : CallStep(r) \/ ChildStep(r) \/ CleanupTimeout(r)
    \/ \E id \in Ids : Kill(id) \/ KillTimeout(id)
    \/ KillAll
    \/ \E k \in Socks : SocketClose(k)
    \/ \E k \in Socks, id \in Ids : Detach(k, id)
    \/ HostDispose

Spec == Init /\ [][Next]_vars

\* Continuations and timers run eventually; nothing is assumed of clients, of
\* the subprocesses or of the sockets.
Fairness ==
    /\ \A r \in Reqs : /\ WF_vars(SpawnStart(r))
                       /\ WF_vars(SpawnReady(r))
                       /\ WF_vars(SpawnTimeout(r))
                       /\ WF_vars(AttachAborted(r))
                       /\ WF_vars(AttachDone(r))
                       /\ WF_vars(CleanupTimeout(r))
    /\ \A id \in Ids : WF_vars(KillTimeout(id))

FairSpec == Spec /\ Fairness

-----------------------------------------------------------------------------
(* Properties.                                                              *)

TypeOK ==
    /\ pc \in [Reqs -> Stages]
    /\ rid \in [Reqs -> Ids \cup {None}]
    /\ rsock \in [Reqs -> Socks \cup {None}]
    /\ aborted \in [Reqs -> BOOLEAN]
    /\ target \in [Reqs -> Reqs \cup {None}]
    /\ inUse \in Nat
    /\ waiters \in Seq(Reqs)
    /\ pending \in [Ids -> Reqs \cup {None}]
    /\ sessions \in [Ids -> Reqs \cup {None}]
    /\ killTimers \subseteq Ids
    /\ cleanups \subseteq Reqs
    /\ sess \in [Reqs -> SessionFields]
    /\ clients \in [Reqs -> [Socks -> Reqs \cup {None}]]
    /\ child \in [Reqs -> ChildStates]
    /\ open \subseteq Socks

InFlight == {"queued", "acquired", "spawning", "attaching"}
Creating == {"queued", "acquired", "spawning"}
SlotHolders == {r \in Reqs : pc[r] \in {"acquired", "spawning"}}

\* The spawn semaphore counts exactly the calls that hold a slot, through
\* every release, hand-over and abort, and never more than its maximum.
SlotsConserved == inUse = Cardinality(SlotHolders) /\ inUse <= MaxSpawns

\* No lost wake-up: a call waits for a slot only while all slots are taken.
NoLostWakeup == waiters # <<>> => inUse = MaxSpawns

\* The semaphore's queue holds exactly the suspended calls, once each; none of
\* them is aborted and each owns its id, so release() never meets an aborted
\* waiter and dispose() leaves nobody behind in the queue.
WaitersAreQueued ==
    /\ \A i \in 1..Len(waiters) :
          LET w == waiters[i]
          IN  pc[w] = "queued" /\ ~aborted[w] /\ pending[rid[w]] = w
    /\ \A r \in Reqs : pc[r] = "queued" => \E i \in 1..Len(waiters) : waiters[i] = r
    /\ \A i, j \in 1..Len(waiters) : waiters[i] = waiters[j] => i = j

\* Of all the calls in flight for an id, at most one is not aborted, and that
\* one is the call that pendingAttaches names: every other one is superseded.
OneOwner ==
    /\ \A r \in Reqs : pc[r] \in InFlight /\ ~aborted[r] => pending[rid[r]] = r
    /\ \A id \in Ids : pending[id] # None =>
          /\ rid[pending[id]] = id
          /\ pc[pending[id]] \in InFlight /\ ~aborted[pending[id]]

\* The absence of a session that a call has seen before it waited for a slot
\* and for the PTY still holds when it goes on: nobody else can have created
\* one under the id unless the call was aborted.
CreatorFindsNoSession ==
    \A r \in Reqs : pc[r] \in Creating /\ ~aborted[r] => ~Mapped(rid[r])

\* The map never leads to a disposed session or to a session of another id.
MappedNotDisposed ==
    \A id \in Ids : Mapped(id) => /\ ~sess[sessions[id]].disposed
                                  /\ rid[sessions[id]] = id
                                  /\ target[sessions[id]] = sessions[id]

\* The spawn semaphore: no slot is lost or given twice, nobody sleeps beside a
\* free slot, and nobody that was canceled is in the queue.
SpawnSlots == SlotsConserved /\ NoLostWakeup /\ WaitersAreQueued

\* Who may create the session of an id, and what the table leads to.
Ownership == OneOwner /\ CreatorFindsNoSession /\ MappedNotDisposed

\* Every attachment belongs to a call that was not canceled.
AttachmentsHaveOwner ==
    \A s \in Reqs, k \in Socks : clients[s][k] # None =>
        LET q == clients[s][k]
        IN  pc[q] \in {"attaching", "ok"} /\ target[q] = s /\ rsock[q] = k

\* An aborted attach takes nothing away from the call that superseded it and
\* attached the same socket to the same session before it was resumed.
AbortKeepsLaterAttachment ==
    [][\A r \in Reqs : pc[r] = "attaching" /\ pc'[r] = "canceled" =>
         \A s \in Reqs, k \in Socks :
             clients[s][k] \notin {None, r} => clients'[s][k] = clients[s][k]]_vars

\* A session that has died in the map is never forgotten: a cleanup timer for
\* its id is pending until the session leaves the map.
DeadSessionHasCleanup ==
    \A id \in Ids : Mapped(id) /\ ~Alive(sessions[id]) =>
        \E s \in cleanups : rid[s] = id

\* What is attached to a session and what will take it away are both known.
SessionsLookedAfter == AttachmentsHaveOwner /\ DeadSessionHasCleanup

\* Kill/attach race: a socket is attached only to the session that is in the
\* map under the id the call asked for, and only while it is attachable.
AttachesOnlyAttachable ==
    [][\A s \in Reqs, k \in Socks :
         clients'[s][k] \notin {None, clients[s][k]} =>
             /\ Alive(s)' /\ ~sess'[s].terminating
             /\ sessions'[rid'[clients'[s][k]]] = s]_vars

\* What a step may do to attachments.
AttachmentsRespected == AttachesOnlyAttachable /\ AbortKeepsLaterAttachment

\* The map implements the registry: a session is never overwritten by another
\* one and never comes back.
Registry == INSTANCE SessionRegistry
              WITH Sessions <- Reqs, registry <- sessions,
                   spent <- {s \in Reqs : target[s] = s}
RegistrySpec == Registry!Spec

\* Every createOrAttach call settles: no call waits for a slot, a PTY or a
\* snapshot for ever, whatever the subprocesses and the other calls do.
CallsSettle ==
    \A r \in Reqs : (pc[r] \in InFlight) ~> (pc[r] \in Settled)

\* A session that died without clients leaves the map.
DeadSessionsLeave ==
    \A s \in Reqs, id \in Ids :
        (sessions[id] = s /\ ~Alive(s) /\ Detached(s)) ~> (sessions[id] # s)

\* Nothing in the host is stuck: neither a call nor a session that nobody needs.
HostSettles == CallsSettle /\ DeadSessionsLeave

-----------------------------------------------------------------------------
(* Statements of the documentation and the comments that the code does not  *)
(* keep.                                                                    *)

\* "List all sessions" (terminal-host.ts:306): a live session is in the map,
\* or the call that creates it is still there to look after it.
LiveSessionsAreListed ==
    \A s \in Reqs : Alive(s) => \/ pc[s] = "spawning"
                                \/ \E id \in Ids : sessions[id] = s

=============================================================================
