----------------------------- MODULE WorkspaceInit -----------------------------
(***************************************************************************)
(* Workspaces of one project in the desktop app: a workspace's worktree is *)
(* made in the background (lib/trpc/routers/workspaces/utils/              *)
(* workspace-init.ts), the making is retried (procedures/init.ts) or       *)
(* canceled by a deletion (procedures/delete.ts), and WorkspaceInitManager *)
(* (main/lib/workspace-init-manager.ts) holds progress, cancellations, the *)
(* promises that deletions wait for, and the lock of the project.          *)
(*                                                                         *)
(* External, from how the code uses them: git, which makes and removes     *)
(* worktrees and may fail, teardown scripts, the database, which survives  *)
(* a restart of the app.                                                   *)
(***************************************************************************)
EXTENDS Naturals, Sequences, FiniteSets

CONSTANTS Workspaces,
          Inits,        \* calls of create or retryInit
          Deletes,      \* calls of delete
          MaxRestarts,  \* bound: restarts of the app
          None

ASSUME CallsAssumption == Inits \cap Deletes = {} /\ None \notin Inits \cup Deletes
ASSUME BoundAssumption == MaxRestarts \in Nat

Calls == Inits \cup Deletes
Paths == Nat \ {0}   \* a retry may take a new one
ASSUME PathsAssumption == None \notin Paths

VARIABLES
  row,            \* the workspace's row: "none", "live", "deleting", "gone"
  path,           \* the path of its worktree in the database, a number: a retry
                  \* may choose a new one
  disk,           \* worktrees on disk: workspaces with paths
  job,            \* jobs: step and worktreeCreated of a workspace's job
  cancellations,
  done,           \* donePromises: the call whose startJob made the promise
  resolved,       \* calls whose promise has been resolved
  lock,           \* the call that holds the project's lock
  queue,          \* calls that await the lock
  pc, ws, kind,   \* calls: the await they are at, their workspace, their flow
  at,             \* the path a call works on, None when a deletion found no worktree
  awaited,        \* the promise that a deletion waits for
  restarts,
  deleted,        \* history: workspaces whose deletion has succeeded
  overtaken,      \* history: workspaces whose job was started during or after
                  \* a deletion
  moved,          \* history: workspaces that got a new path during an initialization
  lost            \* history: worktrees that removals which failed had moved away

manager == <<job, cancellations, done, resolved>>
locking == <<lock, queue>>
database == <<row, path>>
history == <<deleted, overtaken, moved, lost>>
call == <<pc, ws, kind, at>>
vars == <<database, disk, manager, locking, call, awaited, restarts, history>>

Kinds == {"new", "existing", "skip"}   \* useExistingBranch, skipWorktreeCreation
Steps == {"pending", "creating", "ready", "failed"}
NoJob == [step |-> "none", created |-> FALSE]

\* Awaits within the lock, of an initialization and of a deletion.
InitHolds == {"locked", "preparing", "creating", "cleanup", "renaming", "undo"}
Holds == InitHolds \cup {"removing"}
Running(i) == pc[i] \in InitHolds \cup {"lock"}
Active(c) == pc[c] \notin {"idle", "done"}
Tree(c) == <<ws[c], at[c]>>
HasTree(w) == <<w, path[w]>> \in disk
Deleting(w) == \E d \in Deletes : Active(d) /\ ws[d] = w

-----------------------------------------------------------------------------
(* Wrong variants of definitions below, which the properties must tell apart. *)
WaitOnlyForQueue(c, stage) ==
    IF queue = <<>> THEN /\ lock' = c /\ pc' = [pc EXCEPT ![c] = stage] /\ UNCHANGED queue
                    ELSE /\ queue' = Append(queue, c) /\ pc' = [pc EXCEPT ![c] = "lock"]
                         /\ UNCHANGED lock
ReleaseUnwoken(c, stage) ==
    /\ lock' = None
    /\ pc' = [pc EXCEPT ![c] = stage]
    /\ UNCHANGED queue
MarkedWithoutJob(w) == [job EXCEPT ![w].created = TRUE]
FailureUnreported(w, step) == IF job[w] = NoJob \/ step = "failed" THEN job
                     ELSE [job EXCEPT ![w].step = step]
TearDownUnlocked(d) ==
    /\ pc[d] = "teardown"
    /\ pc' = [pc EXCEPT ![d] = "removing"]
    /\ UNCHANGED <<database, disk, manager, locking, ws, kind, at, awaited, restarts, history>>
-----------------------------------------------------------------------------

Init ==
    /\ row = [w \in Workspaces |-> "none"] /\ path = [w \in Workspaces |-> 1]
    /\ disk = {}
    /\ job = [w \in Workspaces |-> NoJob]
    /\ cancellations = {}
    /\ done = [w \in Workspaces |-> None]
    /\ resolved = {}
    /\ lock = None /\ queue = <<>>
    /\ pc = [c \in Calls |-> "idle"]
    /\ ws = [c \in Calls |-> None]
    /\ kind = [c \in Calls |-> "new"]
    /\ at = [c \in Calls |-> None]
    /\ awaited = [c \in Calls |-> None]
    /\ restarts = 0
    /\ deleted = {} /\ overtaken = {} /\ moved = {} /\ lost = {}

-----------------------------------------------------------------------------
(* WorkspaceInitManager.                                                    *)

IsInitializing(w) == job[w].step \in {"pending", "creating"}
IsCancellationRequested(w) == w \in cancellations

StartJob(i, w) ==
    /\ job' = [job EXCEPT ![w] = [step |-> "pending", created |-> FALSE]]
    /\ cancellations' = cancellations \ {w}
    /\ done' = [done EXCEPT ![w] = i]
    /\ UNCHANGED resolved

ClearJob(w) ==
    /\ job' = [job EXCEPT ![w] = NoJob]
    /\ done' = [done EXCEPT ![w] = None]
    /\ cancellations' = cancellations \ {w}
    /\ UNCHANGED resolved

\* jobs after updateProgress and markWorktreeCreated
AtStep(w, step) == IF job[w] = NoJob THEN job ELSE [job EXCEPT ![w].step = step]
Marked(w) == IF job[w] = NoJob THEN job ELSE [job EXCEPT ![w].created = TRUE]
WasWorktreeCreated(w) == job[w].created

\* acquireProjectLock
AcquireLock(c, stage) ==
    IF lock = None THEN /\ lock' = c /\ pc' = [pc EXCEPT ![c] = stage] /\ UNCHANGED queue
                   ELSE /\ queue' = Append(queue, c) /\ pc' = [pc EXCEPT ![c] = "lock"]
                        /\ UNCHANGED lock

\* releaseProjectLock by call c, which goes on at stage.  The waiters are woken
\* and go on before the next event is handled: the first takes the lock, the
\* others, in their order, wait for it.
Granted(c) == IF c \in Inits THEN "locked" ELSE "removing"
NextHolder == IF queue = <<>> THEN None ELSE Head(queue)
ReleaseLock(c, stage) ==
    /\ lock' = NextHolder
    /\ queue' = IF queue = <<>> THEN queue ELSE Tail(queue)
    /\ pc' = [x \in Calls |-> IF x = c THEN stage
                              ELSE IF x = lock' THEN Granted(x) ELSE pc[x]]

\* A call that has no more use for its worktree works on no path.
Forget(c) == at' = [at EXCEPT ![c] = None]

\* The timer of a job that is ready
ReadyExpires(w) ==
    /\ job[w].step = "ready"
    /\ job' = [job EXCEPT ![w] = NoJob]
    /\ UNCHANGED <<database, disk, cancellations, done, resolved, locking, call, awaited,
                   restarts, history>>

-----------------------------------------------------------------------------
(* create and retryInit, up to the call of initializeWorkspaceWorktree.     *)

\* The row is there before the job: setBranchBaseConfig is awaited between.
Create(i, w, k) ==
    /\ pc[i] = "idle"
    /\ row[w] = "none"
    /\ row' = [row EXCEPT ![w] = "live"]
    /\ disk' = IF k = "skip" THEN disk \cup {<<w, path[w]>>} ELSE disk
    /\ kind' = [kind EXCEPT ![i] = k]
    /\ ws' = [ws EXCEPT ![i] = w]
    /\ at' = [at EXCEPT ![i] = path[w]]
    /\ pc' = [pc EXCEPT ![i] = "starting"]
    /\ UNCHANGED <<path, manager, locking, awaited, restarts, history>>

\* startJob, and the initialization up to its first await.
Begin(i, w) ==
    /\ StartJob(i, w)
    /\ overtaken' = IF row[w] # "live" \/ Deleting(w) THEN overtaken \cup {w} ELSE overtaken
    /\ AcquireLock(i, "locked")
    /\ UNCHANGED <<row, disk, kind, awaited, restarts, deleted, lost>>

\* A retry that deduplicates the branch name awaits the list of branches after
\* it has checked that the workspace is not being deleted.
Retry(i, w, dedupe) ==
    /\ pc[i] = "idle"
    /\ row[w] = "live"
    /\ ws' = [ws EXCEPT ![i] = w]
    /\ at' = [at EXCEPT ![i] = path[w]]
    /\ \/ /\ ~dedupe
          /\ Begin(i, w)
          /\ UNCHANGED <<path, moved>>
       \/ /\ dedupe
          /\ pc' = [pc EXCEPT ![i] = "listing"]
          /\ UNCHANGED <<database, disk, manager, locking, kind, awaited, restarts, history>>

\* The name is taken: the workspace gets another one, and another path.
Listed(i, taken) ==
    LET w == ws[i]
        others == {j \in Inits \ {i} : Active(j) /\ ws[j] = w}
    IN  /\ pc[i] = "listing"
        /\ Begin(i, w)
        /\ \/ ~taken /\ UNCHANGED <<path, at, moved>>
           \/ /\ taken
              /\ at' = [at EXCEPT ![i] = @ + 1]
              /\ path' = IF row[w] = "gone" THEN path ELSE [path EXCEPT ![w] = at'[i]]
              /\ moved' = IF others = {} THEN moved ELSE moved \cup {w}
        /\ UNCHANGED ws

Starting(i) ==
    /\ pc[i] = "starting"
    /\ Begin(i, ws[i])
    /\ UNCHANGED <<path, ws, at, moved>>

\* Writing the config or listing the branches throws.
StartingFails(i) ==
    /\ pc[i] \in {"starting", "listing"}
    /\ pc' = [pc EXCEPT ![i] = "done"]
    /\ Forget(i)
    /\ UNCHANGED <<database, disk, manager, locking, ws, kind, awaited, restarts, history>>

-----------------------------------------------------------------------------
(* initializeWorkspaceWorktree.                                             *)

\* The finally block: finalizeJob and releaseProjectLock.
Finish(i, w) ==
    /\ resolved' = resolved \cup ({done[w]} \ {None})
    /\ done' = [done EXCEPT ![w] = None]
    /\ ReleaseLock(i, "done")
    /\ Forget(i)

Await(i, stage) ==
    /\ pc' = [pc EXCEPT ![i] = stage]
    /\ UNCHANGED <<done, resolved, locking, at>>

\* The catch block, up to the removal of a worktree that has been made.
Catch(i, w) ==
    \/ /\ WasWorktreeCreated(w)
       /\ Await(i, "undo")
       /\ UNCHANGED job
    \/ /\ ~WasWorktreeCreated(w)
       /\ job' = AtStep(w, "failed")
       /\ Finish(i, w)

\* The worktree is there: removeWorktree, or the config and the status, then
\* completeReadyState.
AfterMade(w) == IF IsCancellationRequested(w) THEN "cleanup" ELSE "renaming"

InitLocked(i) ==
    LET w == ws[i]
    IN  /\ pc[i] = "locked"
        /\ \/ IsCancellationRequested(w) /\ Finish(i, w)
           \/ ~IsCancellationRequested(w) /\ Await(i, "preparing")
        /\ UNCHANGED <<database, disk, job, cancellations, ws, kind, awaited,
                       restarts, history>>

\* Config, sync, verification and fetch: every await of a new branch is
\* followed by a look at the cancellation, and may find no start point or throw.
InitPrepared(i) ==
    LET w == ws[i]
    IN  /\ pc[i] = "preparing"
        /\ \/ /\ kind[i] = "new" /\ IsCancellationRequested(w)
              /\ Finish(i, w)
              /\ UNCHANGED job
           \/ /\ kind[i] = "new"
              /\ job' = AtStep(w, "failed")
              /\ Finish(i, w)
           \/ Catch(i, w)
           \/ /\ kind[i] = "existing" \/ (kind[i] = "new" /\ ~IsCancellationRequested(w))
              /\ job' = AtStep(w, "creating")
              /\ Await(i, "creating")
           \/ /\ kind[i] = "skip"
              /\ job' = Marked(w)
              /\ Await(i, AfterMade(w))
        /\ kind' = [kind EXCEPT ![i] = "new"]   \* it is not asked again
        /\ UNCHANGED <<database, disk, cancellations, ws, awaited, restarts, history>>

\* git worktree add, and the git config after it, which may fail on its own;
\* then, unless canceled, the config is copied and the status recorded.
InitCreated(i) ==
    LET w == ws[i]
    IN  /\ pc[i] = "creating"
        /\ \/ /\ Tree(i) \notin disk
              /\ disk' = disk \cup {Tree(i)}
              /\ job' = Marked(w)
              /\ Await(i, AfterMade(w))
           \/ /\ disk' \in {disk, disk \cup {Tree(i)}}
              /\ Catch(i, w)
        /\ UNCHANGED <<database, cancellations, ws, kind, awaited, restarts, history>>

\* removeWorktree after a cancellation; its failure is only logged.
InitCleanedUp(i) ==
    /\ pc[i] = "cleanup"
    /\ disk' \in {disk, disk \ {Tree(i)}}
    /\ Finish(i, ws[i])
    /\ UNCHANGED <<database, job, cancellations, ws, kind, awaited, restarts, history>>

\* removeWorktree of the catch block, likewise, and the failed step.
InitUndone(i) ==
    /\ pc[i] = "undo"
    /\ disk' \in {disk, disk \ {Tree(i)}}
    /\ job' = AtStep(ws[i], "failed")
    /\ Finish(i, ws[i])
    /\ UNCHANGED <<database, cancellations, ws, kind, awaited, restarts, history>>

\* completeReadyState after the automatic name.
InitRenamed(i) ==
    LET w == ws[i]
    IN  /\ pc[i] = "renaming"
        /\ job' = IF IsCancellationRequested(w) THEN job ELSE AtStep(w, "ready")
        /\ Finish(i, w)
        /\ UNCHANGED <<database, disk, cancellations, ws, kind, awaited, restarts, history>>

-----------------------------------------------------------------------------
(* delete.                                                                  *)

\* The worktree of workspace w is looked up, terminals are killed, and the
\* teardown script runs, if there is a worktree on disk.
TearDown(d, w) ==
    /\ at' = [at EXCEPT ![d] = IF row'[w] = "gone" THEN None ELSE path[w]]
    /\ pc' = [pc EXCEPT ![d] = IF row'[w] # "gone" /\ HasTree(w) THEN "teardown" ELSE "killing"]

Delete(d, w) ==
    /\ pc[d] = "idle"
    /\ row[w] \in {"live", "deleting"}
    /\ ws' = [ws EXCEPT ![d] = w]
    /\ row' = [row EXCEPT ![w] = "deleting"]
    /\ \/ /\ IsInitializing(w)
          /\ cancellations' = cancellations \cup {w}
          /\ awaited' = [awaited EXCEPT ![d] = done[w]]
          /\ IF done[w] = None THEN TearDown(d, w)
                               ELSE pc' = [pc EXCEPT ![d] = "waiting"] /\ UNCHANGED at
       \/ /\ ~IsInitializing(w)
          /\ TearDown(d, w)
          /\ UNCHANGED <<cancellations, awaited>>
    /\ UNCHANGED <<path, disk, job, done, resolved, locking, kind, restarts, history>>

\* waitForInit: the promise is resolved, or 30 seconds have passed.
Waited(d) ==
    /\ pc[d] = "waiting"
    /\ awaited' = [awaited EXCEPT ![d] = None]
    /\ UNCHANGED <<database, disk, manager, locking, ws, kind, restarts, history>>
    /\ TearDown(d, ws[d])
InitAwaited(d) == awaited[d] \in resolved /\ Waited(d)
WaitTimeout(d) == awaited[d] \notin resolved /\ Waited(d)

\* clearWorkspaceDeletingStatus: the row, if there still is one.
Restored(w) == [row EXCEPT ![w] = IF row[w] = "deleting" THEN "live" ELSE row[w]]

\* All that ran is over; if the script failed, a deletion without force ends.
TornDown(d) ==
    /\ pc[d] \in {"teardown", "killing"}
    /\ at[d] # None
    /\ AcquireLock(d, "removing")
    /\ UNCHANGED <<database, disk, manager, ws, kind, at, awaited, restarts, history>>

TeardownFails(d) ==
    /\ pc[d] = "teardown"
    /\ row' = Restored(ws[d])
    /\ pc' = [pc EXCEPT ![d] = "done"]
    /\ Forget(d)
    /\ UNCHANGED <<path, disk, manager, locking, ws, kind, awaited, restarts, history>>

\* The rows go and the job is cleared.
Gone(w) ==
    /\ row' = [row EXCEPT ![w] = "gone"]
    /\ deleted' = deleted \cup {w}
    /\ ClearJob(w)

\* There was no worktree to remove any more.
NothingToRemove(d) ==
    /\ pc[d] = "killing" /\ at[d] = None
    /\ Gone(ws[d])
    /\ pc' = [pc EXCEPT ![d] = "done"]
    /\ UNCHANGED <<path, disk, locking, ws, kind, at, awaited, restarts, overtaken, moved, lost>>

\* removeWorktreeFromDisk, unless git knows a worktree there that the database
\* does not; then the lock is released, the branch may be deleted, which is
\* awaited, and the rows go.
Untracked(d) == row[ws[d]] = "gone" \/ at[d] # path[ws[d]]

Removed(d, branchToo) ==
    LET w == ws[d]
    IN  /\ pc[d] = "removing"
        /\ disk' = IF Untracked(d) THEN disk ELSE disk \ {Tree(d)}
        /\ ReleaseLock(d, IF branchToo THEN "branch" ELSE "done")
        /\ IF branchToo THEN UNCHANGED <<row, manager, deleted>> ELSE Gone(w)
        /\ Forget(d)
        /\ UNCHANGED <<path, ws, kind, awaited, restarts, overtaken, moved, lost>>

\* removeWorktree moves the directory away before it prunes git's list: one that fails
\* has done so or not.
RemovalFails(d) ==
    /\ pc[d] = "removing"
    /\ Tree(d) \in disk /\ ~Untracked(d)
    /\ disk' \in {disk, disk \ {Tree(d)}}
    /\ lost' = lost \cup (disk \ disk')
    /\ row' = Restored(ws[d])
    /\ ReleaseLock(d, "done")
    /\ Forget(d)
    /\ UNCHANGED <<path, manager, ws, kind, awaited, restarts, deleted, overtaken, moved>>

\* listExternalWorktrees throws, and with it the deletion: the row stays "deleting".
\* (The steps before it do not: killing terminals and the teardown report failures.)
RemovalThrows(d) ==
    /\ pc[d] = "removing"
    /\ ReleaseLock(d, "done")
    /\ Forget(d)
    /\ UNCHANGED <<database, disk, manager, ws, kind, awaited, restarts, history>>

BranchDeleted(d) ==
    /\ pc[d] = "branch"
    /\ Gone(ws[d])
    /\ pc' = [pc EXCEPT ![d] = "done"]
    /\ UNCHANGED <<path, disk, locking, ws, kind, at, awaited, restarts, overtaken, moved, lost>>

-----------------------------------------------------------------------------

\* The app restarts: the manager and all calls are gone, rows and worktrees
\* are not, and a git command may have come to its end or not.
Restart ==
    /\ restarts < MaxRestarts
    /\ restarts' = restarts + 1
    /\ LET removing == {c \in Calls : \/ pc[c] \in {"cleanup", "undo"}
                                      \/ pc[c] = "removing" /\ ~Untracked(c)}
           making   == {c \in Calls : pc[c] = "creating"}
       IN  disk' \in {disk, disk \ {Tree(c) : c \in removing}, disk \cup {Tree(c) : c \in making}}
    /\ job' = [w \in Workspaces |-> NoJob]
    /\ cancellations' = {}
    /\ done' = [w \in Workspaces |-> None]
    /\ resolved' = {}
    /\ lock' = None /\ queue' = <<>>
    /\ pc' = [c \in Calls |-> IF Active(c) THEN "done" ELSE pc[c]]
    /\ at' = [c \in Calls |-> None]
    /\ kind' = [c \in Calls |-> "new"]
    /\ awaited' = [c \in Calls |-> None]
    /\ UNCHANGED <<database, ws, history>>

InitStep(i) == \/ Starting(i) \/ (\E taken \in BOOLEAN : Listed(i, taken))
               \/ InitLocked(i) \/ InitPrepared(i) \/ InitCreated(i)
               \/ InitCleanedUp(i) \/ InitUndone(i) \/ InitRenamed(i)
DeleteStep(d) == \/ InitAwaited(d) \/ WaitTimeout(d) \/ TornDown(d) \/ TeardownFails(d)
                 \/ (\E branchToo \in BOOLEAN : Removed(d, branchToo))
                 \/ RemovalFails(d) \/ RemovalThrows(d)
                 \/ BranchDeleted(d) \/ NothingToRemove(d)

Next ==
    \/ \E i \in Inits, w \in Workspaces :
          \/ \E k \in Kinds : Create(i, w, k)
          \/ \E dedupe \in BOOLEAN : Retry(i, w, dedupe)
    \/ \E i \in Inits : InitStep(i) \/ StartingFails(i)
    \/ \E d \in Deletes : (\E w \in Workspaces : Delete(d, w)) \/ DeleteStep(d)
    \/ \E w \in Workspaces : ReadyExpires(w)
    \/ Restart

Spec == Init /\ [][Next]_vars

\* Git commands, scripts and timers come to their end.
Fairness ==
    /\ \A i \in Inits : WF_vars(InitStep(i))
    /\ \A d \in Deletes : WF_vars(DeleteStep(d))
FairSpec == Spec /\ Fairness

-----------------------------------------------------------------------------

TypeOK ==
    /\ row \in [Workspaces -> {"none", "live", "deleting", "gone"}]
    /\ path \in [Workspaces -> Paths] /\ disk \subseteq Workspaces \X Paths
    /\ job \in [Workspaces -> [step : Steps, created : BOOLEAN] \cup {NoJob}]
    /\ cancellations \subseteq Workspaces
    /\ done \in [Workspaces -> Inits \cup {None}]
    /\ resolved \subseteq Inits
    /\ lock \in Calls \cup {None}
    /\ queue \in Seq(Calls)
    /\ pc \in [Calls -> Holds \cup {"idle", "starting", "listing", "lock", "waiting",
                                    "teardown", "killing", "branch", "done"}]
    /\ ws \in [Calls -> Workspaces \cup {None}]
    /\ kind \in [Calls -> Kinds]
    /\ at \in [Calls -> Paths \cup {None}]
    /\ awaited \in [Calls -> Inits \cup {None}]
    /\ restarts \in 0..MaxRestarts
    /\ {deleted, overtaken, moved} \subseteq SUBSET Workspaces
    /\ lost \subseteq Workspaces \X Paths

\* Git commands of the project exclude each other, whoever takes the lock and
\* in whatever way a holder ends, and the lock is not left with a call that ended.
OneHolder ==
    /\ \A c \in Calls : pc[c] \in Holds <=> lock = c
    /\ \A c \in Calls : pc[c] = "lock" <=> \E n \in DOMAIN queue : queue[n] = c

\* A deletion that succeeded leaves no worktree behind, although it may have
\* met an initialization at any await of either, given up waiting for it, or
\* met another deletion; unless a job was started while it ran or afterwards.  (What
\* a failed attempt left at a path that a retry gave up is not looked at.)
DeletedLeavesNoWorktree == \A w \in deleted : HasTree(w) => w \in overtaken

\* Progress does not hang: a job that is not over has a call that works on it,
\* or was canceled.
BusyHasInit ==
    \A w \in Workspaces : IsInitializing(w) =>
        w \in cancellations \/ \E i \in Inits : ws[i] = w /\ Running(i)

\* A workspace that is ready has its worktree while nobody deletes it (or a job was
\* started then, as above), though several initializations may have worked on it: unless
\* a deletion failed after it had moved the worktree away, and restored the row.
ReadyHasWorktree ==
    \A w \in Workspaces : job[w].step = "ready" /\ ~Deleting(w) =>
        HasTree(w) \/ w \in overtaken \cup moved \/ <<w, path[w]>> \in lost

\* What the progress of a workspace says is so.
ProgressIsTrue == TypeOK /\ BusyHasInit /\ ReadyHasWorktree

\* Every deletion comes to an end.
DeletesSettle == \A d \in Deletes : Active(d) ~> pc[d] = "done"
=============================================================================
