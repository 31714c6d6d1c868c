-------------------------- MODULE WorkspaceInitProofs --------------------------
(***************************************************************************)
(* WorkspaceInit, for any number of workspaces, initializations, deletions *)
(* and restarts, in four parts that build on each other:                   *)
(*   - the project's lock.  A step does one of four things to it, with one *)
(*     lemma for each: a call goes on without touching it, asks for it,    *)
(*     gives it up, or the app restarts;                                   *)
(*   - types, and how the stages of the calls follow each other (Known);   *)
(*   - a job that is not over has a call that works on it (BusyInv);       *)
(*   - a deletion leaves no worktree (DeletionInv), and a ready workspace  *)
(*     has one (ReadyInv).                                                 *)
(***************************************************************************)
EXTENDS WorkspaceInit, TLAPS

Outside == {"idle", "starting", "listing", "waiting", "teardown", "killing", "branch", "done"}
Stages == Holds \cup Outside \cup {"lock"}

LockTypes ==
    /\ lock \in Calls \cup {None}
    /\ queue \in Seq(Calls)
    /\ pc \in [Calls -> Stages]

\* A call waits once, and only while somebody holds the lock: whoever gives it
\* up hands it to a call that is waiting, and to one only.
WaitsOnce == \A m, n \in DOMAIN queue : queue[m] = queue[n] => m = n
FreeIsUnwanted == lock = None => queue = <<>>

LockInv == LockTypes /\ OneHolder /\ WaitsOnce /\ FreeIsUnwanted

-----------------------------------------------------------------------------

LEMMA InitLock == Init => LockInv
<1> SUFFICES ASSUME Init PROVE LockInv
  OBVIOUS
<1>1. lock = None /\ queue = <<>> /\ pc = [c \in Calls |-> "idle"]
  BY DEF Init
<1>2. "idle" \in Stages /\ "idle" \notin Holds
  BY DEF Stages, Outside, Holds, InitHolds
<1>3. None \notin Calls
  BY CallsAssumption DEF Calls
<1> QED BY <1>1, <1>2, <1>3 DEF LockInv, LockTypes, OneHolder, WaitsOnce, FreeIsUnwanted

\* A call that holds the lock goes on with it, one that does not goes on without.
LEMMA GoesOn ==
  ASSUME LockInv, NEW c \in Calls, NEW stage \in Stages \ {"lock"},
         pc[c] # "lock", pc[c] \in Holds <=> stage \in Holds,
         pc' = [pc EXCEPT ![c] = stage], UNCHANGED locking
  PROVE  LockInv'
<1>1. LockTypes' /\ WaitsOnce' /\ FreeIsUnwanted'
  BY DEF LockInv, LockTypes, WaitsOnce, FreeIsUnwanted, locking
<1>2. \A x \in Calls : /\ pc'[x] \in Holds <=> pc[x] \in Holds
                       /\ pc'[x] = "lock" <=> pc[x] = "lock"
  BY DEF LockInv, LockTypes
<1>3. OneHolder'
  BY <1>2 DEF LockInv, OneHolder, locking
<1> QED BY <1>1, <1>3 DEF LockInv

LEMMA Acquires ==
  ASSUME LockInv, NEW c \in Calls, NEW stage \in Holds, pc[c] \in Outside,
         AcquireLock(c, stage)
  PROVE  LockInv'
<1> USE DEF LockInv
<1>0. None \notin Calls /\ "lock" \notin Holds /\ "lock" \notin Outside /\ Holds \cap Outside = {}
  BY CallsAssumption DEF Calls, Holds, InitHolds, Outside
<1>1. CASE lock = None
  <2>1. lock' = c /\ pc' = [pc EXCEPT ![c] = stage] /\ queue' = queue /\ queue = <<>>
    BY <1>1 DEF AcquireLock, FreeIsUnwanted
  <2>2. LockTypes' /\ WaitsOnce' /\ FreeIsUnwanted'
    BY <2>1, <1>0 DEF LockTypes, WaitsOnce, FreeIsUnwanted, Stages
  <2>3. OneHolder'
    BY <2>1, <1>0, <1>1 DEF OneHolder, LockTypes
  <2> QED BY <2>2, <2>3
<1>2. CASE lock # None
  <2>1. queue' = Append(queue, c) /\ pc' = [pc EXCEPT ![c] = "lock"] /\ lock' = lock
    BY <1>2 DEF AcquireLock
  <2>2. LockTypes' /\ FreeIsUnwanted'
    BY <2>1, <1>2 DEF LockTypes, FreeIsUnwanted, Stages
  <2>3. \A n \in DOMAIN queue : queue[n] # c
    BY <1>0 DEF OneHolder
  <2>4. DOMAIN queue' = 1..(Len(queue) + 1) /\ DOMAIN queue = 1..Len(queue) /\ Len(queue) \in Nat
    BY <2>1 DEF LockTypes
  <2>5. \A n \in DOMAIN queue' : queue'[n] = IF n = Len(queue) + 1 THEN c ELSE queue[n]
    BY <2>1, <2>4 DEF LockTypes
  <2>6. WaitsOnce'
    BY <2>3, <2>4, <2>5 DEF WaitsOnce
  <2>7. \A x \in Calls : pc'[x] \in Holds <=> lock' = x
    BY <2>1, <1>0 DEF OneHolder, LockTypes
  <2>8. \A x \in Calls : pc'[x] = "lock" <=> \E n \in DOMAIN queue' : queue'[n] = x
    <3> SUFFICES ASSUME NEW x \in Calls
                 PROVE  pc'[x] = "lock" <=> \E n \in DOMAIN queue' : queue'[n] = x
      OBVIOUS
    <3>1. CASE x = c
      BY <3>1, <2>1, <2>4, <2>5 DEF LockTypes
    <3>2. CASE x # c
      <4>1. pc'[x] = pc[x]
        BY <3>2, <2>1 DEF LockTypes
      <4>2. (\E n \in DOMAIN queue' : queue'[n] = x) <=> (\E n \in DOMAIN queue : queue[n] = x)
        BY <3>2, <2>4, <2>5
      <4> QED BY <4>1, <4>2 DEF OneHolder
    <3> QED BY <3>1, <3>2
  <2> QED BY <2>2, <2>6, <2>7, <2>8 DEF OneHolder
<1> QED BY <1>1, <1>2

LEMMA Releases ==
  ASSUME LockInv, NEW c \in Calls, NEW stage \in Outside, pc[c] \in Holds,
         ReleaseLock(c, stage)
  PROVE  LockInv'
<1> USE DEF LockInv
<1>0. None \notin Calls /\ "lock" \notin Holds /\ "lock" \notin Outside /\ Holds \cap Outside = {}
  BY CallsAssumption DEF Calls, Holds, InitHolds, Outside
<1>1. lock = c
  BY DEF OneHolder
<1>2. \A x \in Calls : x # c => pc[x] \notin Holds
  BY <1>1 DEF OneHolder
<1>3. pc' = [x \in Calls |-> IF x = c THEN stage ELSE IF x = lock' THEN Granted(x) ELSE pc[x]]
  BY DEF ReleaseLock
<1>4. \A x \in Calls : Granted(x) \in Holds
  BY DEF Granted, Holds, InitHolds
<1>5. CASE queue = <<>>
  <2>1. lock' = None /\ queue' = queue
    BY <1>5 DEF ReleaseLock, NextHolder
  <2>2. LockTypes' /\ WaitsOnce' /\ FreeIsUnwanted'
    BY <2>1, <1>3, <1>4, <1>5 DEF LockTypes, WaitsOnce, FreeIsUnwanted, Stages
  <2>3. \A x \in Calls : pc'[x] = IF x = c THEN stage ELSE pc[x]
    BY <2>1, <1>0, <1>3
  <2>4. \A x \in Calls : pc'[x] \notin Holds /\ pc'[x] # "lock"
    BY <2>3, <1>0, <1>2, <1>5 DEF OneHolder
  <2>5. OneHolder'
    BY <2>1, <2>4, <1>0, <1>5 DEF OneHolder
  <2> QED BY <2>2, <2>5
<1>6. CASE queue # <<>>
  <2> DEFINE h == Head(queue)
  <2>1. lock' = h /\ queue' = Tail(queue)
    BY <1>6 DEF ReleaseLock, NextHolder
  <2>2. /\ h \in Calls /\ h = queue[1] /\ 1 \in DOMAIN queue
        /\ Len(queue) \in Nat /\ DOMAIN queue = 1..Len(queue)
        /\ DOMAIN queue' = 1..(Len(queue) - 1)
    BY <2>1, <1>6 DEF LockTypes
  <2>3. \A n \in DOMAIN queue' : n + 1 \in DOMAIN queue /\ n + 1 # 1 /\ queue'[n] = queue[n + 1]
    BY <2>1, <2>2, <1>6 DEF LockTypes
  <2>4. \A n \in DOMAIN queue : n # 1 => n - 1 \in DOMAIN queue' /\ queue'[n - 1] = queue[n]
    BY <2>1, <2>2, <1>6 DEF LockTypes
  <2>5. pc[h] = "lock" /\ h # c
    BY <2>2, <1>0 DEF OneHolder
  <2>6. \A x \in Calls : pc'[x] = IF x = c THEN stage ELSE IF x = h THEN Granted(x) ELSE pc[x]
    BY <2>1, <1>3
  <2>7. LockTypes'
    <3>1. queue' \in Seq(Calls)
      BY <2>1, <1>6 DEF LockTypes
    <3>2. pc' \in [Calls -> Stages]
      BY <1>3, <1>4 DEF LockTypes, Stages
    <3> QED BY <3>1, <3>2, <2>1, <2>2 DEF LockTypes
  <2>8. WaitsOnce'
    <3> SUFFICES ASSUME NEW m \in DOMAIN queue', NEW n \in DOMAIN queue', queue'[m] = queue'[n]
                 PROVE  m = n
      BY DEF WaitsOnce
    <3>1. m + 1 = n + 1
      BY <2>3 DEF WaitsOnce
    <3> QED BY <3>1, <2>2
  <2>9. FreeIsUnwanted'
    BY <2>1, <2>2, <1>0 DEF FreeIsUnwanted
  <2>10. \A x \in Calls : pc'[x] \in Holds <=> lock' = x
    BY <2>1, <2>5, <2>6, <1>0, <1>2, <1>4
  <2>11. \A x \in Calls : pc'[x] = "lock" <=> \E n \in DOMAIN queue' : queue'[n] = x
    <3> SUFFICES ASSUME NEW x \in Calls
                 PROVE  pc'[x] = "lock" <=> \E n \in DOMAIN queue' : queue'[n] = x
      OBVIOUS
    <3>1. CASE x = h
      <4>1. pc'[x] # "lock"
        BY <3>1, <2>5, <2>6, <1>0, <1>4
      <4>2. \A n \in DOMAIN queue' : queue'[n] # h
        BY <2>2, <2>3 DEF WaitsOnce
      <4> QED BY <4>1, <4>2, <3>1
    <3>2. CASE x = c
      <4>1. pc'[x] # "lock" /\ pc[x] # "lock"
        BY <3>2, <2>6, <1>0
      <4>2. \A n \in DOMAIN queue : queue[n] # x
        BY <4>1 DEF OneHolder
      <4> QED BY <4>1, <4>2, <2>3
    <3>3. CASE x # h /\ x # c
      <4>1. pc'[x] = pc[x]
        BY <3>3, <2>6
      <4>2. (\E n \in DOMAIN queue' : queue'[n] = x) <=> (\E n \in DOMAIN queue : queue[n] = x)
        BY <3>3, <2>2, <2>3, <2>4
      <4> QED BY <4>1, <4>2 DEF OneHolder
    <3> QED BY <3>1, <3>2, <3>3
  <2> QED BY <2>7, <2>8, <2>9, <2>10, <2>11 DEF OneHolder
<1> QED BY <1>5, <1>6

\* All calls end with the app, and the lock is a new one.
LEMMA Restarts == LockInv /\ Restart => LockInv'
<1> SUFFICES ASSUME LockInv, Restart PROVE LockInv'
  OBVIOUS
<1>1. lock' = None /\ queue' = <<>> /\ pc' = [c \in Calls |-> IF Active(c) THEN "done" ELSE pc[c]]
  BY DEF Restart
<1>2. \A c \in Calls : pc'[c] \in {"idle", "done"}
  BY <1>1 DEF Active
<1>3. None \notin Calls
  BY CallsAssumption DEF Calls
<1>4. {"idle", "done"} \cap Holds = {} /\ "lock" \notin {"idle", "done"}
  BY DEF Holds, InitHolds
<1>5. pc' \in [Calls -> Stages]
  BY <1>1, <1>2 DEF Stages, Outside
<1>6. OneHolder'
  BY <1>1, <1>2, <1>3, <1>4 DEF OneHolder
<1> QED BY <1>1, <1>5, <1>6 DEF LockInv, LockTypes, WaitsOnce, FreeIsUnwanted

-----------------------------------------------------------------------------
(* The steps of initializations and of deletions.                           *)

LEMMA BeginLock ==
  ASSUME LockInv, NEW i \in Inits, NEW w, pc[i] \in Outside, Begin(i, w)
  PROVE  LockInv'
  BY Acquires DEF Begin, Calls, Holds, InitHolds

LEMMA FinishLock ==
  ASSUME LockInv, NEW i \in Inits, NEW w, pc[i] \in Holds, Finish(i, w)
  PROVE  LockInv'
  BY Releases DEF Finish, Calls, Outside

LEMMA AwaitLock ==
  ASSUME LockInv, NEW i \in Inits, NEW stage \in InitHolds, pc[i] \in Holds, Await(i, stage)
  PROVE  LockInv'
<1>1. i \in Calls /\ stage \in Stages \ {"lock"} /\ pc[i] # "lock" /\ stage \in Holds
  BY DEF Calls, Stages, Holds, InitHolds
<1>2. pc' = [pc EXCEPT ![i] = stage] /\ UNCHANGED locking
  BY DEF Await
<1> QED BY <1>1, <1>2, GoesOn

LEMMA CatchLock ==
  ASSUME LockInv, NEW i \in Inits, NEW w, pc[i] \in Holds, Catch(i, w)
  PROVE  LockInv'
  BY AwaitLock, FinishLock DEF Catch, InitHolds

LEMMA InitSteps ==
  ASSUME LockInv, NEW i \in Inits,
         \/ \E w \in Workspaces : \/ \E k \in Kinds : Create(i, w, k)
                                  \/ \E dedupe \in BOOLEAN : Retry(i, w, dedupe)
         \/ InitStep(i) \/ StartingFails(i)
  PROVE  LockInv'
<1>0. i \in Calls
  BY DEF Calls
<1>1. ASSUME NEW w \in Workspaces, NEW k \in Kinds, Create(i, w, k) PROVE LockInv'
  BY <1>0, <1>1, GoesOn DEF Create, Stages, Outside, Holds, InitHolds
<1>2. ASSUME NEW w \in Workspaces, NEW dedupe \in BOOLEAN, Retry(i, w, dedupe) PROVE LockInv'
  <2>1. pc[i] = "idle"
    BY <1>2 DEF Retry
  <2>2. CASE Begin(i, w)
    BY <2>1, <2>2, BeginLock DEF Outside
  <2>3. CASE pc' = [pc EXCEPT ![i] = "listing"] /\ UNCHANGED locking
    BY <2>1, <2>3, <1>0, GoesOn DEF Stages, Outside, Holds, InitHolds
  <2> QED BY <1>2, <2>2, <2>3 DEF Retry
<1>3. ASSUME NEW taken \in BOOLEAN, Listed(i, taken) PROVE LockInv'
  BY <1>3, BeginLock DEF Listed, Outside
<1>4. CASE Starting(i)
  BY <1>4, BeginLock DEF Starting, Outside
<1>5. CASE StartingFails(i)
  BY <1>5, <1>0, GoesOn DEF StartingFails, Stages, Outside, Holds, InitHolds
<1>6. CASE InitLocked(i)
  <2>1. pc[i] \in Holds
    BY <1>6 DEF InitLocked, Holds, InitHolds
  <2> QED BY <2>1, <1>6, FinishLock, AwaitLock DEF InitLocked, InitHolds
<1>7. CASE InitPrepared(i)
  <2>1. pc[i] \in Holds
    BY <1>7 DEF InitPrepared, Holds, InitHolds
  <2>2. AfterMade(ws[i]) \in InitHolds
    BY DEF AfterMade, InitHolds
  <2>3. \/ Finish(i, ws[i]) \/ Catch(i, ws[i])
        \/ Await(i, "creating") \/ Await(i, AfterMade(ws[i]))
    BY <1>7 DEF InitPrepared
  <2> QED BY <2>1, <2>2, <2>3, FinishLock, CatchLock, AwaitLock DEF InitHolds
<1>8. CASE InitCreated(i)
  <2>1. pc[i] \in Holds
    BY <1>8 DEF InitCreated, Holds, InitHolds
  <2>2. AfterMade(ws[i]) \in InitHolds
    BY DEF AfterMade, InitHolds
  <2>3. Catch(i, ws[i]) \/ Await(i, AfterMade(ws[i]))
    BY <1>8 DEF InitCreated
  <2> QED BY <2>1, <2>2, <2>3, CatchLock, AwaitLock
<1>9. CASE InitCleanedUp(i)
  BY <1>9, FinishLock DEF InitCleanedUp, Holds, InitHolds
<1>10. CASE InitUndone(i)
  BY <1>10, FinishLock DEF InitUndone, Holds, InitHolds
<1>11. CASE InitRenamed(i)
  BY <1>11, FinishLock DEF InitRenamed, Holds, InitHolds
<1> QED BY <1>1, <1>2, <1>3, <1>4, <1>5, <1>6, <1>7, <1>8, <1>9, <1>10, <1>11 DEF InitStep

\* What a deletion does after it has been announced or has waited.
LEMMA TearDownLock ==
  ASSUME LockInv, NEW d \in Deletes, NEW w, pc[d] \in Outside, TearDown(d, w), UNCHANGED locking
  PROVE  LockInv'
<1>1. PICK stage \in {"teardown", "killing"} : pc' = [pc EXCEPT ![d] = stage]
  BY DEF TearDown
<1>2. d \in Calls /\ stage \in Stages \ {"lock"} /\ pc[d] # "lock"
      /\ pc[d] \notin Holds /\ stage \notin Holds
  BY DEF Calls, Stages, Outside, Holds, InitHolds
<1> QED BY <1>1, <1>2, GoesOn

LEMMA DeleteSteps ==
  ASSUME LockInv, NEW d \in Deletes, (\E w \in Workspaces : Delete(d, w)) \/ DeleteStep(d)
  PROVE  LockInv'
<1>0. d \in Calls
  BY DEF Calls
<1>1. ASSUME NEW w \in Workspaces, Delete(d, w) PROVE LockInv'
  <2>1. pc[d] = "idle" /\ UNCHANGED locking
    BY <1>1 DEF Delete
  <2>2. CASE TearDown(d, w)
    BY <2>1, <2>2, TearDownLock DEF Outside
  <2>3. CASE pc' = [pc EXCEPT ![d] = "waiting"]
    BY <2>1, <2>3, <1>0, GoesOn DEF Stages, Outside, Holds, InitHolds
  <2> QED BY <1>1, <2>2, <2>3 DEF Delete
<1>2. CASE InitAwaited(d) \/ WaitTimeout(d)
  BY <1>2, TearDownLock DEF InitAwaited, WaitTimeout, Waited, Outside
<1>3. CASE TornDown(d)
  BY <1>3, <1>0, Acquires DEF TornDown, Outside, Holds
<1>4. CASE TeardownFails(d)
  BY <1>4, <1>0, GoesOn DEF TeardownFails, Stages, Outside, Holds, InitHolds
<1>5. CASE NothingToRemove(d)
  BY <1>5, <1>0, GoesOn DEF NothingToRemove, Stages, Outside, Holds, InitHolds
<1>6. ASSUME NEW branchToo \in BOOLEAN, Removed(d, branchToo) PROVE LockInv'
  <2>1. PICK stage \in {"branch", "done"} : ReleaseLock(d, stage)
    BY <1>6 DEF Removed
  <2> QED BY <2>1, <1>6, <1>0, Releases DEF Removed, Outside, Holds
<1>7. CASE RemovalFails(d) \/ RemovalThrows(d)
  BY <1>7, <1>0, Releases DEF RemovalFails, RemovalThrows, Outside, Holds
<1>8. CASE BranchDeleted(d)
  BY <1>8, <1>0, GoesOn DEF BranchDeleted, Stages, Outside, Holds, InitHolds
<1> QED BY <1>1, <1>2, <1>3, <1>4, <1>5, <1>6, <1>7, <1>8 DEF DeleteStep

LEMMA LockInvariant == LockInv /\ [Next]_vars => LockInv'
<1> SUFFICES ASSUME LockInv, [Next]_vars PROVE LockInv'
  OBVIOUS
<1>1. ASSUME NEW i \in Inits,
             \/ \E w \in Workspaces : \/ \E k \in Kinds : Create(i, w, k)
                                      \/ \E dedupe \in BOOLEAN : Retry(i, w, dedupe)
             \/ InitStep(i) \/ StartingFails(i)
      PROVE  LockInv'
  BY <1>1, InitSteps
<1>2. ASSUME NEW d \in Deletes, (\E w \in Workspaces : Delete(d, w)) \/ DeleteStep(d)
      PROVE  LockInv'
  BY <1>2, DeleteSteps
<1>3. CASE UNCHANGED <<locking, pc>>
  BY <1>3 DEF LockInv, LockTypes, OneHolder, WaitsOnce, FreeIsUnwanted, locking
<1>4. ASSUME NEW w \in Workspaces, ReadyExpires(w) PROVE LockInv'
  BY <1>3, <1>4 DEF ReadyExpires, call
<1>5. CASE UNCHANGED vars
  BY <1>3, <1>5 DEF vars, call
<1>6. CASE Restart
  BY <1>6, Restarts
<1> QED BY <1>1, <1>2, <1>4, <1>5, <1>6 DEF Next

\* Git commands of a project exclude each other and the lock is always with a
\* call that is at one of them (workspace-init-manager.ts, acquireProjectLock and
\* releaseProjectLock).
THEOREM LockCorrect == Spec => []OneHolder
<1>1. LockInv => OneHolder
  BY DEF LockInv
<1> QED BY <1>1, InitLock, LockInvariant, PTL DEF Spec

-----------------------------------------------------------------------------
(* How the calls move: the one that acts, and the one it hands the lock to.  *)

OthersMove(c) ==
    \A x \in Calls \ {c} : \/ pc'[x] = pc[x]
                           \/ pc[x] = "lock" /\ pc'[x] = Granted(x)

LEMMA GrantedHolds ==
  /\ \A i \in Inits : Granted(i) = "locked" /\ i \in Calls
  /\ \A d \in Deletes : Granted(d) = "removing" /\ d \in Calls /\ d \notin Inits
BY CallsAssumption DEF Granted, Calls

LEMMA MovesAlone ==
  ASSUME LockInv, NEW c \in Calls, NEW stage, pc' = [pc EXCEPT ![c] = stage]
  PROVE  pc'[c] = stage /\ \A x \in Calls \ {c} : pc'[x] = pc[x]
BY DEF LockInv, LockTypes

LEMMA AcquireMoves ==
  ASSUME LockInv, NEW c \in Calls, NEW stage, AcquireLock(c, stage)
  PROVE  /\ pc'[c] \in {stage, "lock"} /\ \A x \in Calls \ {c} : pc'[x] = pc[x]
         /\ pc'[c] = stage => queue = <<>> \/ stage = "lock"
BY DEF AcquireLock, LockInv, LockTypes, FreeIsUnwanted

LEMMA ReleaseMoves ==
  ASSUME LockInv, NEW c \in Calls, NEW stage, ReleaseLock(c, stage)
  PROVE  /\ pc'[c] = stage
         /\ \A x \in Calls \ {c} : \/ pc'[x] = pc[x]
                                   \/ pc[x] = "lock" /\ pc'[x] = Granted(x)
                                      /\ queue # <<>> /\ x = queue[1] /\ 1 \in DOMAIN queue
<1>1. pc' = [x \in Calls |-> IF x = c THEN stage ELSE IF x = lock' THEN Granted(x) ELSE pc[x]]
      /\ lock' = NextHolder
  BY DEF ReleaseLock
<1>2. CASE queue = <<>>
  BY <1>1, <1>2, CallsAssumption DEF NextHolder, Calls
<1>3. CASE queue # <<>>
  <2>1. lock' = queue[1] /\ 1 \in DOMAIN queue
    BY <1>1, <1>3 DEF NextHolder, LockInv, LockTypes
  <2>2. pc[queue[1]] = "lock"
    BY <2>1 DEF LockInv, OneHolder, LockTypes
  <2> QED BY <1>1, <1>3, <2>1, <2>2
<1> QED BY <1>2, <1>3

\* What an initialization may do, seen from its stage.
InitMove(i) ==
    \/ pc[i] \in {"starting", "listing"} /\ pc'[i] \in {"locked", "lock", "done"}
    \/ pc[i] = "locked" /\ pc'[i] \in {"preparing", "done"}
    \/ pc[i] = "preparing" /\ pc'[i] \in {"creating", "cleanup", "renaming", "undo", "done"}
    \/ pc[i] = "creating" /\ pc'[i] \in {"cleanup", "renaming", "undo", "done"}
    \/ pc[i] \in {"cleanup", "undo", "renaming"} /\ pc'[i] = "done"

LEMMA FinishMoves ==
  ASSUME LockInv, NEW i \in Inits, NEW w, Finish(i, w)
  PROVE  pc'[i] = "done" /\ OthersMove(i)
BY GrantedHolds, ReleaseMoves DEF Finish, OthersMove

LEMMA AwaitMoves ==
  ASSUME LockInv, NEW i \in Inits, NEW stage, Await(i, stage)
  PROVE  pc'[i] = stage /\ OthersMove(i)
BY GrantedHolds, MovesAlone DEF Await, OthersMove

LEMMA BeginMoves ==
  ASSUME LockInv, NEW i \in Inits, NEW w, Begin(i, w)
  PROVE  /\ pc'[i] \in {"locked", "lock"}
         /\ \A x \in Calls \ {i} : pc'[x] = pc[x]
BY GrantedHolds, AcquireMoves DEF Begin

LEMMA CatchMoves ==
  ASSUME LockInv, NEW i \in Inits, NEW w, Catch(i, w)
  PROVE  pc'[i] \in {"undo", "done"} /\ OthersMove(i)
BY FinishMoves, AwaitMoves DEF Catch

LEMMA InitMoves ==
  ASSUME LockInv, NEW i \in Inits, InitStep(i) \/ StartingFails(i)
  PROVE  InitMove(i) /\ OthersMove(i)
<1>1. ASSUME NEW taken \in BOOLEAN, Listed(i, taken) PROVE InitMove(i) /\ OthersMove(i)
  BY <1>1, BeginMoves DEF Listed, InitMove, OthersMove
<1>2. CASE Starting(i)
  BY <1>2, BeginMoves DEF Starting, InitMove, OthersMove
<1>3. CASE StartingFails(i)
  BY <1>3, GrantedHolds, MovesAlone DEF StartingFails, InitMove, OthersMove
<1>4. CASE InitLocked(i)
  BY <1>4, FinishMoves, AwaitMoves DEF InitLocked, InitMove
<1>5. CASE InitPrepared(i)
  BY <1>5, FinishMoves, AwaitMoves, CatchMoves DEF InitPrepared, InitMove, AfterMade
<1>6. CASE InitCreated(i)
  BY <1>6, AwaitMoves, CatchMoves DEF InitCreated, InitMove, AfterMade
<1>7. CASE InitCleanedUp(i) \/ InitUndone(i) \/ InitRenamed(i)
  BY <1>7, FinishMoves DEF InitCleanedUp, InitUndone, InitRenamed, InitMove
<1> QED BY <1>1, <1>2, <1>3, <1>4, <1>5, <1>6, <1>7 DEF InitStep

DeleteMove(d) ==
    \/ pc[d] = "waiting" /\ pc'[d] \in {"teardown", "killing"}
    \/ pc[d] = "teardown" /\ pc'[d] \in {"removing", "lock", "done"}
    \/ pc[d] = "killing" /\ pc'[d] \in {"removing", "lock", "done"}
    \/ pc[d] = "removing" /\ pc'[d] \in {"branch", "done"}
    \/ pc[d] = "branch" /\ pc'[d] = "done"

LEMMA TearDownMoves ==
  ASSUME LockInv, NEW d \in Deletes, NEW w, TearDown(d, w)
  PROVE  pc'[d] \in {"teardown", "killing"} /\ \A x \in Calls \ {d} : pc'[x] = pc[x]
<1>1. PICK stage \in {"teardown", "killing"} : pc' = [pc EXCEPT ![d] = stage]
  BY DEF TearDown
<1> QED BY <1>1, GrantedHolds, MovesAlone

LEMMA DeleteMoves ==
  ASSUME LockInv, NEW d \in Deletes, DeleteStep(d)
  PROVE  DeleteMove(d) /\ OthersMove(d)
<1> USE GrantedHolds DEF DeleteMove, OthersMove
<1>1. CASE InitAwaited(d) \/ WaitTimeout(d)
  BY <1>1, TearDownMoves DEF InitAwaited, WaitTimeout, Waited
<1>2. CASE TornDown(d)
  BY <1>2, AcquireMoves DEF TornDown
<1>3. CASE TeardownFails(d)
  BY <1>3, MovesAlone DEF TeardownFails
<1>4. ASSUME NEW branchToo \in BOOLEAN, Removed(d, branchToo) PROVE DeleteMove(d) /\ OthersMove(d)
  BY <1>4, ReleaseMoves DEF Removed
<1>5. CASE RemovalFails(d) \/ RemovalThrows(d)
  BY <1>5, ReleaseMoves DEF RemovalFails, RemovalThrows
<1>6. CASE BranchDeleted(d)
  BY <1>6, MovesAlone DEF BranchDeleted
<1>7. CASE NothingToRemove(d)
  BY <1>7, MovesAlone DEF NothingToRemove
<1> QED BY <1>1, <1>2, <1>3, <1>4, <1>5, <1>6, <1>7 DEF DeleteStep

-----------------------------------------------------------------------------
(* Types, and what is known of the calls that have been made.               *)

Jobs == [step : Steps, created : BOOLEAN] \cup {NoJob}

DataOK ==
    /\ row \in [Workspaces -> {"none", "live", "deleting", "gone"}]
    /\ path \in [Workspaces -> Paths] /\ disk \subseteq Workspaces \X Paths
    /\ job \in [Workspaces -> Jobs]
    /\ cancellations \subseteq Workspaces
    /\ done \in [Workspaces -> Inits \cup {None}]
    /\ resolved \subseteq Inits
    /\ ws \in [Calls -> Workspaces \cup {None}]
    /\ kind \in [Calls -> Kinds]
    /\ at \in [Calls -> Paths \cup {None}]
    /\ awaited \in [Calls -> Inits \cup {None}]
    /\ restarts \in 0..MaxRestarts
    /\ {deleted, overtaken, moved} \subseteq SUBSET Workspaces
    /\ lost \subseteq Workspaces \X Paths

InitStages == InitHolds \cup {"idle", "starting", "listing", "lock", "done"}
DeleteStages == {"idle", "waiting", "teardown", "killing", "lock", "removing", "branch", "done"}

\* A call that has been made knows its workspace, which has or had a row, and an
\* initialization its path until it ends.
CallsKnown ==
    /\ \A c \in Calls : pc[c] # "idle" => ws[c] \in Workspaces /\ row[ws[c]] # "none"
    /\ \A i \in Inits : Active(i) => at[i] \in Paths
    /\ \A i \in Inits : pc[i] \in InitStages
    /\ \A d \in Deletes : pc[d] \in DeleteStages
    /\ \A w \in Workspaces : row[w] = "none" => job[w] = NoJob

Known == LockInv /\ DataOK /\ CallsKnown

LEMMA JobsChange ==
  ASSUME DataOK, NEW w \in Workspaces
  PROVE  /\ \A s \in Steps : AtStep(w, s) \in [Workspaces -> Jobs]
         /\ Marked(w) \in [Workspaces -> Jobs]
         /\ [job EXCEPT ![w] = [step |-> "pending", created |-> FALSE]] \in [Workspaces -> Jobs]
         /\ [job EXCEPT ![w] = NoJob] \in [Workspaces -> Jobs]
<1>1. job \in [Workspaces -> Jobs]
  BY DEF DataOK
<1>2. \A s \in Steps : job[w] # NoJob => [job[w] EXCEPT !.step = s] \in Jobs
  BY <1>1 DEF Jobs
<1>3. job[w] # NoJob => [job[w] EXCEPT !.created = TRUE] \in Jobs
  BY <1>1 DEF Jobs
<1>4. [step |-> "pending", created |-> FALSE] \in Jobs /\ NoJob \in Jobs
  BY DEF Jobs, Steps
<1>5. \A s \in Steps : AtStep(w, s) \in [Workspaces -> Jobs]
  BY <1>1, <1>2 DEF AtStep
<1>6. Marked(w) \in [Workspaces -> Jobs]
  BY <1>1, <1>3 DEF Marked
<1> QED BY <1>1, <1>4, <1>5, <1>6

LEMMA BeginData ==
  ASSUME DataOK, NEW i \in Inits, NEW w \in Workspaces, Begin(i, w),
         path' \in [Workspaces -> Paths], at' \in [Calls -> Paths \cup {None}],
         moved' \subseteq Workspaces, ws' \in [Calls -> Workspaces \cup {None}]
  PROVE  DataOK'
<1>1. job' \in [Workspaces -> Jobs]
  BY JobsChange DEF Begin, StartJob
<1>2. /\ cancellations' \subseteq Workspaces /\ done' \in [Workspaces -> Inits \cup {None}]
      /\ resolved' = resolved /\ overtaken' \subseteq Workspaces
      /\ UNCHANGED <<row, disk, kind, awaited, restarts, deleted, lost>>
  BY DEF Begin, StartJob, DataOK
<1> QED BY <1>1, <1>2 DEF DataOK

\* What the steps of an initialization that has the lock leave alone.
LEMMA FinishData ==
  ASSUME DataOK, NEW i \in Inits, NEW w \in Workspaces, Finish(i, w)
  PROVE  /\ done' \in [Workspaces -> Inits \cup {None}] /\ resolved' \subseteq Inits
         /\ at' \in [Calls -> Paths \cup {None}]
         /\ \A x \in Calls \ {i} : at'[x] = at[x]
BY GrantedHolds DEF Finish, Forget, DataOK

LEMMA InitHeldData ==
  ASSUME Known, NEW i \in Inits, ws[i] \in Workspaces,
         InitLocked(i) \/ InitPrepared(i) \/ InitCreated(i) \/ InitCleanedUp(i)
            \/ InitUndone(i) \/ InitRenamed(i)
  PROVE  /\ DataOK' /\ UNCHANGED <<row, ws>>
         /\ \A x \in Calls \ {i} : at'[x] = at[x]
         /\ pc'[i] = "done" \/ at'[i] = at[i]
<1> USE DEF database, history
<1>1. /\ UNCHANGED <<database, ws, cancellations, awaited, restarts, history>>
      /\ kind' \in [Calls -> Kinds]
      /\ job' \in {job, AtStep(ws[i], "failed"), AtStep(ws[i], "creating"),
                   AtStep(ws[i], "ready"), Marked(ws[i])}
      /\ Finish(i, ws[i]) \/ UNCHANGED <<done, resolved, at>>
  BY DEF InitLocked, InitPrepared, InitCreated, InitCleanedUp, InitUndone, InitRenamed,
         Catch, Await, Known, DataOK, Kinds
<1>2. disk' \in {disk, disk \cup {Tree(i)}, disk \ {Tree(i)}}
  BY DEF InitLocked, InitPrepared, InitCreated, InitCleanedUp, InitUndone, InitRenamed
<1>3. at[i] \in Paths
  <2>1. Active(i)
    BY DEF InitLocked, InitPrepared, InitCreated, InitCleanedUp, InitUndone, InitRenamed, Active
  <2> QED BY <2>1 DEF Known, CallsKnown
<1>4. disk' \subseteq Workspaces \X Paths
  BY <1>2, <1>3 DEF Known, DataOK, Tree
<1>5. job' \in [Workspaces -> Jobs]
  BY <1>1, JobsChange DEF Known, DataOK, Steps
<1>6. /\ done' \in [Workspaces -> Inits \cup {None}] /\ resolved' \subseteq Inits
      /\ at' \in [Calls -> Paths \cup {None}]
      /\ \A x \in Calls \ {i} : at'[x] = at[x]
  BY <1>1, FinishData DEF Known, DataOK
<1>7. pc'[i] = "done" \/ at'[i] = at[i]
  BY <1>1, FinishMoves DEF Known
<1> QED BY <1>1, <1>4, <1>5, <1>6, <1>7 DEF Known, DataOK

LEMMA InitStartData ==
  ASSUME Known, NEW i \in Inits,
         \/ \E w \in Workspaces : \/ \E k \in Kinds : Create(i, w, k)
                                  \/ \E dedupe \in BOOLEAN : Retry(i, w, dedupe)
         \/ \E taken \in BOOLEAN : Listed(i, taken)
         \/ Starting(i) \/ StartingFails(i)
  PROVE  /\ DataOK'
         /\ ws'[i] \in Workspaces /\ row'[ws'[i]] # "none"
         /\ pc'[i] = "done" \/ at'[i] \in Paths
         /\ \A x \in Calls \ {i} : ws'[x] = ws[x] /\ at'[x] = at[x] /\ pc'[x] = pc[x]
         /\ \A w \in Workspaces : row[w] # "none" => row'[w] # "none"
         /\ \A w \in Workspaces : row'[w] = "none" => job'[w] = job[w]
<1> USE GrantedHolds DEF database, history, manager
<1>0. i \in Calls /\ DataOK /\ LockInv /\ row \in [Workspaces -> {"none", "live", "deleting", "gone"}]
      /\ ws \in [Calls -> Workspaces \cup {None}] /\ at \in [Calls -> Paths \cup {None}]
      /\ path \in [Workspaces -> Paths] /\ job \in [Workspaces -> Jobs]
      /\ \A p \in Paths : p + 1 \in Paths
  BY DEF Known, DataOK, Paths
<1>1. ASSUME NEW w \in Workspaces, row[w] # "none", Begin(i, w)
      PROVE  /\ \A x \in Calls \ {i} : pc'[x] = pc[x]
             /\ row' = row /\ \A v \in Workspaces : row'[v] = "none" => job'[v] = job[v]
  BY <1>0, <1>1, BeginMoves DEF Begin, StartJob
<1>2. ASSUME NEW w \in Workspaces, NEW k \in Kinds, Create(i, w, k)
      PROVE  /\ DataOK'
             /\ ws'[i] = w /\ row'[w] # "none" /\ at'[i] \in Paths
             /\ \A x \in Calls \ {i} : ws'[x] = ws[x] /\ at'[x] = at[x] /\ pc'[x] = pc[x]
             /\ \A v \in Workspaces : row[v] # "none" => row'[v] # "none"
             /\ job' = job
  <2>1. DataOK'
    BY <1>0, <1>2 DEF Create, DataOK
  <2>2. /\ ws' = [ws EXCEPT ![i] = w] /\ at' = [at EXCEPT ![i] = path[w]]
        /\ row' = [row EXCEPT ![w] = "live"] /\ pc' = [pc EXCEPT ![i] = "starting"] /\ job' = job
    BY <1>2 DEF Create
  <2> QED BY <1>0, <2>1, <2>2, MovesAlone
<1>3. ASSUME NEW w \in Workspaces, NEW dedupe \in BOOLEAN, Retry(i, w, dedupe)
      PROVE  /\ DataOK'
             /\ ws'[i] = w /\ row'[w] # "none" /\ at'[i] \in Paths
             /\ \A x \in Calls \ {i} : ws'[x] = ws[x] /\ at'[x] = at[x] /\ pc'[x] = pc[x]
             /\ row' = row
             /\ \A v \in Workspaces : row'[v] = "none" => job'[v] = job[v]
  <2>1. /\ ws' = [ws EXCEPT ![i] = w] /\ at' = [at EXCEPT ![i] = path[w]] /\ row[w] = "live"
    BY <1>3 DEF Retry
  <2>2. CASE Begin(i, w) /\ UNCHANGED <<path, moved>>
    <3>1. DataOK'
      BY <1>0, <2>1, <2>2, BeginData DEF DataOK
    <3> QED BY <1>0, <1>1, <2>1, <2>2, <3>1
  <2>3. CASE /\ pc' = [pc EXCEPT ![i] = "listing"]
             /\ UNCHANGED <<database, disk, manager, locking, kind, awaited, restarts, history>>
    <3>1. DataOK'
      BY <1>0, <2>1, <2>3 DEF DataOK
    <3> QED BY <1>0, <2>1, <2>3, <3>1, MovesAlone
  <2> QED BY <1>3, <2>2, <2>3 DEF Retry
<1>4. ASSUME NEW taken \in BOOLEAN, Listed(i, taken)
      PROVE  /\ DataOK'
             /\ ws' = ws /\ ws[i] \in Workspaces /\ row[ws[i]] # "none" /\ at'[i] \in Paths
             /\ \A x \in Calls \ {i} : at'[x] = at[x] /\ pc'[x] = pc[x]
             /\ row' = row
             /\ \A v \in Workspaces : row'[v] = "none" => job'[v] = job[v]
  <2>1. pc[i] = "listing" /\ Begin(i, ws[i]) /\ ws' = ws
    BY <1>4 DEF Listed
  <2>2. ws[i] \in Workspaces /\ row[ws[i]] # "none" /\ at[i] \in Paths
    BY <1>0, <2>1 DEF Known, CallsKnown, Active
  <2>3. CASE taken /\ at' = [at EXCEPT ![i] = @ + 1]
    <3>1. at' \in [Calls -> Paths \cup {None}] /\ at'[i] \in Paths
          /\ \A x \in Calls \ {i} : at'[x] = at[x]
      BY <1>0, <2>2, <2>3
    <3>2. path' \in [Workspaces -> Paths] /\ moved' \subseteq Workspaces
      BY <1>0, <1>4, <2>2, <3>1 DEF Listed, DataOK
    <3> QED BY <1>0, <1>1, <2>1, <2>2, <3>1, <3>2, BeginData
  <2>4. CASE UNCHANGED <<path, at, moved>>
    BY <1>0, <1>1, <2>1, <2>2, <2>4, BeginData DEF DataOK
  <2> QED BY <1>4, <2>3, <2>4 DEF Listed
<1>5. ASSUME Starting(i)
      PROVE  /\ DataOK'
             /\ ws' = ws /\ ws[i] \in Workspaces /\ row[ws[i]] # "none" /\ at'[i] \in Paths
             /\ \A x \in Calls \ {i} : at'[x] = at[x] /\ pc'[x] = pc[x]
             /\ row' = row
             /\ \A v \in Workspaces : row'[v] = "none" => job'[v] = job[v]
  <2>1. pc[i] = "starting" /\ Begin(i, ws[i]) /\ UNCHANGED <<path, ws, at, moved>>
    BY <1>5 DEF Starting
  <2>2. ws[i] \in Workspaces /\ row[ws[i]] # "none" /\ at[i] \in Paths
    BY <1>0, <2>1 DEF Known, CallsKnown, Active
  <2> QED BY <1>0, <1>1, <2>1, <2>2, BeginData DEF DataOK
<1>6. ASSUME StartingFails(i)
      PROVE  /\ DataOK'
             /\ ws' = ws /\ ws[i] \in Workspaces /\ row[ws[i]] # "none" /\ pc'[i] = "done"
             /\ \A x \in Calls \ {i} : at'[x] = at[x] /\ pc'[x] = pc[x]
             /\ row' = row /\ job' = job
  <2>1. /\ pc[i] \in {"starting", "listing"} /\ pc' = [pc EXCEPT ![i] = "done"]
        /\ at' = [at EXCEPT ![i] = None]
        /\ UNCHANGED <<database, disk, manager, locking, ws, kind, awaited, restarts, history>>
    BY <1>6 DEF StartingFails, Forget
  <2>2. ws[i] \in Workspaces /\ row[ws[i]] # "none"
    BY <1>0, <2>1 DEF Known, CallsKnown
  <2>3. DataOK'
    BY <1>0, <2>1 DEF DataOK
  <2> QED BY <1>0, <2>1, <2>2, <2>3, MovesAlone
<1>7. CASE \E w \in Workspaces : \/ \E k \in Kinds : Create(i, w, k)
                                 \/ \E dedupe \in BOOLEAN : Retry(i, w, dedupe)
  BY <1>2, <1>3, <1>7
<1>8. CASE \/ \E taken \in BOOLEAN : Listed(i, taken)
           \/ Starting(i) \/ StartingFails(i)
  BY <1>4, <1>5, <1>6, <1>8
<1> QED BY <1>7, <1>8

LEMMA TearDownData ==
  ASSUME DataOK, NEW d \in Deletes, NEW w \in Workspaces, TearDown(d, w)
  PROVE  at' \in [Calls -> Paths \cup {None}] /\ \A x \in Calls \ {d} : at'[x] = at[x]
BY GrantedHolds DEF TearDown, DataOK

LEMMA GoneData ==
  ASSUME DataOK, NEW w \in Workspaces, Gone(w), UNCHANGED <<overtaken, moved>>
  PROVE  /\ row' \in [Workspaces -> {"none", "live", "deleting", "gone"}]
         /\ \A v \in Workspaces : row'[v] = IF v = w THEN "gone" ELSE row[v]
         /\ job' \in [Workspaces -> Jobs]
         /\ \A v \in Workspaces : job'[v] = IF v = w THEN NoJob ELSE job[v]
         /\ cancellations' \subseteq Workspaces /\ done' \in [Workspaces -> Inits \cup {None}]
         /\ resolved' = resolved /\ {deleted', overtaken', moved'} \subseteq SUBSET Workspaces
BY JobsChange DEF Gone, ClearJob, DataOK

LEMMA DeleteData ==
  ASSUME Known, NEW d \in Deletes, (\E w \in Workspaces : Delete(d, w)) \/ DeleteStep(d)
  PROVE  /\ DataOK'
         /\ ws'[d] \in Workspaces /\ row[ws'[d]] # "none"
         /\ \A x \in Calls \ {d} : ws'[x] = ws[x] /\ at'[x] = at[x]
         /\ \A w \in Workspaces : row[w] # "none" => row'[w] # "none"
         /\ \A w \in Workspaces : row'[w] = "none" => job'[w] \in {job[w], NoJob}
<1> USE GrantedHolds DEF database, history, manager
<1>0. d \in Calls /\ DataOK /\ LockInv /\ row \in [Workspaces -> {"none", "live", "deleting", "gone"}]
      /\ ws \in [Calls -> Workspaces \cup {None}] /\ at \in [Calls -> Paths \cup {None}]
      /\ path \in [Workspaces -> Paths] /\ job \in [Workspaces -> Jobs]
  BY DEF Known, DataOK
<1>1. ASSUME NEW w \in Workspaces, Delete(d, w)
      PROVE  /\ DataOK'
             /\ ws'[d] = w /\ row[w] # "none"
             /\ \A x \in Calls \ {d} : ws'[x] = ws[x] /\ at'[x] = at[x]
             /\ \A v \in Workspaces : row[v] # "none" => row'[v] # "none"
             /\ job' = job
  <2>1. /\ ws' = [ws EXCEPT ![d] = w] /\ row' = [row EXCEPT ![w] = "deleting"]
        /\ row[w] \in {"live", "deleting"}
        /\ TearDown(d, w) \/ UNCHANGED at
        /\ UNCHANGED <<path, disk, job, done, resolved, locking, kind, restarts, history>>
        /\ cancellations' \in {cancellations, cancellations \cup {w}}
        /\ awaited' \in {awaited, [awaited EXCEPT ![d] = done[w]]}
    BY <1>1 DEF Delete
  <2>2. at' \in [Calls -> Paths \cup {None}] /\ \A x \in Calls \ {d} : at'[x] = at[x]
    BY <1>0, <2>1, TearDownData
  <2>3. DataOK'
    BY <1>0, <2>1, <2>2 DEF DataOK
  <2> QED BY <1>0, <2>1, <2>2, <2>3
<1>2. ASSUME DeleteStep(d)
      PROVE  /\ DataOK'
             /\ ws' = ws /\ ws[d] \in Workspaces /\ row[ws[d]] # "none"
             /\ \A x \in Calls \ {d} : at'[x] = at[x]
             /\ \A v \in Workspaces : row[v] # "none" => row'[v] # "none"
             /\ \A v \in Workspaces : row'[v] = "none" => job'[v] \in {job[v], NoJob}
  <2>0. ws[d] \in Workspaces /\ row[ws[d]] # "none"
    BY <1>0, <1>2, DeleteMoves DEF DeleteMove, Known, CallsKnown
  <2>1. CASE InitAwaited(d) \/ WaitTimeout(d)
    <3>1. /\ awaited' = [awaited EXCEPT ![d] = None] /\ TearDown(d, ws[d])
          /\ UNCHANGED <<database, disk, manager, locking, ws, kind, restarts, history>>
      BY <2>1 DEF InitAwaited, WaitTimeout, Waited
    <3>2. at' \in [Calls -> Paths \cup {None}] /\ \A x \in Calls \ {d} : at'[x] = at[x]
      BY <1>0, <2>0, <3>1, TearDownData
    <3>3. DataOK'
      BY <1>0, <3>1, <3>2 DEF DataOK
    <3> QED BY <2>0, <3>1, <3>2, <3>3
  <2>2. CASE TornDown(d)
    BY <1>0, <2>0, <2>2 DEF TornDown, DataOK
  <2>3. CASE TeardownFails(d) \/ RemovalFails(d) \/ RemovalThrows(d)
    <3>1. /\ row' \in {row, Restored(ws[d])} /\ at' = [at EXCEPT ![d] = None]
          /\ disk' \subseteq disk /\ lost' \subseteq lost \cup disk
          /\ UNCHANGED <<path, manager, ws, kind, awaited, restarts, deleted, overtaken, moved>>
      BY <2>3 DEF TeardownFails, RemovalFails, RemovalThrows, Forget
    <3>2. /\ row' \in [Workspaces -> {"none", "live", "deleting", "gone"}]
          /\ \A v \in Workspaces : row[v] # "none" => row'[v] # "none"
      BY <1>0, <2>0, <3>1 DEF Restored
    <3>3. DataOK'
      BY <1>0, <3>1, <3>2 DEF DataOK
    <3> QED BY <1>0, <2>0, <3>1, <3>2, <3>3
  <2>4. CASE NothingToRemove(d) \/ BranchDeleted(d)
    <3>1. /\ Gone(ws[d]) /\ UNCHANGED <<overtaken, moved, lost>>
          /\ UNCHANGED <<path, disk, ws, kind, at, awaited, restarts>>
      BY <2>4 DEF NothingToRemove, BranchDeleted
    <3>2. DataOK'
      BY <1>0, <2>0, <3>1, GoneData DEF DataOK
    <3> QED BY <1>0, <2>0, <3>1, <3>2, GoneData
  <2>5. ASSUME NEW branchToo \in BOOLEAN, Removed(d, branchToo)
        PROVE  /\ DataOK' /\ ws' = ws
               /\ \A x \in Calls \ {d} : at'[x] = at[x]
               /\ \A v \in Workspaces : row[v] # "none" => row'[v] # "none"
               /\ \A v \in Workspaces : row'[v] = "none" => job'[v] \in {job[v], NoJob}
    <3>1. /\ disk' \subseteq disk /\ at' = [at EXCEPT ![d] = None]
          /\ UNCHANGED <<path, ws, kind, awaited, restarts, overtaken, moved, lost>>
          /\ UNCHANGED <<row, manager, deleted>> \/ Gone(ws[d])
      BY <2>5 DEF Removed, Forget
    <3>2. DataOK'
      BY <1>0, <2>0, <3>1, GoneData DEF DataOK
    <3> QED BY <1>0, <2>0, <3>1, <3>2, GoneData
  <2> QED BY <1>2, <2>0, <2>1, <2>2, <2>3, <2>4, <2>5 DEF DeleteStep
<1> QED BY <1>0, <1>1, <1>2

LEMMA RestartData ==
  ASSUME Known, Restart
  PROVE  DataOK' /\ UNCHANGED <<row, ws>> /\ (\A w \in Workspaces : job'[w] = NoJob)
         /\ \A c \in Calls : pc'[c] \in {"idle", "done"} /\ (pc'[c] = "idle" <=> pc[c] = "idle")
<1> USE DEF database, history
<1>1. /\ UNCHANGED <<database, ws, history>>
      /\ job' = [w \in Workspaces |-> NoJob] /\ done' = [w \in Workspaces |-> None]
      /\ cancellations' = {} /\ resolved' = {} /\ restarts' \in 0..MaxRestarts
      /\ at' = [c \in Calls |-> None] /\ kind' = [c \in Calls |-> "new"]
      /\ awaited' = [c \in Calls |-> None]
  BY BoundAssumption DEF Restart, Known, DataOK
<1>2. \A c \in Inits : pc[c] = "creating" => Tree(c) \in Workspaces \X Paths
  BY GrantedHolds DEF Known, CallsKnown, Active, Tree
<1>3. \A d \in Deletes : pc[d] # "creating"
  BY DEF Known, CallsKnown, DeleteStages
<1>4. \A c \in Calls : pc[c] = "creating" => Tree(c) \in Workspaces \X Paths
  BY <1>2, <1>3 DEF Calls
<1>5. disk' \subseteq disk \cup {Tree(c) : c \in {x \in Calls : pc[x] = "creating"}}
  BY DEF Restart
<1>6. disk' \subseteq Workspaces \X Paths
  BY <1>4, <1>5 DEF Known, DataOK
<1>7. \A c \in Calls : pc'[c] \in {"idle", "done"} /\ (pc'[c] = "idle" <=> pc[c] = "idle")
  BY DEF Restart, Active
<1>8. NoJob \in Jobs /\ "new" \in Kinds
  BY DEF Jobs, Kinds
<1> QED BY <1>1, <1>6, <1>7, <1>8 DEF Known, DataOK

LEMMA ExpiryData ==
  ASSUME Known, NEW w \in Workspaces, ReadyExpires(w)
  PROVE  DataOK' /\ UNCHANGED <<row, ws, pc, at>>
         /\ \A v \in Workspaces : job'[v] \in {job[v], NoJob}
<1>1. /\ UNCHANGED <<database, disk, cancellations, done, resolved, locking, call, awaited,
                     restarts, history>>
      /\ job' = [job EXCEPT ![w] = NoJob]
  BY DEF ReadyExpires
<1>2. job' \in [Workspaces -> Jobs] /\ \A v \in Workspaces : job'[v] \in {job[v], NoJob}
  BY <1>1, JobsChange DEF Known, DataOK
<1> QED BY <1>1, <1>2 DEF Known, DataOK, database, call, history

\* Everything that is known stays known.
LEMMA KnownStep == Known /\ [Next]_vars => Known'
<1> SUFFICES ASSUME Known, [Next]_vars PROVE DataOK' /\ CallsKnown'
  BY LockInvariant DEF Known
<1> USE GrantedHolds
<1>0. LockInv /\ LockInv'
  BY LockInvariant DEF Known
<1>1. ASSUME DataOK', NEW c \in Calls,
             ws'[c] \in Workspaces /\ row'[ws'[c]] # "none",
             \A x \in Calls \ {c} : ws'[x] = ws[x] /\ at'[x] = at[x],
             OthersMove(c),
             c \in Inits => pc'[c] \in InitStages /\ (pc'[c] = "done" \/ at'[c] \in Paths),
             c \in Deletes => pc'[c] \in DeleteStages,
             \A w \in Workspaces : row[w] # "none" => row'[w] # "none",
             \A w \in Workspaces : row'[w] = "none" => job'[w] \in {job[w], NoJob}
      PROVE  DataOK' /\ CallsKnown'
  <2>1. \A x \in Calls : pc'[x] # "idle" => ws'[x] \in Workspaces /\ row'[ws'[x]] # "none"
    BY <1>1 DEF Known, CallsKnown, OthersMove
  <2>2. \A i \in Inits : Active(i)' => at'[i] \in Paths
    BY <1>1 DEF Known, CallsKnown, OthersMove, Active
  <2>3. \A i \in Inits : pc'[i] \in InitStages
    BY <1>1 DEF Known, CallsKnown, OthersMove, InitStages, InitHolds
  <2>4. \A d \in Deletes : pc'[d] \in DeleteStages
    BY <1>1 DEF Known, CallsKnown, OthersMove, DeleteStages
  <2>5. \A w \in Workspaces : row'[w] = "none" => job'[w] = NoJob
    BY <1>1 DEF Known, CallsKnown
  <2> QED BY <1>1, <2>1, <2>2, <2>3, <2>4, <2>5 DEF CallsKnown
<1>2. ASSUME NEW i \in Inits,
             \/ \E w \in Workspaces : \/ \E k \in Kinds : Create(i, w, k)
                                      \/ \E dedupe \in BOOLEAN : Retry(i, w, dedupe)
             \/ \E taken \in BOOLEAN : Listed(i, taken)
             \/ Starting(i) \/ StartingFails(i)
      PROVE  DataOK' /\ CallsKnown'
  <2>1. pc'[i] \in InitStages
    <3>1. \A w \in Workspaces, k \in Kinds : Create(i, w, k) => pc'[i] = "starting"
      BY <1>0, MovesAlone DEF Create
    <3>2. \A w \in Workspaces, dedupe \in BOOLEAN :
             Retry(i, w, dedupe) => pc'[i] \in {"locked", "lock", "listing"}
      BY <1>0, MovesAlone, BeginMoves DEF Retry
    <3> QED BY <1>0, <1>2, <3>1, <3>2, InitMoves DEF InitStep, InitMove, InitStages, InitHolds
  <2> QED BY <1>1, <1>2, <2>1, InitStartData DEF OthersMove
<1>3. ASSUME NEW i \in Inits,
             InitLocked(i) \/ InitPrepared(i) \/ InitCreated(i) \/ InitCleanedUp(i)
                \/ InitUndone(i) \/ InitRenamed(i)
      PROVE  DataOK' /\ CallsKnown'
  <2>1. InitMove(i) /\ OthersMove(i)
    BY <1>0, <1>3, InitMoves DEF InitStep
  <2>2. Active(i) /\ pc'[i] \in InitStages
    BY <1>3, <2>1 DEF InitLocked, InitPrepared, InitCreated, InitCleanedUp, InitUndone,
                      InitRenamed, Active, InitMove, InitStages, InitHolds
  <2>3. ws[i] \in Workspaces /\ row[ws[i]] # "none" /\ at[i] \in Paths
    BY <2>2 DEF Known, CallsKnown, Active
  <2>4. \A w \in Workspaces : row[w] = "none" => job'[w] = job[w]
    <3>1. \A w \in Workspaces \ {ws[i]} : job'[w] = job[w]
      BY <1>3, <2>3 DEF InitLocked, InitPrepared, InitCreated, InitCleanedUp, InitUndone,
                        InitRenamed, Catch, AtStep, Marked, Known, DataOK
    <3> QED BY <2>3, <3>1
  <2>5. /\ DataOK' /\ row' = row /\ ws' = ws /\ i \in Calls /\ i \notin Deletes
        /\ \A x \in Calls \ {i} : at'[x] = at[x]
        /\ pc'[i] = "done" \/ at'[i] \in Paths
    BY <1>3, <2>3, InitHeldData
  <2> QED BY <1>1, <2>1, <2>2, <2>3, <2>4, <2>5
<1>4. ASSUME NEW d \in Deletes, (\E w \in Workspaces : Delete(d, w)) \/ DeleteStep(d)
      PROVE  DataOK' /\ CallsKnown'
  <2>1. pc'[d] \in DeleteStages /\ OthersMove(d)
    <3>1. ASSUME NEW w \in Workspaces, Delete(d, w)
          PROVE  pc'[d] \in {"waiting", "teardown", "killing"} /\ OthersMove(d)
      BY <1>0, <3>1, TearDownMoves, MovesAlone DEF Delete, OthersMove
    <3> QED BY <1>0, <1>4, <3>1, DeleteMoves DEF DeleteMove, DeleteStages
  <2>2. /\ DataOK' /\ ws'[d] \in Workspaces /\ row'[ws'[d]] # "none" /\ d \in Calls /\ d \notin Inits
        /\ \A x \in Calls \ {d} : ws'[x] = ws[x] /\ at'[x] = at[x]
        /\ \A w \in Workspaces : row[w] # "none" => row'[w] # "none"
        /\ \A w \in Workspaces : row'[w] = "none" => job'[w] \in {job[w], NoJob}
    BY <1>4, DeleteData
  <2> QED BY <1>1, <2>1, <2>2
<1>5. ASSUME NEW w \in Workspaces, ReadyExpires(w) PROVE DataOK' /\ CallsKnown'
  BY <1>5, ExpiryData DEF Known, CallsKnown, Active
<1>6. CASE Restart
  <2>1. /\ DataOK' /\ row' = row /\ ws' = ws /\ \A w \in Workspaces : job'[w] = NoJob
        /\ \A c \in Calls : pc'[c] \in {"idle", "done"} /\ (pc'[c] = "idle" <=> pc[c] = "idle")
    BY <1>6, RestartData
  <2>2. \A c \in Calls : pc'[c] # "idle" => ws'[c] \in Workspaces /\ row'[ws'[c]] # "none"
    <3> SUFFICES ASSUME NEW c \in Calls, pc'[c] # "idle"
                 PROVE  ws[c] \in Workspaces /\ row[ws[c]] # "none"
      BY <2>1
    <3>1. pc[c] # "idle"
      BY <1>6 DEF Restart, Active
    <3> QED BY <3>1 DEF Known, CallsKnown
  <2> QED BY <2>1, <2>2 DEF CallsKnown, Active, InitStages, DeleteStages
<1>7. CASE UNCHANGED vars
  BY <1>7 DEF vars, database, manager, history, call, Known, DataOK, CallsKnown, Active
<1> QED BY <1>2, <1>3, <1>4, <1>5, <1>6, <1>7 DEF Next, InitStep

LEMMA KnownInit == Init => Known
<1> SUFFICES ASSUME Init PROVE DataOK /\ CallsKnown
  BY InitLock DEF Known
<1>1. DataOK
  BY BoundAssumption DEF Init, DataOK, Jobs, Paths, Kinds
<1>2. CallsKnown
  BY GrantedHolds DEF Init, CallsKnown, Active, InitStages, DeleteStages
<1> QED BY <1>1, <1>2

LEMMA KnownType == Known => TypeOK
BY DEF Known, DataOK, Jobs, LockInv, LockTypes, Stages, Outside, TypeOK

-----------------------------------------------------------------------------
(* Progress does not hang.                                                  *)

\* An initialization that removes its worktree was canceled, or its job is over,
\* or another one has begun the workspace's job anew and waits behind it.
CleanupIsCanceled ==
    \A i \in Inits : pc[i] = "cleanup" =>
        \/ ws[i] \in cancellations \/ ~IsInitializing(ws[i])
        \/ \E j \in Inits : ws[j] = ws[i] /\ pc[j] = "lock"

BusyInv == BusyHasInit /\ CleanupIsCanceled

Unsettled == {"pending", "creating"}

LEMMA BusyKept ==
  ASSUME Known, LockInv', BusyInv, NEW c \in Calls, OthersMove(c), pc[c] # "lock",
         \A x \in Calls \ {c} : ws'[x] = ws[x],
         \A w \in Workspaces : job'[w].step \in Unsettled /\ job[w].step \notin Unsettled =>
            c \in Inits /\ ws'[c] = w /\ Running(c)',
         \A w \in cancellations \ cancellations' :
            job'[w].step \notin Unsettled \/ (c \in Inits /\ ws'[c] = w /\ Running(c)'),
         c \in Inits /\ Running(c) =>
            \/ Running(c)' /\ ws'[c] = ws[c]
            \/ job'[ws[c]].step \notin Unsettled \/ ws[c] \in cancellations'
            \/ \E x \in Inits \ {c} : ws[x] = ws[c] /\ pc[x] = "lock",
         c \in Inits /\ pc'[c] = "cleanup" => ws'[c] \in cancellations'
  PROVE  BusyInv'
<1> USE GrantedHolds DEF IsInitializing, Unsettled
<1>1. \A x \in Inits \ {c} : Running(x) => Running(x)' /\ ws'[x] = ws[x]
  BY DEF OthersMove, Running, InitHolds
<1>2. ASSUME NEW w \in Workspaces, job'[w].step \in Unsettled
      PROVE  w \in cancellations' \/ \E i \in Inits : ws'[i] = w /\ Running(i)'
  <2>1. CASE job[w].step \notin Unsettled
    BY <1>2, <2>1
  <2>2. CASE w \in cancellations
    BY <1>2, <2>2
  <2>3. ASSUME NEW i \in Inits, ws[i] = w, Running(i)
        PROVE  w \in cancellations' \/ \E j \in Inits : ws'[j] = w /\ Running(j)'
    <3>1. CASE i # c
      BY <1>1, <2>3, <3>1
    <3>2. CASE i = c
      <4>1. ASSUME NEW x \in Inits \ {c}, ws[x] = w, pc[x] = "lock"
            PROVE  ws'[x] = w /\ Running(x)'
        BY <1>1, <4>1 DEF Running
      <4> QED BY <1>2, <2>3, <3>2, <4>1
    <3> QED BY <3>1, <3>2
  <2> QED BY <2>1, <2>2, <2>3 DEF BusyInv, BusyHasInit
<1>3. ASSUME NEW i \in Inits, pc'[i] = "cleanup", i # c
      PROVE  \/ ws'[i] \in cancellations' \/ job'[ws'[i]].step \notin Unsettled
             \/ \E j \in Inits : ws'[j] = ws'[i] /\ pc'[j] = "lock"
  <2>0. PICK w : w = ws[i]
    OBVIOUS
  <2>1. pc[i] = "cleanup" /\ ws'[i] = w
    BY <1>3, <2>0 DEF OthersMove
  <2>2. w \in Workspaces
    BY <2>0, <2>1 DEF Known, CallsKnown
  <2>3. lock' = i
    BY <1>3 DEF LockInv, OneHolder, Holds, InitHolds
  <2>4. \A x \in Calls \ {i} : pc'[x] \notin Holds
    BY <2>3 DEF LockInv, OneHolder
  <2>5. c \in Inits /\ Running(c)' => pc'[c] = "lock"
    BY <1>3, <2>4 DEF Running, Holds
  <2>6. ASSUME NEW x \in Inits, ws[x] = w, pc[x] = "lock"
        PROVE  ws'[x] = w /\ pc'[x] = "lock"
    BY <2>1, <2>4, <2>6 DEF OthersMove, Holds, InitHolds
  <2>7. w \in cancellations \/ ~IsInitializing(w) \/ \E x \in Inits : ws[x] = w /\ pc[x] = "lock"
    BY <2>0, <2>1 DEF BusyInv, CleanupIsCanceled
  <2>8. w \in cancellations' \/ job'[w].step \notin Unsettled \/ \E j \in Inits : ws'[j] = w /\ pc'[j] = "lock"
    BY <2>2, <2>5, <2>6, <2>7
  <2> QED BY <2>1, <2>8
<1>4. BusyHasInit'
  BY <1>2 DEF BusyHasInit, Known, DataOK
<1>5. CleanupIsCanceled'
  BY <1>3 DEF CleanupIsCanceled
<1> QED BY <1>4, <1>5 DEF BusyInv

LEMMA JobFields ==
  ASSUME DataOK, NEW w \in Workspaces
  PROVE  /\ \A s \in Steps, v \in Workspaces :
               /\ AtStep(w, s)[v].step = (IF v = w /\ job[w] # NoJob THEN s ELSE job[v].step)
               /\ AtStep(w, s)[v].created = job[v].created
         /\ \A v \in Workspaces :
               /\ Marked(w)[v].step = job[v].step
               /\ Marked(w)[v].created = (job[v].created \/ (v = w /\ job[w] # NoJob))
         /\ \A v \in Workspaces : job[v] = NoJob <=> job[v].step \notin Steps
         /\ NoJob.step = "none" /\ ~NoJob.created
<1>1. job \in [Workspaces -> Jobs]
  BY DEF DataOK
<1>2. NoJob.step = "none" /\ ~NoJob.created /\ "none" \notin Steps
  BY DEF NoJob, Steps
<1>3. \A v \in Workspaces : job[v] # NoJob => job[v] \in [step : Steps, created : BOOLEAN]
  BY <1>1 DEF Jobs
<1>4. ASSUME NEW s \in Steps, NEW v \in Workspaces
      PROVE  /\ AtStep(w, s)[v].step = (IF v = w /\ job[w] # NoJob THEN s ELSE job[v].step)
             /\ AtStep(w, s)[v].created = job[v].created
  BY <1>1, <1>3 DEF AtStep
<1>5. ASSUME NEW v \in Workspaces
      PROVE  /\ Marked(w)[v].step = job[v].step
             /\ Marked(w)[v].created = (job[v].created \/ (v = w /\ job[w] # NoJob))
  <2>1. CASE v = w /\ job[w] # NoJob
    <3>1. Marked(w)[v] = [job[v] EXCEPT !.created = TRUE]
      BY <1>1, <2>1 DEF Marked
    <3> QED BY <1>3, <2>1, <3>1
  <2>2. CASE ~(v = w /\ job[w] # NoJob)
    <3>1. Marked(w)[v] = job[v]
      BY <1>1, <2>2 DEF Marked
    <3>2. job[v].created \in BOOLEAN
      <4>1. CASE job[v] = NoJob
        BY <4>1 DEF NoJob
      <4>2. CASE job[v] # NoJob
        BY <1>3, <4>2
      <4> QED BY <4>1, <4>2
    <3> QED BY <2>2, <3>1, <3>2
  <2> QED BY <2>1, <2>2
<1> QED BY <1>2, <1>3, <1>4, <1>5

\* A job that is begun, seen from every workspace.
LEMMA BeginJobs ==
  ASSUME DataOK, NEW i \in Inits, NEW w \in Workspaces, Begin(i, w)
  PROVE  /\ \A v \in Workspaces : job'[v] = IF v = w THEN [step |-> "pending", created |-> FALSE]
                                                    ELSE job[v]
         /\ cancellations' = cancellations \ {w}
         /\ overtaken \subseteq overtaken' /\ row' = row /\ disk' = disk /\ deleted' = deleted
         /\ lost' = lost /\ kind' = kind
         /\ (row[w] # "live" \/ Deleting(w)) => w \in overtaken'
BY DEF Begin, StartJob, DataOK

LEMMA BusyStarts ==
  ASSUME Known, LockInv', BusyInv, NEW i \in Inits,
         \/ \E w \in Workspaces : \/ \E k \in Kinds : Create(i, w, k)
                                  \/ \E dedupe \in BOOLEAN : Retry(i, w, dedupe)
         \/ \E taken \in BOOLEAN : Listed(i, taken)
         \/ Starting(i) \/ StartingFails(i)
  PROVE  BusyInv'
<1> USE GrantedHolds DEF Known
<1>1. /\ pc[i] \in {"idle", "starting", "listing"} /\ i \in Calls
      /\ \A x \in Calls \ {i} : ws'[x] = ws[x] /\ pc'[x] = pc[x]
      /\ ws'[i] \in Workspaces
  BY InitStartData DEF Create, Retry, Listed, Starting, StartingFails
<1>2. OthersMove(i) /\ ~Running(i) /\ pc[i] # "lock"
  BY <1>1 DEF OthersMove, Running, InitHolds
<1>3. CASE pc'[i] # "cleanup" /\ UNCHANGED manager
  BY <1>1, <1>2, <1>3, BusyKept DEF manager
<1>4. CASE Begin(i, ws'[i])
  <2>1. pc'[i] # "cleanup" /\ Running(i)'
    BY <1>4, BeginMoves DEF Running, InitHolds
  <2>2. /\ \A v \in Workspaces : v # ws'[i] => job'[v] = job[v]
        /\ cancellations' = cancellations \ {ws'[i]} /\ cancellations \subseteq Workspaces
    BY <1>1, <1>4, BeginJobs DEF DataOK
  <2> QED BY <1>1, <1>2, <2>1, <2>2, BusyKept
<1>5. Begin(i, ws'[i]) \/ (pc'[i] # "cleanup" /\ UNCHANGED manager)
  <2>1. ASSUME NEW w \in Workspaces, NEW k \in Kinds, Create(i, w, k)
        PROVE  pc'[i] # "cleanup" /\ UNCHANGED manager
    BY <1>1, <2>1, MovesAlone DEF Create
  <2>2. ASSUME NEW w \in Workspaces, NEW dedupe \in BOOLEAN, Retry(i, w, dedupe)
        PROVE  Begin(i, ws'[i]) \/ (pc'[i] # "cleanup" /\ UNCHANGED manager)
    <3>1. ws'[i] = w
      BY <1>1, <2>2 DEF Retry, DataOK
    <3> QED BY <1>1, <2>2, <3>1, MovesAlone DEF Retry
  <2>3. CASE StartingFails(i)
    BY <1>1, <2>3, MovesAlone DEF StartingFails
  <2>4. CASE Starting(i) \/ \E taken \in BOOLEAN : Listed(i, taken)
    BY <2>4 DEF Starting, Listed
  <2> QED BY <2>1, <2>2, <2>3, <2>4
<1> QED BY <1>3, <1>4, <1>5

LEMMA BusyHeld ==
  ASSUME Known, LockInv', BusyInv, NEW i \in Inits,
         InitLocked(i) \/ InitPrepared(i) \/ InitCreated(i) \/ InitCleanedUp(i)
            \/ InitUndone(i) \/ InitRenamed(i)
  PROVE  BusyInv'
<1> USE GrantedHolds DEF Known
<1> DEFINE w == ws[i]
<1>1. InitMove(i) /\ OthersMove(i)
  BY InitMoves DEF InitStep
<1>2. pc[i] \in InitHolds
  BY DEF InitLocked, InitPrepared, InitCreated, InitCleanedUp, InitUndone, InitRenamed, InitHolds
<1>3. w \in Workspaces /\ pc[i] # "lock" /\ i \in Calls
  BY <1>2 DEF CallsKnown, InitHolds
<1>4. ws' = ws /\ cancellations' = cancellations
  BY DEF InitLocked, InitPrepared, InitCreated, InitCleanedUp, InitUndone, InitRenamed
<1>5. ASSUME pc'[i] = "cleanup" => w \in cancellations,
             \A v \in Workspaces : job'[v].step \in Unsettled /\ job[v].step \notin Unsettled =>
                v = w /\ pc'[i] \in InitHolds,
             pc'[i] \notin InitHolds =>
                \/ job'[w].step \notin Unsettled \/ w \in cancellations
                \/ \E x \in Inits \ {i} : ws[x] = w /\ pc[x] = "lock"
      PROVE  BusyInv'
  <2>1. pc'[i] \in InitHolds => Running(i)'
    BY DEF Running
  <2> QED BY <1>1, <1>3, <1>4, <1>5, <2>1, BusyKept
<1>6. \A v \in Workspaces :
         /\ AtStep(w, "failed")[v].step \in Unsettled => job[v].step \in Unsettled /\ v # w
         /\ AtStep(w, "ready")[v].step \in Unsettled => job[v].step \in Unsettled /\ v # w
         /\ AtStep(w, "creating")[v].step \in Unsettled => job[v].step \in Unsettled \/ v = w
         /\ Marked(w)[v].step = job[v].step
  BY <1>3, JobFields DEF Steps, Unsettled
<1>7. ASSUME Catch(i, w)
      PROVE  \/ pc'[i] = "undo" /\ UNCHANGED job
             \/ pc'[i] = "done" /\ job' = AtStep(w, "failed")
  BY <1>7, FinishMoves, AwaitMoves DEF Catch
<1>8. AfterMade(w) = "cleanup" => w \in cancellations
  BY DEF AfterMade, IsCancellationRequested
<1>9. AfterMade(w) \in {"cleanup", "renaming"} /\ {"undo", "creating", "preparing", "cleanup", "renaming"} \subseteq InitHolds
  BY DEF AfterMade, InitHolds
<1> HIDE DEF w
<1>10. CASE InitLocked(i)
  BY <1>5, <1>9, <1>10, FinishMoves, AwaitMoves DEF InitLocked, IsCancellationRequested, w
<1>11. CASE InitPrepared(i)
  <2>1. \/ pc'[i] = "done" /\ w \in cancellations /\ UNCHANGED job
        \/ pc'[i] = "done" /\ job' = AtStep(w, "failed")
        \/ pc'[i] = "undo" /\ UNCHANGED job
        \/ pc'[i] = "creating" /\ job' = AtStep(w, "creating")
        \/ pc'[i] = AfterMade(w) /\ job' = Marked(w)
    BY <1>7, <1>11, FinishMoves, AwaitMoves DEF InitPrepared, IsCancellationRequested, w
  <2> QED BY <1>3, <1>5, <1>6, <1>8, <1>9, <2>1
<1>12. CASE InitCreated(i)
  <2>1. \/ pc'[i] = "done" /\ job' = AtStep(w, "failed")
        \/ pc'[i] = "undo" /\ UNCHANGED job
        \/ pc'[i] = AfterMade(w) /\ job' = Marked(w)
    BY <1>7, <1>12, AwaitMoves DEF InitCreated, w
  <2> QED BY <1>3, <1>5, <1>6, <1>8, <1>9, <2>1
<1>13. CASE InitCleanedUp(i)
  <2>1. pc[i] = "cleanup" /\ pc'[i] = "done" /\ job' = job
    BY <1>13, FinishMoves DEF InitCleanedUp
  <2>2. \/ w \in cancellations \/ job[w].step \notin Unsettled
        \/ \E x \in Inits : ws[x] = w /\ pc[x] = "lock"
    BY <2>1 DEF BusyInv, CleanupIsCanceled, IsInitializing, Unsettled, w
  <2> QED BY <1>5, <2>1, <2>2
<1>14. CASE InitUndone(i)
  BY <1>3, <1>5, <1>6, <1>14, FinishMoves DEF InitUndone, w
<1>15. CASE InitRenamed(i)
  BY <1>3, <1>5, <1>6, <1>15, FinishMoves DEF InitRenamed, IsCancellationRequested, w
<1> QED BY <1>10, <1>11, <1>12, <1>13, <1>14, <1>15

LEMMA BusyDeletes ==
  ASSUME Known, LockInv', BusyInv,
         NEW d \in Deletes, (\E w \in Workspaces : Delete(d, w)) \/ DeleteStep(d)
  PROVE  BusyInv'
<1> USE GrantedHolds DEF Known
<1>1. ASSUME NEW w \in Workspaces, Delete(d, w)
      PROVE  pc[d] = "idle" /\ OthersMove(d) /\ job' = job /\ cancellations \subseteq cancellations'
  BY <1>1, TearDownMoves, MovesAlone DEF Delete, OthersMove
<1>2. ASSUME DeleteStep(d)
      PROVE  /\ pc[d] # "lock" /\ OthersMove(d)
             /\ \/ UNCHANGED manager
                \/ Gone(ws[d]) /\ ws[d] \in Workspaces
  <2>1. DeleteMove(d) /\ OthersMove(d) /\ pc[d] \notin {"idle", "lock"}
    BY <1>2, DeleteMoves DEF DeleteMove
  <2>2. UNCHANGED manager \/ Gone(ws[d])
    BY <1>2 DEF DeleteStep, InitAwaited, WaitTimeout, Waited, TornDown, TeardownFails, Removed,
                RemovalFails, RemovalThrows, BranchDeleted, NothingToRemove, manager
  <2> QED BY <2>1, <2>2 DEF CallsKnown
<1>3. \A x \in Calls \ {d} : ws'[x] = ws[x]
  BY DeleteData
<1>4. CASE \E w \in Workspaces : Delete(d, w)
  BY <1>1, <1>3, <1>4, BusyKept
<1>5. ASSUME DeleteStep(d), Gone(ws[d]), ws[d] \in Workspaces
      PROVE  /\ \A v \in Workspaces : job'[v].step \in Unsettled => job'[v] = job[v]
             /\ \A v \in cancellations \ cancellations' : job'[v].step \notin Unsettled
  <2>1. job' = [job EXCEPT ![ws[d]] = NoJob] /\ cancellations' = cancellations \ {ws[d]}
    BY <1>5 DEF Gone, ClearJob
  <2>2. NoJob.step \notin Unsettled
    BY DEF NoJob, Unsettled
  <2> QED BY <1>5, <2>1, <2>2 DEF DataOK
<1>6. CASE DeleteStep(d)
  BY <1>2, <1>3, <1>5, <1>6, BusyKept DEF manager
<1> QED BY <1>4, <1>6

LEMMA BusyStep == Known /\ BusyInv /\ [Next]_vars => BusyInv'
<1> SUFFICES ASSUME Known, BusyInv, [Next]_vars PROVE BusyInv'
  OBVIOUS
<1> USE DEF IsInitializing
<1>0. LockInv'
  BY LockInvariant DEF Known
<1>1. ASSUME NEW i \in Inits,
             \/ \E w \in Workspaces : \/ \E k \in Kinds : Create(i, w, k)
                                      \/ \E dedupe \in BOOLEAN : Retry(i, w, dedupe)
             \/ InitStep(i) \/ StartingFails(i)
      PROVE  BusyInv'
  BY <1>0, <1>1, BusyStarts, BusyHeld DEF InitStep
<1>2. ASSUME NEW d \in Deletes, (\E w \in Workspaces : Delete(d, w)) \/ DeleteStep(d)
      PROVE  BusyInv'
  BY <1>0, <1>2, BusyDeletes
<1>3. NoJob.step \notin {"pending", "creating"}
  BY DEF NoJob
<1>4. ASSUME NEW w \in Workspaces, ReadyExpires(w) PROVE BusyInv'
  <2>1. UNCHANGED <<ws, pc, cancellations>> /\ \A v \in Workspaces : job'[v] \in {job[v], NoJob}
    BY <1>4, ExpiryData DEF ReadyExpires
  <2>2. \A i \in Inits : pc[i] = "cleanup" => ws[i] \in Workspaces
    BY GrantedHolds DEF Known, CallsKnown
  <2> QED BY <1>3, <2>1, <2>2 DEF BusyInv, BusyHasInit, CleanupIsCanceled, Running
<1>5. CASE Restart
  <2>1. ws' = ws /\ (\A w \in Workspaces : job'[w] = NoJob) /\ \A c \in Calls : pc'[c] \in {"idle", "done"}
    BY <1>5, RestartData
  <2> QED BY <1>3, <2>1, GrantedHolds DEF BusyInv, BusyHasInit, CleanupIsCanceled
<1>6. CASE UNCHANGED vars
  BY <1>6 DEF vars, manager, call, BusyInv, BusyHasInit, CleanupIsCanceled, Running
<1> QED BY <1>1, <1>2, <1>4, <1>5, <1>6 DEF Next

LEMMA BusyInit == Init => BusyInv
<1> SUFFICES ASSUME Init PROVE BusyInv
  OBVIOUS
<1>1. \A w \in Workspaces : ~IsInitializing(w)
  BY DEF Init, IsInitializing, NoJob
<1>2. \A i \in Inits : pc[i] = "idle"
  BY GrantedHolds DEF Init
<1> QED BY <1>1, <1>2 DEF BusyInv, BusyHasInit, CleanupIsCanceled

-----------------------------------------------------------------------------
(* A deletion leaves no worktree behind.  The lock is fair: an initialization *)
(* that began before a deletion did is ahead of it in the queue, so that none *)
(* is left that could make the worktree again when the deletion has removed   *)
(* it; and one that begins later is seen to have overtaken the deletion.      *)

DeletedIsGone == \A w \in Workspaces : w \in deleted <=> row[w] = "gone"

Precedes(i, d) == \A m, n \in DOMAIN queue : queue[m] = i /\ queue[n] = d => m < n

\* Initialization i comes ahead of deletion d: it has the lock first.
Ahead(i, d) ==
    /\ pc[d] = "lock" /\ pc[i] = "lock" => Precedes(i, d)
    /\ pc[d] = "removing" => pc[i] # "lock"
    /\ pc[d] = "branch" => ~Running(i)

InitsFirst ==
    \A d \in Deletes, i \in Inits : ws[d] = ws[i] /\ ws[d] \notin overtaken => Ahead(i, d)

DeletedIsQuiet ==
    \A i \in Inits : Running(i) /\ ws[i] \in deleted => ws[i] \in overtaken

\* A deletion works on the path of its workspace, which only a job that is begun
\* meanwhile changes, or has found that the rows are gone.
DeletesFindPath ==
    \A d \in Deletes : pc[d] \in {"teardown", "killing", "lock", "removing"} =>
       IF at[d] = None THEN pc[d] = "killing" /\ row[ws[d]] = "gone"
                       ELSE at[d] = path[ws[d]] \/ ws[d] \in overtaken

RemovedIsAway ==
    \A d \in Deletes : pc[d] = "branch" /\ HasTree(ws[d]) => ws[d] \in overtaken

DeletionInv ==
    /\ DeletedIsGone /\ InitsFirst /\ DeletedIsQuiet /\ DeletesFindPath /\ RemovedIsAway
    /\ DeletedLeavesNoWorktree

\* A call that gets the lock or waits for it, and one that does neither, is not
\* ahead of anybody by that.
LEMMA AloneAhead ==
  ASSUME LockInv, NEW c \in Calls, \A x \in Calls \ {c} : pc'[x] = pc[x],
         UNCHANGED queue \/ queue' = Append(queue, c),
         NEW i \in Inits \ {c}, NEW d \in Deletes \ {c}, Ahead(i, d)
  PROVE  Ahead(i, d)'
<1>1. pc'[i] = pc[i] /\ pc'[d] = pc[d]
  BY GrantedHolds
<1>2. Running(i)' <=> Running(i)
  BY <1>1 DEF Running
<1>3. ASSUME queue' = Append(queue, c), Precedes(i, d)
      PROVE  Precedes(i, d)'
  <2>1. /\ DOMAIN queue' = 1..(Len(queue) + 1) /\ DOMAIN queue = 1..Len(queue) /\ Len(queue) \in Nat
        /\ \A n \in DOMAIN queue' : queue'[n] = IF n = Len(queue) + 1 THEN c ELSE queue[n]
    BY <1>3 DEF LockInv, LockTypes
  <2> QED BY <1>3, <2>1 DEF Precedes
<1>4. Precedes(i, d) => Precedes(i, d)'
  BY <1>3 DEF Precedes
<1> QED BY <1>1, <1>2, <1>4 DEF Ahead

\* Whoever is ahead stays ahead when the lock goes on to the next in the queue.
LEMMA ReleaseAhead ==
  ASSUME LockInv, NEW c \in Calls, NEW stage, ReleaseLock(c, stage),
         NEW i \in Inits \ {c}, NEW d \in Deletes \ {c}, Ahead(i, d)
  PROVE  Ahead(i, d)'
<1>1. /\ pc'[i] = pc[i] \/ (pc[i] = "lock" /\ pc'[i] = "locked")
      /\ \/ pc'[d] = pc[d]
         \/ pc[d] = "lock" /\ pc'[d] = "removing" /\ queue # <<>> /\ d = queue[1]
  BY GrantedHolds, ReleaseMoves
<1>2. Running(i)' <=> Running(i)
  BY <1>1 DEF Running, InitHolds
<1>3. ASSUME pc[d] = "lock", pc'[d] = "removing", queue # <<>>, d = queue[1]
      PROVE  pc'[i] # "lock"
  <2>1. SUFFICES ASSUME pc[i] = "lock" PROVE FALSE
    BY <1>1
  <2>2. PICK m \in DOMAIN queue : queue[m] = i
    BY <2>1, GrantedHolds DEF LockInv, OneHolder
  <2>3. 1 \in DOMAIN queue /\ m \in Nat \ {0}
    BY <1>3, <2>2 DEF LockInv, LockTypes
  <2>4. m < 1
    BY <1>3, <2>1, <2>2, <2>3 DEF Ahead, Precedes
  <2> QED BY <2>3, <2>4
<1>4. ASSUME Precedes(i, d)
      PROVE  Precedes(i, d)'
  <2>1. CASE queue = <<>>
    BY <1>4, <2>1 DEF ReleaseLock, Precedes
  <2>2. CASE queue # <<>>
    <3>1. queue' = Tail(queue) /\ Len(queue) \in Nat /\ DOMAIN queue = 1..Len(queue)
      BY <2>2 DEF ReleaseLock, LockInv, LockTypes
    <3>2. \A n \in DOMAIN queue' : n \in Nat /\ n + 1 \in DOMAIN queue /\ queue'[n] = queue[n + 1]
      BY <2>2, <3>1 DEF LockInv, LockTypes
    <3> SUFFICES ASSUME NEW m \in DOMAIN queue', NEW n \in DOMAIN queue',
                        queue'[m] = i, queue'[n] = d
                 PROVE  m < n
      BY DEF Precedes
    <3>3. m + 1 < n + 1
      BY <1>4, <3>2 DEF Precedes
    <3> QED BY <3>2, <3>3
  <2> QED BY <2>1, <2>2
<1> QED BY <1>1, <1>2, <1>3, <1>4 DEF Ahead

LEMMA DeletionStarts ==
  ASSUME Known, Known', DeletionInv, NEW i \in Inits,
         \/ \E w \in Workspaces : \/ \E k \in Kinds : Create(i, w, k)
                                  \/ \E dedupe \in BOOLEAN : Retry(i, w, dedupe)
         \/ \E taken \in BOOLEAN : Listed(i, taken)
         \/ Starting(i) \/ StartingFails(i)
  PROVE  DeletionInv'
<1> USE GrantedHolds DEF Known
<1>1. /\ i \in Calls /\ \A x \in Calls \ {i} : ws'[x] = ws[x] /\ pc'[x] = pc[x] /\ at'[x] = at[x]
      /\ ws'[i] \in Workspaces
  BY InitStartData
<1>2. /\ deleted' = deleted /\ overtaken \subseteq overtaken'
      /\ UNCHANGED queue \/ queue' = Append(queue, i)
      /\ pc'[i] \in {"starting", "listing", "done"} \/ Begin(i, ws'[i])
  <2>1. ASSUME NEW w \in Workspaces, NEW k \in Kinds, Create(i, w, k)
        PROVE  deleted' = deleted /\ overtaken' = overtaken /\ queue' = queue /\ pc'[i] = "starting"
    BY <1>1, <2>1, MovesAlone DEF Create, history, locking
  <2>2. ASSUME NEW w \in Workspaces, Begin(i, w)
        PROVE  /\ deleted' = deleted /\ overtaken \subseteq overtaken'
               /\ UNCHANGED queue \/ queue' = Append(queue, i)
    BY <2>2, BeginJobs DEF Begin, AcquireLock
  <2>3. ASSUME NEW w \in Workspaces, NEW dedupe \in BOOLEAN, Retry(i, w, dedupe)
        PROVE  /\ deleted' = deleted /\ overtaken \subseteq overtaken'
               /\ UNCHANGED queue \/ queue' = Append(queue, i)
               /\ pc'[i] = "listing" \/ Begin(i, ws'[i])
    <3>1. ws'[i] = w
      BY <1>1, <2>3 DEF Retry, DataOK
    <3> QED BY <1>1, <2>2, <2>3, <3>1, MovesAlone DEF Retry, history, locking
  <2>4. CASE Starting(i) \/ \E taken \in BOOLEAN : Listed(i, taken)
    BY <1>1, <2>2, <2>4 DEF Starting, Listed
  <2>5. CASE StartingFails(i)
    BY <1>1, <2>5, MovesAlone DEF StartingFails, history, locking
  <2> QED BY <2>1, <2>3, <2>4, <2>5
<1>3. \/ \E w \in Workspaces : row[w] = "none" /\ row' = [row EXCEPT ![w] = "live"]
      \/ row' = row
  BY <1>1 DEF Create, Retry, Listed, Starting, StartingFails, Begin, database
<1>4. \A w \in Workspaces : row[w] # "none" => row'[w] = row[w] /\ (HasTree(w)' /\ path'[w] = path[w] => HasTree(w))
  <2>1. disk' = disk \/ \E w \in Workspaces : row[w] = "none" /\ disk' = disk \cup {<<w, path[w]>>}
    BY <1>1 DEF Create, Retry, Listed, Starting, StartingFails, Begin, database
  <2> QED BY <1>3, <2>1 DEF HasTree, DataOK
<1>5. \A w \in Workspaces : path'[w] = path[w] \/ (w = ws'[i] /\ Begin(i, w) /\ row[w] # "gone")
  BY <1>1 DEF Create, Retry, Listed, Starting, StartingFails, DataOK, database
<1>6. ASSUME Begin(i, ws'[i]),
             \/ row[ws'[i]] # "live"
             \/ \E d \in Deletes : Active(d) /\ ws[d] = ws'[i]
      PROVE  ws'[i] \in overtaken'
  <2>1. PICK w \in Workspaces : w = ws'[i]
    BY <1>1
  <2>2. row[w] # "live" \/ Deleting(w)
    BY <1>6, <2>1 DEF Deleting
  <2>3. Begin(i, w)
    BY <1>6, <2>1
  <2> QED BY <2>1, <2>2, <2>3, BeginJobs
<1>7. \A d \in Deletes : /\ d # i /\ ws'[d] = ws[d] /\ pc'[d] = pc[d] /\ at'[d] = at[d]
                         /\ pc[d] \in {"teardown", "killing", "lock", "removing", "branch"} =>
                               Active(d) /\ ws[d] \in Workspaces /\ row[ws[d]] # "none"
  BY <1>1, CallsAssumption DEF CallsKnown, Active
<1>8. DeletedIsGone'
  BY <1>2, <1>3, <1>4 DEF DeletionInv, DeletedIsGone, DataOK
<1>9. InitsFirst'
  <2> SUFFICES ASSUME NEW d \in Deletes, NEW x \in Inits, ws'[d] = ws'[x], ws'[d] \notin overtaken'
               PROVE  Ahead(x, d)'
    BY DEF InitsFirst
  <2>1. CASE x # i
    <3>1. Ahead(x, d)
      BY <1>1, <1>2, <1>7, <2>1 DEF DeletionInv, InitsFirst
    <3> QED BY <1>1, <1>2, <1>7, <2>1, <3>1, AloneAhead
  <2>2. CASE x = i /\ Begin(i, ws'[i])
    <3>1. ~Active(d)
      BY <1>6, <1>7, <2>2
    <3> QED BY <1>7, <3>1 DEF Ahead, Active
  <2>3. CASE x = i /\ pc'[i] \in {"starting", "listing", "done"}
    <3>1. pc'[x] # "lock" /\ ~Running(x)'
      BY <2>3 DEF Running, InitHolds
    <3> QED BY <3>1 DEF Ahead
  <2> QED BY <1>2, <2>1, <2>2, <2>3
<1>10. DeletedIsQuiet'
  <2> SUFFICES ASSUME NEW x \in Inits, Running(x)', ws'[x] \in deleted
               PROVE  ws'[x] \in overtaken'
    BY <1>2 DEF DeletedIsQuiet
  <2>1. CASE x # i
    <3>1. Running(x) /\ ws'[x] = ws[x]
      BY <1>1, <2>1 DEF Running
    <3> QED BY <1>2, <3>1 DEF DeletionInv, DeletedIsQuiet
  <2>2. CASE x = i
    <3>1. Begin(i, ws'[i])
      BY <1>2, <2>2 DEF Running, InitHolds
    <3>2. row[ws'[i]] = "gone"
      BY <1>1, <2>2 DEF DeletionInv, DeletedIsGone
    <3> QED BY <1>6, <2>2, <3>1, <3>2
  <2> QED BY <2>1, <2>2
<1>11. DeletesFindPath'
  <2> SUFFICES ASSUME NEW d \in Deletes, pc[d] \in {"teardown", "killing", "lock", "removing"}
               PROVE  IF at[d] = None THEN pc[d] = "killing" /\ row'[ws[d]] = "gone"
                                      ELSE at[d] = path'[ws[d]] \/ ws[d] \in overtaken'
    BY <1>7 DEF DeletesFindPath
  <2>1. IF at[d] = None THEN pc[d] = "killing" /\ row[ws[d]] = "gone"
                        ELSE at[d] = path[ws[d]] \/ ws[d] \in overtaken
    BY DEF DeletionInv, DeletesFindPath
  <2> QED BY <1>2, <1>4, <1>5, <1>6, <1>7, <2>1
<1>12. RemovedIsAway'
  <2> SUFFICES ASSUME NEW d \in Deletes, pc[d] = "branch", NEW w, w = ws[d], HasTree(w)'
               PROVE  w \in overtaken'
    BY <1>7 DEF RemovedIsAway, HasTree
  <2>1. w \in Workspaces /\ row[w] # "none" /\ Active(d)
    BY <1>7
  <2> QED BY <1>2, <1>4, <1>5, <1>6, <2>1 DEF DeletionInv, RemovedIsAway
<1>13. DeletedLeavesNoWorktree'
  <2> SUFFICES ASSUME NEW w \in deleted, HasTree(w)'
               PROVE  w \in overtaken'
    BY <1>2 DEF DeletedLeavesNoWorktree
  <2>1. w \in Workspaces /\ row[w] = "gone"
    BY DEF DeletionInv, DeletedIsGone, DataOK
  <2> QED BY <1>2, <1>4, <1>5, <2>1 DEF DeletionInv, DeletedLeavesNoWorktree
<1> QED BY <1>8, <1>9, <1>10, <1>11, <1>12, <1>13 DEF DeletionInv

\* An initialization that has the lock makes a worktree only if no deletion of its
\* workspace has been removing it.
LEMMA DeletionHeld ==
  ASSUME Known, Known', DeletionInv, NEW i \in Inits,
         InitLocked(i) \/ InitPrepared(i) \/ InitCreated(i) \/ InitCleanedUp(i)
            \/ InitUndone(i) \/ InitRenamed(i)
  PROVE  DeletionInv'
<1> USE GrantedHolds DEF Known
<1>1. InitMove(i) /\ OthersMove(i) /\ Running(i) /\ pc[i] # "lock" /\ pc'[i] # "lock"
  <2>1. pc[i] \in InitHolds /\ pc[i] # "lock"
    BY DEF InitLocked, InitPrepared, InitCreated, InitCleanedUp, InitUndone, InitRenamed, InitHolds
  <2>2. InitMove(i) /\ OthersMove(i)
    BY InitMoves DEF InitStep
  <2> QED BY <2>1, <2>2 DEF InitMove, InitHolds, Running
<1>2. ws[i] \in Workspaces /\ i \in Calls
  BY <1>1 DEF CallsKnown, Running, InitHolds
<1>3. /\ row' = row /\ path' = path /\ ws' = ws /\ deleted' = deleted /\ overtaken' = overtaken
      /\ \A x \in Calls \ {i} : at'[x] = at[x]
  <2>1. UNCHANGED <<database, history>>
    BY DEF InitLocked, InitPrepared, InitCreated, InitCleanedUp, InitUndone, InitRenamed
  <2> QED BY <1>2, <2>1, InitHeldData DEF database, history
<1>4. \A w \in Workspaces : HasTree(w)' => HasTree(w) \/ w = ws[i]
  <2>1. disk' \in {disk, disk \cup {Tree(i)}, disk \ {Tree(i)}}
    BY DEF InitLocked, InitPrepared, InitCreated, InitCleanedUp, InitUndone, InitRenamed
  <2> QED BY <1>3, <2>1 DEF HasTree, Tree
<1>5. \A x \in Inits : Running(x)' => Running(x)
  BY <1>1 DEF OthersMove, InitMove, Running, InitHolds
<1>6. \A d \in Deletes : pc'[d] = pc[d] \/ (pc[d] = "lock" /\ pc'[d] = "removing")
  BY <1>1 DEF OthersMove
<1>7. ASSUME NEW x \in Inits, NEW d \in Deletes, Ahead(x, d)
      PROVE  Ahead(x, d)'
  <2>1. CASE x = i
    <3>2. pc'[d] # "branch"
      BY <1>1, <1>6, <1>7, <2>1 DEF Ahead
    <3> QED BY <1>1, <2>1, <3>2 DEF Ahead
  <2>2. CASE x # i /\ \E stage : ReleaseLock(i, stage)
    BY <1>2, <1>7, <2>2, ReleaseAhead
  <2>3. CASE x # i /\ \E stage : pc' = [pc EXCEPT ![i] = stage] /\ UNCHANGED locking
    <3>1. pc'[x] = pc[x] /\ pc'[d] = pc[d] /\ queue' = queue
      BY <1>2, <2>3, MovesAlone DEF locking
    <3> QED BY <1>7, <3>1 DEF Ahead, Running, Precedes
  <2>4. \/ \E stage : ReleaseLock(i, stage)
        \/ \E stage : pc' = [pc EXCEPT ![i] = stage] /\ UNCHANGED locking
    <3>1. Finish(i, ws[i]) \/ \E stage : Await(i, stage)
      BY DEF InitLocked, InitPrepared, InitCreated, InitCleanedUp, InitUndone, InitRenamed, Catch
    <3> QED BY <3>1 DEF Finish, Await
  <2> QED BY <2>1, <2>2, <2>3, <2>4
<1>8. DeletedIsGone' /\ InitsFirst' /\ DeletedIsQuiet'
  <2>1. DeletedIsGone'
    BY <1>3 DEF DeletionInv, DeletedIsGone
  <2>2. InitsFirst'
    BY <1>3, <1>7 DEF DeletionInv, InitsFirst
  <2>3. DeletedIsQuiet'
    BY <1>3, <1>5 DEF DeletionInv, DeletedIsQuiet
  <2> QED BY <2>1, <2>2, <2>3
<1>9. DeletesFindPath'
  <2> SUFFICES ASSUME NEW d \in Deletes, pc'[d] \in {"teardown", "killing", "lock", "removing"}
               PROVE  IF at[d] = None THEN pc'[d] = "killing" /\ row[ws[d]] = "gone"
                                      ELSE at[d] = path[ws[d]] \/ ws[d] \in overtaken
    BY <1>3 DEF DeletesFindPath
  <2>1. pc[d] \in {"teardown", "killing", "lock", "removing"} /\ (pc[d] = "killing" => pc'[d] = "killing")
    BY <1>6
  <2> QED BY <2>1 DEF DeletionInv, DeletesFindPath
<1>10. RemovedIsAway'
  <2> SUFFICES ASSUME NEW d \in Deletes, pc'[d] = "branch", NEW w, w = ws[d], HasTree(w)'
               PROVE  w \in overtaken
    BY <1>3 DEF RemovedIsAway, HasTree
  <2>1. pc[d] = "branch" /\ w \in Workspaces
    BY <1>6 DEF CallsKnown
  <2>2. HasTree(w) \/ w = ws[i]
    BY <1>4, <2>1
  <2>3. CASE w = ws[i]
    BY <1>1, <2>1, <2>3 DEF DeletionInv, InitsFirst, Ahead
  <2> QED BY <2>1, <2>2, <2>3 DEF DeletionInv, RemovedIsAway
<1>11. DeletedLeavesNoWorktree'
  <2> SUFFICES ASSUME NEW w \in deleted, HasTree(w)'
               PROVE  w \in overtaken
    BY <1>3 DEF DeletedLeavesNoWorktree
  <2>1. HasTree(w) \/ w = ws[i]
    BY <1>4 DEF DataOK
  <2> QED BY <1>1, <2>1 DEF DeletionInv, DeletedLeavesNoWorktree, DeletedIsQuiet
<1> QED BY <1>8, <1>9, <1>10, <1>11 DEF DeletionInv

\* When a deletion has removed the worktree, it is gone and nobody is left to make
\* it again.
LEMMA RemovalIsThorough ==
  ASSUME Known, DeletionInv, NEW d \in Deletes, NEW branchToo, Removed(d, branchToo)
  PROVE  /\ <<ws[d], path[ws[d]]>> \in disk' => ws[d] \in overtaken
         /\ \A x \in Inits : ws[x] = ws[d] /\ Running(x) => ws[d] \in overtaken
<1> USE GrantedHolds DEF Known
<1>1. pc[d] = "removing" /\ ws[d] \in Workspaces
  BY DEF Removed, CallsKnown
<1>2. at[d] = path[ws[d]] \/ ws[d] \in overtaken
  BY <1>1 DEF DeletionInv, DeletesFindPath
<1>3. ASSUME <<ws[d], path[ws[d]]>> \in disk'
      PROVE  ws[d] \in overtaken
  <2>1. CASE Untracked(d)
    <3>1. disk' = disk
      BY <2>1 DEF Removed
    <3>2. CASE row[ws[d]] = "gone"
      BY <1>1, <1>3, <3>1, <3>2 DEF DeletionInv, DeletedIsGone, DeletedLeavesNoWorktree, HasTree
    <3> QED BY <1>2, <2>1, <3>2 DEF Untracked
  <2>2. CASE ~Untracked(d)
    BY <1>2, <1>3, <2>2 DEF Removed, Tree
  <2> QED BY <2>1, <2>2
<1>4. ASSUME NEW x \in Inits, ws[x] = ws[d], Running(x), ws[d] \notin overtaken
      PROVE  FALSE
  <2>1. pc[x] # "lock"
    BY <1>1, <1>4 DEF DeletionInv, InitsFirst, Ahead
  <2>2. lock = d
    BY <1>1 DEF LockInv, OneHolder, Holds
  <2>3. pc[x] \in Holds
    BY <1>4, <2>1 DEF Running, Holds
  <2> QED BY <2>2, <2>3 DEF LockInv, OneHolder
<1> QED BY <1>3, <1>4

\* What the steps of a deletion do to the other calls and to the rows.
LEMMA DeletionEffect ==
  ASSUME Known, NEW d \in Deletes, (\E w \in Workspaces : Delete(d, w)) \/ DeleteStep(d)
  PROVE  /\ path' = path /\ overtaken' = overtaken /\ disk' \subseteq disk
         /\ \A w \in Workspaces : row[w] = "gone" => row'[w] = "gone"
         /\ \/ /\ Gone(ws[d])
               /\ BranchDeleted(d) \/ NothingToRemove(d) \/ Removed(d, FALSE)
            \/ /\ deleted' = deleted
               /\ \A w \in Workspaces : row'[w] = "gone" => row[w] = "gone"
         /\ \/ AcquireLock(d, "removing")
            \/ \E stage : ReleaseLock(d, stage)
            \/ \E stage : pc' = [pc EXCEPT ![d] = stage] /\ UNCHANGED locking
<1> USE GrantedHolds DEF Known
<1>1. row \in [Workspaces -> {"none", "live", "deleting", "gone"}]
  BY DEF DataOK
<1>2. ASSUME NEW w \in Workspaces, Delete(d, w)
      PROVE  /\ UNCHANGED <<path, overtaken, disk, deleted>>
             /\ \A v \in Workspaces : row'[v] = "gone" <=> row[v] = "gone"
             /\ \E stage : pc' = [pc EXCEPT ![d] = stage] /\ UNCHANGED locking
  <2>1. /\ UNCHANGED <<path, overtaken, disk, deleted, locking>>
        /\ row' = [row EXCEPT ![w] = "deleting"] /\ row[w] \in {"live", "deleting"}
    BY <1>2 DEF Delete, history
  <2>2. \E stage : pc' = [pc EXCEPT ![d] = stage]
    BY <1>2 DEF Delete, TearDown
  <2> QED BY <1>1, <2>1, <2>2
<1>3. CASE InitAwaited(d) \/ WaitTimeout(d)
  <2>1. UNCHANGED <<row, path, overtaken, disk, deleted, locking>>
    BY <1>3 DEF InitAwaited, WaitTimeout, Waited, database, history
  <2>2. \E stage : pc' = [pc EXCEPT ![d] = stage]
    BY <1>3 DEF InitAwaited, WaitTimeout, Waited, TearDown
  <2> QED BY <2>1, <2>2
<1>4. CASE TornDown(d)
  BY <1>4 DEF TornDown, database, history
<1>5. CASE TeardownFails(d) \/ RemovalFails(d) \/ RemovalThrows(d)
  <2>1. /\ UNCHANGED <<path, overtaken, deleted>> /\ disk' \subseteq disk
        /\ row' \in {row, Restored(ws[d])}
    BY <1>5 DEF TeardownFails, RemovalFails, RemovalThrows, database, history
  <2>2. \A v \in Workspaces : row'[v] = "gone" <=> row[v] = "gone"
    BY <1>1, <2>1 DEF Restored
  <2>3. \/ \E stage : ReleaseLock(d, stage)
        \/ \E stage : pc' = [pc EXCEPT ![d] = stage] /\ UNCHANGED locking
    BY <1>5 DEF TeardownFails, RemovalFails, RemovalThrows
  <2> QED BY <2>1, <2>2, <2>3
<1>6. ASSUME Gone(ws[d])
      PROVE  \A w \in Workspaces : row[w] = "gone" => row'[w] = "gone"
  BY <1>1, <1>6 DEF Gone
<1>7. CASE NothingToRemove(d) \/ BranchDeleted(d)
  <2>1. /\ UNCHANGED <<path, overtaken, disk, locking>> /\ Gone(ws[d])
        /\ pc' = [pc EXCEPT ![d] = "done"]
    BY <1>7 DEF NothingToRemove, BranchDeleted
  <2> QED BY <1>6, <1>7, <2>1
<1>8. ASSUME NEW branchToo \in BOOLEAN, Removed(d, branchToo)
      PROVE  /\ UNCHANGED <<path, overtaken>> /\ disk' \subseteq disk
             /\ \/ Gone(ws[d]) /\ Removed(d, FALSE)
                \/ UNCHANGED <<row, deleted>>
             /\ \E stage : ReleaseLock(d, stage)
  <2>1. UNCHANGED <<path, overtaken>> /\ disk' \subseteq disk /\ \E stage : ReleaseLock(d, stage)
    BY <1>8 DEF Removed
  <2>2. CASE branchToo
    BY <1>8, <2>1, <2>2 DEF Removed
  <2>3. CASE ~branchToo
    BY <1>8, <2>1, <2>3 DEF Removed
  <2> QED BY <2>2, <2>3
<1>9. CASE \E w \in Workspaces : Delete(d, w)
  BY <1>2, <1>9
<1>10. CASE \E branchToo \in BOOLEAN : Removed(d, branchToo)
  BY <1>6, <1>8, <1>10
<1> QED BY <1>3, <1>4, <1>5, <1>7, <1>9, <1>10 DEF DeleteStep

LEMMA DeletionDeletes ==
  ASSUME Known, Known', DeletionInv,
         NEW d \in Deletes, (\E w \in Workspaces : Delete(d, w)) \/ DeleteStep(d)
  PROVE  DeletionInv'
<1> USE GrantedHolds DEF Known
<1>1. /\ path' = path /\ overtaken' = overtaken /\ disk' \subseteq disk
      /\ \A w \in Workspaces : row[w] = "gone" => row'[w] = "gone"
      /\ \A x \in Calls \ {d} : ws'[x] = ws[x] /\ at'[x] = at[x]
  BY DeletionEffect, DeleteData
<1>2. \/ pc[d] = "idle" /\ pc'[d] \in {"waiting", "teardown", "killing"}
      \/ DeleteStep(d) /\ DeleteMove(d) /\ ws' = ws
  <2>1. ASSUME NEW w \in Workspaces, Delete(d, w)
        PROVE  pc[d] = "idle" /\ pc'[d] \in {"waiting", "teardown", "killing"}
    BY <2>1, TearDownMoves, MovesAlone DEF Delete
  <2>2. CASE DeleteStep(d)
    BY <2>2, DeleteMoves DEF DeleteStep, InitAwaited, WaitTimeout, Waited, TornDown, TeardownFails,
          Removed, RemovalFails, RemovalThrows, BranchDeleted, NothingToRemove
  <2> QED BY <2>1, <2>2
<1>3. OthersMove(d)
  <2>1. ASSUME NEW w \in Workspaces, Delete(d, w)
        PROVE  OthersMove(d)
    BY <2>1, TearDownMoves, MovesAlone DEF Delete, OthersMove
  <2> QED BY <2>1, DeleteMoves
<1>4. \A x \in Inits : (Running(x)' => Running(x)) /\ ws'[x] = ws[x]
  BY <1>1, <1>3 DEF OthersMove, Running, InitHolds
<1>5. pc'[d] = "branch" => DeleteStep(d) /\ Removed(d, TRUE)
  <2>1. SUFFICES ASSUME pc'[d] = "branch" PROVE DeleteStep(d) /\ Removed(d, TRUE)
    OBVIOUS
  <2>2. DeleteStep(d) /\ pc[d] = "removing"
    BY <1>2, <2>1 DEF DeleteMove
  <2>3. ~RemovalFails(d) /\ ~RemovalThrows(d) /\ ~Removed(d, FALSE)
    BY <2>1, ReleaseMoves DEF RemovalFails, RemovalThrows, Removed
  <2>4. \E branchToo \in BOOLEAN : Removed(d, branchToo)
    BY <2>2, <2>3 DEF DeleteStep, InitAwaited, WaitTimeout, Waited, TornDown, TeardownFails,
                      BranchDeleted, NothingToRemove
  <2> QED BY <2>2, <2>3, <2>4
\* The workspaces whose deletion succeeds here
<1>6. ASSUME NEW w \in deleted' \ deleted
      PROVE  /\ HasTree(w)' => w \in overtaken
             /\ \A x \in Inits : ws[x] = w /\ Running(x) => w \in overtaken
  <2>1. Gone(ws[d]) /\ w = ws[d] /\ (BranchDeleted(d) \/ NothingToRemove(d) \/ Removed(d, FALSE))
    BY <1>6, DeletionEffect DEF Gone
  <2>2. CASE BranchDeleted(d)
    <3>1. pc[d] = "branch" /\ (HasTree(w)' => HasTree(w))
      BY <1>1, <2>2 DEF BranchDeleted, HasTree
    <3> QED BY <2>1, <3>1 DEF DeletionInv, RemovedIsAway, InitsFirst, Ahead
  <2>3. CASE NothingToRemove(d)
    <3>1. pc[d] = "killing" /\ at[d] = None
      BY <2>3 DEF NothingToRemove
    <3>2. row[w] = "gone" /\ w \in Workspaces
      BY <2>1, <3>1 DEF DeletionInv, DeletesFindPath, CallsKnown
    <3> QED BY <1>6, <3>2 DEF DeletionInv, DeletedIsGone
  <2>4. CASE Removed(d, FALSE)
    BY <1>1, <2>1, <2>4, RemovalIsThorough DEF HasTree
  <2> QED BY <2>1, <2>2, <2>3, <2>4
<1>7. DeletedIsGone'
  <2>1. CASE /\ deleted' = deleted
             /\ \A w \in Workspaces : row'[w] = "gone" => row[w] = "gone"
    BY <1>1, <2>1 DEF DeletionInv, DeletedIsGone
  <2>2. CASE Gone(ws[d])
    BY <2>2 DEF Gone, DeletionInv, DeletedIsGone, DataOK
  <2> QED BY <2>1, <2>2, DeletionEffect
<1>8. InitsFirst'
  <2> SUFFICES ASSUME NEW e \in Deletes, NEW x \in Inits, ws'[e] = ws'[x], ws'[e] \notin overtaken
               PROVE  Ahead(x, e)'
    BY <1>1 DEF InitsFirst
  <2>1. CASE e # d
    <3>1. Ahead(x, e) /\ x # d
      BY <1>1, <2>1 DEF DeletionInv, InitsFirst
    <3>2. CASE \E stage : ReleaseLock(d, stage)
      BY <2>1, <3>1, <3>2, ReleaseAhead
    <3>3. CASE AcquireLock(d, "removing")
      BY <2>1, <3>1, <3>3, AloneAhead, AcquireMoves DEF AcquireLock
    <3>4. CASE \E stage : pc' = [pc EXCEPT ![d] = stage] /\ UNCHANGED locking
      BY <2>1, <3>1, <3>4, AloneAhead, MovesAlone DEF locking
    <3> QED BY <3>2, <3>3, <3>4, DeletionEffect
  <2>2. CASE e = d /\ pc'[d] \in {"waiting", "teardown", "killing", "done"}
    BY <2>2 DEF Ahead
  <2>3. CASE e = d /\ pc'[d] = "branch"
    <3>1. Removed(d, TRUE) /\ ws' = ws
      BY <1>2, <1>5, <2>3
    <3>2. ~Running(x)
      BY <2>3, <3>1, RemovalIsThorough
    <3> QED BY <1>4, <2>3, <3>2 DEF Ahead
  <2>4. CASE e = d /\ pc'[d] \in {"removing", "lock"}
    <3>1. TornDown(d)
      BY <1>2, <2>4, MovesAlone, ReleaseMoves, TearDownMoves
         DEF DeleteMove, DeleteStep, TeardownFails, InitAwaited, WaitTimeout, Waited,
             Removed, RemovalFails, RemovalThrows, BranchDeleted, NothingToRemove
    <3>2. AcquireLock(d, "removing") /\ pc[d] # "lock"
      BY <3>1 DEF TornDown
    <3>3. CASE lock = None
      <4>1. pc'[d] = "removing" /\ pc'[x] = pc[x] /\ queue = <<>>
        BY <3>2, <3>3 DEF AcquireLock, LockInv, LockTypes, FreeIsUnwanted
      <4>2. pc[x] # "lock"
        BY <4>1 DEF LockInv, OneHolder
      <4> QED BY <2>4, <4>1, <4>2 DEF Ahead
    <3>4. CASE lock # None
      <4>1. pc'[d] = "lock" /\ queue' = Append(queue, d)
        BY <3>2, <3>4 DEF AcquireLock, LockInv, LockTypes
      <4>2. /\ DOMAIN queue' = 1..(Len(queue) + 1) /\ DOMAIN queue = 1..Len(queue)
            /\ Len(queue) \in Nat
            /\ \A n \in DOMAIN queue' : queue'[n] = IF n = Len(queue) + 1 THEN d ELSE queue[n]
        BY <4>1 DEF LockInv, LockTypes
      <4>3. \A n \in DOMAIN queue : queue[n] # d
        BY <3>2 DEF LockInv, OneHolder
      <4>4. Precedes(x, d)'
        BY <4>2, <4>3 DEF Precedes
      <4> QED BY <2>4, <4>1, <4>4 DEF Ahead
    <3> QED BY <3>3, <3>4
  <2> QED BY <1>2, <2>1, <2>2, <2>3, <2>4 DEF DeleteMove
<1>9. DeletedIsQuiet'
  <2> SUFFICES ASSUME NEW x \in Inits, Running(x), ws[x] \in deleted'
               PROVE  ws[x] \in overtaken
    BY <1>1, <1>4 DEF DeletedIsQuiet
  <2> QED BY <1>6 DEF DeletionInv, DeletedIsQuiet
<1>10. DeletesFindPath'
  <2> SUFFICES ASSUME NEW e \in Deletes, pc'[e] \in {"teardown", "killing", "lock", "removing"}
               PROVE  IF at'[e] = None THEN pc'[e] = "killing" /\ row'[ws'[e]] = "gone"
                                       ELSE at'[e] = path[ws'[e]] \/ ws'[e] \in overtaken
    BY <1>1 DEF DeletesFindPath
  <2>1. CASE e # d
    <3>1. /\ pc[e] \in {"teardown", "killing", "lock", "removing"}
          /\ pc[e] = "killing" => pc'[e] = "killing"
      BY <1>3, <2>1 DEF OthersMove
    <3>2. ws[e] \in Workspaces
      BY <3>1 DEF CallsKnown
    <3> QED BY <1>1, <2>1, <3>1, <3>2 DEF DeletionInv, DeletesFindPath
  <2>2. ASSUME e = d, NEW w \in Workspaces, TearDown(d, w), ws'[d] = w
        PROVE  IF at'[e] = None THEN pc'[e] = "killing" /\ row'[ws'[e]] = "gone"
                                ELSE at'[e] = path[ws'[e]] \/ ws'[e] \in overtaken
    <3>1. at'[d] = IF row'[w] = "gone" THEN None ELSE path[w]
      BY <2>2 DEF TearDown, DataOK
    <3>2. row'[w] = "gone" => pc'[d] = "killing"
      BY <2>2, MovesAlone DEF TearDown
    <3>3. path[w] # None
      BY PathsAssumption DEF DataOK
    <3> QED BY <1>1, <2>2, <3>1, <3>2, <3>3
  <2>3. CASE e = d /\ TornDown(d)
    BY <1>1, <2>3 DEF TornDown, DeletionInv, DeletesFindPath, database
  <2>4. CASE e = d /\ \E w \in Workspaces : Delete(d, w)
    <3>1. PICK w \in Workspaces : Delete(d, w)
      BY <2>4
    <3>2. ws'[d] = w
      BY <3>1 DEF Delete, DataOK
    <3>3. TearDown(d, w)
      BY <2>4, <3>1, MovesAlone DEF Delete
    <3> QED BY <2>2, <2>4, <3>2, <3>3
  <2>5. CASE e = d /\ (InitAwaited(d) \/ WaitTimeout(d))
    <3>1. TearDown(d, ws[d]) /\ ws' = ws /\ pc[d] = "waiting"
      BY <2>5 DEF InitAwaited, WaitTimeout, Waited
    <3>2. ws[d] \in Workspaces
      BY <3>1 DEF CallsKnown
    <3> QED BY <2>2, <2>5, <3>1, <3>2
  <2>6. CASE e = d /\ DeleteStep(d) /\ ~TornDown(d) /\ ~InitAwaited(d) /\ ~WaitTimeout(d)
    <3>1. pc'[d] \in {"branch", "done"}
      BY <2>6, MovesAlone, ReleaseMoves DEF DeleteStep, TeardownFails, Removed, RemovalFails,
                                             RemovalThrows, BranchDeleted, NothingToRemove
    <3> QED BY <2>6, <3>1
  <2> QED BY <2>1, <2>3, <2>4, <2>5, <2>6
<1>11. RemovedIsAway'
  <2> SUFFICES ASSUME NEW e \in Deletes, pc'[e] = "branch", NEW w, w = ws'[e], HasTree(w)'
               PROVE  w \in overtaken
    BY <1>1 DEF RemovedIsAway, HasTree
  <2>1. CASE e = d
    <3>1. Removed(d, TRUE) /\ ws' = ws
      BY <1>2, <1>5, <2>1
    <3> QED BY <1>1, <2>1, <3>1, RemovalIsThorough DEF HasTree
  <2>2. CASE e # d
    <3>1. pc[e] = "branch" /\ ws[e] = w /\ HasTree(w)
      BY <1>1, <1>3, <2>2 DEF OthersMove, HasTree
    <3> QED BY <3>1 DEF DeletionInv, RemovedIsAway
  <2> QED BY <2>1, <2>2
<1>12. DeletedLeavesNoWorktree'
  <2> SUFFICES ASSUME NEW w \in deleted', HasTree(w)'
               PROVE  w \in overtaken
    BY <1>1 DEF DeletedLeavesNoWorktree
  <2>1. HasTree(w)
    BY <1>1 DEF HasTree
  <2> QED BY <1>6, <2>1 DEF DeletionInv, DeletedLeavesNoWorktree
<1> QED BY <1>7, <1>8, <1>9, <1>10, <1>11, <1>12 DEF DeletionInv

LEMMA DeletionStep == Known /\ DeletionInv /\ [Next]_vars => DeletionInv'
<1> SUFFICES ASSUME Known, DeletionInv, [Next]_vars PROVE DeletionInv'
  OBVIOUS
<1> USE GrantedHolds
<1>0. Known'
  BY KnownStep
<1>1. ASSUME NEW i \in Inits,
             \/ \E w \in Workspaces : \/ \E k \in Kinds : Create(i, w, k)
                                      \/ \E dedupe \in BOOLEAN : Retry(i, w, dedupe)
             \/ InitStep(i) \/ StartingFails(i)
      PROVE  DeletionInv'
  BY <1>0, <1>1, DeletionStarts, DeletionHeld DEF InitStep
<1>2. ASSUME NEW d \in Deletes, (\E w \in Workspaces : Delete(d, w)) \/ DeleteStep(d)
      PROVE  DeletionInv'
  BY <1>0, <1>2, DeletionDeletes
<1>3. CASE UNCHANGED <<row, path, disk, queue, pc, ws, at, deleted, overtaken>>
  <2>1. DeletedIsGone' /\ InitsFirst' /\ DeletedIsQuiet'
    BY <1>3 DEF DeletionInv, DeletedIsGone, InitsFirst, DeletedIsQuiet, Ahead, Precedes, Running
  <2>2. DeletesFindPath' /\ RemovedIsAway' /\ DeletedLeavesNoWorktree'
    BY <1>3 DEF DeletionInv, DeletesFindPath, RemovedIsAway, DeletedLeavesNoWorktree, HasTree
  <2> QED BY <2>1, <2>2 DEF DeletionInv
<1>4. ASSUME NEW w \in Workspaces, ReadyExpires(w) PROVE DeletionInv'
  BY <1>3, <1>4 DEF ReadyExpires, call, database, history, locking
<1>5. CASE UNCHANGED vars
  BY <1>3, <1>5 DEF vars, call, database, history, locking
\* A git command that makes a worktree may come to its end while the app does not run.
<1>6. CASE Restart
  <2>1. /\ UNCHANGED <<row, path, ws, deleted, overtaken>>
        /\ \A c \in Calls : pc'[c] \in {"idle", "done"}
    BY <1>6, RestartData DEF Restart, database, history
  <2>2. ASSUME NEW w \in Workspaces, HasTree(w)', ~HasTree(w)
        PROVE  \E i \in Inits : Running(i) /\ ws[i] = w
    <3>1. disk' \subseteq disk \cup {Tree(c) : c \in {x \in Calls : pc[x] = "creating"}}
      BY <1>6 DEF Restart
    <3>2. PICK c \in Calls : pc[c] = "creating" /\ Tree(c) = <<w, path[w]>>
      BY <2>1, <2>2, <3>1 DEF HasTree
    <3>3. c \in Inits
      BY <3>2 DEF Calls, Known, CallsKnown, DeleteStages
    <3> QED BY <3>2, <3>3 DEF Running, InitHolds, Tree
  <2>3. DeletedLeavesNoWorktree'
    <3> SUFFICES ASSUME NEW w \in deleted, HasTree(w)' PROVE w \in overtaken
      BY <2>1 DEF DeletedLeavesNoWorktree
    <3>1. w \in Workspaces
      BY DEF Known, DataOK
    <3> QED BY <2>2, <3>1 DEF DeletionInv, DeletedLeavesNoWorktree, DeletedIsQuiet
  <2>4. \A i \in Inits : pc'[i] # "lock" /\ ~Running(i)'
    BY <2>1 DEF Running, InitHolds
  <2>5. DeletedIsGone' /\ InitsFirst' /\ DeletedIsQuiet'
    BY <2>1, <2>4 DEF DeletionInv, DeletedIsGone, InitsFirst, DeletedIsQuiet, Ahead
  <2>6. DeletesFindPath' /\ RemovedIsAway'
    BY <2>1 DEF DeletesFindPath, RemovedIsAway
  <2> QED BY <2>3, <2>5, <2>6 DEF DeletionInv
<1> QED BY <1>1, <1>2, <1>4, <1>5, <1>6 DEF Next

LEMMA DeletionInit == Init => DeletionInv
<1> SUFFICES ASSUME Init PROVE DeletionInv
  OBVIOUS
<1>1. /\ deleted = {} /\ disk = {} /\ \A w \in Workspaces : row[w] = "none"
      /\ \A c \in Calls : pc[c] = "idle"
  BY DEF Init
<1>2. DeletedIsGone /\ InitsFirst /\ DeletedIsQuiet
  BY <1>1, GrantedHolds DEF DeletedIsGone, InitsFirst, DeletedIsQuiet, Ahead, Running, InitHolds
<1>3. DeletesFindPath /\ RemovedIsAway /\ DeletedLeavesNoWorktree
  BY <1>1, GrantedHolds DEF DeletesFindPath, RemovedIsAway, DeletedLeavesNoWorktree
<1> QED BY <1>2, <1>3 DEF DeletionInv

\* A deletion that succeeded leaves no worktree, whatever initializations it met, at
\* whatever await of theirs and its own, if no job was started meanwhile or since
\* (delete.ts, workspace-init.ts).
THEOREM DeletedCorrect == Spec => []DeletedLeavesNoWorktree
<1> DEFINE IInv == Known /\ DeletionInv
<1>1. Init => IInv
  BY KnownInit, DeletionInit
<1>2. IInv /\ [Next]_vars => IInv'
  BY KnownStep, DeletionStep
<1>3. IInv => DeletedLeavesNoWorktree
  BY DEF DeletionInv
<1> HIDE DEF IInv
<1> QED BY <1>1, <1>2, <1>3, PTL DEF Spec

-----------------------------------------------------------------------------
(* A workspace that is said to be ready has its worktree.  Several            *)
(* initializations and deletions may be at work on it: an initialization      *)
(* removes a worktree only if it was canceled or its job failed, so that      *)
(* the job is not ready then, and no two calls make or import a worktree      *)
(* unless a job was begun during a deletion or the path changed on the way.   *)
(* Only a removal that fails half-way takes the worktree of a ready one.      *)

Odd == overtaken \cup moved

\* The worktree is there, or a removal that failed has moved it away.
Lost(w) == <<w, path[w]>> \in lost
There(w) == HasTree(w) \/ Lost(w)

InitsAtPath == \A i \in Inits : Active(i) => at[i] = path[ws[i]] \/ ws[i] \in Odd

MadeIsThere == \A i \in Inits : pc[i] = "renaming" => There(ws[i]) \/ ws[i] \in Odd

\* A deletion has removed the worktree and still has the rows to delete.
Removing(w) == \E d \in Deletes : pc[d] = "branch" /\ ws[d] = w

\* An initialization that takes over a worktree that it has not made.
Imports(i) == kind[i] = "skip" /\ pc[i] \in {"starting", "lock", "locked", "preparing"}

KindsKnown == \A i \in Inits : pc[i] \in {"idle", "listing"} => kind[i] = "new"

ImportedIsThere ==
    \A i \in Inits : Imports(i) /\ ws[i] \notin Odd /\ ~Lost(ws[i]) =>
       /\ There(ws[i]) \/ (pc[i] = "starting" /\ (Removing(ws[i]) \/ ws[i] \in deleted))
       /\ ~job[ws[i]].created
       /\ \A j \in Inits \ {i} : ws[j] = ws[i] =>
             pc[j] \notin {"cleanup", "undo", "renaming"} /\ ~Imports(j)

CanceledIsNotReady ==
    \A w \in Workspaces : job[w].step = "ready" =>
        /\ w \notin cancellations
        /\ \A i \in Inits : pc[i] = "cleanup" => ws[i] # w

ReadyIsThere ==
    \A w \in Workspaces : job[w].step = "ready" => There(w) \/ w \in Odd \/ Removing(w)

ReadyInv ==
    /\ InitsAtPath /\ MadeIsThere /\ KindsKnown /\ ImportedIsThere
    /\ CanceledIsNotReady /\ ReadyIsThere

LEMMA ReadyCreate ==
  ASSUME Known, Known', ReadyInv,
         NEW i \in Inits, NEW w \in Workspaces, NEW k \in Kinds, Create(i, w, k)
  PROVE  ReadyInv'
<1> USE GrantedHolds DEF Known
<1>1. /\ row[w] = "none" /\ job' = job /\ path' = path /\ cancellations' = cancellations
      /\ deleted' = deleted /\ Odd' = Odd /\ disk \subseteq disk' /\ lost' = lost
      /\ k = "skip" => There(w)'
  BY DEF Create, manager, history, Odd, There, HasTree, Lost
<1>2. /\ ws'[i] = w /\ kind'[i] = k /\ at'[i] = path[w] /\ pc'[i] = "starting" /\ pc[i] = "idle"
      /\ \A x \in Calls \ {i} : /\ ws'[x] = ws[x] /\ at'[x] = at[x]
                                /\ kind'[x] = kind[x] /\ pc'[x] = pc[x]
  <2>1. /\ pc' = [pc EXCEPT ![i] = "starting"] /\ pc[i] = "idle" /\ ws' = [ws EXCEPT ![i] = w]
        /\ kind' = [kind EXCEPT ![i] = k] /\ at' = [at EXCEPT ![i] = path[w]]
    BY DEF Create
  <2>2. i \in Calls /\ DOMAIN ws = Calls /\ DOMAIN kind = Calls /\ DOMAIN at = Calls
    BY DEF DataOK
  <2> QED BY <2>1, <2>2, MovesAlone
<1>3. job[w] = NoJob /\ ~job[w].created
  BY <1>1 DEF CallsKnown, NoJob
<1>4. \A x \in Calls \ {i} : pc[x] # "idle" => ws[x] \in Workspaces /\ ws[x] # w
  BY <1>1 DEF CallsKnown
<1>5. \A v \in Workspaces : (There(v) => There(v)') /\ (Removing(v)' <=> Removing(v))
  BY <1>1, <1>2 DEF There, HasTree, Lost, Removing
<1>6. InitsAtPath' /\ KindsKnown'
  BY <1>1, <1>2 DEF ReadyInv, InitsAtPath, KindsKnown, Active
<1>7. MadeIsThere'
  <2> SUFFICES ASSUME NEW j \in Inits, pc'[j] = "renaming", NEW v, v = ws'[j], v \notin Odd'
               PROVE  There(v)'
    BY DEF MadeIsThere, There, HasTree, Lost
  <2>1. pc[j] = "renaming" /\ ws[j] = v /\ v \in Workspaces
    BY <1>2, <1>4
  <2> QED BY <1>1, <1>5, <2>1 DEF ReadyInv, MadeIsThere
<1>8. ImportedIsThere'
  <2> SUFFICES ASSUME NEW j \in Inits, Imports(j)', NEW v, v = ws'[j], v \notin Odd', ~Lost(v)'
               PROVE  /\ There(v)' \/ (pc'[j] = "starting" /\ (Removing(v)' \/ v \in deleted'))
                      /\ ~job'[v].created
                      /\ \A x \in Inits \ {j} : ws'[x] = v =>
                            pc'[x] \notin {"cleanup", "undo", "renaming"} /\ ~Imports(x)'
    BY DEF ImportedIsThere, There, HasTree, Lost, Removing
  <2>1. CASE j = i
    <3>1. v = w /\ There(v)' /\ ~job'[v].created
      BY <1>1, <1>2, <1>3, <2>1 DEF Imports
    <3>2. \A x \in Inits \ {j} : ws'[x] = v => pc'[x] = "idle"
      BY <1>2, <1>4, <2>1, <3>1
    <3> QED BY <3>1, <3>2 DEF Imports
  <2>2. CASE j # i
    <3>1. Imports(j) /\ ws[j] = v /\ v # w /\ v \in Workspaces /\ ~Lost(v)
      BY <1>1, <1>2, <1>4, <2>2 DEF Imports, Lost
    <3>2. \A x \in Inits \ {j} : ws'[x] = v => /\ ws[x] = v /\ pc'[x] = pc[x] /\ x # i
                                               /\ Imports(x)' <=> Imports(x)
      BY <1>2, <3>1 DEF Imports
    <3> QED BY <1>1, <1>2, <1>5, <2>2, <3>1, <3>2 DEF ReadyInv, ImportedIsThere
  <2> QED BY <2>1, <2>2
<1>9. CanceledIsNotReady' /\ ReadyIsThere'
  <2>1. CanceledIsNotReady'
    BY <1>1, <1>2 DEF ReadyInv, CanceledIsNotReady
  <2>2. ReadyIsThere'
    BY <1>1, <1>5 DEF ReadyInv, ReadyIsThere
  <2> QED BY <2>1, <2>2
<1> QED BY <1>6, <1>7, <1>8, <1>9 DEF ReadyInv

\* A job is begun: what was known of the other calls of the workspace stays so, or
\* they are seen to have been overtaken, or their path to have moved.
LEMMA ReadyBegin ==
  ASSUME Known, Known', ReadyInv,
         DeletionInv, NEW i \in Inits, NEW w \in Workspaces, Begin(i, w),
         pc[i] \in {"idle", "starting", "listing"}, pc[i] = "starting" => ws[i] = w,
         ws'[i] = w, \A x \in Calls \ {i} : ws'[x] = ws[x] /\ at'[x] = at[x],
         moved \subseteq moved', at'[i] = path'[w] \/ w \in overtaken' \/ w \in moved',
         \A v \in Workspaces :
            \/ path'[v] = path[v]
            \/ v = w /\ w \in moved'
            \/ /\ v = w /\ pc[i] = "listing"
               /\ \A x \in Inits \ {i} : Active(x) => ws[x] # w
  PROVE  ReadyInv'
<1> USE GrantedHolds DEF Known
<1>1. /\ \A v \in Workspaces : job'[v] = IF v = w THEN [step |-> "pending", created |-> FALSE]
                                                  ELSE job[v]
      /\ cancellations' = cancellations \ {w}
      /\ Odd \subseteq Odd' /\ disk' = disk /\ lost' = lost /\ deleted' = deleted /\ kind' = kind
      /\ row[w] # "live" \/ Deleting(w) => w \in Odd'
      /\ at'[i] = path'[w] \/ w \in Odd'
  BY BeginJobs DEF Odd
<1>2. pc'[i] \in {"locked", "lock"} /\ \A x \in Calls \ {i} : pc'[x] = pc[x]
  BY BeginMoves
<1>3. \A x \in Calls \ {i} : pc[x] # "idle" => ws[x] \in Workspaces
  BY DEF CallsKnown
<1>4. ASSUME NEW x \in Inits \ {i}, Active(x), ws[x] \notin Odd'
      PROVE  path'[ws[x]] = path[ws[x]]
  BY <1>3, <1>4 DEF Active, Odd
<1>5. \A v : Removing(v)' <=> Removing(v)
  BY <1>2 DEF Removing
<1>6. InitsAtPath'
  <2> SUFFICES ASSUME NEW x \in Inits, Active(x)', NEW v, v = ws'[x], v \notin Odd'
               PROVE  at'[x] = path'[v]
    BY DEF InitsAtPath
  <2>1. CASE x = i
    BY <1>1, <2>1
  <2>2. CASE x # i
    BY <1>1, <1>2, <1>4, <2>2 DEF ReadyInv, InitsAtPath, Active
  <2> QED BY <2>1, <2>2
<1>7. MadeIsThere'
  <2> SUFFICES ASSUME NEW x \in Inits, pc'[x] = "renaming", NEW v, v = ws'[x], v \notin Odd'
               PROVE  There(v)'
    BY DEF MadeIsThere, There, HasTree, Lost
  <2>1. x # i /\ pc[x] = "renaming" /\ ws[x] = v /\ path'[v] = path[v]
    BY <1>2, <1>4 DEF Active
  <2> QED BY <1>1, <2>1 DEF ReadyInv, MadeIsThere, There, HasTree, Lost
<1>8. KindsKnown'
  BY <1>1, <1>2 DEF ReadyInv, KindsKnown
<1>9. ImportedIsThere'
  <2> SUFFICES ASSUME NEW j \in Inits, Imports(j)', NEW v, v = ws'[j], v \notin Odd', ~Lost(v)'
               PROVE  /\ There(v)' \/ (pc'[j] = "starting" /\ (Removing(v)' \/ v \in deleted'))
                      /\ ~job'[v].created
                      /\ \A x \in Inits \ {j} : ws'[x] = v =>
                            pc'[x] \notin {"cleanup", "undo", "renaming"} /\ ~Imports(x)'
    BY DEF ImportedIsThere, There, HasTree, Lost, Removing
  <2>1. Imports(j) /\ ws[j] = v /\ v \in Workspaces /\ v \notin Odd
    <3>1. kind[i] = "skip" => pc[i] = "starting"
      BY DEF ReadyInv, KindsKnown
    <3> QED BY <1>1, <1>2, <1>3, <3>1 DEF Imports
  <2>0. path'[v] = path[v] /\ ~Lost(v)
    <3>1. path'[v] = path[v]
      BY <1>4, <2>1 DEF Imports, Active, Odd
    <3> QED BY <1>1, <3>1 DEF Lost
  <2>2. /\ There(v) \/ (pc[j] = "starting" /\ (Removing(v) \/ v \in deleted))
        /\ ~job[v].created
        /\ \A x \in Inits \ {j} : ws[x] = v =>
              pc[x] \notin {"cleanup", "undo", "renaming"} /\ ~Imports(x)
    BY <2>0, <2>1 DEF ReadyInv, ImportedIsThere
  <2>3. ~job'[v].created
    BY <1>1, <2>1, <2>2
  <2>4. ASSUME NEW x \in Inits \ {j}, ws'[x] = v
        PROVE  pc'[x] \notin {"cleanup", "undo", "renaming"} /\ ~Imports(x)'
    <3>1. CASE x # i
      BY <1>1, <1>2, <2>2, <2>4, <3>1 DEF Imports
    <3>2. CASE x = i
      <4>1. kind[i] # "skip"
        BY <2>2, <2>4, <3>2 DEF ReadyInv, KindsKnown, Imports
      <4> QED BY <1>1, <1>2, <3>2, <4>1 DEF Imports
    <3> QED BY <3>1, <3>2
  <2>5. There(v)' \/ (pc'[j] = "starting" /\ (Removing(v)' \/ v \in deleted'))
    <3>1. CASE j # i
      <4>1. path'[v] = path[v] /\ pc'[j] = pc[j]
        BY <1>2, <1>4, <2>1, <3>1 DEF Imports, Active
      <4> QED BY <1>1, <1>5, <2>2, <4>1 DEF There, HasTree, Lost
    <3>2. CASE j = i
      <4>1. row[w] = "live" /\ ~Deleting(w) /\ v = w
        BY <1>1, <3>2
      <4>2. v \notin deleted /\ ~Removing(v)
        BY <4>1 DEF Removing, Deleting, Active, DeletionInv, DeletedIsGone
      <4>3. pc[i] # "listing"
        BY <2>1, <3>2 DEF Imports
      <4>4. path'[v] = path[v]
        BY <2>1, <4>3 DEF Odd
      <4> QED BY <1>1, <2>2, <3>2, <4>2, <4>4 DEF There, HasTree, Lost
    <3> QED BY <3>1, <3>2
  <2> QED BY <2>3, <2>4, <2>5
<1>10. CanceledIsNotReady' /\ ReadyIsThere'
  <2> SUFFICES ASSUME NEW v \in Workspaces, job'[v].step = "ready"
               PROVE  /\ v \notin cancellations'
                      /\ \A x \in Inits : pc'[x] = "cleanup" => ws'[x] # v
                      /\ There(v)' \/ v \in Odd' \/ Removing(v)'
    BY DEF CanceledIsNotReady, ReadyIsThere
  <2>1. v # w /\ job'[v] = job[v] /\ path'[v] = path[v]
    BY <1>1
  <2> QED BY <1>1, <1>2, <1>5, <2>1 DEF ReadyInv, CanceledIsNotReady, ReadyIsThere, There, HasTree, Lost
<1> QED BY <1>6, <1>7, <1>8, <1>9, <1>10 DEF ReadyInv

LEMMA ReadyStarts ==
  ASSUME Known, Known', DeletionInv, ReadyInv, NEW i \in Inits,
         \/ \E w \in Workspaces : \/ \E k \in Kinds : Create(i, w, k)
                                  \/ \E dedupe \in BOOLEAN : Retry(i, w, dedupe)
         \/ \E taken \in BOOLEAN : Listed(i, taken)
         \/ Starting(i) \/ StartingFails(i)
  PROVE  ReadyInv'
<1> USE GrantedHolds DEF Known
<1>0. /\ i \in Calls /\ ws'[i] \in Workspaces
      /\ \A x \in Calls \ {i} : ws'[x] = ws[x] /\ at'[x] = at[x] /\ pc'[x] = pc[x]
      /\ path \in [Workspaces -> Paths] /\ at \in [Calls -> Paths \cup {None}]
      /\ ws \in [Calls -> Workspaces \cup {None}]
  BY InitStartData DEF DataOK
\* The call ends, or goes on to list the branches.
<1>1. ASSUME UNCHANGED <<path, disk, manager, kind, history>>,
             pc'[i] = "done" \/ (pc'[i] = "listing" /\ pc[i] = "idle" /\ at'[i] = path[ws'[i]])
      PROVE  ReadyInv'
  <2>1. \A v : /\ There(v)' <=> There(v)
               /\ Removing(v)' <=> Removing(v)
    BY <1>0, <1>1 DEF There, HasTree, Lost, Removing, history
  <2>2. Odd' = Odd /\ job' = job /\ cancellations' = cancellations /\ deleted' = deleted
    BY <1>1 DEF Odd, history, manager
  <2>3. InitsAtPath' /\ MadeIsThere' /\ KindsKnown'
    <3>1. InitsAtPath'
      BY <1>0, <1>1, <2>2 DEF ReadyInv, InitsAtPath, Active
    <3>2. \A x \in Inits : pc'[x] = "renaming" => pc[x] = "renaming" /\ ws'[x] = ws[x]
      BY <1>0, <1>1
    <3>3. MadeIsThere'
      BY <2>1, <2>2, <3>2 DEF ReadyInv, MadeIsThere
    <3>4. KindsKnown'
      BY <1>0, <1>1 DEF ReadyInv, KindsKnown
    <3> QED BY <3>1, <3>3, <3>4
  <2>4. ImportedIsThere'
    <3> SUFFICES ASSUME NEW j \in Inits, Imports(j)', NEW v, v = ws'[j], v \notin Odd, ~Lost(v)'
                 PROVE  /\ There(v)' \/ (pc'[j] = "starting" /\ (Removing(v)' \/ v \in deleted))
                        /\ ~job[v].created
                        /\ \A x \in Inits \ {j} : ws'[x] = v =>
                              pc'[x] \notin {"cleanup", "undo", "renaming"} /\ ~Imports(x)'
      BY <2>2 DEF ImportedIsThere, There, HasTree, Lost, Removing
    <3>1. j # i /\ pc'[j] = pc[j] /\ Imports(j) /\ ws[j] = v /\ ~Lost(v)
      BY <1>0, <1>1 DEF Imports, Lost, history
    <3>2. /\ There(v) \/ (pc[j] = "starting" /\ (Removing(v) \/ v \in deleted))
          /\ ~job[v].created
          /\ \A x \in Inits \ {j} : ws[x] = v =>
                pc[x] \notin {"cleanup", "undo", "renaming"} /\ ~Imports(x)
      BY <3>1 DEF ReadyInv, ImportedIsThere
    <3>3. pc'[i] \notin {"cleanup", "undo", "renaming"} /\ ~Imports(i)'
      BY <1>1 DEF Imports
    <3>4. \A x \in Inits \ {i} : Imports(x)' <=> Imports(x)
      BY <1>0, <1>1 DEF Imports
    <3> QED BY <1>0, <2>1, <3>1, <3>2, <3>3, <3>4
  <2>5. CanceledIsNotReady'
    BY <1>0, <1>1, <2>2 DEF ReadyInv, CanceledIsNotReady
  <2>6. ReadyIsThere'
    BY <2>1, <2>2 DEF ReadyInv, ReadyIsThere
  <2> QED BY <2>3, <2>4, <2>5, <2>6 DEF ReadyInv
<1>2. ASSUME NEW w \in Workspaces, NEW dedupe \in BOOLEAN, Retry(i, w, dedupe)
      PROVE  ReadyInv'
  <2>1. ws'[i] = w /\ at'[i] = path[w] /\ pc[i] = "idle"
    BY <1>0, <1>2 DEF Retry
  <2>2. CASE Begin(i, w) /\ UNCHANGED <<path, moved>>
    BY <1>0, <2>1, <2>2, ReadyBegin
  <2>3. CASE /\ pc' = [pc EXCEPT ![i] = "listing"]
             /\ UNCHANGED <<database, disk, manager, locking, kind, awaited, restarts, history>>
    BY <1>0, <1>1, <2>1, <2>3, MovesAlone DEF database
  <2> QED BY <1>2, <2>2, <2>3 DEF Retry
<1>3. ASSUME NEW taken \in BOOLEAN, Listed(i, taken)
      PROVE  ReadyInv'
  <2>1. PICK w \in Workspaces : w = ws[i]
    BY <1>3 DEF Listed, CallsKnown
  <2>2. pc[i] = "listing" /\ Begin(i, w) /\ ws'[i] = w
    BY <1>3, <2>1 DEF Listed
  <2>3. row[w] = "gone" => w \in overtaken'
    BY <2>2, BeginJobs
  <2>4. at[i] = path[w] \/ w \in overtaken' \/ w \in moved
    BY <2>1, <2>2, BeginJobs DEF ReadyInv, InitsAtPath, Active, Odd
  <2>5. CASE UNCHANGED <<path, at, moved>>
    BY <1>0, <2>2, <2>4, <2>5, ReadyBegin
  <2>6. CASE taken
    <3>1. /\ path' = IF row[w] = "gone" THEN path ELSE [path EXCEPT ![w] = at'[i]]
          /\ moved \subseteq moved'
          /\ w \in moved' \/ \A x \in Inits \ {i} : Active(x) => ws[x] # w
      BY <1>3, <2>1, <2>6 DEF Listed
    <3>2. at'[i] = path'[w] \/ w \in overtaken'
      BY <1>0, <2>3, <3>1
    <3>3. \A v \in Workspaces : path'[v] = path[v] \/ v = w
      BY <1>0, <3>1
    <3> QED BY <1>0, <2>2, <3>1, <3>2, <3>3, ReadyBegin
  <2> QED BY <1>3, <2>5, <2>6 DEF Listed
<1>4. CASE Starting(i)
  <2>1. PICK w \in Workspaces : w = ws[i]
    BY <1>4 DEF Starting, CallsKnown
  <2>2. pc[i] = "starting" /\ Begin(i, w) /\ ws'[i] = w /\ UNCHANGED <<path, at, moved>>
    BY <1>4, <2>1 DEF Starting
  <2>3. at[i] = path[w] \/ w \in overtaken' \/ w \in moved
    BY <2>1, <2>2, BeginJobs DEF ReadyInv, InitsAtPath, Active, Odd
  <2> QED BY <1>0, <2>1, <2>2, <2>3, ReadyBegin
<1>5. CASE StartingFails(i)
  <2>1. pc'[i] = "done" /\ UNCHANGED <<path, disk, manager, kind, history>>
    BY <1>5, MovesAlone DEF StartingFails, database
  <2> QED BY <1>1, <2>1
<1> QED BY <1>2, <1>3, <1>4, <1>5, ReadyCreate

LEMMA ReadyHeld ==
  ASSUME Known, Known', DeletionInv, ReadyInv, NEW i \in Inits,
         InitLocked(i) \/ InitPrepared(i) \/ InitCreated(i) \/ InitCleanedUp(i)
            \/ InitUndone(i) \/ InitRenamed(i)
  PROVE  ReadyInv'
<1> USE GrantedHolds DEF Known
<1>1. /\ pc[i] \in InitHolds /\ pc[i] # "lock" /\ pc'[i] # "lock" /\ Running(i)
      /\ InitMove(i) /\ OthersMove(i)
  <2>1. pc[i] \in InitHolds /\ pc[i] # "lock"
    BY DEF InitLocked, InitPrepared, InitCreated, InitCleanedUp, InitUndone, InitRenamed, InitHolds
  <2>2. InitMove(i) /\ OthersMove(i)
    BY InitMoves DEF InitStep
  <2> QED BY <2>1, <2>2 DEF InitMove, InitHolds, Running
<1>2. PICK w \in Workspaces : w = ws[i]
  BY <1>1 DEF CallsKnown, InitHolds
<1>3. /\ ws' = ws /\ path' = path /\ cancellations' = cancellations /\ deleted' = deleted
      /\ Odd' = Odd /\ lost' = lost
      /\ \A x \in Calls \ {i} : at'[x] = at[x]
      /\ pc'[i] = "done" \/ at'[i] = at[i]
  <2>1. UNCHANGED <<database, cancellations, history>>
    BY DEF InitLocked, InitPrepared, InitCreated, InitCleanedUp, InitUndone, InitRenamed
  <2> QED BY <1>2, <2>1, InitHeldData DEF database, history, Odd
<1>4. \A x \in Calls \ {i} : pc[x] \notin Holds
  BY <1>1 DEF LockInv, OneHolder, Holds
<1>5. \A x \in Inits \ {i} :
         /\ pc'[x] \notin {"cleanup", "undo", "renaming"}
         /\ pc'[x] = pc[x] \/ (pc[x] = "lock" /\ pc'[x] = "locked")
  BY <1>1, <1>4 DEF OthersMove, Holds, InitHolds
<1>6. \A v \in Workspaces : v # w => job'[v] = job[v] /\ (There(v)' <=> There(v))
  <2>1. disk' \in {disk, disk \cup {Tree(i)}, disk \ {Tree(i)}}
    BY DEF InitLocked, InitPrepared, InitCreated, InitCleanedUp, InitUndone, InitRenamed
  <2>2. job' \in {job, AtStep(w, "failed"), AtStep(w, "creating"), AtStep(w, "ready"), Marked(w)}
    BY <1>2 DEF InitLocked, InitPrepared, InitCreated, InitCleanedUp, InitUndone, InitRenamed, Catch
  <2>3. \A v \in Workspaces : v # w => job'[v] = job[v]
    BY <2>2 DEF DataOK, AtStep, Marked
  <2> QED BY <1>2, <1>3, <2>1, <2>3 DEF There, HasTree, Lost, Tree
<1>7. \A v : Removing(v) => Removing(v)'
  BY <1>1, <1>3 DEF Removing, OthersMove
<1>8. w \notin Odd => w \notin deleted /\ ~Removing(w)
  BY <1>1, <1>2 DEF Odd, Removing, DeletionInv, DeletedIsQuiet, InitsFirst, Ahead
<1>9. \A x \in Inits \ {i} : kind'[x] = kind[x]
  BY DEF InitLocked, InitPrepared, InitCreated, InitCleanedUp, InitUndone, InitRenamed, DataOK
<1>10. at[i] = path[w] \/ w \in Odd
  BY <1>1, <1>2 DEF ReadyInv, InitsAtPath, Active, InitHolds
<1>11. w \notin Odd /\ pc[i] = "renaming" => There(w)
  BY <1>2 DEF ReadyInv, MadeIsThere
<1>12. job[w].step = "ready" =>
          /\ w \notin cancellations /\ pc[i] # "cleanup"
          /\ There(w) \/ w \in Odd \/ Removing(w)
  BY <1>2 DEF ReadyInv, CanceledIsNotReady, ReadyIsThere
<1>13. Imports(i) /\ w \notin Odd => There(w)
  BY <1>1, <1>2 DEF ReadyInv, ImportedIsThere, There, InitHolds
<1>14. /\ AtStep(w, "failed")[w].step # "ready" /\ AtStep(w, "creating")[w].step # "ready"
       /\ Marked(w)[w].step = job[w].step
       /\ \A s \in Steps : AtStep(w, s)[w].created = job[w].created
  BY JobFields DEF Steps
<1>15. ASSUME Catch(i, w)
       PROVE  \/ pc'[i] = "undo" /\ job[w].created /\ job' = job
              \/ pc'[i] = "done" /\ job' = AtStep(w, "failed")
  BY <1>15, FinishMoves, AwaitMoves DEF Catch, WasWorktreeCreated
<1>16. /\ AfterMade(w) \in {"cleanup", "renaming"}
       /\ AfterMade(w) = "cleanup" => w \in cancellations
  BY DEF AfterMade, IsCancellationRequested
\* What the step does to the workspace of its call.
<1> DEFINE TreeThen == <<w, path[w]>> \in disk' \cup lost
           Effect ==
              /\ pc'[i] = "renaming" /\ w \notin Odd => TreeThen
              /\ There(w) /\ ~Lost(w) /\ ~job[w].created /\ w \notin Odd /\ ~Imports(i)
                    /\ pc[i] \notin {"cleanup", "undo", "renaming"} =>
                 /\ TreeThen /\ ~job'[w].created
                 /\ pc'[i] \notin {"cleanup", "undo", "renaming"}
              /\ pc'[i] = "preparing" => job' = job /\ disk' = disk /\ kind' = kind /\ pc[i] = "locked"
              /\ job'[w].step = "ready" =>
                    /\ w \notin cancellations /\ pc'[i] # "cleanup"
                    /\ TreeThen \/ w \in Odd \/ Removing(w)
<1>17. ASSUME InitLocked(i) PROVE Effect
  <2>1. job' = job /\ disk' = disk /\ kind' = kind /\ pc[i] = "locked" /\ pc'[i] \in {"preparing", "done"}
    BY <1>17, FinishMoves, AwaitMoves DEF InitLocked
  <2> QED BY <1>12, <2>1 DEF There, HasTree, Lost, Imports
<1>18. ASSUME InitPrepared(i) PROVE Effect
  <2>1. disk' = disk /\ pc[i] = "preparing" /\ kind'[i] = "new"
    BY <1>18 DEF InitPrepared, DataOK
  <2>2. \/ pc'[i] = "done" /\ job' = job
        \/ pc'[i] = "done" /\ job' = AtStep(w, "failed")
        \/ pc'[i] = "undo" /\ job[w].created /\ job' = job
        \/ pc'[i] = "creating" /\ job' = AtStep(w, "creating")
        \/ pc'[i] = AfterMade(w) /\ job' = Marked(w) /\ kind[i] = "skip"
    BY <1>2, <1>15, <1>18, FinishMoves, AwaitMoves DEF InitPrepared
  <2>3. Imports(i) <=> kind[i] = "skip"
    BY <2>1 DEF Imports
  <2>4. job'[w].created => job[w].created \/ kind[i] = "skip"
    BY <1>14, <2>2 DEF Steps
  <2> QED BY <1>12, <1>13, <1>14, <1>16, <2>1, <2>2, <2>3, <2>4 DEF There, HasTree, Lost
<1>19. ASSUME InitCreated(i) PROVE Effect
  <2>1. /\ pc[i] = "creating" /\ disk \subseteq disk'
        /\ \/ /\ Tree(i) \notin disk /\ Tree(i) \in disk'
              /\ pc'[i] = AfterMade(w) /\ job' = Marked(w)
           \/ pc'[i] = "undo" /\ job[w].created /\ job' = job
           \/ pc'[i] = "done" /\ job' = AtStep(w, "failed")
    BY <1>2, <1>15, <1>19, AwaitMoves DEF InitCreated
  <2>2. Tree(i) = <<w, path[w]>> \/ w \in Odd
    BY <1>2, <1>10 DEF Tree
  <2>3. There(w) => TreeThen
    BY <2>1 DEF There, HasTree, Lost
  <2>4. AtStep(w, "failed")[w].created = job[w].created
    BY <1>14 DEF Steps
  <2>5. /\ Tree(i) \in disk' => TreeThen \/ w \in Odd
        /\ There(w) /\ ~Lost(w) => Tree(i) \in disk \/ w \in Odd
    BY <2>2 DEF There, HasTree
  <2> HIDE DEF TreeThen
  <2> QED BY <1>12, <1>14, <1>16, <2>1, <2>3, <2>4, <2>5
<1>20. ASSUME InitCleanedUp(i) PROVE Effect
  <2>1. pc[i] = "cleanup" /\ pc'[i] = "done" /\ job' = job
    BY <1>20, FinishMoves DEF InitCleanedUp
  <2> QED BY <1>12, <2>1
<1>21. ASSUME InitUndone(i) PROVE Effect
  <2>1. pc[i] = "undo" /\ pc'[i] = "done" /\ job' = AtStep(w, "failed")
    BY <1>2, <1>21, FinishMoves DEF InitUndone
  <2> QED BY <1>14, <2>1
<1>22. ASSUME InitRenamed(i) PROVE Effect
  <2>1. /\ pc[i] = "renaming" /\ pc'[i] = "done" /\ disk' = disk
        /\ job' = job \/ w \notin cancellations
    BY <1>2, <1>22, FinishMoves DEF InitRenamed, IsCancellationRequested
  <2> QED BY <1>11, <1>12, <2>1 DEF There, HasTree, Lost
<1>23. Effect
  BY <1>17, <1>18, <1>19, <1>20, <1>21, <1>22
<1>24. InitsAtPath' /\ KindsKnown'
  <2>1. InitsAtPath'
    BY <1>1, <1>3 DEF ReadyInv, InitsAtPath, Active, OthersMove, InitMove
  <2>2. \A x \in Inits : pc'[x] \in {"idle", "listing"} => x # i /\ pc[x] = pc'[x]
    BY <1>1, <1>5 DEF InitMove, InitHolds
  <2>3. KindsKnown'
    BY <1>9, <2>2 DEF ReadyInv, KindsKnown
  <2> QED BY <2>1, <2>3
<1>25. MadeIsThere'
  <2>1. pc'[i] = "renaming" /\ w \notin Odd => There(w)'
    BY <1>3, <1>23 DEF There, HasTree, Lost
  <2> QED BY <1>2, <1>3, <1>5, <2>1 DEF MadeIsThere, There, HasTree, Lost
<1>26. ImportedIsThere'
  <2> SUFFICES ASSUME NEW j \in Inits, Imports(j)', NEW v, v = ws[j], v \notin Odd, ~Lost(v)'
               PROVE  /\ There(v)' \/ (pc'[j] = "starting" /\ (Removing(v)' \/ v \in deleted))
                      /\ ~job'[v].created
                      /\ \A x \in Inits \ {j} : ws[x] = v =>
                            pc'[x] \notin {"cleanup", "undo", "renaming"} /\ ~Imports(x)'
    BY <1>3 DEF ImportedIsThere, There, HasTree, Lost, Removing
  <2>1. \A x \in Inits : Imports(x)' => Imports(x)
    <3>1. CASE pc'[i] = "preparing"
      BY <1>5, <1>9, <1>23, <3>1 DEF Imports
    <3>2. CASE pc'[i] # "preparing"
      BY <1>1, <1>5, <1>9, <3>2 DEF Imports, InitMove, InitHolds
    <3> QED BY <3>1, <3>2
  <2>0. ~Lost(v)
    BY <1>3 DEF Lost
  <2>2. /\ There(v) \/ (pc[j] = "starting" /\ (Removing(v) \/ v \in deleted))
        /\ ~job[v].created
        /\ \A x \in Inits \ {j} : ws[x] = v =>
              pc[x] \notin {"cleanup", "undo", "renaming"} /\ ~Imports(x)
    BY <2>0, <2>1 DEF ReadyInv, ImportedIsThere
  <2>3. v \in Workspaces
    BY <2>1 DEF Imports, CallsKnown
  <2>4. CASE v # w
    BY <1>2, <1>5, <1>6, <1>7, <2>1, <2>2, <2>3, <2>4 DEF Imports
  <2>5. CASE v = w /\ j = i
    <3>1. pc'[i] = "preparing"
      BY <1>1, <2>5 DEF Imports, InitMove, InitHolds
    <3>2. job' = job /\ disk' = disk
      BY <1>23, <3>1
    <3> QED BY <1>3, <1>5, <1>8, <2>1, <2>2, <2>5, <3>2 DEF There, HasTree, Lost
  <2>6. CASE v = w /\ j # i
    <3>1. /\ There(w) /\ ~Lost(w) /\ ~job[w].created /\ ~Imports(i)
          /\ pc[i] \notin {"cleanup", "undo", "renaming"}
      BY <1>2, <1>8, <2>0, <2>2, <2>6
    <3>2. There(w)' /\ ~job'[w].created /\ pc'[i] \notin {"cleanup", "undo", "renaming"}
      BY <1>3, <1>23, <2>6, <3>1 DEF There, HasTree, Lost
    <3> QED BY <1>5, <2>1, <2>2, <2>6, <3>2
  <2> QED BY <2>4, <2>5, <2>6
<1>27. CanceledIsNotReady' /\ ReadyIsThere'
  <2> SUFFICES ASSUME NEW v \in Workspaces, job'[v].step = "ready"
               PROVE  /\ v \notin cancellations
                      /\ \A x \in Inits : pc'[x] = "cleanup" => ws[x] # v
                      /\ There(v)' \/ v \in Odd \/ Removing(v)'
    BY <1>3 DEF CanceledIsNotReady, ReadyIsThere
  <2>1. CASE v = w
    BY <1>3, <1>5, <1>7, <1>23, <2>1 DEF There, HasTree, Lost
  <2>2. CASE v # w
    BY <1>2, <1>5, <1>6, <1>7, <2>2 DEF ReadyInv, CanceledIsNotReady, ReadyIsThere
  <2> QED BY <2>1, <2>2
<1> QED BY <1>24, <1>25, <1>26, <1>27 DEF ReadyInv

LEMMA ReadyDeletes ==
  ASSUME Known, Known', DeletionInv, ReadyInv,
         NEW d \in Deletes, (\E w \in Workspaces : Delete(d, w)) \/ DeleteStep(d)
  PROVE  ReadyInv'
<1> USE GrantedHolds DEF Known
<1>1. /\ path' = path /\ Odd' = Odd /\ disk' \subseteq disk /\ lost \subseteq lost'
      /\ kind' = kind /\ \A x \in Calls \ {d} : ws'[x] = ws[x] /\ at'[x] = at[x]
  <2>1. moved' = moved /\ lost \subseteq lost' /\ kind' = kind
    BY DEF Delete, DeleteStep, InitAwaited, WaitTimeout, Waited, TornDown, TeardownFails, Removed,
           RemovalFails, RemovalThrows, BranchDeleted, NothingToRemove, history
  <2> QED BY <2>1, DeletionEffect, DeleteData DEF Odd
<1>2. OthersMove(d)
  <2>1. ASSUME NEW w \in Workspaces, Delete(d, w)
        PROVE  OthersMove(d)
    BY <2>1, TearDownMoves, MovesAlone DEF Delete, OthersMove
  <2> QED BY <2>1, DeleteMoves
<1>3. \A x \in Inits : /\ ws'[x] = ws[x]
                       /\ pc'[x] = pc[x] \/ (pc[x] = "lock" /\ pc'[x] = "locked")
  BY <1>1, <1>2 DEF OthersMove
<1>4. \/ job' = job /\ deleted' = deleted
      \/ Gone(ws[d]) /\ ws[d] \in Workspaces
  <2>1. CASE \E w \in Workspaces : Delete(d, w)
    BY <2>1 DEF Delete, history
  <2>2. CASE DeleteStep(d)
    <3>1. ws[d] \in Workspaces
      BY <2>2, DeleteMoves DEF DeleteMove, CallsKnown
    <3>2. UNCHANGED <<job, deleted>> \/ Gone(ws[d])
      BY <2>2 DEF DeleteStep, InitAwaited, WaitTimeout, Waited, TornDown, TeardownFails, Removed,
                  RemovalFails, RemovalThrows, BranchDeleted, NothingToRemove, manager, history
    <3> QED BY <3>1, <3>2
  <2> QED BY <2>1, <2>2
<1>5. /\ \A v \in Workspaces : job'[v] = job[v] \/ (job'[v] = NoJob /\ v \in deleted')
      /\ deleted \subseteq deleted'
      /\ Gone(ws[d]) => ws[d] \in deleted' /\ job'[ws[d]] = NoJob
  BY <1>4 DEF Gone, ClearJob, DataOK
<1>6. NoJob.step = "none" /\ ~NoJob.created
  BY DEF NoJob
\* A worktree goes when a deletion has the lock, and then the deletion is removing the
\* workspace or has deleted it, unless it fails: then the worktree is one of those lost.
<1>7. ASSUME NEW v \in Workspaces, There(v), ~There(v)'
      PROVE  /\ Removing(v)' \/ (v \in deleted' /\ job'[v] = NoJob)
             /\ \A x \in Inits : ws[x] = v /\ Running(x) => v \in Odd
  <2>1. ~(disk \cup lost \subseteq disk' \cup lost')
    BY <1>1, <1>7 DEF There, HasTree, Lost
  <2>2. PICK branchToo \in BOOLEAN : Removed(d, branchToo)
    BY <2>1 DEF database, history, Delete, DeleteStep, InitAwaited, WaitTimeout, Waited, TornDown, TeardownFails,
           RemovalFails, RemovalThrows, BranchDeleted, NothingToRemove
  <2>3. v = ws[d] /\ ws' = ws
    BY <1>1, <1>7, <2>2 DEF Removed, There, HasTree, Lost, Tree
  <2>4. CASE branchToo
    <3>1. pc'[d] = "branch"
      BY <2>2, <2>4, ReleaseMoves DEF Removed
    <3> QED BY <2>2, <2>3, <3>1, RemovalIsThorough DEF Removing, Odd
  <2>5. CASE ~branchToo
    BY <1>5, <2>2, <2>3, <2>5, RemovalIsThorough DEF Removed, Odd
  <2> QED BY <2>4, <2>5
<1>8. ASSUME NEW v \in Workspaces, Removing(v), ~Removing(v)'
      PROVE  v \in deleted' /\ job'[v] = NoJob
  <2>1. PICK e \in Deletes : pc[e] = "branch" /\ ws[e] = v
    BY <1>8 DEF Removing
  <2>2. e = d
    BY <1>1, <1>2, <1>8, <2>1 DEF Removing, OthersMove
  <2>3. BranchDeleted(d)
    BY <2>1, <2>2 DEF Delete, DeleteStep, InitAwaited, WaitTimeout, Waited, TornDown, TeardownFails,
           Removed, RemovalFails, RemovalThrows, NothingToRemove
  <2> QED BY <1>5, <2>1, <2>2, <2>3 DEF BranchDeleted
<1>9. InitsAtPath' /\ KindsKnown'
  <2>1. InitsAtPath'
    BY <1>1, <1>3 DEF ReadyInv, InitsAtPath, Active
  <2>2. KindsKnown'
    BY <1>1, <1>3 DEF ReadyInv, KindsKnown
  <2> QED BY <2>1, <2>2
<1>10. MadeIsThere'
  <2> SUFFICES ASSUME NEW x \in Inits, pc'[x] = "renaming", NEW v, v = ws[x], v \notin Odd
               PROVE  There(v)'
    BY <1>1, <1>3 DEF MadeIsThere, There, HasTree, Lost
  <2>1. pc[x] = "renaming" /\ v \in Workspaces /\ Running(x)
    BY <1>3 DEF CallsKnown, Running, InitHolds
  <2>2. There(v)
    BY <2>1 DEF ReadyInv, MadeIsThere
  <2> QED BY <1>7, <2>1, <2>2
<1>11. ImportedIsThere'
  <2> SUFFICES ASSUME NEW j \in Inits, Imports(j)', NEW v, v = ws[j], v \notin Odd, ~Lost(v)'
               PROVE  /\ There(v)' \/ (pc'[j] = "starting" /\ (Removing(v)' \/ v \in deleted'))
                      /\ ~job'[v].created
                      /\ \A x \in Inits \ {j} : ws[x] = v =>
                            pc'[x] \notin {"cleanup", "undo", "renaming"} /\ ~Imports(x)'
    BY <1>1, <1>3 DEF ImportedIsThere, There, HasTree, Lost, Removing
  <2>1. \A x \in Inits : Imports(x)' => Imports(x)
    BY <1>1, <1>3 DEF Imports
  <2>0. ~Lost(v)
    BY <1>1 DEF Lost
  <2>2. /\ There(v) \/ (pc[j] = "starting" /\ (Removing(v) \/ v \in deleted))
        /\ ~job[v].created
        /\ \A x \in Inits \ {j} : ws[x] = v =>
              pc[x] \notin {"cleanup", "undo", "renaming"} /\ ~Imports(x)
    BY <2>0, <2>1 DEF ReadyInv, ImportedIsThere
  <2>3. v \in Workspaces
    BY <2>1 DEF Imports, CallsKnown
  <2>4. ~job'[v].created
    BY <1>5, <1>6, <2>2, <2>3
  <2>5. \A x \in Inits \ {j} : ws[x] = v =>
           pc'[x] \notin {"cleanup", "undo", "renaming"} /\ ~Imports(x)'
    BY <1>3, <2>1, <2>2
  <2>6. CASE There(v)
    <3>1. ~There(v)' => pc'[j] = "starting" /\ (Removing(v)' \/ v \in deleted')
      <4>1. SUFFICES ASSUME ~There(v)'
                     PROVE  pc'[j] = "starting" /\ (Removing(v)' \/ v \in deleted')
        OBVIOUS
      <4>2. ~Running(j) /\ (Removing(v)' \/ v \in deleted')
        BY <1>7, <2>3, <2>6, <4>1
      <4>3. pc[j] = "starting"
        BY <2>1, <4>2 DEF Imports, Running, InitHolds
      <4> QED BY <1>3, <4>2, <4>3
    <3> QED BY <2>4, <2>5, <3>1
  <2>7. CASE pc[j] = "starting" /\ (Removing(v) \/ v \in deleted)
    <3>1. pc'[j] = "starting" /\ (Removing(v)' \/ v \in deleted')
      BY <1>3, <1>5, <1>8, <2>3, <2>7
    <3> QED BY <2>4, <2>5, <3>1
  <2> QED BY <2>2, <2>6, <2>7
<1>12. ASSUME NEW v \in Workspaces, job'[v].step = "ready"
       PROVE  v \notin cancellations'
  <2>1. job'[v] = job[v] /\ v \notin cancellations
    BY <1>5, <1>6, <1>12 DEF ReadyInv, CanceledIsNotReady
  <2>2. ASSUME NEW w \in Workspaces, Delete(d, w)
        PROVE  v \notin cancellations'
    BY <1>12, <2>1, <2>2 DEF Delete, IsInitializing
  <2>3. CASE DeleteStep(d)
    <3>1. cancellations' \subseteq cancellations
      BY <2>3 DEF DeleteStep, InitAwaited, WaitTimeout, Waited, TornDown, TeardownFails, Removed,
                  RemovalFails, RemovalThrows, BranchDeleted, NothingToRemove, manager, Gone, ClearJob
    <3> QED BY <2>1, <3>1
  <2> QED BY <2>2, <2>3
<1>13. CanceledIsNotReady' /\ ReadyIsThere'
  <2> SUFFICES ASSUME NEW v \in Workspaces, job'[v].step = "ready"
               PROVE  /\ \A x \in Inits : pc'[x] = "cleanup" => ws[x] # v
                      /\ There(v)' \/ v \in Odd \/ Removing(v)'
    BY <1>1, <1>3, <1>12 DEF CanceledIsNotReady, ReadyIsThere
  <2>1. job'[v] = job[v] /\ job'[v] # NoJob
    BY <1>5, <1>6
  <2>2. \A x \in Inits : pc'[x] = "cleanup" => ws[x] # v
    BY <1>3, <2>1 DEF ReadyInv, CanceledIsNotReady
  <2>3. There(v) \/ v \in Odd \/ Removing(v)
    BY <2>1 DEF ReadyInv, ReadyIsThere
  <2>4. There(v)' \/ v \in Odd \/ Removing(v)'
    BY <1>7, <1>8, <2>1, <2>3
  <2> QED BY <2>2, <2>4
<1> QED BY <1>9, <1>10, <1>11, <1>13 DEF ReadyInv

LEMMA ReadyStep == Known /\ DeletionInv /\ ReadyInv /\ [Next]_vars => ReadyInv'
<1> SUFFICES ASSUME Known, DeletionInv, ReadyInv, [Next]_vars PROVE ReadyInv'
  OBVIOUS
<1> USE GrantedHolds
<1>0. Known'
  BY KnownStep
<1>1. ASSUME NEW i \in Inits,
             \/ \E w \in Workspaces : \/ \E k \in Kinds : Create(i, w, k)
                                      \/ \E dedupe \in BOOLEAN : Retry(i, w, dedupe)
             \/ InitStep(i) \/ StartingFails(i)
      PROVE  ReadyInv'
  BY <1>0, <1>1, ReadyStarts, ReadyHeld DEF InitStep
<1>2. ASSUME NEW d \in Deletes, (\E w \in Workspaces : Delete(d, w)) \/ DeleteStep(d)
      PROVE  ReadyInv'
  BY <1>0, <1>2, ReadyDeletes
<1>3. NoJob.step = "none" /\ ~NoJob.created
  BY DEF NoJob
<1>4. CASE /\ UNCHANGED <<path, disk, cancellations, pc, ws, kind, at, deleted, overtaken, moved, lost>>
           /\ \A v \in Workspaces : job'[v] \in {job[v], NoJob}
  <2>1. InitsAtPath' /\ MadeIsThere' /\ KindsKnown'
    BY <1>4 DEF ReadyInv, InitsAtPath, MadeIsThere, KindsKnown, There, HasTree, Lost, Active, Odd
  <2>2. ImportedIsThere'
    <3>1. \A i \in Inits : Imports(i) => ws[i] \in Workspaces
      BY DEF Imports, Known, CallsKnown
    <3> QED BY <1>3, <1>4, <3>1 DEF ReadyInv, ImportedIsThere, Imports, There, HasTree, Lost, Removing, Odd
  <2>3. CanceledIsNotReady' /\ ReadyIsThere'
    BY <1>3, <1>4 DEF ReadyInv, CanceledIsNotReady, ReadyIsThere, There, HasTree, Lost, Removing, Odd
  <2> QED BY <2>1, <2>2, <2>3 DEF ReadyInv
<1>5. ASSUME NEW w \in Workspaces, ReadyExpires(w) PROVE ReadyInv'
  <2>1. \A v \in Workspaces : job'[v] \in {job[v], NoJob}
    BY <1>5, ExpiryData
  <2> QED BY <1>4, <1>5, <2>1 DEF ReadyExpires, call, database, history
<1>6. CASE UNCHANGED vars
  BY <1>4, <1>6 DEF vars, manager, call, database, history
<1>7. CASE Restart
  <2>1. /\ \A w \in Workspaces : job'[w] = NoJob
        /\ \A i \in Inits : pc'[i] \in {"idle", "done"} /\ kind'[i] = "new"
    BY <1>7, RestartData DEF Restart
  <2>2. InitsAtPath' /\ MadeIsThere' /\ KindsKnown'
    BY <2>1 DEF InitsAtPath, MadeIsThere, KindsKnown, Active
  <2>3. ImportedIsThere' /\ CanceledIsNotReady' /\ ReadyIsThere'
    BY <1>3, <2>1 DEF ImportedIsThere, Imports, CanceledIsNotReady, ReadyIsThere
  <2> QED BY <2>2, <2>3 DEF ReadyInv
<1> QED BY <1>1, <1>2, <1>5, <1>6, <1>7 DEF Next

LEMMA ReadyInit == Init => ReadyInv
<1> SUFFICES ASSUME Init PROVE ReadyInv
  OBVIOUS
<1>1. /\ \A w \in Workspaces : job[w].step = "none"
      /\ \A i \in Inits : pc[i] = "idle" /\ kind[i] = "new"
  BY GrantedHolds DEF Init, NoJob
<1>2. InitsAtPath /\ MadeIsThere /\ KindsKnown
  BY <1>1 DEF InitsAtPath, MadeIsThere, KindsKnown, Active
<1>3. ImportedIsThere /\ CanceledIsNotReady /\ ReadyIsThere
  BY <1>1 DEF ImportedIsThere, Imports, CanceledIsNotReady, ReadyIsThere
<1> QED BY <1>2, <1>3 DEF ReadyInv

\* What the progress of a workspace says is so: a job that is not over has a call that
\* works on it or was canceled, and a workspace that is ready has its worktree while
\* nobody deletes it, unless a removal that failed has moved it away
\* (workspace-init-manager.ts, workspace-init.ts, git.ts).
THEOREM ProgressCorrect == Spec => []ProgressIsTrue
<1> DEFINE IInv == Known /\ BusyInv /\ DeletionInv /\ ReadyInv
<1>1. Init => IInv
  BY KnownInit, BusyInit, DeletionInit, ReadyInit
<1>2. IInv /\ [Next]_vars => IInv'
  BY KnownStep, BusyStep, DeletionStep, ReadyStep
<1>3. IInv => ProgressIsTrue
  <2> SUFFICES ASSUME IInv PROVE ProgressIsTrue
    OBVIOUS
  <2>1. \A w \in Workspaces : Removing(w) => Deleting(w)
    BY DEF Removing, Deleting, Active
  <2>2. ReadyHasWorktree
    BY <2>1 DEF ReadyHasWorktree, ReadyInv, ReadyIsThere, There, HasTree, Lost, Odd
  <2> QED BY <2>2, KnownType DEF BusyInv, ProgressIsTrue
<1> HIDE DEF IInv
<1> QED BY <1>1, <1>2, <1>3, PTL DEF Spec
=============================================================================
