-------------------------- MODULE TerminalHostProofs --------------------------
EXTENDS TerminalHost, FiniteSetTheorems, SequenceTheorems, TLAPS

LEMMA RemoveFirstAbsent ==
    ASSUME NEW S, NEW q \in Seq(S), NEW e, \A i \in 1..Len(q) : q[i] # e
    PROVE  RemoveFirst(q, e) = q
BY DEF RemoveFirst

\* t is q without its element at position i.
Spliced(t, q, i) ==
    \A j \in 1..Len(q)-1 : t[j] = IF j < i THEN q[j] ELSE q[j+1]

LEMMA RemoveFirstPresent ==
    ASSUME NEW S, NEW q \in Seq(S), NEW i \in 1..Len(q), NEW e, q[i] = e,
           \A j \in 1..Len(q) : q[j] = e => j = i
    PROVE  /\ RemoveFirst(q, e) \in Seq(S)
           /\ Len(RemoveFirst(q, e)) = Len(q) - 1
           /\ Spliced(RemoveFirst(q, e), q, i)
<1> DEFINE I == {j \in 1..Len(q) : q[j] = e}
<1>1. I = {i}
  OBVIOUS
<1>2. Min(I) = i
  BY <1>1, Min({i}) = i DEF Min
<1>3. RemoveFirst(q, e) = SubSeq(q, 1, i-1) \o SubSeq(q, i+1, Len(q))
  BY <1>1, <1>2 DEF RemoveFirst, RemoveAt, SelectInSeq
<1>4. /\ SubSeq(q, 1, i-1) \in Seq(S)
      /\ Len(SubSeq(q, 1, i-1)) = i-1
      /\ \A j \in 1..i-1 : SubSeq(q, 1, i-1)[j] = q[j]
  OBVIOUS
<1>5. /\ SubSeq(q, i+1, Len(q)) \in Seq(S)
      /\ Len(SubSeq(q, i+1, Len(q))) = Len(q) - i
      /\ \A j \in 1..Len(q)-i : SubSeq(q, i+1, Len(q))[j] = q[i+j]
  OBVIOUS
<1> HIDE DEF I
<1>6. PICK a \in Seq(S), b \in Seq(S) :
         /\ RemoveFirst(q, e) = a \o b
         /\ Len(a) = i - 1 /\ \A j \in 1..i-1 : a[j] = q[j]
         /\ Len(b) = Len(q) - i /\ \A j \in 1..Len(q)-i : b[j] = q[i+j]
  BY <1>3, <1>4, <1>5
<1>7. /\ a \o b \in Seq(S)
      /\ Len(a \o b) = Len(q) - 1
  <2>1. Len(a \o b) = Len(a) + Len(b)
    BY ConcatProperties
  <2>2. a \o b \in Seq(S)
    BY ConcatProperties
  <2>3. Len(q) \in Nat
    OBVIOUS
  <2> QED  BY <1>6, <2>1, <2>2, <2>3
<1>8. ASSUME NEW j \in 1..Len(q)-1, j < i
      PROVE  (a \o b)[j] = q[j]
  BY <1>6, <1>8
<1>9. ASSUME NEW j \in 1..Len(q)-1, ~(j < i)
      PROVE  (a \o b)[j] = q[j+1]
  <2>1. (a \o b)[j] = b[j - Len(a)]
    BY <1>6, <1>9
  <2>2. j - Len(a) \in 1..Len(q)-i /\ i + (j - Len(a)) = j + 1
    BY <1>6, <1>9
  <2> QED  BY <1>6, <2>1, <2>2
<1> QED
  BY <1>6, <1>7, <1>8, <1>9 DEF Spliced

\* Without duplicates, RemoveFirst takes its argument out and nothing else.
LEMMA RemoveFirstDistinct ==
    ASSUME NEW S, NEW s \in Seq(S), NEW e,
           \A j, k \in 1..Len(s) : s[j] = s[k] => j = k
    PROVE  LET q == RemoveFirst(s, e)
           IN  /\ q \in Seq(S)
               /\ \A j \in 1..Len(q) : q[j] # e /\ \E k \in 1..Len(s) : q[j] = s[k]
               /\ \A k \in 1..Len(s) : s[k] # e => \E j \in 1..Len(q) : q[j] = s[k]
               /\ \A j, k \in 1..Len(q) : q[j] = q[k] => j = k
<1> DEFINE q == RemoveFirst(s, e)
<1>1. CASE \A i \in 1..Len(s) : s[i] # e
  <2>1. q = s
    BY <1>1, RemoveFirstAbsent
  <2> QED  BY <1>1, <2>1
<1>2. CASE \E i \in 1..Len(s) : s[i] = e
  <2>1. PICK i \in 1..Len(s) : s[i] = e
    BY <1>2
  <2>2. /\ q \in Seq(S)
        /\ Len(q) = Len(s) - 1
        /\ \A j \in 1..Len(s)-1 : q[j] = IF j < i THEN s[j] ELSE s[j+1]
    <3>1. \A j \in 1..Len(s) : s[j] = e => j = i
      BY <2>1
    <3>2. RemoveFirst(s, e) \in Seq(S)
      BY <2>1, <3>1, RemoveFirstPresent
    <3>3. Len(RemoveFirst(s, e)) = Len(s) - 1
      BY <2>1, <3>1, RemoveFirstPresent
    <3>4. Spliced(RemoveFirst(s, e), s, i)
      BY <2>1, <3>1, RemoveFirstPresent
    <3> QED  BY <3>2, <3>3, <3>4 DEF Spliced
  <2> HIDE DEF q
  <2>3. \A j, k \in 1..Len(q) : q[j] = q[k] => j = k
    BY SMTT(30), <2>1, <2>2
  <2>4. \A j \in 1..Len(q) : q[j] # e /\ \E k \in 1..Len(s) : q[j] = s[k]
    BY <2>1, <2>2
  <2>5. \A k \in 1..Len(s) : s[k] # e => \E j \in 1..Len(q) : q[j] = s[k]
    <3>1. TAKE k \in 1..Len(s)
    <3>2. HAVE s[k] # e
    <3>3. CASE k < i
      <4>1. k \in 1..Len(q) /\ q[k] = s[k]
        BY <2>2, <3>3
      <4> QED  BY <4>1
    <3>4. CASE k > i
      <4>1. k-1 \in 1..Len(q) /\ q[k-1] = s[k]
        BY <2>2, <3>4
      <4> QED  BY <4>1
    <3> QED  BY <2>1, <3>2, <3>3, <3>4
  <2> QED  BY <2>2, <2>3, <2>4, <2>5 DEF q
<1> QED  BY <1>1, <1>2

-----------------------------------------------------------------------------
(* The inductive invariant.                                                 *)

\* Calls that have not been made are in no table.
IdleCalls == \A r \in Reqs : IF pc[r] = "idle" THEN ~aborted[r]
                             ELSE rid[r] \in Ids /\ rsock[r] \in Socks

CallInv == TypeOK /\ WaitersAreQueued /\ OneOwner /\ IdleCalls

\* Taking a call out of the queue takes out nothing else.
LEMMA QueueAfterAbortProperties ==
    ASSUME TypeOK, WaitersAreQueued, NEW e
    PROVE  LET q == QueueAfterAbort(e)
           IN  /\ q \in Seq(Reqs)
               /\ \A j \in 1..Len(q) :
                     q[j] # e /\ \E k \in 1..Len(waiters) : q[j] = waiters[k]
               /\ \A k \in 1..Len(waiters) :
                     waiters[k] # e => \E j \in 1..Len(q) : q[j] = waiters[k]
               /\ \A j, k \in 1..Len(q) : q[j] = q[k] => j = k
BY RemoveFirstDistinct DEF TypeOK, WaitersAreQueued, QueueAfterAbort

\* The types of what the shared steps assign.
LEMMA DisposedFields ==
    ASSUME NEW x \in SessionFields
    PROVE  [x EXCEPT !.disposed = TRUE, !.subprocess = FALSE] \in SessionFields
BY DEF SessionFields

LEMMA FieldUpdates ==
    ASSUME NEW x \in SessionFields
    PROVE  /\ [x EXCEPT !.subprocess = TRUE] \in SessionFields
           /\ [x EXCEPT !.pid = TRUE, !.ready = TRUE] \in SessionFields
           /\ [x EXCEPT !.exitCode = TRUE] \in SessionFields
           /\ [x EXCEPT !.exitCode = TRUE, !.ready = TRUE, !.subprocess = FALSE]
                 \in SessionFields
BY DEF SessionFields

LEMMA DisposeType ==
    ASSUME TypeOK, NEW S, Dispose(S)
    PROVE  /\ sess' \in [Reqs -> SessionFields]
           /\ clients' \in [Reqs -> [Socks -> Reqs \cup {None}]]
BY DEF TypeOK, Dispose, SessionFields, NoClients

LEMMA DiscardType ==
    ASSUME TypeOK, NEW D, Discard(D)
    PROVE  /\ sess' \in [Reqs -> SessionFields]
           /\ clients' \in [Reqs -> [Socks -> Reqs \cup {None}]]
           /\ sessions' \in [Ids -> Reqs \cup {None}]
<1>1. Dispose({sessions[id] : id \in D} \ {None})
  BY DEF Discard
<1> QED  BY <1>1, DisposeType DEF Discard, TypeOK

LEMMA ReleaseType ==
    ASSUME TypeOK, NEW r \in Reqs, NEW st \in Stages, ReleaseSlot(r, st)
    PROVE  /\ inUse' \in Nat
           /\ waiters' \in Seq(Reqs)
           /\ pc' \in [Reqs -> Stages]
<1>1. CASE waiters = <<>>
  BY <1>1 DEF TypeOK, ReleaseSlot
<1>2. CASE waiters # <<>>
  <2>1. waiters \in Seq(Reqs) /\ inUse \in Nat /\ pc \in [Reqs -> Stages]
    BY DEF TypeOK
  <2>2. Head(waiters) \in Reqs /\ Tail(waiters) \in Seq(Reqs)
    BY <1>2, <2>1
  <2>3. "acquired" \in Stages
    BY DEF Stages
  <2> QED  BY SMTT(30), <1>2, <2>1, <2>2, <2>3 DEF ReleaseSlot
<1> QED  BY <1>1, <1>2

LEMMA EnterType ==
    ASSUME TypeOK, NEW r \in Reqs, NEW k \in Socks, NEW id \in Ids, Enter(r, k, id)
    PROVE  /\ rid' \in [Reqs -> Ids \cup {None}]
           /\ rsock' \in [Reqs -> Socks \cup {None}]
           /\ aborted' \in [Reqs -> BOOLEAN]
           /\ pending' \in [Ids -> Reqs \cup {None}]
           /\ \A st \in Stages :
                 [PcAfterAbort({pending[id]}) EXCEPT ![r] = st] \in [Reqs -> Stages]
BY DEF TypeOK, Enter, Abort, PcAfterAbort, Stages, Settled

LEMMA TypeStep == TypeOK /\ WaitersAreQueued /\ [Next]_vars => TypeOK'
<1> SUFFICES ASSUME TypeOK, WaitersAreQueued, [Next]_vars
             PROVE  TypeOK'
  OBVIOUS
<1> USE DEF callVars, limiterVars, tableVars, objectVars, outsideVars
<1>1. ASSUME NEW r \in Reqs, NEW k \in Socks, NEW id \in Ids,
             AttachExisting(r, k, id)
      PROVE  TypeOK'
  <2>1. sessions[id] \in Reqs
    BY <1>1 DEF TypeOK, AttachExisting, Mapped
  <2>2. clients' \in [Reqs -> [Socks -> Reqs \cup {None}]]
    BY <1>1, <2>1 DEF TypeOK, AttachExisting
  <2> QED
    BY <1>1, <2>1, <2>2, EnterType, QueueAfterAbortProperties
    DEF TypeOK, AttachExisting, Stages
<1>2. ASSUME NEW r \in Reqs, NEW k \in Socks, NEW id \in Ids, SpawnNew(r, k, id)
      PROVE  TypeOK'
  <2>1. pc' \in [Reqs -> Stages]
    <3>1. /\ "acquired" \in Stages /\ "queued" \in Stages
      BY DEF Stages
    <3>2. Enter(r, k, id)
      BY <1>2 DEF SpawnNew
    <3>3. /\ [PcAfterAbort({pending[id]}) EXCEPT ![r] = "acquired"] \in [Reqs -> Stages]
          /\ [PcAfterAbort({pending[id]}) EXCEPT ![r] = "queued"] \in [Reqs -> Stages]
      BY <3>1, <3>2, EnterType
    <3>4. \/ pc' = [PcAfterAbort({pending[id]}) EXCEPT ![r] = "acquired"]
          \/ pc' = [PcAfterAbort({pending[id]}) EXCEPT ![r] = "queued"]
      BY <1>2 DEF SpawnNew
    <3> QED  BY <3>3, <3>4
  <2>2. inUse' \in Nat /\ waiters' \in Seq(Reqs)
    <3>1. QueueAfterAbort(pending[id]) \in Seq(Reqs)
      BY QueueAfterAbortProperties
    <3>2. Append(QueueAfterAbort(pending[id]), r) \in Seq(Reqs)
      BY <3>1
    <3>3. inUse \in Nat
      BY DEF TypeOK
    <3> QED  BY SMTT(30), <1>2, <3>1, <3>2, <3>3 DEF SpawnNew
  <2>3. killTimers' \subseteq Ids
    BY <1>2 DEF SpawnNew, TypeOK
  <2> QED
    BY <1>2, <2>1, <2>2, <2>3, EnterType, DiscardType DEF TypeOK, SpawnNew
<1>3. ASSUME NEW r \in Reqs, SpawnStart(r)
      PROVE  TypeOK'
  <2>1. CASE ReleaseSlot(r, "canceled") /\ ClearPending(r) /\ UNCHANGED <<sess, child>>
    BY <1>3, <2>1, ReleaseType DEF TypeOK, SpawnStart, ClearPending, Stages, Settled
  <2>2. CASE ~aborted[r]
    <3>1. sess' \in [Reqs -> SessionFields]
      <4>1. [sess[r] EXCEPT !.subprocess = TRUE] \in SessionFields
        BY FieldUpdates DEF TypeOK
      <4> QED  BY <1>3, <2>2, <4>1 DEF TypeOK, SpawnStart
    <3>2. child' \in [Reqs -> ChildStates] /\ pc' \in [Reqs -> Stages]
      BY <1>3, <2>2 DEF TypeOK, SpawnStart, Stages, ChildStates
    <3> QED  BY <1>3, <2>2, <3>1, <3>2 DEF TypeOK, SpawnStart
  <2> QED  BY <1>3, <2>1, <2>2 DEF SpawnStart
<1>4. ASSUME NEW r \in Reqs, SpawnThrows(r)
      PROVE  TypeOK'
  BY <1>4, ReleaseType DEF TypeOK, SpawnThrows, ClearPending, Stages, Settled
<1>5. ASSUME NEW r \in Reqs, SpawnSettled(r)
      PROVE  TypeOK'
  <2>1. pending' \in [Ids -> Reqs \cup {None}]
    BY <1>5 DEF TypeOK, SpawnSettled, ClearPending
  <2>2. inUse' \in Nat /\ waiters' \in Seq(Reqs) /\ pc' \in [Reqs -> Stages]
    BY <1>5, ReleaseType DEF SpawnSettled, Stages, Settled
  <2>3. /\ sess' \in [Reqs -> SessionFields]
        /\ clients' \in [Reqs -> [Socks -> Reqs \cup {None}]]
    <3>1. CASE Dispose({r})
      BY <3>1, DisposeType
    <3>2. CASE /\ clients' = [clients EXCEPT ![r] = [@ EXCEPT ![rsock[r]] = r]]
               /\ UNCHANGED sess
      BY <3>2 DEF TypeOK
    <3> QED  BY <1>5, <3>1, <3>2 DEF SpawnSettled
  <2>4. /\ sessions' \in [Ids -> Reqs \cup {None}]
        /\ target' \in [Reqs -> Reqs \cup {None}]
    <3>1. CASE sessions' = [sessions EXCEPT ![rid[r]] = None] /\ UNCHANGED target
      BY <3>1 DEF TypeOK
    <3>2. CASE UNCHANGED <<sessions, target>>
      BY <3>2 DEF TypeOK
    <3>3. CASE /\ sessions' = [sessions EXCEPT ![rid[r]] = r]
               /\ target' = [target EXCEPT ![r] = r]
      BY <3>3 DEF TypeOK
    <3> QED  BY <1>5, <3>1, <3>2, <3>3 DEF SpawnSettled
  <2> QED  BY <1>5, <2>1, <2>2, <2>3, <2>4 DEF TypeOK, SpawnSettled
<1>6. ASSUME NEW r \in Reqs, AttachAborted(r)
      PROVE  TypeOK'
  <2>1. pending' \in [Ids -> Reqs \cup {None}]
    BY <1>6 DEF TypeOK, AttachAborted, ClearPending
  <2>2. pc' \in [Reqs -> Stages]
    BY <1>6 DEF TypeOK, AttachAborted, Stages, Settled
  <2>3. /\ sess' \in [Reqs -> SessionFields]
        /\ clients' \in [Reqs -> [Socks -> Reqs \cup {None}]]
        /\ sessions' \in [Ids -> Reqs \cup {None}]
    <3>1. CASE Dispose({r}) /\ sessions' = [sessions EXCEPT ![rid[r]] = None]
      BY <3>1, DisposeType DEF TypeOK
    <3>2. CASE /\ clients' = [clients EXCEPT ![target[r]] =
                                 ClientsWithout(target[r], rsock[r], r)]
               /\ UNCHANGED <<sess, sessions>>
      <4>1. CASE target[r] \in Reqs
        <5>1. ClientsWithout(target[r], rsock[r], r) \in [Socks -> Reqs \cup {None}]
          <6>1. clients[target[r]] \in [Socks -> Reqs \cup {None}]
            BY <4>1 DEF TypeOK
          <6> QED  BY <6>1 DEF ClientsWithout
        <5> QED  BY <3>2, <4>1, <5>1 DEF TypeOK
      <4>2. CASE target[r] \notin Reqs
        BY <3>2, <4>2 DEF TypeOK
      <4> QED  BY <4>1, <4>2
    <3> QED  BY <1>6, <3>1, <3>2 DEF AttachAborted
  <2> QED  BY <1>6, <2>1, <2>2, <2>3 DEF TypeOK, AttachAborted
<1>7. ASSUME NEW r \in Reqs, AttachDone(r)
      PROVE  TypeOK'
  BY <1>7 DEF TypeOK, AttachDone, ClearPending, Stages, Settled
<1>8. ASSUME NEW r \in Reqs, CancelCreateOrAttach(r)
      PROVE  TypeOK'
  BY <1>8, QueueAfterAbortProperties
  DEF TypeOK, CancelCreateOrAttach, Abort, PcAfterAbort, Stages, Settled
<1>9. ASSUME NEW D \in SUBSET Ids, KillAt(D)
      PROVE  TypeOK'
  BY <1>9 DEF TypeOK, KillAt, SessionFields
<1>10. ASSUME NEW k \in Socks, NEW D \in SUBSET Ids, DetachAt(k, D), open' \subseteq Socks
       PROVE  TypeOK'
  <2> DEFINE dead == {id \in D : /\ Mapped(id) /\ ~Alive(sessions[id])
                                 /\ [clients[sessions[id]] EXCEPT ![k] = None] = NoClients}
  <2>1. sess' \in [Reqs -> SessionFields]
    <3>1. sess' = [s \in Reqs |-> IF \E id \in dead : sessions[id] = s
                       THEN [sess[s] EXCEPT !.disposed = TRUE, !.subprocess = FALSE]
                       ELSE sess[s]]
      BY <1>10 DEF DetachAt
    <3> HIDE DEF dead
    <3>2. \A s \in Reqs : /\ sess[s] \in SessionFields
                          /\ [sess[s] EXCEPT !.disposed = TRUE, !.subprocess = FALSE]
                                \in SessionFields
      BY DisposedFields DEF TypeOK
    <3> QED  BY <3>1, <3>2
  <2>2. clients' \in [Reqs -> [Socks -> Reqs \cup {None}]]
    <3>1. clients' = [s \in Reqs |-> IF \E id \in D : sessions[id] = s
                                    THEN [clients[s] EXCEPT ![k] = None] ELSE clients[s]]
      BY <1>10 DEF DetachAt
    <3>2. \A s \in Reqs : /\ clients[s] \in [Socks -> Reqs \cup {None}]
                          /\ [clients[s] EXCEPT ![k] = None] \in [Socks -> Reqs \cup {None}]
      BY DEF TypeOK
    <3> QED  BY <3>1, <3>2
  <2>3. sessions' \in [Ids -> Reqs \cup {None}]
    BY <1>10 DEF TypeOK, DetachAt
  <2> QED  BY <1>10, <2>1, <2>2, <2>3 DEF TypeOK, DetachAt
<1>11. ASSUME HostDispose
       PROVE  TypeOK'
  <2>1. Discard(Ids)
    BY <1>11 DEF HostDispose
  <2> QED
    BY <1>11, <2>1, DiscardType
    DEF TypeOK, HostDispose, Abort, PcAfterAbort, Stages, Settled
<1>12. ASSUME NEW id \in Ids, KillTimeout(id)
       PROVE  TypeOK'
  <2>1. PICK D : Discard(D)
    BY <1>12 DEF KillTimeout
  <2> QED  BY <1>12, <2>1, DiscardType DEF TypeOK, KillTimeout
<1>13. ASSUME NEW s \in Reqs, CleanupTimeout(s)
       PROVE  TypeOK'
  <2>1. PICK D : Discard(D)
    BY <1>13 DEF CleanupTimeout
  <2> QED  BY <1>13, <2>1, DiscardType DEF TypeOK, CleanupTimeout
<1>14. ASSUME NEW s \in Reqs, ChildStep(s)
       PROVE  TypeOK'
  <2>1. CASE ChildSpawned(s)
    <3>1. sess' \in [Reqs -> SessionFields]
      <4>1. sess[s] \in SessionFields /\ [sess[s] EXCEPT !.pid = TRUE, !.ready = TRUE] \in SessionFields
        BY FieldUpdates DEF TypeOK
      <4> QED  BY <2>1, <4>1 DEF TypeOK, ChildSpawned
    <3>2. child' \in [Reqs -> ChildStates]
      BY <2>1 DEF TypeOK, ChildSpawned, ChildStates
    <3> QED  BY <2>1, <3>1, <3>2 DEF TypeOK, ChildSpawned
  <2>2. CASE ChildExitFrame(s)
    <3>1. sess' \in [Reqs -> SessionFields]
      <4>1. sess[s] \in SessionFields /\ [sess[s] EXCEPT !.exitCode = TRUE] \in SessionFields
        BY FieldUpdates DEF TypeOK
      <4> QED  BY <2>2, <4>1 DEF TypeOK, ChildExitFrame
    <3>2. child' \in [Reqs -> ChildStates]
      BY <2>2 DEF TypeOK, ChildExitFrame, ChildStates
    <3> QED  BY <2>2, <3>1, <3>2 DEF TypeOK, ChildExitFrame, HandleSessionExit
  <2>3. CASE ChildGone(s)
    <3>1. sess' \in [Reqs -> SessionFields]
      <4>1. [sess[s] EXCEPT !.exitCode = TRUE, !.ready = TRUE, !.subprocess = FALSE]
              \in SessionFields
        BY FieldUpdates DEF TypeOK
      <4> QED  BY <2>3, <4>1 DEF TypeOK, ChildGone
    <3>2. child' \in [Reqs -> ChildStates]
      BY <2>3 DEF TypeOK, ChildGone, ChildStates
    <3> QED  BY <2>3, <3>1, <3>2 DEF TypeOK, ChildGone, HandleSessionExit
  <2> QED  BY <1>14, <2>1, <2>2, <2>3 DEF ChildStep
<1>15. CASE UNCHANGED vars
  BY <1>15 DEF vars, TypeOK
<1>16. ASSUME NEW id \in Ids, Kill(id)
       PROVE  TypeOK'
  BY <1>9, <1>16 DEF Kill
<1>17. ASSUME KillAll
       PROVE  TypeOK'
  BY <1>9, <1>17 DEF KillAll
<1>18. ASSUME NEW k \in Socks, NEW id \in Ids, Detach(k, id)
       PROVE  TypeOK'
  BY <1>10, <1>18 DEF Detach, TypeOK
<1>19. ASSUME NEW k \in Socks, SocketClose(k)
       PROVE  TypeOK'
  BY <1>10, <1>19 DEF SocketClose, TypeOK
<1>20. ASSUME NEW r \in Reqs, CallStep(r)
       PROVE  TypeOK'
  BY <1>3, <1>4, <1>5, <1>6, <1>7, <1>8, <1>20
  DEF CallStep, SpawnReady, SpawnTimeout
<1> QED
  BY <1>1, <1>2, <1>11, <1>12, <1>13, <1>14, <1>15, <1>16, <1>17, <1>18, <1>19,
     <1>20
  DEF Next

-----------------------------------------------------------------------------
(* Who owns an id and who waits in the queue: one lemma per shape of step.  *)

\* A new call takes its id over from the call that had it.
LEMMA EnterKeepsCallInv ==
    ASSUME CallInv, TypeOK',
           NEW r \in Reqs, NEW k \in Socks, NEW id \in Ids, Enter(r, k, id),
           NEW st \in {"attaching", "acquired", "queued"},
           pc' = [PcAfterAbort({pending[id]}) EXCEPT ![r] = st],
           waiters' = IF st = "queued" THEN Append(QueueAfterAbort(pending[id]), r)
                                       ELSE QueueAfterAbort(pending[id])
    PROVE  CallInv'
<1> DEFINE p == pending[id]
<1> DEFINE q == QueueAfterAbort(p)
<1>1. /\ pc[r] = "idle" /\ r # p
      /\ \A x \in Reqs : x # r => rid'[x] = rid[x] /\ rsock'[x] = rsock[x]
      /\ rid'[r] = id /\ rsock'[r] = k
      /\ \A x \in Reqs : aborted'[x] = (aborted[x] \/ x = p)
      /\ pending' = [pending EXCEPT ![id] = r]
  <2>1. pc[r] = "idle"
    BY DEF Enter
  <2>2. r # p
    BY <2>1, NoneAssumption DEF CallInv, OneOwner, InFlight
  <2>3. /\ \A x \in Reqs : x # r => rid'[x] = rid[x] /\ rsock'[x] = rsock[x]
        /\ rid'[r] = id /\ rsock'[r] = k
    BY DEF CallInv, TypeOK, Enter
  <2>4. \A x \in Reqs : aborted'[x] = (aborted[x] \/ x = p)
    BY DEF CallInv, TypeOK, Enter, Abort
  <2>5. pending' = [pending EXCEPT ![id] = r]
    BY DEF Enter
  <2> QED  BY <2>1, <2>2, <2>3, <2>4, <2>5
<1>2. /\ pc'[r] = st
      /\ \A x \in Reqs : x # r /\ x = p /\ pc[x] = "queued" => pc'[x] = "canceled"
      /\ \A x \in Reqs : x # r /\ ~(x = p /\ pc[x] = "queued") => pc'[x] = pc[x]
  BY DEF PcAfterAbort
<1>3. /\ q \in Seq(Reqs)
      /\ \A j \in 1..Len(q) : q[j] # p /\ \E i \in 1..Len(waiters) : q[j] = waiters[i]
      /\ \A i \in 1..Len(waiters) :
            waiters[i] # p => \E j \in 1..Len(q) : q[j] = waiters[i]
      /\ \A i, j \in 1..Len(q) : q[i] = q[j] => i = j
  BY QueueAfterAbortProperties DEF CallInv
<1> HIDE DEF q
<1>4. waiters' = IF st = "queued" THEN Append(q, r) ELSE q
  BY DEF q
<1>5. OneOwner'
  <2>1. ASSUME NEW x \in Reqs, pc'[x] \in InFlight, ~aborted'[x]
        PROVE  pending'[rid'[x]] = x
    <3>1. CASE x = r
      BY <1>1, <3>1 DEF CallInv, TypeOK
    <3>2. CASE x # r
      <4>1. pc[x] \in InFlight /\ ~aborted[x] /\ x # p
        BY <1>1, <1>2, <2>1, <3>2 DEF InFlight
      <4>2. pending[rid[x]] = x /\ rid[x] # id
        BY <4>1 DEF CallInv, OneOwner
      <4> QED  BY <1>1, <3>2, <4>2 DEF CallInv, TypeOK
    <3> QED  BY <3>1, <3>2
  <2>2. ASSUME NEW i \in Ids, pending'[i] # None
        PROVE  /\ rid'[pending'[i]] = i
               /\ pc'[pending'[i]] \in InFlight /\ ~aborted'[pending'[i]]
    <3>1. CASE i = id
      <4>1. pending'[i] = r
        BY <1>1, <3>1 DEF CallInv, TypeOK
      <4>2. ~aborted'[r] /\ pc'[r] \in InFlight
        BY <1>1, <1>2 DEF CallInv, IdleCalls, InFlight
      <4> QED  BY <1>1, <3>1, <4>1, <4>2
    <3>2. CASE i # id
      <4>1. pending'[i] = pending[i] /\ pending[i] \in Reqs
        BY <1>1, <2>2, <3>2 DEF CallInv, TypeOK
      <4>2. /\ rid[pending[i]] = i
            /\ pc[pending[i]] \in InFlight /\ ~aborted[pending[i]]
        BY <2>2, <4>1, NoneAssumption DEF CallInv, OneOwner
      <4>3. pending[i] # r /\ pending[i] # p
        BY <1>1, <3>2, <4>1, <4>2, NoneAssumption DEF CallInv, OneOwner, InFlight
      <4>4. pc'[pending[i]] = pc[pending[i]]
        BY <1>2, <4>1, <4>3
      <4>5. ~aborted'[pending[i]]
        BY <1>1, <4>1, <4>2, <4>3
      <4>6. rid'[pending[i]] = rid[pending[i]]
        BY <1>1, <4>1, <4>3
      <4> QED  BY <4>1, <4>2, <4>4, <4>5, <4>6
    <3> QED  BY <3>1, <3>2
  <2> QED  BY <2>1, <2>2 DEF OneOwner
<1>6. IdleCalls'
  <2>1. ASSUME NEW x \in Reqs
        PROVE  IF pc'[x] = "idle" THEN ~aborted'[x]
               ELSE rid'[x] \in Ids /\ rsock'[x] \in Socks
    <3>1. CASE x = r
      BY <1>1, <1>2, <3>1
    <3>2. CASE x # r
      <4>1. pc'[x] = "idle" <=> pc[x] = "idle"
        BY <1>2, <3>2
      <4>2. pc[x] = "idle" => x # p
        BY NoneAssumption DEF CallInv, OneOwner, InFlight
      <4> QED  BY <1>1, <3>2, <4>1, <4>2 DEF CallInv, IdleCalls
    <3> QED  BY <3>1, <3>2
  <2> QED  BY <2>1 DEF IdleCalls
<1>7. WaitersAreQueued'
  <2>1. ASSUME NEW j \in 1..Len(q)
        PROVE  /\ q[j] \in Reqs /\ q[j] # r
               /\ pc'[q[j]] = "queued" /\ ~aborted'[q[j]]
               /\ pending'[rid'[q[j]]] = q[j]
    <3>1. PICK i \in 1..Len(waiters) : q[j] = waiters[i] /\ q[j] # p
      BY <1>3
    <3>2. /\ q[j] \in Reqs /\ pc[q[j]] = "queued" /\ ~aborted[q[j]]
          /\ pending[rid[q[j]]] = q[j]
      <4>1. q[j] \in Reqs
        BY <1>3
      <4>2. /\ pc[waiters[i]] = "queued" /\ ~aborted[waiters[i]]
            /\ pending[rid[waiters[i]]] = waiters[i]
        BY DEF CallInv, WaitersAreQueued
      <4> QED  BY <3>1, <4>1, <4>2
    <3>3. q[j] # r /\ rid[q[j]] # id
      BY <1>1, <3>1, <3>2
    <3>4. pc'[q[j]] = "queued" /\ ~aborted'[q[j]]
      BY <1>1, <1>2, <3>1, <3>2, <3>3
    <3>5. pending'[rid'[q[j]]] = q[j]
      BY <1>1, <3>2, <3>3 DEF CallInv, TypeOK
    <3> QED  BY <3>2, <3>3, <3>4, <3>5
  <2>2. ASSUME NEW x \in Reqs, x # r, pc'[x] = "queued"
        PROVE  \E j \in 1..Len(q) : q[j] = x
    <3>1. pc[x] = "queued" /\ x # p
      BY <1>2, <2>2
    <3>2. PICK i \in 1..Len(waiters) : waiters[i] = x
      BY <3>1 DEF CallInv, WaitersAreQueued
    <3> QED  BY <1>3, <3>1, <3>2
  <2>3. CASE st # "queued"
    <3>1. waiters' = q
      BY <1>4, <2>3
    <3>2. \A x \in Reqs : pc'[x] = "queued" => x # r
      BY <1>2, <2>3
    <3>3. \A i \in 1..Len(waiters') :
             LET w == waiters'[i]
             IN  pc'[w] = "queued" /\ ~aborted'[w] /\ pending'[rid'[w]] = w
      BY <2>1, <3>1
    <3>4. \A x \in Reqs : pc'[x] = "queued" =>
             \E i \in 1..Len(waiters') : waiters'[i] = x
      BY <2>2, <3>1, <3>2
    <3>5. \A i, j \in 1..Len(waiters') : waiters'[i] = waiters'[j] => i = j
      BY <1>3, <3>1
    <3> QED  BY <3>3, <3>4, <3>5 DEF WaitersAreQueued
  <2>4. CASE st = "queued"
    <3>1. waiters' = Append(q, r) /\ q \in Seq(Reqs)
      BY <1>3, <1>4, <2>4
    <3>2. /\ Len(waiters') = Len(q) + 1
          /\ \A j \in 1..Len(q) : waiters'[j] = q[j]
          /\ waiters'[Len(q) + 1] = r
      BY <3>1
    <3>3. pc'[r] = "queued" /\ ~aborted'[r] /\ pending'[rid'[r]] = r
      BY <1>1, <1>2, <2>4 DEF CallInv, IdleCalls, TypeOK
    <3>4. ASSUME NEW i \in 1..Len(waiters')
          PROVE  LET w == waiters'[i]
                 IN  pc'[w] = "queued" /\ ~aborted'[w] /\ pending'[rid'[w]] = w
      <4>1. CASE i \in 1..Len(q)
        BY <2>1, <3>2, <4>1
      <4>2. CASE i = Len(q) + 1
        BY <3>2, <3>3, <4>2
      <4> QED  BY <3>1, <3>2, <4>1, <4>2
    <3>5. ASSUME NEW x \in Reqs, pc'[x] = "queued"
          PROVE  \E i \in 1..Len(waiters') : waiters'[i] = x
      <4>1. CASE x = r
        BY <3>1, <3>2, <4>1
      <4>2. CASE x # r
        <5>1. PICK j \in 1..Len(q) : q[j] = x
          BY <2>2, <3>5, <4>2
        <5> QED  BY <3>1, <3>2, <5>1
      <4> QED  BY <4>1, <4>2
    <3>6. \A i, j \in 1..Len(waiters') : waiters'[i] = waiters'[j] => i = j
      <4>1. Len(q) \in Nat
        BY <3>1
      <4>2. \A i \in 1..Len(waiters') : i \in 1..Len(q) \/ i = Len(q) + 1
        BY <3>2, <4>1
      <4>3. \A i \in 1..Len(q) : waiters'[i] = q[i] /\ q[i] # r
        BY <2>1, <3>2
      <4> QED  BY SMTT(30), <1>3, <3>2, <4>2, <4>3
    <3> QED  BY <3>4, <3>5, <3>6 DEF WaitersAreQueued
  <2> QED  BY <2>3, <2>4
<1> QED  BY <1>5, <1>6, <1>7 DEF CallInv

\* A call that holds a slot or attaches goes on or settles; a waiter may get
\* the slot it releases.
LEMMA AdvanceKeepsCallInv ==
    ASSUME CallInv, TypeOK',
           NEW r \in Reqs, pc[r] \in {"acquired", "spawning", "attaching"},
           NEW st \in {"spawning", "attaching"} \cup Settled,
           UNCHANGED <<rid, rsock, aborted>>,
           \/ st \in {"spawning", "attaching"} /\ UNCHANGED pending
           \/ st \in Settled /\ ClearPending(r),
           \/ pc' = [pc EXCEPT ![r] = st] /\ UNCHANGED waiters
           \/ ReleaseSlot(r, st)
    PROVE  CallInv'
<1> DEFINE h == Head(waiters)
<1>1. /\ rid' = rid /\ rsock' = rsock /\ aborted' = aborted
      /\ pc \in [Reqs -> Stages] /\ waiters \in Seq(Reqs)
      /\ pending \in [Ids -> Reqs \cup {None}]
  BY DEF CallInv, TypeOK
<1>2. \/ /\ UNCHANGED waiters
         /\ pc' = [pc EXCEPT ![r] = st]
      \/ /\ waiters # <<>>
         /\ waiters' = Tail(waiters)
         /\ pc' = [pc EXCEPT ![r] = st, ![h] = "acquired"]
  BY DEF ReleaseSlot
<1>3. waiters # <<>> => /\ h \in Reqs /\ h = waiters[1] /\ 1 \in 1..Len(waiters)
                        /\ pc[h] = "queued" /\ h # r
  <2> SUFFICES ASSUME waiters # <<>>
               PROVE  /\ h \in Reqs /\ h = waiters[1] /\ 1 \in 1..Len(waiters)
                      /\ pc[h] = "queued" /\ h # r
    OBVIOUS
  <2>1. h \in Reqs /\ h = waiters[1] /\ 1 \in 1..Len(waiters)
    BY <1>1
  <2>2. pc[h] = "queued"
    BY <2>1 DEF CallInv, WaitersAreQueued
  <2> QED  BY <2>1, <2>2
<1>4. /\ pc'[r] = st
      /\ \A x \in Reqs :
            x # r => \/ pc'[x] = pc[x]
                     \/ pc[x] = "queued" /\ pc'[x] = "acquired"
  BY <1>1, <1>2, <1>3
<1>5. \A i \in Ids :
         \/ pending'[i] = pending[i] /\ (pending[i] = r => st \notin Settled)
         \/ pending[i] = r /\ pending'[i] = None /\ st \in Settled
  <2>1. CASE st \notin Settled
    BY <2>1
  <2>2. CASE st \in Settled
    <3>1. ClearPending(r)
      BY <2>2 DEF Settled
    <3>2. \A i \in Ids : pending[i] = r => rid[r] = i
      BY NoneAssumption DEF CallInv, OneOwner
    <3> QED  BY <1>1, <2>2, <3>1, <3>2 DEF ClearPending
  <2> QED  BY <2>1, <2>2
<1>6. OneOwner'
  <2>1. ASSUME NEW x \in Reqs, pc'[x] \in InFlight, ~aborted[x]
        PROVE  pending'[rid[x]] = x
    <3>1. pc[x] \in InFlight /\ (x = r => st \notin Settled)
      BY <1>4, <2>1 DEF InFlight, Settled
    <3>2. pending[rid[x]] = x /\ rid[x] \in Ids
      BY <2>1, <3>1 DEF CallInv, OneOwner, IdleCalls, InFlight
    <3> QED  BY <1>5, <3>1, <3>2
  <2>2. ASSUME NEW i \in Ids, pending'[i] # None
        PROVE  /\ rid[pending'[i]] = i
               /\ pc'[pending'[i]] \in InFlight /\ ~aborted[pending'[i]]
    <3>1. pending'[i] = pending[i] /\ pending[i] \in Reqs
          /\ (pending[i] = r => st \notin Settled)
      BY <1>1, <1>5, <2>2
    <3>2. /\ rid[pending[i]] = i /\ pc[pending[i]] \in InFlight
          /\ ~aborted[pending[i]]
      BY <2>2, <3>1 DEF CallInv, OneOwner
    <3>3. pc'[pending[i]] \in InFlight
      BY <1>4, <3>1, <3>2 DEF InFlight
    <3> QED  BY <3>1, <3>2, <3>3
  <2> QED  BY <1>1, <2>1, <2>2 DEF OneOwner
<1>7. IdleCalls'
  <2>1. ASSUME NEW x \in Reqs
        PROVE  pc'[x] = "idle" <=> pc[x] = "idle"
    BY <1>4 DEF Settled
  <2> QED  BY <1>1, <2>1 DEF CallInv, IdleCalls
<1>8. WaitersAreQueued'
  <2>1. ASSUME NEW i \in 1..Len(waiters), pc'[waiters[i]] = "queued"
        PROVE  ~aborted[waiters[i]] /\ pending'[rid[waiters[i]]] = waiters[i]
    <3>1. /\ waiters[i] \in Reqs /\ pc[waiters[i]] = "queued" /\ ~aborted[waiters[i]]
          /\ pending[rid[waiters[i]]] = waiters[i]
      BY <1>1 DEF CallInv, WaitersAreQueued
    <3>2. rid[waiters[i]] \in Ids /\ waiters[i] # r
      BY <3>1 DEF CallInv, IdleCalls
    <3> QED  BY <1>5, <3>1, <3>2
  <2>2. CASE UNCHANGED waiters /\ pc' = [pc EXCEPT ![r] = st]
    <3>1. \A x \in Reqs : pc'[x] = "queued" <=> pc[x] = "queued"
      BY <1>1, <2>2 DEF Settled
    <3>2. \A i \in 1..Len(waiters) : waiters[i] \in Reqs /\ pc[waiters[i]] = "queued"
      BY <1>1 DEF CallInv, WaitersAreQueued
    <3> QED  BY <1>1, <2>1, <2>2, <3>1, <3>2 DEF CallInv, WaitersAreQueued
  <2>3. CASE /\ waiters # <<>>
             /\ waiters' = Tail(waiters)
             /\ pc' = [pc EXCEPT ![r] = st, ![h] = "acquired"]
    <3>1. /\ Len(waiters') = Len(waiters) - 1
          /\ \A i \in 1..Len(waiters') : /\ waiters'[i] = waiters[i+1]
                                         /\ i+1 \in 1..Len(waiters)
      BY <1>1, <2>3
    <3>2. \A i, j \in 1..Len(waiters) : waiters[i] = waiters[j] => i = j
      BY DEF CallInv, WaitersAreQueued
    <3>3. \A x \in Reqs : pc'[x] = "queued" <=> pc[x] = "queued" /\ x # h
      BY <1>1, <1>3, <2>3 DEF Settled
    <3>4. ASSUME NEW i \in 1..Len(waiters')
          PROVE  LET w == waiters'[i]
                 IN  pc'[w] = "queued" /\ ~aborted'[w] /\ pending'[rid'[w]] = w
      <4>1. waiters'[i] = waiters[i+1] /\ i+1 \in 1..Len(waiters)
        BY <3>1
      <4>2. waiters[i+1] \in Reqs /\ pc[waiters[i+1]] = "queued"
        BY <1>1, <4>1 DEF CallInv, WaitersAreQueued
      <4>3. waiters[i+1] # h
        BY <1>3, <2>3, <3>2, <4>1
      <4>4. pc'[waiters[i+1]] = "queued"
        BY <3>3, <4>2, <4>3
      <4> QED  BY <1>1, <2>1, <4>1, <4>4
    <3>5. ASSUME NEW x \in Reqs, pc'[x] = "queued"
          PROVE  \E i \in 1..Len(waiters') : waiters'[i] = x
      <4>1. pc[x] = "queued" /\ x # h
        BY <3>3, <3>5
      <4>2. PICK i \in 1..Len(waiters) : waiters[i] = x
        BY <4>1 DEF CallInv, WaitersAreQueued
      <4>3. i # 1
        BY <1>3, <2>3, <4>1, <4>2
      <4>4. i-1 \in 1..Len(waiters') /\ (i-1)+1 = i
        BY <1>1, <3>1, <4>3
      <4> QED  BY <3>1, <4>2, <4>4
    <3>6. \A i, j \in 1..Len(waiters') : waiters'[i] = waiters'[j] => i = j
      BY <3>1, <3>2
    <3> QED  BY <3>4, <3>5, <3>6 DEF WaitersAreQueued
  <2> QED  BY <1>2, <2>2, <2>3
<1> QED  BY <1>6, <1>7, <1>8 DEF CallInv

\* The calls of R are aborted and give their ids up: cancelCreateOrAttach, and
\* dispose, after which the queue is empty.
LEMMA CancelKeepsCallInv ==
    ASSUME CallInv, NEW r \in Reqs, CancelCreateOrAttach(r), TypeOK'
    PROVE  CallInv'
<1> DEFINE q == QueueAfterAbort(r)
<1>1. /\ rid' = rid /\ rsock' = rsock
      /\ \A x \in Reqs : aborted'[x] = (aborted[x] \/ x = r)
      /\ rid[r] \in Ids /\ pending[rid[r]] = r
      /\ \A i \in Ids : pending'[i] = IF i = rid[r] THEN None ELSE pending[i]
      /\ pc[r] # "idle"
  BY DEF CancelCreateOrAttach, Abort, CallInv, IdleCalls, TypeOK
<1>2. /\ pc[r] = "queued" => pc'[r] = "canceled"
      /\ pc[r] # "queued" => pc'[r] = pc[r]
      /\ \A x \in Reqs : x # r => pc'[x] = pc[x]
  BY DEF CancelCreateOrAttach, PcAfterAbort
<1>3. /\ q \in Seq(Reqs)
      /\ \A j \in 1..Len(q) : q[j] # r /\ \E i \in 1..Len(waiters) : q[j] = waiters[i]
      /\ \A i \in 1..Len(waiters) :
            waiters[i] # r => \E j \in 1..Len(q) : q[j] = waiters[i]
      /\ \A i, j \in 1..Len(q) : q[i] = q[j] => i = j
  BY QueueAfterAbortProperties DEF CallInv
<1>4. waiters' = q
  BY DEF CancelCreateOrAttach
<1> HIDE DEF q
<1>5. OneOwner'
  <2>1. ASSUME NEW x \in Reqs, pc'[x] \in InFlight, ~aborted'[x]
        PROVE  pending'[rid[x]] = x
    <3>1. x # r /\ pc[x] \in InFlight /\ ~aborted[x]
      BY <1>1, <1>2, <2>1
    <3>2. pending[rid[x]] = x /\ rid[x] \in Ids
      BY <3>1 DEF CallInv, OneOwner, IdleCalls, InFlight
    <3> QED  BY <1>1, <3>1, <3>2
  <2>2. ASSUME NEW i \in Ids, pending'[i] # None
        PROVE  /\ rid[pending'[i]] = i
               /\ pc'[pending'[i]] \in InFlight /\ ~aborted'[pending'[i]]
    <3>1. i # rid[r] /\ pending'[i] = pending[i] /\ pending[i] \in Reqs
      BY <1>1, <2>2 DEF CallInv, TypeOK
    <3>2. /\ rid[pending[i]] = i /\ pc[pending[i]] \in InFlight
          /\ ~aborted[pending[i]]
      BY <2>2, <3>1 DEF CallInv, OneOwner
    <3> QED  BY <1>1, <1>2, <3>1, <3>2
  <2> QED  BY <1>1, <2>1, <2>2 DEF OneOwner
<1>6. IdleCalls'
  <2>1. \A x \in Reqs : pc'[x] = "idle" <=> pc[x] = "idle"
    BY <1>1, <1>2
  <2> QED  BY <1>1, <2>1 DEF CallInv, IdleCalls
<1>7. WaitersAreQueued'
  <2>1. ASSUME NEW j \in 1..Len(q)
        PROVE  pc'[q[j]] = "queued" /\ ~aborted'[q[j]] /\ pending'[rid'[q[j]]] = q[j]
    <3>1. PICK i \in 1..Len(waiters) : q[j] = waiters[i] /\ q[j] # r
      BY <1>3
    <3>2. /\ pc[waiters[i]] = "queued" /\ ~aborted[waiters[i]]
          /\ pending[rid[waiters[i]]] = waiters[i]
      BY DEF CallInv, WaitersAreQueued
    <3>3. q[j] \in Reqs /\ rid[q[j]] \in Ids /\ rid[q[j]] # rid[r]
      BY <1>1, <1>3, <3>1, <3>2 DEF CallInv, IdleCalls
    <3> QED  BY <1>1, <1>2, <3>1, <3>2, <3>3
  <2>2. ASSUME NEW x \in Reqs, pc'[x] = "queued"
        PROVE  \E j \in 1..Len(q) : q[j] = x
    <3>1. pc[x] = "queued" /\ x # r
      BY <1>2, <2>2
    <3>2. PICK i \in 1..Len(waiters) : waiters[i] = x
      BY <3>1 DEF CallInv, WaitersAreQueued
    <3> QED  BY <1>3, <3>1, <3>2
  <2>3. \A i \in 1..Len(waiters') :
           LET w == waiters'[i]
           IN  pc'[w] = "queued" /\ ~aborted'[w] /\ pending'[rid'[w]] = w
    BY <1>4, <2>1
  <2>4. \A x \in Reqs : pc'[x] = "queued" =>
           \E i \in 1..Len(waiters') : waiters'[i] = x
    BY <1>4, <2>2
  <2>5. \A i, j \in 1..Len(waiters') : waiters'[i] = waiters'[j] => i = j
    BY <1>3, <1>4
  <2> QED  BY <2>3, <2>4, <2>5 DEF WaitersAreQueued
<1> QED  BY <1>5, <1>6, <1>7 DEF CallInv

LEMMA DisposeKeepsCallInv ==
    ASSUME CallInv, HostDispose, TypeOK'
    PROVE  CallInv'
<1> DEFINE R == {pending[id] : id \in Ids}
<1>1. /\ rid' = rid /\ rsock' = rsock /\ waiters' = <<>>
      /\ \A x \in Reqs : aborted'[x] = (aborted[x] \/ x \in R)
      /\ \A i \in Ids : pending'[i] = None
  BY DEF HostDispose, Abort
<1>2. \A x \in Reqs : IF x \in R /\ pc[x] = "queued" THEN pc'[x] = "canceled"
                                                     ELSE pc'[x] = pc[x]
  BY DEF HostDispose, PcAfterAbort
<1>3. \A x \in Reqs : pc[x] \in InFlight => aborted[x] \/ x \in R
  BY DEF CallInv, OneOwner, IdleCalls, InFlight
<1>4. \A x \in Reqs : x \in R => pc[x] # "idle"
  BY NoneAssumption DEF CallInv, OneOwner, InFlight
<1>5. \A x \in Reqs : pc[x] = "queued" => x \in R
  <2> SUFFICES ASSUME NEW x \in Reqs, pc[x] = "queued"
               PROVE  x \in R
    OBVIOUS
  <2>1. PICK i \in 1..Len(waiters) : waiters[i] = x
    BY DEF CallInv, WaitersAreQueued
  <2>2. pending[rid[x]] = x /\ rid[x] \in Ids
    BY <2>1 DEF CallInv, WaitersAreQueued, IdleCalls
  <2> QED  BY <2>2
<1> HIDE DEF R
<1>6. OneOwner'
  BY <1>1, <1>2, <1>3 DEF OneOwner, InFlight
<1>7. IdleCalls'
  BY <1>1, <1>2, <1>4 DEF CallInv, IdleCalls
<1>8. WaitersAreQueued'
  <2>1. \A x \in Reqs : pc'[x] # "queued"
    BY <1>2, <1>5
  <2>2. Len(waiters') = 0
    BY <1>1
  <2> QED  BY <2>1, <2>2 DEF WaitersAreQueued
<1> QED  BY <1>6, <1>7, <1>8 DEF CallInv

\* Every other handler leaves the calls, the queue and the owners alone.
LEMMA OthersKeepCallInv ==
    ASSUME CallInv, TypeOK', UNCHANGED <<callVars, waiters, pending>>
    PROVE  CallInv'
BY DEF CallInv, callVars, WaitersAreQueued, OneOwner, IdleCalls

LEMMA CallInvStep == CallInv /\ [Next]_vars => CallInv'
<1> SUFFICES ASSUME CallInv, [Next]_vars
             PROVE  CallInv'
  OBVIOUS
<1> USE DEF callVars, limiterVars, tableVars, objectVars, outsideVars
<1>1. TypeOK'
  BY TypeStep DEF CallInv
<1>2. ASSUME NEW r \in Reqs, NEW k \in Socks, NEW id \in Ids,
             AttachExisting(r, k, id)
      PROVE  CallInv'
  <2>1. /\ Enter(r, k, id)
        /\ pc' = [PcAfterAbort({pending[id]}) EXCEPT ![r] = "attaching"]
        /\ waiters' = QueueAfterAbort(pending[id])
    BY <1>2 DEF AttachExisting
  <2> QED  BY <1>1, <2>1, EnterKeepsCallInv
<1>3. ASSUME NEW r \in Reqs, NEW k \in Socks, NEW id \in Ids, SpawnNew(r, k, id)
      PROVE  CallInv'
  <2>1. Enter(r, k, id)
    BY <1>3 DEF SpawnNew
  <2>2. CASE /\ waiters' = QueueAfterAbort(pending[id])
             /\ pc' = [PcAfterAbort({pending[id]}) EXCEPT ![r] = "acquired"]
    BY <1>1, <2>1, <2>2, EnterKeepsCallInv
  <2>3. CASE /\ waiters' = Append(QueueAfterAbort(pending[id]), r)
             /\ pc' = [PcAfterAbort({pending[id]}) EXCEPT ![r] = "queued"]
    BY <1>1, <2>1, <2>3, EnterKeepsCallInv
  <2> QED  BY <1>3, <2>2, <2>3 DEF SpawnNew
<1>4. ASSUME NEW r \in Reqs, SpawnStart(r)
      PROVE  CallInv'
  <2>1. pc[r] = "acquired" /\ UNCHANGED <<rid, rsock, aborted>>
    BY <1>4 DEF SpawnStart
  <2>2. CASE ReleaseSlot(r, "canceled") /\ ClearPending(r)
    BY <1>1, <2>1, <2>2, AdvanceKeepsCallInv DEF Settled
  <2>3. CASE /\ pc' = [pc EXCEPT ![r] = "spawning"]
             /\ UNCHANGED <<waiters, pending>>
    BY <1>1, <2>1, <2>3, AdvanceKeepsCallInv
  <2> QED  BY <1>4, <2>2, <2>3 DEF SpawnStart
<1>5. ASSUME NEW r \in Reqs, SpawnThrows(r)
      PROVE  CallInv'
  <2>1. /\ pc[r] = "acquired" /\ UNCHANGED <<rid, rsock, aborted>>
        /\ ReleaseSlot(r, "failed") /\ ClearPending(r)
    BY <1>5 DEF SpawnThrows
  <2> QED  BY <1>1, <2>1, AdvanceKeepsCallInv DEF Settled
<1>6. ASSUME NEW r \in Reqs, SpawnSettled(r)
      PROVE  CallInv'
  <2>1. pc[r] = "spawning" /\ UNCHANGED <<rid, rsock, aborted>>
    BY <1>6 DEF SpawnSettled
  <2>2. CASE ReleaseSlot(r, "canceled") /\ ClearPending(r)
    BY <1>1, <2>1, <2>2, AdvanceKeepsCallInv DEF Settled
  <2>3. CASE ReleaseSlot(r, "failed") /\ ClearPending(r)
    BY <1>1, <2>1, <2>3, AdvanceKeepsCallInv DEF Settled
  <2>4. CASE ReleaseSlot(r, "attaching") /\ UNCHANGED pending
    BY <1>1, <2>1, <2>4, AdvanceKeepsCallInv
  <2> QED  BY <1>6, <2>2, <2>3, <2>4 DEF SpawnSettled
<1>7. ASSUME NEW r \in Reqs, AttachAborted(r)
      PROVE  CallInv'
  <2>1. /\ pc[r] = "attaching" /\ UNCHANGED <<rid, rsock, aborted, waiters>>
        /\ pc' = [pc EXCEPT ![r] = "canceled"] /\ ClearPending(r)
    BY <1>7 DEF AttachAborted
  <2> QED  BY <1>1, <2>1, AdvanceKeepsCallInv DEF Settled
<1>8. ASSUME NEW r \in Reqs, AttachDone(r)
      PROVE  CallInv'
  <2>1. /\ pc[r] = "attaching" /\ UNCHANGED <<rid, rsock, aborted, waiters>>
        /\ pc' = [pc EXCEPT ![r] = "ok"] /\ ClearPending(r)
    BY <1>8 DEF AttachDone
  <2> QED  BY <1>1, <2>1, AdvanceKeepsCallInv DEF Settled
<1>9. ASSUME NEW r \in Reqs, CallStep(r)
      PROVE  CallInv'
  BY <1>1, <1>4, <1>5, <1>6, <1>7, <1>8, <1>9, CancelKeepsCallInv
  DEF CallStep, SpawnReady, SpawnTimeout
<1>10. ASSUME NEW s \in Reqs, ChildStep(s) \/ CleanupTimeout(s)
       PROVE  CallInv'
  <2>1. UNCHANGED <<callVars, waiters, pending>>
    BY <1>10 DEF ChildStep, ChildSpawned, ChildExitFrame, ChildGone, CleanupTimeout
  <2> QED  BY <1>1, <2>1, OthersKeepCallInv
<1>11. ASSUME NEW id \in Ids, Kill(id) \/ KillTimeout(id)
       PROVE  CallInv'
  <2>1. UNCHANGED <<callVars, waiters, pending>>
    BY <1>11 DEF Kill, KillAt, KillTimeout
  <2> QED  BY <1>1, <2>1, OthersKeepCallInv
<1>12. CASE KillAll
  <2>1. UNCHANGED <<callVars, waiters, pending>>
    BY <1>12 DEF KillAll, KillAt
  <2> QED  BY <1>1, <2>1, OthersKeepCallInv
<1>13. ASSUME NEW k \in Socks, NEW id \in Ids, Detach(k, id)
       PROVE  CallInv'
  <2>1. UNCHANGED <<callVars, waiters, pending>>
    BY <1>13 DEF Detach, DetachAt
  <2> QED  BY <1>1, <2>1, OthersKeepCallInv
<1>14. CASE HostDispose
  BY <1>1, <1>14, DisposeKeepsCallInv
<1>15. CASE UNCHANGED vars
  <2>1. UNCHANGED <<callVars, waiters, pending>>
    BY <1>15 DEF vars
  <2> QED  BY <1>1, <2>1, OthersKeepCallInv
<1>16. CASE Next
  <2>1. CASE \E r \in Reqs, k \in Socks, id \in Ids :
                AttachExisting(r, k, id) \/ SpawnNew(r, k, id)
    BY <1>2, <1>3, <2>1
  <2>2. CASE \E r \in Reqs : CallStep(r) \/ ChildStep(r) \/ CleanupTimeout(r)
    BY <1>9, <1>10, <2>2
  <2>3. CASE \E k \in Socks : SocketClose(k)
    <3>1. PICK k \in Socks : SocketClose(k)
      BY <2>3
    <3>2. UNCHANGED <<callVars, waiters, pending>>
      BY <3>1 DEF SocketClose, DetachAt
    <3> QED  BY <1>1, <3>2, OthersKeepCallInv
  <2> QED  BY <1>11, <1>12, <1>13, <1>14, <1>16, <2>1, <2>2, <2>3 DEF Next
<1> QED  BY <1>15, <1>16

LEMMA CallInvInit == Init => CallInv
<1> SUFFICES ASSUME Init
             PROVE  CallInv
  OBVIOUS
<1>1. TypeOK
  BY DEF Init, TypeOK, Stages, Settled, SessionFields, NewSession, NoClients, ChildStates
<1>2. \A r \in Reqs : pc[r] = "idle" /\ ~aborted[r]
  BY DEF Init
<1>3. OneOwner
  BY <1>2 DEF Init, OneOwner, InFlight
<1>4. WaitersAreQueued
  BY <1>2 DEF Init, WaitersAreQueued
<1>5. IdleCalls
  BY <1>2 DEF IdleCalls
<1> QED  BY <1>1, <1>3, <1>4, <1>5 DEF CallInv

LEMMA CallInvariant == Spec => []CallInv
BY CallInvInit, CallInvStep, PTL DEF Spec

-----------------------------------------------------------------------------

\* Every variable keeps its type, for every number of calls, ids and sockets.
THEOREM TypeCorrect == Spec => []TypeOK
BY CallInvariant, PTL DEF CallInv

\* Of the calls in flight for an id only the one that pendingAttaches names is
\* not aborted, whatever the order of calls, cancellations and completions.
THEOREM OwnersCorrect == Spec => []OneOwner
BY CallInvariant, PTL DEF CallInv

\* The semaphore's queue holds exactly the suspended calls, none aborted, so
\* the branch of release() for an aborted head is dead code.
THEOREM QueueCorrect == Spec => []WaitersAreQueued
BY CallInvariant, PTL DEF CallInv

-----------------------------------------------------------------------------
(* The spawn semaphore's count, and why no waiter is left behind. *)

Holding == {"acquired", "spawning"}

SlotInv == CallInv /\ SlotsConserved /\ NoLostWakeup

LEMMA HoldersFinite == IsFiniteSet(SlotHolders)
<1>1. SlotHolders \subseteq Reqs
  BY DEF SlotHolders
<1> QED  BY <1>1, FiniteAssumption, FS_Subset

\* Steps that leave the slots to their holders and add nobody to the queue.
LEMMA SameHolders ==
    ASSUME SlotInv, UNCHANGED inUse,
           \A x \in Reqs : pc'[x] \in Holding <=> pc[x] \in Holding,
           waiters' = <<>> \/ waiters # <<>> \/ inUse >= MaxSpawns
    PROVE  SlotsConserved' /\ NoLostWakeup'
<1>1. SlotHolders' = SlotHolders
  BY DEF SlotHolders, Holding
<1>2. inUse <= MaxSpawns /\ inUse \in Nat /\ MaxSpawns \in Nat
  BY MaxSpawnsAssumption DEF SlotInv, SlotsConserved, CallInv, TypeOK
<1>3. SlotsConserved'
  BY <1>1 DEF SlotInv, SlotsConserved
<1>4. NoLostWakeup'
  BY <1>2 DEF SlotInv, NoLostWakeup
<1> QED  BY <1>3, <1>4

\* A call takes a free slot: nobody waits for it.
LEMMA Acquired ==
    ASSUME SlotInv, NEW r \in Reqs, pc[r] = "idle", inUse < MaxSpawns,
           inUse' = inUse + 1, pc'[r] = "acquired",
           \A x \in Reqs : x # r => (pc'[x] \in Holding <=> pc[x] \in Holding),
           waiters = <<>> => waiters' = <<>>
    PROVE  SlotsConserved' /\ NoLostWakeup'
<1>1. SlotHolders' = SlotHolders \cup {r} /\ r \notin SlotHolders
  BY DEF SlotHolders, Holding
<1>2. inUse \in Nat /\ MaxSpawns \in Nat /\ inUse = Cardinality(SlotHolders)
  BY MaxSpawnsAssumption DEF SlotInv, SlotsConserved, CallInv, TypeOK
<1>3. Cardinality(SlotHolders') = Cardinality(SlotHolders) + 1
  BY <1>1, HoldersFinite, FS_AddElement
<1>4. SlotsConserved'
  <2>1. inUse' = Cardinality(SlotHolders')
    BY <1>2, <1>3
  <2>2. inUse' <= MaxSpawns
    BY <1>2
  <2> QED  BY <2>1, <2>2 DEF SlotsConserved
<1>5. NoLostWakeup'
  BY <1>2 DEF SlotInv, NoLostWakeup
<1> QED  BY <1>4, <1>5

\* A call gives its slot up, to the head of the queue if there is one.
LEMMA Released ==
    ASSUME SlotInv, NEW r \in Reqs, pc[r] \in Holding, NEW st, st \notin Holding,
           ReleaseSlot(r, st)
    PROVE  SlotsConserved' /\ NoLostWakeup'
<1>1. /\ inUse \in Nat /\ MaxSpawns \in Nat /\ inUse = Cardinality(SlotHolders)
      /\ inUse <= MaxSpawns
      /\ pc \in [Reqs -> Stages] /\ waiters \in Seq(Reqs)
  BY MaxSpawnsAssumption DEF SlotInv, SlotsConserved, CallInv, TypeOK
<1>2. r \in SlotHolders
  BY DEF SlotHolders, Holding
<1>3. /\ Cardinality(SlotHolders \ {r}) = Cardinality(SlotHolders) - 1
      /\ IsFiniteSet(SlotHolders \ {r})
  BY <1>2, HoldersFinite, FS_RemoveElement
<1>4. inUse > 0
  <2>1. Cardinality(SlotHolders \ {r}) \in Nat
    BY <1>3, FS_CardinalityType
  <2> QED  BY <1>1, <1>3, <2>1
<1>5. CASE waiters = <<>>
  <2>1. /\ inUse' = inUse - 1 /\ pc' = [pc EXCEPT ![r] = st] /\ waiters' = <<>>
    BY <1>4, <1>5 DEF ReleaseSlot
  <2>2. SlotHolders' = SlotHolders \ {r}
    BY <1>1, <2>1 DEF SlotHolders, Holding
  <2>3. inUse' = Cardinality(SlotHolders') /\ inUse' <= MaxSpawns
    BY <1>1, <1>3, <2>1, <2>2
  <2> QED  BY <2>1, <2>3 DEF SlotsConserved, NoLostWakeup
<1>6. CASE waiters # <<>>
  <2> DEFINE h == Head(waiters)
  <2>1. h \in Reqs /\ pc[h] = "queued"
    <3>1. h \in Reqs /\ h = waiters[1] /\ 1 \in 1..Len(waiters)
      BY <1>1, <1>6
    <3> QED  BY <3>1 DEF SlotInv, CallInv, WaitersAreQueued
  <2>2. inUse' = inUse /\ pc' = [pc EXCEPT ![r] = st, ![h] = "acquired"]
    BY <1>4, <1>6 DEF ReleaseSlot
  <2> HIDE DEF h
  <2>3. SlotHolders' = (SlotHolders \ {r}) \cup {h} /\ h \notin SlotHolders \ {r}
    BY <1>1, <2>1, <2>2 DEF SlotHolders, Holding
  <2>4. Cardinality(SlotHolders') = Cardinality(SlotHolders \ {r}) + 1
    BY <1>3, <2>3, FS_AddElement
  <2>5. inUse' = Cardinality(SlotHolders')
    BY <1>1, <1>3, <2>2, <2>4
  <2>6. inUse = MaxSpawns
    BY <1>6 DEF SlotInv, NoLostWakeup
  <2> QED  BY <1>1, <2>2, <2>5, <2>6 DEF SlotsConserved, NoLostWakeup
<1> QED  BY <1>5, <1>6

\* Aborting a call empties no slot and adds nobody to the queue.
LEMMA EmptyStaysEmpty ==
    ASSUME SlotInv, NEW e, waiters = <<>>
    PROVE  QueueAfterAbort(e) = <<>>
<1>1. \A j \in 1..Len(QueueAfterAbort(e)) : \E i \in 1..Len(waiters) : TRUE
  BY QueueAfterAbortProperties DEF SlotInv, CallInv
<1>2. QueueAfterAbort(e) \in Seq(Reqs)
  BY QueueAfterAbortProperties DEF SlotInv, CallInv
<1> QED  BY <1>1, <1>2

LEMMA AbortedHolders ==
    ASSUME NEW R, NEW x \in Reqs
    PROVE  PcAfterAbort(R)[x] \in Holding <=> pc[x] \in Holding
BY DEF PcAfterAbort, Holding

LEMMA SlotStep ==
    ASSUME SlotInv, [Next]_vars
    PROVE  SlotsConserved' /\ NoLostWakeup'
<1> USE DEF callVars, limiterVars, tableVars, objectVars, outsideVars
<1>1. pc \in [Reqs -> Stages]
  BY DEF SlotInv, CallInv, TypeOK
<1>2. ASSUME UNCHANGED <<pc, inUse, waiters>>
      PROVE  SlotsConserved' /\ NoLostWakeup'
  BY <1>2, SameHolders
<1>3. ASSUME NEW r \in Reqs, NEW k \in Socks, NEW id \in Ids,
             AttachExisting(r, k, id)
      PROVE  SlotsConserved' /\ NoLostWakeup'
  <2>1. /\ pc[r] = "idle" /\ inUse' = inUse
        /\ pc' = [PcAfterAbort({pending[id]}) EXCEPT ![r] = "attaching"]
        /\ waiters' = QueueAfterAbort(pending[id])
    BY <1>3 DEF AttachExisting, Enter
  <2>2. \A x \in Reqs : pc'[x] \in Holding <=> pc[x] \in Holding
    BY <2>1 DEF PcAfterAbort, Holding
  <2> QED  BY <2>1, <2>2, EmptyStaysEmpty, SameHolders
<1>4. ASSUME NEW r \in Reqs, NEW k \in Socks, NEW id \in Ids, SpawnNew(r, k, id)
      PROVE  SlotsConserved' /\ NoLostWakeup'
  <2>1. pc[r] = "idle"
    BY <1>4 DEF SpawnNew, Enter
  <2>2. CASE /\ inUse < MaxSpawns
             /\ inUse' = inUse + 1
             /\ waiters' = QueueAfterAbort(pending[id])
             /\ pc' = [PcAfterAbort({pending[id]}) EXCEPT ![r] = "acquired"]
    <3>1. /\ pc'[r] = "acquired"
          /\ \A x \in Reqs : x # r => (pc'[x] \in Holding <=> pc[x] \in Holding)
      BY <2>2 DEF PcAfterAbort, Holding
    <3> QED  BY <2>1, <2>2, <3>1, EmptyStaysEmpty, Acquired
  <2>3. CASE /\ inUse >= MaxSpawns
             /\ pc' = [PcAfterAbort({pending[id]}) EXCEPT ![r] = "queued"]
             /\ UNCHANGED inUse
    <3>1. \A x \in Reqs : pc'[x] \in Holding <=> pc[x] \in Holding
      BY <2>1, <2>3 DEF PcAfterAbort, Holding
    <3> QED  BY <2>3, <3>1, SameHolders
  <2> QED  BY <1>4, <2>2, <2>3 DEF SpawnNew
<1>5. ASSUME NEW r \in Reqs, CallStep(r)
      PROVE  SlotsConserved' /\ NoLostWakeup'
  <2>1. ASSUME UNCHANGED <<inUse, waiters>>, NEW st,
               pc' = [pc EXCEPT ![r] = st], st \in Holding <=> pc[r] \in Holding
        PROVE  SlotsConserved' /\ NoLostWakeup'
    BY <1>1, <2>1, SameHolders
  <2>2. CASE SpawnStart(r)
    <3>1. CASE ReleaseSlot(r, "canceled")
      BY <2>2, <3>1, Released DEF SpawnStart, Holding
    <3>2. CASE pc' = [pc EXCEPT ![r] = "spawning"] /\ UNCHANGED <<inUse, waiters>>
      BY <2>1, <2>2, <3>2 DEF SpawnStart, Holding
    <3> QED  BY <2>2, <3>1, <3>2 DEF SpawnStart
  <2>3. CASE SpawnThrows(r)
    BY <2>3, Released DEF SpawnThrows, Holding
  <2>4. CASE SpawnSettled(r)
    <3>1. PICK st \in {"canceled", "failed", "attaching"} : ReleaseSlot(r, st)
      BY <2>4 DEF SpawnSettled
    <3> QED  BY <2>4, <3>1, Released DEF SpawnSettled, Holding
  <2>5. CASE AttachAborted(r)
    BY <2>1, <2>5 DEF AttachAborted, Holding
  <2>6. CASE AttachDone(r)
    BY <2>1, <2>6 DEF AttachDone, Holding
  <2>7. CASE CancelCreateOrAttach(r)
    BY <2>7, AbortedHolders, EmptyStaysEmpty, SameHolders DEF CancelCreateOrAttach
  <2> QED
    BY <1>5, <2>2, <2>3, <2>4, <2>5, <2>6, <2>7 DEF CallStep, SpawnReady, SpawnTimeout
<1>6. CASE HostDispose
  <2>1. PICK R : pc' = PcAfterAbort(R)
    BY <1>6 DEF HostDispose
  <2> QED  BY <1>6, <2>1, AbortedHolders, SameHolders DEF HostDispose
<1>7. ASSUME NEW s \in Reqs, ChildStep(s) \/ CleanupTimeout(s)
      PROVE  SlotsConserved' /\ NoLostWakeup'
  <2>1. UNCHANGED <<pc, inUse, waiters>>
    BY <1>7 DEF ChildStep, ChildSpawned, ChildExitFrame, ChildGone, CleanupTimeout
  <2> QED  BY <1>2, <2>1
<1>8. ASSUME NEW id \in Ids, Kill(id) \/ KillTimeout(id)
      PROVE  SlotsConserved' /\ NoLostWakeup'
  <2>1. UNCHANGED <<pc, inUse, waiters>>
    BY <1>8 DEF Kill, KillAt, KillTimeout
  <2> QED  BY <1>2, <2>1
<1>9. CASE KillAll
  <2>1. UNCHANGED <<pc, inUse, waiters>>
    BY <1>9 DEF KillAll, KillAt
  <2> QED  BY <1>2, <2>1
<1>10. ASSUME NEW k \in Socks, SocketClose(k) \/ \E id \in Ids : Detach(k, id)
       PROVE  SlotsConserved' /\ NoLostWakeup'
  <2>1. UNCHANGED <<pc, inUse, waiters>>
    BY <1>10 DEF SocketClose, Detach, DetachAt
  <2> QED  BY <1>2, <2>1
<1>11. CASE UNCHANGED vars
  BY <1>2, <1>11 DEF vars
<1>12. CASE Next
  <2>1. CASE \E r \in Reqs, k \in Socks, id \in Ids :
                AttachExisting(r, k, id) \/ SpawnNew(r, k, id)
    BY <1>3, <1>4, <2>1
  <2>2. CASE \E r \in Reqs : CallStep(r) \/ ChildStep(r) \/ CleanupTimeout(r)
    BY <1>5, <1>7, <2>2
  <2> QED  BY <1>6, <1>8, <1>9, <1>10, <1>12, <2>1, <2>2 DEF Next
<1> QED  BY <1>11, <1>12

LEMMA SlotInvInit == Init => SlotInv
<1> SUFFICES ASSUME Init
             PROVE  SlotInv
  OBVIOUS
<1>1. CallInv
  BY CallInvInit
<1>2. SlotHolders = {}
  BY DEF Init, SlotHolders
<1>3. SlotsConserved
  BY <1>2, FS_EmptySet, MaxSpawnsAssumption DEF Init, SlotsConserved
<1> QED  BY <1>1, <1>3 DEF Init, SlotInv, NoLostWakeup

LEMMA SlotInvariant == Spec => []SlotInv
<1>1. SlotInv /\ [Next]_vars => SlotInv'
  BY SlotStep, CallInvStep DEF SlotInv
<1> QED  BY <1>1, SlotInvInit, PTL DEF Spec

\* The semaphore counts exactly the calls that hold a slot and never exceeds
\* MAX_CONCURRENT_SPAWNS, through every release, hand-over, abort and dispose.
THEOREM SlotsCorrect == Spec => []SlotsConserved
BY SlotInvariant, PTL DEF SlotInv

\* A call waits for a slot only while all of them are taken.
THEOREM WakeupsCorrect == Spec => []NoLostWakeup
BY SlotInvariant, PTL DEF SlotInv

\* The semaphore as a whole, for any number of calls, ids and slots.
THEOREM SpawnSlotsCorrect == Spec => []SpawnSlots
BY SlotsCorrect, WakeupsCorrect, QueueCorrect, PTL DEF SpawnSlots

-----------------------------------------------------------------------------
(* What the table of sessions may lead to, that it implements the registry, *)
(* and what is attached to the sessions.                                   *)

\* Fresh calls have not put a session into the map.
Fresh(r) == pc[r] \in {"idle"} \cup Creating

FreshUnmapped == \A r \in Reqs : Fresh(r) => target[r] # r /\ ~sess[r].disposed

\* Only calls that have been made have a subprocess or an armed cleanup timer.
Started == \A s \in Reqs : child[s] # "none" \/ s \in cleanups => pc[s] # "idle"

MapInv == CallInv /\ Started /\ MappedNotDisposed /\ CreatorFindsNoSession /\ FreshUnmapped

\* Sessions only leave the map, and those that are disposed have left it.
Removal ==
    /\ \A r \in Reqs :
          /\ Fresh(r)' => Fresh(r)
          /\ target'[r] = r <=> target[r] = r
          /\ pc[r] # "idle" => rid'[r] = rid[r]
          /\ pc'[r] \in Creating /\ ~aborted'[r] =>
                \/ pc[r] \in Creating /\ ~aborted[r]
                \/ sessions'[rid'[r]] = None
    /\ \A id \in Ids : sessions'[id] = sessions[id] \/ sessions'[id] = None
    /\ \A s \in Reqs : sess'[s].disposed /\ ~sess[s].disposed =>
          ~Fresh(s)' /\ \A id \in Ids : sessions'[id] # s

\* Call r registers the session it has created.
Registration(r) ==
    /\ pc[r] = "spawning" /\ ~aborted[r]
    /\ ReleaseSlot(r, "attaching")
    /\ sessions' = [sessions EXCEPT ![rid[r]] = r]
    /\ target' = [target EXCEPT ![r] = r]
    /\ UNCHANGED <<rid, aborted, sess>>

LEMMA RemovalKeepsMapInv ==
    ASSUME MapInv, CallInv', Started', Removal
    PROVE  MapInv'
<1>1. MappedNotDisposed'
  <2>1. ASSUME NEW id \in Ids, sessions'[id] # None
        PROVE  LET s == sessions'[id]
               IN  ~sess'[s].disposed /\ rid'[s] = id /\ target'[s] = s
    <3>1. sessions'[id] = sessions[id] /\ sessions[id] \in Reqs
      BY <2>1 DEF Removal, MapInv, CallInv, TypeOK
    <3>2. /\ ~sess[sessions[id]].disposed /\ rid[sessions[id]] = id
          /\ target[sessions[id]] = sessions[id]
      BY <2>1, <3>1 DEF MapInv, MappedNotDisposed, Mapped
    <3>3. pc[sessions[id]] # "idle"
      BY <3>1, <3>2 DEF MapInv, FreshUnmapped, Fresh
    <3> QED  BY <3>1, <3>2, <3>3 DEF Removal
  <2> QED  BY <2>1 DEF MappedNotDisposed, Mapped
<1>2. CreatorFindsNoSession'
  <2>1. ASSUME NEW r \in Reqs, pc'[r] \in Creating, ~aborted'[r]
        PROVE  sessions'[rid'[r]] = None
    <3>1. CASE pc[r] \in Creating /\ ~aborted[r]
      <4>1. rid'[r] = rid[r] /\ rid[r] \in Ids
        BY <3>1 DEF Removal, Creating, MapInv, CallInv, IdleCalls
      <4>2. sessions[rid[r]] = None
        BY <3>1 DEF MapInv, CreatorFindsNoSession, Mapped
      <4> QED  BY <4>1, <4>2 DEF Removal
    <3> QED  BY <2>1, <3>1 DEF Removal
  <2> QED  BY <2>1 DEF CreatorFindsNoSession, Mapped
<1>3. FreshUnmapped'
  BY DEF MapInv, FreshUnmapped, Removal
<1> QED  BY <1>1, <1>2, <1>3 DEF MapInv

LEMMA ReleaseMovesOn ==
    ASSUME CallInv, NEW r \in Reqs, pc[r] # "queued", NEW st, ReleaseSlot(r, st)
    PROVE  /\ pc'[r] = st
           /\ \A x \in Reqs : x # r => \/ pc'[x] = pc[x]
                                       \/ pc[x] = "queued" /\ pc'[x] = "acquired"
<1>1. pc \in [Reqs -> Stages] /\ waiters \in Seq(Reqs)
  BY DEF CallInv, TypeOK
<1>2. CASE waiters = <<>>
  BY <1>1, <1>2 DEF ReleaseSlot
<1>3. CASE waiters # <<>>
  <2>1. Head(waiters) \in Reqs /\ Head(waiters) = waiters[1] /\ 1 \in 1..Len(waiters)
    BY <1>1, <1>3
  <2>2. pc[Head(waiters)] = "queued"
    BY <2>1 DEF CallInv, WaitersAreQueued
  <2> QED  BY <1>1, <1>3, <2>1, <2>2 DEF ReleaseSlot
<1> QED  BY <1>2, <1>3

\* The sessions that Discard disposes have left the map, and none is fresh.
LEMMA DiscardRemoves ==
    ASSUME MapInv, NEW D \in SUBSET Ids, Discard(D)
    PROVE  /\ \A id \in Ids : sessions'[id] = sessions[id] \/ sessions'[id] = None
           /\ \A s \in Reqs : sess'[s].disposed /\ ~sess[s].disposed =>
                 /\ \A id \in Ids : sessions'[id] # s
                 /\ target[s] = s
<1>1. /\ \A id \in Ids : sessions'[id] = IF id \in D THEN None ELSE sessions[id]
      /\ \A s \in Reqs : s \notin {sessions[id] : id \in D} => sess'[s] = sess[s]
  BY DEF Discard, Dispose
<1>2. ASSUME NEW s \in Reqs, sess'[s].disposed, ~sess[s].disposed
      PROVE  (\A id \in Ids : sessions'[id] # s) /\ target[s] = s
  <2>1. PICK i \in D : sessions[i] = s
    BY <1>1, <1>2
  <2>2. s # None
    BY NoneAssumption
  <2>3. rid[s] = i /\ target[s] = s
    BY <2>1, <2>2 DEF MapInv, MappedNotDisposed, Mapped
  <2>4. \A id \in Ids : sessions[id] = s => id = i
    BY <2>2, <2>3 DEF MapInv, MappedNotDisposed, Mapped
  <2> QED  BY <1>1, <2>2, <2>3, <2>4
<1> QED  BY <1>1, <1>2

LEMMA TargetNotFresh ==
    ASSUME MapInv, NEW s \in Reqs, target[s] = s
    PROVE  ~Fresh(s)
BY DEF MapInv, FreshUnmapped

-----------------------------------------------------------------------------
(* The shape of every step.                                                 *)

LEMMA AttachExistingShape ==
    ASSUME MapInv, NEW r \in Reqs, NEW k \in Socks, NEW id \in Ids,
           AttachExisting(r, k, id)
    PROVE  Removal
<1>1. /\ pc[r] = "idle" /\ pc'[r] = "attaching"
      /\ \A x \in Reqs : x # r => pc'[x] = pc[x] \/ pc'[x] = "canceled"
      /\ \A x \in Reqs : x # r => rid'[x] = rid[x]
      /\ \A x \in Reqs : aborted[x] => aborted'[x]
  BY DEF AttachExisting, Enter, PcAfterAbort, Abort, MapInv, CallInv, TypeOK
<1>2. sessions' = sessions /\ sess' = sess
  BY DEF AttachExisting
<1>3. /\ target[r] # r /\ sessions[id] # r
      /\ target' = [target EXCEPT ![r] = sessions[id]]
  <2>1. target[r] # r
    BY <1>1 DEF MapInv, FreshUnmapped, Fresh
  <2>2. Mapped(id) /\ target' = [target EXCEPT ![r] = sessions[id]]
    BY DEF AttachExisting
  <2> QED  BY <2>1, <2>2 DEF MapInv, MappedNotDisposed
<1>4. \A x \in Reqs : target'[x] = x <=> target[x] = x
  BY <1>3 DEF MapInv, CallInv, TypeOK
<1> QED  BY <1>1, <1>2, <1>4 DEF Removal, Fresh, Creating

LEMMA SpawnNewShape ==
    ASSUME MapInv, NEW r \in Reqs, NEW k \in Socks, NEW id \in Ids,
           SpawnNew(r, k, id)
    PROVE  Removal
<1>1. /\ pc[r] = "idle" /\ rid'[r] = id
      /\ \A x \in Reqs : x # r => pc'[x] = pc[x] \/ pc'[x] = "canceled"
      /\ \A x \in Reqs : x # r => rid'[x] = rid[x]
      /\ \A x \in Reqs : aborted[x] => aborted'[x]
      /\ target' = target
  BY DEF SpawnNew, Enter, PcAfterAbort, Abort, MapInv, CallInv, TypeOK
<1>2. Discard({id})
  BY DEF SpawnNew
<1>3. sessions'[id] = None
  BY <1>2 DEF Discard
<1>4. \A x \in Reqs : Fresh(x)' => Fresh(x)
  BY <1>1 DEF Fresh, Creating
<1>5. \A x \in Reqs : pc'[x] \in Creating /\ ~aborted'[x] =>
         (pc[x] \in Creating /\ ~aborted[x]) \/ sessions'[rid'[x]] = None
  BY <1>1, <1>3 DEF Creating
<1>6. \A s \in Reqs : sess'[s].disposed /\ ~sess[s].disposed =>
         ~Fresh(s)' /\ \A i \in Ids : sessions'[i] # s
  BY <1>2, <1>4, DiscardRemoves, TargetNotFresh
<1>7. \A i \in Ids : sessions'[i] = sessions[i] \/ sessions'[i] = None
  BY <1>2, DiscardRemoves
<1> QED  BY <1>1, <1>4, <1>5, <1>6, <1>7 DEF Removal

\* A call goes on without registering a session.
LEMMA AdvanceShape ==
    ASSUME MapInv, NEW r \in Reqs, pc[r] \in {"acquired", "spawning", "attaching"},
           NEW st \in {"spawning"} \cup Settled,
           st = "spawning" => pc[r] = "acquired",
           \/ pc' = [pc EXCEPT ![r] = st]
           \/ ReleaseSlot(r, st),
           UNCHANGED <<rid, aborted, target>>,
           \/ UNCHANGED sessions
           \/ sessions' = [sessions EXCEPT ![rid[r]] = None],
           \/ \A s \in Reqs : sess'[s].disposed => sess[s].disposed
           \/ /\ Dispose({r})
              /\ st \in Settled
              /\ sessions[rid[r]] = r => sessions'[rid[r]] = None
    PROVE  Removal
<1>1. /\ rid' = rid /\ aborted' = aborted /\ target' = target
      /\ sessions \in [Ids -> Reqs \cup {None}] /\ pc \in [Reqs -> Stages]
  BY DEF MapInv, CallInv, TypeOK
<1>2. /\ pc'[r] = st
      /\ \A x \in Reqs : x # r => \/ pc'[x] = pc[x]
                                  \/ pc[x] = "queued" /\ pc'[x] = "acquired"
  <2>1. CASE pc' = [pc EXCEPT ![r] = st]
    BY <1>1, <2>1
  <2>2. CASE ReleaseSlot(r, st)
    BY <2>2, ReleaseMovesOn DEF MapInv
  <2> QED  BY <2>1, <2>2
<1>3. \A x \in Reqs : /\ pc'[x] \in Creating => pc[x] \in Creating
                      /\ Fresh(x)' => Fresh(x)
  BY <1>2 DEF Fresh, Creating, Settled
<1>4. \A i \in Ids : sessions'[i] = sessions[i] \/ sessions'[i] = None
  BY <1>1
<1>5. ASSUME NEW s \in Reqs, sess'[s].disposed, ~sess[s].disposed
      PROVE  ~Fresh(s)' /\ \A i \in Ids : sessions'[i] # s
  <2>1. /\ Dispose({r}) /\ st \in Settled
        /\ sessions[rid[r]] = r => sessions'[rid[r]] = None
    BY <1>5
  <2>2. s = r
    BY <1>5, <2>1 DEF Dispose
  <2>3. ~Fresh(r)'
    BY <1>2, <2>1 DEF Fresh, Creating, Settled
  <2>4. ASSUME NEW i \in Ids, sessions'[i] = r
        PROVE  FALSE
    <3>1. sessions[i] = r /\ r # None
      BY <1>4, <2>4, NoneAssumption
    <3>2. rid[r] = i
      BY <3>1 DEF MapInv, MappedNotDisposed, Mapped
    <3> QED  BY <2>1, <2>4, <3>1, <3>2
  <2> QED  BY <2>2, <2>3, <2>4
<1> QED  BY <1>1, <1>3, <1>4, <1>5 DEF Removal

LEMMA AbortShape ==
    ASSUME MapInv, NEW R, pc' = PcAfterAbort(R), Abort(R),
           UNCHANGED <<rid, target>>,
           \/ UNCHANGED <<sessions, sess>>
           \/ Discard(Ids)
    PROVE  Removal
<1>1. /\ \A x \in Reqs : pc'[x] = pc[x] \/ pc'[x] = "canceled"
      /\ \A x \in Reqs : aborted[x] => aborted'[x]
      /\ rid' = rid /\ target' = target
  BY DEF PcAfterAbort, Abort
<1>2. \A x \in Reqs : /\ pc'[x] \in Creating => pc[x] \in Creating
                      /\ Fresh(x)' => Fresh(x)
  BY <1>1 DEF Fresh, Creating
<1>3. CASE UNCHANGED <<sessions, sess>>
  BY <1>1, <1>2, <1>3 DEF Removal
<1>4. CASE Discard(Ids)
  BY <1>1, <1>2, <1>4, DiscardRemoves, TargetNotFresh DEF Removal
<1> QED  BY <1>3, <1>4

\* The handlers that do not concern a call.
LEMMA OthersShape ==
    ASSUME MapInv, UNCHANGED callVars,
           \/ /\ UNCHANGED sessions
              /\ \A s \in Reqs : sess'[s].disposed => sess[s].disposed
           \/ \E D \in SUBSET Ids : Discard(D)
    PROVE  Removal
<1>1. /\ pc' = pc /\ rid' = rid /\ aborted' = aborted /\ target' = target
      /\ \A x \in Reqs : Fresh(x)' <=> Fresh(x)
  BY DEF callVars, Fresh
<1>2. CASE /\ UNCHANGED sessions
           /\ \A s \in Reqs : sess'[s].disposed => sess[s].disposed
  BY <1>1, <1>2 DEF Removal
<1>3. CASE \E D \in SUBSET Ids : Discard(D)
  BY <1>1, <1>3, DiscardRemoves, TargetNotFresh DEF Removal
<1> QED  BY <1>2, <1>3

LEMMA DetachShape ==
    ASSUME MapInv, NEW k \in Socks, NEW D \in SUBSET Ids, DetachAt(k, D)
    PROVE  Removal
<1> DEFINE left(s) == [clients[s] EXCEPT ![k] = None]
<1> DEFINE dead == {id \in D : Mapped(id) /\ ~Alive(sessions[id])
                                          /\ left(sessions[id]) = NoClients}
<1>1. /\ \A s \in Reqs : sess'[s] = IF \E id \in dead : sessions[id] = s
              THEN [sess[s] EXCEPT !.disposed = TRUE, !.subprocess = FALSE]
              ELSE sess[s]
      /\ \A id \in Ids : sessions'[id] = IF id \in dead THEN None ELSE sessions[id]
      /\ pc' = pc /\ rid' = rid /\ aborted' = aborted /\ target' = target
  BY DEF DetachAt, callVars
<1>2. dead \subseteq Ids
  OBVIOUS
<1> HIDE DEF dead
<1>3. ASSUME NEW s \in Reqs, sess'[s].disposed, ~sess[s].disposed
      PROVE  ~Fresh(s)' /\ \A id \in Ids : sessions'[id] # s
  <2>1. PICK i \in dead : sessions[i] = s
    BY <1>1, <1>3
  <2>2. s # None /\ i \in Ids
    BY <1>2, NoneAssumption
  <2>3. rid[s] = i /\ target[s] = s
    BY <2>1, <2>2 DEF MapInv, MappedNotDisposed, Mapped
  <2>4. \A id \in Ids : sessions[id] = s => id = i
    BY <2>2, <2>3 DEF MapInv, MappedNotDisposed, Mapped
  <2>5. ~Fresh(s)'
    BY <1>1, <2>3, TargetNotFresh DEF Fresh
  <2> QED  BY <1>1, <2>2, <2>4, <2>5
<1>4. \A x \in Reqs : Fresh(x)' <=> Fresh(x)
  BY <1>1 DEF Fresh
<1> QED  BY <1>1, <1>3, <1>4 DEF Removal

LEMMA CallStepShape ==
    ASSUME MapInv, NEW r \in Reqs, CallStep(r)
    PROVE  Removal \/ Registration(r)
<1> USE DEF Settled
<1>1. CASE SpawnStart(r)
  <2>1. /\ pc[r] = "acquired"
        /\ UNCHANGED <<rid, aborted, target, sessions>>
    BY <1>1 DEF SpawnStart
  <2>2. CASE ReleaseSlot(r, "canceled") /\ UNCHANGED sess
    BY <2>1, <2>2, AdvanceShape
  <2>3. CASE /\ pc' = [pc EXCEPT ![r] = "spawning"]
             /\ sess' = [sess EXCEPT ![r] = [@ EXCEPT !.subprocess = TRUE]]
    <3>1. \A s \in Reqs : sess'[s].disposed => sess[s].disposed
      BY <2>3 DEF MapInv, CallInv, TypeOK, SessionFields
    <3> QED  BY <2>1, <2>3, <3>1, AdvanceShape
  <2> QED  BY <1>1, <2>2, <2>3 DEF SpawnStart
<1>2. CASE SpawnThrows(r)
  <2>1. /\ pc[r] = "acquired"
        /\ UNCHANGED <<rid, aborted, target, sessions, sess>>
        /\ ReleaseSlot(r, "failed")
    BY <1>2 DEF SpawnThrows, objectVars
  <2> QED  BY <2>1, AdvanceShape
<1>3. CASE SpawnSettled(r)
  <2>1. pc[r] = "spawning" /\ UNCHANGED <<rid, aborted>>
    BY <1>3 DEF SpawnSettled
  <2>2. rid[r] \in Ids /\ sessions \in [Ids -> Reqs \cup {None}]
    BY <2>1 DEF MapInv, CallInv, IdleCalls, TypeOK
  <2>3. sessions[rid[r]] # r
    <3>1. Fresh(r)
      BY <2>1 DEF Fresh, Creating
    <3> QED  BY <2>2, <3>1, NoneAssumption
             DEF MapInv, FreshUnmapped, MappedNotDisposed, Mapped
  <2>4. CASE /\ ReleaseSlot(r, "canceled")
             /\ Dispose({r})
             /\ sessions' = [sessions EXCEPT ![rid[r]] = None]
             /\ UNCHANGED target
    BY <2>1, <2>3, <2>4, AdvanceShape
  <2>5. CASE /\ ReleaseSlot(r, "failed")
             /\ Dispose({r})
             /\ UNCHANGED <<sessions, target>>
    BY <2>1, <2>3, <2>5, AdvanceShape
  <2>6. CASE /\ ~aborted[r]
             /\ ReleaseSlot(r, "attaching")
             /\ sessions' = [sessions EXCEPT ![rid[r]] = r]
             /\ target' = [target EXCEPT ![r] = r]
             /\ UNCHANGED sess
    BY <2>1, <2>6 DEF Registration
  <2> QED  BY <1>3, <2>4, <2>5, <2>6 DEF SpawnSettled
<1>4. CASE AttachAborted(r)
  <2>1. /\ pc[r] = "attaching" /\ UNCHANGED <<rid, aborted, target>>
        /\ pc' = [pc EXCEPT ![r] = "canceled"]
    BY <1>4 DEF AttachAborted
  <2>2. rid[r] \in Ids /\ sessions \in [Ids -> Reqs \cup {None}]
    BY <2>1 DEF MapInv, CallInv, IdleCalls, TypeOK
  <2>3. CASE Dispose({r}) /\ sessions' = [sessions EXCEPT ![rid[r]] = None]
    BY <2>1, <2>2, <2>3, AdvanceShape
  <2>4. CASE UNCHANGED <<sess, sessions>>
    BY <2>1, <2>4, AdvanceShape
  <2> QED  BY <1>4, <2>3, <2>4 DEF AttachAborted
<1>5. CASE AttachDone(r)
  <2>1. /\ pc[r] = "attaching" /\ UNCHANGED <<rid, aborted, target, sessions, sess>>
        /\ pc' = [pc EXCEPT ![r] = "ok"]
    BY <1>5 DEF AttachDone, objectVars
  <2> QED  BY <2>1, AdvanceShape
<1>6. CASE CancelCreateOrAttach(r)
  <2>1. /\ pc' = PcAfterAbort({r}) /\ Abort({r})
        /\ UNCHANGED <<rid, target, sessions, sess>>
    BY <1>6 DEF CancelCreateOrAttach, objectVars
  <2> QED  BY <2>1, AbortShape
<1> QED
  BY <1>1, <1>2, <1>3, <1>4, <1>5, <1>6, CallStep(r)
  DEF CallStep, SpawnReady, SpawnTimeout

LEMMA ChildStepShape ==
    ASSUME MapInv, NEW s \in Reqs, ChildStep(s)
    PROVE  Removal
<1>1. UNCHANGED callVars /\ UNCHANGED sessions
  BY DEF ChildStep, ChildSpawned, ChildExitFrame, ChildGone, tableVars
<1>2. sess \in [Reqs -> SessionFields]
  BY DEF MapInv, CallInv, TypeOK
<1>3. \A x \in Reqs : sess'[x].disposed => sess[x].disposed
  <2>1. CASE sess' = sess
    BY <2>1
  <2>2. CASE sess' = [sess EXCEPT ![s] = [@ EXCEPT !.pid = TRUE, !.ready = TRUE]]
    BY <1>2, <2>2 DEF SessionFields
  <2>3. CASE sess' = [sess EXCEPT ![s] = [@ EXCEPT !.exitCode = TRUE]]
    BY <1>2, <2>3 DEF SessionFields
  <2>4. CASE sess' = [sess EXCEPT ![s] = [@ EXCEPT !.exitCode = TRUE, !.ready = TRUE,
                                              !.subprocess = FALSE]]
    BY <1>2, <2>4 DEF SessionFields
  <2> QED
    BY <2>1, <2>2, <2>3, <2>4 DEF ChildStep, ChildSpawned, ChildExitFrame, ChildGone
<1> QED  BY <1>1, <1>3, OthersShape

LEMMA KillShape ==
    ASSUME MapInv, NEW D, KillAt(D)
    PROVE  Removal
<1>1. UNCHANGED callVars /\ UNCHANGED sessions
  BY DEF KillAt
<1>2. \A x \in Reqs : sess'[x].disposed => sess[x].disposed
  <2>1. sess \in [Reqs -> SessionFields]
    BY DEF MapInv, CallInv, TypeOK
  <2>2. \A x \in Reqs : [sess[x] EXCEPT !.terminating = TRUE].disposed = sess[x].disposed
    BY <2>1 DEF SessionFields
  <2> QED  BY <2>2 DEF KillAt
<1> QED  BY <1>1, <1>2, OthersShape

LEMMA StepShape ==
    ASSUME MapInv, [Next]_vars
    PROVE  Removal \/ \E r \in Reqs : Registration(r)
<1>1. ASSUME NEW r \in Reqs, NEW k \in Socks, NEW id \in Ids,
             AttachExisting(r, k, id) \/ SpawnNew(r, k, id)
      PROVE  Removal
  BY <1>1, AttachExistingShape, SpawnNewShape
<1>2. ASSUME NEW r \in Reqs, CallStep(r)
      PROVE  Removal \/ Registration(r)
  BY <1>2, CallStepShape
<1>3. ASSUME NEW r \in Reqs, ChildStep(r)
      PROVE  Removal
  BY <1>3, ChildStepShape
<1>4. ASSUME NEW s \in Reqs, CleanupTimeout(s)
      PROVE  Removal
  <2>1. rid[s] \in Ids
    BY <1>4 DEF CleanupTimeout, MapInv, Started, CallInv, IdleCalls
  <2>2. \E D \in SUBSET Ids : Discard(D)
    BY <1>4, <2>1 DEF CleanupTimeout
  <2> QED  BY <1>4, <2>2, OthersShape DEF CleanupTimeout
<1>5. ASSUME NEW id \in Ids, Kill(id)
      PROVE  Removal
  BY <1>5, KillShape DEF Kill
<1>6. ASSUME NEW id \in Ids, KillTimeout(id)
      PROVE  Removal
  <2>1. \E D \in SUBSET Ids : Discard(D)
    BY <1>6 DEF KillTimeout
  <2> QED  BY <1>6, <2>1, OthersShape DEF KillTimeout
<1>7. CASE KillAll
  BY <1>7, KillShape DEF KillAll
<1>8. ASSUME NEW k \in Socks, SocketClose(k)
      PROVE  Removal
  BY <1>8, DetachShape DEF SocketClose
<1>9. ASSUME NEW k \in Socks, NEW id \in Ids, Detach(k, id)
      PROVE  Removal
  BY <1>9, DetachShape DEF Detach
<1>10. CASE HostDispose
  <2>1. PICK R : pc' = PcAfterAbort(R) /\ Abort(R)
    BY <1>10 DEF HostDispose
  <2> QED  BY <1>10, <2>1, AbortShape DEF HostDispose
<1>11. CASE UNCHANGED vars
  BY <1>11, OthersShape DEF vars, tableVars, objectVars
<1>12. CASE Next
  <2>1. CASE \E r \in Reqs, k \in Socks, id \in Ids :
                AttachExisting(r, k, id) \/ SpawnNew(r, k, id)
    BY <1>1, <2>1
  <2>2. CASE \E r \in Reqs : CallStep(r) \/ ChildStep(r) \/ CleanupTimeout(r)
    BY <1>2, <1>3, <1>4, <2>2
  <2> QED  BY <1>5, <1>6, <1>7, <1>8, <1>9, <1>10, <1>12, <2>1, <2>2 DEF Next
<1> QED  BY <1>11, <1>12

-----------------------------------------------------------------------------
(* The invariant and its consequences.                                      *)

LEMMA StartedStep == MapInv /\ [Next]_vars => Started'
<1> SUFFICES ASSUME MapInv, [Next]_vars
             PROVE  Started'
  OBVIOUS
<1> USE DEF callVars, limiterVars, tableVars, objectVars, outsideVars
<1> DEFINE Kept == /\ \A x \in Reqs : pc[x] # "idle" => pc'[x] # "idle"
                   /\ \A x \in Reqs : child'[x] # "none" =>
                         child[x] # "none" \/ pc[x] # "idle"
                   /\ \A x \in Reqs : x \in cleanups' =>
                         x \in cleanups \/ child[x] # "none"
<1>1. ASSUME Kept
      PROVE  Started'
  BY <1>1 DEF MapInv, Started
<1>2. pc \in [Reqs -> Stages] /\ child \in [Reqs -> ChildStates]
  BY DEF MapInv, CallInv, TypeOK
<1>3. ASSUME NEW R
      PROVE  \A x \in Reqs : pc[x] # "idle" => PcAfterAbort(R)[x] # "idle"
  BY DEF PcAfterAbort
<1>4. ASSUME NEW r \in Reqs, NEW k \in Socks, NEW id \in Ids,
             AttachExisting(r, k, id) \/ SpawnNew(r, k, id)
      PROVE  Kept
  <2>1. \A st : st # "idle" => \A x \in Reqs : pc[x] # "idle" =>
           [PcAfterAbort({pending[id]}) EXCEPT ![r] = st][x] # "idle"
    BY DEF PcAfterAbort
  <2>2. PICK st \in {"acquired", "queued", "attaching"} :
           pc' = [PcAfterAbort({pending[id]}) EXCEPT ![r] = st]
    BY <1>4 DEF AttachExisting, SpawnNew
  <2>3. \A x \in Reqs : pc[x] # "idle" => pc'[x] # "idle"
    BY <2>1, <2>2
  <2>4. child' = child /\ cleanups' = cleanups
    BY <1>4 DEF AttachExisting, SpawnNew
  <2> QED  BY <2>3, <2>4
<1>5. ASSUME NEW r \in Reqs, CallStep(r)
      PROVE  Kept
  <2>1. ASSUME NEW st \in {"spawning", "attaching"} \cup Settled,
               \/ pc' = [pc EXCEPT ![r] = st]
               \/ pc[r] # "queued" /\ ReleaseSlot(r, st)
        PROVE  \A x \in Reqs : pc[x] # "idle" => pc'[x] # "idle"
    BY <1>2, <2>1, ReleaseMovesOn DEF Settled, MapInv
  <2>2. CASE SpawnStart(r)
    BY <1>2, <2>1, <2>2 DEF SpawnStart, Settled
  <2>3. CASE SpawnThrows(r)
    BY <2>1, <2>3 DEF SpawnThrows, Settled
  <2>4. CASE SpawnSettled(r)
    BY <2>1, <2>4 DEF SpawnSettled, Settled
  <2>5. CASE AttachAborted(r)
    BY <2>1, <2>5 DEF AttachAborted, Settled
  <2>6. CASE AttachDone(r)
    BY <2>1, <2>6 DEF AttachDone, Settled
  <2>7. CASE CancelCreateOrAttach(r)
    BY <1>3, <2>7 DEF CancelCreateOrAttach
  <2> QED
    BY <1>5, <2>2, <2>3, <2>4, <2>5, <2>6, <2>7 DEF CallStep, SpawnReady, SpawnTimeout
<1>6. ASSUME NEW s \in Reqs, ChildStep(s) \/ CleanupTimeout(s)
      PROVE  Kept
  BY <1>2, <1>6
  DEF ChildStep, ChildSpawned, ChildExitFrame, ChildGone, HandleSessionExit, CleanupTimeout
<1>7. ASSUME NEW id \in Ids, Kill(id) \/ KillTimeout(id)
      PROVE  Kept
  BY <1>7 DEF Kill, KillAt, KillTimeout
<1>8. CASE KillAll
  BY <1>1, <1>8 DEF KillAll, KillAt
<1>9. ASSUME NEW k \in Socks, SocketClose(k) \/ \E id \in Ids : Detach(k, id)
      PROVE  Kept
  BY <1>9 DEF SocketClose, Detach, DetachAt
<1>10. CASE HostDispose
  BY <1>1, <1>3, <1>10 DEF HostDispose
<1>11. CASE UNCHANGED vars
  BY <1>1, <1>11 DEF vars
<1> HIDE DEF Kept
<1>12. CASE \E r \in Reqs, k \in Socks, id \in Ids :
              AttachExisting(r, k, id) \/ SpawnNew(r, k, id)
  BY <1>1, <1>4, <1>12
<1>13. CASE \E r \in Reqs : CallStep(r) \/ ChildStep(r) \/ CleanupTimeout(r)
  BY <1>1, <1>5, <1>6, <1>13
<1>14. CASE Next
  BY <1>1, <1>7, <1>8, <1>9, <1>10, <1>12, <1>13, <1>14 DEF Next
<1> QED  BY <1>1, <1>11, <1>14

LEMMA RegistrationKeepsMapInv ==
    ASSUME MapInv, CallInv', Started', NEW r \in Reqs, Registration(r)
    PROVE  MapInv'
<1>1. /\ rid' = rid /\ aborted' = aborted /\ sess' = sess
      /\ pc[r] = "spawning" /\ ~aborted[r] /\ rid[r] \in Ids
      /\ target' = [target EXCEPT ![r] = r] /\ target \in [Reqs -> Reqs \cup {None}]
      /\ sessions' = [sessions EXCEPT ![rid[r]] = r]
      /\ sessions \in [Ids -> Reqs \cup {None}]
  BY DEF Registration, MapInv, CallInv, IdleCalls, TypeOK
<1>2. /\ pc'[r] = "attaching"
      /\ \A x \in Reqs : x # r => \/ pc'[x] = pc[x]
                                  \/ pc[x] = "queued" /\ pc'[x] = "acquired"
  BY <1>1, ReleaseMovesOn DEF Registration, MapInv
<1>3. MappedNotDisposed'
  <2>1. ~sess[r].disposed
    BY <1>1 DEF MapInv, FreshUnmapped, Fresh, Creating
  <2>2. ASSUME NEW id \in Ids, sessions'[id] # None
        PROVE  LET s == sessions'[id]
               IN  ~sess[s].disposed /\ rid[s] = id /\ target'[s] = s
    <3>1. CASE id = rid[r]
      BY <1>1, <2>1, <3>1
    <3>2. CASE id # rid[r]
      BY <1>1, <2>2, <3>2 DEF MapInv, MappedNotDisposed, Mapped
    <3> QED  BY <3>1, <3>2
  <2> QED  BY <1>1, <2>2 DEF MappedNotDisposed, Mapped
<1>4. CreatorFindsNoSession'
  <2>1. ASSUME NEW x \in Reqs, pc'[x] \in Creating, ~aborted[x]
        PROVE  sessions'[rid[x]] = None
    <3>1. x # r /\ pc[x] \in Creating
      BY <1>2, <2>1 DEF Creating
    <3>2. sessions[rid[x]] = None
      BY <2>1, <3>1 DEF MapInv, CreatorFindsNoSession, Mapped
    <3>3. pending[rid[x]] = x /\ pending[rid[r]] = r
      BY <1>1, <2>1, <3>1 DEF MapInv, CallInv, OneOwner, InFlight, Creating
    <3>4. rid[x] \in Ids
      BY <3>1 DEF MapInv, CallInv, IdleCalls, Creating
    <3> QED  BY <1>1, <3>1, <3>2, <3>3, <3>4
  <2> QED  BY <1>1, <2>1 DEF CreatorFindsNoSession, Mapped
<1>5. FreshUnmapped'
  BY <1>1, <1>2 DEF MapInv, FreshUnmapped, Fresh, Creating
<1> QED  BY <1>3, <1>4, <1>5 DEF MapInv

LEMMA MapInvStep == MapInv /\ [Next]_vars => MapInv'
<1> SUFFICES ASSUME MapInv, [Next]_vars
             PROVE  MapInv'
  OBVIOUS
<1>1. CallInv'
  BY CallInvStep DEF MapInv
<1>2. Started'
  BY StartedStep
<1> QED
  BY <1>1, <1>2, StepShape, RemovalKeepsMapInv, RegistrationKeepsMapInv

LEMMA MapInvInit == Init => MapInv
<1> SUFFICES ASSUME Init
             PROVE  MapInv
  OBVIOUS
<1>1. CallInv
  BY CallInvInit
<1>2. /\ \A r \in Reqs : /\ pc[r] = "idle" /\ child[r] = "none" /\ target[r] = None
                         /\ ~sess[r].disposed
      /\ \A id \in Ids : sessions[id] = None
      /\ cleanups = {}
  BY DEF Init, NewSession
<1>3. Started /\ MappedNotDisposed /\ CreatorFindsNoSession
  BY <1>2 DEF Started, MappedNotDisposed, CreatorFindsNoSession, Mapped, Creating
<1>4. FreshUnmapped
  BY <1>2, NoneAssumption DEF FreshUnmapped
<1> QED  BY <1>1, <1>3, <1>4 DEF MapInv

LEMMA MapInvariant == Spec => []MapInv
BY MapInvInit, MapInvStep, PTL DEF Spec

\* The absence of a session that a call has checked before it waited for a slot
\* and for the PTY still holds when it goes on, for every number of calls.
THEOREM CreatorCorrect == Spec => []CreatorFindsNoSession
BY MapInvariant, PTL DEF MapInv

\* The map never leads to a disposed session or to one of another id.
THEOREM MapCorrect == Spec => []MappedNotDisposed
BY MapInvariant, PTL DEF MapInv

\* One call at a time may create the session of an id, it finds the id free when
\* it does, and the table leads to live entries only.
THEOREM OwnershipCorrect == Spec => []Ownership
BY OwnersCorrect, CreatorCorrect, MapCorrect, PTL DEF Ownership

-----------------------------------------------------------------------------
(* The map implements the registry.                                         *)

LEMMA RegistryInit == Init => Registry!Init
<1> SUFFICES ASSUME Init
             PROVE  Registry!Init
  OBVIOUS
<1>1. \A s \in Reqs : target[s] # s
  BY NoneAssumption DEF Init
<1> QED  BY <1>1 DEF Init, Registry!Init

LEMMA RegistryStep ==
    ASSUME MapInv, MapInv', [Next]_vars
    PROVE  [Registry!Next]_(Registry!vars)
<1> USE DEF Registry!Next, Registry!vars
<1>1. /\ sessions \in [Ids -> Reqs \cup {None}]
      /\ sessions' \in [Ids -> Reqs \cup {None}]
  BY DEF MapInv, CallInv, TypeOK
<1>2. CASE Removal
  <2> DEFINE D == {id \in Ids : sessions'[id] = None}
  <2>1. sessions' = [id \in Ids |-> IF id \in D THEN None ELSE sessions[id]]
    BY <1>1, <1>2 DEF Removal
  <2>2. {s \in Reqs : target'[s] = s} = {s \in Reqs : target[s] = s}
    BY <1>2 DEF Removal
  <2>3. Registry!Remove(D)
    BY <2>1, <2>2 DEF Registry!Remove
  <2> QED  BY <2>3
<1>3. ASSUME NEW r \in Reqs, Registration(r)
      PROVE  Registry!Next
  <2>1. /\ pc[r] = "spawning" /\ ~aborted[r] /\ rid[r] \in Ids
        /\ target' = [target EXCEPT ![r] = r] /\ target \in [Reqs -> Reqs \cup {None}]
        /\ sessions' = [sessions EXCEPT ![rid[r]] = r]
    BY <1>3 DEF Registration, MapInv, CallInv, IdleCalls, TypeOK
  <2>2. sessions[rid[r]] = None
    BY <2>1 DEF MapInv, CreatorFindsNoSession, Mapped, Creating
  <2>3. target[r] # r
    BY <2>1 DEF MapInv, FreshUnmapped, Fresh, Creating
  <2>4. {s \in Reqs : target'[s] = s} = {s \in Reqs : target[s] = s} \cup {r}
    BY <2>1
  <2>5. Registry!Register(rid[r], r)
    BY <2>1, <2>2, <2>3, <2>4 DEF Registry!Register
  <2> QED  BY <2>1, <2>5
<1> QED  BY <1>2, <1>3, StepShape

\* The table of sessions implements the registry: a session never overwrites
\* another one and never comes back, for every number of calls and ids.
THEOREM RegistryImplemented == Spec => RegistrySpec
<1>1. Init => Registry!Init
  BY RegistryInit
<1>2. MapInv /\ MapInv' /\ [Next]_vars => [Registry!Next]_(Registry!vars)
  BY RegistryStep
<1> QED
  BY <1>1, <1>2, MapInvariant, PTL DEF Spec, RegistrySpec, Registry!Spec
-----------------------------------------------------------------------------
(* Attachments, and sessions that die: how a step changes what is attached.  *)

\* A session that has not been registered is not being terminated.
FreshUnkilled == \A r \in Reqs : Fresh(r) => ~sess[r].terminating

\* The inductive invariant of the attachments and of the dead sessions.
HostInv == MapInv /\ FreshUnkilled /\ AttachmentsHaveOwner /\ DeadSessionHasCleanup

\* Attachments stay or go, and those of calls that are canceled go.
Detachment ==
    \A s \in Reqs, k \in Socks :
        /\ clients'[s][k] = clients[s][k] \/ clients'[s][k] = None
        /\ clients'[s][k] # None =>
              LET q == clients[s][k]
              IN  pc'[q] \in {"attaching", "ok"} /\ target'[q] = target[q] /\ rsock'[q] = rsock[q]

\* Call r attaches its socket to the session that it has found or made.
Attachment(r) ==
    LET s == target'[r]
        k == rsock'[r]
    IN  /\ s \in Reqs /\ k \in Socks /\ pc'[r] = "attaching"
        /\ clients' = [clients EXCEPT ![s] = [@ EXCEPT ![k] = r]]
        /\ \A x \in Reqs \ {r} :
              pc[x] \in {"attaching", "ok"} => /\ pc'[x] = pc[x] /\ target'[x] = target[x]
                                               /\ rsock'[x] = rsock[x]
        /\ pc[r] \notin {"attaching", "ok"}
        /\ sess'[s].subprocess /\ ~sess'[s].exitCode /\ ~sess'[s].terminating
        /\ sessions'[rid'[r]] = s

LEMMA DetachmentKeepsOwners ==
    ASSUME CallInv, CallInv', AttachmentsHaveOwner, Detachment
    PROVE  AttachmentsHaveOwner'
<1> SUFFICES ASSUME NEW s \in Reqs, NEW k \in Socks, clients'[s][k] # None
             PROVE  LET q == clients'[s][k]
                    IN  pc'[q] \in {"attaching", "ok"} /\ target'[q] = s /\ rsock'[q] = k
  BY DEF AttachmentsHaveOwner
<1>1. clients'[s][k] = clients[s][k]
  BY DEF Detachment
<1> QED  BY <1>1 DEF Detachment, AttachmentsHaveOwner

LEMMA AttachmentKeepsOwners ==
    ASSUME CallInv, CallInv', AttachmentsHaveOwner, NEW r \in Reqs, Attachment(r)
    PROVE  AttachmentsHaveOwner'
<1> DEFINE s0 == target'[r]
           k0 == rsock'[r]
<1>1. clients \in [Reqs -> [Socks -> Reqs \cup {None}]]
  BY DEF CallInv, TypeOK
<1>2. s0 \in Reqs /\ k0 \in Socks
      /\ clients' = [clients EXCEPT ![s0] = [@ EXCEPT ![k0] = r]]
  BY DEF Attachment
<1> HIDE DEF s0, k0
<1>3. \A s \in Reqs, k \in Socks :
         clients'[s][k] = IF s = s0 /\ k = k0 THEN r ELSE clients[s][k]
  BY <1>1, <1>2
<1> SUFFICES ASSUME NEW s \in Reqs, NEW k \in Socks, clients'[s][k] # None
             PROVE  LET q == clients'[s][k]
                    IN  pc'[q] \in {"attaching", "ok"} /\ target'[q] = s /\ rsock'[q] = k
  BY DEF AttachmentsHaveOwner
<1>4. CASE s = s0 /\ k = k0
  BY <1>3, <1>4 DEF Attachment, s0, k0
<1>5. CASE ~(s = s0 /\ k = k0)
  <2> DEFINE q == clients[s][k]
  <2>1. clients'[s][k] = q /\ q \in Reqs
    BY <1>1, <1>3, <1>5
  <2>2. pc[q] \in {"attaching", "ok"} /\ target[q] = s /\ rsock[q] = k
    BY <2>1 DEF AttachmentsHaveOwner
  <2>3. q # r
    BY <2>2 DEF Attachment
  <2> QED  BY <2>1, <2>2, <2>3 DEF Attachment
<1> QED  BY <1>4, <1>5

\* The calls that have attached a socket go on, and nothing is attached.
LEMMA StayingCallers ==
    ASSUME CallInv, AttachmentsHaveOwner,
           \A s \in Reqs, k \in Socks : clients'[s][k] = clients[s][k] \/ clients'[s][k] = None,
           \A q \in Reqs : pc[q] \in {"attaching", "ok"} =>
              \/ /\ pc'[q] \in {"attaching", "ok"}
                 /\ target'[q] = target[q] /\ rsock'[q] = rsock[q]
              \/ clients'[target[q]][rsock[q]] # q
    PROVE  Detachment
<1> SUFFICES ASSUME NEW s \in Reqs, NEW k \in Socks, clients'[s][k] # None
             PROVE  LET q == clients[s][k]
                    IN  /\ pc'[q] \in {"attaching", "ok"}
                        /\ target'[q] = target[q] /\ rsock'[q] = rsock[q]
  BY DEF Detachment
<1> DEFINE q == clients[s][k]
<1>1. q \in Reqs /\ q # None /\ clients'[s][k] = q
  BY DEF CallInv, TypeOK
<1>2. pc[q] \in {"attaching", "ok"} /\ target[q] = s /\ rsock[q] = k
  BY <1>1 DEF AttachmentsHaveOwner
<1> QED  BY <1>1, <1>2

\* Dispose drops all attachments of the sessions it disposes.
LEMMA DisposeDetaches ==
    ASSUME TypeOK, NEW S, Dispose(S)
    PROVE  /\ \A s \in Reqs, k \in Socks :
                clients'[s][k] = clients[s][k] \/ clients'[s][k] = None
           /\ \A s \in Reqs : sess'[s].terminating = sess[s].terminating
<1>1. sess \in [Reqs -> SessionFields]
  BY DEF TypeOK
<1>2. ASSUME NEW s \in Reqs
      PROVE  sess'[s].terminating = sess[s].terminating
  BY <1>1 DEF Dispose, SessionFields
<1>3. ASSUME NEW s \in Reqs, NEW k \in Socks
      PROVE  clients'[s][k] = clients[s][k] \/ clients'[s][k] = None
  BY DEF Dispose, NoClients
<1> QED  BY <1>2, <1>3

LEMMA AttachExistingAttaches ==
    ASSUME CallInv, NEW r \in Reqs, NEW k \in Socks, NEW id \in Ids,
           AttachExisting(r, k, id)
    PROVE  Attachment(r)
<1>1. /\ pc \in [Reqs -> Stages] /\ rid \in [Reqs -> Ids \cup {None}]
      /\ rsock \in [Reqs -> Socks \cup {None}] /\ target \in [Reqs -> Reqs \cup {None}]
      /\ sessions \in [Ids -> Reqs \cup {None}]
  BY DEF CallInv, TypeOK
<1>2. /\ pc[r] = "idle" /\ Mapped(id) /\ Attachable(sessions[id])
      /\ rid' = [rid EXCEPT ![r] = id] /\ rsock' = [rsock EXCEPT ![r] = k]
      /\ target' = [target EXCEPT ![r] = sessions[id]]
      /\ clients' = [clients EXCEPT ![sessions[id]] = [@ EXCEPT ![k] = r]]
      /\ pc' = [PcAfterAbort({pending[id]}) EXCEPT ![r] = "attaching"]
      /\ sessions' = sessions /\ sess' = sess
  BY DEF AttachExisting, Enter
<1>3. /\ target'[r] = sessions[id] /\ rsock'[r] = k /\ rid'[r] = id
      /\ sessions[id] \in Reqs
  BY <1>1, <1>2 DEF Mapped
<1>4. pc'[r] = "attaching"
      /\ \A x \in Reqs \ {r} : pc[x] \in {"attaching", "ok"} => pc'[x] = pc[x]
  BY <1>2 DEF PcAfterAbort
<1>5. \A x \in Reqs \ {r} : target'[x] = target[x] /\ rsock'[x] = rsock[x]
  BY <1>1, <1>2
<1>6. LET s == sessions[id]
      IN  sess'[s].subprocess /\ ~sess'[s].exitCode /\ ~sess'[s].terminating
  BY <1>2 DEF Attachable, Alive
<1> QED  BY <1>2, <1>3, <1>4, <1>5, <1>6 DEF Attachment

LEMMA SpawnNewDetaches ==
    ASSUME CallInv, AttachmentsHaveOwner,
           NEW r \in Reqs, NEW k \in Socks, NEW id \in Ids, SpawnNew(r, k, id)
    PROVE  Detachment
<1>1. /\ pc[r] = "idle" /\ target' = target /\ rsock' = [rsock EXCEPT ![r] = k]
      /\ \E st \in {"acquired", "queued"} :
            pc' = [PcAfterAbort({pending[id]}) EXCEPT ![r] = st]
      /\ \E S : Dispose(S)
  BY DEF SpawnNew, Enter, Discard
<1>2. \A s \in Reqs, j \in Socks : clients'[s][j] = clients[s][j] \/ clients'[s][j] = None
  BY <1>1, DisposeDetaches DEF CallInv
<1>3. ASSUME NEW q \in Reqs, pc[q] \in {"attaching", "ok"}
      PROVE  pc'[q] = pc[q] /\ target'[q] = target[q] /\ rsock'[q] = rsock[q]
  BY <1>1, <1>3 DEF PcAfterAbort, CallInv, TypeOK
<1> QED  BY <1>2, <1>3, StayingCallers

LEMMA CallStepAttaches ==
    ASSUME MapInv, FreshUnkilled, AttachmentsHaveOwner, NEW r \in Reqs, CallStep(r)
    PROVE  Detachment \/ Attachment(r)
<1> USE DEF objectVars
<1>1. /\ CallInv /\ TypeOK /\ pc \in [Reqs -> Stages]
      /\ target \in [Reqs -> Reqs \cup {None}] /\ sessions \in [Ids -> Reqs \cup {None}]
  BY DEF MapInv, CallInv, TypeOK
<1>2. ASSUME pc[r] \in {"acquired", "spawning"}, NEW st, ReleaseSlot(r, st)
      PROVE  /\ pc'[r] = st
             /\ \A q \in Reqs \ {r} : pc[q] \in {"attaching", "ok"} => pc'[q] = pc[q]
             /\ pc[r] \notin {"attaching", "ok"}
  BY <1>1, <1>2, ReleaseMovesOn
<1>3. CASE SpawnStart(r)
  <2>1. /\ UNCHANGED <<target, rsock, clients>> /\ pc[r] = "acquired"
        /\ ReleaseSlot(r, "canceled") \/ pc' = [pc EXCEPT ![r] = "spawning"]
    BY <1>3 DEF SpawnStart
  <2>2. \A q \in Reqs : pc[q] \in {"attaching", "ok"} => pc'[q] = pc[q]
    BY <1>1, <1>2, <2>1
  <2> QED  BY <1>1, <2>1, <2>2, StayingCallers
<1>4. CASE SpawnThrows(r)
  <2>1. UNCHANGED <<target, rsock, clients>> /\ pc[r] = "acquired" /\ ReleaseSlot(r, "failed")
    BY <1>4 DEF SpawnThrows
  <2>2. \A q \in Reqs : pc[q] \in {"attaching", "ok"} => pc'[q] = pc[q]
    BY <1>2, <2>1
  <2> QED  BY <1>1, <2>1, <2>2, StayingCallers
<1>5. CASE SpawnSettled(r)
  <2>1. pc[r] = "spawning" /\ rsock' = rsock /\ rid' = rid
    BY <1>5 DEF SpawnSettled
  <2>2. CASE (\E st : ReleaseSlot(r, st)) /\ Dispose({r}) /\ UNCHANGED target
    <3>1. \A q \in Reqs : pc[q] \in {"attaching", "ok"} => pc'[q] = pc[q]
      BY <1>2, <2>1, <2>2
    <3> QED  BY <1>1, <2>1, <2>2, <3>1, DisposeDetaches, StayingCallers
  <2>3. CASE /\ Alive(r) /\ ReleaseSlot(r, "attaching")
             /\ sessions' = [sessions EXCEPT ![rid[r]] = r]
             /\ target' = [target EXCEPT ![r] = r]
             /\ clients' = [clients EXCEPT ![r] = [@ EXCEPT ![rsock[r]] = r]]
             /\ UNCHANGED sess
    <3>1. rid[r] \in Ids /\ rsock[r] \in Socks
      BY <2>1 DEF MapInv, CallInv, IdleCalls
    <3>2. ~sess[r].terminating
      BY <2>1 DEF FreshUnkilled, Fresh, Creating
    <3>3. target'[r] = r /\ rsock'[r] = rsock[r] /\ sessions'[rid'[r]] = r
      BY <1>1, <2>1, <2>3, <3>1
    <3>4. pc'[r] = "attaching"
          /\ \A q \in Reqs \ {r} : pc[q] \in {"attaching", "ok"} => pc'[q] = pc[q]
      BY <1>2, <2>1, <2>3
    <3>5. \A q \in Reqs \ {r} : target'[q] = target[q] /\ rsock'[q] = rsock[q]
      BY <1>1, <2>1, <2>3
    <3>6. sess'[r].subprocess /\ ~sess'[r].exitCode /\ ~sess'[r].terminating
      BY <2>3, <3>2 DEF Alive
    <3> QED  BY <2>1, <2>3, <3>1, <3>3, <3>4, <3>5, <3>6 DEF Attachment
  <2> QED  BY <1>5, <2>2, <2>3 DEF SpawnSettled
<1>6. CASE AttachAborted(r)
  <2> DEFINE s0 == target[r]
             k0 == rsock[r]
             left == ClientsWithout(s0, k0, r)
  <2>1. /\ pc[r] = "attaching" /\ pc' = [pc EXCEPT ![r] = "canceled"]
        /\ target' = target /\ rsock' = rsock
    BY <1>6 DEF AttachAborted
  <2>2. k0 \in Socks
    BY <2>1 DEF MapInv, CallInv, IdleCalls
  <2>3. clients \in [Reqs -> [Socks -> Reqs \cup {None}]] /\ r # None
    BY <1>1, NoneAssumption DEF TypeOK
  <2>4. \/ s0 = r /\ Dispose({r})
        \/ clients' = [clients EXCEPT ![s0] = left]
    BY <1>6 DEF AttachAborted
  <2>5. \A s \in Reqs, k \in Socks : clients'[s][k] = clients[s][k] \/ clients'[s][k] = None
    <3>1. CASE Dispose({r})
      BY <1>1, <3>1, DisposeDetaches
    <3>2. CASE clients' = [clients EXCEPT ![s0] = left]
      BY <2>2, <2>3, <3>2 DEF ClientsWithout
    <3> QED  BY <2>4, <3>1, <3>2
  <2>6. s0 \in Reqs => clients'[s0][k0] # r
    <3>1. CASE s0 = r /\ Dispose({r})
      <4>1. clients'[r] = NoClients
        BY <3>1 DEF Dispose
      <4>2. NoClients[k0] = None
        BY <2>2 DEF NoClients
      <4> QED  BY <2>3, <3>1, <4>1, <4>2
    <3>2. CASE clients' = [clients EXCEPT ![s0] = left]
      <4> SUFFICES ASSUME s0 \in Reqs
                   PROVE  clients'[s0][k0] # r
        OBVIOUS
      <4>1. clients'[s0] = left /\ clients[s0] \in [Socks -> Reqs \cup {None}]
        BY <2>3, <3>2
      <4>2. left[k0] = IF clients[s0][k0] = r THEN None ELSE clients[s0][k0]
        BY <2>2, <4>1 DEF ClientsWithout
      <4> QED  BY <2>3, <4>1, <4>2
    <3> QED  BY <2>4, <3>1, <3>2
  <2>7. ASSUME s0 \notin Reqs
        PROVE  clients' = clients
    BY <1>1, <2>3, <2>4, <2>7
  <2>8. ASSUME NEW s \in Reqs, NEW k \in Socks, clients'[s][k] # None
        PROVE  LET q == clients[s][k]
               IN  /\ pc'[q] \in {"attaching", "ok"}
                   /\ target'[q] = target[q] /\ rsock'[q] = rsock[q]
    <3> DEFINE q == clients[s][k]
    <3>1. clients'[s][k] = q /\ q \in Reqs /\ q # None
      BY <2>3, <2>5, <2>8
    <3>2. pc[q] \in {"attaching", "ok"} /\ target[q] = s /\ rsock[q] = k
      BY <3>1 DEF AttachmentsHaveOwner
    <3>3. q # r
      BY <2>6, <3>1, <3>2
    <3> QED  BY <1>1, <2>1, <3>1, <3>2, <3>3
  <2> QED  BY <2>5, <2>8 DEF Detachment
<1>7. CASE AttachDone(r)
  <2>1. /\ UNCHANGED <<target, rsock, clients>>
        /\ pc[r] = "attaching" /\ pc' = [pc EXCEPT ![r] = "ok"]
    BY <1>7 DEF AttachDone
  <2> QED  BY <1>1, <2>1, StayingCallers
<1>8. CASE CancelCreateOrAttach(r)
  <2>1. UNCHANGED <<target, rsock, clients>> /\ pc' = PcAfterAbort({r})
    BY <1>8 DEF CancelCreateOrAttach
  <2>2. \A q \in Reqs : pc[q] \in {"attaching", "ok"} => pc'[q] = pc[q]
    BY <2>1 DEF PcAfterAbort
  <2> QED  BY <1>1, <2>1, <2>2, StayingCallers
<1> QED
  BY <1>3, <1>4, <1>5, <1>6, <1>7, <1>8 DEF CallStep, SpawnReady, SpawnTimeout

\* Nothing is attached, and the calls stay as they are.
LEMMA OthersDetach ==
    ASSUME CallInv, AttachmentsHaveOwner, UNCHANGED <<pc, rsock, target>>,
           \A s \in Reqs, k \in Socks : clients'[s][k] = clients[s][k] \/ clients'[s][k] = None
    PROVE  Detachment
BY StayingCallers

LEMMA DetachAtDetaches ==
    ASSUME CallInv, AttachmentsHaveOwner, NEW k \in Socks, NEW D, DetachAt(k, D)
    PROVE  Detachment
<1>1. UNCHANGED <<pc, rsock, target>>
  BY DEF DetachAt, callVars
<1>2. \A s \in Reqs : \/ clients'[s] = [clients[s] EXCEPT ![k] = None]
                      \/ clients'[s] = clients[s]
  BY DEF DetachAt
<1>3. clients \in [Reqs -> [Socks -> Reqs \cup {None}]]
  BY DEF CallInv, TypeOK
<1>4. \A s \in Reqs, j \in Socks : clients'[s][j] = clients[s][j] \/ clients'[s][j] = None
  BY <1>2, <1>3
<1> QED  BY <1>1, <1>4, OthersDetach

\* Every step takes attachments away or makes one, of the call it belongs to.
LEMMA AttachmentStep ==
    ASSUME MapInv, FreshUnkilled, AttachmentsHaveOwner, [Next]_vars
    PROVE  Detachment \/ \E r \in Reqs : Attachment(r)
<1> USE DEF callVars, objectVars
<1>1. CallInv /\ TypeOK
  BY DEF MapInv, CallInv
<1>2. ASSUME NEW r \in Reqs, NEW k \in Socks, NEW id \in Ids,
             AttachExisting(r, k, id) \/ SpawnNew(r, k, id)
      PROVE  Detachment \/ Attachment(r)
  BY <1>1, <1>2, AttachExistingAttaches, SpawnNewDetaches
<1>3. ASSUME NEW r \in Reqs, CallStep(r)
      PROVE  Detachment \/ Attachment(r)
  BY <1>3, CallStepAttaches
<1>4. ASSUME NEW s \in Reqs, ChildStep(s)
      PROVE  Detachment
  <2>1. UNCHANGED <<pc, rsock, target, clients>>
    BY <1>4 DEF ChildStep, ChildSpawned, ChildExitFrame, ChildGone
  <2> QED  BY <1>1, <2>1, OthersDetach
<1>5. ASSUME UNCHANGED callVars, NEW D, Discard(D)
      PROVE  Detachment
  BY <1>1, <1>5, DisposeDetaches, OthersDetach DEF Discard
<1>6. ASSUME NEW s \in Reqs, CleanupTimeout(s)
      PROVE  Detachment
  BY <1>5, <1>6 DEF CleanupTimeout
<1>7. ASSUME NEW id \in Ids, KillTimeout(id)
      PROVE  Detachment
  BY <1>5, <1>7 DEF KillTimeout
<1>8. ASSUME NEW D, KillAt(D)
      PROVE  Detachment
  BY <1>1, <1>8, OthersDetach DEF KillAt
<1>9. ASSUME NEW k \in Socks, SocketClose(k) \/ \E id \in Ids : Detach(k, id)
      PROVE  Detachment
  BY <1>1, <1>9, DetachAtDetaches DEF SocketClose, Detach
<1>10. CASE HostDispose
  <2>1. /\ UNCHANGED <<rsock, target>> /\ Discard(Ids)
        /\ pc' = PcAfterAbort({pending[id] : id \in Ids})
    BY <1>10 DEF HostDispose
  <2>2. \A q \in Reqs : pc[q] \in {"attaching", "ok"} => pc'[q] = pc[q]
    BY <2>1 DEF PcAfterAbort
  <2> QED  BY <1>1, <2>1, <2>2, DisposeDetaches, StayingCallers DEF Discard
<1>11. CASE UNCHANGED vars
  BY <1>1, <1>11, OthersDetach DEF vars
<1>12. CASE \E r \in Reqs, k \in Socks, id \in Ids :
              AttachExisting(r, k, id) \/ SpawnNew(r, k, id)
  BY <1>2, <1>12
<1>13. CASE \E r \in Reqs : CallStep(r) \/ ChildStep(r) \/ CleanupTimeout(r)
  BY <1>3, <1>4, <1>6, <1>13
<1>14. CASE (\E id \in Ids : Kill(id) \/ KillTimeout(id)) \/ KillAll
  BY <1>7, <1>8, <1>14 DEF Kill, KillAll
<1> QED  BY <1>9, <1>10, <1>11, <1>12, <1>13, <1>14 DEF Next

-----------------------------------------------------------------------------
(* Sessions that die.                                                       *)

\* Only a session in the map is killed.
LEMMA KilledIsMapped ==
    ASSUME TypeOK, [Next]_vars, NEW s \in Reqs, sess'[s].terminating, ~sess[s].terminating
    PROVE  \E id \in Ids : sessions[id] = s
<1> SUFFICES ASSUME \A id \in Ids : sessions[id] # s
             PROVE  sess'[s].terminating = sess[s].terminating
  OBVIOUS
<1> USE DEF objectVars
<1>1. sess \in [Reqs -> SessionFields]
  BY DEF TypeOK
<1>2. ASSUME NEW S, Dispose(S)
      PROVE  sess'[s].terminating = sess[s].terminating
  BY <1>2, DisposeDetaches
<1>3. ASSUME NEW r \in Reqs, NEW k \in Socks, NEW id \in Ids,
             AttachExisting(r, k, id) \/ SpawnNew(r, k, id)
      PROVE  sess'[s].terminating = sess[s].terminating
  BY <1>2, <1>3 DEF AttachExisting, SpawnNew, Discard
<1>4. ASSUME NEW r \in Reqs, CallStep(r)
      PROVE  sess'[s].terminating = sess[s].terminating
  <2>1. CASE SpawnStart(r)
    BY <1>1, <2>1 DEF SpawnStart, SessionFields
  <2>2. CASE SpawnSettled(r)
    BY <1>2, <2>2 DEF SpawnSettled
  <2>3. CASE AttachAborted(r)
    BY <1>2, <2>3 DEF AttachAborted
  <2>4. CASE SpawnThrows(r) \/ AttachDone(r) \/ CancelCreateOrAttach(r)
    BY <2>4 DEF SpawnThrows, AttachDone, CancelCreateOrAttach
  <2> QED  BY <1>4, <2>1, <2>2, <2>3, <2>4 DEF CallStep, SpawnReady, SpawnTimeout
<1>5. ASSUME NEW r \in Reqs, ChildStep(r)
      PROVE  sess'[s].terminating = sess[s].terminating
  <2>1. CASE ChildSpawned(r)
    BY <1>1, <2>1 DEF ChildSpawned, SessionFields
  <2>2. CASE ChildExitFrame(r)
    BY <1>1, <2>2 DEF ChildExitFrame, SessionFields
  <2>3. CASE ChildGone(r)
    BY <1>1, <2>3 DEF ChildGone, SessionFields
  <2> QED  BY <1>5, <2>1, <2>2, <2>3 DEF ChildStep
<1>6. ASSUME NEW D \in SUBSET Ids, KillAt(D)
      PROVE  sess'[s].terminating = sess[s].terminating
  BY <1>6 DEF KillAt
<1>7. ASSUME NEW k, NEW D, DetachAt(k, D)
      PROVE  sess'[s].terminating = sess[s].terminating
  <2>1. sess'[s] = sess[s] \/ sess'[s] = [sess[s] EXCEPT !.disposed = TRUE, !.subprocess = FALSE]
    BY <1>7 DEF DetachAt
  <2> QED  BY <1>1, <2>1 DEF SessionFields
<1>8. CASE \E r \in Reqs, k \in Socks, id \in Ids :
              AttachExisting(r, k, id) \/ SpawnNew(r, k, id)
  BY <1>3, <1>8
<1>9. CASE \E r \in Reqs : CallStep(r) \/ ChildStep(r) \/ CleanupTimeout(r)
  BY <1>2, <1>4, <1>5, <1>9 DEF CleanupTimeout, Discard
<1>10. CASE \E id \in Ids : Kill(id) \/ KillTimeout(id)
  BY <1>2, <1>6, <1>10 DEF Kill, KillTimeout, Discard
<1>11. CASE KillAll
  BY <1>6, <1>11 DEF KillAll
<1>12. CASE \E k \in Socks : SocketClose(k) \/ \E id \in Ids : Detach(k, id)
  BY <1>7, <1>12 DEF SocketClose, Detach
<1>13. CASE HostDispose
  BY <1>2, <1>13 DEF HostDispose, Discard
<1>14. CASE UNCHANGED vars
  BY <1>14 DEF vars
<1> QED  BY <1>8, <1>9, <1>10, <1>11, <1>12, <1>13, <1>14 DEF Next

LEMMA FreshUnkilledStep ==
    ASSUME MapInv, FreshUnkilled, [Next]_vars
    PROVE  FreshUnkilled'
<1> SUFFICES ASSUME NEW r \in Reqs, Fresh(r)', sess'[r].terminating
             PROVE  FALSE
  BY DEF FreshUnkilled
<1>1. Fresh(r)
  <2>1. ASSUME NEW q \in Reqs, Registration(q)
        PROVE  Fresh(r)
    <3>1. /\ pc[q] = "spawning" /\ pc'[q] = "attaching"
          /\ \A x \in Reqs : x # q => \/ pc'[x] = pc[x]
                                      \/ pc[x] = "queued" /\ pc'[x] = "acquired"
      BY <2>1, ReleaseMovesOn DEF Registration, MapInv
    <3> QED  BY <3>1 DEF Fresh, Creating
  <2> QED  BY <2>1, StepShape DEF Removal
<1>2. ~sess[r].terminating
  BY <1>1 DEF FreshUnkilled
<1>3. PICK id \in Ids : sessions[id] = r
  BY <1>2, KilledIsMapped DEF MapInv, CallInv
<1>4. target[r] = r
  BY <1>3, NoneAssumption DEF MapInv, MappedNotDisposed, Mapped
<1> QED  BY <1>1, <1>4 DEF MapInv, FreshUnmapped

\* A session that is dead in the map after a step was so before, and has its
\* timer still, or its timer is armed.
CleanupsKept ==
    /\ \A id \in Ids :
          LET s == sessions'[id]
          IN  s # None /\ (sess'[s].subprocess => sess'[s].exitCode) =>
                 \/ /\ s = sessions[id] /\ ~Alive(s)
                    /\ \A c \in cleanups : rid[c] = id => c \in cleanups'
                 \/ \E c \in cleanups' : rid'[c] = id
    /\ \A c \in cleanups : rid'[c] = rid[c]

LEMMA CleanupsKeptStep ==
    ASSUME DeadSessionHasCleanup, CleanupsKept
    PROVE  DeadSessionHasCleanup'
<1> SUFFICES ASSUME NEW id \in Ids, sessions'[id] # None,
                    sess'[sessions'[id]].subprocess => sess'[sessions'[id]].exitCode
             PROVE  \E c \in cleanups' : rid'[c] = id
  BY DEF DeadSessionHasCleanup, Mapped, Alive
<1>1. CASE /\ sessions'[id] = sessions[id] /\ ~Alive(sessions[id])
           /\ \A c \in cleanups : rid[c] = id => c \in cleanups'
  BY <1>1 DEF CleanupsKept, DeadSessionHasCleanup, Mapped
<1> QED  BY <1>1 DEF CleanupsKept

\* A session is in the map under its own id only.
LEMMA MappedOnce ==
    ASSUME MapInv, NEW i \in Ids, sessions[i] # None
    PROVE  /\ sessions[i] \in Reqs /\ rid[sessions[i]] = i /\ ~Fresh(sessions[i])
           /\ \A j \in Ids : sessions[j] = sessions[i] => j = i
<1>1. rid[sessions[i]] = i /\ target[sessions[i]] = sessions[i] /\ sessions[i] \in Reqs
  BY DEF MapInv, CallInv, TypeOK, MappedNotDisposed, Mapped
<1>2. \A j \in Ids : sessions[j] = sessions[i] => j = i
  BY <1>1 DEF MapInv, MappedNotDisposed, Mapped
<1> QED  BY <1>1, <1>2, TargetNotFresh

\* The sessions that stay in the map live as before.
LEMMA LivesKept ==
    ASSUME MapInv, cleanups' = cleanups, \A c \in cleanups : rid'[c] = rid[c],
           \A i \in Ids : sessions'[i] = sessions[i] \/ sessions'[i] = None,
           \A i \in Ids : sessions'[i] # None =>
              LET s == sessions[i]
              IN  (sess'[s].subprocess => sess'[s].exitCode) => ~Alive(s)
    PROVE  CleanupsKept
BY DEF CleanupsKept

LEMMA DiscardLives ==
    ASSUME MapInv, NEW D \in SUBSET Ids, Discard(D)
    PROVE  \A i \in Ids : /\ sessions'[i] = IF i \in D THEN None ELSE sessions[i]
                          /\ sessions'[i] # None => sess'[sessions[i]] = sess[sessions[i]]
<1> SUFFICES ASSUME NEW i \in Ids, sessions[i] # None, i \notin D
             PROVE  sess'[sessions[i]] = sess[sessions[i]]
  BY DEF Discard
<1>1. sessions[i] \in Reqs /\ sessions[i] \notin {sessions[id] : id \in D}
  BY MappedOnce
<1> QED  BY <1>1 DEF Discard, Dispose

LEMMA DetachLives ==
    ASSUME MapInv, NEW k \in Socks, NEW D \in SUBSET Ids, DetachAt(k, D)
    PROVE  CleanupsKept
<1> DEFINE left(s) == [clients[s] EXCEPT ![k] = None]
           dead == {id \in D : Mapped(id) /\ ~Alive(sessions[id])
                                          /\ left(sessions[id]) = NoClients}
<1>1. /\ \A s \in Reqs : (\A id \in dead : sessions[id] # s) => sess'[s] = sess[s]
      /\ \A id \in Ids : sessions'[id] = IF id \in dead THEN None ELSE sessions[id]
      /\ rid' = rid /\ cleanups' = cleanups
  BY DEF DetachAt, callVars
<1>2. dead \subseteq Ids
  OBVIOUS
<1> HIDE DEF dead
<1>3. ASSUME NEW i \in Ids, sessions'[i] # None
      PROVE  sess'[sessions[i]] = sess[sessions[i]]
  <2>1. i \notin dead /\ sessions[i] # None
    BY <1>1, <1>3
  <2>2. sessions[i] \in Reqs /\ \A id \in dead : sessions[id] # sessions[i]
    BY <1>2, <2>1, MappedOnce
  <2> QED  BY <1>1, <2>2
<1> QED  BY <1>1, <1>3, LivesKept DEF Alive

LEMMA CallStepLives ==
    ASSUME MapInv, NEW r \in Reqs, CallStep(r)
    PROVE  CleanupsKept
<1> USE DEF objectVars
<1>1. /\ cleanups' = cleanups /\ rid' = rid
      /\ sessions \in [Ids -> Reqs \cup {None}] /\ sess \in [Reqs -> SessionFields]
  BY DEF CallStep, SpawnStart, SpawnThrows, SpawnReady, SpawnTimeout, SpawnSettled,
         AttachAborted, AttachDone, CancelCreateOrAttach, MapInv, CallInv, TypeOK
<1>2. ASSUME \A s \in Reqs \ {r} : sess'[s] = sess[s],
             \A i \in Ids : sessions'[i] = sessions[i] \/ sessions'[i] = None,
             \A i \in Ids : sessions[i] = r => sessions'[i] = None
      PROVE  CleanupsKept
  <2>1. \A i \in Ids : sessions'[i] # None => sessions[i] \in Reqs \ {r}
    BY <1>1, <1>2
  <2> QED  BY <1>1, <1>2, <2>1, LivesKept DEF Alive
<1>3. ASSUME UNCHANGED <<sess, sessions>>
      PROVE  CleanupsKept
  BY <1>1, <1>3, LivesKept DEF Alive
<1>4. ASSUME Fresh(r)
      PROVE  \A i \in Ids : sessions[i] # r
  BY <1>4, MappedOnce, NoneAssumption
<1>5. CASE SpawnStart(r)
  <2>1. /\ pc[r] = "acquired" /\ sessions' = sessions
        /\ \A s \in Reqs \ {r} : sess'[s] = sess[s]
    BY <1>1, <1>5 DEF SpawnStart
  <2> QED  BY <1>2, <1>4, <2>1 DEF Fresh, Creating
<1>6. CASE SpawnThrows(r) \/ AttachDone(r) \/ CancelCreateOrAttach(r)
  BY <1>3, <1>6 DEF SpawnThrows, AttachDone, CancelCreateOrAttach
<1>7. CASE SpawnSettled(r)
  <2>1. pc[r] = "spawning" /\ \A i \in Ids : sessions[i] # r
    BY <1>4, <1>7 DEF SpawnSettled, Fresh, Creating
  <2>2. CASE Dispose({r}) /\ \A i \in Ids : sessions'[i] \in {sessions[i], None}
    <3>1. \A s \in Reqs \ {r} : sess'[s] = sess[s]
      BY <2>2 DEF Dispose
    <3> QED  BY <1>1, <1>2, <2>1, <2>2, <3>1
  <2>3. CASE /\ Alive(r) /\ sess' = sess
             /\ sessions' = [sessions EXCEPT ![rid[r]] = r]
    <3>1. \A i \in Ids : sessions'[i] = sessions[i] \/ sessions'[i] = r
      BY <1>1, <2>3
    <3> QED  BY <1>1, <2>3, <3>1 DEF CleanupsKept, Alive
  <2> QED  BY <1>1, <1>7, <2>2, <2>3 DEF SpawnSettled
<1>8. CASE AttachAborted(r)
  <2>1. CASE Dispose({r}) /\ sessions' = [sessions EXCEPT ![rid[r]] = None]
    <3>1. \A s \in Reqs \ {r} : sess'[s] = sess[s]
      BY <2>1 DEF Dispose
    <3>2. \A i \in Ids : sessions[i] = r => i = rid[r]
      BY MappedOnce, NoneAssumption
    <3> QED  BY <1>1, <1>2, <2>1, <3>1, <3>2
  <2> QED  BY <1>3, <1>8, <2>1 DEF AttachAborted
<1> QED  BY <1>5, <1>6, <1>7, <1>8 DEF CallStep, SpawnReady, SpawnTimeout

LEMMA ChildStepLives ==
    ASSUME MapInv, NEW s \in Reqs, ChildStep(s)
    PROVE  CleanupsKept
<1>1. /\ sessions' = sessions /\ rid' = rid /\ cleanups \subseteq cleanups'
      /\ sess \in [Reqs -> SessionFields] /\ \A x \in Reqs \ {s} : sess'[x] = sess[x]
  BY DEF ChildStep, ChildSpawned, ChildExitFrame, ChildGone, HandleSessionExit,
         callVars, tableVars, MapInv, CallInv, TypeOK
<1>2. ASSUME (sess'[s].subprocess => sess'[s].exitCode) => ~Alive(s) \/ s \in cleanups'
      PROVE  CleanupsKept
  <2>1. ASSUME NEW id \in Ids, sessions[id] # None
        PROVE  sessions[id] \in Reqs /\ rid[sessions[id]] = id
    BY <2>1, MappedOnce
  <2> QED  BY <1>1, <1>2, <2>1 DEF CleanupsKept, Alive
<1>3. CASE ChildSpawned(s)
  <2>1. sess'[s].subprocess = sess[s].subprocess /\ sess'[s].exitCode = sess[s].exitCode
    BY <1>1, <1>3 DEF ChildSpawned, SessionFields
  <2> QED  BY <1>2, <2>1 DEF Alive
<1>4. CASE ChildExitFrame(s)
  BY <1>2, <1>4 DEF ChildExitFrame, HandleSessionExit, Alive
<1>5. CASE ChildGone(s)
  BY <1>2, <1>5 DEF ChildGone, HandleSessionExit, Alive
<1> QED  BY <1>3, <1>4, <1>5 DEF ChildStep

\* The timer of s is spent on the dead session under its id, if there is one.
LEMMA CleanupTimeoutLives ==
    ASSUME MapInv, NEW s \in Reqs, CleanupTimeout(s)
    PROVE  CleanupsKept
<1> DEFINE D == {i \in {rid[s]} : Mapped(i) /\ ~Alive(sessions[i])}
<1>1. rid[s] \in Ids
  BY DEF CleanupTimeout, MapInv, Started, CallInv, IdleCalls
<1>2. cleanups' = cleanups \ {s} /\ rid' = rid /\ Discard(D)
  BY DEF CleanupTimeout, callVars
<1>3. D \in SUBSET Ids
  BY <1>1
<1>4. ASSUME NEW i \in Ids, sessions'[i] # None,
             LET x == sessions'[i] IN sess'[x].subprocess => sess'[x].exitCode
      PROVE  /\ sessions'[i] = sessions[i] /\ ~Alive(sessions[i])
             /\ \A c \in cleanups : rid[c] = i => c \in cleanups'
  <2>1. i \notin D /\ sessions'[i] = sessions[i] /\ sess'[sessions[i]] = sess[sessions[i]]
    BY <1>2, <1>3, <1>4, DiscardLives
  <2>2. ~Alive(sessions[i])
    BY <1>4, <2>1 DEF Alive
  <2>3. i # rid[s]
    BY <1>4, <2>1, <2>2 DEF Mapped
  <2> QED  BY <1>2, <2>1, <2>2, <2>3
<1> QED  BY <1>2, <1>4 DEF CleanupsKept

LEMMA CleanupsKeptByNext ==
    ASSUME MapInv, [Next]_vars
    PROVE  CleanupsKept
<1> USE DEF callVars, tableVars, objectVars
<1>1. \A c \in cleanups : pc[c] # "idle" /\ c \in Reqs
  BY DEF MapInv, Started, CallInv, TypeOK
<1>2. ASSUME cleanups' = cleanups, \A c \in cleanups : rid'[c] = rid[c],
             NEW D \in SUBSET Ids, Discard(D)
      PROVE  CleanupsKept
  <2>1. \A i \in Ids : sessions'[i] # None => sessions'[i] = sessions[i]
                                            /\ sess'[sessions[i]] = sess[sessions[i]]
    BY <1>2, DiscardLives
  <2> QED  BY <1>2, <2>1, LivesKept DEF Alive
<1>3. ASSUME cleanups' = cleanups, \A c \in cleanups : rid'[c] = rid[c],
             UNCHANGED <<sess, sessions>>
      PROVE  CleanupsKept
  BY <1>3, LivesKept DEF Alive
<1>4. ASSUME NEW r \in Reqs, NEW k \in Socks, NEW id \in Ids,
             AttachExisting(r, k, id) \/ SpawnNew(r, k, id)
      PROVE  CleanupsKept
  <2>1. cleanups' = cleanups /\ pc[r] = "idle" /\ rid' = [rid EXCEPT ![r] = id]
    BY <1>4 DEF AttachExisting, SpawnNew, Enter
  <2>2. \A c \in cleanups : rid'[c] = rid[c]
    BY <1>1, <2>1 DEF MapInv, CallInv, TypeOK
  <2>3. UNCHANGED <<sess, sessions>> \/ Discard({id})
    BY <1>4 DEF AttachExisting, SpawnNew
  <2> QED  BY <1>2, <1>3, <2>1, <2>2, <2>3
<1>5. ASSUME NEW r \in Reqs, CallStep(r) \/ ChildStep(r) \/ CleanupTimeout(r)
      PROVE  CleanupsKept
  BY <1>5, CallStepLives, ChildStepLives, CleanupTimeoutLives
<1>6. ASSUME NEW D, KillAt(D)
      PROVE  CleanupsKept
  <2>1. sessions' = sessions /\ cleanups' = cleanups /\ rid' = rid
        /\ sess \in [Reqs -> SessionFields]
    BY <1>6 DEF KillAt, MapInv, CallInv, TypeOK
  <2>2. \A s \in Reqs : /\ sess'[s].subprocess = sess[s].subprocess
                        /\ sess'[s].exitCode = sess[s].exitCode
    BY <1>6, <2>1 DEF KillAt, SessionFields
  <2>3. \A i \in Ids : sessions[i] # None => sessions[i] \in Reqs
    BY MappedOnce
  <2> QED  BY <2>1, <2>2, <2>3, LivesKept DEF Alive
<1>7. ASSUME NEW id \in Ids, KillTimeout(id)
      PROVE  CleanupsKept
  BY <1>2, <1>7 DEF KillTimeout
<1>8. ASSUME NEW k \in Socks, SocketClose(k) \/ \E id \in Ids : Detach(k, id)
      PROVE  CleanupsKept
  BY <1>8, DetachLives DEF SocketClose, Detach
<1>9. CASE HostDispose
  BY <1>2, <1>9 DEF HostDispose
<1>10. CASE UNCHANGED vars
  BY <1>3, <1>10 DEF vars
<1>11. CASE \E r \in Reqs, k \in Socks, id \in Ids :
              AttachExisting(r, k, id) \/ SpawnNew(r, k, id)
  BY <1>4, <1>11
<1>12. CASE \E r \in Reqs : CallStep(r) \/ ChildStep(r) \/ CleanupTimeout(r)
  BY <1>5, <1>12
<1>13. CASE (\E id \in Ids : Kill(id) \/ KillTimeout(id)) \/ KillAll
  BY <1>6, <1>7, <1>13 DEF Kill, KillAll
<1> QED  BY <1>8, <1>9, <1>10, <1>11, <1>12, <1>13 DEF Next

-----------------------------------------------------------------------------
(* What is attached, and what becomes of it.                                *)

LEMMA HostInvInit == Init => HostInv
<1> SUFFICES ASSUME Init
             PROVE  HostInv
  OBVIOUS
<1>1. FreshUnkilled
  BY DEF Init, FreshUnkilled, NewSession
<1>2. AttachmentsHaveOwner
  BY DEF Init, AttachmentsHaveOwner, NoClients
<1>3. DeadSessionHasCleanup
  BY DEF Init, DeadSessionHasCleanup, Mapped
<1> QED  BY <1>1, <1>2, <1>3, MapInvInit DEF HostInv

LEMMA HostInvStep == HostInv /\ [Next]_vars => HostInv'
<1> SUFFICES ASSUME HostInv, [Next]_vars
             PROVE  HostInv'
  OBVIOUS
<1>1. MapInv' /\ CallInv /\ CallInv'
  BY MapInvStep DEF HostInv, MapInv
<1>2. AttachmentsHaveOwner'
  BY <1>1, AttachmentStep, DetachmentKeepsOwners, AttachmentKeepsOwners DEF HostInv
<1>3. FreshUnkilled' /\ DeadSessionHasCleanup'
  BY FreshUnkilledStep, CleanupsKeptByNext, CleanupsKeptStep DEF HostInv
<1> QED  BY <1>1, <1>2, <1>3 DEF HostInv

LEMMA HostInvariant == Spec => []HostInv
BY HostInvInit, HostInvStep, PTL DEF Spec

\* Every attachment is that of a call that was not canceled, and a session that
\* is dead in the map has a cleanup timer, for every number of calls and sockets.
THEOREM SessionsLookedAfterCorrect == Spec => []SessionsLookedAfter
BY HostInvariant, PTL DEF HostInv, SessionsLookedAfter

LEMMA AttachableStep ==
    ASSUME HostInv, [Next]_vars, NEW s \in Reqs, NEW k \in Socks,
           clients'[s][k] \notin {None, clients[s][k]}
    PROVE  /\ sess'[s].subprocess /\ ~sess'[s].exitCode /\ ~sess'[s].terminating
           /\ sessions'[rid'[clients'[s][k]]] = s
<1>1. ~Detachment
  BY DEF Detachment
<1>2. PICK r \in Reqs : Attachment(r)
  BY <1>1, AttachmentStep DEF HostInv
<1>3. clients \in [Reqs -> [Socks -> Reqs \cup {None}]]
  BY DEF HostInv, MapInv, CallInv, TypeOK
<1>4. s = target'[r] /\ clients'[s][k] = r
  BY <1>2, <1>3 DEF Attachment
<1> QED  BY <1>2, <1>4 DEF Attachment

LEMMA AbortStep ==
    ASSUME HostInv, [Next]_vars, NEW r \in Reqs, pc[r] = "attaching", pc'[r] = "canceled",
           NEW s \in Reqs, NEW k \in Socks, clients[s][k] \notin {None, r}
    PROVE  clients'[s][k] = clients[s][k]
<1> USE DEF callVars
<1>0. CallInv /\ pc \in [Reqs -> Stages] /\ waiters \in Seq(Reqs)
  BY DEF HostInv, MapInv, CallInv, TypeOK
<1>1. AttachAborted(r)
  <2> SUFFICES ASSUME ~AttachAborted(r)
               PROVE  pc'[r] # "canceled"
    OBVIOUS
  <2>1. ASSUME NEW q \in Reqs, NEW i \in Socks, NEW id \in Ids,
               AttachExisting(q, i, id) \/ SpawnNew(q, i, id)
        PROVE  pc'[r] # "canceled"
    <3>1. \E st \in {"attaching", "acquired", "queued"} :
             pc' = [PcAfterAbort({pending[id]}) EXCEPT ![q] = st]
      BY <2>1 DEF AttachExisting, SpawnNew
    <3> QED  BY <3>1 DEF PcAfterAbort
  <2>2. ASSUME NEW q \in Reqs, CallStep(q)
        PROVE  pc'[r] # "canceled"
    <3>1. ASSUME NEW st, pc[q] \in {"acquired", "spawning"}, ReleaseSlot(q, st)
          PROVE  pc'[r] # "canceled"
      BY <1>0, <3>1, ReleaseMovesOn
    <3>2. CASE SpawnStart(q)
      BY <3>1, <3>2, <1>0 DEF SpawnStart
    <3>3. CASE SpawnThrows(q)
      BY <3>1, <3>3 DEF SpawnThrows
    <3>4. CASE SpawnSettled(q)
      BY <3>1, <3>4 DEF SpawnSettled
    <3>5. CASE AttachAborted(q)
      BY <1>0, <3>5 DEF AttachAborted
    <3>6. CASE AttachDone(q)
      BY <1>0, <3>6 DEF AttachDone
    <3>7. CASE CancelCreateOrAttach(q)
      BY <3>7 DEF CancelCreateOrAttach, PcAfterAbort
    <3> QED
      BY <2>2, <3>2, <3>3, <3>4, <3>5, <3>6, <3>7 DEF CallStep, SpawnReady, SpawnTimeout
  <2>3. ASSUME UNCHANGED pc
        PROVE  pc'[r] # "canceled"
    BY <2>3
  <2>4. CASE \E q \in Reqs, i \in Socks, id \in Ids :
                AttachExisting(q, i, id) \/ SpawnNew(q, i, id)
    BY <2>1, <2>4
  <2>5. CASE \E q \in Reqs : CallStep(q) \/ ChildStep(q) \/ CleanupTimeout(q)
    BY <2>2, <2>3, <2>5 DEF ChildStep, ChildSpawned, ChildExitFrame, ChildGone, CleanupTimeout
  <2>6. CASE (\E id \in Ids : Kill(id) \/ KillTimeout(id)) \/ KillAll
    BY <2>3, <2>6 DEF Kill, KillAll, KillAt, KillTimeout
  <2>7. CASE \E i \in Socks : SocketClose(i) \/ \E id \in Ids : Detach(i, id)
    BY <2>3, <2>7 DEF SocketClose, Detach, DetachAt
  <2>8. CASE HostDispose
    BY <2>8 DEF HostDispose, PcAfterAbort
  <2>9. CASE UNCHANGED vars
    BY <2>3, <2>9 DEF vars
  <2> QED  BY <2>4, <2>5, <2>6, <2>7, <2>8, <2>9 DEF Next
<1> DEFINE left == ClientsWithout(target[r], rsock[r], r)
<1>2. clients \in [Reqs -> [Socks -> Reqs \cup {None}]]
  BY <1>0 DEF CallInv, TypeOK
<1>3. CASE target[r] = r /\ left = NoClients /\ Dispose({r})
  <2>1. s # r
    <3> SUFFICES ASSUME s = r
                 PROVE  FALSE
      OBVIOUS
    <3>1. left[k] = None
      BY <1>3 DEF NoClients
    <3>2. left[k] = IF k = rsock[r] /\ clients[r][k] = r THEN None ELSE clients[r][k]
      BY <1>2, <1>3 DEF ClientsWithout
    <3> QED  BY <3>1, <3>2
  <2> QED  BY <1>3, <2>1 DEF Dispose
<1>4. CASE clients' = [clients EXCEPT ![target[r]] = left]
  <2>1. s = target[r] => left[k] = clients[s][k]
    BY <1>2 DEF ClientsWithout
  <2> QED  BY <1>2, <1>4, <2>1
<1> QED  BY <1>1, <1>3, <1>4 DEF AttachAborted

\* A socket is attached only to the session in the map under the id of the call,
\* while it is alive and not being killed; and a canceled attach takes away its
\* own attachment only, for every number of calls, sessions and sockets.
THEOREM AttachmentsCorrect == Spec => AttachmentsRespected
<1>1. HostInv /\ [Next]_vars =>
        [\A s \in Reqs, k \in Socks :
           clients'[s][k] \notin {None, clients[s][k]} =>
             /\ Alive(s)' /\ ~sess'[s].terminating
             /\ sessions'[rid'[clients'[s][k]]] = s]_vars
  BY AttachableStep DEF Alive
<1>2. HostInv /\ [Next]_vars =>
        [\A r \in Reqs : pc[r] = "attaching" /\ pc'[r] = "canceled" =>
           \A s \in Reqs, k \in Socks :
             clients[s][k] \notin {None, r} => clients'[s][k] = clients[s][k]]_vars
  BY AbortStep
<1> QED
  BY <1>1, <1>2, HostInvariant, PTL
  DEF Spec, AttachmentsRespected, AttachesOnlyAttachable, AbortKeepsLaterAttachment
=============================================================================
