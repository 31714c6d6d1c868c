----------------------------- MODULE SessionOutput -----------------------------
(***************************************************************************)
(* The output path of a Session                                            *)
(* (apps/desktop/src/main/terminal-host/session.ts): output of the PTY is  *)
(* queued for the headless emulator and broadcast to the attached clients; *)
(* the queue is worked off in slices on the event loop; an attach waits    *)
(* until the output that came before it is in the emulator and then takes  *)
(* a snapshot; a full queue and slow clients pause the subprocess.         *)
(*                                                                         *)
(* An item is the text of one Data frame.  It is cut into chunks of        *)
(* MAX_CHUNK_CHARS when it is written to the emulator; a chunk is the unit *)
(* of bytes here.  Emulator and sockets are external, modelled from their  *)
(* contracts: write() to the emulator takes effect later and in order, a   *)
(* socket's write() returns false while the socket is full, and for a      *)
(* socket that has closed, which never drains, closes or fails again.      *)
(***************************************************************************)
EXTENDS Naturals, Sequences, SequencesExt, FiniteSets

CONSTANTS Socks,       \* clients' stream sockets
          Calls,       \* attach() calls
          HighWater,   \* EMULATOR_WRITE_QUEUE_HIGH_WATERMARK_BYTES, in chunks
          LowWater,    \* EMULATOR_WRITE_QUEUE_LOW_WATERMARK_BYTES, in chunks
          MaxItems,    \* bound: items of output
          MaxChunks,   \* bound: chunks of an item
          None

ASSUME NoneAssumption == None \notin Calls
ASSUME BoundAssumption == MaxItems \in Nat
ASSUME WaterAssumption == /\ LowWater \in Nat /\ HighWater \in Nat
                          /\ LowWater < HighWater

VARIABLES
  up,               \* subprocess is not null
  disposed,
  attached,         \* attachedClients: socket -> the attach() call of its token
  slow,             \* clientSocketsWaitingForDrain
  backpressured,    \* emulatorWriteBackpressured
  paused,           \* subprocessStdoutPaused
  queue,            \* emulatorWriteQueue, chunk by chunk
  queuedBytes,      \* emulatorWriteQueuedBytes
  scheduled,        \* emulatorWriteScheduled
  processed,        \* emulatorWriteProcessedItems
  waiters,          \* snapshotBoundaryWaiters: call -> targetProcessedItems
  stage, csock,     \* attach(): the await it is suspended at, and its socket
  reached,          \* attach(): reachedBoundary
  immediates,       \* setImmediate callbacks that have not run (external)
  fed, parsed,      \* chunks written to the emulator, and how many it has parsed
  mark,             \* attach(): what emulator.flush() waits for (external)
  open, full,       \* sockets that are connected, and that owe a drain event
  listening,        \* sockets that have clearBackpressure as a listener
  arrived,          \* history: number of items that have arrived
  seen,             \* history: items sent to the call's socket since
  snapshot,         \* history: chunks in the snapshot of the call
  dropped           \* history: a reset has thrown queued output away

flowVars == <<slow, backpressured, paused, listening>>
queueVars == <<queue, queuedBytes, scheduled, processed, waiters, immediates>>
callVars == <<stage, csock, reached, mark, snapshot>>
emulatorVars == <<fed, parsed>>
vars == <<up, disposed, attached, flowVars, queueVars, callVars, emulatorVars,
          open, full, arrived, seen, dropped>>

Stages == {"idle", "boundary", "emulator", "done", "canceled"}
NoWaiter == 0
Chunks == [item : 1..MaxItems, last : BOOLEAN]

\* An item as chunks; and emulatorWriteQueue.length for a queue of chunks.
ItemChunks(i, n) == [c \in 1..n |-> [item |-> i, last |-> c = n]]
Items(q) == Cardinality({j \in 1..Len(q) : q[j].last})

-----------------------------------------------------------------------------
(* Wrong variants of definitions below, which the properties must tell apart. *)
BoundaryOffByOne == processed + Items(queue) + 1
BoundaryAtFirstItem == processed + 1
CountWholeItems(n) == Items(SubSeq(queue, 1, n))
SlowForgotten(k) == slow
OwnOrNot(c) == TRUE
ScheduleAlways == immediates' = immediates + 1 /\ scheduled' = TRUE
DetachKeepsPause(k) ==
    /\ attached' = [attached EXCEPT ![k] = None]
    /\ slow' = slow \ {k}
    /\ UNCHANGED <<backpressured, paused>>

-----------------------------------------------------------------------------

Init ==
    /\ up = TRUE /\ disposed = FALSE
    /\ attached = [k \in Socks |-> None]
    /\ slow = {} /\ backpressured = FALSE /\ paused = FALSE
    /\ queue = <<>> /\ queuedBytes = 0 /\ scheduled = FALSE /\ processed = 0
    /\ waiters = [c \in Calls |-> NoWaiter]
    /\ stage = [c \in Calls |-> "idle"]
    /\ csock = [c \in Calls |-> None]
    /\ reached = [c \in Calls |-> FALSE]
    /\ immediates = 0
    /\ fed = <<>> /\ parsed = 0
    /\ mark = [c \in Calls |-> 0]
    /\ open = Socks /\ full = {} /\ listening = {}
    /\ arrived = 0
    /\ seen = [c \in Calls |-> {}]
    /\ snapshot = [c \in Calls |-> 0]
    /\ dropped = FALSE

\* updateSubprocessStdoutFlow
UpdateFlow == paused' = IF up THEN slow' # {} \/ backpressured' ELSE paused

\* scheduleEmulatorWrite
AskForSlice == immediates' = immediates + 1 /\ scheduled' = TRUE
Schedule == IF scheduled \/ disposed THEN UNCHANGED <<immediates, scheduled>>
                                     ELSE AskForSlice

\* broadcastEvent to the attached sockets: sent are written without
\* complaint, refused have write() return false, failed have it throw.
Outcome(refused, failed) ==
    LET targets == {k \in Socks : attached[k] # None}
    IN  /\ refused \cap failed = {}
        /\ refused \cup failed \subseteq targets
        /\ targets \cap full \subseteq refused          \* a full socket
        /\ targets \ open \subseteq refused \cup failed   \* a closed one
        /\ failed \cap open = {}

\* A Data frame after the marker scan: enqueueEmulatorWrite, then broadcast.
\* It may come although the subprocess's stdout is paused: the rest of the
\* chunk that is being decoded is still handled.
DataFrame(n, refused, failed) ==
    /\ up
    /\ arrived < MaxItems
    /\ arrived' = arrived + 1
    /\ queue' = queue \o ItemChunks(arrived', n)
    /\ queuedBytes' = queuedBytes + n
    /\ backpressured' = (backpressured \/ queuedBytes' >= HighWater)
    /\ Schedule
    /\ Outcome(refused, failed)
    /\ attached' = [k \in Socks |-> IF k \in failed THEN None ELSE attached[k]]
    /\ slow' = (slow \cup refused) \ failed
    /\ listening' = listening \cup (refused \ slow)
    /\ full' = full \cup (refused \cap open)
    /\ UpdateFlow
    /\ seen' = [c \in Calls |-> IF \E k \in Socks \ failed : attached[k] = c
                                THEN seen[c] \cup {arrived'} ELSE seen[c]]
    /\ UNCHANGED <<up, disposed, processed, waiters, callVars, emulatorVars, open, dropped>>

\* Boundary waiters whose target is reached go on to emulator.flush(), which
\* waits for what has been written to the emulator by then (an aborted call
\* is no longer there to go on).
Resolve(done) ==
    /\ waiters' = [c \in Calls |-> IF c \in done THEN NoWaiter ELSE waiters[c]]
    /\ reached' = [c \in Calls |-> reached[c] \/ c \in done]
    /\ stage' = [c \in Calls |-> IF c \in done /\ stage[c] = "boundary"
                                 THEN "emulator" ELSE stage[c]]
    /\ mark' = [c \in Calls |-> IF c \in done /\ stage[c] = "boundary"
                                THEN Len(fed') ELSE mark[c]]

Waiting == {c \in Calls : waiters[c] # NoWaiter}

\* processEmulatorWriteQueue writes chunks until its time budget is used up.
StillFull(bytes) == backpressured /\ bytes > LowWater
Taken(n) == n      \* bytes that the slice takes from the queue

EmulatorSlice(n) ==
    /\ immediates > 0
    /\ ~disposed
    /\ n \in 0..Len(queue)
    /\ queue # <<>> => n > 0
    /\ fed' = fed \o SubSeq(queue, 1, n)
    /\ queue' = SubSeq(queue, n + 1, Len(queue))
    /\ queuedBytes' = queuedBytes - Taken(n)
    /\ processed' = processed + Items(SubSeq(queue, 1, n))
    /\ Resolve({c \in Waiting : processed' >= waiters[c]})
    /\ backpressured' = StillFull(queuedBytes')
    /\ UNCHANGED <<slow, listening>>
    /\ IF backpressured' # backpressured THEN UpdateFlow ELSE UNCHANGED paused
    /\ scheduled' = (queue' # <<>>)
    /\ immediates' = IF queue' # <<>> THEN immediates ELSE immediates - 1
    /\ UNCHANGED <<up, disposed, attached, csock, snapshot, parsed, open, full,
                   arrived, seen, dropped>>

\* The same callback after dispose(), which has left it nothing to do.
EmulatorSliceDisposed ==
    /\ immediates > 0
    /\ disposed
    /\ immediates' = immediates - 1
    /\ UNCHANGED <<up, disposed, attached, flowVars, queue, queuedBytes, scheduled,
                   processed, waiters, callVars, emulatorVars, open, full, arrived,
                   seen, dropped>>

EmulatorParses ==
    /\ parsed < Len(fed)
    /\ parsed' = parsed + 1
    /\ UNCHANGED <<up, disposed, attached, flowVars, queueVars, callVars, fed, open,
                   full, arrived, seen, dropped>>

-----------------------------------------------------------------------------
(* attach() and detach().                                                   *)

\* attach() up to its first await: with an empty queue it goes on at once.  The caller
\* looked the socket up before it waited for the PTY: it may have closed meanwhile.
Boundary == processed + Items(queue)

Attach(c, k) ==
    /\ stage[c] = "idle"
    /\ ~disposed
    /\ attached' = [attached EXCEPT ![k] = c]
    /\ csock' = [csock EXCEPT ![c] = k]
    /\ \/ /\ queue = <<>>
          /\ stage' = [stage EXCEPT ![c] = "emulator"]
          /\ reached' = [reached EXCEPT ![c] = TRUE]
          /\ mark' = [mark EXCEPT ![c] = Len(fed)]
          /\ UNCHANGED <<waiters, immediates, scheduled>>
       \/ /\ queue # <<>>
          /\ stage' = [stage EXCEPT ![c] = "boundary"]
          /\ waiters' = [waiters EXCEPT ![c] = Boundary]
          /\ Schedule
          /\ UNCHANGED <<reached, mark>>
    /\ UNCHANGED <<up, disposed, flowVars, queue, queuedBytes, processed, snapshot,
                   emulatorVars, open, full, arrived, seen, dropped>>

\* ATTACH_FLUSH_TIMEOUT_MS: the waiter is removed; its call, unless aborted,
\* goes on without having reached the boundary.
AttachFlushTimeout(c) ==
    /\ waiters[c] # NoWaiter
    /\ waiters' = [waiters EXCEPT ![c] = NoWaiter]
    /\ IF stage[c] = "boundary"
         THEN /\ stage' = [stage EXCEPT ![c] = "emulator"]
              /\ mark' = [mark EXCEPT ![c] = Len(fed)]
         ELSE UNCHANGED <<stage, mark>>
    /\ UNCHANGED <<up, disposed, attached, flowVars, queue, queuedBytes, scheduled,
                   processed, immediates, csock, reached, snapshot,
                   emulatorVars, open, full, arrived, seen, dropped>>

\* emulator.flush() has resolved: the snapshot is what is parsed by now.
AttachDone(c) ==
    /\ stage[c] = "emulator"
    /\ parsed >= mark[c]
    /\ stage' = [stage EXCEPT ![c] = "done"]
    /\ snapshot' = [snapshot EXCEPT ![c] = parsed]
    /\ UNCHANGED <<up, disposed, attached, flowVars, queueVars, csock, reached, mark,
                   emulatorVars, open, full, arrived, seen, dropped>>

\* detachAttachedClient of socket k
WithoutSlow(k) == slow \ {k}
DetachSocket(k) ==
    /\ attached' = [attached EXCEPT ![k] = None]
    /\ slow' = WithoutSlow(k)
    /\ UNCHANGED backpressured
    /\ UpdateFlow

\* The call is aborted: its attachment, if it is still its own, is undone.
OwnAttachment(c) == attached[csock[c]] = c

AttachAborted(c) ==
    /\ stage[c] \in {"boundary", "emulator"}
    /\ stage' = [stage EXCEPT ![c] = "canceled"]
    /\ IF OwnAttachment(c) THEN DetachSocket(csock[c])
                           ELSE UNCHANGED <<attached, slow, backpressured, paused>>
    /\ UNCHANGED <<up, disposed, listening, queueVars, csock, reached, mark,
                   snapshot, emulatorVars, open, full, arrived, seen, dropped>>

Detach(k) ==
    /\ attached[k] # None
    /\ DetachSocket(k)
    /\ UNCHANGED <<up, disposed, listening, queueVars, callVars, emulatorVars, open,
                   full, arrived, seen, dropped>>

-----------------------------------------------------------------------------
(* Sockets and the end of the process.                                      *)

\* clearBackpressure
ClearBackpressure(k) ==
    IF k \in listening
      THEN /\ slow' = slow \ {k}
           /\ listening' = listening \ {k}
           /\ UNCHANGED backpressured
           /\ UpdateFlow
      ELSE UNCHANGED <<slow, listening, backpressured, paused>>

SocketDrain(k) ==
    /\ k \in open \cap full
    /\ full' = full \ {k}
    /\ ClearBackpressure(k)
    /\ UNCHANGED <<up, disposed, attached, queueVars, callVars, emulatorVars, open,
                   arrived, seen, dropped>>

\* The close event runs clearBackpressure and detachFromAllSessions.
SocketClose(k) ==
    /\ k \in open
    /\ open' = open \ {k}
    /\ full' = full \ {k}
    /\ listening' = listening \ {k}
    /\ DetachSocket(k)
    /\ UNCHANGED <<up, disposed, queueVars, callVars, emulatorVars, arrived, seen, dropped>>

\* resetProcessState, as far as the output path is concerned: all boundary
\* waiters are resolved, whether or not their boundary is reached.
Reset ==
    /\ up' = FALSE
    /\ paused' = FALSE /\ backpressured' = FALSE
    /\ queue' = <<>> /\ queuedBytes' = 0 /\ scheduled' = FALSE /\ processed' = 0
    /\ dropped' = (dropped \/ queue # <<>>)
    /\ UNCHANGED <<immediates, fed>>
    /\ Resolve(Waiting)

SubprocessExit ==
    /\ up
    /\ Reset
    /\ UNCHANGED <<disposed, attached, slow, listening, csock, snapshot,
                   parsed, open, full, arrived, seen>>

Dispose ==
    /\ ~disposed
    /\ disposed' = TRUE
    /\ Reset
    /\ attached' = [k \in Socks |-> None]
    /\ slow' = {}
    /\ UNCHANGED <<listening, csock, snapshot, parsed, open, full, arrived, seen>>

Next ==
    \/ \E n \in 1..MaxChunks, refused, failed \in SUBSET Socks : DataFrame(n, refused, failed)
    \/ \E n \in 0..Len(queue) : EmulatorSlice(n)
    \/ EmulatorSliceDisposed
    \/ EmulatorParses
    \/ \E c \in Calls, k \in Socks : Attach(c, k)
    \/ \E c \in Calls : AttachFlushTimeout(c) \/ AttachDone(c) \/ AttachAborted(c)
    \/ \E k \in Socks : Detach(k) \/ SocketDrain(k) \/ SocketClose(k)
    \/ SubprocessExit \/ Dispose

Spec == Init /\ [][Next]_vars

\* setImmediate callbacks run, the emulator parses what it is given, and a
\* client that is full reads on or disconnects.
Fairness ==
    /\ WF_vars(\E n \in 0..Len(queue) : EmulatorSlice(n))
    /\ WF_vars(EmulatorParses)
    /\ \A c \in Calls : WF_vars(AttachDone(c))
    /\ \A k \in Socks : WF_vars(SocketDrain(k) \/ (k \in full /\ SocketClose(k)))
FairSpec == Spec /\ Fairness

-----------------------------------------------------------------------------

TypeOK ==
    /\ up \in BOOLEAN /\ disposed \in BOOLEAN
    /\ attached \in [Socks -> Calls \cup {None}]
    /\ slow \subseteq Socks
    /\ backpressured \in BOOLEAN /\ paused \in BOOLEAN
    /\ queue \in Seq(Chunks)
    /\ queuedBytes \in Nat
    /\ scheduled \in BOOLEAN
    /\ processed \in 0..MaxItems
    /\ waiters \in [Calls -> 0..MaxItems]
    /\ stage \in [Calls -> Stages]
    /\ csock \in [Calls -> Socks \cup {None}]
    /\ reached \in [Calls -> BOOLEAN]
    /\ immediates \in 0..2
    /\ fed \in Seq(Chunks)
    /\ parsed \in 0..Len(fed)
    /\ mark \in [Calls -> 0..Len(fed)]
    /\ open \subseteq Socks /\ full \subseteq open /\ listening \subseteq Socks
    /\ arrived \in 0..MaxItems
    /\ seen \in [Calls -> SUBSET (1..MaxItems)]
    /\ snapshot \in [Calls -> 0..Len(fed)]
    /\ dropped \in BOOLEAN

\* The byte counter that the watermarks are compared with is what is queued,
\* through partly written items and resets.
BytesCounted == queuedBytes = Len(queue)

\* Work is never forgotten: queued output has a slice coming, and an attach
\* that waits for its boundary waits for items that are in the queue.
BacklogIsScheduled ==
    /\ queue # <<>> => scheduled /\ immediates > 0
    /\ \A c \in Waiting : waiters[c] \in processed + 1 .. processed + Items(queue)

\* The subprocess is paused exactly while there is a reason to pause it, and a
\* reason of the emulator's goes away with the backlog.
PausedForReason ==
    /\ up => (paused <=> (slow # {} \/ backpressured))
    /\ backpressured => queuedBytes > LowWater

\* Only clients that are attached hold the subprocess back.
SlowAreAttached == \A k \in slow : attached[k] # None

\* Backlog and backpressure agree through slices, drains, detaches and resets.
FlowSound == TypeOK /\ BytesCounted /\ BacklogIsScheduled /\ PausedForReason /\ SlowAreAttached

SnapshotItems(c) == {fed[i].item : i \in 1..snapshot[c]}
WholeItems(c) == {i \in SnapshotItems(c) : \E j \in 1..snapshot[c] :
                                             fed[j].item = i /\ fed[j].last}

\* An attach that reached its boundary misses nothing while it stays attached:
\* every item is in its snapshot, was sent to its socket, or both.
NothingMissed ==
    \A c \in Calls :
        stage[c] = "done" /\ reached[c] /\ ~dropped /\ attached[csock[c]] = c =>
            1..arrived = WholeItems(c) \cup seen[c]

\* A superseded attach does not detach its successor: an attachment ends only
\* with its own call, a detach, a closed or failing socket or dispose().
AbortKeepsLaterAttachment ==
    [][\A c \in Calls : stage[c] # "canceled" /\ stage'[c] = "canceled" =>
         \A k \in Socks : attached[k] \notin {None, c} => attached'[k] = attached[k]]_vars

\* What an attach is promised: it misses nothing, and is not undone by another.
AttachIsExact == []NothingMissed /\ AbortKeepsLaterAttachment

\* The subprocess does not stay paused: clients and emulator release it
\* (TERMINAL_HOST_EVENTS.md: "When the client drains its buffer, the chain resumes").
OutputResumes == paused ~> ~paused

\* What becomes of it: nothing but a socket that was closed when attach() took it in,
\* which no close event will take out again, holds the subprocess back for good.
OutputReleased == paused ~> ~paused \/ slow \ open # {}

\* Every attach settles without its timeout having to fire.
AttachSettles ==
    \A c \in Calls : (stage[c] \in {"boundary", "emulator"})
                     ~> (stage[c] \in {"done", "canceled"})

\* Nobody waits for ever who is connected: neither the shell nor an attach.
OutputSettles == OutputReleased /\ AttachSettles
=============================================================================
