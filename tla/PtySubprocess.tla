----------------------------- MODULE PtySubprocess -----------------------------
(***************************************************************************)
(* The process that owns one PTY                                           *)
(* (apps/desktop/src/main/terminal-host/pty-subprocess.ts).  Frames of the *)
(* daemon come in on stdin, frames for it go out on stdout.  Input is      *)
(* queued and written to the PTY by one asynchronous write at a time;      *)
(* output is collected and sent in batches.                                *)
(*                                                                         *)
(* External, from their contracts: the shell behind the PTY, fs.write on   *)
(* the PTY's fd (some bytes are taken, or it would block, or it fails),    *)
(* node-pty's onData and onExit, stdin and stdout.                         *)
(***************************************************************************)
EXTENDS Integers, Sequences, SequencesExt, FiniteSets

CONSTANTS Sizes,       \* bytes of a Write frame
          HighWater,   \* INPUT_QUEUE_HIGH_WATERMARK_BYTES
          LowWater,    \* INPUT_QUEUE_LOW_WATERMARK_BYTES
          HardLimit,   \* INPUT_QUEUE_HARD_LIMIT_BYTES
          MaxBatch,    \* MAX_OUTPUT_BATCH_SIZE_BYTES
          MaxBytes,    \* bound: bytes of input
          MaxOutput,   \* bound: bytes of output
          MaxKills     \* bound: Kill frames

ASSUME WaterAssumption == /\ LowWater \in Nat /\ HighWater \in Nat
                          /\ HardLimit \in Nat /\ LowWater < HighWater
ASSUME BoundsAssumption == MaxBytes \in Nat /\ MaxOutput \in Nat /\ MaxKills \in Nat
ASSUME SizesAssumption == Sizes \subseteq Nat \ {0} /\ MaxBatch \in Nat \ {0}

VARIABLES
  proc,            \* the process: "running", "exiting" (exit due), "exited"
  pty,             \* ptyProcess is not null
  fd,              \* ptyFd is a number; without one node-pty's write() is used
  shell,           \* the shell: "none", "alive", "killed" by SIGKILL, "dead"
  writeQueue, queuedBytes, flushing, stdinPaused,
  flushes,         \* pending calls of flush: immediates and retry timers
  inflight,        \* the bytes of the pending fs.write, <<>> when there is none
  outputChunks,    \* outputChunks, as bytes
  flushScheduled,  \* outputFlushScheduled
  flushTimers,     \* armed flushOutput timers
  ptyPaused,
  owesDrain,       \* stdout is full and owes a drain event (external)
  escalations, forces, \* armed timers of handleKill, first and second
  input,           \* Write frames that have been received, in bytes
  inChunk,         \* the data handler has more frames of its chunk to handle
  output,          \* bytes that the shell has printed
  kills,           \* Kill frames that have been received
  stdin,           \* "open", "closed" when the daemon has gone, "ended" when read so
  written,         \* history: bytes of input that have reached the PTY
  refused,         \* history: the hard limit has dropped input (its bytes)
  failed,          \* history: a write has failed
  sent             \* history: the frames on stdout

procVars == <<proc, pty, fd, shell>>
queueVars == <<writeQueue, queuedBytes, stdinPaused, written, refused, failed>>
flushVars == <<flushing, flushes, inflight>>
batchVars == <<outputChunks, flushScheduled, flushTimers, output>>
stdoutVars == <<sent, ptyPaused, owesDrain>>
killVars == <<escalations, forces, kills>>
stdinVars == <<input, inChunk, stdin>>
vars == <<procVars, queueVars, flushVars, batchVars, stdoutVars, killVars, stdinVars>>

\* The bytes of input are numbered as they come, those of output likewise; a
\* buffer is the sequence of its bytes.
BytesFrom(i, n) == [j \in 1..n |-> i + j]
Total(queue) == Len(FlattenSeq(queue))
Frame(type, bytes) == [type |-> type, bytes |-> bytes]
Exits == {i \in DOMAIN sent : sent[i].type = "exit"}
SentOutput == FlattenSeq([i \in 1..Len(sent) |-> sent[i].bytes])

-----------------------------------------------------------------------------
(* Wrong variants of definitions below, which the properties must tell apart. *)
RestIsShifted(buf, n) == <<>>
ResumeWhenEmpty(bytes) == stdinPaused /\ bytes > 0
FlushEachFrame == flushing' = TRUE /\ flushes' = flushes + 1
BatchOnlyWhenDue == IF flushScheduled THEN <<>> ELSE <<Frame("data", outputChunks)>>
FlushOnFromFull(pending) ==
    IF Len(writeQueue') > 1 THEN flushes' = pending + 1 /\ UNCHANGED flushing
                            ELSE flushes' = pending /\ flushing' = FALSE
EscalateOnly ==
    /\ escalations > 0
    /\ escalations' = escalations - 1
    /\ shell' = IF pty THEN "killed" ELSE shell
    /\ UNCHANGED <<proc, pty, fd, queueVars, flushVars, batchVars, stdoutVars, forces,
                   kills, stdinVars>>
DisposedUnkilled(full) ==
    /\ UNCHANGED <<flushTimers, outputChunks, flushScheduled, stdoutVars>>
    /\ writeQueue' = <<>> /\ queuedBytes' = 0 /\ flushing' = FALSE
    /\ pty' = FALSE /\ fd' = FALSE /\ proc' = "exited"
    /\ UNCHANGED shell

-----------------------------------------------------------------------------

Init ==
    /\ proc = "running" /\ pty = FALSE /\ fd = FALSE /\ shell = "none"
    /\ writeQueue = <<>> /\ queuedBytes = 0 /\ flushing = FALSE /\ stdinPaused = FALSE
    /\ flushes = 0 /\ inflight = <<>>
    /\ outputChunks = <<>> /\ flushScheduled = FALSE /\ flushTimers = 0
    /\ ptyPaused = FALSE /\ owesDrain = FALSE
    /\ escalations = 0 /\ forces = 0
    /\ input = 0 /\ inChunk = FALSE /\ output = 0 /\ kills = 0 /\ stdin = "open"
    /\ written = <<>> /\ refused = {} /\ failed = FALSE
    /\ sent = <<Frame("ready", <<>>)>>

Runs == proc # "exited" /\ ~inChunk   \* the event loop is free

-----------------------------------------------------------------------------
(* Frames to the daemon.                                                    *)

\* send, for frames in a row: stdout may turn out to be full with any of them.
SendNothing == UNCHANGED <<sent, owesDrain, ptyPaused>>
Send(frames, full) ==
    IF frames = <<>> THEN ~full /\ SendNothing
    ELSE /\ sent' = sent \o frames
         /\ owesDrain' = (owesDrain \/ full)
         /\ ptyPaused' = (ptyPaused \/ (owesDrain' /\ pty))

StdoutDrain ==
    /\ Runs
    /\ owesDrain
    /\ owesDrain' = FALSE
    /\ ptyPaused' = (ptyPaused /\ ~pty)
    /\ UNCHANGED <<procVars, queueVars, flushVars, batchVars, sent, killVars, stdinVars>>

\* onData: queueOutput.  A full batch is sent at once, and a timer that is
\* armed stays armed.
NeedsTimer == ~flushScheduled

PtyData(n, full) ==
    /\ Runs
    /\ shell \in {"alive", "killed"} /\ ~ptyPaused
    /\ output + n <= MaxOutput
    /\ output' = output + n
    /\ LET chunks == outputChunks \o BytesFrom(output, n)
       IN  \/ /\ Len(chunks) >= MaxBatch
              /\ flushScheduled' = FALSE
              /\ outputChunks' = <<>>
              /\ Send(<<Frame("data", chunks)>>, full)
              /\ UNCHANGED flushTimers
           \/ /\ Len(chunks) < MaxBatch /\ ~full
              /\ flushScheduled' = TRUE
              /\ flushTimers' = IF NeedsTimer THEN flushTimers + 1 ELSE flushTimers
              /\ outputChunks' = chunks
              /\ SendNothing
    /\ UNCHANGED <<procVars, queueVars, flushVars, killVars, stdinVars>>

\* flushOutput
Batch == IF outputChunks = <<>> THEN <<>> ELSE <<Frame("data", outputChunks)>>
FlushOutput(more, full) ==
    /\ flushScheduled' = FALSE
    /\ outputChunks' = <<>>
    /\ Send(Batch \o more, full)

FlushTimer(full) ==
    /\ Runs
    /\ flushTimers > 0
    /\ flushTimers' = flushTimers - 1
    /\ FlushOutput(<<>>, full)
    /\ UNCHANGED <<procVars, queueVars, flushVars, output, killVars, stdinVars>>

-----------------------------------------------------------------------------
(* Input for the PTY.                                                       *)

StaysPaused(bytes) == stdinPaused /\ bytes > LowWater    \* maybeResumeStdin does not resume

\* The catch of a write that failed: the queue is dropped.
WriteFails(full) ==
    /\ failed' = TRUE
    /\ writeQueue' = <<>> /\ queuedBytes' = 0 /\ flushing' = FALSE
    /\ Send(<<Frame("error", <<>>)>>, full)

\* The callback of setImmediate or of the retry timer, with an fd: the head of
\* the queue goes to fs.write.
Flush ==
    /\ Runs
    /\ flushes > 0
    /\ fd \/ ~pty \/ writeQueue = <<>>
    /\ flushes' = flushes - 1
    /\ IF ~pty \/ writeQueue = <<>>
         THEN flushing' = FALSE /\ UNCHANGED inflight
         ELSE inflight' = Head(writeQueue) /\ UNCHANGED flushing
    /\ UNCHANGED <<procVars, queueVars, batchVars, stdoutVars, killVars, stdinVars>>

\* What goes on after a write: another flush, or none.
FlushOn(pending) ==
    IF writeQueue' # <<>> THEN flushes' = pending + 1 /\ UNCHANGED flushing
                          ELSE flushes' = pending /\ flushing' = FALSE

\* The same callback without an fd: node-pty's write() takes all or throws.
FlushSync ==
    /\ Runs
    /\ flushes > 0
    /\ ~fd /\ pty /\ writeQueue # <<>>
    /\ stdinPaused' = StaysPaused(queuedBytes - Len(Head(writeQueue)))
    /\ \/ /\ writeQueue' = Tail(writeQueue)
          /\ queuedBytes' = queuedBytes - Len(Head(writeQueue))
          /\ written' = written \o Head(writeQueue)
          /\ FlushOn(flushes - 1)
          /\ UNCHANGED <<failed, stdoutVars>>
       \/ /\ \E full \in BOOLEAN : WriteFails(full)
          /\ flushes' = flushes - 1
          /\ UNCHANGED written
    /\ UNCHANGED <<procVars, refused, inflight, batchVars, killVars, stdinVars>>

\* fs.write has taken n bytes; after a Dispose its buffer is not in the queue.
Rest(buf, n) == IF n >= Len(buf) THEN <<>> ELSE <<SubSeq(buf, n + 1, Len(buf))>>

WriteDone(n) ==
    /\ Runs
    /\ inflight # <<>>
    /\ n \in 0..Len(inflight)
    /\ inflight' = <<>>
    /\ written' = written \o SubSeq(inflight, 1, n)
    /\ queuedBytes' = queuedBytes - n
    /\ writeQueue' = Rest(inflight, n)
                     \o IF writeQueue = <<>> THEN <<>> ELSE Tail(writeQueue)
    /\ stdinPaused' = StaysPaused(queuedBytes')
    /\ FlushOn(flushes)
    /\ UNCHANGED <<procVars, refused, failed, batchVars, stdoutVars, killVars, stdinVars>>

\* EAGAIN: the retry timer is armed.
WriteWouldBlock ==
    /\ Runs
    /\ inflight # <<>>
    /\ inflight' = <<>>
    /\ flushes' = flushes + 1
    /\ UNCHANGED <<procVars, queueVars, flushing, batchVars, stdoutVars, killVars, stdinVars>>

WriteFailed(full) ==
    /\ Runs
    /\ inflight # <<>>
    /\ inflight' = <<>>
    /\ WriteFails(full)
    /\ UNCHANGED <<procVars, stdinPaused, written, refused, flushes, batchVars,
                   killVars, stdinVars>>

-----------------------------------------------------------------------------
(* Frames of the daemon.  The data handler goes through all the frames of a *)
(* chunk, also when one of them has paused stdin.                           *)

Reads == proc # "exited" /\ (inChunk \/ (~stdinPaused /\ stdin # "ended"))

\* Session sends Spawn first, and once.
HandleSpawn(ok, withFd, full) ==
    /\ Reads
    /\ shell = "none"
    /\ inChunk' \in BOOLEAN
    /\ \/ /\ ok
          /\ shell' = "alive" /\ pty' = TRUE /\ fd' = withFd
          /\ sent' = Append(sent, Frame("spawned", <<>>))
          /\ owesDrain' = (owesDrain \/ full)
          /\ ptyPaused' = owesDrain'
          /\ UNCHANGED proc
       \/ /\ ~ok
          /\ shell' = "dead" /\ proc' = "exiting"
          /\ Send(<<Frame("error", <<>>)>>, full)
          /\ UNCHANGED <<pty, fd>>
    /\ UNCHANGED <<queueVars, flushVars, batchVars, killVars, input, stdin>>

ScheduleFlush == /\ flushing' = TRUE
                 /\ flushes' = IF flushing THEN flushes ELSE flushes + 1

HandleWrite(size, full) ==
    /\ Reads
    /\ shell # "none"
    /\ input + size <= MaxBytes
    /\ input' = input + size
    /\ inChunk' \in BOOLEAN
    /\ \/ /\ pty
          /\ queuedBytes + size <= HardLimit
          /\ writeQueue' = Append(writeQueue, BytesFrom(input, size))
          /\ queuedBytes' = queuedBytes + size
          /\ stdinPaused' = (stdinPaused \/ queuedBytes' >= HighWater)
          /\ ScheduleFlush
          /\ ~full /\ SendNothing
          /\ UNCHANGED <<refused, inflight>>
       \/ /\ ~pty \/ queuedBytes + size > HardLimit
          /\ refused' = refused \cup ToSet(BytesFrom(input, size))
          /\ Send(<<Frame("error", <<>>)>>, full)
          /\ UNCHANGED <<writeQueue, queuedBytes, stdinPaused, flushVars>>
    /\ UNCHANGED <<procVars, written, failed, batchVars, killVars, stdin>>

\* Every Kill frame arms a timer of its own.
HandleKill ==
    /\ Reads
    /\ shell # "none"
    /\ kills < MaxKills
    /\ kills' = kills + 1
    /\ inChunk' \in BOOLEAN
    /\ escalations' = IF pty THEN escalations + 1 ELSE escalations
    /\ UNCHANGED <<procVars, queueVars, flushVars, batchVars, stdoutVars, forces,
                   input, stdin>>

ChunkEnds ==
    /\ inChunk
    /\ inChunk' = FALSE
    /\ UNCHANGED <<procVars, queueVars, flushVars, batchVars, stdoutVars, killVars,
                   input, stdin>>

\* The daemon is gone: what it has written to the pipe is still read.
DaemonGone ==
    /\ stdin = "open"
    /\ stdin' = "closed"
    /\ UNCHANGED <<procVars, queueVars, flushVars, batchVars, stdoutVars, killVars,
                   input, inChunk>>

\* handleDispose, from the end of stdin (the Dispose frame of a Session is
\* refused by its own disposed flag): the shell is killed, then the process
\* exits.  A pending fs.write goes on.
Disposed(full) ==
    /\ flushTimers' = flushTimers
    /\ FlushOutput(<<>>, full)
    /\ writeQueue' = <<>> /\ queuedBytes' = 0 /\ flushing' = FALSE
    /\ pty' = FALSE /\ fd' = FALSE
    /\ proc' = IF pty THEN "exiting" ELSE "exited"
    /\ shell' = IF pty THEN "killed" ELSE shell

StdinEnd(full) ==
    /\ Runs
    /\ stdin = "closed" /\ ~stdinPaused
    /\ stdin' = "ended"
    /\ Disposed(full)
    /\ UNCHANGED <<stdinPaused, written, refused, failed, flushes, inflight, output,
                   killVars, input, inChunk>>

-----------------------------------------------------------------------------
(* The end of the shell and of the process.                                 *)

ExitFrame == <<Frame("exit", <<>>)>>

\* onExit, which node-pty may never call
ShellExit(full) ==
    /\ Runs
    /\ shell \in {"alive", "killed"}
    /\ shell' = "dead"
    /\ FlushOutput(ExitFrame, full)
    /\ pty' = FALSE /\ fd' = FALSE
    /\ proc' = "exiting"
    /\ UNCHANGED <<queueVars, flushVars, flushTimers, output, killVars, stdinVars>>

\* process.exit from a timer of 100 ms or the callback of treeKill
ProcessExit ==
    /\ Runs
    /\ proc = "exiting"
    /\ proc' = "exited"
    /\ UNCHANGED <<pty, fd, shell, queueVars, flushVars, batchVars, stdoutVars,
                   killVars, stdinVars>>

\* The timers of handleKill: SIGKILL after two seconds, and the end of the
\* process a second later, with an Exit frame of its own.
Escalate ==
    /\ Runs
    /\ escalations > 0
    /\ escalations' = escalations - 1
    /\ forces' = IF pty THEN forces + 1 ELSE forces
    /\ shell' = IF pty THEN "killed" ELSE shell
    /\ UNCHANGED <<proc, pty, fd, queueVars, flushVars, batchVars, stdoutVars, kills,
                   stdinVars>>

ForceExit(full) ==
    /\ Runs
    /\ forces > 0
    /\ forces' = forces - 1
    /\ IF pty THEN /\ Send(ExitFrame, full)
                   /\ pty' = FALSE /\ fd' = FALSE /\ proc' = "exited"
              ELSE ~full /\ SendNothing /\ UNCHANGED <<pty, fd, proc>>
    /\ UNCHANGED <<shell, queueVars, flushVars, batchVars, escalations, kills, stdinVars>>

Next ==
    \/ StdoutDrain \/ Flush \/ FlushSync \/ WriteWouldBlock
    \/ \E n \in 1..MaxBatch, full \in BOOLEAN : PtyData(n, full)
    \/ \E n \in 0..Len(inflight) : WriteDone(n)
    \/ \E ok, withFd, full \in BOOLEAN : HandleSpawn(ok, withFd, full)
    \/ \E size \in Sizes, full \in BOOLEAN : HandleWrite(size, full)
    \/ \E full \in BOOLEAN : \/ FlushTimer(full) \/ WriteFailed(full) \/ StdinEnd(full)
                             \/ ShellExit(full) \/ ForceExit(full)
    \/ HandleKill \/ ChunkEnds \/ DaemonGone \/ ProcessExit \/ Escalate

Spec == Init /\ [][Next]_vars

\* Callbacks and timers run, the daemon reads stdout, and the shell reads its
\* input: a write is not turned down for ever.  Nothing is assumed of onExit.
Fairness ==
    /\ WF_vars(ChunkEnds) /\ WF_vars(StdoutDrain)
    /\ WF_vars(Flush) /\ WF_vars(FlushSync)
    /\ SF_vars(\E n \in 1..Len(inflight) : WriteDone(n))
    /\ WF_vars(\E full \in BOOLEAN : FlushTimer(full))
    /\ WF_vars(\E full \in BOOLEAN : StdinEnd(full))
    /\ WF_vars(ProcessExit) /\ WF_vars(Escalate)
    /\ WF_vars(\E full \in BOOLEAN : ForceExit(full))
FairSpec == Spec /\ Fairness

-----------------------------------------------------------------------------

TypeOK ==
    /\ proc \in {"running", "exiting", "exited"}
    /\ pty \in BOOLEAN /\ fd \in BOOLEAN
    /\ shell \in {"none", "alive", "killed", "dead"}
    /\ writeQueue \in Seq(Seq(1..MaxBytes)) /\ queuedBytes \in Int
    /\ flushing \in BOOLEAN /\ stdinPaused \in BOOLEAN
    /\ flushes \in 0..1
    /\ inflight \in Seq(1..MaxBytes)
    /\ outputChunks \in Seq(1..MaxOutput) /\ Len(outputChunks) < MaxBatch
    /\ flushScheduled \in BOOLEAN /\ flushTimers \in Nat
    /\ ptyPaused \in BOOLEAN /\ owesDrain \in BOOLEAN
    /\ escalations \in 0..MaxKills /\ forces \in 0..MaxKills /\ kills \in 0..MaxKills
    /\ input \in 0..MaxBytes /\ inChunk \in BOOLEAN /\ output \in 0..MaxOutput
    /\ stdin \in {"open", "closed", "ended"}
    /\ written \in Seq(1..MaxBytes)
    /\ refused \subseteq 1..MaxBytes /\ failed \in BOOLEAN

Increasing(bytes) == \A i, j \in DOMAIN bytes : i < j => bytes[i] < bytes[j]

\* Input reaches the PTY in the order in which it was typed, through partial
\* writes, retries and frames that come while a write is pending; and until a
\* write fails none of it is skipped: what the PTY has and what is queued is
\* all that was not refused.
InputInOrder ==
    /\ Increasing(written)
    /\ pty /\ ~failed => /\ Increasing(written \o FlattenSeq(writeQueue))
                         /\ Range(written \o FlattenSeq(writeQueue)) = (1..input) \ refused
    /\ pty => queuedBytes = Total(writeQueue)

\* While there is input for the PTY exactly one write or flush of it is on its
\* way, and stdin is paused only as long as there is, unless a write failed.
BacklogHasFlusher ==
    pty => /\ (writeQueue # <<>> => flushing)
           /\ flushes + (IF inflight = <<>> THEN 0 ELSE 1) = (IF flushing THEN 1 ELSE 0)
           /\ (stdinPaused /\ ~failed => queuedBytes > LowWater)

\* All of it: input is neither reordered, skipped nor stuck.
InputSound == TypeOK /\ InputInOrder /\ BacklogHasFlusher

\* The process does not leave its shell behind, and holds it back only while
\* stdout owes a drain event.
ShellIsKept ==
    /\ proc = "exited" => shell # "alive"
    /\ ptyPaused /\ pty => owesDrain

\* Output leaves in the order in which it was printed, whatever timers are
\* armed; what is held back has a timer; and after the Exit frame, of which
\* there is one, no output comes unless the end was forced; and the shell is kept.
OutputThenExit ==
    /\ ShellIsKept
    /\ SentOutput \o outputChunks = BytesFrom(0, output)
    /\ outputChunks # <<>> => flushTimers > 0 \/ proc = "exited"
    /\ \A i, j \in Exits : i = j
    /\ \A i \in Exits, j \in DOMAIN sent : i < j => sent[j].type # "data"
    /\ shell = "dead" /\ Exits # {} => outputChunks = <<>>

\* A Kill frame ends the process even if onExit is never called, and so does the end of
\* the daemon, unless a failed write has left stdin paused.  (Each stays as it is once it
\* has come about, and so does the end of the process.)
ProcessEnds == []<>(/\ kills > 0 => proc = "exited"
                    /\ stdin # "open" => proc = "exited" \/ failed)
=============================================================================
