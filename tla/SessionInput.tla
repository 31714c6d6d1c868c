----------------------------- MODULE SessionInput -----------------------------
(***************************************************************************)
(* The stdin path of a Session                                             *)
(* (apps/desktop/src/main/terminal-host/session.ts): frames for the PTY    *)
(* subprocess (writes, resizes, signals, kills) are cut into a header and  *)
(* a payload buffer, queued up to a limit of bytes, and written to the     *)
(* subprocess's stdin until the stream reports backpressure; the rest is   *)
(* written when the stream drains.                                         *)
(*                                                                         *)
(* The stream is Node's Writable over a pipe, modelled from its contract:  *)
(* write() always takes the buffer, returns false when the bytes it holds  *)
(* reach the high-water mark, and then emits one drain event once it holds *)
(* nothing.  The pipe may take a buffer within the write() or later.       *)
(***************************************************************************)
EXTENDS Naturals, Sequences, SequencesExt, FiniteSets

CONSTANTS HeaderBytes,     \* bytes of a frame header
          Payloads,        \* sizes of payloads, in bytes
          MaxQueueBytes,   \* MAX_SUBPROCESS_STDIN_QUEUE_BYTES
          HighWaterMark,   \* writableHighWaterMark of the stream
          MaxFrames        \* bound: frames that are sent

ASSUME InputAssumption == /\ Payloads \subseteq Nat
                          /\ MaxQueueBytes \in Nat /\ HighWaterMark \in Nat /\ MaxFrames \in Nat
                          /\ HeaderBytes \in 1..(HighWaterMark - 1)

VARIABLES
  up,                \* subprocess is set and the session is not disposed
  queue,             \* subprocessStdinQueue
  stdinQueuedBytes,  \* subprocessStdinQueuedBytes
  drainArmed,        \* subprocessStdinDrainArmed
  stream,            \* buffers the stream holds (external)
  needDrain,         \* the stream owes a drain event (external)
  listening,         \* flushSubprocessStdinQueue waits for the drain event
  passed,            \* history: buffers that were written to the stream, see Pass
  accepted,          \* history: buffers that were queued
  frames             \* history: the number of frames sent or dropped

sessionVars == <<up, queue, stdinQueuedBytes, drainArmed>>
streamVars == <<stream, needDrain, listening>>
inputHistVars == <<passed, accepted, frames>>
inputVars == <<sessionVars, streamVars, inputHistVars>>

Buffers == [frame : 1..MaxFrames, part : {"header", "payload"},
            size : Payloads \cup {HeaderBytes}]
Bytes(s) == FoldLeft(LAMBDA sum, b : sum + b.size, 0, s)

\* The buffers of frame n: an empty payload is not queued.
Pieces(n, size) ==
    <<[frame |-> n, part |-> "header", size |-> HeaderBytes]>>
    \o IF size > 0 THEN <<[frame |-> n, part |-> "payload", size |-> size]>> ELSE <<>>

\* The first n buffers of q are written.  The stream passes them on in that order, so
\* one history stands for what it holds and for what the subprocess has.  A head that is
\* written once more is not entered again, which keeps the history finite.
IsRepeated(q) == q # <<>> /\ passed # <<>> /\ Head(q) = Last(passed)
Pass(q, n) == passed' = passed \o SubSeq(q, IF IsRepeated(q) THEN 2 ELSE 1, n)

-----------------------------------------------------------------------------
(* Wrong variants of definitions below, which the properties must tell apart. *)
RoomForPayload(size) == stdinQueuedBytes + size <= MaxQueueBytes
QueuedFirst(pieces) == pieces \o queue
FlagAfterDrain == drainArmed
ShiftedUncounted(q, n) == 0

-----------------------------------------------------------------------------

InputInit ==
    /\ up = TRUE
    /\ queue = <<>> /\ stdinQueuedBytes = 0 /\ drainArmed = FALSE
    /\ stream = <<>> /\ needDrain = FALSE /\ listening = FALSE
    /\ passed = <<>> /\ accepted = <<>> /\ frames = 0

\* The bytes of the first n buffers of q, which are shifted from the queue.
Shifted(q, n) == Bytes(SubSeq(q, 1, n))

\* flushSubprocessStdinQueue on queue q of the given bytes: the buffers are
\* written one by one.  The pipe takes the first taken of them at once, which
\* it can only do while the stream holds nothing; the others stay in the
\* stream.  The first write that returns false ends the loop: its buffer is in
\* the stream, but is not shifted from the queue.
FlushStdin(q, bytes, armed, heard, owed) ==
    \E taken \in 0..Len(q) :
        LET held(i) == IF i <= taken
                       THEN q[i].size
                       ELSE Bytes(stream) + Bytes(SubSeq(q, taken + 1, i))
            refused == {i \in 1..Len(q) : held(i) >= HighWaterMark}
            first(i) == i \in refused /\ \A j \in refused : i <= j
            write(written, shifted) ==
                /\ taken <= written
                /\ Pass(q, written)
                /\ stream' = stream \o SubSeq(q, taken + 1, written)
                /\ queue' = SubSeq(q, shifted + 1, Len(q))
                /\ stdinQueuedBytes' = bytes - Shifted(q, shifted)
        IN  /\ taken > 0 => stream = <<>>
            /\ \/ /\ refused = {}
                  /\ write(Len(q), Len(q))
                  /\ needDrain' = owed
                  /\ drainArmed' = armed
                  /\ listening' = heard
               \/ \E i \in 1..Len(q) :
                     /\ first(i)
                     /\ write(i, i - 1)
                     /\ needDrain' = TRUE
                     /\ drainArmed' = TRUE
                     /\ listening' = (heard \/ ~armed)

\* sendFrameToSubprocess: a frame that does not fit is dropped whole.
Room(size) == stdinQueuedBytes + HeaderBytes + size <= MaxQueueBytes
Queued(pieces) == queue \o pieces

SendFrame(size) ==
    /\ up
    /\ frames < MaxFrames
    /\ frames' = frames + 1
    /\ \/ /\ ~Room(size)
          /\ UNCHANGED <<queue, stdinQueuedBytes, drainArmed, streamVars, passed, accepted>>
       \/ /\ Room(size)
          /\ LET pieces == Pieces(frames', size)
             IN  /\ accepted' = accepted \o pieces
                 /\ FlushStdin(Queued(pieces), stdinQueuedBytes + Bytes(pieces),
                               drainArmed, listening, needDrain)
    /\ UNCHANGED up

\* The pipe takes the next buffer of the stream.
Deliver ==
    /\ stream # <<>>
    /\ stream' = Tail(stream)
    /\ UNCHANGED <<sessionVars, needDrain, listening, inputHistVars>>

\* The drain event; the listener of flushSubprocessStdinQueue runs once.
ArmedAfterDrain == FALSE

Drain ==
    /\ needDrain
    /\ stream = <<>>
    /\ IF listening /\ up
         THEN FlushStdin(queue, stdinQueuedBytes, ArmedAfterDrain, FALSE, FALSE)
         ELSE /\ needDrain' = FALSE
              /\ listening' = FALSE
              /\ drainArmed' = FALSE
              /\ UNCHANGED <<queue, stdinQueuedBytes, stream, passed>>
    /\ UNCHANGED <<up, accepted, frames>>

\* handleSubprocessExit or dispose(): resetProcessState.
Down ==
    /\ up
    /\ up' = FALSE
    /\ queue' = <<>> /\ stdinQueuedBytes' = 0 /\ drainArmed' = FALSE
    /\ UNCHANGED <<streamVars, inputHistVars>>

InputNext == (\E size \in Payloads : SendFrame(size)) \/ Deliver \/ Drain \/ Down

InputSpec == InputInit /\ [][InputNext]_inputVars

\* The subprocess reads its stdin, and Node emits the drain event it owes.
InputFairness == WF_inputVars(Deliver) /\ WF_inputVars(Drain)
InputFairSpec == InputSpec /\ InputFairness

-----------------------------------------------------------------------------

InputTypeOK ==
    /\ up \in BOOLEAN
    /\ queue \in Seq(Buffers)
    /\ stdinQueuedBytes \in 0..MaxQueueBytes
    /\ drainArmed \in BOOLEAN
    /\ stream \in Seq(Buffers)
    /\ needDrain \in BOOLEAN
    /\ listening \in BOOLEAN
    /\ passed \in Seq(Buffers)
    /\ accepted \in Seq(Buffers)
    /\ frames \in 0..MaxFrames

\* The counter that the limit is checked against is what the queue holds,
\* through partial flushes, drops and resets.
BytesCounted == stdinQueuedBytes = Bytes(queue)

\* No stuck input: a queue that is not empty has a listener for a drain event
\* that the stream owes, and the flag says so.
BacklogHasDrain ==
    up => /\ queue # <<>> => listening
          /\ listening <=> drainArmed
          /\ listening => needDrain

\* Buffers are written in the order in which they were queued and none is
\* skipped, over all interleavings of new frames with drain events: what was
\* written (repetitions aside) and what is queued make up what was accepted.
InputKeepsOrder ==
    IF up THEN \/ passed \o queue = accepted
               \/ IsRepeated(queue) /\ passed \o Tail(queue) = accepted
          ELSE IsPrefix(passed, accepted)

\* The queue through backpressure, drain events, drops and resets: nothing is
\* lost, overtaken, miscounted or stuck.
QueueSound == InputTypeOK /\ BytesCounted /\ BacklogHasDrain /\ InputKeepsOrder

\* While the subprocess reads, the queue empties in the end.
InputDrains == (queue # <<>>) ~> (queue = <<>>)

=============================================================================
