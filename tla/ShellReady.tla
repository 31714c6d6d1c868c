------------------------------ MODULE ShellReady ------------------------------
(***************************************************************************)
(* The shell-readiness gate of a Session                                   *)
(* (apps/desktop/src/main/terminal-host/session.ts): while the shell runs  *)
(* its start-up files, writes are held back; the gate opens when the shell *)
(* prints SHELL_READY_MARKER, after a timeout, or when the subprocess is   *)
(* gone.  The scanner that looks for the marker works on the output stream *)
(* one character at a time, across the frames it arrives in.               *)
(*                                                                         *)
(* Characters are model values: the scanner only compares them.  What the  *)
(* gate hands on goes to the stdin queue (module SessionInput) and to the  *)
(* output path (module SessionOutput); here both are histories.            *)
(***************************************************************************)
EXTENDS Naturals, Sequences, SequencesExt

CONSTANTS Chars,       \* characters of terminal output
          Marker,      \* SHELL_READY_MARKER
          Shells,      \* the kinds of shell: subset of {"gated", "plain"}
          MaxWrites,   \* bound: write() calls
          MaxReplies,  \* bound: answers of the headless emulator
          MaxShellOutput, \* bound: characters the shell prints
          MaxFrame     \* bound: characters in one Data frame

ASSUME GateAssumption == /\ Marker \in Seq(Chars) /\ Marker # <<>>
                         /\ Shells \subseteq {"gated", "plain"}
                         /\ MaxWrites \in Nat /\ MaxReplies \in Nat /\ MaxFrame \in Nat

VARIABLES
  gatedShell,       \* whether the shell is in SHELLS_WITH_READY_MARKER
  process,          \* the subprocess: see Processes
  shellReadyState,
  timeoutArmed,     \* shellReadyTimeoutId is not null
  preReady,         \* preReadyStdinQueue
  markerMatchPos, markerHeld,
  gateSent,         \* history: the writes that went to sendWriteToSubprocess
  replies,          \* history: the number of answers that did
  shown,            \* history: output that went to the emulator and the clients
  gateWritten,      \* history: the write() calls that were not to be dropped
  calls,            \* history: the number of write() calls
  arrived           \* history: output received in Data frames

scanVars == <<markerMatchPos, markerHeld>>
gateHistVars == <<gateSent, replies, shown, gateWritten, calls, arrived>>
gateVars == <<gatedShell, process, shellReadyState, timeoutArmed, preReady, scanVars,
              gateHistVars>>

\* none: not spawned; booting: subprocess is set, no Ready frame yet; ready:
\* subprocessReady; gone: the fields were reset by an exit or by dispose().
Processes == {"none", "booting", "ready", "gone"}
ReadyStates == {"pending", "ready", "timed_out", "unsupported"}
InitialState == IF gatedShell = "gated" THEN "pending" ELSE "unsupported"

-----------------------------------------------------------------------------

GateInit ==
    /\ gatedShell \in Shells
    /\ process = "none"
    /\ shellReadyState = InitialState
    /\ timeoutArmed = FALSE
    /\ preReady = <<>>
    /\ markerMatchPos = 0 /\ markerHeld = <<>>
    /\ gateSent = <<>> /\ shown = <<>> /\ gateWritten = <<>> /\ arrived = <<>>
    /\ replies = 0 /\ calls = 0

(* Wrong variants of definitions below, which the properties must tell apart. *)
MismatchDropsHeld(acc, c) == [acc EXCEPT !.pos = 0, !.held = <<>>, !.out = Append(@, c)]
MismatchKeepsPos(acc, c) == [acc EXCEPT !.held = <<>>, !.out = (@ \o acc.held) \o <<c>>]
FlushLastFirst == gateSent' = gateSent \o Reverse(preReady)
SpawnUntimed ==
    /\ process = "none"
    /\ process' = "booting"
    /\ UNCHANGED <<gatedShell, shellReadyState, timeoutArmed, preReady, scanVars,
                   gateHistVars>>
EmulatorRepliesAlways ==
    /\ process = "ready"
    /\ replies' = replies + 1
    /\ UNCHANGED <<gatedShell, process, shellReadyState, timeoutArmed, preReady, scanVars,
                   gateSent, shown, gateWritten, calls, arrived>>

-----------------------------------------------------------------------------

\* The scan is a fold over the characters of a frame: acc is the state of the
\* scanner and what it has passed on.  On a mismatch the held characters were
\* no marker; the character itself is not looked at again.
Mismatch(acc, c) ==
    [acc EXCEPT !.pos = 0, !.held = <<>>, !.out = (@ \o acc.held) \o <<c>>]

ScanChar(acc, c) ==
    CASE acc.found -> [acc EXCEPT !.out = Append(@, c)]
      [] ~acc.found /\ c # Marker[acc.pos + 1] -> Mismatch(acc, c)
      [] ~acc.found /\ c = Marker[acc.pos + 1] ->
           IF acc.pos + 1 < Len(Marker)
             THEN [acc EXCEPT !.pos = @ + 1, !.held = Append(@, c)]
             ELSE [acc EXCEPT !.pos = 0, !.held = <<>>, !.found = TRUE]

Scan(payload) ==
    FoldLeft(ScanChar, [pos |-> markerMatchPos, held |-> markerHeld,
                        out |-> <<>>, found |-> FALSE], payload)

\* resetProcessState, as far as the gate is concerned.
Reset ==
    /\ process' = "gone"
    /\ shellReadyState' = InitialState
    /\ timeoutArmed' = FALSE
    /\ preReady' = <<>>
    /\ markerMatchPos' = 0 /\ markerHeld' = <<>>

\* spawn() starts the subprocess and the timeout.
Spawn ==
    /\ process = "none"
    /\ process' = "booting"
    /\ timeoutArmed' = (shellReadyState = "pending")
    /\ UNCHANGED <<gatedShell, shellReadyState, preReady, scanVars, gateHistVars>>

ReadyFrame ==
    /\ process = "booting"
    /\ process' = "ready"
    /\ UNCHANGED <<gatedShell, shellReadyState, timeoutArmed, preReady, scanVars,
                   gateHistVars>>

\* resolveShellReady, called for the timeout and for the exit of the process:
\* the held characters were no marker after all.
FlushPreReady == gateSent' = gateSent \o preReady
FlushHeld == shown' = shown \o markerHeld

\* write(): a write that starts with an escape is dropped while the gate is shut.
Write(escape) ==
    /\ process = "ready"
    /\ calls < MaxWrites
    /\ calls' = calls + 1
    /\ \/ /\ shellReadyState = "pending"
          /\ escape
          /\ UNCHANGED <<preReady, gateSent, gateWritten>>
       \/ /\ shellReadyState = "pending"
          /\ ~escape
          /\ preReady' = Append(preReady, calls')
          /\ gateWritten' = Append(gateWritten, calls')
          /\ UNCHANGED gateSent
       \/ /\ shellReadyState # "pending"
          /\ gateSent' = Append(gateSent, calls')
          /\ gateWritten' = Append(gateWritten, calls')
          /\ UNCHANGED preReady
    /\ UNCHANGED <<gatedShell, process, shellReadyState, timeoutArmed, scanVars, replies,
                   shown, arrived>>

\* The headless emulator answers a query of the shell; no client is attached.
EmulatorReplies ==
    /\ process = "ready"
    /\ shellReadyState # "pending"
    /\ replies < MaxReplies
    /\ replies' = replies + 1
    /\ UNCHANGED <<gatedShell, process, shellReadyState, timeoutArmed, preReady, scanVars,
                   gateSent, shown, gateWritten, calls, arrived>>

\* A Data frame: while the gate is shut it is scanned, and a marker opens the
\* gate in the middle of it; otherwise it is passed on.
DataFrame(payload) ==
    /\ process = "ready"
    /\ Len(arrived) + Len(payload) <= MaxShellOutput
    /\ arrived' = arrived \o payload
    /\ \/ /\ shellReadyState # "pending"
          /\ shown' = shown \o payload
          /\ UNCHANGED <<shellReadyState, timeoutArmed, preReady, scanVars, gateSent>>
       \/ /\ shellReadyState = "pending"
          /\ LET scan == Scan(payload)
             IN  /\ markerMatchPos' = scan.pos
                 /\ markerHeld' = scan.held
                 /\ shown' = shown \o scan.out
                 /\ IF scan.found
                      THEN /\ shellReadyState' = "ready"
                           /\ timeoutArmed' = FALSE
                           /\ preReady' = <<>>
                           /\ FlushPreReady
                      ELSE UNCHANGED <<shellReadyState, timeoutArmed, preReady, gateSent>>
    /\ UNCHANGED <<gatedShell, process, replies, gateWritten, calls>>

ShellReadyTimeout ==
    /\ timeoutArmed
    /\ shellReadyState = "pending"
    /\ shellReadyState' = "timed_out"
    /\ timeoutArmed' = FALSE
    /\ FlushHeld /\ markerHeld' = <<>> /\ markerMatchPos' = 0
    /\ FlushPreReady /\ preReady' = <<>>
    /\ UNCHANGED <<gatedShell, process, replies, gateWritten, calls, arrived>>

\* handleSubprocessExit opens the gate, then resets the fields.
SubprocessExit ==
    /\ process \in {"booting", "ready"}
    /\ IF shellReadyState = "pending" THEN FlushPreReady /\ FlushHeld
                                      ELSE UNCHANGED <<gateSent, shown>>
    /\ Reset
    /\ UNCHANGED <<gatedShell, replies, gateWritten, calls, arrived>>

\* dispose() resets the fields with the gate shut.
Dispose ==
    /\ process # "gone"
    /\ Reset
    /\ UNCHANGED <<gatedShell, gateHistVars>>

GateNext ==
    \/ Spawn \/ ReadyFrame
    \/ \E escape \in BOOLEAN : Write(escape)
    \/ EmulatorReplies
    \/ \E payload \in SeqOf(Chars, MaxFrame) \ {<<>>} : DataFrame(payload)
    \/ ShellReadyTimeout
    \/ SubprocessExit \/ Dispose

GateSpec == GateInit /\ [][GateNext]_gateVars

\* An armed timer fires; nothing is assumed of the shell.
GateFairness == WF_gateVars(ShellReadyTimeout)
GateFairSpec == GateSpec /\ GateFairness

-----------------------------------------------------------------------------

GateTypeOK ==
    /\ gatedShell \in Shells
    /\ process \in Processes
    /\ shellReadyState \in ReadyStates
    /\ timeoutArmed \in BOOLEAN
    /\ preReady \in Seq(1..MaxWrites)
    /\ markerMatchPos \in 0..(Len(Marker) - 1)
    /\ markerHeld = SubSeq(Marker, 1, markerMatchPos)
    /\ gateSent \in Seq(1..MaxWrites) /\ replies \in 0..MaxReplies
    /\ shown \in Seq(Chars)
    /\ gateWritten \in Seq(1..MaxWrites)
    /\ calls \in 0..MaxWrites
    /\ arrived \in Seq(Chars)

Shut == shellReadyState = "pending"

\* Nothing reaches the shell while it initialises: neither a write nor an
\* answer of the emulator, which would appear as typed text.
NothingTypedEarly == Shut /\ process # "gone" => gateSent = <<>> /\ replies = 0

\* Writes reach the subprocess in the order in which they were made, each one
\* once: opening the gate neither loses, repeats nor overtakes a held write.
WritesKeepOrder ==
    IF process = "gone" THEN IsPrefix(gateSent, gateWritten)
                        ELSE gateSent \o preReady = gateWritten

\* Output is passed on exactly as it came, whatever frames it came in: the
\* scanner may keep back a piece of a marker, and takes out one marker if it
\* opens the gate, but no other character is lost, repeated or moved.
OutputExact ==
    CASE process = "gone" -> TRUE
      [] process # "gone" /\ Shut -> arrived = shown \o markerHeld
      [] process # "gone" /\ shellReadyState = "ready" ->
           \E i \in 0..(Len(arrived) - Len(Marker)) :
               /\ SubSeq(arrived, i + 1, i + Len(Marker)) = Marker
               /\ shown = SubSeq(arrived, 1, i)
                          \o SubSeq(arrived, i + Len(Marker) + 1, Len(arrived))
      [] OTHER -> arrived = shown

\* A shut gate of a running process always has its timeout armed, and none is
\* left behind that could fire after the gate is open or the fields are reset.
TimeoutIffShut ==
    timeoutArmed <=> (Shut /\ process \in {"booting", "ready"})

\* The gate passes both streams on exactly, in whatever order frames, writes,
\* the time-out, the exit and dispose() come.
GateExact == GateTypeOK /\ NothingTypedEarly /\ WritesKeepOrder /\ OutputExact /\ TimeoutIffShut

\* A spawned session accepts input in the end: the gate opens, marker or not.
GateOpens == (process = "booting") ~> (~Shut \/ process = "gone")

=============================================================================
