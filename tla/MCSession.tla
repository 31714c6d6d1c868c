------------------------------- MODULE MCSession -------------------------------
(***************************************************************************)
(* Three machines on the way of what is typed in one run: the gate that    *)
(* holds it back while the shell starts (ShellReady), the queue before the *)
(* stdin of the subprocess (SessionInput), and the subprocess itself       *)
(* (PtySubprocess).  Each module takes the others to be any sender or      *)
(* reader, which is more than they do; so TLC explores each from its       *)
(* initial states while the others stay in theirs.                         *)
(*                                                                         *)
(* The marker has three characters, the first of which (the escape) occurs *)
(* once in it, and there is one other character.                           *)
(***************************************************************************)
EXTENDS ShellReady, SessionInput, PtySubprocess

CONSTANTS esc, body, bel, text

MCChars == {esc, body, bel, text}
MCMarker == <<esc, body, bel>>

VARIABLE part  \* the machine that moves

MCInit == GateInit /\ InputInit /\ Init /\ part \in {"gate", "queue", "subprocess"}

\* All input meets one byte of output, and all output one byte of input.  What comes in
\* or out is owed by nobody, so fairness is not concerned.
Traffic == input' <= 1 \/ output' <= 1

MCNext == /\ UNCHANGED part
          /\ \/ part = "gate" /\ GateNext /\ UNCHANGED <<vars, inputVars>>
             \/ part = "queue" /\ InputNext /\ UNCHANGED <<vars, gateVars>>
             \/ part = "subprocess" /\ Next /\ Traffic /\ UNCHANGED <<gateVars, inputVars>>

\* No machine owes a step in its initial states, so its fairness asks for nothing while
\* it stays there.
MCSpec == MCInit /\ [][MCNext]_<<vars, gateVars, inputVars, part>>
          /\ Fairness /\ GateFairness /\ InputFairness
=============================================================================
