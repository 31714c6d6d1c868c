---------------------------- MODULE MCDaemonManager ----------------------------
(* A small instance of DaemonManager for TLC.                                *)
EXTENDS DaemonManager, TLC

\* Calls are interchangeable, and so are panes.
Symmetry == Permutations(Calls) \cup Permutations(Panes)

\* One slot and one upset for calls of one kind that compete across panes; two slots
\* and every upset for calls of all kinds of one pane.
Untouched(p) == /\ p \notin killed /\ timers[p] = NoTimer
                /\ \A r \in Calls : req[r].pane # p
Focus == IF limit = 1 THEN /\ upsets <= 1
                           /\ \A r \in Calls : InFlight(r) => req[r].skip /\ ~req[r].join
         ELSE focused = None /\ \E p \in Panes : \A o \in Panes \ {p} : Untouched(o)
=============================================================================
