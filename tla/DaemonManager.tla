---------------------------- MODULE DaemonManager ----------------------------
(***************************************************************************)
(* The desktop app's side of the terminal daemon                           *)
(* (apps/desktop/src/main/lib/terminal/daemon/daemon-manager.ts): calls of *)
(* createOrAttach, which wait for one of few slots, look for a session to  *)
(* restore from disk, and then ask the daemon; the table of sessions that  *)
(* the app believes in; and what kills, exits, time-outs and resets do to  *)
(* them.  Of HistoryManager there are the writers, one per attachment.     *)
(*                                                                         *)
(* External: the daemon, which answers, fails or lists whatever it likes,  *)
(* and reports exits of any pane at any time (its answers and its events   *)
(* come over different sockets, in no order), and the files of histories.  *)
(***************************************************************************)
EXTENDS PrioritySemaphore, FiniteSets

CONSTANTS Calls, Panes, None,
          Limits,      \* CREATE_OR_ATTACH_CONCURRENCY is one of these
          MaxUpsets    \* bound: exits and errors that the daemon reports and calls of
                       \* kill(), forceKillAll() and reset(), together

ASSUME LimitsAssumption == Limits \subseteq Nat \ {0}
ASSUME BoundAssumption == MaxUpsets \in Nat
ASSUME NoneAssumption == None \notin Calls \cup Panes

VARIABLES
  limit,       \* createOrAttachLimiter.max
  focused,     \* the pane that the user is looking at, or None; it stays so
  limiter,     \* the rest of createOrAttachLimiter
  pc,          \* where each call is
  req,         \* its parameters
  aborted,     \* the calls whose signal is aborted
  pending,     \* pendingSessions: the call of each pane
  sessions,    \* sessions: who registered the entry of a pane, and its state
  timers,      \* cleanup timers of a pane: how many, and whether one is in the map
  killed,      \* killedSessionTombstones
  restore,     \* coldRestoreInfo: the call that found the scrollback of a pane
  inits,       \* calls whose history writer awaits its init
  writer,      \* historyWriters: the call that each pane's writer comes from
  forcing,     \* forceKillAll: "no", "closing", "killing", "failed"
  upsets,      \* how many of them there were
  wasReset,    \* history: there was a reset()
  overtaken,   \* history: calls that read a history while their pane got a session
  late         \* history: calls whose writer was initialising when its pane was closed

semVars == <<limit, focused, limiter>>
callVars == <<pc, req, aborted, pending>>
tableVars == <<sessions, timers, killed, restore>>
historyVars == <<inits, writer>>
vars == <<semVars, callVars, tableVars, historyVars, forcing, upsets, wasReset, overtaken, late>>

Params == [pane: Panes, join: BOOLEAN, skip: BOOLEAN]
NoParams == [pane |-> None, join |-> FALSE, skip |-> FALSE]
NoSession == [by |-> None, state |-> "none"]
NoTimer == [armed |-> 0, listed |-> FALSE]

Holding == {"granted", "probing", "reading", "cleaning", "requested", "failing"}
Holders == {r \in Calls : pc[r] \in Holding}
InFlight(r) == pc[r] \in Holding \cup {"queued"}

-----------------------------------------------------------------------------
(* Wrong variants of definitions below, which the properties must tell apart. *)
SupersedeNobody(p) == None
ForgetPending(r) == [pending EXCEPT ![req[r].pane] = None]
ArmIfAlive(p) ==
    IF sessions[p].state = "alive" THEN [timers EXCEPT ![p] = [armed |-> @.armed + 1, listed |-> TRUE]]
                                   ELSE timers
WriterKept(p) == writer

-----------------------------------------------------------------------------

Init ==
    /\ limit \in Limits /\ focused \in Panes \cup {None}
    /\ limiter = NewSemaphore
    /\ pc = [r \in Calls |-> "idle"]
    /\ req = [r \in Calls |-> NoParams]
    /\ aborted = {}
    /\ pending = [p \in Panes |-> None]
    /\ sessions = [p \in Panes |-> NoSession]
    /\ timers = [p \in Panes |-> NoTimer]
    /\ killed = {}
    /\ restore = [p \in Panes |-> None]
    /\ inits = {} /\ writer = [p \in Panes |-> None]
    /\ forcing = "no"
    /\ upsets = 0 /\ wasReset = FALSE
    /\ overtaken = {} /\ late = {}

\* abort() of the calls in A: a waiter leaves the queue and is rejected, and
\* the race with the daemon's answer is lost; others see it when they go on.
PcAborted(A) ==
    [r \in Calls |-> IF r \notin A THEN pc[r]
                     ELSE CASE pc[r] = "queued"    -> "done"
                            [] pc[r] = "requested" -> "failing"
                            [] OTHER               -> pc[r]]

\* getCreateOrAttachPriority of calls with parameters q
Priority(q) == [r \in Calls |-> IF q[r].pane = focused THEN 0 ELSE 1]

\* The finally block of createOrAttach.
ClearPending(r) ==
    IF pending[req[r].pane] = r THEN [pending EXCEPT ![req[r].pane] = None] ELSE pending

\* The finally block of doCreateOrAttach, and that of createOrAttach after it.
Settle(r) ==
    LET rel == Released(limiter, limit)
    IN  /\ limiter' = rel.sem
        /\ pc' = [c \in Calls |-> IF c = r THEN "done"
                                  ELSE IF c \in rel.granted THEN "granted" ELSE pc[c]]
        /\ pending' = ClearPending(r)
        /\ req' = [req EXCEPT ![r] = [pane |-> @.pane, join |-> FALSE, skip |-> FALSE]]
        /\ UNCHANGED <<limit, focused, aborted>>

GoTo(r, where) == /\ pc' = [pc EXCEPT ![r] = where]
                  /\ UNCHANGED <<semVars, req, aborted, pending>>

\* setTimeout at an exit, cancelPendingCleanup, and clearing all that are listed.
ArmCleanup(p) == [timers EXCEPT ![p] = [armed |-> @.armed + 1, listed |-> TRUE]]
Unlisted(t) == [armed |-> IF t.listed THEN t.armed - 1 ELSE t.armed, listed |-> FALSE]
AllUnlisted == [p \in Panes |-> Unlisted(timers[p])]

\* closeHistoryWriter
WriterClosed(p) == [writer EXCEPT ![p] = None]
InitsOf(p) == {r \in inits : req[r].pane = p}

-----------------------------------------------------------------------------
(* createOrAttach *)

\* A call of a pane that was killed is refused, unless it allows that.
Refused(r, p) ==
    /\ pc[r] = "idle" /\ p \in killed
    /\ GoTo(r, "done")
    /\ UNCHANGED <<tableVars, historyVars, forcing, upsets, wasReset, overtaken, late>>

\* A helper's call and another of its pane share one promise.
Join(r, q) ==
    /\ pc[r] = "idle" /\ pending[q.pane] # None
    /\ q.join \/ req[pending[q.pane]].join
    /\ killed' = killed \ {q.pane}
    /\ GoTo(r, "done")
    /\ UNCHANGED <<sessions, timers, restore, historyVars, forcing, upsets, wasReset, overtaken, late>>

\* The call that a new call of pane p supersedes, or None.
Superseded(p) == pending[p]

Start(r, q) ==
    LET old == Superseded(q.pane)
        sem == Without(limiter, old)
        prio == Priority(req')
    IN  /\ pc[r] = "idle"
        /\ pending[q.pane] # None => ~q.join /\ ~req[pending[q.pane]].join
        /\ killed' = killed \ {q.pane}
        /\ aborted' = aborted \cup ({old} \ {None})
        /\ req' = [req EXCEPT ![r] = q]
        /\ limiter' = Acquired(sem, r, prio, limit)
        /\ pc' = [PcAborted({old}) EXCEPT ![r] = IF HasSlot(sem, limit) THEN "granted" ELSE "queued"]
        /\ pending' = [pending EXCEPT ![q.pane] = r]
        /\ UNCHANGED <<limit, focused, sessions, timers, restore, historyVars, forcing, upsets, wasReset,
                       overtaken, late>>

Cancel(r) ==
    /\ InFlight(r) /\ pending[req[r].pane] = r
    /\ aborted' = aborted \cup {r}
    /\ limiter' = Without(limiter, r)
    /\ pc' = PcAborted({r})
    /\ pending' = [pending EXCEPT ![req[r].pane] = None]
    /\ UNCHANGED <<limit, focused, req, tableVars, historyVars, forcing, upsets, wasReset, overtaken, late>>

\* After acquire(): a scrollback found before is returned again.
Granted(r) ==
    LET p == req[r].pane
    IN  /\ pc[r] = "granted"
        /\ IF r \in aborted \/ (~req[r].skip /\ restore[p] # None)
           THEN Settle(r) /\ UNCHANGED restore
           ELSE /\ GoTo(r, "probing")
                /\ restore' = IF req[r].skip THEN [restore EXCEPT ![p] = None] ELSE restore
        /\ UNCHANGED <<sessions, timers, killed, historyVars, forcing, upsets, wasReset, overtaken, late>>

\* After ensureDaemonSessionIdsHydrated(), which may not have reached the daemon.
ProbeDone(r) ==
    LET p == req[r].pane
    IN  /\ pc[r] = "probing"
        /\ \/ r \in aborted /\ Settle(r) /\ UNCHANGED writer
           \/ r \notin aborted /\ GoTo(r, "requested") /\ UNCHANGED writer
           \/ r \notin aborted /\ ~req[r].skip /\ GoTo(r, "reading") /\ UNCHANGED writer
           \/ r \notin aborted /\ req[r].skip /\ GoTo(r, "cleaning") /\ writer' = WriterClosed(p)
        /\ UNCHANGED <<tableVars, inits, forcing, upsets, wasReset, overtaken, late>>

\* attemptColdRestore() keeps what it found, even for a call aborted meanwhile.
ReadRestored(r) ==
    /\ pc[r] = "reading"
    /\ restore' = [restore EXCEPT ![req[r].pane] = r]
    /\ Settle(r)
    /\ UNCHANGED <<sessions, timers, killed, historyVars, forcing, upsets, wasReset, overtaken, late>>

\* The history ended cleanly, or is not there, or has been deleted.
FilesDone(r) ==
    /\ pc[r] \in {"reading", "cleaning"}
    /\ IF r \in aborted THEN Settle(r) ELSE GoTo(r, "requested")
    /\ UNCHANGED <<tableVars, historyVars, forcing, upsets, wasReset, overtaken, late>>

\* The daemon's answer registers the session and starts a history writer.
Answer(r) ==
    LET p == req[r].pane
    IN  /\ pc[r] = "requested"
        /\ timers' = [timers EXCEPT ![p] = Unlisted(@)]
        /\ sessions' = [sessions EXCEPT ![p] = [by |-> r, state |-> "alive"]]
        /\ inits' = inits \cup {r}
        /\ overtaken' = overtaken \cup {c \in Calls : pc[c] = "reading" /\ req[c].pane = p}
        /\ Settle(r)
        /\ UNCHANGED <<killed, restore, writer, forcing, upsets, wasReset, late>>

\* The request fails, times out or is aborted.
RequestFails(r) ==
    /\ pc[r] \in {"requested", "failing"}
    /\ Settle(r)
    /\ UNCHANGED <<tableVars, historyVars, forcing, upsets, wasReset, overtaken, late>>

\* The end of initHistoryWriter: the writer is set whatever happened meanwhile.
HistoryInit(r) ==
    /\ r \in inits
    /\ inits' = inits \ {r}
    /\ \/ writer' = [writer EXCEPT ![req[r].pane] = r]
       \/ UNCHANGED writer
    /\ UNCHANGED <<semVars, callVars, tableVars, forcing, upsets, wasReset, overtaken, late>>

-----------------------------------------------------------------------------
(* What ends sessions *)

Upset == upsets < MaxUpsets /\ upsets' = upsets + 1

\* kill(), whose request the daemon answers with an exit event if it finds the session
Kill(p) ==
    /\ Upset
    /\ killed' = killed \cup {p}
    /\ sessions' = [sessions EXCEPT ![p].state = IF @ = "alive" THEN "killed" ELSE @]
    /\ writer' = WriterClosed(p)
    /\ late' = late \cup InitsOf(p)
    /\ UNCHANGED <<semVars, callVars, timers, restore, inits, forcing, wasReset, overtaken>>

ExitEvent(p) ==
    /\ Upset
    /\ sessions' = [sessions EXCEPT ![p].state = IF @ = "none" THEN @ ELSE "exited"]
    /\ writer' = WriterClosed(p)
    /\ timers' = ArmCleanup(p)
    /\ late' = late \cup InitsOf(p)
    /\ UNCHANGED <<semVars, callVars, killed, restore, inits, forcing, wasReset, overtaken>>

\* An error event "Session not found".
SessionLost(p) ==
    /\ Upset
    /\ sessions[p].state = "alive"
    /\ sessions' = [sessions EXCEPT ![p].state = "lost"]
    /\ UNCHANGED <<semVars, callVars, timers, killed, restore, historyVars, forcing, wasReset, overtaken, late>>

\* A cleanup timer, one that the map has forgotten included.
CleanupTimeout(p) ==
    /\ timers[p].armed > 0
    /\ timers' = [timers EXCEPT ![p] = [armed |-> @.armed - 1, listed |-> FALSE]]
    /\ sessions' = [sessions EXCEPT ![p] = NoSession]
    /\ UNCHANGED <<semVars, callVars, killed, restore, historyVars, forcing, upsets, wasReset, overtaken, late>>

AckColdRestore(p) ==
    /\ restore[p] # None
    /\ restore' = [restore EXCEPT ![p] = None]
    /\ UNCHANGED <<semVars, callVars, sessions, timers, killed, historyVars, forcing, upsets, wasReset,
                   overtaken, late>>

\* forceKillAll() up to its second await: K are the panes that the daemon lists alive.
ForceKillAll(K) ==
    /\ Upset
    /\ forcing \notin {"closing", "killing"}
    /\ forcing' = "closing"
    /\ killed' = killed \cup K
    /\ sessions' = [p \in Panes |-> IF p \in K /\ sessions[p].state = "alive"
                                    THEN [sessions[p] EXCEPT !.state = "killed"] ELSE sessions[p]]
    /\ timers' = AllUnlisted
    /\ UNCHANGED <<semVars, callVars, restore, historyVars, wasReset, overtaken, late>>

\* forceCloseAll() has closed the writers.
ForceClosed ==
    /\ forcing = "closing" /\ forcing' = "killing"
    /\ writer' = [p \in Panes |-> None]
    /\ late' = late \cup inits
    /\ UNCHANGED <<semVars, callVars, tableVars, inits, upsets, wasReset, overtaken>>

\* The daemon has killed all, or the request failed and forceKillAll() throws.
ForceKilled ==
    /\ forcing = "killing" /\ forcing' = "no"
    /\ restore' = [p \in Panes |-> None]
    /\ sessions' = [p \in Panes |-> NoSession]
    /\ UNCHANGED <<semVars, callVars, timers, killed, historyVars, upsets, wasReset, overtaken, late>>
ForceKillFails ==
    /\ forcing = "killing" /\ forcing' = "failed"
    /\ UNCHANGED <<semVars, callVars, tableVars, historyVars, upsets, wasReset, overtaken, late>>

\* reset(): pending calls are aborted, the tables cleared, the semaphore starts anew.
Reset ==
    LET A == {pending[p] : p \in Panes} \ {None}
    IN  /\ Upset
        /\ aborted' = aborted \cup A
        /\ pc' = [r \in Calls |-> IF r \in ToSet(limiter.queue) THEN "done" ELSE PcAborted(A)[r]]
        /\ limiter' = NewSemaphore
        /\ pending' = [p \in Panes |-> None]
        /\ timers' = AllUnlisted
        /\ sessions' = [p \in Panes |-> NoSession]
        /\ restore' = [p \in Panes |-> None]
        /\ killed' = {} /\ wasReset' = TRUE
        /\ writer' = [p \in Panes |-> None]
        /\ UNCHANGED <<limit, focused, req, inits, forcing, overtaken, late>>

-----------------------------------------------------------------------------

Next ==
    \/ \E r \in Calls : \/ \E p \in Panes : Refused(r, p)
                        \/ \E q \in Params : Join(r, q) \/ Start(r, q)
                        \/ Cancel(r) \/ Granted(r) \/ ProbeDone(r)
                        \/ ReadRestored(r) \/ FilesDone(r)
                        \/ Answer(r) \/ RequestFails(r) \/ HistoryInit(r)
    \/ \E p \in Panes : \/ Kill(p) \/ ExitEvent(p) \/ SessionLost(p)
                        \/ CleanupTimeout(p) \/ AckColdRestore(p)
    \/ \E K \in SUBSET Panes : ForceKillAll(K)
    \/ ForceClosed \/ ForceKilled \/ ForceKillFails
    \/ Reset

Spec == Init /\ [][Next]_vars

-----------------------------------------------------------------------------
(* Properties *)

\* Every variable keeps its type; the count of slots never leaves 0..max, although a
\* reset sets it to zero under live holders (daemon-manager.ts, priority-semaphore.ts).
TypeOK ==
    /\ limit \in Limits /\ focused \in Panes \cup {None}
    /\ limiter.inUse \in 0..limit /\ limiter.queue \in Seq(Calls)
    /\ pc \in [Calls -> Holding \cup {"idle", "queued", "done"}]
    /\ req \in [Calls -> Params \cup {NoParams}]
    /\ aborted \subseteq Calls
    /\ pending \in [Panes -> Calls \cup {None}]
    /\ sessions \in [Panes -> [by: Calls \cup {None},
                               state: {"none", "alive", "killed", "exited", "lost"}]]
    /\ timers \in [Panes -> [armed: 0..MaxUpsets, listed: BOOLEAN]]
    /\ killed \subseteq Panes
    /\ restore \in [Panes -> Calls \cup {None}]
    /\ inits \subseteq Calls /\ writer \in [Panes -> Calls \cup {None}]
    /\ forcing \in {"no", "closing", "killing", "failed"}
    /\ upsets \in 0..MaxUpsets /\ wasReset \in BOOLEAN
    /\ overtaken \subseteq Calls /\ late \subseteq Calls

\* A counted slot has a holder, so none leaks; without resets the count is exact.  The
\* queue holds the waiting calls once, in order of priority, and only while all slots
\* are taken: nobody waits beside a free slot (PrioritySemaphore).
SlotsCounted ==
    /\ TypeOK
    /\ limiter.inUse <= Cardinality(Holders)
    /\ ~wasReset => limiter.inUse = Cardinality(Holders)
    /\ ToSet(limiter.queue) = {r \in Calls : pc[r] = "queued"}
    /\ IsInjective(limiter.queue)
    /\ \A i, j \in DOMAIN limiter.queue :
         i < j => Priority(req)[limiter.queue[i]] <= Priority(req)[limiter.queue[j]]
    /\ limiter.queue # <<>> => limiter.inUse = limit

\* pendingSessions names the one call of each pane that is in flight and counts: a call
\* in flight that it does not name has been aborted, whoever took its place (createOrAttach).
PendingIsCurrent ==
    /\ \A p \in Panes : pending[p] # None => /\ InFlight(pending[p])
                                             /\ pending[p] \notin aborted
                                             /\ req[pending[p]].pane = p
    /\ \A r \in Calls : InFlight(r) /\ r \notin aborted => pending[req[r].pane] = r

\* An entry whose exit was reported is not kept for ever: a timer is armed that removes
\* it.  forceKillAll() clears the timers before it clears the entries, and leaves the
\* entries without when the daemon does not answer (handlers of "exit").
ExitedHasTimer ==
    forcing = "no" => \A p \in Panes : sessions[p].state = "exited" => timers[p].armed > 0

\* The writer of a session that was killed or has exited is closed, which marks its
\* history as ended, but for one that was still initialising then (closeHistoryWriter).
HistoryEndsWithSession ==
    forcing # "closing" =>
      \A p \in Panes : sessions[p].state \in {"killed", "exited"} /\ writer[p] # None
                         => writer[p] \in late

\* Scrollback that was read while another call registered a session of the pane is kept
\* for later attaches only by a call that was aborted (coldRestoreInfo).
RestoreIsCurrent ==
    \A p \in Panes : restore[p] \in overtaken => restore[p] \in aborted

\* Only the call that counts leaves something behind, and what a session leaves is
\* cleared away when it ends.
PanesSound == /\ PendingIsCurrent /\ RestoreIsCurrent
              /\ ExitedHasTimer /\ HistoryEndsWithSession

\* A session is registered by the call that its pane waits for: an answer to a call that
\* was canceled or superseded registers nothing (doCreateOrAttach).
OnlyCurrentRegisters ==
    [][\A p \in Panes : sessions'[p].by \notin {None, sessions[p].by}
                          => sessions'[p].by = pending[p] /\ pending[p] \notin aborted]_vars
=============================================================================
