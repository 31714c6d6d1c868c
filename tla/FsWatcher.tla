------------------------------- MODULE FsWatcher -------------------------------
(***************************************************************************)
(* The watchers of packages/workspace-fs: FsWatcherManager (src/watch.ts), *)
(* which shares one subscription of the native watcher among those who     *)
(* watch a path, and the stream that each of them reads (createAsyncQueue  *)
(* in src/host/service.ts).  What follows an await up to the next one is   *)
(* one action.  One path; paths do not interact.                           *)
(*                                                                         *)
(* External: the native watcher, which takes its time to subscribe and to  *)
(* unsubscribe, may fail at both, and reports changes in batches.  One     *)
(* that could not be unsubscribed may run on or not.                       *)
(* Not here: what a batch says (FsEvents), the debounce timer, and the     *)
(* manager's close(), which runs when the process ends.                    *)
(***************************************************************************)
EXTENDS Naturals, Sequences

CONSTANTS Streams,     \* calls of watchPath()
          MaxWatchers, \* bound: native subscriptions ever asked for
          MaxBatches,  \* bound: batches of changes
          MaxReads     \* bound: calls of next() that wait at the same time

Watchers == 1..MaxWatchers
None == 0

VARIABLES
  watchers,   \* the watcher in the map of FsWatcherManager, None for no entry
  native,     \* the native subscription of each watcher
  listeners,  \* the streams that each watcher tells
  made,       \* watchers created so far
  step,       \* what each stream's subscription or cleanup awaits, or how it ended
  own,        \* the watcher that it awaits
  closed,     \* streams that are closed
  queue,      \* batches that nobody has asked for yet
  waiters,    \* calls of next() that wait
  batches,    \* batches so far
  told, read, \* history: the batches that each stream was given; that its reader got
  overlapped, \* history: a subscription began while another one was made or ended
  failed      \* history: the watchers whose unsubscribe() was rejected

managerVars == <<watchers, native, listeners, made, overlapped, failed>>
queueVars == <<queue, waiters, batches, told, read>>
vars == <<managerVars, step, own, closed, queueVars>>

-----------------------------------------------------------------------------
(* Wrong variants of definitions below, which the properties must tell apart. *)

\* close() leaves the calls of next() that wait.
LeftWaiting(s) == waiters

\* push() takes a waiter without asking whether there is one.
EverybodyServed(w) == listeners[w] \ closed

\* The native watcher is left to run when the last listener goes.
EntryOnly(s, w, ls) ==
    /\ listeners' = [w1 \in Watchers |-> ls[w1] \ {s}]
    /\ step' = [step EXCEPT ![s] = "off"] /\ own' = own /\ UNCHANGED native

\* The native watcher goes with the first listener that goes.
FirstGone(s, w, ls) ==
    IF w = None THEN EntryOnly(s, w, ls)
    ELSE /\ listeners' = [ls EXCEPT ![w] = @ \ {s}]
         /\ step' = [step EXCEPT ![s] = "unsubscribing"] /\ own' = [own EXCEPT ![s] = w]
         /\ native' = [native EXCEPT ![w] = IF @ = "on" THEN "unsubscribing" ELSE @]

\* The entry goes whether or not the native watcher has let go.
EntryDropped(s) == None

\* next() takes the latest of the batches that were kept.
TakeLast(s) ==
    /\ queue[s] # <<>>
    /\ queue' = [queue EXCEPT ![s] = SubSeq(@, 1, Len(@) - 1)]
    /\ read' = [read EXCEPT ![s] = Append(@, queue[s][Len(queue[s])])]
    /\ UNCHANGED waiters

-----------------------------------------------------------------------------

Init ==
    /\ watchers = None /\ made = 0 /\ overlapped = FALSE /\ failed = {}
    /\ native = [w \in Watchers |-> "none"]
    /\ listeners = [w \in Watchers |-> {}]
    /\ step = [s \in Streams |-> "idle"] /\ own = [s \in Streams |-> None] /\ closed = {}
    /\ queue = [s \in Streams |-> <<>>] /\ waiters = [s \in Streams |-> 0]
    /\ batches = 0
    /\ told = [s \in Streams |-> <<>>] /\ read = [s \in Streams |-> <<>>]

GoTo(s, where, w) == step' = [step EXCEPT ![s] = where] /\ own' = [own EXCEPT ![s] = w]

\* The calls of next() that wait once those of stream s are answered: it has ended.
Dismissed(s) == [waiters EXCEPT ![s] = 0]

\* watchPath(): there is a watcher, or createWatcher() begins.
Subscribe(s) ==
    /\ step[s] = "idle"
    /\ overlapped' = (overlapped \/ \E t \in Streams : step[t] \in {"creating", "unsubscribing"})
    /\ \/ /\ watchers # None
          /\ listeners' = [listeners EXCEPT ![watchers] = @ \cup {s}]
          /\ GoTo(s, "on", None) /\ UNCHANGED <<native, made>>
       \/ /\ watchers = None /\ made + 1 \in Watchers
          /\ made' = made + 1 /\ native' = [native EXCEPT ![made'] = "subscribing"]
          /\ GoTo(s, "creating", made') /\ UNCHANGED listeners
    /\ UNCHANGED <<watchers, failed, closed, queueVars>>

\* The path is no directory, or the native watcher cannot be had: next() rejects.
SubscribeFails(s) ==
    /\ step[s] = "creating"
    /\ native' = [native EXCEPT ![own[s]] = "off"]
    /\ GoTo(s, "off", None) /\ closed' = closed \cup {s}
    /\ waiters' = Dismissed(s)
    /\ UNCHANGED <<watchers, listeners, made, overlapped, failed, queue, batches, told, read>>

\* The function that subscribe() returns, called for stream s with listeners ls.
Cleanup(s, w, ls) ==
    \/ /\ w = None
       /\ listeners' = ls /\ GoTo(s, "off", None) /\ UNCHANGED native
    \/ /\ w # None /\ listeners' = [ls EXCEPT ![w] = @ \ {s}]
       /\ \/ /\ listeners'[w] # {} /\ GoTo(s, "off", None) /\ UNCHANGED native
          \/ /\ listeners'[w] = {} /\ GoTo(s, "unsubscribing", w)
             /\ native' = [native EXCEPT ![w] = IF @ = "on" THEN "unsubscribing" ELSE @]

\* createWatcher() is done; a stream that was closed meanwhile is cleaned up.
Subscribed(s) ==
    /\ step[s] = "creating"
    /\ watchers' = own[s]
    /\ LET on == [native EXCEPT ![own[s]] = "on"]
           ls == [listeners EXCEPT ![own[s]] = @ \cup {s}] IN
       \/ /\ s \notin closed
          /\ native' = on /\ listeners' = ls /\ GoTo(s, "on", None)
       \/ /\ s \in closed
          /\ listeners' = listeners
          /\ native' = [native EXCEPT ![own[s]] = "unsubscribing"]
          /\ GoTo(s, "unsubscribing", own[s])
    /\ UNCHANGED <<made, overlapped, failed, closed, queueVars>>

\* return() of the reader, which closes the stream; before the subscription is made,
\* close() has no cleanup to wait for.
Close(s) ==
    /\ s \notin closed /\ closed' = closed \cup {s}
    /\ \/ /\ step[s] = "on"
          /\ Cleanup(s, watchers, listeners)
          /\ waiters' = IF step'[s] = "off" THEN Dismissed(s) ELSE waiters
       \/ /\ step[s] = "creating"
          /\ waiters' = Dismissed(s)
          /\ UNCHANGED <<native, listeners, step, own>>
    /\ UNCHANGED <<watchers, made, overlapped, failed, queue, batches, told, read>>

\* unsubscribe() is done: the entry of the path goes, whichever it is.
Unsubscribed(s) ==
    /\ step[s] = "unsubscribing"
    /\ native' = [native EXCEPT ![own[s]] = "off"]
    /\ watchers' = None
    /\ GoTo(s, "off", None)
    /\ waiters' = Dismissed(s)
    /\ UNCHANGED <<listeners, made, overlapped, failed, closed, queue, batches, told, read>>

\* unsubscribe() is rejected, and with it the cleanup: the entry stays, and close()
\* throws before it answers the calls of next() that wait (a stream that was closed
\* while it was made has none, and only logs the error).
EntryAfterFailure(s) == watchers

UnsubscribeFails(s) ==
    /\ step[s] = "unsubscribing"
    /\ \E after \in {"on", "off"} :
          native' = [native EXCEPT ![own[s]] = IF @ = "off" THEN @ ELSE after]
    /\ watchers' = EntryAfterFailure(s)
    /\ failed' = failed \cup {own[s]}
    /\ GoTo(s, "failed", None)
    /\ UNCHANGED <<listeners, made, overlapped, closed, queueVars>>

-----------------------------------------------------------------------------
(* createAsyncQueue: push and next *)

\* The readers of watcher w that a batch finds waiting
Served(w) == {s \in listeners[w] \ closed : waiters[s] > 0}

\* emit(): push() hands the batch to a reader that waits, or keeps it; a closed stream
\* ignores it.
Emit(w) ==
    /\ native[w] \in {"on", "unsubscribing"} /\ batches < MaxBatches
    /\ batches' = batches + 1
    /\ LET open == listeners[w] \ closed
           served == Served(w)
           Gain(f, S) == [s \in Streams |-> IF s \in S THEN Append(f[s], batches') ELSE f[s]] IN
       /\ waiters' = [s \in Streams |-> waiters[s] - (IF s \in served THEN 1 ELSE 0)]
       /\ read' = Gain(read, served)
       /\ queue' = Gain(queue, open \ served)
       /\ told' = Gain(told, open)
    /\ UNCHANGED <<managerVars, step, own, closed>>

\* The oldest of the batches that were kept
Take(s) ==
    /\ queue[s] # <<>>
    /\ queue' = [queue EXCEPT ![s] = Tail(@)]
    /\ read' = [read EXCEPT ![s] = Append(@, Head(queue[s]))]
    /\ UNCHANGED waiters

\* next(); a stream that is closed and has no batch left answers that it is done.
Read(s) ==
    /\ step[s] # "idle"
    /\ \/ Take(s)
       \/ /\ queue[s] = <<>> /\ s \notin closed /\ waiters[s] < MaxReads
          /\ waiters' = [waiters EXCEPT ![s] = @ + 1]
          /\ UNCHANGED <<queue, read>>
    /\ UNCHANGED <<managerVars, step, own, closed, batches, told>>

Next == \/ \E s \in Streams : \/ Subscribe(s) \/ SubscribeFails(s) \/ Subscribed(s)
                              \/ Close(s) \/ Unsubscribed(s) \/ UnsubscribeFails(s)
                              \/ Read(s)
        \/ \E w \in Watchers : Emit(w)

Spec == Init /\ [][Next]_vars

\* The native watcher answers each call in the end.
Fairness == \A s \in Streams : /\ WF_vars(Subscribed(s) \/ SubscribeFails(s))
                               /\ WF_vars(Unsubscribed(s) \/ UnsubscribeFails(s))
FairSpec == Spec /\ Fairness

-----------------------------------------------------------------------------

TypeOK ==
    /\ watchers \in Watchers \cup {None} /\ made \in Nat /\ overlapped \in BOOLEAN
    /\ failed \subseteq Watchers
    /\ native \in [Watchers -> {"none", "subscribing", "on", "unsubscribing", "off"}]
    /\ listeners \in [Watchers -> SUBSET Streams]
    /\ step \in [Streams -> {"idle", "creating", "on", "unsubscribing", "off", "failed"}]
    /\ own \in [Streams -> Watchers \cup {None}] /\ closed \subseteq Streams
    /\ batches \in Nat /\ told \in [Streams -> Seq(Nat)]
    /\ waiters \in [Streams -> Nat]

\* A reader gets the batches its stream was told of, in that order, each once and none
\* left out, through waiting calls and kept batches alike; and no call of next() waits
\* while a batch is kept for it.
ReadsInOrder == /\ TypeOK
                /\ \A s \in Streams : /\ read[s] \o queue[s] = told[s]
                                      /\ waiters[s] > 0 => queue[s] = <<>>

\* The calls of next() that wait when a stream is closed are answered, although close()
\* first waits for the native watcher; but not those of a stream whose own cleanup was
\* rejected.  (Streams stay closed, and nobody begins to wait at one that is.)
ReadersEnd == []<>(\A s \in closed : waiters[s] = 0 \/ step[s] = "failed")

\* Once every stream has ended and its cleanup is done, a native watcher is left running
\* only if it could not be unsubscribed, and then it is still in the map: the next stream
\* shares it instead of making another, and tries again when it goes.
NoneLeftRunning == (\A s \in Streams : step[s] \in {"idle", "off", "failed"})
                   => \A w \in Watchers : \/ native[w] \in {"none", "off"}
                                          \/ w \in failed /\ w = watchers

\* A watcher that somebody watches is not torn down ("tear watchers down when a
\* workspace is no longer active or has no subscribers", plans/workspace-filesystem-
\* migration.md); whoever joins one that could not be unsubscribed may hear nothing.
SubscribersHear == \A s \in Streams : step[s] = "on" =>
                       \E w \in Watchers : s \in listeners[w] /\ (native[w] # "off" \/ w \in failed)

\* There is one native watcher of a path, however many watch it ("one shared watcher
\* per active workspace root in main", the same plan).
OneWatcher == \A v, w \in Watchers : native[v] = "on" /\ native[w] = "on" => v = w

\* However streams come, fail, close and end, the watcher is shared by all of them,
\* stays as long as one of them, and goes with the last unless it cannot be had to:
\* provided that none begins while the watcher of another is being made or ended.
WatcherShared == ~overlapped => NoneLeftRunning /\ SubscribersHear /\ OneWatcher
=============================================================================
