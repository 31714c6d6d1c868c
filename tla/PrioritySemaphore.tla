--------------------------- MODULE PrioritySemaphore ---------------------------
(***************************************************************************)
(* The semaphore of the attach scheduler, as operators on its state        *)
(* (apps/desktop/src/main/lib/terminal/daemon/priority-semaphore.ts): the  *)
(* slots in use, and the waiters, those of smaller priority number first   *)
(* and those of one priority as they came.  A waiter is named by the call  *)
(* that waits; prio gives the priority of each.                            *)
(***************************************************************************)
EXTENDS Naturals, Sequences, SequencesExt, FiniteSetsExt

NewSemaphore == [inUse |-> 0, queue |-> <<>>]

-----------------------------------------------------------------------------
(* Wrong variants of definitions below, which the properties must tell apart. *)
ReleasedUnpumped(s, slots) == [sem |-> [s EXCEPT !.inUse = Max({0, @ - 1})], granted |-> {}]
ReleasedUnclamped(s, slots) ==
    LET n == Min({slots - (s.inUse - 1), Len(s.queue)})
    IN  [sem     |-> [inUse |-> s.inUse - 1 + n, queue |-> SubSeq(s.queue, n + 1, Len(s.queue))],
         granted |-> ToSet(SubSeq(s.queue, 1, n))]

-----------------------------------------------------------------------------

\* acquire(): a slot, or the place in the queue where a stable sort after the push puts
\* the waiter, the queue being sorted before.
HasSlot(s, slots) == s.inUse < slots
Place(q, r, prio) == Min({i \in DOMAIN q : prio[q[i]] > prio[r]} \cup {Len(q) + 1})
Queued(s, r, prio) == [s EXCEPT !.queue = InsertAt(@, Place(@, r, prio), r)]
Acquired(s, r, prio, slots) ==
    IF HasSlot(s, slots) THEN [s EXCEPT !.inUse = @ + 1] ELSE Queued(s, r, prio)

\* onAbort of the waiter r.
Without(s, r) == [s EXCEPT !.queue = RemoveFirst(@, r)]

\* release() and pump(): the waiters at the front that get the free slots.
Released(s, slots) ==
    LET free == Max({0, s.inUse - 1})
        n    == Min({slots - free, Len(s.queue)})
    IN  [sem     |-> [inUse |-> free + n, queue |-> SubSeq(s.queue, n + 1, Len(s.queue))],
         granted |-> ToSet(SubSeq(s.queue, 1, n))]
=============================================================================
