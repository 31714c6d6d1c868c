------------------------------- MODULE FsEvents --------------------------------
(***************************************************************************)
(* What becomes of a change of a file in packages/workspace-fs: the native *)
(* watcher reports it, src/watch.ts gathers reports for 75 ms, makes one   *)
(* event per path of them, looks at each file, pairs deletions with        *)
(* creations into renames, patches the file search index of src/search.ts  *)
(* and tells the listeners; and the index is built, cached for 30 s and    *)
(* rebuilt beside all that.                                                *)
(*                                                                         *)
(* A path is <<parent, base name>>.  A file is there or not; its contents  *)
(* are left out.  One root and one of its two indexes, which share nothing *)
(* but the events.  External: the files, the native watcher, fast-glob,    *)
(* which looks at one path after another, and the listener, which keeps    *)
(* the set of files it was told of and reads it anew upon "overflow".      *)
(* Not here: directories, ignored and hidden paths, the ranking of matches.*)
(***************************************************************************)
EXTENDS Naturals, Sequences, SequencesExt

CONSTANTS Paths,       \* the paths that are ever used
          MaxReports,  \* bound: reports on their way or pending
          MaxFlights,  \* bound: batches whose files are looked at
          MaxBuilds    \* bound: builds of the index that run

Builds == 1..MaxBuilds
NoBuild == 0
Kinds == {"create", "update", "delete"}
Idle == [runs |-> FALSE, left |-> {}, found |-> {}, current |-> FALSE]
NoCache == [has |-> FALSE, items |-> {}, old |-> FALSE]

VARIABLES
  files,     \* the files that are there
  reports,   \* what the native watcher has seen and not yet told
  pendingEvents, \* the reports that wait for the timer
  timer,     \* flushTimer: is it armed?
  flights,   \* the batches of flushPendingEvents() that await stat()
  view,      \* the files a listener knows of
  cache,     \* the entry of searchIndexCache
  registered,\* the build in searchIndexBuilds, NoBuild for no entry
  builds,    \* the builds that run; current: the version is still the one it began with
  mishaps    \* history: what happened that events do not make good
             \*   lost       the native watcher has lost reports
             \*   overtaken  a batch was published before an older one
             \*   disturbed  changes were made or still to be told during a build

indexVars == <<cache, registered, builds>>
eventVars == <<files, reports, pendingEvents, timer, flights, view, indexVars, mishaps>>

Mishaps == {"lost", "overtaken", "disturbed"}

RunningBuilds == {b \in Builds : builds[b].runs}
Settled == reports = <<>> /\ pendingEvents = <<>> /\ flights = <<>>

Mark(mishap, happens) == mishaps' = IF happens THEN mishaps \cup {mishap} ELSE mishaps

-----------------------------------------------------------------------------
(* One event per path: coalesceWatchEvents *)

\* Wrong: the first report of a path stands, unless the path came and went.
KeepFirst(old, new) == IF old = "none" THEN new
                       ELSE IF old = "create" /\ new = "delete" THEN "none" ELSE old

\* What a report adds to what is known of its path, "none" for nothing.
Coalesce(old, new) ==
    CASE old = "none" -> new
      [] old = "create" -> IF new = "delete" THEN "none" ELSE "create"
      [] old = "update" -> IF new = "delete" THEN "delete" ELSE "update"
      [] old = "delete" -> IF new = "create" THEN "update" ELSE new

\* What a sequence of reports says of each path
Noted(known, r) == [known EXCEPT ![r.path] = Coalesce(@, r.kind)]
Known(rs) == FoldLeft(Noted, [p \in Paths |-> "none"], rs)

\* The events of a sequence of reports, as a set of records
Coalesced(rs) ==
    LET of == Known(rs)
    IN {[path |-> p, kind |-> of[p], from |-> p] : p \in {q \in Paths : of[q] # "none"}}

-----------------------------------------------------------------------------
(* Renames: reconcileRenameEvents and pairRenameCandidates *)

\* Deletions and creations that are each the only one with their parent, or base name
UniquePairs(dels, creates, part) ==
    LET Alone(p, S) == \A q \in S : q[part] = p[part] => q = p
    IN {x \in dels \X creates : /\ x[1][part] = x[2][part]
                                /\ Alone(x[1], dels) /\ Alone(x[2], creates)}

Firsts(pairs) == {x[1] : x \in pairs}
Seconds(pairs) == {x[2] : x \in pairs}

\* Wrong: what the first round has paired is paired again.
PairedTwice(dels, creates) == UniquePairs(dels, creates, 1) \cup UniquePairs(dels, creates, 2)

\* By parent, then by base name, then what is left if it is one of each
Pairs(dels, creates) ==
    LET byParent == UniquePairs(dels, creates, 1)
        byName == UniquePairs(dels \ Firsts(byParent), creates \ Seconds(byParent), 2)
        some == byParent \cup byName
        rest == (dels \ Firsts(some)) \X (creates \ Seconds(some))
    IN some \cup {x \in rest : rest = {x}}

\* Each pair becomes one event, in the place of its creation; the others stay.
Reconciled(events) ==
    LET Of(kind) == {e.path : e \in {f \in events : f.kind = kind}}
        pairs == Pairs(Of("delete"), Of("create"))
    IN {e \in events : e.path \notin Firsts(pairs) \cup Seconds(pairs)}
       \cup {[path |-> x[2], kind |-> "rename", from |-> x[1]] : x \in pairs}

\* Wrong: a rename adds the new path and keeps the old one.
KeepOld(set, events) == (set \ {e.path : e \in {f \in events : f.kind = "delete"}})
                        \cup {e.path : e \in {f \in events : f.kind # "delete"}}

\* What the events make of a set of files: the index (applySearchPatchEvent) and the
\* listener alike.  Each path is in one event, so their order is nothing.
Apply(set, events) == (set \ ({e.path : e \in {f \in events : f.kind = "delete"}}
                              \cup {e.from : e \in {f \in events : f.kind = "rename"}}))
                      \cup {e.path : e \in {f \in events : f.kind # "delete"}}

-----------------------------------------------------------------------------

Rested ==
    /\ files \in SUBSET Paths /\ view = files
    /\ reports = <<>> /\ pendingEvents = <<>> /\ timer = FALSE /\ flights = <<>>
    /\ cache = NoCache /\ registered = NoBuild /\ builds = [b \in Builds |-> Idle]

EventsInit == Rested /\ mishaps = {}

\* A file is created, written or deleted, and the native watcher sees it.
Change(p, kind) ==
    /\ kind = "create" <=> p \notin files
    /\ Len(reports) + Len(pendingEvents) < MaxReports
    /\ files' = IF kind = "delete" THEN files \ {p} ELSE files \cup {p}
    /\ reports' = Append(reports, [path |-> p, kind |-> kind])
    /\ Mark("disturbed", RunningBuilds # {})
    /\ UNCHANGED <<pendingEvents, timer, flights, view, indexVars>>

\* The callback of createWatcher() is given the reports.
Deliver ==
    /\ reports # <<>>
    /\ reports' = <<>> /\ pendingEvents' = pendingEvents \o reports /\ timer' = TRUE
    /\ UNCHANGED <<files, flights, view, indexVars, mishaps>>

Outdated == [b \in Builds |-> [builds[b] EXCEPT !.current = FALSE]]

\* Wrong: the builds are forgotten and the index is kept.
ForgetBuilds == cache' = cache /\ registered' = NoBuild /\ builds' = Outdated

\* invalidateSearchIndexesForRoot()
Invalidate == cache' = NoCache /\ registered' = NoBuild /\ builds' = Outdated

\* patchSearchIndexesForRoot()
Patch(events) ==
    \/ /\ cache.has \/ registered # NoBuild
       /\ builds' = Outdated /\ registered' = NoBuild
       /\ cache' = IF cache.has THEN [cache EXCEPT !.items = Apply(@, events), !.old = FALSE]
                   ELSE cache
    \/ /\ ~cache.has /\ registered = NoBuild /\ UNCHANGED indexVars

\* The rest of flushPendingEvents() when the files have been looked at
Publish(events) == Patch(Reconciled(events)) /\ view' = Apply(view, Reconciled(events))

\* The timer fires: no file is looked at for a deletion, so a batch of nothing else is
\* published at once.
Flush ==
    /\ timer /\ Len(flights) < MaxFlights
    /\ timer' = FALSE /\ pendingEvents' = <<>>
    /\ LET events == Coalesced(pendingEvents) IN
       \/ /\ events = {} /\ UNCHANGED <<flights, view, indexVars, mishaps>>
       \/ /\ events # {} /\ \A e \in events : e.kind = "delete"
          /\ Publish(events) /\ UNCHANGED flights /\ Mark("overtaken", flights # <<>>)
       \/ /\ \E e \in events : e.kind # "delete"
          /\ flights' = Append(flights, events) /\ UNCHANGED <<view, indexVars, mishaps>>
    /\ UNCHANGED <<files, reports>>

\* stat() has answered for every path of a batch, which need not be the oldest.
Land(i) ==
    /\ i \in DOMAIN flights
    /\ Publish(flights[i]) /\ flights' = RemoveAt(flights, i) /\ Mark("overtaken", i # 1)
    /\ UNCHANGED <<files, reports, pendingEvents, timer>>

\* The native watcher has lost reports: "overflow" to the listener.
WatcherError ==
    /\ reports' = <<>> /\ Mark("lost", TRUE)
    /\ Invalidate /\ view' = files
    /\ UNCHANGED <<files, pendingEvents, timer, flights>>

-----------------------------------------------------------------------------
(* getSearchIndex and buildSearchIndex *)

\* Wrong: an index that is there is good for ever.
Missing == ~cache.has

\* There is no index, or an old one.
Wanted == ~cache.has \/ cache.old

\* A search that begins a build, as there is none in searchIndexBuilds
Search ==
    /\ Wanted
    /\ registered = NoBuild
    /\ Mark("disturbed", ~Settled)
    /\ \E b \in Builds \ RunningBuilds :
          /\ \A a \in Builds \ RunningBuilds : b <= a
          /\ builds' = [builds EXCEPT ![b] = [runs |-> TRUE, left |-> Paths, found |-> {},
                                              current |-> TRUE]]
          /\ registered' = b
    /\ UNCHANGED <<files, reports, pendingEvents, timer, flights, view, cache>>

\* fast-glob looks at one more path.
Scan(b, p) ==
    /\ p \in builds[b].left
    /\ builds' = [builds EXCEPT ![b].left = @ \ {p}, ![b].found = @ \cup (files \cap {p})]
    /\ UNCHANGED <<files, reports, pendingEvents, timer, flights, view, cache, registered,
                   mishaps>>

\* May build b store its index?  Its version is still the current one.
Current(b) == builds[b].current

\* Wrong: only a build that has stored its index is taken from searchIndexBuilds.
StaysOutdated(b) == IF Current(b) THEN NoBuild ELSE b

\* searchIndexBuilds when build b has ended: its entry goes, whichever build it names.
Unregistered(b) == NoBuild

\* then() of the build
Finish(b) ==
    /\ b \in RunningBuilds /\ builds[b].left = {}
    /\ cache' = IF Current(b) THEN [has |-> TRUE, items |-> builds[b].found, old |-> FALSE]
                ELSE cache
    /\ registered' = Unregistered(b) /\ builds' = [builds EXCEPT ![b] = Idle]
    /\ UNCHANGED <<files, reports, pendingEvents, timer, flights, view, mishaps>>

\* SEARCH_INDEX_TTL_MS pass.
Age ==
    /\ cache.has /\ ~cache.old /\ cache' = [cache EXCEPT !.old = TRUE]
    /\ UNCHANGED <<files, reports, pendingEvents, timer, flights, view, registered, builds,
                   mishaps>>

EventsNext ==
    \/ \E p \in Paths, kind \in Kinds : Change(p, kind)
    \/ Deliver \/ Flush \/ WatcherError \/ \E i \in 1..MaxFlights : Land(i)
    \/ Search \/ Age
    \/ \E b \in Builds : Finish(b) \/ \E p \in Paths : Scan(b, p)

EventsSpec == EventsInit /\ [][EventsNext]_eventVars

\* The native watcher, timers, stat() and fast-glob answer in the end; somebody searches
\* every now and then.
Told == Deliver \/ Flush \/ \E i \in 1..MaxFlights : Land(i)
Built(b) == Finish(b) \/ \E p \in Paths : Scan(b, p)
EventsFairSpec ==
    /\ EventsSpec /\ WF_eventVars(Told) /\ WF_eventVars(Search) /\ WF_eventVars(Age)
    /\ \A b \in Builds : WF_eventVars(Built(b))

-----------------------------------------------------------------------------

EventTypes ==
    /\ files \subseteq Paths /\ view \subseteq Paths /\ timer \in BOOLEAN
    /\ reports \in Seq([path : Paths, kind : Kinds])
    /\ pendingEvents \in Seq([path : Paths, kind : Kinds])
    /\ flights \in Seq(SUBSET [path : Paths, kind : Kinds, from : Paths])
    /\ cache \in [has : BOOLEAN, items : SUBSET Paths, old : BOOLEAN]
    /\ registered \in {NoBuild} \cup RunningBuilds /\ mishaps \subseteq Mishaps
    /\ builds \in [Builds -> [runs : BOOLEAN, left : SUBSET Paths, found : SUBSET Paths,
                              current : BOOLEAN]]

\* Of the events that the listeners are told, each path of the batch is in one: as what
\* is deleted or renamed, or as what is created, renamed to or updated.
ToldOnce(events) ==
    LET told == Reconciled(events) IN
        /\ UNION {{e.path, e.from} : e \in told} = {e.path : e \in events}
        /\ \A e, f \in told : {e.path, e.from} \cap {f.path, f.from} # {} => e = f

OneEventPerPath == \A i \in DOMAIN flights : ToldOnce(flights[i])

\* Reports of a path become one event or none, and deletions and creations renames; yet
\* once all are told, the listener knows the files that are there, unless reports were
\* lost or a batch overtook another.
ViewIsExact ==
    OneEventPerPath /\ (Settled /\ mishaps \subseteq {"disturbed"} => view = files)

\* The index that searches are answered from has the files that are there, patched and
\* dropped upon "overflow" as it is, if no batch overtook another and none was built
\* while something happened.
IndexIsExact ==
    EventTypes /\ (Settled /\ cache.has /\ mishaps \subseteq {"lost"} => cache.items = files)

\* Whatever went wrong with the index while files changed, while builds overlapped and
\* batches came out of order: when the files stay as they are it becomes right in the
\* end, and stays so.
IndexHeals == <>[][files' = files]_eventVars => <>[](cache.has => cache.items = files)
=============================================================================
