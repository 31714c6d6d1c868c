-------------------------------- MODULE MCFs --------------------------------
(***************************************************************************)
(* The two machines of packages/workspace-fs in one run: the native        *)
(* watchers and the streams (FsWatcher), and what becomes of a change      *)
(* (FsEvents).  FsWatcher says nothing of what is in a batch, and FsEvents *)
(* has one listener, so TLC explores each from its initial states while    *)
(* the other one stays in its own.  FsEvents is looked at in three ways:   *)
(*   view    renames in place, moves, and a choice between them; batches   *)
(*           in their order                                                *)
(*   index   two paths, builds of the index, reports that get lost         *)
(*   heal    one path; files change during builds of the index, batches    *)
(*           overtake, reports get lost, and all of it has happened before *)
(***************************************************************************)
EXTENDS FsWatcher, FsEvents

VARIABLE part  \* the machine, or the way of looking at it, that moves

MCOne == {<<"src", "x">>}
MCTwo == {<<"src", "x">>, <<"src", "y">>}
MCPaths == {<<"src", "x">>, <<"src", "y">>, <<"lib", "x">>}

Heal == INSTANCE FsEvents WITH Paths <- MCOne, MaxReports <- 2

MCInit == /\ Init
          /\ \/ part \in {"view", "index"} /\ EventsInit
             \/ part = "heal" /\ Heal!Rested /\ mishaps = Mishaps
             \/ part = "watchers" /\ EventsInit /\ files = {}

\* View has no index, and three reports and batches at most.
ViewNext == /\ EventsNext /\ mishaps' = {} /\ UNCHANGED indexVars
            /\ Len(reports') + Len(pendingEvents') + Len(flights') <= 3

\* Index has two paths, two reports and one batch at a time.
IndexNext == /\ EventsNext /\ mishaps' \subseteq {"lost"} /\ files' \subseteq MCTwo
             /\ Len(reports') + Len(pendingEvents') <= 2 /\ Len(flights') <= 1

\* Heal has two reports and batches at most: a bound on changes only.
HealNext == Heal!EventsNext /\ Len(reports') + Len(pendingEvents') + Len(flights') <= 2

MCNext == /\ UNCHANGED part
          /\ \/ part = "view" /\ ViewNext /\ UNCHANGED vars
             \/ part = "index" /\ IndexNext /\ UNCHANGED vars
             \/ part = "heal" /\ HealNext /\ UNCHANGED vars
             \/ part = "watchers" /\ Next /\ UNCHANGED eventVars

\* The fairness of both modules, each for its own parts
MCSpec == /\ MCInit /\ [][MCNext]_<<vars, eventVars, part>>
          /\ Fairness
          /\ WF_eventVars(part = "heal" /\ Heal!Told)
          /\ WF_eventVars(part = "heal" /\ Heal!Search)
          /\ WF_eventVars(part = "heal" /\ Heal!Age)
          /\ \A b \in Heal!Builds : WF_eventVars(part = "heal" /\ Heal!Built(b))

\* IndexHeals of FsEvents: an index that went wrong becomes right in the end.
IndexRecovers == part = "heal" => Heal!IndexHeals
=============================================================================
