---------------------------- MODULE MCTerminalHost ----------------------------
(* Small instances of TerminalHost for TLC.                                  *)
EXTENDS TerminalHost, TLC

\* Calls, sockets and ids are interchangeable.
CallSymmetry == Permutations(Reqs) \cup Permutations(Socks) \cup Permutations(Ids)

\* The bound of the run on calls: sockets stay open (they do not matter before
\* a session is attached) and at most one subprocess has ended.
Ended == {s \in Reqs : child[s] \in {"exited", "gone"}}
SocketsStayOpen == open = Socks
FewEnd == Cardinality(Ended) <= 1
CallsOnly == SocketsStayOpen /\ FewEnd
=============================================================================
