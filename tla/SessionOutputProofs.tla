-------------------------- MODULE SessionOutputProofs --------------------------
(***************************************************************************)
(* What holds of SessionOutput for every set of sockets and calls, every   *)
(* amount of output and all watermarks.                                    *)
(*                                                                         *)
(* The inductive invariant is Inv.  QueueInv says that the items are       *)
(* counted on from those that are worked off: the last chunk of an item    *)
(* sits in the queue at the place that processed plus the items up to it   *)
(* give, so when that many are processed it is in the emulator.            *)
(* PromiseInv says what a call that waits for its boundary will have: all  *)
(* items up to the boundary, and those that were sent to its socket since  *)
(* it was attached.  FlowInv says why the subprocess is paused.            *)
(***************************************************************************)
EXTENDS SessionOutput, FiniteSetTheorems, SequenceTheorems, TLAPS

-----------------------------------------------------------------------------
(* The inductive invariant *)

\* How many of the first k chunks of q end their item.
Ends(q, k) == Cardinality({j \in 1..k : q[j].last})

\* The last chunk of item i is among the first k of q.
EndOf(q, k, i) == \E j \in 1..k : q[j].item = i /\ q[j].last

\* The k chunks of q belong to items up to a, the last one ends its item, and their items
\* are counted on from p.
Numbered(q, k, p, a) ==
    /\ \A j \in 1..k : q[j].item \in 1..a
    /\ k > 0 => q[k].last
    /\ \A j \in 1..k : q[j].last => q[j].item = p + Ends(q, j)

\* The first n items are in the emulator, n of them are counted.
WorkedOff(q, k, n) == \A i \in 1..n : EndOf(q, k, i)

FlowInv ==
    /\ up \in BOOLEAN /\ disposed \in BOOLEAN /\ (disposed => ~up)
    /\ attached \in [Socks -> Calls \cup {None}]
    /\ slow \subseteq Socks /\ open \subseteq Socks /\ full \subseteq open
    /\ listening \subseteq Socks
    /\ backpressured \in BOOLEAN /\ paused \in BOOLEAN
    /\ BytesCounted /\ PausedForReason /\ SlowAreAttached

QueueInv ==
    /\ queue \in Seq(Chunks) /\ fed \in Seq(Chunks)
    /\ arrived \in 0..MaxItems /\ processed \in Nat /\ dropped \in BOOLEAN
    /\ parsed \in 0..Len(fed)
    /\ scheduled \in BOOLEAN /\ (scheduled <=> queue # <<>>)
    /\ immediates \in {0, 1} /\ (scheduled => immediates = 1)
    /\ up /\ ~scheduled => immediates = 0
    /\ ~up => queue = <<>> /\ processed = 0
    /\ up => processed + Items(queue) = arrived
    /\ Numbered(queue, Len(queue), processed, arrived)
    /\ \A j \in 1..Len(fed) : fed[j].item \in 1..arrived
    /\ up => WorkedOff(fed, Len(fed), processed)
    /\ ~up /\ ~dropped => WorkedOff(fed, Len(fed), arrived)

CallInv ==
    /\ stage \in [Calls -> Stages]
    /\ csock \in [Calls -> Socks \cup {None}]
    /\ reached \in [Calls -> BOOLEAN]
    /\ waiters \in [Calls -> Nat]
    /\ mark \in [Calls -> 0..Len(fed)] /\ snapshot \in [Calls -> 0..Len(fed)]
    /\ seen \in [Calls -> SUBSET (1..arrived)]
    /\ \A k \in Socks : attached[k] # None => csock[attached[k]] = k /\ stage[attached[k]] # "idle"
    /\ \A c \in Calls : stage[c] \in {"idle", "boundary"} => ~reached[c]
    /\ \A c \in Calls : stage[c] # "idle" => csock[c] \in Socks
    /\ \A c \in Calls : stage[c] = "done" => mark[c] <= snapshot[c]
    /\ \A c \in Calls : stage[c] = "boundary" => waiters[c] # NoWaiter
    /\ \A c \in Calls : waiters[c] # NoWaiter =>
                          /\ stage[c] \in {"boundary", "canceled"}
                          /\ waiters[c] \in processed + 1 .. processed + Items(queue)

\* What a call will have when it takes its snapshot: what came before it up to its
\* boundary, and what came since.
PromiseInv ==
    \A c \in Calls : stage[c] # "idle" /\ ~dropped /\ attached[csock[c]] = c =>
        /\ stage[c] = "boundary" => \A i \in 1..arrived : i <= waiters[c] \/ i \in seen[c]
        /\ stage[c] \in {"emulator", "done"} /\ reached[c] =>
             \A i \in 1..arrived : EndOf(fed, mark[c], i) \/ i \in seen[c]

Inv == FlowInv /\ QueueInv /\ CallInv /\ PromiseInv

-----------------------------------------------------------------------------
\* A set of numbers that is not empty has a smallest member: the finite sets 0..x-1 are
\* well-founded by strict inclusion.
LEMMA NatMin ==
    ASSUME NEW T, T \subseteq Nat, T # {}
    PROVE  Min(T) \in T /\ \A y \in T : Min(T) <= y
<1> DEFINE Below(n) == IF n = 0 THEN {} ELSE 0..(n-1)
           U == {Below(x) : x \in T}
<1>1. U \subseteq FiniteSubsetsOf(Nat)
  <2> SUFFICES ASSUME NEW x \in T PROVE 0..(x-1) \in FiniteSubsetsOf(Nat)
    BY FS_EmptySet DEF FiniteSubsetsOf
  <2>1. 0..(x-1) \subseteq Nat
    OBVIOUS
  <2>2. IsFiniteSet(0..(x-1))
    BY FS_Interval
  <2> QED BY <2>1, <2>2 DEF FiniteSubsetsOf
<1>2. U # {}
  OBVIOUS
<1>3. PICK B \in U : \A C \in U : ~ (<<C, B>> \in StrictSubsetOrdering(Nat))
  <2> HIDE DEF U
  <2> QED BY <1>1, <1>2, FS_StrictSubsetOrderingWellFounded, WFMin
<1>4. PICK x \in T : B = Below(x)
  OBVIOUS
<1>5. ASSUME NEW y \in T, y < x PROVE FALSE
  <2>1. ~ (<<Below(y), Below(x)>> \in StrictSubsetOrdering(Nat))
    BY <1>3, <1>4
  <2>2. Below(y) \subseteq Below(x) /\ Below(y) # Below(x)
    <3>1. x \in Nat /\ y \in Nat
      OBVIOUS
    <3>2. x-1 \in Below(x) /\ x-1 \notin Below(y)
      BY <3>1, <1>5
    <3> QED BY <3>1, <3>2, <1>5
  <2>3. Below(y) \in SUBSET Nat /\ Below(x) \in SUBSET Nat
    BY x \in Nat, y \in Nat
  <2> QED BY <2>1, <2>2, <2>3 DEF StrictSubsetOrdering
<1>6. \E z \in T : \A y \in T : z <= y
  BY <1>5
<1> QED BY <1>6 DEF Min

-----------------------------------------------------------------------------
(* Counting the ends of items *)

\* The first k places are counted one by one.
LEMMA EndsStep ==
    ASSUME NEW f, NEW k \in Nat
    PROVE  /\ IsFiniteSet({j \in 1..k : f[j].last}) /\ Ends(f, k) \in Nat
           /\ Ends(f, 0) = 0
           /\ f[k+1].last => Ends(f, k+1) = Ends(f, k) + 1
           /\ ~f[k+1].last => Ends(f, k+1) = Ends(f, k)
<1> DEFINE E(n) == {j \in 1..n : f[j].last}
<1>1. ASSUME NEW n \in Nat PROVE IsFiniteSet(E(n)) /\ Cardinality(E(n)) \in Nat
  <2>1. IsFiniteSet(1..n)
    BY FS_Interval
  <2>2. E(n) \subseteq 1..n
    OBVIOUS
  <2> QED BY <2>1, <2>2, FS_Subset, FS_CardinalityType
<1>2. E(0) = {}
  OBVIOUS
<1>3. ASSUME f[k+1].last PROVE Cardinality(E(k+1)) = Cardinality(E(k)) + 1
  <2>1. E(k+1) = E(k) \cup {k+1}
    BY <1>3
  <2>2. k+1 \notin E(k)
    OBVIOUS
  <2> HIDE DEF E
  <2> QED BY <2>1, <2>2, <1>1, FS_AddElement
<1>4. ASSUME ~f[k+1].last PROVE E(k+1) = E(k)
  BY <1>4
<1>5. Ends(f, 0) = Cardinality(E(0)) /\ Ends(f, k) = Cardinality(E(k)) /\ Ends(f, k+1) = Cardinality(E(k+1))
  BY DEF Ends
<1> QED BY <1>1, <1>2, <1>3, <1>4, <1>5, FS_EmptySet DEF E

\* Equal places, equal counts.
LEMMA EndsSame ==
    ASSUME NEW f, NEW g, NEW k \in Nat, \A j \in 1..k : f[j] = g[j]
    PROVE  Ends(f, k) = Ends(g, k)
<1>1. {j \in 1..k : f[j].last} = {j \in 1..k : g[j].last}
  OBVIOUS
<1> QED BY <1>1 DEF Ends

\* The count of n places and of k more that follow them.
LEMMA EndsJoined ==
    ASSUME NEW f, NEW g, NEW n \in Nat, NEW K \in Nat, \A j \in 1..K : f[n+j] = g[j]
    PROVE  \A k \in 0..K : Ends(f, n+k) = Ends(f, n) + Ends(g, k)
<1> DEFINE T == {k \in 0..K : Ends(f, n+k) # Ends(f, n) + Ends(g, k)}
<1> SUFFICES ASSUME T # {} PROVE FALSE
  OBVIOUS
<1>1. PICK m \in T : \A y \in T : m <= y
  <2>1. T \subseteq Nat
    OBVIOUS
  <2> HIDE DEF T
  <2> QED BY <2>1, NatMin
<1>2. m \in 0..K /\ Ends(f, n+m) # Ends(f, n) + Ends(g, m)
  OBVIOUS
<1>3. m # 0
  <2>1. Ends(f, n) \in Nat /\ Ends(g, 0) = 0
    BY EndsStep
  <2> QED BY <2>1, <1>2
<1>4. PICK l \in Nat : m = l + 1
  <2>1. m - 1 \in Nat /\ m = (m - 1) + 1
    BY <1>2, <1>3
  <2> QED BY <2>1
<1>5. Ends(f, n+l) = Ends(f, n) + Ends(g, l)
  <2>1. l \in 0..K /\ ~(m <= l)
    BY <1>2, <1>4
  <2>2. l \notin T
    BY <2>1, <1>1
  <2> QED BY <2>1, <2>2
<1>6. f[(n+l)+1] = g[l+1]
  <2>1. l+1 \in 1..K /\ n+(l+1) = (n+l)+1
    BY <1>2, <1>4
  <2> QED BY <2>1
<1>7. PICK a, b, d : /\ a = Ends(f, n) /\ b = Ends(f, n+l) /\ d = Ends(g, l)
                     /\ a \in Nat /\ b \in Nat /\ d \in Nat
  <2>1. n+l \in Nat
    OBVIOUS
  <2> QED BY <2>1, EndsStep
<1>8. CASE g[l+1].last
  <2>1. Ends(f, (n+l)+1) = b + 1 /\ Ends(g, l+1) = d + 1
    BY <1>6, <1>7, <1>8, n+l \in Nat, EndsStep
  <2> QED BY <2>1, <1>2, <1>4, <1>5, <1>7
<1>9. CASE ~g[l+1].last
  <2>1. Ends(f, (n+l)+1) = b /\ Ends(g, l+1) = d
    BY <1>6, <1>7, <1>9, n+l \in Nat, EndsStep
  <2> QED BY <2>1, <1>2, <1>4, <1>5, <1>7
<1> QED BY <1>8, <1>9

\* Every number up to the count is that of an end.
LEMMA EndsHit ==
    ASSUME NEW f, NEW k \in Nat, NEW m \in Nat, 1 <= m, m <= Ends(f, k)
    PROVE  \E j \in 1..k : f[j].last /\ Ends(f, j) = m
<1> DEFINE T == {j \in 0..k : m <= Ends(f, j)}
<1>1. PICK j \in T : \A y \in T : j <= y
  <2>1. T \subseteq Nat /\ k \in T
    OBVIOUS
  <2> HIDE DEF T
  <2> QED BY <2>1, NatMin
<1>2. j \in 0..k /\ m <= Ends(f, j) /\ j # 0
  <2>1. j \in 0..k /\ m <= Ends(f, j)
    OBVIOUS
  <2>2. Ends(f, 0) = 0
    BY EndsStep
  <2>3. ~(m <= 0)
    OBVIOUS
  <2> QED BY <2>1, <2>2, <2>3
<1>3. PICK l \in Nat : j = l + 1
  <2>1. j - 1 \in Nat /\ j = (j - 1) + 1
    BY <1>2
  <2> QED BY <2>1
<1>4. Ends(f, l) < m
  <2>1. l \in 0..k /\ ~(j <= l)
    BY <1>2, <1>3
  <2>2. l \notin T
    BY <2>1, <1>1
  <2>3. Ends(f, l) \in Nat
    BY EndsStep
  <2> QED BY <2>1, <2>2, <2>3
<1>5. f[j].last /\ Ends(f, j) = m
  <2>1. PICK a : a = Ends(f, l) /\ a \in Nat
    BY EndsStep
  <2>2. f[l+1].last => Ends(f, l+1) = a + 1
    BY <2>1, EndsStep
  <2>3. ~f[l+1].last => Ends(f, l+1) = a
    BY <2>1, EndsStep
  <2> QED BY <2>1, <2>2, <2>3, <1>2, <1>3, <1>4
<1>6. j \in 1..k
  BY <1>2
<1> QED BY <1>5, <1>6

\* The chunks of an item have one end, the last.
LEMMA EndsOfItem ==
    ASSUME NEW f, NEW n \in Nat, n >= 1, \A j \in 1..n : f[j].last <=> j = n
    PROVE  Ends(f, n) = 1 /\ \A j \in 1..n : f[j].last => Ends(f, j) = 1
<1>1. {j \in 1..n : f[j].last} = {n}
  OBVIOUS
<1>2. Ends(f, n) = 1
  BY <1>1, FS_Singleton DEF Ends
<1> QED BY <1>2

\* The same behind k other chunks.
ItemAt(f, k, n, i) == \A j \in 1..n : f[k+j].item = i /\ (f[k+j].last <=> j = n)

\* Its last chunk counts one more than those before it.
LEMMA EndsOfMore ==
    ASSUME NEW f, NEW k \in Nat, NEW n \in Nat, n >= 1, NEW i, ItemAt(f, k, n, i)
    PROVE  /\ Ends(f, k+n) = Ends(f, k) + 1
           /\ \A j \in 1..n : f[k+j].last => Ends(f, k+j) = Ends(f, k) + 1
<1>1. PICK g : g = [j \in 1..n |-> f[k+j]]
  OBVIOUS
<1>2. \A j \in 1..n : g[j] = f[k+j]
  BY <1>1
<1>3. \A j \in 0..n : Ends(f, k+j) = Ends(f, k) + Ends(g, j)
  BY <1>2, EndsJoined
<1>4. \A j \in 1..n : g[j].last <=> j = n
  BY <1>2 DEF ItemAt
<1>5. Ends(g, n) = 1 /\ \A j \in 1..n : g[j].last => Ends(g, j) = 1
  BY <1>4, EndsOfItem
<1> QED BY <1>2, <1>3, <1>5

\* A queue that ends with the end of an item has one, and a part is counted within the whole.
LEMMA EndsOfPart ==
    ASSUME NEW f, NEW k \in Nat, NEW j \in 0..k
    PROVE  Ends(f, j) <= Ends(f, k) /\ (k > 0 /\ f[k].last => Ends(f, k) >= 1)
<1>0. IsFiniteSet({i \in 1..k : f[i].last})
  BY EndsStep
<1>1. {i \in 1..j : f[i].last} \subseteq {i \in 1..k : f[i].last}
  OBVIOUS
<1>2. Ends(f, j) <= Ends(f, k)
  BY <1>0, <1>1, FS_Subset DEF Ends
<1>3. ASSUME k > 0, f[k].last PROVE Ends(f, k) >= 1
  <2>1. PICK l \in Nat : k = l + 1
    <3>1. k - 1 \in Nat /\ k = (k - 1) + 1
      BY <1>3
    <3> QED BY <3>1
  <2>2. Ends(f, l+1) = Ends(f, l) + 1 /\ Ends(f, l) \in Nat
    BY <1>3, <2>1, EndsStep
  <2> QED BY <2>1, <2>2
<1> QED BY <1>2, <1>3
\* A part of a queue, the empty one included.
LEMMA PartOfQueue ==
    ASSUME NEW S, NEW q \in Seq(S), NEW m \in Nat, NEW n \in Nat, 1 <= m, m <= n + 1, n <= Len(q)
    PROVE  /\ SubSeq(q, m, n) \in Seq(S)
           /\ Len(SubSeq(q, m, n)) = n + 1 - m
           /\ \A j \in 1..n+1-m : SubSeq(q, m, n)[j] = q[m+j-1]
<1>1. Len(q) \in Nat /\ \A i \in 1..Len(q) : q[i] \in S
  BY LenProperties
<1>2. \A i \in m..n : q[i] \in S
  BY <1>1
<1>3. m \in Int /\ n \in Int /\ n - m + 1 = n + 1 - m
  OBVIOUS
<1>4. /\ SubSeq(q, m, n) \in Seq(S)
      /\ Len(SubSeq(q, m, n)) = IF m <= n THEN n-m+1 ELSE 0
      /\ \A j \in 1..n-m+1 : SubSeq(q, m, n)[j] = q[m+j-1]
  BY <1>2, <1>3, SubSeqProperties
<1> QED BY <1>3, <1>4

\* Concatenation, place by place.
LEMMA Joined ==
    ASSUME NEW S, NEW a \in Seq(S), NEW b \in Seq(S)
    PROVE  /\ a \o b \in Seq(S) /\ Len(a \o b) = Len(a) + Len(b)
           /\ \A j \in 1..Len(a) : (a \o b)[j] = a[j]
           /\ \A j \in 1..Len(b) : (a \o b)[Len(a)+j] = b[j]
<1>0. Len(a) \in Nat /\ Len(b) \in Nat
  BY LenProperties
<1>1. /\ a \o b \in Seq(S) /\ Len(a \o b) = Len(a) + Len(b)
      /\ \A j \in 1..Len(a) + Len(b) :
           (a \o b)[j] = IF j <= Len(a) THEN a[j] ELSE b[j - Len(a)]
  BY ConcatProperties
<1>2. ASSUME NEW j \in 1..Len(a) PROVE (a \o b)[j] = a[j]
  <2>1. j \in 1..Len(a)+Len(b) /\ j <= Len(a)
    BY <1>0
  <2> QED BY <2>1, <1>1
<1>3. ASSUME NEW j \in 1..Len(b) PROVE (a \o b)[Len(a)+j] = b[j]
  <2>1. Len(a)+j \in 1..Len(a)+Len(b) /\ ~(Len(a)+j <= Len(a)) /\ (Len(a)+j)-Len(a) = j
    BY <1>0
  <2> QED BY <2>1, <1>1
<1> QED BY <1>1, <1>2, <1>3

\* The same, for a name of the result.
LEMMA JoinedTo ==
    ASSUME NEW S, NEW a \in Seq(S), NEW b \in Seq(S), NEW c, c = a \o b
    PROVE  /\ c \in Seq(S) /\ Len(c) = Len(a) + Len(b)
           /\ \A j \in 1..Len(a) : c[j] = a[j]
           /\ \A j \in 1..Len(b) : c[Len(a)+j] = b[j]
BY Joined

-----------------------------------------------------------------------------
(* Queues of chunks *)

\* A new item behind a queue is counted next.
LEMMA NumberedOn ==
    ASSUME NEW q, NEW k \in Nat, NEW p \in Nat, NEW a \in Nat, Numbered(q, k, p, a),
           p + Ends(q, k) = a,
           NEW f, NEW n \in Nat, n >= 1, \A j \in 1..k : f[j] = q[j],
           ItemAt(f, k, n, a+1)
    PROVE  Numbered(f, k+n, p, a+1) /\ p + Ends(f, k+n) = a + 1
<1>2. /\ Ends(f, k+n) = Ends(f, k) + 1
      /\ \A j \in 1..n : f[k+j].last => Ends(f, k+j) = Ends(f, k) + 1
  BY EndsOfMore
<1>3. \A j \in 0..k : Ends(f, j) = Ends(q, j)
  BY EndsSame
<1>5. PICK e : e = Ends(q, k) /\ e \in Nat
  BY EndsStep
<1>6. Ends(f, k) = e /\ p + e = a
  BY <1>3, <1>5
<1>7. Ends(f, k+n) = e + 1
  BY <1>2, <1>6
<1>8. ASSUME NEW j \in 1..k+n PROVE f[j].item \in 1..a+1 /\ (f[j].last => f[j].item = p + Ends(f, j))
  <2>1. CASE j <= k
    <3>1. j \in 1..k /\ f[j] = q[j] /\ Ends(f, j) = Ends(q, j)
      BY <2>1, <1>3
    <3>2. q[j].item \in 1..a /\ (q[j].last => q[j].item = p + Ends(q, j))
      BY <3>1 DEF Numbered
    <3> QED BY <3>1, <3>2
  <2>2. CASE ~(j <= k)
    <3>1. PICK i \in 1..n : j = k + i
      <4>1. j - k \in 1..n /\ j = k + (j - k)
        BY <2>2
      <4> QED BY <4>1
    <3>2. f[j].item = a + 1
      BY <3>1 DEF ItemAt
    <3>3. f[j].last => Ends(f, j) = e + 1
      BY <3>1, <1>2, <1>6
    <3> QED BY <3>2, <3>3, <1>5, <1>6
  <2> QED BY <2>1, <2>2
<1>9. f[k+n].last
  BY DEF ItemAt
<1> QED BY <1>5, <1>6, <1>7, <1>8, <1>9 DEF Numbered

\* What is left of a queue is counted on from what is taken.
LEMMA NumberedCut ==
    ASSUME NEW q, NEW k \in Nat, NEW p \in Nat, NEW a \in Nat, Numbered(q, k, p, a),
           NEW n \in 0..k, NEW r, NEW l, l = k - n, \A j \in 1..l : r[j] = q[n+j]
    PROVE  /\ Numbered(r, l, p + Ends(q, n), a)
           /\ Ends(q, n) + Ends(r, l) = Ends(q, k)
<1>0. l \in Nat /\ n \in Nat /\ n + l = k
  OBVIOUS
<1>1. \A j \in 0..l : Ends(q, n+j) = Ends(q, n) + Ends(r, j)
  BY <1>0, EndsJoined
<1>2. ASSUME NEW j \in 1..l
      PROVE  r[j].item \in 1..a /\ (r[j].last => r[j].item = (p + Ends(q, n)) + Ends(r, j))
  <2>1. n + j \in 1..k /\ j \in 0..l /\ r[j] = q[n+j]
    BY <1>0
  <2>2. q[n+j].item \in 1..a /\ (q[n+j].last => q[n+j].item = p + Ends(q, n+j))
    BY <2>1 DEF Numbered
  <2>3. PICK x, y : x = Ends(q, n) /\ y = Ends(r, j) /\ x \in Nat /\ y \in Nat
    <3>1. Ends(q, n) \in Nat
      BY <1>0, EndsStep
    <3>2. j \in Nat
      BY <1>0
    <3>3. Ends(r, j) \in Nat
      BY <3>2, EndsStep
    <3> QED BY <3>1, <3>3
  <2>4. Ends(q, n+j) = x + y
    BY <2>1, <2>3, <1>1
  <2> QED BY <2>1, <2>2, <2>3, <2>4
<1>3. l > 0 => r[l].last
  <2>1. ASSUME l > 0 PROVE r[l].last
    <3>1. l \in 1..l /\ n + l = k /\ k > 0
      BY <2>1, <1>0
    <3>2. r[l] = q[n+l]
      BY <3>1
    <3> QED BY <3>1, <3>2 DEF Numbered
  <2> QED BY <2>1
<1>4. Ends(q, n) + Ends(r, l) = Ends(q, k)
  <2>1. l \in 0..l
    BY <1>0
  <2> QED BY <2>1, <1>0, <1>1
<1> QED BY <1>2, <1>3, <1>4 DEF Numbered

\* What is taken from the queue joins what is worked off.
LEMMA WorkedOffOn ==
    ASSUME NEW q, NEW k \in Nat, NEW p \in Nat, NEW a \in Nat, Numbered(q, k, p, a),
           NEW f, NEW l \in Nat, WorkedOff(f, l, p), NEW n \in 0..k,
           NEW g, \A j \in 1..l : g[j] = f[j], \A j \in 1..n : g[l+j] = q[j]
    PROVE  WorkedOff(g, l+n, p + Ends(q, n))
<1>1. PICK e : e = Ends(q, n) /\ e \in Nat
  <2>1. n \in Nat
    OBVIOUS
  <2> QED BY <2>1, EndsStep
<1>2. ASSUME NEW i \in 1..p+e PROVE \E j \in 1..l+n : g[j].item = i /\ g[j].last
  <2>1. CASE i <= p
    <3>1. PICK j \in 1..l : f[j].item = i /\ f[j].last
      BY <2>1 DEF WorkedOff, EndOf
    <3>2. j \in 1..l+n /\ g[j] = f[j]
      OBVIOUS
    <3> QED BY <3>1, <3>2
  <2>2. CASE ~(i <= p)
    <3>1. PICK m \in Nat : i = p + m /\ 1 <= m /\ m <= e
      <4>1. i - p \in Nat /\ i = p + (i - p) /\ 1 <= i - p /\ i - p <= e
        BY <2>2, <1>1
      <4> QED BY <4>1
    <3>2. PICK j \in 1..n : q[j].last /\ Ends(q, j) = m
      <4>1. n \in Nat
        OBVIOUS
      <4> QED BY <4>1, <3>1, <1>1, EndsHit
    <3>3. q[j].item = p + m
      <4>1. j \in 1..k
        OBVIOUS
      <4> QED BY <4>1, <3>2 DEF Numbered
    <3>4. l + j \in 1..l+n /\ g[l+j] = q[j]
      OBVIOUS
    <3> QED BY <3>1, <3>2, <3>3, <3>4
  <2> QED BY <2>1, <2>2
<1> QED BY <1>1, <1>2 DEF WorkedOff, EndOf

\* What is in the emulator stays there.
LEMMA EndOfKept ==
    ASSUME NEW f, NEW g, NEW k \in Nat, NEW l \in Nat, k <= l, \A j \in 1..k : g[j] = f[j]
    PROVE  \A i : EndOf(f, k, i) => EndOf(g, l, i)
<1>1. ASSUME NEW i, NEW j \in 1..k, f[j].item = i, f[j].last PROVE EndOf(g, l, i)
  <2>1. j \in 1..l /\ g[j] = f[j]
    OBVIOUS
  <2> QED BY <2>1, <1>1 DEF EndOf
<1> QED BY <1>1 DEF EndOf

\* A slice of the queue, and the emulator with it.
Sliced(q, f, n, a, r, g) ==
    /\ r \in Seq(Chunks) /\ Len(r) = Len(q) - n /\ \A j \in 1..Len(r) : r[j] = q[n+j]
    /\ g \in Seq(Chunks) /\ Len(g) = Len(f) + n
    /\ \A j \in 1..Len(f) : g[j] = f[j]
    /\ \A j \in 1..n : g[Len(f)+j] = q[j]
    /\ Items(a) = Ends(q, n)

\* SubSeq and \o do just that.
LEMMA QueueSliced ==
    ASSUME NEW q \in Seq(Chunks), NEW f \in Seq(Chunks), NEW n \in 0..Len(q),
           NEW a, a = SubSeq(q, 1, n), NEW r, r = SubSeq(q, n+1, Len(q)), NEW g, g = f \o a
    PROVE  Sliced(q, f, n, a, r, g)
<1>0. PICK k, l : k = Len(q) /\ l = Len(f) /\ k \in Nat /\ l \in Nat /\ n \in 0..k
  BY LenProperties
<1>1. a \in Seq(Chunks) /\ Len(a) = n /\ \A j \in 1..n : a[j] = q[j]
  <2>1. /\ n + 1 - 1 = n /\ 1 <= n + 1 /\ 1 \in Nat /\ n \in Nat /\ n <= k
        /\ \A j \in 1..n : 1+j-1 = j
    BY <1>0
  <2> QED BY <2>1, <1>0, PartOfQueue
<1>2. r \in Seq(Chunks) /\ Len(r) = k-n /\ \A j \in 1..k-n : r[j] = q[n+j]
  <2>1. /\ n+1 \in Nat /\ 1 <= n+1 /\ n+1 <= k+1 /\ k+1-(n+1) = k-n
        /\ \A j \in 1..k-n : (n+1)+j-1 = n+j
    BY <1>0
  <2> QED BY <2>1, <1>0, PartOfQueue
<1>3. /\ g \in Seq(Chunks) /\ Len(g) = l + n
      /\ \A j \in 1..l : g[j] = f[j]
      /\ \A j \in 1..n : g[l+j] = a[j]
  BY <1>0, <1>1, Joined
<1>4. Items(a) = Ends(q, n)
  <2>1. Ends(a, n) = Ends(q, n)
    <3>1. n \in Nat
      BY <1>0
    <3> QED BY <3>1, <1>1, EndsSame
  <2>2. Items(a) = Ends(a, n)
    BY <1>1 DEF Items, Ends
  <2> QED BY <2>1, <2>2
<1> QED BY <1>0, <1>1, <1>2, <1>3, <1>4 DEF Sliced

\* The chunks of one more item behind the queue.
Grown(q, g, n, i) ==
    /\ g \in Seq(Chunks) /\ Len(g) = Len(q) + n
    /\ \A j \in 1..Len(q) : g[j] = q[j]
    /\ ItemAt(g, Len(q), n, i)

\* ItemChunks and \o do just that.
LEMMA QueueGrown ==
    ASSUME NEW q \in Seq(Chunks), NEW i \in 1..MaxItems, NEW n \in Nat, n >= 1,
           NEW g, g = q \o ItemChunks(i, n)
    PROVE  Grown(q, g, n, i)
<1>1. PICK s : s = ItemChunks(i, n)
  OBVIOUS
<1>2. s = [j \in 1..n |-> [item |-> i, last |-> j = n]]
  BY <1>1 DEF ItemChunks
<1>3. s \in Seq(Chunks) /\ Len(s) = n
  <2>1. \A j \in 1..n : [item |-> i, last |-> j = n] \in Chunks
    BY DEF Chunks
  <2>2. s \in [1..n -> Chunks]
    BY <2>1, <1>2
  <2> QED BY <2>2, SeqDef, LenProperties
<1>4. \A j \in 1..n : s[j].item = i /\ (s[j].last <=> j = n)
  BY <1>2
<1>5. g = q \o s
  BY <1>1
<1>6. /\ g \in Seq(Chunks) /\ Len(g) = Len(q) + n
      /\ \A j \in 1..Len(q) : g[j] = q[j]
      /\ \A j \in 1..n : g[Len(q)+j] = s[j]
  <2>1. s \in Seq(Chunks)
    BY <1>3
  <2>2. /\ g \in Seq(Chunks) /\ Len(g) = Len(q) + Len(s)
        /\ \A j \in 1..Len(q) : g[j] = q[j]
        /\ \A j \in 1..Len(s) : g[Len(q)+j] = s[j]
    BY <2>1, <1>5, JoinedTo
  <2> QED BY <2>2, <1>3
<1> QED BY <1>4, <1>6 DEF ItemAt, Grown

-----------------------------------------------------------------------------
(* Backpressure *)

\* The calls of updateSubprocessStdoutFlow keep the reasons.
LEMMA FlowUpdated ==
    ASSUME FlowInv, up' = up, UpdateFlow, backpressured' \in BOOLEAN
    PROVE  paused' \in BOOLEAN /\ (up' => (paused' <=> (slow' # {} \/ backpressured')))
BY DEF FlowInv, UpdateFlow

\* A frame adds the sockets that refuse it to those that are waited for.
LEMMA FlowDataFrame ==
    ASSUME FlowInv, QueueInv, NEW n \in 1..MaxChunks, NEW refused \in SUBSET Socks,
           NEW failed \in SUBSET Socks, DataFrame(n, refused, failed)
    PROVE  FlowInv'
<1>1. /\ up /\ up' = up /\ disposed' = disposed /\ open' = open
      /\ queue' = queue \o ItemChunks(arrived', n) /\ queuedBytes' = queuedBytes + n
      /\ backpressured' = (backpressured \/ queuedBytes' >= HighWater)
      /\ attached' = [k \in Socks |-> IF k \in failed THEN None ELSE attached[k]]
      /\ slow' = (slow \cup refused) \ failed
      /\ listening' = listening \cup (refused \ slow)
      /\ full' = full \cup (refused \cap open)
      /\ refused \cup failed \subseteq {k \in Socks : attached[k] # None}
      /\ arrived < MaxItems /\ arrived' = arrived + 1
  BY DEF DataFrame, Outcome
<1>2. Len(queue') = Len(queue) + n /\ Len(queue) \in Nat
  <2>1. arrived' \in 1..MaxItems /\ n \in Nat /\ n >= 1 /\ queue \in Seq(Chunks)
    BY <1>1, BoundAssumption DEF QueueInv
  <2>2. PICK g : g = queue'
    OBVIOUS
  <2>3. Len(g) = Len(queue) + n
    BY <2>1, <2>2, <1>1, QueueGrown DEF Grown
  <2> QED BY <2>1, <2>2, <2>3, LenProperties
<1>3. backpressured' \in BOOLEAN
  BY <1>1
<1>4. paused' \in BOOLEAN /\ (up' => (paused' <=> (slow' # {} \/ backpressured')))
  <2>1. UpdateFlow
    BY DEF DataFrame
  <2> QED BY <2>1, <1>1, <1>3, FlowUpdated
<1>5. queuedBytes' = Len(queue') /\ (backpressured' => queuedBytes' > LowWater)
  BY <1>1, <1>2, WaterAssumption DEF FlowInv, BytesCounted, PausedForReason
<1>6. SlowAreAttached'
  BY <1>1 DEF FlowInv, SlowAreAttached
<1>7. attached' \in [Socks -> Calls \cup {None}]
  BY <1>1 DEF FlowInv
<1>8. slow' \subseteq Socks /\ full' \subseteq open' /\ listening' \subseteq Socks
  BY <1>1 DEF FlowInv
<1> QED BY <1>1, <1>3, <1>4, <1>5, <1>6, <1>7, <1>8 DEF FlowInv, BytesCounted, PausedForReason

\* A slice that brings the backlog down lets the subprocess go on.
LEMMA FlowSlice ==
    ASSUME FlowInv, QueueInv, NEW n \in 0..Len(queue), EmulatorSlice(n)
    PROVE  FlowInv'
<1>1. /\ up' = up /\ disposed' = disposed /\ attached' = attached /\ slow' = slow
      /\ listening' = listening /\ open' = open /\ full' = full
      /\ queue' = SubSeq(queue, n+1, Len(queue)) /\ queuedBytes' = queuedBytes - n
      /\ backpressured' = (backpressured /\ queuedBytes' > LowWater)
      /\ IF backpressured' # backpressured THEN UpdateFlow ELSE paused' = paused
  BY DEF EmulatorSlice, StillFull, Taken
<1>2. Len(queue') = Len(queue) - n /\ Len(queue) \in Nat
  <2>1. queue \in Seq(Chunks) /\ fed \in Seq(Chunks)
    BY DEF QueueInv
  <2>2. PICK r, a, g : r = queue' /\ a = SubSeq(queue, 1, n) /\ g = fed \o a
    OBVIOUS
  <2>3. Len(r) = Len(queue) - n
    BY <2>1, <2>2, <1>1, QueueSliced DEF Sliced
  <2> QED BY <2>1, <2>2, <2>3, LenProperties
<1>3. backpressured' \in BOOLEAN
  BY <1>1
<1>4. paused' \in BOOLEAN /\ (up' => (paused' <=> (slow' # {} \/ backpressured')))
  <2>1. CASE backpressured' # backpressured
    BY <2>1, <1>1, <1>3, FlowUpdated
  <2>2. CASE backpressured' = backpressured
    BY <2>2, <1>1 DEF FlowInv, PausedForReason
  <2> QED BY <2>1, <2>2
<1>5. queuedBytes' = Len(queue') /\ (backpressured' => queuedBytes' > LowWater)
  BY <1>1, <1>2 DEF FlowInv, BytesCounted
<1> QED BY <1>1, <1>3, <1>4, <1>5 DEF FlowInv, BytesCounted, PausedForReason, SlowAreAttached

\* What detaches a socket, or lets it no longer be waited for.
LEMMA FlowReleased ==
    ASSUME FlowInv, up' = up, disposed' = disposed, UpdateFlow,
           UNCHANGED <<queue, queuedBytes, backpressured>>,
           NEW k \in Socks, slow' = slow \ {k},
           attached' = attached \/ attached' = [attached EXCEPT ![k] = None],
           listening' \subseteq listening, open' \subseteq Socks, full' \subseteq open'
    PROVE  FlowInv'
<1>1. backpressured' \in BOOLEAN
  BY DEF FlowInv
<1>2. paused' \in BOOLEAN /\ (up' => (paused' <=> (slow' # {} \/ backpressured')))
  BY <1>1, FlowUpdated
<1>3. attached' \in [Socks -> Calls \cup {None}] /\ \A x \in Socks : x # k => attached'[x] = attached[x]
  BY DEF FlowInv
<1>4. SlowAreAttached'
  BY <1>3 DEF FlowInv, SlowAreAttached
<1> QED BY <1>1, <1>2, <1>3, <1>4 DEF FlowInv, BytesCounted, PausedForReason

\* Nothing else touches the reasons.
LEMMA FlowKept ==
    ASSUME FlowInv, UNCHANGED <<up, disposed, attached, flowVars, queue, queuedBytes, open, full>>
    PROVE  FlowInv'
BY DEF FlowInv, BytesCounted, PausedForReason, SlowAreAttached, flowVars

\* A socket that is attached again is not waited for any less.
LEMMA FlowAttach ==
    ASSUME FlowInv, NEW c \in Calls, NEW k \in Socks, Attach(c, k)
    PROVE  FlowInv'
<1>1. /\ attached' = [attached EXCEPT ![k] = c]
      /\ UNCHANGED <<up, disposed, slow, backpressured, paused, listening, queue, queuedBytes, open, full>>
  BY DEF Attach, flowVars
<1>2. /\ attached' \in [Socks -> Calls \cup {None}] /\ attached'[k] = c /\ c # None
      /\ \A x \in Socks : x # k => attached'[x] = attached[x]
  BY <1>1, NoneAssumption DEF FlowInv
<1> QED BY <1>1, <1>2 DEF FlowInv, BytesCounted, PausedForReason, SlowAreAttached

\* A reset leaves no reason, and nobody to pause.
LEMMA FlowReset ==
    ASSUME FlowInv, Reset,
           \/ SubprocessExit
           \/ Dispose
    PROVE  FlowInv'
<1>1. /\ up' = FALSE /\ paused' = FALSE /\ backpressured' = FALSE /\ queue' = <<>> /\ queuedBytes' = 0
      /\ open' = open /\ full' = full /\ listening' = listening
      /\ \/ disposed' = disposed /\ attached' = attached /\ slow' = slow
         \/ disposed' = TRUE /\ attached' = [k \in Socks |-> None] /\ slow' = {}
  BY DEF Reset, SubprocessExit, Dispose
<1>2. Len(<<>>) = 0
  BY EmptySeq
<1> QED BY <1>1, <1>2 DEF FlowInv, BytesCounted, PausedForReason, SlowAreAttached

\* Every step keeps the reasons.
LEMMA NextFlow ==
    ASSUME Inv, Next
    PROVE  FlowInv'
<1>0. FlowInv /\ QueueInv /\ CallInv
  BY DEF Inv
<1>1. ASSUME NEW n \in 1..MaxChunks, NEW refused \in SUBSET Socks, NEW failed \in SUBSET Socks,
             DataFrame(n, refused, failed)
      PROVE  FlowInv'
  BY <1>0, <1>1, FlowDataFrame
<1>2. ASSUME NEW n \in 0..Len(queue), EmulatorSlice(n) PROVE FlowInv'
  BY <1>0, <1>2, FlowSlice
<1>3. ASSUME EmulatorSliceDisposed \/ EmulatorParses PROVE FlowInv'
  BY <1>0, <1>3, FlowKept DEF EmulatorSliceDisposed, EmulatorParses, flowVars, queueVars
<1>4. ASSUME NEW c \in Calls, NEW k \in Socks, Attach(c, k) PROVE FlowInv'
  BY <1>0, <1>4, FlowAttach
<1>5. ASSUME NEW c \in Calls, AttachFlushTimeout(c) \/ AttachDone(c) PROVE FlowInv'
  BY <1>0, <1>5, FlowKept DEF AttachFlushTimeout, AttachDone, queueVars
<1>6. ASSUME NEW c \in Calls, AttachAborted(c) PROVE FlowInv'
  <2>1. /\ UNCHANGED <<up, disposed, listening, queue, queuedBytes, open, full>>
        /\ stage[c] \in {"boundary", "emulator"}
    BY <1>6 DEF AttachAborted, queueVars
  <2>2. CASE OwnAttachment(c)
    <3>1. csock[c] \in Socks
      BY <1>0, <2>1 DEF CallInv
    <3>2. DetachSocket(csock[c])
      BY <1>6, <2>2 DEF AttachAborted
    <3> QED BY <3>1, <3>2, <2>1, <1>0, FlowReleased DEF DetachSocket, WithoutSlow, FlowInv
  <2>3. CASE ~OwnAttachment(c)
    BY <1>0, <1>6, <2>1, <2>3, FlowKept DEF AttachAborted, flowVars
  <2> QED BY <2>2, <2>3
<1>7. ASSUME NEW k \in Socks, Detach(k) PROVE FlowInv'
  BY <1>0, <1>7, FlowReleased DEF Detach, DetachSocket, WithoutSlow, queueVars, FlowInv
<1>8. ASSUME NEW k \in Socks, SocketDrain(k) PROVE FlowInv'
  <2>1. /\ UNCHANGED <<up, disposed, attached, queue, queuedBytes, open>> /\ full' = full \ {k}
        /\ ClearBackpressure(k)
    BY <1>8 DEF SocketDrain, queueVars
  <2>2. CASE k \in listening
    BY <1>0, <2>1, <2>2, FlowReleased DEF ClearBackpressure, FlowInv
  <2>3. CASE k \notin listening
    BY <1>0, <2>1, <2>3 DEF ClearBackpressure, FlowInv, BytesCounted, PausedForReason, SlowAreAttached
  <2> QED BY <2>2, <2>3
<1>9. ASSUME NEW k \in Socks, SocketClose(k) PROVE FlowInv'
  <2>1. /\ UNCHANGED <<up, disposed, queue, queuedBytes>> /\ DetachSocket(k)
        /\ open' = open \ {k} /\ full' = full \ {k} /\ listening' = listening \ {k}
    BY <1>9 DEF SocketClose, queueVars
  <2> QED BY <1>0, <2>1, FlowReleased DEF DetachSocket, WithoutSlow, FlowInv
<1>10. ASSUME SubprocessExit \/ Dispose PROVE FlowInv'
  BY <1>0, <1>10, FlowReset DEF SubprocessExit, Dispose
<1> QED BY <1>1, <1>2, <1>3, <1>4, <1>5, <1>6, <1>7, <1>8, <1>9, <1>10 DEF Next


-----------------------------------------------------------------------------
(* Queue and emulator *)

\* A sequence is empty when it has no places.
LEMMA NoPlaces ==
    ASSUME NEW S, NEW q \in Seq(S)
    PROVE  Len(q) \in Nat /\ (q = <<>> <=> Len(q) = 0)
BY LenProperties, EmptySeq

\* A frame's item joins the queue, which has a slice coming.
LEMMA QueueDataFrame ==
    ASSUME FlowInv, QueueInv, NEW n \in 1..MaxChunks, NEW refused \in SUBSET Socks,
           NEW failed \in SUBSET Socks, DataFrame(n, refused, failed)
    PROVE  QueueInv'
<1>1. /\ up /\ up' /\ ~disposed /\ arrived < MaxItems /\ arrived' = arrived + 1
      /\ queue' = queue \o ItemChunks(arrived', n) /\ Schedule
      /\ UNCHANGED <<processed, fed, parsed, dropped>>
  BY DEF DataFrame, FlowInv, emulatorVars
<1>2. /\ queue \in Seq(Chunks) /\ fed \in Seq(Chunks) /\ arrived \in Nat /\ processed \in Nat
      /\ n \in Nat /\ n >= 1 /\ arrived + 1 \in 1..MaxItems
      /\ processed + Items(queue) = arrived
      /\ Numbered(queue, Len(queue), processed, arrived)
  BY <1>1, BoundAssumption DEF QueueInv
<1>3. PICK g, k, f, a : g = queue' /\ k = Len(queue) /\ k \in Nat /\ f = Len(fed) /\ f \in Nat /\ a = arrived
  BY <1>2, NoPlaces
<1>4. /\ g \in Seq(Chunks) /\ Len(g) = k + n
      /\ \A j \in 1..k : g[j] = queue[j]
      /\ ItemAt(g, k, n, a+1)
  <2>1. PICK i : i = a+1 /\ i \in 1..MaxItems
    BY <1>2, <1>3
  <2>2. g = queue \o ItemChunks(i, n)
    BY <2>1, <1>1, <1>3
  <2>3. Grown(queue, g, n, i)
    BY <2>1, <2>2, <1>2, QueueGrown
  <2> QED BY <2>1, <2>3, <1>3 DEF Grown
<1>5. Numbered(g, k+n, processed, a+1) /\ processed + Ends(g, k+n) = a+1
  <2>1. processed + Ends(queue, k) = a /\ Numbered(queue, k, processed, a)
    BY <1>2, <1>3 DEF Items, Ends
  <2>2. a \in Nat /\ processed \in Nat /\ n \in Nat /\ n >= 1 /\ k \in Nat
    BY <1>2, <1>3
  <2>3. ItemAt(g, k, n, a+1) /\ \A j \in 1..k : g[j] = queue[j]
    BY <1>4
  <2> QED BY <2>1, <2>2, <2>3, NumberedOn
<1>6. processed' + Items(queue') = arrived' /\ Numbered(queue', Len(queue'), processed', arrived')
  <2>1. Items(queue') = Ends(g, k+n)
    BY <1>3, <1>4 DEF Items, Ends
  <2> QED BY <2>1, <1>1, <1>3, <1>4, <1>5
<1>7. queue' # <<>> /\ queue' \in Seq(Chunks)
  BY <1>2, <1>3, <1>4, NoPlaces
<1>8. scheduled' = TRUE /\ immediates' = 1
  BY <1>1 DEF Schedule, AskForSlice, QueueInv
<1>9. \A j \in 1..f : fed[j].item \in 1..a+1
  <2>1. \A j \in 1..f : fed[j].item \in 1..a
    BY <1>3 DEF QueueInv
  <2> QED BY <2>1, <1>2, <1>3
<1>10. WorkedOff(fed, Len(fed), processed)
  BY <1>1 DEF QueueInv
<1>11. arrived' \in 0..MaxItems
  BY <1>1, <1>2
<1>12. processed' \in Nat /\ dropped' \in BOOLEAN /\ parsed' \in 0..Len(fed') /\ fed' \in Seq(Chunks)
  BY <1>1 DEF QueueInv
<1>13. \A j \in 1..Len(fed') : fed'[j].item \in 1..arrived'
  BY <1>9, <1>1, <1>3
<1>14. WorkedOff(fed', Len(fed'), processed')
  BY <1>10, <1>1
<1> QED BY <1>1, <1>6, <1>7, <1>8, <1>11, <1>12, <1>13, <1>14 DEF QueueInv

\* A slice takes from the queue what it gives to the emulator.
LEMMA QueueSlice ==
    ASSUME FlowInv, QueueInv, NEW n \in 0..Len(queue), EmulatorSlice(n)
    PROVE  /\ QueueInv'
           /\ Len(fed) \in Nat /\ Len(fed') \in Nat /\ Len(fed) <= Len(fed')
           /\ \A j \in 1..Len(fed) : fed'[j] = fed[j]
<1>1. /\ up' = up /\ immediates > 0
      /\ fed' = fed \o SubSeq(queue, 1, n) /\ queue' = SubSeq(queue, n + 1, Len(queue))
      /\ processed' = processed + Items(SubSeq(queue, 1, n))
      /\ scheduled' = (queue' # <<>>)
      /\ immediates' = IF queue' # <<>> THEN immediates ELSE immediates - 1
      /\ UNCHANGED <<parsed, arrived, dropped>>
  BY DEF EmulatorSlice
<1>2. /\ queue \in Seq(Chunks) /\ fed \in Seq(Chunks) /\ arrived \in Nat /\ processed \in Nat
      /\ Numbered(queue, Len(queue), processed, arrived)
  BY DEF QueueInv
<1>3. PICK g, r, k, l, a, p, s : /\ g = fed' /\ r = queue' /\ k = Len(queue) /\ k \in Nat
                              /\ l = Len(fed) /\ l \in Nat /\ a = arrived /\ p = processed
                              /\ s = SubSeq(queue, 1, n) /\ n \in 0..k
  BY <1>2, NoPlaces
<1>4. /\ r \in Seq(Chunks) /\ Len(r) = k - n /\ \A j \in 1..Len(r) : r[j] = queue[n+j]
      /\ g \in Seq(Chunks) /\ Len(g) = l + n
      /\ \A j \in 1..l : g[j] = fed[j]
      /\ \A j \in 1..n : g[l+j] = queue[j]
      /\ Items(s) = Ends(queue, n)
  <2>1. /\ queue \in Seq(Chunks) /\ fed \in Seq(Chunks)
        /\ s = SubSeq(queue, 1, n) /\ r = SubSeq(queue, n+1, Len(queue)) /\ g = fed \o s
    BY <1>1, <1>2, <1>3
  <2>2. Sliced(queue, fed, n, s, r, g)
    BY <2>1, QueueSliced
  <2> QED BY <2>2, <1>3 DEF Sliced
<1>5. PICK m : m = Len(r) /\ m \in Nat /\ m = k - n
  BY <1>4, <1>3
<1>6. PICK e : e = Ends(queue, n) /\ e \in Nat /\ processed' = p + e
  <2>1. n \in Nat
    BY <1>3
  <2>2. Ends(queue, n) \in Nat
    BY <2>1, EndsStep
  <2> QED BY <2>2, <1>1, <1>3, <1>4
<1>7. Numbered(r, m, p + e, a) /\ e + Ends(r, m) = Ends(queue, k)
  <2>1. p \in Nat /\ a \in Nat /\ Numbered(queue, k, p, a) /\ \A j \in 1..m : r[j] = queue[n+j]
    BY <1>2, <1>3, <1>4, <1>5
  <2>2. /\ k \in Nat /\ n \in 0..k /\ m = k - n
    BY <1>3, <1>5
  <2>3. /\ Numbered(r, m, p + Ends(queue, n), a)
        /\ Ends(queue, n) + Ends(r, m) = Ends(queue, k)
    BY <2>1, <2>2, NumberedCut
  <2> QED BY <2>3, <1>6
<1>8. Items(queue') = Ends(r, m) /\ Items(queue) = Ends(queue, k)
  BY <1>3, <1>5 DEF Items, Ends
<1>9. up => processed' + Items(queue') = arrived
  <2>1. up => p + Ends(queue, k) = a
    BY <1>8, <1>3 DEF QueueInv
  <2>2. PICK x : x = Ends(r, m) /\ x \in Nat
    BY <1>5, EndsStep
  <2> QED BY <2>1, <2>2, <1>2, <1>3, <1>6, <1>7, <1>8
<1>10. ASSUME NEW j \in 1..l+n PROVE g[j].item \in 1..a
  <2>1. CASE j <= l
    <3>1. j \in 1..l
      BY <2>1, <1>3
    <3>2. g[j] = fed[j] /\ fed[j].item \in 1..arrived
      BY <3>1, <1>3, <1>4 DEF QueueInv
    <3> QED BY <3>2, <1>3
  <2>2. CASE ~(j <= l)
    <3>1. PICK i \in 1..n : j = l + i
      <4>1. j - l \in 1..n /\ j = l + (j - l)
        BY <2>2, <1>3
      <4> QED BY <4>1
    <3>2. i \in 1..k /\ g[j] = queue[i]
      <4>1. \A x \in 1..n : g[l+x] = queue[x]
        BY <1>4
      <4>2. g[l+i] = queue[i]
        BY <4>1
      <4>3. i \in 1..k
        BY <1>3
      <4> QED BY <4>2, <4>3, <3>1
    <3>3. queue[i].item \in 1..arrived
      BY <3>2, <1>2, <1>3 DEF Numbered
    <3> QED BY <3>2, <3>3, <1>3
  <2> QED BY <2>1, <2>2
<1>11. up => WorkedOff(g, l+n, p+e)
  <2>1. ASSUME up PROVE WorkedOff(g, l+n, p+e)
    <3>1. WorkedOff(fed, l, p) /\ Numbered(queue, k, p, a) /\ p \in Nat /\ a \in Nat
      BY <2>1, <1>2, <1>3 DEF QueueInv
    <3>2. k \in Nat /\ l \in Nat /\ n \in 0..k
      BY <1>3
    <3>4. (\A j \in 1..l : g[j] = fed[j]) /\ (\A j \in 1..n : g[l+j] = queue[j])
      BY <1>4
    <3>3. WorkedOff(g, l+n, p + Ends(queue, n))
      BY <3>1, <3>2, <3>4, WorkedOffOn
    <3> QED BY <3>3, <1>6
  <2> QED BY <2>1
<1>12. l \in Nat /\ l+n \in Nat /\ l <= l+n
  BY <1>3
<1>13. \A i : EndOf(fed, l, i) => EndOf(g, l+n, i)
  BY <1>12, <1>4, EndOfKept
<1>14. ~up /\ ~dropped => WorkedOff(g, l+n, a)
  BY <1>13, <1>3 DEF QueueInv, WorkedOff
<1>15. ~up => queue' = <<>> /\ processed' = 0
  <2>1. ASSUME ~up PROVE queue' = <<>> /\ processed' = 0
    <3>1. queue = <<>> /\ processed = 0
      BY <2>1 DEF QueueInv
    <3>2. k = 0
      BY <3>1, <1>2, <1>3, NoPlaces
    <3>3. n = 0 /\ m = 0
      BY <3>2, <1>3, <1>5
    <3>4. Ends(queue, 0) = 0
      BY EndsStep
    <3>5. r = <<>>
      BY <3>3, <1>4, <1>5, NoPlaces
    <3> QED BY <3>1, <3>3, <3>4, <3>5, <1>3, <1>6
  <2> QED BY <2>1
<1>16. Len(fed') = l + n /\ Len(queue') = m
  BY <1>3, <1>4, <1>5
<1>17. parsed' \in 0..Len(fed')
  <2>1. parsed \in 0..l
    BY <1>3 DEF QueueInv
  <2> QED BY <2>1, <1>1, <1>12, <1>16
<1>18. /\ scheduled' \in BOOLEAN /\ (scheduled' <=> queue' # <<>>)
       /\ immediates' \in {0, 1} /\ (scheduled' => immediates' = 1)
       /\ (up' /\ ~scheduled' => immediates' = 0)
  <2>1. immediates = 1
    BY <1>1 DEF QueueInv
  <2>2. CASE queue' # <<>>
    <3>1. scheduled' = TRUE
      BY <2>2, <1>1, Zenon
    <3>2. immediates' = 1
      BY <2>1, <2>2, <1>1
    <3> QED BY <2>2, <3>1, <3>2
  <2>3. CASE queue' = <<>>
    <3>1. scheduled' = FALSE
      BY <2>3, <1>1, Zenon
    <3>2. immediates' = 0
      BY <2>1, <2>3, <1>1
    <3> QED BY <2>3, <3>1, <3>2
  <2> QED BY <2>2, <2>3
<1>19. /\ queue' \in Seq(Chunks) /\ fed' \in Seq(Chunks) /\ processed' \in Nat
       /\ arrived' \in 0..MaxItems /\ dropped' \in BOOLEAN
  <2>1. p + e \in Nat
    BY <1>2, <1>3, <1>6
  <2> QED BY <2>1, <1>1, <1>3, <1>4, <1>6 DEF QueueInv
<1>20. Numbered(queue', Len(queue'), processed', arrived')
  BY <1>1, <1>3, <1>6, <1>7, <1>16
<1>21. \A j \in 1..Len(fed') : fed'[j].item \in 1..arrived'
  BY <1>10, <1>1, <1>3, <1>16
<1>22. (up' => WorkedOff(fed', Len(fed'), processed')) /\ (~up' /\ ~dropped' => WorkedOff(fed', Len(fed'), arrived'))
  BY <1>11, <1>14, <1>1, <1>3, <1>6, <1>16
<1>23. QueueInv'
  BY <1>1, <1>9, <1>15, <1>17, <1>18, <1>19, <1>20, <1>21, <1>22 DEF QueueInv
<1> QED BY <1>23, <1>12, <1>16, <1>3, <1>4

\* Nothing else touches queue and emulator.
LEMMA QueueKept ==
    ASSUME QueueInv,
           UNCHANGED <<up, queue, scheduled, processed, immediates, fed, parsed, arrived, dropped>>
    PROVE  QueueInv'
BY DEF QueueInv, Numbered, WorkedOff, EndOf, Items, Ends

\* A reset leaves an empty queue, with what was in it lost.
LEMMA QueueReset ==
    ASSUME FlowInv, QueueInv, Reset, UNCHANGED <<parsed, arrived>>
    PROVE  QueueInv'
<1>1. /\ up' = FALSE /\ queue' = <<>> /\ scheduled' = FALSE /\ processed' = 0
      /\ dropped' = (dropped \/ queue # <<>>)
      /\ UNCHANGED <<immediates, fed, parsed, arrived>>
  BY DEF Reset
<1>2. queue' \in Seq(Chunks) /\ Len(queue') = 0
  BY <1>1, EmptySeq
<1>3. Numbered(queue', Len(queue'), processed', arrived')
  BY <1>2 DEF Numbered
<1>4. ASSUME ~dropped' PROVE WorkedOff(fed, Len(fed), arrived)
  <2>1. ~dropped /\ queue = <<>>
    BY <1>4, <1>1 DEF QueueInv
  <2>2. CASE up
    <3>1. Items(queue) = 0
      <4>1. Len(queue) = 0
        BY <2>1, EmptySeq
      <4>2. Items(queue) = Ends(queue, 0)
        BY <4>1 DEF Items, Ends
      <4> QED BY <4>2, EndsStep
    <3>2. processed = arrived
      BY <3>1, <2>2 DEF QueueInv
    <3> QED BY <3>2, <2>2 DEF QueueInv
  <2>3. CASE ~up
    BY <2>1, <2>3 DEF QueueInv
  <2> QED BY <2>2, <2>3 DEF FlowInv
<1>5. ~up' /\ ~dropped' => WorkedOff(fed', Len(fed'), arrived')
  BY <1>4, <1>1
<1>6. dropped' \in BOOLEAN
  BY <1>1 DEF QueueInv
<1> QED BY <1>1, <1>2, <1>3, <1>5, <1>6 DEF QueueInv

\* Every step keeps the queue numbered.
LEMMA NextQueue ==
    ASSUME Inv, Next
    PROVE  QueueInv'
<1>0. FlowInv /\ QueueInv
  BY DEF Inv
<1>1. ASSUME NEW n \in 1..MaxChunks, NEW refused \in SUBSET Socks, NEW failed \in SUBSET Socks,
             DataFrame(n, refused, failed)
      PROVE  QueueInv'
  BY <1>0, <1>1, QueueDataFrame
<1>2. ASSUME NEW n \in 0..Len(queue), EmulatorSlice(n) PROVE QueueInv'
  BY <1>0, <1>2, QueueSlice
<1>3. ASSUME EmulatorSliceDisposed PROVE QueueInv'
  <2>1. /\ UNCHANGED <<up, queue, scheduled, processed, fed, parsed, arrived, dropped>>
        /\ disposed /\ immediates > 0 /\ immediates' = immediates - 1
    BY <1>3 DEF EmulatorSliceDisposed, emulatorVars
  <2>2. ~up /\ ~scheduled /\ immediates' = 0
    BY <1>0, <2>1 DEF FlowInv, QueueInv
  <2> QED BY <1>0, <2>1, <2>2 DEF QueueInv, Numbered, WorkedOff, EndOf, Items, Ends
<1>4. ASSUME EmulatorParses PROVE QueueInv'
  <2>1. /\ UNCHANGED <<up, queue, scheduled, processed, immediates, fed, arrived, dropped>>
        /\ parsed < Len(fed) /\ parsed' = parsed + 1
    BY <1>4 DEF EmulatorParses, queueVars
  <2>2. parsed' \in 0..Len(fed')
    <3>1. Len(fed) \in Nat
      BY <1>0, NoPlaces DEF QueueInv
    <3>2. parsed \in 0..Len(fed)
      BY <1>0 DEF QueueInv
    <3> QED BY <3>1, <3>2, <2>1
  <2> QED BY <1>0, <2>1, <2>2 DEF QueueInv, Numbered, WorkedOff, EndOf, Items, Ends
<1>5. ASSUME NEW c \in Calls, NEW k \in Socks, Attach(c, k) PROVE QueueInv'
  <2>1. /\ UNCHANGED <<up, queue, processed, fed, parsed, arrived, dropped>>
        /\ UNCHANGED <<immediates, scheduled>> \/ (queue # <<>> /\ Schedule)
    BY <1>5 DEF Attach, emulatorVars
  <2>2. UNCHANGED <<immediates, scheduled>>
    BY <1>0, <2>1 DEF Schedule, QueueInv
  <2> QED BY <1>0, <2>1, <2>2, QueueKept
<1>6. ASSUME NEW c \in Calls, AttachFlushTimeout(c) \/ AttachDone(c) \/ AttachAborted(c) PROVE QueueInv'
  BY <1>0, <1>6, QueueKept
     DEF AttachFlushTimeout, AttachDone, AttachAborted, DetachSocket, queueVars, emulatorVars
<1>7. ASSUME NEW k \in Socks, Detach(k) \/ SocketDrain(k) \/ SocketClose(k) PROVE QueueInv'
  BY <1>0, <1>7, QueueKept DEF Detach, SocketDrain, SocketClose, queueVars, emulatorVars
<1>8. ASSUME SubprocessExit \/ Dispose PROVE QueueInv'
  BY <1>0, <1>8, QueueReset DEF SubprocessExit, Dispose
<1> QED BY <1>1, <1>2, <1>3, <1>4, <1>5, <1>6, <1>7, <1>8 DEF Next


-----------------------------------------------------------------------------
(* Calls of attach() *)

\* Who waits, waits for an item that is in the queue of a subprocess that is up.
LEMMA WaitsForQueue ==
    ASSUME QueueInv, CallInv, NEW c \in Calls, waiters[c] # NoWaiter
    PROVE  up /\ queue # <<>> /\ waiters[c] \in processed + 1 .. arrived
<1>1. /\ waiters[c] \in processed + 1 .. processed + Items(queue)
      /\ queue \in Seq(Chunks) /\ processed \in Nat
  BY DEF CallInv, QueueInv
<1>2. ASSUME queue = <<>> PROVE FALSE
  <2>1. Len(queue) = 0
    BY <1>2, EmptySeq
  <2>2. Items(queue) = Ends(queue, 0)
    BY <2>1 DEF Items, Ends
  <2>3. Items(queue) = 0
    BY <2>2, EndsStep
  <2> QED BY <1>1, <2>3
<1>3. up
  BY <1>2 DEF QueueInv
<1>4. processed + Items(queue) = arrived
  BY <1>3 DEF QueueInv
<1> QED BY <1>1, <1>2, <1>3, <1>4

\* With output queued a call waits for the last of it; without, all of it is in the emulator.
LEMMA BoundaryAhead ==
    ASSUME QueueInv
    PROVE  /\ queue # <<>> => Boundary = arrived /\ Boundary \in processed + 1 .. processed + Items(queue)
           /\ queue = <<>> /\ ~dropped => WorkedOff(fed, Len(fed), arrived)
<1>1. queue \in Seq(Chunks) /\ processed \in Nat /\ Len(queue) \in Nat
  BY NoPlaces DEF QueueInv
<1>2. Items(queue) = Ends(queue, Len(queue))
  BY DEF Items, Ends
<1>3. ASSUME queue # <<>>
      PROVE  Boundary = arrived /\ Boundary \in processed + 1 .. processed + Items(queue)
  <2>1. up /\ processed + Items(queue) = arrived /\ Numbered(queue, Len(queue), processed, arrived)
    BY <1>3 DEF QueueInv
  <2>2. Len(queue) > 0
    BY <1>3, <1>1, NoPlaces
  <2>3. queue[Len(queue)].last
    BY <2>1, <2>2 DEF Numbered
  <2>4. PICK k, e : k = Len(queue) /\ e = Ends(queue, k) /\ k \in Nat /\ e \in Nat
    BY <1>1, EndsStep
  <2>5. e >= 1
    <3>1. k \in 0..k
      BY <2>4
    <3>2. Ends(queue, k) >= 1
      BY <3>1, <2>2, <2>3, <2>4, EndsOfPart
    <3> QED BY <3>2, <2>4
  <2> QED BY <2>1, <2>4, <2>5, <1>1, <1>2 DEF Boundary
<1>4. ASSUME queue = <<>>, ~dropped PROVE WorkedOff(fed, Len(fed), arrived)
  <2>1. Items(queue) = 0
    <3>1. Len(queue) = 0
      BY <1>4, EmptySeq
    <3> QED BY <3>1, <1>2, EndsStep
  <2>2. CASE up
    <3>1. processed = arrived
      BY <2>1, <2>2, <1>1 DEF QueueInv
    <3> QED BY <3>1, <2>2 DEF QueueInv
  <2>3. CASE ~up
    BY <1>4, <2>3 DEF QueueInv
  <2> QED BY <2>2, <2>3
<1> QED BY <1>3, <1>4

\* Detaching and draining sockets, and the emulator's parsing, take no call any further.
LEMMA CallsKept ==
    ASSUME FlowInv, CallInv, PromiseInv,
           UNCHANGED <<stage, csock, reached, mark, snapshot, waiters, queue, processed, fed,
                       arrived, seen, dropped>>,
           \A k \in Socks : attached'[k] = attached[k] \/ attached'[k] = None
    PROVE  CallInv' /\ PromiseInv'
<1>1. Items(queue') = Items(queue) /\ Len(fed') = Len(fed)
  BY DEF Items
<1>2. CallInv'
  BY <1>1 DEF CallInv
<1>3. ASSUME NEW c \in Calls, stage[c] # "idle", attached'[csock[c]] = c PROVE attached[csock[c]] = c
  BY <1>3, NoneAssumption DEF CallInv
<1>4. \A i, m : EndOf(fed', m, i) = EndOf(fed, m, i)
  BY DEF EndOf
<1>5. PromiseInv'
  BY <1>3, <1>4 DEF PromiseInv
<1> QED BY <1>2, <1>5

\* A frame's item is sent to the calls that are attached.
LEMMA CallsDataFrame ==
    ASSUME FlowInv, QueueInv, CallInv, PromiseInv, QueueInv',
           NEW n \in 1..MaxChunks, NEW refused \in SUBSET Socks,
           NEW failed \in SUBSET Socks, DataFrame(n, refused, failed)
    PROVE  CallInv' /\ PromiseInv'
<1>1. /\ up /\ up' /\ arrived' = arrived + 1
      /\ attached' = [k \in Socks |-> IF k \in failed THEN None ELSE attached[k]]
      /\ seen' = [c \in Calls |-> IF \E k \in Socks \ failed : attached[k] = c
                                  THEN seen[c] \cup {arrived'} ELSE seen[c]]
      /\ UNCHANGED <<stage, csock, reached, mark, snapshot, waiters, processed, fed, dropped>>
  BY DEF DataFrame, callVars, emulatorVars
<1>2. arrived \in Nat /\ arrived \in 0..MaxItems
  BY DEF QueueInv
<1>3. \A c \in Calls : /\ seen'[c] \in SUBSET (1..arrived')
                       /\ seen[c] \subseteq seen'[c]
  <2>1. \A c \in Calls : seen[c] \in SUBSET (1..arrived)
    BY DEF CallInv
  <2>2. arrived' \in 1..arrived' /\ 1..arrived \subseteq 1..arrived'
    BY <1>1, <1>2
  <2> QED BY <2>1, <2>2, <1>1
<1>4. \A c \in Calls : waiters[c] # NoWaiter =>
          waiters[c] \in processed' + 1 .. processed' + Items(queue')
  <2>1. processed' + Items(queue') = arrived + 1
    BY <1>1 DEF QueueInv
  <2>2. ASSUME NEW c \in Calls, waiters[c] # NoWaiter PROVE waiters[c] \in processed + 1 .. arrived
    BY <2>2, WaitsForQueue
  <2>3. processed' = processed
    BY <1>1
  <2>4. processed + 1 .. arrived \subseteq processed' + 1 .. arrived + 1
    BY <2>3, <1>2 DEF QueueInv
  <2> QED BY <2>1, <2>2, <2>4
<1>5. \A k \in Socks : attached'[k] # None => attached'[k] = attached[k] /\ k \notin failed
  BY <1>1
<1>6. seen' \in [Calls -> SUBSET (1..arrived')]
  BY <1>1, <1>3
<1>7. CallInv'
  BY <1>1, <1>4, <1>5, <1>6 DEF CallInv
<1>8. ASSUME NEW c \in Calls, stage[c] # "idle", attached'[csock[c]] = c
      PROVE  attached[csock[c]] = c /\ arrived + 1 \in seen'[c]
  <2>1. csock[c] \in Socks /\ c # None
    BY <1>8, NoneAssumption DEF CallInv
  <2>2. attached[csock[c]] = c /\ csock[c] \notin failed
    BY <2>1, <1>5, <1>8
  <2>3. seen'[c] = seen[c] \cup {arrived'}
    BY <2>1, <2>2, <1>1
  <2> QED BY <2>2, <2>3, <1>1
<1>9. \A i, m : EndOf(fed', m, i) = EndOf(fed, m, i)
  BY <1>1 DEF EndOf
<1>10. ASSUME NEW c \in Calls, stage[c] # "idle", ~dropped, attached'[csock[c]] = c
       PROVE  /\ stage[c] = "boundary" => \A i \in 1..arrived' : i <= waiters[c] \/ i \in seen'[c]
              /\ stage[c] \in {"emulator", "done"} /\ reached[c] =>
                   \A i \in 1..arrived' : EndOf(fed, mark[c], i) \/ i \in seen'[c]
  <2>1. attached[csock[c]] = c /\ arrived + 1 \in seen'[c]
    BY <1>8, <1>10
  <2>2. \A i \in 1..arrived' : i \in 1..arrived \/ i = arrived + 1
    BY <1>1, <1>2
  <2>3. seen[c] \subseteq seen'[c]
    BY <1>3
  <2>4. /\ stage[c] = "boundary" => \A i \in 1..arrived : i <= waiters[c] \/ i \in seen[c]
        /\ stage[c] \in {"emulator", "done"} /\ reached[c] =>
             \A i \in 1..arrived : EndOf(fed, mark[c], i) \/ i \in seen[c]
    BY <1>10, <2>1 DEF PromiseInv
  <2> QED BY <2>1, <2>2, <2>3, <2>4
<1>11. PromiseInv'
  BY <1>1, <1>9, <1>10 DEF PromiseInv
<1> QED BY <1>7, <1>11

\* A slice lets the calls go on whose boundary it reaches, with what they wait for worked off.
LEMMA CallsSlice ==
    ASSUME FlowInv, QueueInv, CallInv, PromiseInv, QueueInv',
           NEW n \in 0..Len(queue), EmulatorSlice(n)
    PROVE  CallInv' /\ PromiseInv'
<1>0. PICK D : D = {c \in Waiting : processed' >= waiters[c]}
  OBVIOUS
<1>1. /\ up' = up /\ attached' = attached /\ csock' = csock /\ snapshot' = snapshot
      /\ arrived' = arrived /\ seen' = seen /\ dropped' = dropped
      /\ waiters' = [c \in Calls |-> IF c \in D THEN NoWaiter ELSE waiters[c]]
      /\ reached' = [c \in Calls |-> reached[c] \/ c \in D]
      /\ stage' = [c \in Calls |-> IF c \in D /\ stage[c] = "boundary"
                                   THEN "emulator" ELSE stage[c]]
      /\ mark' = [c \in Calls |-> IF c \in D /\ stage[c] = "boundary"
                                  THEN Len(fed') ELSE mark[c]]
  BY <1>0 DEF EmulatorSlice, Resolve
<1>2. PICK l, m : /\ l = Len(fed) /\ m = Len(fed') /\ l \in Nat /\ m \in Nat /\ l <= m
                  /\ \A j \in 1..l : fed'[j] = fed[j]
  BY QueueSlice
<1>3. /\ stage \in [Calls -> Stages] /\ csock \in [Calls -> Socks \cup {None}]
      /\ reached \in [Calls -> BOOLEAN] /\ waiters \in [Calls -> Nat]
      /\ mark \in [Calls -> 0..l] /\ snapshot \in [Calls -> 0..l]
      /\ seen \in [Calls -> SUBSET (1..arrived)]
  BY <1>2 DEF CallInv
<1>4. /\ stage' \in [Calls -> Stages] /\ reached' \in [Calls -> BOOLEAN]
      /\ waiters' \in [Calls -> Nat]
  BY <1>1, <1>3 DEF Stages, NoWaiter
<1>5. mark' \in [Calls -> 0..m] /\ snapshot' \in [Calls -> 0..m]
  <2>1. \A x \in 0..l : x \in 0..m
    BY <1>2
  <2>2. m \in 0..m /\ Len(fed') = m
    BY <1>2
  <2>3. snapshot' \in [Calls -> 0..m]
    BY <2>1, <1>1, <1>3
  <2>4. \A c \in Calls : mark[c] \in 0..m
    BY <2>1, <1>3
  <2> QED BY <2>2, <2>3, <2>4, <1>1
<1>6. \A c \in D : /\ c \in Calls /\ waiters[c] # NoWaiter /\ processed' >= waiters[c]
                   /\ stage[c] \in {"boundary", "canceled"} /\ up
  BY <1>0, WaitsForQueue DEF Waiting, CallInv
<1>7. ASSUME NEW c \in Calls, c \notin D
      PROVE  /\ stage'[c] = stage[c] /\ reached'[c] = reached[c] /\ waiters'[c] = waiters[c]
             /\ mark'[c] = mark[c]
  BY <1>1, <1>3, <1>7
<1>8. ASSUME NEW c \in D
      PROVE  /\ waiters'[c] = NoWaiter /\ reached'[c] = TRUE
             /\ \/ stage[c] = "boundary" /\ stage'[c] = "emulator" /\ mark'[c] = m
                \/ stage[c] = "canceled" /\ stage'[c] = "canceled" /\ mark'[c] = mark[c]
  BY <1>1, <1>2, <1>6
<1>9. \A k \in Socks : attached'[k] # None =>
          csock'[attached'[k]] = k /\ stage'[attached'[k]] # "idle"
  <2>1. ASSUME NEW k \in Socks, attached[k] # None
        PROVE  csock[attached[k]] = k /\ stage'[attached[k]] # "idle"
    <3>1. attached[k] \in Calls /\ csock[attached[k]] = k /\ stage[attached[k]] # "idle"
      BY <2>1 DEF CallInv, FlowInv
    <3> QED BY <3>1, <1>7, <1>8
  <2> QED BY <2>1, <1>1
<1>10. \A c \in Calls : /\ stage'[c] \in {"idle", "boundary"} => ~reached'[c]
                        /\ stage'[c] # "idle" => csock'[c] \in Socks
                        /\ stage'[c] = "done" => mark'[c] <= snapshot'[c]
                        /\ stage'[c] = "boundary" => waiters'[c] # NoWaiter
  BY <1>1, <1>7, <1>8 DEF CallInv
<1>11. ASSUME NEW c \in Calls, waiters'[c] # NoWaiter
       PROVE  /\ stage'[c] \in {"boundary", "canceled"}
              /\ waiters'[c] \in processed' + 1 .. processed' + Items(queue')
  <2>1. c \notin D
    BY <1>8, <1>11
  <2>2. waiters[c] # NoWaiter /\ waiters'[c] = waiters[c] /\ stage'[c] = stage[c]
    BY <2>1, <1>7, <1>11
  <2>3. up /\ waiters[c] \in processed + 1 .. arrived /\ stage[c] \in {"boundary", "canceled"}
    BY <2>2, WaitsForQueue DEF CallInv
  <2>4. ~(processed' >= waiters[c])
    BY <2>1, <2>2, <1>0 DEF Waiting
  <2>5. processed' + Items(queue') = arrived /\ processed' \in Nat /\ arrived \in Nat /\ processed \in Nat
    BY <2>3, <1>1 DEF QueueInv
  <2>6. waiters[c] \in processed' + 1 .. arrived
    BY <2>3, <2>4, <2>5
  <2> QED BY <2>2, <2>3, <2>5, <2>6
<1>12. CallInv'
  <2>1. seen' \in [Calls -> SUBSET (1..arrived')] /\ csock' \in [Calls -> Socks \cup {None}]
    BY <1>1, <1>3
  <2>2. mark' \in [Calls -> 0..Len(fed')] /\ snapshot' \in [Calls -> 0..Len(fed')]
    BY <1>2, <1>5
  <2> QED BY <2>1, <2>2, <1>4, <1>9, <1>10, <1>11 DEF CallInv
<1>13. ASSUME NEW c \in Calls, stage'[c] # "idle", ~dropped, attached[csock[c]] = c
       PROVE  /\ stage'[c] = "boundary" => \A i \in 1..arrived : i <= waiters'[c] \/ i \in seen[c]
              /\ stage'[c] \in {"emulator", "done"} /\ reached'[c] =>
                   \A i \in 1..arrived : EndOf(fed', mark'[c], i) \/ i \in seen[c]
  <2>1. CASE c \notin D
    <3>1. /\ stage'[c] = stage[c] /\ reached'[c] = reached[c] /\ waiters'[c] = waiters[c]
          /\ mark'[c] = mark[c]
      BY <2>1, <1>7
    <3>2. PICK k : k = mark[c] /\ k \in Nat /\ k <= k /\ \A j \in 1..k : fed'[j] = fed[j]
      <4>1. mark[c] \in 0..l
        BY <1>3
      <4>2. mark[c] \in Nat /\ mark[c] <= mark[c] /\ \A j \in 1..mark[c] : j \in 1..l
        BY <4>1, <1>2
      <4> QED BY <4>2, <1>2
    <3>3. \A i : EndOf(fed, k, i) => EndOf(fed', k, i)
      BY <3>2, EndOfKept
    <3> QED BY <3>1, <3>2, <3>3, <1>13 DEF PromiseInv
  <2>2. CASE c \in D /\ stage[c] = "boundary"
    <3>1. stage'[c] = "emulator" /\ mark'[c] = m /\ up /\ processed' >= waiters[c]
      BY <2>2, <1>6, <1>8
    <3>2. WorkedOff(fed', m, processed')
      BY <3>1, <1>1, <1>2 DEF QueueInv
    <3>3. \A i \in 1..arrived : i <= waiters[c] \/ i \in seen[c]
      BY <2>2, <1>13 DEF PromiseInv
    <3>4. \A i \in 1..arrived : i <= waiters[c] => i \in 1..processed'
      BY <3>1, <1>3 DEF QueueInv
    <3> QED BY <3>1, <3>2, <3>3, <3>4 DEF WorkedOff
  <2>3. CASE c \in D /\ stage[c] = "canceled"
    BY <2>3, <1>8
  <2> QED BY <2>1, <2>2, <2>3, <1>6
<1>14. PromiseInv'
  BY <1>1, <1>13 DEF PromiseInv
<1> QED BY <1>12, <1>14

\* A new call waits for the last item that is queued, or finds them all in the emulator.
LEMMA CallsAttach ==
    ASSUME FlowInv, QueueInv, CallInv, PromiseInv, NEW c \in Calls, NEW k \in Socks, Attach(c, k)
    PROVE  CallInv' /\ PromiseInv'
<1>1. /\ stage[c] = "idle" /\ attached' = [attached EXCEPT ![k] = c]
      /\ csock' = [csock EXCEPT ![c] = k]
      /\ UNCHANGED <<up, queue, processed, fed, arrived, seen, dropped, snapshot>>
      /\ \/ /\ queue = <<>>
            /\ stage' = [stage EXCEPT ![c] = "emulator"]
            /\ reached' = [reached EXCEPT ![c] = TRUE]
            /\ mark' = [mark EXCEPT ![c] = Len(fed)]
            /\ waiters' = waiters
         \/ /\ queue # <<>>
            /\ stage' = [stage EXCEPT ![c] = "boundary"]
            /\ waiters' = [waiters EXCEPT ![c] = Boundary]
            /\ UNCHANGED <<reached, mark>>
  BY DEF Attach, emulatorVars
<1>2. PICK l : l = Len(fed) /\ l \in Nat
  BY NoPlaces DEF QueueInv
<1>3. /\ stage \in [Calls -> Stages] /\ csock \in [Calls -> Socks \cup {None}]
      /\ reached \in [Calls -> BOOLEAN] /\ waiters \in [Calls -> Nat]
      /\ mark \in [Calls -> 0..l] /\ snapshot \in [Calls -> 0..l]
      /\ attached \in [Socks -> Calls \cup {None}]
  BY <1>2 DEF CallInv, FlowInv
<1>4. /\ Items(queue') = Items(queue) /\ processed' = processed /\ Len(fed') = l
      /\ \A i, m : EndOf(fed', m, i) = EndOf(fed, m, i)
  BY <1>1, <1>2 DEF Items, EndOf
<1>5. Boundary \in Nat
  <2>1. processed \in Nat
    BY DEF QueueInv
  <2>2. Items(queue) \in Nat
    <3>1. Len(queue) \in Nat /\ Items(queue) = Ends(queue, Len(queue))
      BY NoPlaces DEF QueueInv, Items, Ends
    <3> QED BY <3>1, EndsStep
  <2> QED BY <2>1, <2>2 DEF Boundary
<1>6. /\ csock' \in [Calls -> Socks \cup {None}] /\ stage' \in [Calls -> Stages]
      /\ reached' \in [Calls -> BOOLEAN] /\ waiters' \in [Calls -> Nat]
      /\ mark' \in [Calls -> 0..l] /\ snapshot' \in [Calls -> 0..l]
  <2>1. l \in 0..l
    BY <1>2
  <2>2. csock' \in [Calls -> Socks \cup {None}] /\ stage' \in [Calls -> Stages]
    BY <1>1, <1>3 DEF Stages
  <2>3. reached' \in [Calls -> BOOLEAN] /\ waiters' \in [Calls -> Nat]
    BY <1>1, <1>3, <1>5
  <2>4. mark' \in [Calls -> 0..l] /\ snapshot' \in [Calls -> 0..l]
    BY <2>1, <1>1, <1>2, <1>3
  <2> QED BY <2>2, <2>3, <2>4
<1>7. \A d \in Calls : d # c => /\ stage'[d] = stage[d] /\ csock'[d] = csock[d]
                                /\ reached'[d] = reached[d] /\ waiters'[d] = waiters[d]
                                /\ mark'[d] = mark[d]
  BY <1>1, <1>3
<1>8. csock'[c] = k /\ attached'[k] = c /\ \A x \in Socks : x # k => attached'[x] = attached[x]
  BY <1>1, <1>3
<1>9. /\ stage'[c] \in {"boundary", "emulator"} /\ waiters[c] = NoWaiter /\ ~reached[c]
      /\ \A x \in Socks : attached[x] # c
  <2>1. stage'[c] \in {"boundary", "emulator"}
    BY <1>1, <1>3
  <2>2. waiters[c] = NoWaiter /\ ~reached[c]
    BY <1>1 DEF CallInv
  <2>3. \A x \in Socks : attached[x] # c
    BY <1>1, NoneAssumption DEF CallInv
  <2> QED BY <2>1, <2>2, <2>3
<1>10. \A x \in Socks : attached'[x] # None =>
           csock'[attached'[x]] = x /\ stage'[attached'[x]] # "idle"
  <2> SUFFICES ASSUME NEW x \in Socks, attached'[x] # None
               PROVE  csock'[attached'[x]] = x /\ stage'[attached'[x]] # "idle"
    OBVIOUS
  <2>1. CASE x = k
    BY <2>1, <1>8, <1>9
  <2>2. CASE x # k
    <3>1. PICK d \in Calls : d = attached[x] /\ d = attached'[x] /\ d # c
      BY <2>2, <1>3, <1>8, <1>9
    <3>2. csock[d] = x /\ stage[d] # "idle"
      BY <3>1, NoneAssumption DEF CallInv
    <3> QED BY <3>1, <3>2, <1>7
  <2> QED BY <2>1, <2>2
<1>11. CASE queue = <<>>
  <2>1. stage'[c] = "emulator" /\ reached'[c] = TRUE /\ mark'[c] = l /\ waiters'[c] = NoWaiter
    BY <1>1, <1>2, <1>3, <1>9, <1>11
  <2>2. CallInv'
    <3>1. seen' \in [Calls -> SUBSET (1..arrived')]
      BY <1>1 DEF CallInv
    <3>2. \A d \in Calls : /\ stage'[d] \in {"idle", "boundary"} => ~reached'[d]
                           /\ stage'[d] # "idle" => csock'[d] \in Socks
                           /\ stage'[d] = "done" => mark'[d] <= snapshot'[d]
                           /\ stage'[d] = "boundary" => waiters'[d] # NoWaiter
      BY <2>1, <1>1, <1>7, <1>8 DEF CallInv
    <3>3. \A d \in Calls : waiters'[d] # NoWaiter =>
                /\ stage'[d] \in {"boundary", "canceled"}
                /\ waiters'[d] \in processed' + 1 .. processed' + Items(queue')
      BY <2>1, <1>4, <1>7 DEF CallInv
    <3> QED BY <3>1, <3>2, <3>3, <1>4, <1>6, <1>10 DEF CallInv
  <2>3. ~dropped => \A i \in 1..arrived : EndOf(fed, l, i)
    BY <1>2, <1>11, BoundaryAhead DEF WorkedOff
  <2>4. ASSUME NEW d \in Calls, stage'[d] # "idle", ~dropped, attached'[csock'[d]] = d
        PROVE  /\ stage'[d] = "boundary" => \A i \in 1..arrived : i <= waiters'[d] \/ i \in seen[d]
               /\ stage'[d] \in {"emulator", "done"} /\ reached'[d] =>
                    \A i \in 1..arrived : EndOf(fed, mark'[d], i) \/ i \in seen[d]
    <3>1. CASE d = c
      BY <3>1, <2>1, <2>3, <2>4
    <3>2. CASE d # c
      <4>1. /\ stage[d] = stage'[d] /\ csock[d] = csock'[d] /\ csock[d] \in Socks
            /\ reached'[d] = reached[d] /\ waiters'[d] = waiters[d] /\ mark'[d] = mark[d]
        BY <3>2, <1>7, <2>4 DEF CallInv
      <4>2. attached[csock[d]] = d
        BY <3>2, <4>1, <1>8, <2>4
      <4> QED BY <4>1, <4>2, <2>4 DEF PromiseInv
    <3> QED BY <3>1, <3>2
  <2>5. PromiseInv'
    BY <2>4, <1>1, <1>4 DEF PromiseInv
  <2> QED BY <2>2, <2>5
<1>12. CASE queue # <<>>
  <2>1. /\ stage'[c] = "boundary" /\ reached'[c] = reached[c] /\ waiters'[c] = Boundary
        /\ Boundary = arrived /\ Boundary \in processed + 1 .. processed + Items(queue)
    BY <1>1, <1>3, <1>12, BoundaryAhead
  <2>2. Boundary # NoWaiter
    BY <2>1 DEF NoWaiter, QueueInv
  <2>3. CallInv'
    <3>1. seen' \in [Calls -> SUBSET (1..arrived')]
      BY <1>1 DEF CallInv
    <3>2. \A d \in Calls : /\ stage'[d] \in {"idle", "boundary"} => ~reached'[d]
                           /\ stage'[d] # "idle" => csock'[d] \in Socks
                           /\ stage'[d] = "done" => mark'[d] <= snapshot'[d]
                           /\ stage'[d] = "boundary" => waiters'[d] # NoWaiter
      BY <2>1, <2>2, <1>1, <1>7, <1>8, <1>9 DEF CallInv
    <3>3. \A d \in Calls : waiters'[d] # NoWaiter =>
                /\ stage'[d] \in {"boundary", "canceled"}
                /\ waiters'[d] \in processed' + 1 .. processed' + Items(queue')
      BY <2>1, <1>4, <1>7 DEF CallInv
    <3> QED BY <3>1, <3>2, <3>3, <1>4, <1>6, <1>10 DEF CallInv
  <2>4. ASSUME NEW d \in Calls, stage'[d] # "idle", ~dropped, attached'[csock'[d]] = d
        PROVE  /\ stage'[d] = "boundary" => \A i \in 1..arrived : i <= waiters'[d] \/ i \in seen[d]
               /\ stage'[d] \in {"emulator", "done"} /\ reached'[d] =>
                    \A i \in 1..arrived : EndOf(fed, mark'[d], i) \/ i \in seen[d]
    <3>1. CASE d = c
      BY <3>1, <2>1, <2>4
    <3>2. CASE d # c
      <4>1. /\ stage[d] = stage'[d] /\ csock[d] = csock'[d] /\ csock[d] \in Socks
            /\ reached'[d] = reached[d] /\ waiters'[d] = waiters[d] /\ mark'[d] = mark[d]
        BY <3>2, <1>7, <2>4 DEF CallInv
      <4>2. attached[csock[d]] = d
        BY <3>2, <4>1, <1>8, <2>4
      <4> QED BY <4>1, <4>2, <2>4 DEF PromiseInv
    <3> QED BY <3>1, <3>2
  <2>5. PromiseInv'
    BY <2>4, <1>1, <1>4 DEF PromiseInv
  <2> QED BY <2>3, <2>5
<1> QED BY <1>11, <1>12

\* A call that timed out goes on without having reached its boundary: it is promised nothing.
LEMMA CallsFlushTimeout ==
    ASSUME FlowInv, QueueInv, CallInv, PromiseInv, NEW c \in Calls, AttachFlushTimeout(c)
    PROVE  CallInv' /\ PromiseInv'
<1>1. /\ waiters[c] # NoWaiter /\ waiters' = [waiters EXCEPT ![c] = NoWaiter]
      /\ \/ /\ stage[c] = "boundary"
            /\ stage' = [stage EXCEPT ![c] = "emulator"]
            /\ mark' = [mark EXCEPT ![c] = Len(fed)]
         \/ stage[c] # "boundary" /\ stage' = stage /\ mark' = mark
      /\ UNCHANGED <<attached, queue, processed, csock, reached, snapshot, fed, arrived, seen, dropped>>
  BY DEF AttachFlushTimeout, emulatorVars
<1>2. PICK l : l = Len(fed) /\ l \in Nat /\ l \in 0..l
  BY NoPlaces DEF QueueInv
<1>3. /\ stage \in [Calls -> Stages] /\ waiters \in [Calls -> Nat] /\ mark \in [Calls -> 0..l]
      /\ stage[c] \in {"boundary", "canceled"}
  BY <1>1, <1>2 DEF CallInv
<1>4. /\ Items(queue') = Items(queue) /\ Len(fed') = l
      /\ \A i, m : EndOf(fed', m, i) = EndOf(fed, m, i)
  BY <1>1, <1>2 DEF Items, EndOf
<1>5. stage' \in [Calls -> Stages] /\ waiters' \in [Calls -> Nat] /\ mark' \in [Calls -> 0..l]
  <2>1. stage' \in [Calls -> Stages]
    BY <1>1, <1>3 DEF Stages
  <2>2. waiters' \in [Calls -> Nat]
    BY <1>1, <1>3 DEF NoWaiter
  <2>3. mark' \in [Calls -> 0..l]
    BY <1>1, <1>2, <1>3
  <2> QED BY <2>1, <2>2, <2>3
<1>6. \A d \in Calls : d # c => stage'[d] = stage[d] /\ waiters'[d] = waiters[d] /\ mark'[d] = mark[d]
  BY <1>1, <1>3
<1>7. /\ waiters'[c] = NoWaiter
      /\ \/ stage[c] = "boundary" /\ stage'[c] = "emulator" /\ ~reached[c]
         \/ stage[c] = "canceled" /\ stage'[c] = "canceled"
  BY <1>1, <1>3 DEF CallInv
<1>8. CallInv'
  <2>1. \A d \in Calls : /\ stage'[d] \in {"idle", "boundary"} => ~reached[d]
                         /\ stage'[d] # "idle" => csock[d] \in Socks
                         /\ stage'[d] = "done" => mark'[d] <= snapshot[d]
                         /\ stage'[d] = "boundary" => waiters'[d] # NoWaiter
    BY <1>6, <1>7 DEF CallInv
  <2>2. \A d \in Calls : waiters'[d] # NoWaiter =>
              /\ stage'[d] \in {"boundary", "canceled"}
              /\ waiters'[d] \in processed + 1 .. processed + Items(queue)
    BY <1>6, <1>7 DEF CallInv
  <2>3. \A k \in Socks : attached[k] # None =>
            csock[attached[k]] = k /\ stage'[attached[k]] # "idle"
    <3>1. ASSUME NEW k \in Socks, attached[k] # None
          PROVE  csock[attached[k]] = k /\ stage'[attached[k]] # "idle"
      <4>1. attached[k] \in Calls /\ csock[attached[k]] = k /\ stage[attached[k]] # "idle"
        BY <3>1 DEF CallInv, FlowInv
      <4> QED BY <4>1, <1>6, <1>7
    <3> QED BY <3>1
  <2> QED BY <2>1, <2>2, <2>3, <1>1, <1>2, <1>4, <1>5 DEF CallInv
<1>9. PromiseInv'
  <2>1. \A d \in Calls : stage'[d] # "idle" /\ ~dropped /\ attached[csock[d]] = d =>
          /\ stage'[d] = "boundary" => \A i \in 1..arrived : i <= waiters'[d] \/ i \in seen[d]
          /\ stage'[d] \in {"emulator", "done"} /\ reached[d] =>
               \A i \in 1..arrived : EndOf(fed, mark'[d], i) \/ i \in seen[d]
    BY <1>6, <1>7 DEF PromiseInv
  <2> QED BY <2>1, <1>1, <1>4 DEF PromiseInv
<1> QED BY <1>8, <1>9

\* The snapshot holds what the call waited for.
LEMMA CallsDone ==
    ASSUME FlowInv, QueueInv, CallInv, PromiseInv, NEW c \in Calls, AttachDone(c)
    PROVE  CallInv' /\ PromiseInv'
<1>1. /\ stage[c] = "emulator" /\ parsed >= mark[c]
      /\ stage' = [stage EXCEPT ![c] = "done"]
      /\ snapshot' = [snapshot EXCEPT ![c] = parsed]
      /\ UNCHANGED <<attached, queue, processed, waiters, csock, reached, mark, fed, arrived, seen, dropped>>
  BY DEF AttachDone, emulatorVars, queueVars
<1>2. PICK l : l = Len(fed) /\ l \in Nat /\ parsed \in 0..l
  BY NoPlaces DEF QueueInv
<1>3. stage \in [Calls -> Stages] /\ snapshot \in [Calls -> 0..l]
  BY <1>2 DEF CallInv
<1>4. /\ Items(queue') = Items(queue) /\ Len(fed') = l
      /\ \A i, m : EndOf(fed', m, i) = EndOf(fed, m, i)
  BY <1>1, <1>2 DEF Items, EndOf
<1>5. stage' \in [Calls -> Stages] /\ snapshot' \in [Calls -> 0..l]
  BY <1>1, <1>2, <1>3 DEF Stages
<1>6. \A d \in Calls : d # c => stage'[d] = stage[d] /\ snapshot'[d] = snapshot[d]
  BY <1>1, <1>3
<1>7. /\ stage'[c] = "done" /\ snapshot'[c] >= mark[c] /\ waiters[c] = NoWaiter
      /\ csock[c] \in Socks
  BY <1>1, <1>3 DEF CallInv
<1>8. CallInv'
  <2>1. \A d \in Calls : /\ stage'[d] \in {"idle", "boundary"} => ~reached[d]
                         /\ stage'[d] # "idle" => csock[d] \in Socks
                         /\ stage'[d] = "boundary" => waiters[d] # NoWaiter
    BY <1>6, <1>7 DEF CallInv
  <2>2. \A d \in Calls : waiters[d] # NoWaiter =>
              /\ stage'[d] \in {"boundary", "canceled"}
              /\ waiters[d] \in processed + 1 .. processed + Items(queue)
    BY <1>6, <1>7 DEF CallInv
  <2>3. \A k \in Socks : attached[k] # None =>
            csock[attached[k]] = k /\ stage'[attached[k]] # "idle"
    <3>1. ASSUME NEW k \in Socks, attached[k] # None
          PROVE  csock[attached[k]] = k /\ stage'[attached[k]] # "idle"
      <4>1. attached[k] \in Calls /\ csock[attached[k]] = k /\ stage[attached[k]] # "idle"
        BY <3>1 DEF CallInv, FlowInv
      <4> QED BY <4>1, <1>6, <1>7
    <3> QED BY <3>1
  <2>4. \A d \in Calls : stage'[d] = "done" => mark[d] <= snapshot'[d]
    <3>1. \A d \in Calls : d # c /\ stage'[d] = "done" => mark[d] <= snapshot'[d]
      BY <1>6 DEF CallInv
    <3>2. mark[c] \in 0..l
      BY <1>2 DEF CallInv
    <3>3. mark[c] <= snapshot'[c]
      BY <3>2, <1>2, <1>5, <1>7
    <3> QED BY <3>1, <3>3
  <2> QED BY <2>1, <2>2, <2>3, <2>4, <1>1, <1>2, <1>4, <1>5 DEF CallInv
<1>9. PromiseInv'
  <2>1. \A d \in Calls : stage'[d] # "idle" /\ ~dropped /\ attached[csock[d]] = d =>
          /\ stage'[d] = "boundary" => \A i \in 1..arrived : i <= waiters[d] \/ i \in seen[d]
          /\ stage'[d] \in {"emulator", "done"} /\ reached[d] =>
               \A i \in 1..arrived : EndOf(fed, mark[d], i) \/ i \in seen[d]
    BY <1>1, <1>6, <1>7 DEF PromiseInv
  <2> QED BY <2>1, <1>1, <1>4 DEF PromiseInv
<1> QED BY <1>8, <1>9

\* An aborted call is promised nothing any more.
LEMMA CallsAborted ==
    ASSUME FlowInv, QueueInv, CallInv, PromiseInv, NEW c \in Calls, AttachAborted(c)
    PROVE  CallInv' /\ PromiseInv'
<1>1. /\ stage[c] \in {"boundary", "emulator"}
      /\ stage' = [stage EXCEPT ![c] = "canceled"]
      /\ attached' = attached \/ attached' = [attached EXCEPT ![csock[c]] = None]
      /\ UNCHANGED <<queue, processed, waiters, csock, reached, mark, snapshot, fed, arrived, seen, dropped>>
  BY DEF AttachAborted, DetachSocket, emulatorVars, queueVars
<1>2. PICK l : l = Len(fed) /\ l \in Nat
  BY NoPlaces DEF QueueInv
<1>3. stage \in [Calls -> Stages] /\ csock[c] \in Socks /\ attached \in [Socks -> Calls \cup {None}]
  BY <1>1 DEF CallInv, FlowInv
<1>4. /\ Items(queue') = Items(queue) /\ Len(fed') = Len(fed)
      /\ \A i, m : EndOf(fed', m, i) = EndOf(fed, m, i)
  BY <1>1, <1>2 DEF Items, EndOf
<1>5. stage' \in [Calls -> Stages]
  BY <1>1, <1>3 DEF Stages
<1>6. stage'[c] = "canceled" /\ \A d \in Calls : d # c => stage'[d] = stage[d]
  BY <1>1, <1>3
<1>7. \A k \in Socks : attached'[k] = attached[k] \/ attached'[k] = None
  BY <1>1, <1>3
<1>8. CallInv'
  <2>1. \A d \in Calls : /\ stage'[d] \in {"idle", "boundary"} => ~reached[d]
                         /\ stage'[d] # "idle" => csock[d] \in Socks
                         /\ stage'[d] = "done" => mark[d] <= snapshot[d]
                         /\ stage'[d] = "boundary" => waiters[d] # NoWaiter
    BY <1>3, <1>6 DEF CallInv
  <2>2. \A d \in Calls : waiters[d] # NoWaiter =>
              /\ stage'[d] \in {"boundary", "canceled"}
              /\ waiters[d] \in processed + 1 .. processed + Items(queue)
    BY <1>6 DEF CallInv
  <2>3. \A k \in Socks : attached'[k] # None =>
            csock[attached'[k]] = k /\ stage'[attached'[k]] # "idle"
    <3>1. ASSUME NEW k \in Socks, attached'[k] # None
          PROVE  csock[attached'[k]] = k /\ stage'[attached'[k]] # "idle"
      <4>1. attached'[k] = attached[k]
        BY <3>1, <1>7
      <4>2. attached[k] \in Calls /\ csock[attached[k]] = k /\ stage[attached[k]] # "idle"
        BY <3>1, <4>1 DEF CallInv, FlowInv
      <4> QED BY <4>1, <4>2, <1>6
    <3> QED BY <3>1
  <2> QED BY <2>1, <2>2, <2>3, <1>1, <1>4, <1>5 DEF CallInv
<1>9. PromiseInv'
  <2>1. ASSUME NEW d \in Calls, stage'[d] # "idle", ~dropped, attached'[csock[d]] = d
        PROVE  /\ stage'[d] = "boundary" => \A i \in 1..arrived : i <= waiters[d] \/ i \in seen[d]
               /\ stage'[d] \in {"emulator", "done"} /\ reached[d] =>
                    \A i \in 1..arrived : EndOf(fed, mark[d], i) \/ i \in seen[d]
    <3>1. CASE d = c
      BY <3>1, <1>6
    <3>2. CASE d # c
      <4>1. stage'[d] = stage[d] /\ csock[d] \in Socks /\ d # None
        BY <3>2, <1>6, <2>1, NoneAssumption DEF CallInv
      <4>2. attached[csock[d]] = d
        BY <4>1, <1>7, <2>1
      <4> QED BY <4>1, <4>2, <2>1 DEF PromiseInv
    <3> QED BY <3>1, <3>2
  <2> QED BY <2>1, <1>1, <1>4 DEF PromiseInv
<1> QED BY <1>8, <1>9

\* A reset lets all calls go on; with nothing dropped nobody was waiting.
LEMMA CallsReset ==
    ASSUME FlowInv, QueueInv, CallInv, PromiseInv, Reset,
           UNCHANGED <<csock, snapshot, parsed, arrived, seen>>,
           attached' = attached \/ attached' = [k \in Socks |-> None]
    PROVE  CallInv' /\ PromiseInv'
<1>1. /\ queue' = <<>> /\ processed' = 0 /\ fed' = fed
      /\ dropped' = (dropped \/ queue # <<>>)
      /\ waiters' = [c \in Calls |-> IF c \in Waiting THEN NoWaiter ELSE waiters[c]]
      /\ reached' = [c \in Calls |-> reached[c] \/ c \in Waiting]
      /\ stage' = [c \in Calls |-> IF c \in Waiting /\ stage[c] = "boundary"
                                   THEN "emulator" ELSE stage[c]]
      /\ mark' = [c \in Calls |-> IF c \in Waiting /\ stage[c] = "boundary"
                                  THEN Len(fed') ELSE mark[c]]
  BY DEF Reset, Resolve
<1>2. PICK l : l = Len(fed) /\ l = Len(fed') /\ l \in Nat /\ l \in 0..l
  BY <1>1, NoPlaces DEF QueueInv
<1>3. /\ stage \in [Calls -> Stages] /\ reached \in [Calls -> BOOLEAN]
      /\ waiters \in [Calls -> Nat] /\ mark \in [Calls -> 0..l]
  BY <1>2 DEF CallInv
<1>4. /\ stage' \in [Calls -> Stages] /\ reached' \in [Calls -> BOOLEAN]
      /\ waiters' \in [Calls -> Nat]
  BY <1>1, <1>3 DEF Stages, NoWaiter
<1>5. mark' \in [Calls -> 0..l]
  BY <1>1, <1>2, <1>3
<1>6. \A c \in Calls : waiters'[c] = NoWaiter
  BY <1>1 DEF Waiting
<1>7. ASSUME NEW c \in Calls, waiters[c] = NoWaiter
      PROVE  stage'[c] = stage[c] /\ reached'[c] = reached[c] /\ mark'[c] = mark[c]
  BY <1>1, <1>3, <1>7 DEF Waiting
<1>8. ASSUME NEW c \in Calls, waiters[c] # NoWaiter
      PROVE  \/ stage[c] = "boundary" /\ stage'[c] = "emulator"
             \/ stage[c] = "canceled" /\ stage'[c] = "canceled"
  BY <1>1, <1>8 DEF Waiting, CallInv
<1>9. CallInv'
  <2>1. \A c \in Calls : /\ stage'[c] \in {"idle", "boundary"} => ~reached'[c]
                         /\ stage'[c] # "idle" => csock[c] \in Socks
                         /\ stage'[c] = "done" => mark'[c] <= snapshot[c]
                         /\ stage'[c] # "boundary"
    BY <1>7, <1>8 DEF CallInv
  <2>2. \A k \in Socks : attached'[k] # None =>
            csock[attached'[k]] = k /\ stage'[attached'[k]] # "idle"
    <3>1. ASSUME NEW k \in Socks, attached'[k] # None
          PROVE  csock[attached'[k]] = k /\ stage'[attached'[k]] # "idle"
      <4>1. attached'[k] = attached[k]
        BY <3>1
      <4>2. attached[k] \in Calls /\ csock[attached[k]] = k /\ stage[attached[k]] # "idle"
        BY <3>1, <4>1 DEF CallInv, FlowInv
      <4> QED BY <4>1, <4>2, <1>7, <1>8
    <3> QED BY <3>1
  <2>3. seen' \in [Calls -> SUBSET (1..arrived')] /\ csock' \in [Calls -> Socks \cup {None}]
    BY DEF CallInv
  <2>4. mark' \in [Calls -> 0..Len(fed')] /\ snapshot' \in [Calls -> 0..Len(fed')]
    BY <1>2, <1>5 DEF CallInv
  <2> QED BY <2>1, <2>2, <2>3, <2>4, <1>4, <1>6 DEF CallInv
<1>10. ASSUME NEW c \in Calls, stage'[c] # "idle", ~dropped', attached'[csock[c]] = c
       PROVE  /\ stage'[c] = "boundary" => \A i \in 1..arrived : i <= waiters'[c] \/ i \in seen[c]
              /\ stage'[c] \in {"emulator", "done"} /\ reached'[c] =>
                   \A i \in 1..arrived : EndOf(fed, mark'[c], i) \/ i \in seen[c]
  <2>1. ~dropped /\ queue = <<>>
    BY <1>1, <1>10
  <2>2. waiters[c] = NoWaiter
    BY <2>1, WaitsForQueue
  <2>3. stage'[c] = stage[c] /\ reached'[c] = reached[c] /\ mark'[c] = mark[c]
    BY <2>2, <1>7
  <2>4. stage'[c] # "boundary"
    BY <2>2, <2>3 DEF CallInv
  <2>5. csock[c] \in Socks /\ c # None
    BY <2>3, <1>10, NoneAssumption DEF CallInv
  <2>6. attached[csock[c]] = c
    BY <2>5, <1>10
  <2> QED BY <2>1, <2>3, <2>4, <2>6, <1>10 DEF PromiseInv
<1>11. \A i, m : EndOf(fed', m, i) = EndOf(fed, m, i)
  BY <1>1 DEF EndOf
<1>12. PromiseInv'
  BY <1>10, <1>11 DEF PromiseInv
<1> QED BY <1>9, <1>12

\* Every step keeps what the calls are promised.
LEMMA NextCalls ==
    ASSUME Inv, Next, QueueInv'
    PROVE  CallInv' /\ PromiseInv'
<1>0. FlowInv /\ QueueInv /\ CallInv /\ PromiseInv
  BY DEF Inv
<1>1. ASSUME NEW n \in 1..MaxChunks, NEW refused \in SUBSET Socks, NEW failed \in SUBSET Socks,
             DataFrame(n, refused, failed)
      PROVE  CallInv' /\ PromiseInv'
  BY <1>0, <1>1, CallsDataFrame
<1>2. ASSUME NEW n \in 0..Len(queue), EmulatorSlice(n) PROVE CallInv' /\ PromiseInv'
  BY <1>0, <1>2, CallsSlice
<1>3. ASSUME EmulatorSliceDisposed \/ EmulatorParses PROVE CallInv' /\ PromiseInv'
  BY <1>0, <1>3, CallsKept DEF EmulatorSliceDisposed, EmulatorParses, callVars, queueVars, emulatorVars
<1>4. ASSUME NEW c \in Calls, NEW k \in Socks, Attach(c, k) PROVE CallInv' /\ PromiseInv'
  BY <1>0, <1>4, CallsAttach
<1>5. ASSUME NEW c \in Calls, AttachFlushTimeout(c) \/ AttachDone(c) \/ AttachAborted(c)
      PROVE  CallInv' /\ PromiseInv'
  BY <1>0, <1>5, CallsFlushTimeout, CallsDone, CallsAborted
<1>6. ASSUME NEW k \in Socks, Detach(k) \/ SocketDrain(k) \/ SocketClose(k)
      PROVE  CallInv' /\ PromiseInv'
  <2>1. /\ UNCHANGED <<stage, csock, reached, mark, snapshot, waiters, queue, processed, fed,
                       arrived, seen, dropped>>
        /\ attached' = attached \/ attached' = [attached EXCEPT ![k] = None]
    BY <1>6 DEF Detach, SocketDrain, SocketClose, DetachSocket, callVars, queueVars, emulatorVars
  <2>2. \A x \in Socks : attached'[x] = attached[x] \/ attached'[x] = None
    BY <1>0, <2>1 DEF FlowInv
  <2> QED BY <1>0, <2>1, <2>2, CallsKept
<1>7. ASSUME SubprocessExit \/ Dispose PROVE CallInv' /\ PromiseInv'
  BY <1>0, <1>7, CallsReset DEF SubprocessExit, Dispose
<1> QED BY <1>1, <1>2, <1>3, <1>4, <1>5, <1>6, <1>7 DEF Next


-----------------------------------------------------------------------------
(* Theorems *)

\* At first nothing is queued and nobody is attached.
LEMMA InitInv ==
    ASSUME Init
    PROVE  Inv
<1>0. Len(<<>>) = 0 /\ <<>> \in Seq(Chunks)
  BY EmptySeq
<1>1. FlowInv
  BY <1>0 DEF Init, FlowInv, BytesCounted, PausedForReason, SlowAreAttached
<1>2. Items(queue) = 0
  <2>1. Items(queue) = Ends(queue, 0)
    BY <1>0 DEF Init, Items, Ends
  <2> QED BY <2>1, EndsStep
<1>3. QueueInv
  <2>1. /\ queue = <<>> /\ fed = <<>> /\ arrived = 0 /\ processed = 0 /\ parsed = 0
        /\ scheduled = FALSE /\ immediates = 0 /\ up = TRUE /\ dropped = FALSE
    BY DEF Init
  <2>2. Numbered(queue, Len(queue), processed, arrived) /\ WorkedOff(fed, Len(fed), processed)
    BY <1>0, <2>1 DEF Numbered, WorkedOff
  <2>3. parsed \in 0..Len(fed) /\ arrived \in 0..MaxItems /\ processed + Items(queue) = arrived
    BY <1>0, <1>2, <2>1, BoundAssumption
  <2>4. /\ scheduled \in BOOLEAN /\ (scheduled <=> queue # <<>>)
        /\ immediates \in {0, 1} /\ (scheduled => immediates = 1)
        /\ (up /\ ~scheduled => immediates = 0)
    BY <2>1
  <2>5. \A j \in 1..Len(fed) : fed[j].item \in 1..arrived
    <3>1. Len(fed) = 0
      BY <1>0, <2>1
    <3> QED BY <3>1
  <2>6. queue \in Seq(Chunks) /\ fed \in Seq(Chunks)
    BY <1>0, <2>1
  <2> QED BY <2>1, <2>2, <2>3, <2>4, <2>5, <2>6 DEF QueueInv
<1>4. CallInv
  BY <1>0 DEF Init, CallInv, Stages, NoWaiter
<1>5. PromiseInv
  BY DEF Init, PromiseInv
<1> QED BY <1>1, <1>3, <1>4, <1>5 DEF Inv

\* Inv holds in every state that can be reached.
THEOREM Inductive == Spec => []Inv
<1>1. Init => Inv
  BY InitInv
<1>2. Inv /\ [Next]_vars => Inv'
  <2>1. ASSUME Inv, Next PROVE Inv'
    BY <2>1, NextFlow, NextQueue, NextCalls DEF Inv
  <2>2. ASSUME Inv, UNCHANGED vars PROVE Inv'
    <3>1. FlowInv'
      BY <2>2, FlowKept DEF Inv, vars, queueVars
    <3>2. QueueInv'
      BY <2>2, QueueKept DEF Inv, vars, queueVars, emulatorVars
    <3>3. CallInv' /\ PromiseInv'
      BY <2>2, CallsKept DEF Inv, vars, callVars, queueVars, emulatorVars
    <3> QED BY <3>1, <3>2, <3>3 DEF Inv
  <2> QED BY <2>1, <2>2
<1> QED BY <1>1, <1>2, PTL DEF Spec

\* The queue's byte count, its slices and the pause of the subprocess agree in every
\* state: bytes are counted, a backlog has a slice coming, who waits for a boundary waits
\* for what is queued, and the subprocess is paused exactly while the emulator is behind
\* or an attached client is.
THEOREM FlowCorrect == Spec => []FlowSound
<1>1. Inv => FlowSound
  <2> SUFFICES ASSUME Inv PROVE FlowSound
    OBVIOUS
  <2>0. FlowInv /\ QueueInv /\ CallInv
    BY DEF Inv
  <2>1. PICK e : e = Items(queue) /\ e \in Nat
    <3>1. Items(queue) = Ends(queue, Len(queue)) /\ Len(queue) \in Nat
      BY <2>0, NoPlaces DEF QueueInv, Items, Ends
    <3> QED BY <3>1, EndsStep
  <2>2. processed \in 0..MaxItems
    <3>1. up => processed + e = arrived
      BY <2>0, <2>1 DEF QueueInv
    <3> QED BY <3>1, <2>0, <2>1, BoundAssumption DEF QueueInv, FlowInv
  <2>3. waiters \in [Calls -> 0..MaxItems]
    <3>1. ASSUME NEW c \in Calls PROVE waiters[c] \in 0..MaxItems
      <4>1. CASE waiters[c] = NoWaiter
        BY <4>1, BoundAssumption DEF NoWaiter
      <4>2. CASE waiters[c] # NoWaiter
        <5>1. waiters[c] \in processed + 1 .. arrived
          BY <2>0, <4>2, WaitsForQueue
        <5>2. processed \in Nat /\ arrived \in 0..MaxItems
          BY <2>0 DEF QueueInv
        <5> QED BY <5>1, <5>2, BoundAssumption
      <4> QED BY <4>1, <4>2
    <3> QED BY <3>1, <2>0 DEF CallInv
  <2>4. seen \in [Calls -> SUBSET (1..MaxItems)]
    <3>1. 1..arrived \subseteq 1..MaxItems
      BY <2>0, BoundAssumption DEF QueueInv
    <3> QED BY <3>1, <2>0 DEF CallInv
  <2>5. queuedBytes \in Nat
    BY <2>0, NoPlaces DEF FlowInv, QueueInv, BytesCounted
  <2>6. TypeOK
    BY <2>0, <2>2, <2>3, <2>4, <2>5 DEF TypeOK, FlowInv, QueueInv, CallInv
  <2>7. BacklogIsScheduled
    BY <2>0 DEF BacklogIsScheduled, QueueInv, CallInv, Waiting
  <2> QED BY <2>0, <2>6, <2>7 DEF FlowSound, FlowInv
<1> QED BY <1>1, Inductive, PTL

\* A step cancels no attachment but the canceled call's own.
LEMMA AbortStep ==
    ASSUME Inv, Next, NEW c \in Calls, stage[c] # "canceled", stage'[c] = "canceled",
           NEW k \in Socks, attached[k] \notin {None, c}
    PROVE  attached'[k] = attached[k]
<1>0. stage \in [Calls -> Stages] /\ attached \in [Socks -> Calls \cup {None}]
  BY DEF Inv, FlowInv, CallInv
<1>1. ASSUME NEW n \in 1..MaxChunks, NEW refused \in SUBSET Socks, NEW failed \in SUBSET Socks,
             DataFrame(n, refused, failed)
      PROVE  FALSE
  BY <1>1 DEF DataFrame, callVars
<1>2. ASSUME stage' = stage PROVE FALSE
  BY <1>2
<1>3. ASSUME NEW done, stage' = [d \in Calls |-> IF d \in done /\ stage[d] = "boundary"
                                                 THEN "emulator" ELSE stage[d]]
      PROVE  FALSE
  BY <1>3
<1>4. ASSUME NEW d \in Calls, AttachAborted(d) PROVE attached'[k] = attached[k]
  <2>1. d = c
    BY <1>0, <1>4 DEF AttachAborted
  <2>2. CASE OwnAttachment(c)
    <3>1. attached' = [attached EXCEPT ![csock[c]] = None] /\ attached[csock[c]] = c
      BY <2>1, <2>2, <1>4 DEF AttachAborted, DetachSocket, OwnAttachment
    <3> QED BY <3>1, <1>0
  <2>3. CASE ~OwnAttachment(c)
    BY <2>1, <2>3, <1>4 DEF AttachAborted
  <2> QED BY <2>2, <2>3
<1>5. ASSUME NEW d \in Calls, AttachFlushTimeout(d) \/ AttachDone(d) PROVE FALSE
  <2>1. \/ stage' = stage
        \/ stage' = [stage EXCEPT ![d] = "emulator"] \/ stage' = [stage EXCEPT ![d] = "done"]
    BY <1>5 DEF AttachFlushTimeout, AttachDone
  <2> QED BY <2>1, <1>0
<1>6. ASSUME NEW d \in Calls, NEW x \in Socks, Attach(d, x) PROVE FALSE
  <2>1. stage' = [stage EXCEPT ![d] = "emulator"] \/ stage' = [stage EXCEPT ![d] = "boundary"]
    BY <1>6 DEF Attach
  <2> QED BY <2>1, <1>0
<1>7. ASSUME NEW n \in 0..Len(queue), EmulatorSlice(n) PROVE FALSE
  BY <1>3, <1>7 DEF EmulatorSlice, Resolve
<1>8. ASSUME SubprocessExit \/ Dispose PROVE FALSE
  BY <1>3, <1>8 DEF SubprocessExit, Dispose, Reset, Resolve
<1>9. ASSUME EmulatorSliceDisposed \/ EmulatorParses PROVE FALSE
  BY <1>2, <1>9 DEF EmulatorSliceDisposed, EmulatorParses, callVars
<1>10. ASSUME NEW x \in Socks, Detach(x) \/ SocketDrain(x) \/ SocketClose(x) PROVE FALSE
  BY <1>2, <1>10 DEF Detach, SocketDrain, SocketClose, callVars
<1> QED BY <1>1, <1>4, <1>5, <1>6, <1>7, <1>8, <1>9, <1>10 DEF Next

\* An attach that reached its boundary and is still attached has every item, whole in its
\* snapshot or sent to its socket; and an abort leaves a later attach to the same socket alone.
THEOREM AttachCorrect == Spec => AttachIsExact
<1>1. Inv => NothingMissed
  <2> SUFFICES ASSUME Inv, NEW c \in Calls, stage[c] = "done", reached[c], ~dropped,
                      attached[csock[c]] = c
               PROVE  1..arrived = WholeItems(c) \cup seen[c]
    BY DEF NothingMissed
  <2>0. QueueInv /\ CallInv /\ PromiseInv
    BY DEF Inv
  <2>1. PICK l, m, s : /\ l = Len(fed) /\ m = mark[c] /\ s = snapshot[c] /\ l \in Nat
                       /\ m \in 0..l /\ s \in 0..l /\ m <= s
    BY <2>0, NoPlaces DEF QueueInv, CallInv
  <2>2. \A i \in 1..arrived : EndOf(fed, m, i) \/ i \in seen[c]
    BY <2>0, <2>1 DEF PromiseInv
  <2>3. ASSUME NEW i, EndOf(fed, m, i) PROVE i \in WholeItems(c)
    <3>1. PICK j \in 1..m : fed[j].item = i /\ fed[j].last
      BY <2>3 DEF EndOf
    <3>2. j \in 1..snapshot[c]
      BY <2>1
    <3>3. i \in SnapshotItems(c)
      BY <3>1, <3>2 DEF SnapshotItems
    <3> QED BY <3>1, <3>2, <3>3 DEF WholeItems
  <2>4. ASSUME NEW i \in WholeItems(c) PROVE i \in 1..arrived
    <3>1. PICK j \in 1..snapshot[c] : fed[j].item = i
      BY DEF WholeItems
    <3>2. j \in 1..Len(fed)
      BY <2>1
    <3> QED BY <3>1, <3>2, <2>0 DEF QueueInv
  <2>5. seen[c] \subseteq 1..arrived
    BY <2>0 DEF CallInv
  <2> QED BY <2>2, <2>3, <2>4, <2>5
<1>2. Inv /\ [Next]_vars =>
        [\A c \in Calls : stage[c] # "canceled" /\ stage'[c] = "canceled" =>
           \A k \in Socks : attached[k] \notin {None, c} => attached'[k] = attached[k]]_vars
  BY AbortStep DEF vars
<1> QED BY <1>1, <1>2, Inductive, PTL DEF Spec, AttachIsExact, AbortKeepsLaterAttachment

================================================================================
