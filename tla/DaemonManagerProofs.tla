-------------------------- MODULE DaemonManagerProofs --------------------------
(***************************************************************************)
(* What holds of DaemonManager for every set of calls and panes and every  *)
(* size of the semaphore.                                                  *)
(*                                                                         *)
(* The inductive invariant is Inv.  SlotInv says that the semaphore counts *)
(* the calls that hold a slot and queues those that wait, each once; it    *)
(* needs that those holders are finitely many.  CallInv says which call is *)
(* current for its pane.  The two hold together: a stale waiter in the     *)
(* queue would come back to life when a slot is passed on.  RequestInv     *)
(* says that the daemon's answer reaches only calls that are not aborted,  *)
(* so a call that is answered is the current one.  EntryInv relates the    *)
(* entries of the table to timers and history writers; a call whose writer *)
(* is initialising has ended, so its pane does not change, and it is late  *)
(* when its pane is closed.  RestoreInv bounds what stale reads can leave. *)
(*                                                                         *)
(* The order of the queue is reasoned about in functions over 1..k first   *)
(* (elements taken out, put in, cut in two), then in sequences.            *)
(***************************************************************************)
EXTENDS DaemonManager, FiniteSetTheorems, SequenceTheorems, TLAPS

Members(f, k) == {f[j] : j \in 1..k}
Once(f, k) == \A i, j \in 1..k : f[i] = f[j] => i = j
InOrder(f, k, prio) == \A i, j \in 1..k : i < j => prio[f[i]] <= prio[f[j]]

\* t is q without its member at i; with r before place n; and q is a and then b.
OutAt(t, q, k, i) == \A j \in 1..k-1 : t[j] = IF j < i THEN q[j] ELSE q[j+1]
InAt(t, q, k, n, r) ==
    \A j \in 1..k+1 : t[j] = IF j < n THEN q[j] ELSE IF j = n THEN r ELSE q[j-1]
CutAt(q, a, b, k, n) == (\A j \in 1..n : a[j] = q[j]) /\ (\A j \in 1..k-n : b[j] = q[n+j])

\* An element is taken out at place i.
LEMMA SplicedOut ==
    ASSUME NEW q, NEW t, NEW k \in Nat, NEW i \in 1..k, Once(q, k),
           OutAt(t, q, k, i)
    PROVE  /\ Members(t, k-1) = Members(q, k) \ {q[i]}
           /\ Once(t, k-1)
           /\ \A prio : InOrder(q, k, prio) => InOrder(t, k-1, prio)
<1> USE DEF OutAt
<1>1. ASSUME NEW j \in 1..k-1 PROVE t[j] \in Members(q, k) \ {q[i]}
  BY DEF Members, Once
<1>2. ASSUME NEW j \in 1..k, q[j] # q[i] PROVE q[j] \in Members(t, k-1)
  <2>1. CASE j < i
    <3>1. j \in 1..k-1 /\ t[j] = q[j]
      BY <2>1
    <3> QED BY <3>1 DEF Members
  <2>2. CASE j > i
    <3>1. j-1 \in 1..k-1 /\ ~(j-1 < i) /\ (j-1)+1 = j
      BY <2>2
    <3>2. t[j-1] = q[j]
      BY <3>1
    <3> QED BY <3>1, <3>2 DEF Members
  <2>3. j # i
    BY <1>2
  <2> QED BY <2>1, <2>2, <2>3
<1>3. Members(t, k-1) = Members(q, k) \ {q[i]}
  BY <1>1, <1>2 DEF Members
<1>4. Once(t, k-1)
  BY DEF Once
<1>5. \A prio : InOrder(q, k, prio) => InOrder(t, k-1, prio)
  BY DEF InOrder
<1> QED BY <1>3, <1>4, <1>5

\* An element is put in at place i.
LEMMA SplicedIn ==
    ASSUME NEW q, NEW t, NEW k \in Nat, NEW n \in 1..k+1, NEW r, Once(q, k),
           r \notin Members(q, k),
           InAt(t, q, k, n, r)
    PROVE  /\ Members(t, k+1) = Members(q, k) \cup {r}
           /\ Once(t, k+1)
<1> USE DEF InAt
<1>1. ASSUME NEW j \in 1..k+1 PROVE t[j] \in Members(q, k) \cup {r}
  <2>1. CASE j < n
    <3>1. j \in 1..k /\ t[j] = q[j]
      BY <2>1
    <3> QED BY <3>1 DEF Members
  <2>2. CASE j = n
    BY <2>2
  <2>3. CASE j > n
    <3>1. j-1 \in 1..k /\ t[j] = q[j-1]
      BY <2>3
    <3> QED BY <3>1 DEF Members
  <2> QED BY <2>1, <2>2, <2>3
<1>2. ASSUME NEW j \in 1..k PROVE q[j] \in Members(t, k+1)
  <2>1. CASE j < n
    <3>1. j \in 1..k+1 /\ t[j] = q[j]
      BY <2>1
    <3> QED BY <3>1 DEF Members
  <2>2. CASE ~(j < n)
    <3>1. j+1 \in 1..k+1 /\ ~(j+1 < n) /\ j+1 # n /\ (j+1)-1 = j
      BY <2>2
    <3>2. t[j+1] = q[j]
      BY <3>1
    <3> QED BY <3>1, <3>2 DEF Members
  <2> QED BY <2>1, <2>2
<1>3. r \in Members(t, k+1)
  <2>1. n \in 1..k+1 /\ t[n] = r
    OBVIOUS
  <2> QED BY <2>1 DEF Members
<1>4. Members(t, k+1) = Members(q, k) \cup {r}
  BY <1>1, <1>2, <1>3 DEF Members
<1>5. \A j \in 1..k : q[j] # r
  BY DEF Members
<1>6. ASSUME NEW i \in 1..k+1, NEW j \in 1..k+1, i < j PROVE t[i] # t[j]
  <2>1. CASE j < n
    BY <2>1, <1>6 DEF Once
  <2>2. CASE j = n
    BY <2>2, <1>5, <1>6
  <2>3. CASE j > n /\ i < n
    <3>1. t[j] = q[j-1] /\ t[i] = q[i] /\ j-1 \in 1..k /\ i \in 1..k /\ j-1 # i
      BY <2>3
    <3> QED BY <3>1 DEF Once
  <2>4. CASE j > n /\ i = n
    BY <2>4, <1>5
  <2>5. CASE j > n /\ i > n
    <3>1. t[j] = q[j-1] /\ t[i] = q[i-1] /\ j-1 \in 1..k /\ i-1 \in 1..k /\ j-1 # i-1
      BY <2>5, <1>6
    <3> QED BY <3>1 DEF Once
  <2> QED BY <2>1, <2>2, <2>3, <2>4, <2>5, <1>6
<1>7. Once(t, k+1)
  BY <1>6 DEF Once
<1> QED BY <1>4, <1>7

\* One put in behind those of no greater priority and before those of no smaller keeps the order.
LEMMA SplicedInOrder ==
    ASSUME NEW q, NEW t, NEW k \in Nat, NEW n \in 1..k+1, NEW r, NEW prio,
           InOrder(q, k, prio),
           \A j \in 1..k : j < n => prio[q[j]] <= prio[r],
           \A j \in 1..k : j >= n => prio[r] <= prio[q[j]],
           InAt(t, q, k, n, r)
    PROVE  InOrder(t, k+1, prio)
<1> USE DEF InAt
<1>1. ASSUME NEW i \in 1..k+1, NEW j \in 1..k+1, i < j PROVE prio[t[i]] <= prio[t[j]]
  <2>1. CASE j < n
    <3>1. t[j] = q[j] /\ t[i] = q[i] /\ j \in 1..k /\ i \in 1..k
      BY <2>1, <1>1
    <3> QED BY <3>1, <1>1 DEF InOrder
  <2>2. CASE j = n
    <3>1. t[j] = r /\ t[i] = q[i] /\ i \in 1..k /\ i < n
      BY <2>2, <1>1
    <3> QED BY <3>1
  <2>3. CASE j > n /\ i < n
    <3>1. t[j] = q[j-1] /\ t[i] = q[i] /\ j-1 \in 1..k /\ i \in 1..k /\ i < j-1
      BY <2>3
    <3> QED BY <3>1 DEF InOrder
  <2>4. CASE j > n /\ i = n
    <3>1. t[j] = q[j-1] /\ t[i] = r /\ j-1 \in 1..k /\ j-1 >= n
      BY <2>4
    <3> QED BY <3>1
  <2>5. CASE j > n /\ i > n
    <3>1. t[j] = q[j-1] /\ t[i] = q[i-1] /\ j-1 \in 1..k /\ i-1 \in 1..k /\ i-1 < j-1
      BY <2>5, <1>1
    <3> QED BY <3>1 DEF InOrder
  <2> QED BY <2>1, <2>2, <2>3, <2>4, <2>5, <1>1
<1> QED BY <1>1 DEF InOrder

\* The first n elements and the rest share nothing.
LEMMA CutInTwo ==
    ASSUME NEW q, NEW a, NEW b, NEW k \in Nat, NEW n \in 0..k, Once(q, k),
           CutAt(q, a, b, k, n)
    PROVE  /\ Members(a, n) \subseteq Members(q, k)
           /\ Members(b, k-n) = Members(q, k) \ Members(a, n)
           /\ Once(a, n) /\ Once(b, k-n)
           /\ \A prio : InOrder(q, k, prio) => InOrder(b, k-n, prio)
<1> USE DEF CutAt
<1>1. Members(a, n) = {q[j] : j \in 1..n}
  BY DEF Members
<1>2. Members(b, k-n) = {q[j] : j \in n+1..k}
  <2>1. ASSUME NEW j \in n+1..k PROVE q[j] \in Members(b, k-n)
    <3>1. j-n \in 1..k-n /\ n+(j-n) = j
      OBVIOUS
    <3>2. b[j-n] = q[j]
      BY <3>1
    <3> QED BY <3>1, <3>2 DEF Members
  <2>2. ASSUME NEW j \in 1..k-n PROVE b[j] \in {q[i] : i \in n+1..k}
    <3>1. n+j \in n+1..k /\ b[j] = q[n+j]
      OBVIOUS
    <3> QED BY <3>1
  <2> QED BY <2>1, <2>2 DEF Members
<1>3. ASSUME NEW j \in n+1..k, NEW i \in 1..n PROVE q[j] # q[i]
  <2>1. j \in 1..k /\ i \in 1..k /\ i # j
    OBVIOUS
  <2> QED BY <2>1 DEF Once
<1>4. 1..k = (1..n) \cup (n+1..k)
  OBVIOUS
<1>5. /\ Members(a, n) \subseteq Members(q, k)
      /\ Members(b, k-n) = Members(q, k) \ Members(a, n)
  <2>1. Members(q, k) = {q[j] : j \in 1..n} \cup {q[j] : j \in n+1..k}
    BY <1>4 DEF Members
  <2>2. {q[j] : j \in 1..n} \cap {q[j] : j \in n+1..k} = {}
    BY <1>3
  <2> QED BY <1>1, <1>2, <2>1, <2>2, Zenon
<1>6. Once(a, n) /\ Once(b, k-n)
  BY DEF Once
<1>7. ASSUME NEW prio, InOrder(q, k, prio) PROVE InOrder(b, k-n, prio)
  BY <1>7 DEF InOrder
<1> QED BY <1>5, <1>6, <1>7
\* A set of numbers that is not empty has a smallest member: the finite sets 0..x-1 are
\* well-founded by strict inclusion.
LEMMA NatMin ==
    ASSUME NEW T, T \subseteq Nat, T # {}
    PROVE  Min(T) \in T /\ \A y \in T : Min(T) <= y
<1> DEFINE Below(n) == IF n = 0 THEN {} ELSE 0..(n-1)
           U == {Below(x) : x \in T}
<1>1. U \subseteq FiniteSubsetsOf(Nat)
  <2> SUFFICES ASSUME NEW x \in T PROVE 0..(x-1) \in FiniteSubsetsOf(Nat)
    BY FS_EmptySet DEF FiniteSubsetsOf
  <2>1. 0..(x-1) \subseteq Nat
    OBVIOUS
  <2>2. IsFiniteSet(0..(x-1))
    BY FS_Interval
  <2> QED BY <2>1, <2>2 DEF FiniteSubsetsOf
<1>2. U # {}
  OBVIOUS
<1>3. PICK B \in U : \A C \in U : ~ (<<C, B>> \in StrictSubsetOrdering(Nat))
  <2> HIDE DEF U
  <2> QED BY <1>1, <1>2, FS_StrictSubsetOrderingWellFounded, WFMin
<1>4. PICK x \in T : B = Below(x)
  OBVIOUS
<1>5. ASSUME NEW y \in T, y < x PROVE FALSE
  <2>1. ~ (<<Below(y), Below(x)>> \in StrictSubsetOrdering(Nat))
    BY <1>3, <1>4
  <2>2. Below(y) \subseteq Below(x) /\ Below(y) # Below(x)
    <3>1. x \in Nat /\ y \in Nat
      OBVIOUS
    <3>2. x-1 \in Below(x) /\ x-1 \notin Below(y)
      BY <3>1, <1>5
    <3> QED BY <3>1, <3>2, <1>5
  <2>3. Below(y) \in SUBSET Nat /\ Below(x) \in SUBSET Nat
    BY x \in Nat, y \in Nat
  <2> QED BY <2>1, <2>2, <2>3 DEF StrictSubsetOrdering
<1>6. \E z \in T : \A y \in T : z <= y
  BY <1>5
<1> QED BY <1>6 DEF Min

\* A part of a queue, the empty one included.
LEMMA PartOfQueue ==
    ASSUME NEW S, NEW q \in Seq(S), NEW m \in Nat, NEW n \in Nat, 1 <= m, m <= n + 1, n <= Len(q)
    PROVE  /\ SubSeq(q, m, n) \in Seq(S)
           /\ Len(SubSeq(q, m, n)) = n + 1 - m
           /\ \A j \in 1..n+1-m : SubSeq(q, m, n)[j] = q[m+j-1]
<1>1. Len(q) \in Nat /\ \A i \in 1..Len(q) : q[i] \in S
  BY LenProperties
<1>2. \A i \in m..n : q[i] \in S
  BY <1>1
<1>3. m \in Int /\ n \in Int /\ n - m + 1 = n + 1 - m
  OBVIOUS
<1>4. /\ SubSeq(q, m, n) \in Seq(S)
      /\ Len(SubSeq(q, m, n)) = IF m <= n THEN n-m+1 ELSE 0
      /\ \A j \in 1..n-m+1 : SubSeq(q, m, n)[j] = q[m+j-1]
  BY <1>2, <1>3, SubSeqProperties
<1> QED BY <1>3, <1>4

\* The forms that the specification gives to members, uniqueness and order, and those used here.
LEMMA QueueForms ==
    ASSUME NEW S, NEW q \in Seq(S)
    PROVE  /\ ToSet(q) = Members(q, Len(q))
           /\ IsInjective(q) <=> Once(q, Len(q))
           /\ \A prio : InOrder(q, Len(q), prio)
                          <=> \A i, j \in DOMAIN q : i < j => prio[q[i]] <= prio[q[j]]
<1>1. DOMAIN q = 1..Len(q)
  BY LenProperties
<1> QED BY <1>1, Zenon DEF ToSet, Members, IsInjective, Once, InOrder

\* Concatenation, place by place.
LEMMA Joined ==
    ASSUME NEW S, NEW a \in Seq(S), NEW b \in Seq(S)
    PROVE  /\ a \o b \in Seq(S) /\ Len(a \o b) = Len(a) + Len(b)
           /\ \A j \in 1..Len(a) : (a \o b)[j] = a[j]
           /\ \A j \in 1..Len(b) : (a \o b)[Len(a)+j] = b[j]
<1>0. Len(a) \in Nat /\ Len(b) \in Nat
  BY LenProperties
<1>1. /\ a \o b \in Seq(S) /\ Len(a \o b) = Len(a) + Len(b)
      /\ \A j \in 1..Len(a) + Len(b) :
           (a \o b)[j] = IF j <= Len(a) THEN a[j] ELSE b[j - Len(a)]
  BY ConcatProperties
<1>2. ASSUME NEW j \in 1..Len(a) PROVE (a \o b)[j] = a[j]
  <2>1. j \in 1..Len(a)+Len(b) /\ j <= Len(a)
    BY <1>0
  <2> QED BY <2>1, <1>1
<1>3. ASSUME NEW j \in 1..Len(b) PROVE (a \o b)[Len(a)+j] = b[j]
  <2>1. Len(a)+j \in 1..Len(a)+Len(b) /\ ~(Len(a)+j <= Len(a)) /\ (Len(a)+j)-Len(a) = j
    BY <1>0
  <2> QED BY <2>1, <1>1
<1> QED BY <1>1, <1>2, <1>3

\* RemoveAt takes out place i.
LEMMA RemovedAt ==
    ASSUME NEW S, NEW q \in Seq(S), NEW i \in Nat, 1 <= i, i <= Len(q)
    PROVE  /\ RemoveAt(q, i) \in Seq(S) /\ Len(RemoveAt(q, i)) = Len(q) - 1
           /\ OutAt(RemoveAt(q, i), q, Len(q), i)
<1>b. PICK a, b : a = SubSeq(q, 1, i-1) /\ b = SubSeq(q, i+1, Len(q))
  OBVIOUS
<1>0. Len(q) \in Nat
  BY LenProperties
<1>1. a \in Seq(S) /\ Len(a) = i-1 /\ \A j \in 1..i-1 : a[j] = q[j]
  <2>1. i-1 \in Nat /\ 1 <= i-1+1 /\ i-1 <= Len(q) /\ (i-1)+1-1 = i-1
    BY <1>0
  <2>2. \A j \in 1..i-1 : 1+j-1 = j
    BY <1>0
  <2> QED BY <2>1, <2>2, <1>b, PartOfQueue
<1>2. b \in Seq(S) /\ Len(b) = Len(q)-i /\ \A j \in 1..Len(q)-i : b[j] = q[i+j]
  <2>1. i+1 \in Nat /\ 1 <= i+1 /\ i+1 <= Len(q)+1 /\ Len(q)+1-(i+1) = Len(q)-i
    BY <1>0
  <2>2. \A j \in 1..Len(q)-i : (i+1)+j-1 = i+j
    BY <1>0
  <2> QED BY <2>1, <2>2, <1>0, <1>b, PartOfQueue
<1>3. RemoveAt(q, i) = a \o b
  BY <1>b DEF RemoveAt
<1>4. PICK k, l : k = i-1 /\ l = Len(q)-i
  OBVIOUS
<1>a. k \in Nat /\ l \in Nat /\ k + l = Len(q)-1
  BY <1>0, <1>4
<1>5. /\ a \o b \in Seq(S) /\ Len(a \o b) = k + l
      /\ \A j \in 1..k : (a \o b)[j] = a[j]
      /\ \A j \in 1..l : (a \o b)[k+j] = b[j]
  <2>1. Len(a) = k /\ Len(b) = l
    BY <1>1, <1>2, <1>4
  <2>3. a \in Seq(S) /\ b \in Seq(S)
    BY <1>1, <1>2
  <2>2. /\ a \o b \in Seq(S) /\ Len(a \o b) = Len(a) + Len(b)
        /\ \A j \in 1..Len(a) : (a \o b)[j] = a[j]
        /\ \A j \in 1..Len(b) : (a \o b)[Len(a)+j] = b[j]
    BY <2>3, Joined
  <2> QED BY <2>1, <2>2, Zenon
<1>6. ASSUME NEW j \in 1..Len(q)-1 PROVE (a \o b)[j] = IF j < i THEN q[j] ELSE q[j+1]
  <2>1. CASE j < i
    <3>1. j \in 1..i-1 /\ j \in 1..k
      BY <2>1, <1>0, <1>4
    <3> QED BY <3>1, <2>1, <1>1, <1>5
  <2>2. CASE ~(j < i)
    <3> DEFINE e == j - (i-1)
    <3>1. e \in 1..Len(q)-i /\ e \in 1..l /\ k+e = j /\ i+e = j+1
      BY <2>2, <1>0, <1>4
    <3> HIDE DEF e
    <3>2. (a \o b)[j] = b[e] /\ b[e] = q[j+1]
      BY <3>1, <1>2, <1>5
    <3> QED BY <3>2, <2>2
  <2> QED BY <2>1, <2>2
<1> QED BY <1>3, <1>a, <1>5, <1>6 DEF OutAt

\* InsertAt puts in at place n.
LEMMA InsertedAt ==
    ASSUME NEW S, NEW q \in Seq(S), NEW r \in S, NEW n \in Nat, 1 <= n, n <= Len(q) + 1
    PROVE  /\ InsertAt(q, n, r) \in Seq(S) /\ Len(InsertAt(q, n, r)) = Len(q) + 1
           /\ InAt(InsertAt(q, n, r), q, Len(q), n, r)
<1>b. PICK a, b, m : a = SubSeq(q, 1, n-1) /\ b = SubSeq(q, n, Len(q)) /\ m = <<r>>
  OBVIOUS
<1>0. Len(q) \in Nat
  BY LenProperties
<1>1. a \in Seq(S) /\ Len(a) = n-1 /\ \A j \in 1..n-1 : a[j] = q[j]
  <2>1. n-1 \in Nat /\ 1 <= n-1+1 /\ n-1 <= Len(q) /\ (n-1)+1-1 = n-1
    BY <1>0
  <2>2. \A j \in 1..n-1 : 1+j-1 = j
    BY <1>0
  <2> QED BY <2>1, <2>2, <1>b, PartOfQueue
<1>2. b \in Seq(S) /\ Len(b) = Len(q)+1-n /\ \A j \in 1..Len(q)+1-n : b[j] = q[n+j-1]
  BY <1>0, <1>b, PartOfQueue
<1>3. m \in Seq(S) /\ Len(m) = 1 /\ m[1] = r
  BY <1>b
<1>4. InsertAt(q, n, r) = (a \o m) \o b
  BY <1>b DEF InsertAt
<1>5. PICK k, l : k = n-1 /\ l = Len(q)+1-n
  OBVIOUS
<1>a. k \in Nat /\ l \in Nat /\ k+1 = n /\ n + l = Len(q)+1
  BY <1>0, <1>5
<1>6. /\ a \o m \in Seq(S) /\ Len(a \o m) = n
      /\ \A j \in 1..n-1 : (a \o m)[j] = q[j]
      /\ (a \o m)[n] = r
  <2>1. /\ a \o m \in Seq(S) /\ Len(a \o m) = k + 1
        /\ \A j \in 1..k : (a \o m)[j] = a[j]
        /\ \A j \in 1..1 : (a \o m)[k+j] = m[j]
    <3>1. Len(a) = k /\ Len(m) = 1
      BY <1>1, <1>3, <1>5
    <3>3. a \in Seq(S) /\ m \in Seq(S)
      BY <1>1, <1>3
    <3>2. /\ a \o m \in Seq(S) /\ Len(a \o m) = Len(a) + Len(m)
          /\ \A j \in 1..Len(a) : (a \o m)[j] = a[j]
          /\ \A j \in 1..Len(m) : (a \o m)[Len(a)+j] = m[j]
      BY <3>3, Joined
    <3> QED BY <3>1, <3>2, Zenon
  <2>2. (a \o m)[k+1] = m[1]
    BY <2>1, 1 \in 1..1
  <2> QED BY <2>1, <2>2, <1>1, <1>3, <1>5, <1>a
<1>7. PICK c : c = a \o m
  OBVIOUS
<1>8. /\ c \o b \in Seq(S) /\ Len(c \o b) = n + l
      /\ \A j \in 1..n : (c \o b)[j] = c[j]
      /\ \A j \in 1..l : (c \o b)[n+j] = b[j]
  <2>1. Len(c) = n /\ Len(b) = l
    BY <1>2, <1>5, <1>6, <1>7
  <2>3. c \in Seq(S) /\ b \in Seq(S)
    BY <1>2, <1>6, <1>7
  <2>2. /\ c \o b \in Seq(S) /\ Len(c \o b) = Len(c) + Len(b)
        /\ \A j \in 1..Len(c) : (c \o b)[j] = c[j]
        /\ \A j \in 1..Len(b) : (c \o b)[Len(c)+j] = b[j]
    BY <2>3, Joined
  <2> QED BY <2>1, <2>2, Zenon
<1>c. PICK t : t = c \o b
  OBVIOUS
<1>d. /\ \A j \in 1..n : t[j] = c[j]
      /\ \A j \in 1..l : t[n+j] = b[j]
  BY <1>8, <1>c
<1>9. ASSUME NEW j \in 1..Len(q)+1
      PROVE  t[j] = IF j < n THEN q[j] ELSE IF j = n THEN r ELSE q[j-1]
  <2>1. CASE j < n
    <3>1. j \in 1..n /\ j \in 1..n-1
      BY <2>1, <1>0
    <3>2. t[j] = c[j] /\ c[j] = q[j]
      BY <3>1, <1>6, <1>7, <1>d
    <3> QED BY <3>2, <2>1
  <2>2. CASE j = n
    <3>1. j \in 1..n
      BY <2>2, <1>0
    <3>2. t[j] = c[j] /\ c[j] = r /\ ~(j < n)
      BY <3>1, <2>2, <1>6, <1>7, <1>d
    <3> QED BY <3>2, <2>2
  <2>3. CASE j > n
    <3> DEFINE e == j - n
    <3>1. e \in 1..Len(q)+1-n /\ e \in 1..l /\ n+e = j /\ n+e-1 = j-1
      BY <2>3, <1>0, <1>5
    <3> HIDE DEF e
    <3>2. t[j] = b[e] /\ b[e] = q[j-1]
      BY <3>1, <1>2, <1>d
    <3>3. ~(j < n) /\ j # n
      BY <2>3
    <3>4. t[j] = q[j-1]
      BY <3>2, Zenon
    <3> QED BY <3>3, <3>4
  <2> QED BY <2>1, <2>2, <2>3
<1> QED BY <1>4, <1>a, <1>7, <1>8, <1>9, <1>c DEF InAt

\* onAbort: the waiter leaves, the others keep their order.
LEMMA WithoutWaiter ==
    ASSUME NEW S, NEW q \in Seq(S), Once(q, Len(q)), NEW r
    PROVE  LET t == RemoveFirst(q, r)
           IN  /\ t \in Seq(S)
               /\ Members(t, Len(t)) = Members(q, Len(q)) \ {r}
               /\ Once(t, Len(t))
               /\ \A prio : InOrder(q, Len(q), prio) => InOrder(t, Len(t), prio)
<1> DEFINE t == RemoveFirst(q, r)
<1>1. CASE \A i \in 1..Len(q) : q[i] # r
  <2>1. t = q
    BY <1>1 DEF RemoveFirst
  <2>2. r \notin Members(q, Len(q))
    BY <1>1 DEF Members
  <2> QED BY <2>1, <2>2
<1>2. CASE \E i \in 1..Len(q) : q[i] = r
  <2>1. PICK i \in 1..Len(q) : q[i] = r
    BY <1>2
  <2>2. {j \in 1..Len(q) : q[j] = r} = {i}
    BY <2>1 DEF Once
  <2>3. Min({i}) = i
    BY Min({i}) = i DEF Min
  <2>4. t = RemoveAt(q, i)
    BY <2>1, <2>2, <2>3 DEF RemoveFirst, SelectInSeq
  <2> HIDE DEF t
  <2>5. Len(q) \in Nat /\ i \in Nat /\ 1 <= i /\ i <= Len(q)
    BY LenProperties
  <2>6. /\ t \in Seq(S) /\ Len(t) = Len(q) - 1
        /\ OutAt(t, q, Len(q), i)
    BY <2>4, <2>5, RemovedAt
  <2>7. /\ Members(t, Len(q)-1) = Members(q, Len(q)) \ {q[i]}
        /\ Once(t, Len(q)-1)
        /\ \A prio : InOrder(q, Len(q), prio) => InOrder(t, Len(q)-1, prio)
    BY <2>5, <2>6, SplicedOut
  <2> QED BY <2>1, <2>6, <2>7 DEF t
<1> QED BY <1>1, <1>2

\* The place that a stable sort gives to a waiter pushed behind a queue in order.
Later(q, k, r, prio) == {j \in 1..k : prio[q[j]] > prio[r]} \cup {k + 1}
LEMMA PlaceOfWaiter ==
    ASSUME NEW q, NEW k \in Nat, NEW r, NEW prio, prio[r] \in Nat,
           \A j \in 1..k : prio[q[j]] \in Nat,
           InOrder(q, k, prio)
    PROVE  /\ Min(Later(q, k, r, prio)) \in 1..k+1
           /\ \A j \in 1..k : j < Min(Later(q, k, r, prio)) => prio[q[j]] <= prio[r]
           /\ \A j \in 1..k : j >= Min(Later(q, k, r, prio)) => prio[r] <= prio[q[j]]
<1> DEFINE T == {j \in 1..k : prio[q[j]] > prio[r]} \cup {k + 1}
           n == Min(T)
<1>1. n \in T /\ \A y \in T : n <= y
  <2>1. T \subseteq Nat /\ T # {}
    OBVIOUS
  <2> HIDE DEF T
  <2> QED BY <2>1, NatMin
<1> HIDE DEF n
<1>2. n \in 1..k+1
  BY <1>1
<1>3. ASSUME NEW j \in 1..k, j < n PROVE prio[q[j]] <= prio[r]
  <2>1. j \notin T
    <3>1. T \subseteq Nat
      OBVIOUS
    <3> QED BY <1>1, <1>2, <1>3
  <2>2. ~(prio[q[j]] > prio[r])
    BY <2>1
  <2> QED BY <2>2
<1>4. ASSUME NEW j \in 1..k, j >= n PROVE prio[r] <= prio[q[j]]
  <2>1. n \in 1..k
    BY <1>2, <1>4
  <2>2. n # k + 1
    BY <2>1
  <2>3. prio[q[n]] > prio[r]
    BY <1>1, <2>2
  <2>4. prio[q[n]] <= prio[q[j]]
    <3>1. CASE n = j
      BY <3>1, <2>1
    <3>2. CASE n < j
      BY <3>2, <2>1 DEF InOrder
    <3> QED BY <3>1, <3>2, <1>2, <1>4
  <2> QED BY <2>1, <2>3, <2>4
<1> QED BY <1>2, <1>3, <1>4 DEF n, Later

\* push() and sort(): the waiter takes its place, the others keep their order.
LEMMA WithWaiter ==
    ASSUME NEW S, NEW q \in Seq(S), Once(q, Len(q)), NEW r \in S, r \notin Members(q, Len(q)),
           NEW prio \in [S -> Nat], InOrder(q, Len(q), prio)
    PROVE  LET t == InsertAt(q, Place(q, r, prio), r)
           IN  /\ t \in Seq(S)
               /\ Members(t, Len(t)) = Members(q, Len(q)) \cup {r}
               /\ Once(t, Len(t))
               /\ InOrder(t, Len(t), prio)
<1>0. Len(q) \in Nat /\ DOMAIN q = 1..Len(q) /\ q \in [1..Len(q) -> S]
  BY LenProperties
<1>1. PICK n : n = Min(Later(q, Len(q), r, prio))
  OBVIOUS
<1>2. Place(q, r, prio) = n
  BY <1>0, <1>1 DEF Place, Later
<1>3. /\ n \in 1..Len(q)+1
      /\ \A j \in 1..Len(q) : j < n => prio[q[j]] <= prio[r]
      /\ \A j \in 1..Len(q) : j >= n => prio[r] <= prio[q[j]]
  <2>1. prio[r] \in Nat /\ \A j \in 1..Len(q) : prio[q[j]] \in Nat
    BY <1>0, Zenon
  <2>2. Len(q) \in Nat
    BY <1>0
  <2> QED BY <2>1, <2>2, <1>1, PlaceOfWaiter
<1>5. n \in Nat /\ 1 <= n /\ n <= Len(q) + 1 /\ Len(q) \in Nat
  <2>1. Len(q) \in Nat
    BY <1>0
  <2> QED BY <2>1, <1>3
<1>6. PICK t : t = InsertAt(q, n, r)
  OBVIOUS
<1>7. /\ t \in Seq(S) /\ Len(t) = Len(q) + 1
      /\ InAt(t, q, Len(q), n, r)
  BY <1>5, <1>6, InsertedAt
<1>9. Members(t, Len(q)+1) = Members(q, Len(q)) \cup {r} /\ Once(t, Len(q)+1)
  BY <1>3, <1>5, <1>7, SplicedIn
<1>10. InOrder(t, Len(q)+1, prio)
  BY <1>3, <1>5, <1>7, SplicedInOrder
<1> QED BY <1>2, <1>6, <1>7, <1>9, <1>10, Zenon

\* pump(): the n waiters at the front leave, the others keep their order.
LEMMA FrontTaken ==
    ASSUME NEW S, NEW q \in Seq(S), Once(q, Len(q)), NEW n \in Nat, n <= Len(q)
    PROVE  LET a == SubSeq(q, 1, n)
               b == SubSeq(q, n+1, Len(q))
           IN  /\ b \in Seq(S) /\ (b # <<>> => n < Len(q))
               /\ ToSet(a) \subseteq Members(q, Len(q))
               /\ Members(b, Len(b)) = Members(q, Len(q)) \ ToSet(a)
               /\ Once(b, Len(b))
               /\ \A prio : InOrder(q, Len(q), prio) => InOrder(b, Len(b), prio)
               /\ IsFiniteSet(ToSet(a)) /\ Cardinality(ToSet(a)) = n
<1> DEFINE a == SubSeq(q, 1, n)
           b == SubSeq(q, n+1, Len(q))
<1>0. Len(q) \in Nat
  BY LenProperties
<1>1. a \in Seq(S) /\ Len(a) = n /\ \A j \in 1..n : a[j] = q[j]
  <2>1. n + 1 - 1 = n /\ 1 <= n + 1 /\ 1 \in Nat /\ \A j \in 1..n : 1+j-1 = j
    OBVIOUS
  <2> QED BY <2>1, PartOfQueue
<1>2. b \in Seq(S) /\ Len(b) = Len(q)-n /\ \A j \in 1..Len(q)-n : b[j] = q[n+j]
  <2>1. /\ n+1 \in Nat /\ 1 <= n+1 /\ n+1 <= Len(q)+1 /\ Len(q)+1-(n+1) = Len(q)-n
        /\ \A j \in 1..Len(q)-n : (n+1)+j-1 = n+j
    BY <1>0
  <2> QED BY <2>1, <1>0, PartOfQueue
<1> HIDE DEF a, b
<1>3. PICK k : k = Len(q) /\ k \in Nat /\ n \in 0..k
  BY <1>0
<1>4. /\ Members(a, n) \subseteq Members(q, k)
      /\ Members(b, k-n) = Members(q, k) \ Members(a, n)
      /\ Once(a, n) /\ Once(b, k-n)
      /\ \A prio : InOrder(q, k, prio) => InOrder(b, k-n, prio)
  <2>1. Once(q, k) /\ CutAt(q, a, b, k, n)
    BY <1>1, <1>2, <1>3 DEF CutAt
  <2>2. k \in Nat /\ n \in 0..k
    BY <1>3
  <2> QED BY <2>1, <2>2, CutInTwo, Zenon
<1>5. ToSet(a) = Members(a, n) /\ DOMAIN a = 1..n
  BY <1>1, LenProperties, QueueForms
<1>6. b # <<>> => n < k
  <2>1. b # <<>> => Len(b) \in Nat \ {0}
    BY <1>2, EmptySeq
  <2>2. Len(b) = k - n
    BY <1>2, <1>3
  <2> QED BY <2>1, <2>2, <1>3
<1>7. IsFiniteSet(Members(a, n)) /\ Cardinality(Members(a, n)) = n
  <2>1. a \in [1..n -> Members(a, n)]
    <3>1. a \in [1..Len(a) -> S]
      BY <1>1, LenProperties
    <3> QED BY <3>1, <1>1, <1>5 DEF Members
  <2>2. a \in Surjection(1..n, Members(a, n))
    BY <2>1, Zenon DEF Surjection, Members
  <2>3. a \in Injection(1..n, Members(a, n))
    BY <2>1, <1>4, <1>5, Zenon DEF Injection, IsInjective, Once
  <2>4. IsFiniteSet(1..n) /\ Cardinality(1..n) = n
    <3>1. 1 \in Int /\ n \in Int
      OBVIOUS
    <3> QED BY <3>1, FS_Interval
  <2> QED BY <2>2, <2>3, <2>4, FS_Surjection
<1>8. Len(b) = k - n
  BY <1>2, <1>3
<1> QED BY <1>1, <1>2, <1>3, <1>4, <1>5, <1>6, <1>7, <1>8 DEF a, b
-----------------------------------------------------------------------------
(* The inductive invariant *)

Places == Holding \cup {"idle", "queued", "done"}
Waiting == {r \in Calls : pc[r] = "queued"}

\* q holds the calls of W, each once, in the order of prio.
QueueOf(q, W, prio) ==
    /\ q \in Seq(Calls)
    /\ Members(q, Len(q)) = W /\ Once(q, Len(q))
    /\ InOrder(q, Len(q), prio)

\* n of at most so many slots are taken, each by a call of H.
SlotsOf(n, slots, H) ==
    /\ n \in Nat /\ n <= slots
    /\ IsFiniteSet(H) /\ n <= Cardinality(H)

\* The calls of H hold the slots of a semaphore s, those of W wait, and only while all
\* slots are taken.
Semaphore(s, slots, H, W, prio) ==
    /\ s = [inUse |-> s.inUse, queue |-> s.queue]
    /\ slots \in Nat \ {0}
    /\ SlotsOf(s.inUse, slots, H)
    /\ QueueOf(s.queue, W, prio)
    /\ H \cap W = {}
    /\ s.queue # <<>> => s.inUse = slots

SlotInv ==
    /\ limit \in Nat \ {0}
    /\ pc \in [Calls -> Places]
    /\ req \in [Calls -> Params \cup {NoParams}]
    /\ Semaphore(limiter, limit, Holders, Waiting, Priority(req))
    /\ ~wasReset => limiter.inUse = Cardinality(Holders)

CallInv ==
    /\ aborted \subseteq Calls
    /\ pending \in [Panes -> Calls \cup {None}]
    /\ \A r \in aborted : pc[r] # "idle"
    /\ \A r \in Calls : InFlight(r) => req[r].pane \in Panes
    /\ PendingIsCurrent

RequestInv == \A r \in Calls : pc[r] = "requested" => r \notin aborted

EntryInv ==
    /\ sessions \in [Panes -> [by: Calls \cup {None},
                               state: {"none", "alive", "killed", "exited", "lost"}]]
    /\ upsets \in 0..MaxUpsets
    /\ timers \in [Panes -> [armed: 0..upsets, listed: BOOLEAN]]
    /\ \A p \in Panes : timers[p].listed => timers[p].armed > 0
    /\ forcing \in {"no", "closing", "killing", "failed"}
    /\ ExitedHasTimer
    /\ inits \subseteq {r \in Calls : pc[r] = "done"}
    /\ \A r \in inits : req[r].pane \in Panes
    /\ writer \in [Panes -> Calls \cup {None}]
    /\ late \subseteq Calls
    /\ HistoryEndsWithSession
    /\ forcing # "closing" =>
         \A r \in inits : sessions[req[r].pane].state \in {"killed", "exited"} => r \in late

RestoreInv ==
    /\ overtaken \subseteq aborted
    /\ restore \in [Panes -> Calls \cup {None}]
    /\ killed \subseteq Panes /\ wasReset \in BOOLEAN
    /\ limit \in Limits /\ focused \in Panes \cup {None}

Inv == SlotInv /\ CallInv /\ RequestInv /\ EntryInv /\ RestoreInv
-----------------------------------------------------------------------------
(* Slots, and the calls that count *)

\* A waiter leaves the queue.
LEMMA QueueWithout ==
    ASSUME NEW q, NEW W, NEW prio, QueueOf(q, W, prio), NEW r
    PROVE  QueueOf(RemoveFirst(q, r), W \ {r}, prio)
BY WithoutWaiter DEF QueueOf

\* A waiter takes its place in the queue.
LEMMA QueueWith ==
    ASSUME NEW q, NEW W, NEW prio \in [Calls -> Nat], QueueOf(q, W, prio),
           NEW r \in Calls, r \notin W
    PROVE  QueueOf(InsertAt(q, Place(q, r, prio), r), W \cup {r}, prio)
<1>1. /\ q \in Seq(Calls) /\ Once(q, Len(q)) /\ r \notin Members(q, Len(q))
      /\ InOrder(q, Len(q), prio) /\ Members(q, Len(q)) = W
  BY DEF QueueOf
<1>2. PICK t : t = InsertAt(q, Place(q, r, prio), r)
  OBVIOUS
<1>3. /\ t \in Seq(Calls)
      /\ Members(t, Len(t)) = Members(q, Len(q)) \cup {r}
      /\ Once(t, Len(t)) /\ InOrder(t, Len(t), prio)
  BY <1>1, <1>2, WithWaiter
<1> QED BY <1>1, <1>2, <1>3, Zenon DEF QueueOf

\* The n waiters at the front leave the queue.
LEMMA QueueFront ==
    ASSUME NEW q, NEW W, NEW prio, QueueOf(q, W, prio), NEW n \in Nat, n <= Len(q)
    PROVE  /\ QueueOf(SubSeq(q, n+1, Len(q)), W \ ToSet(SubSeq(q, 1, n)), prio)
           /\ SubSeq(q, n+1, Len(q)) # <<>> => n < Len(q)
           /\ ToSet(SubSeq(q, 1, n)) \subseteq W
           /\ IsFiniteSet(ToSet(SubSeq(q, 1, n)))
           /\ Cardinality(ToSet(SubSeq(q, 1, n))) = n
<1>1. q \in Seq(Calls) /\ Once(q, Len(q)) /\ Members(q, Len(q)) = W
  BY DEF QueueOf
<1>2. InOrder(q, Len(q), prio)
  BY DEF QueueOf
<1>3. /\ SubSeq(q, n+1, Len(q)) \in Seq(Calls)
      /\ SubSeq(q, n+1, Len(q)) # <<>> => n < Len(q)
      /\ ToSet(SubSeq(q, 1, n)) \subseteq Members(q, Len(q))
      /\ Members(SubSeq(q, n+1, Len(q)), Len(SubSeq(q, n+1, Len(q))))
           = Members(q, Len(q)) \ ToSet(SubSeq(q, 1, n))
      /\ Once(SubSeq(q, n+1, Len(q)), Len(SubSeq(q, n+1, Len(q))))
      /\ \A p : InOrder(q, Len(q), p)
                  => InOrder(SubSeq(q, n+1, Len(q)), Len(SubSeq(q, n+1, Len(q))), p)
      /\ IsFiniteSet(ToSet(SubSeq(q, 1, n))) /\ Cardinality(ToSet(SubSeq(q, 1, n))) = n
  BY <1>1, FrontTaken, Zenon
<1> QED BY <1>1, <1>2, <1>3, Zenon DEF QueueOf

\* Only the priorities of those that wait matter to the queue.
LEMMA QueueKept ==
    ASSUME NEW q, NEW W, NEW prio, QueueOf(q, W, prio),
           NEW prio2, \A w \in W : prio2[w] = prio[w]
    PROVE  QueueOf(q, W, prio2)
<1>1. \A i \in 1..Len(q) : q[i] \in W
  BY DEF QueueOf, Members
<1>2. \A i \in 1..Len(q) : prio2[q[i]] = prio[q[i]]
  BY <1>1, Zenon
<1>3. InOrder(q, Len(q), prio2)
  BY <1>2 DEF QueueOf, InOrder
<1> QED BY <1>3 DEF QueueOf

\* An empty queue.
LEMMA EmptyQueue == ASSUME NEW prio PROVE QueueOf(<<>>, {}, prio)
<1>1. <<>> \in Seq(Calls) /\ Len(<<>>) = 0
  BY EmptySeq
<1> QED BY <1>1 DEF QueueOf, Members, Once, InOrder

\* release() and pump() keep the count: one holder leaves, and as many waiters become
\* holders as there are slots free.
LEMMA ReleasedCounts ==
    ASSUME NEW s, NEW slots, NEW H, NEW W, NEW prio, Semaphore(s, slots, H, W, prio), NEW r \in H,
           NEW rel, rel = Released(s, slots)
    PROVE  /\ Semaphore(rel.sem, slots, (H \ {r}) \cup rel.granted, W \ rel.granted, prio)
           /\ rel.granted \subseteq W
           /\ s.inUse = Cardinality(H) => rel.sem.inUse = Cardinality((H \ {r}) \cup rel.granted)
<1>0. /\ slots \in Nat \ {0} /\ H \cap W = {}
      /\ SlotsOf(s.inUse, slots, H)
      /\ QueueOf(s.queue, W, prio)
      /\ s.queue # <<>> => s.inUse = slots
  BY DEF Semaphore
<1> DEFINE free == Max({0, s.inUse - 1})
           n == Min({slots - free, Len(s.queue)})
           rest == SubSeq(s.queue, n + 1, Len(s.queue))
           G == ToSet(SubSeq(s.queue, 1, n))
<1>1. /\ s.inUse \in Nat /\ s.inUse <= slots /\ Len(s.queue) \in Nat
      /\ IsFiniteSet(H) /\ s.inUse <= Cardinality(H)
  BY <1>0, LenProperties DEF SlotsOf, QueueOf
<1>2. free = IF s.inUse = 0 THEN 0 ELSE s.inUse - 1
  <2>1. CASE s.inUse = 0
    <3>1. free \in {0, s.inUse - 1} /\ \A y \in {0, s.inUse - 1} : free >= y
      <4>1. \E x \in {0, s.inUse - 1} : \A y \in {0, s.inUse - 1} : x >= y
        BY <2>1
      <4> QED BY <4>1 DEF Max
    <3> QED BY <3>1, <2>1
  <2>2. CASE s.inUse # 0
    <3>1. free \in {0, s.inUse - 1} /\ \A y \in {0, s.inUse - 1} : free >= y
      <4>1. \E x \in {0, s.inUse - 1} : \A y \in {0, s.inUse - 1} : x >= y
        BY <2>2, <1>1
      <4> QED BY <4>1 DEF Max
    <3> QED BY <3>1, <2>2, <1>1
  <2> QED BY <2>1, <2>2
<1> HIDE DEF free
<1>3. free \in Nat /\ free <= slots
  BY <1>0, <1>1, <1>2
<1>4. /\ n \in Nat /\ n <= slots - free /\ n <= Len(s.queue)
      /\ n = slots - free \/ n = Len(s.queue)
  <2>1. {slots - free, Len(s.queue)} \subseteq Nat
    BY <1>0, <1>1, <1>3
  <2>2. n \in {slots - free, Len(s.queue)} /\ \A y \in {slots - free, Len(s.queue)} : n <= y
    BY <2>1, NatMin
  <2> QED BY <2>1, <2>2
<1>5. Released(s, slots) = [sem |-> [inUse |-> free + n, queue |-> rest], granted |-> G]
  BY DEF Released, free
<1> HIDE DEF n
<1>6. /\ QueueOf(rest, W \ G, prio) /\ (rest # <<>> => n < Len(s.queue))
      /\ G \subseteq W /\ IsFiniteSet(G) /\ Cardinality(G) = n
  BY <1>0, <1>4, QueueFront, Zenon
<1> HIDE DEF rest, G
<1>7. /\ IsFiniteSet((H \ {r}) \cup G)
      /\ Cardinality((H \ {r}) \cup G) = Cardinality(H) - 1 + n
  <2>1. IsFiniteSet(H \ {r}) /\ Cardinality(H \ {r}) = Cardinality(H) - 1
    BY <1>1, FS_RemoveElement
  <2>2. (H \ {r}) \cap G = {}
    BY <1>0, <1>6
  <2>3. /\ IsFiniteSet((H \ {r}) \cup G)
        /\ Cardinality((H \ {r}) \cup G)
             = Cardinality(H \ {r}) + Cardinality(G) - Cardinality((H \ {r}) \cap G)
    BY <2>1, <1>6, FS_Union
  <2>4. Cardinality((H \ {r}) \cap G) = 0
    BY <2>2, FS_EmptySet
  <2>5. Cardinality(H) \in Nat
    BY <1>1, FS_CardinalityType
  <2> QED BY <2>1, <2>3, <2>4, <2>5, <1>4, <1>6
<1>8. Cardinality(H) \in Nat /\ Cardinality(H) >= 1
  <2>1. Cardinality(H) \in Nat
    BY <1>1, FS_CardinalityType
  <2>2. Cardinality(H) # 0
    BY <1>0, <1>1, FS_EmptySet
  <2> QED BY <2>1, <2>2
<1>9. /\ SlotsOf(free + n, slots, (H \ {r}) \cup G)
      /\ s.inUse = Cardinality(H) => free + n = Cardinality((H \ {r}) \cup G)
  <2>1. free <= Cardinality(H) - 1 /\ (s.inUse = Cardinality(H) => free = Cardinality(H) - 1)
    BY <1>1, <1>2, <1>8
  <2> QED BY <2>1, <1>0, <1>3, <1>4, <1>7, <1>8 DEF SlotsOf
<1>10. rest # <<>> => free + n = slots
  BY <1>0, <1>3, <1>4, <1>6
<1>11. ((H \ {r}) \cup G) \cap (W \ G) = {}
  BY <1>0
<1> QED BY <1>0, <1>5, <1>6, <1>9, <1>10, <1>11 DEF Semaphore

\* onAbort: a waiter leaves the semaphore.
LEMMA WithoutCounts ==
    ASSUME NEW s, NEW slots, NEW H, NEW W, NEW prio, Semaphore(s, slots, H, W, prio), NEW r,
           NEW t, t = Without(s, r)
    PROVE  Semaphore(t, slots, H, W \ {r}, prio) /\ t.inUse = s.inUse
<1>1. t = [inUse |-> s.inUse, queue |-> RemoveFirst(s.queue, r)]
  <2>1. PICK n, q : n = s.inUse /\ q = s.queue /\ s = [inUse |-> n, queue |-> q]
    BY DEF Semaphore
  <2> QED BY <2>1 DEF Without
<1>2. QueueOf(RemoveFirst(s.queue, r), W \ {r}, prio)
  BY QueueWithout DEF Semaphore
<1>3. RemoveFirst(s.queue, r) # <<>> => s.queue # <<>>
  <2>1. RemoveFirst(<<>>, r) = <<>>
    BY DEF RemoveFirst
  <2> QED BY <2>1
<1> QED BY <1>1, <1>2, <1>3 DEF Semaphore

\* acquire(): one more holder, or one more waiter.
LEMMA AcquiredCounts ==
    ASSUME NEW s, NEW slots, NEW H, NEW W, NEW prio \in [Calls -> Nat],
           Semaphore(s, slots, H, W, prio), NEW r \in Calls, r \notin H, r \notin W,
           NEW t, t = Acquired(s, r, prio, slots)
    PROVE  /\ HasSlot(s, slots) => /\ Semaphore(t, slots, H \cup {r}, W, prio)
                                   /\ s.inUse = Cardinality(H) => t.inUse = Cardinality(H \cup {r})
           /\ ~HasSlot(s, slots) => Semaphore(t, slots, H, W \cup {r}, prio) /\ t.inUse = s.inUse
<1>1. PICK n, q : n = s.inUse /\ q = s.queue
  OBVIOUS
<1>2. /\ slots \in Nat \ {0} /\ H \cap W = {} /\ SlotsOf(n, slots, H)
      /\ QueueOf(q, W, prio)
      /\ q # <<>> => n = slots
  BY <1>1, Zenon DEF Semaphore
<1>3. s = [inUse |-> n, queue |-> q]
  BY <1>1, Zenon DEF Semaphore
<1>4. CASE HasSlot(s, slots)
  <2>1. t = [inUse |-> n + 1, queue |-> q]
    BY <1>3, <1>4 DEF Acquired
  <2>2. n \in Nat /\ n < slots /\ n <= Cardinality(H) /\ IsFiniteSet(H)
    BY <1>1, <1>2, <1>4 DEF HasSlot, SlotsOf
  <2>3. /\ IsFiniteSet(H \cup {r}) /\ Cardinality(H \cup {r}) = Cardinality(H) + 1
        /\ Cardinality(H) \in Nat
    BY <2>2, FS_AddElement, FS_CardinalityType
  <2>4. SlotsOf(n + 1, slots, H \cup {r})
    BY <1>2, <2>2, <2>3 DEF SlotsOf
  <2>5. q = <<>>
    <3>1. n # slots
      BY <1>2, <2>2
    <3> QED BY <1>2, <3>1, Zenon
  <2>6. (H \cup {r}) \cap W = {}
    BY <1>2
  <2>7. t.inUse = n + 1 /\ t.queue = q
    BY <2>1
  <2>8. Semaphore(t, slots, H \cup {r}, W, prio)
    BY <1>2, <2>1, <2>4, <2>5, <2>6, <2>7, Zenon DEF Semaphore
  <2>9. s.inUse = Cardinality(H) => t.inUse = Cardinality(H \cup {r})
    BY <1>1, <2>3, <2>7
  <2> QED BY <1>4, <2>8, <2>9, Zenon
<1>5. CASE ~HasSlot(s, slots)
  <2>1. PICK w : w = InsertAt(q, Place(q, r, prio), r)
    OBVIOUS
  <2>2. t = [inUse |-> n, queue |-> w]
    BY <1>3, <1>5, <2>1 DEF Acquired, Queued
  <2>3. QueueOf(w, W \cup {r}, prio)
    BY <1>2, <2>1, QueueWith
  <2>4. n = slots
    BY <1>1, <1>2, <1>5 DEF HasSlot, SlotsOf
  <2>5. H \cap (W \cup {r}) = {}
    BY <1>2
  <2>6. t.inUse = n /\ t.queue = w
    BY <2>2
  <2>7. Semaphore(t, slots, H, W \cup {r}, prio)
    BY <1>2, <2>2, <2>3, <2>4, <2>5, <2>6, Zenon DEF Semaphore
  <2> QED BY <1>1, <1>5, <2>6, <2>7, Zenon
<1> QED BY <1>4, <1>5

\* A semaphore too depends on the priorities of those that wait only.
LEMMA PriorityKept ==
    ASSUME NEW s, NEW slots, NEW H, NEW W, NEW prio, Semaphore(s, slots, H, W, prio),
           NEW prio2, \A w \in W : prio2[w] = prio[w]
    PROVE  Semaphore(s, slots, H, W, prio2)
BY QueueKept DEF Semaphore

CallsInv == SlotInv /\ CallInv

\* Initially nobody holds a slot or waits.
LEMMA InitCalls == Init => CallsInv
<1> SUFFICES ASSUME Init PROVE CallsInv
  OBVIOUS
<1>1. limit \in Nat \ {0} /\ pc \in [Calls -> Places] /\ req \in [Calls -> Params \cup {NoParams}]
  BY LimitsAssumption DEF Init, Places
<1>2. Holders = {} /\ Waiting = {}
  BY DEF Init, Holders, Holding, Waiting
<1>3. limiter.inUse = 0 /\ limiter.queue = <<>>
      /\ limiter = [inUse |-> limiter.inUse, queue |-> limiter.queue]
  BY DEF Init, NewSemaphore
<1>4. SlotsOf(limiter.inUse, limit, Holders)
  BY <1>1, <1>2, <1>3, FS_EmptySet DEF SlotsOf
<1>b. limiter.inUse = Cardinality(Holders)
  BY <1>2, <1>3, FS_EmptySet
<1>5. QueueOf(limiter.queue, Waiting, Priority(req))
  BY <1>2, <1>3, EmptyQueue
<1>6. SlotInv
  BY <1>1, <1>2, <1>3, <1>4, <1>b, <1>5 DEF SlotInv, Semaphore
<1>7. \A r \in Calls : ~InFlight(r)
  BY DEF Init, InFlight, Holding
<1>8. aborted = {} /\ pending \in [Panes -> Calls \cup {None}] /\ \A p \in Panes : pending[p] = None
  BY DEF Init
<1>9. CallInv
  BY <1>7, <1>8 DEF CallInv, PendingIsCurrent
<1> QED BY <1>6, <1>9 DEF CallsInv

\* What is no step of a call.
LEMMA CallsUntouched ==
    ASSUME CallsInv, UNCHANGED <<semVars, callVars, wasReset>>
    PROVE  CallsInv'
<1>1. /\ limit' = limit /\ focused' = focused /\ limiter' = limiter /\ pc' = pc /\ req' = req
      /\ aborted' = aborted /\ pending' = pending /\ wasReset' = wasReset
  BY DEF semVars, callVars
<1>2. Holders' = Holders /\ Waiting' = Waiting /\ Priority(req)' = Priority(req)
  BY <1>1 DEF Holders, Waiting, Priority
<1>3. SlotInv'
  BY <1>1, <1>2 DEF CallsInv, SlotInv
<1>4. CallInv'
  BY <1>1 DEF CallsInv, CallInv, PendingIsCurrent, InFlight
<1> QED BY <1>3, <1>4 DEF CallsInv

\* A call that goes on, keeping its slot, or that is refused or joins before it waits.
LEMMA CallGoesOn ==
    ASSUME CallsInv, NEW r \in Calls, NEW where \in Places, GoTo(r, where), wasReset' = wasReset,
           (pc[r] = "idle" /\ where = "done") \/ (pc[r] \in Holding /\ where \in Holding)
    PROVE  CallsInv'
<1>1. /\ limit' = limit /\ focused' = focused /\ limiter' = limiter /\ req' = req
      /\ aborted' = aborted /\ pending' = pending /\ wasReset' = wasReset
      /\ pc' = [pc EXCEPT ![r] = where]
  BY DEF GoTo, semVars
<1>2. pc \in [Calls -> Places] /\ pc' \in [Calls -> Places]
  BY <1>1 DEF CallsInv, SlotInv
<1>3. \A c \in Calls : /\ pc'[c] \in Holding <=> pc[c] \in Holding
                       /\ pc'[c] = "queued" <=> pc[c] = "queued"
                       /\ pc'[c] = "idle" => pc[c] = "idle"
  BY <1>1, <1>2 DEF Holding
<1>4. Holders' = Holders /\ Waiting' = Waiting
  BY <1>3 DEF Holders, Waiting
<1>5. Priority(req)' = Priority(req)
  BY <1>1 DEF Priority
<1>6. SlotInv'
  BY <1>1, <1>2, <1>4, <1>5 DEF CallsInv, SlotInv
<1>7. \A c \in Calls : InFlight(c)' <=> InFlight(c)
  BY <1>3 DEF InFlight
<1>8. \A p \in Panes : pending[p] # None => pending[p] \in Calls
  BY DEF CallsInv, CallInv
<1>9. PendingIsCurrent'
  <2>1. ASSUME NEW p \in Panes, pending'[p] # None
        PROVE  InFlight(pending[p])' /\ pending'[p] \notin aborted' /\ req'[pending'[p]].pane = p
    BY <1>1, <1>7, <1>8, <2>1 DEF CallsInv, CallInv, PendingIsCurrent
  <2>2. ASSUME NEW c \in Calls, InFlight(c)', c \notin aborted' PROVE pending'[req'[c].pane] = c
    BY <1>1, <1>7, <2>2 DEF CallsInv, CallInv, PendingIsCurrent
  <2>3. \A c : InFlight(c)' <=> (pc'[c] \in Holding \cup {"queued"})
    BY DEF InFlight
  <2> QED BY <1>1, <2>1, <2>2, <2>3 DEF PendingIsCurrent, InFlight
<1>10. CallInv'
  BY <1>1, <1>3, <1>7, <1>9 DEF CallsInv, CallInv
<1> QED BY <1>6, <1>10 DEF CallsInv

\* A call that ends and passes its slot on.
LEMMA CallSettles ==
    ASSUME CallsInv, NEW r \in Calls, pc[r] \in Holding, Settle(r), wasReset' = wasReset
    PROVE  CallsInv'
<1>p. PICK rel : rel = Released(limiter, limit)
  OBVIOUS
<1>0. PICK g, sem : g = rel.granted /\ sem = rel.sem
  OBVIOUS
<1>1. /\ limit' = limit /\ focused' = focused /\ limiter' = sem
      /\ aborted' = aborted /\ pending' = ClearPending(r) /\ wasReset' = wasReset
      /\ pc' = [c \in Calls |-> IF c = r THEN "done" ELSE IF c \in g THEN "granted" ELSE pc[c]]
      /\ req' = [req EXCEPT ![r] = [pane |-> req[r].pane, join |-> FALSE, skip |-> FALSE]]
  BY <1>0, <1>p DEF Settle
<1>2. /\ pc \in [Calls -> Places] /\ req \in [Calls -> Params \cup {NoParams}]
      /\ limit \in Nat \ {0}
  BY DEF CallsInv, SlotInv
<1>3. /\ Semaphore(sem, limit, (Holders \ {r}) \cup g, Waiting \ g, Priority(req))
      /\ g \subseteq Waiting
      /\ ~wasReset => sem.inUse = Cardinality((Holders \ {r}) \cup g)
  <2>1. r \in Holders
    BY DEF Holders
  <2>2. Semaphore(limiter, limit, Holders, Waiting, Priority(req))
    BY DEF CallsInv, SlotInv
  <2>3. ~wasReset => limiter.inUse = Cardinality(Holders)
    BY DEF CallsInv, SlotInv
  <2>4. /\ Semaphore(rel.sem, limit, (Holders \ {r}) \cup rel.granted, Waiting \ rel.granted,
                     Priority(req))
        /\ rel.granted \subseteq Waiting
        /\ limiter.inUse = Cardinality(Holders)
             => rel.sem.inUse = Cardinality((Holders \ {r}) \cup rel.granted)
    BY <2>1, <2>2, <1>p, ReleasedCounts
  <2> QED BY <2>3, <2>4, <1>0
<1>4. g \subseteq Calls /\ r \notin g /\ \A c \in g : pc[c] = "queued"
  BY <1>3 DEF Waiting, Holding
<1>14. req[r].pane \in Panes
  BY DEF CallsInv, CallInv, InFlight
<1>5. pc' \in [Calls -> Places]
  BY <1>1, <1>2 DEF Places, Holding
<1>6. Holders' = (Holders \ {r}) \cup g
  BY <1>1, <1>4 DEF Holders, Holding
<1>7. Waiting' = Waiting \ g
  BY <1>1, <1>4 DEF Waiting, Holding
<1>8. /\ req' \in [Calls -> Params \cup {NoParams}]
      /\ \A c \in Calls : c # r => req'[c] = req[c]
      /\ \A c \in Calls : req'[c].pane = req[c].pane
  <2>2. [pane |-> req[r].pane, join |-> FALSE, skip |-> FALSE] \in Params \cup {NoParams}
    BY <1>14 DEF Params
  <2>3. req'[r].pane = req[r].pane
    BY <1>1, <1>2
  <2> QED BY <1>1, <1>2, <2>2, <2>3
<1>9. Semaphore(sem, limit, (Holders \ {r}) \cup g, Waiting', Priority(req)')
  <2>1. \A w \in Waiting \ g : Priority(req)'[w] = Priority(req)[w]
    BY <1>1, <1>8 DEF Priority, Waiting, Holding
  <2>2. PICK prio2 : prio2 = Priority(req)'
    OBVIOUS
  <2> QED BY <2>1, <2>2, <1>3, <1>7, QueueKept DEF Semaphore
<1>10. SlotInv'
  BY <1>1, <1>2, <1>3, <1>5, <1>6, <1>8, <1>9 DEF SlotInv
<1>11. \A c \in Calls : c # r => (InFlight(c)' <=> InFlight(c))
  BY <1>1, <1>4 DEF InFlight, Holding
<1>12. ~InFlight(r)' /\ pc'[r] = "done"
  BY <1>1 DEF InFlight, Holding
<1>13. \A c \in aborted' : pc'[c] # "idle"
  BY <1>1, <1>2, <1>4 DEF CallsInv, CallInv
<1>15. /\ pending \in [Panes -> Calls \cup {None}] /\ pending' \in [Panes -> Calls \cup {None}]
       /\ \A p \in Panes : pending'[p] = IF pending[p] = r /\ p = req[r].pane THEN None ELSE pending[p]
  BY <1>1, <1>14 DEF CallsInv, CallInv, ClearPending
<1>16. PendingIsCurrent'
  <2>1. ASSUME NEW p \in Panes, NEW c, c = pending'[p], c # None
        PROVE  pc'[c] \in Holding \cup {"queued"} /\ c \notin aborted' /\ req'[c].pane = p
    <3>1. c = pending'[p]
      BY <2>1
    <3>2. c = pending[p] /\ c \in Calls /\ c # None
      BY <3>1, <2>1, <1>15
    <3>3. InFlight(c) /\ c \notin aborted /\ req[c].pane = p
      BY <3>2 DEF CallsInv, CallInv, PendingIsCurrent
    <3>4. c # r
      BY <3>1, <3>2, <3>3, <2>1, <1>15
    <3>5. pc'[c] \in Holding \cup {"queued"}
      BY <3>2, <3>3, <3>4, <1>11 DEF InFlight
    <3> QED BY <3>2, <3>3, <3>5, <1>1, <1>8
  <2>2. ASSUME NEW c \in Calls, InFlight(c)', c \notin aborted' PROVE pending'[req'[c].pane] = c
    <3>1. c # r /\ InFlight(c) /\ c \notin aborted
      BY <2>2, <1>1, <1>11, <1>12
    <3>2. pending[req[c].pane] = c /\ req[c].pane \in Panes
      BY <3>1 DEF CallsInv, CallInv, PendingIsCurrent
    <3> QED BY <3>1, <3>2, <1>8, <1>15
  <2> QED BY <2>1, <2>2 DEF PendingIsCurrent, InFlight
<1>17. \A c \in Calls : InFlight(c)' => req'[c].pane \in Panes
  BY <1>8, <1>11, <1>12 DEF CallsInv, CallInv
<1>18. CallInv'
  BY <1>1, <1>13, <1>15, <1>16, <1>17 DEF CallsInv, CallInv
<1> QED BY <1>10, <1>18 DEF CallsInv

\* Aborted calls stop to wait, or fail; the others stay where they are.
LEMMA AbortedPlaces ==
    ASSUME pc \in [Calls -> Places], NEW A, NEW pa, pa = PcAborted(A)
    PROVE  /\ pa \in [Calls -> Places]
           /\ \A c \in Calls : /\ pa[c] \in Holding <=> pc[c] \in Holding
                               /\ pa[c] = "queued" <=> pc[c] = "queued" /\ c \notin A
                               /\ pa[c] = "idle" <=> pc[c] = "idle"
                               /\ c \notin A => pa[c] = pc[c]
                               /\ pa[c] = "done" <=> pc[c] = "done" \/ (pc[c] = "queued" /\ c \in A)
<1>1. \A c \in Calls : pa[c] = IF c \notin A THEN pc[c]
                               ELSE IF pc[c] = "queued" THEN "done"
                               ELSE IF pc[c] = "requested" THEN "failing" ELSE pc[c]
  BY DEF PcAborted
<1>2. pa = [c \in Calls |-> pa[c]]
  BY DEF PcAborted
<1>3. \A c \in Calls : pa[c] \in Places
  BY <1>1 DEF Places, Holding
<1>4. pa \in [Calls -> Places]
  BY <1>2, <1>3
<1> QED BY <1>1, <1>4 DEF Holding

\* A call starts, and supersedes another that may wait or hold a slot.
LEMMA CallStarts ==
    ASSUME CallsInv, NEW r \in Calls, NEW q \in Params, Start(r, q)
    PROVE  CallsInv'
<1> DEFINE old == pending[q.pane]
<1>p. PICK sem, prio : sem = Without(limiter, old) /\ prio = Priority(req')
  OBVIOUS
<1>q. q.pane \in Panes
  BY DEF Params
<1>1. /\ limit' = limit /\ focused' = focused /\ wasReset' = wasReset
      /\ pc[r] = "idle"
      /\ aborted' = aborted \cup ({old} \ {None})
      /\ req' = [req EXCEPT ![r] = q]
      /\ limiter' = Acquired(sem, r, prio, limit)
      /\ pc' = [PcAborted({old}) EXCEPT ![r] = IF HasSlot(sem, limit) THEN "granted" ELSE "queued"]
      /\ pending' = [pending EXCEPT ![q.pane] = r]
  BY <1>p DEF Start, Superseded
<1>2. /\ pc \in [Calls -> Places] /\ req \in [Calls -> Params \cup {NoParams}]
      /\ pending \in [Panes -> Calls \cup {None}] /\ aborted \subseteq Calls
      /\ Semaphore(limiter, limit, Holders, Waiting, Priority(req))
      /\ limit \in Nat \ {0}
  BY DEF CallsInv, SlotInv, CallInv
<1>3. /\ r \notin Holders /\ r \notin Waiting /\ r \notin aborted /\ ~InFlight(r) /\ r # None
      /\ r # old
  <2>1. r \notin Holders /\ r \notin Waiting /\ ~InFlight(r)
    BY <1>1 DEF Holders, Waiting, InFlight, Holding
  <2>2. r \notin aborted /\ r # None
    BY <1>1, NoneAssumption DEF CallsInv, CallInv
  <2>3. r # old
    BY <2>1, <2>2, <1>q DEF CallsInv, CallInv, PendingIsCurrent
  <2> QED BY <2>1, <2>2, <2>3
<1>4. PICK pa : pa = PcAborted({old})
  OBVIOUS
<1>5. /\ pa \in [Calls -> Places]
      /\ \A c \in Calls : /\ pa[c] \in Holding <=> pc[c] \in Holding
                          /\ pa[c] = "queued" <=> pc[c] = "queued" /\ c # old
                          /\ pa[c] = "idle" <=> pc[c] = "idle"
                          /\ c # old => pa[c] = pc[c]
  BY <1>2, <1>4, AbortedPlaces
<1>6. pc' \in [Calls -> Places] /\ \A c \in Calls : c # r => pc'[c] = pa[c]
  BY <1>1, <1>4, <1>5 DEF Places, Holding
<1>7. pc'[r] = IF HasSlot(sem, limit) THEN "granted" ELSE "queued"
  BY <1>1, <1>4, <1>5
<1>8. /\ req' \in [Calls -> Params \cup {NoParams}] /\ req'[r] = q
      /\ \A c \in Calls : c # r => req'[c] = req[c]
  BY <1>1, <1>2
<1>9. Semaphore(sem, limit, Holders, Waiting \ {old}, prio) /\ sem.inUse = limiter.inUse
  <2>1. Semaphore(sem, limit, Holders, Waiting \ {old}, Priority(req)) /\ sem.inUse = limiter.inUse
    BY <1>2, <1>p, WithoutCounts
  <2>2. \A w \in Waiting \ {old} : prio[w] = Priority(req)[w]
    BY <1>3, <1>8, <1>p DEF Priority, Waiting
  <2> QED BY <2>1, <2>2, PriorityKept
<1>10. prio \in [Calls -> Nat]
  BY <1>p DEF Priority
<1>a. PICK lim, w, h : lim = limiter' /\ w = Waiting \ {old} /\ h = Holders
  OBVIOUS
<1>11. /\ HasSlot(sem, limit) => /\ Semaphore(lim, limit, h \cup {r}, w, prio)
                                 /\ sem.inUse = Cardinality(h) => lim.inUse = Cardinality(h \cup {r})
       /\ ~HasSlot(sem, limit) => Semaphore(lim, limit, h, w \cup {r}, prio) /\ lim.inUse = sem.inUse
  <2>1. lim = Acquired(sem, r, prio, limit) /\ r \notin w /\ r \notin h
    BY <1>1, <1>3, <1>a
  <2>2. Semaphore(sem, limit, h, w, prio)
    BY <1>9, <1>a
  <2> QED BY <2>1, <2>2, <1>10, AcquiredCounts
<1>b. Priority(req)' = prio
  BY <1>1, <1>p DEF Priority
<1>12. ASSUME HasSlot(sem, limit) PROVE SlotInv'
  <2>1. Holders' = Holders \cup {r}
    BY <1>5, <1>6, <1>7, <1>12 DEF Holders, Holding
  <2>2. Waiting' = Waiting \ {old}
    BY <1>3, <1>5, <1>6, <1>7, <1>12 DEF Waiting
  <2>3. /\ Semaphore(lim, limit, Holders \cup {r}, Waiting \ {old}, prio)
        /\ sem.inUse = Cardinality(Holders) => lim.inUse = Cardinality(Holders \cup {r})
    BY <1>11, <1>12, <1>a
  <2>4. ~wasReset' => lim.inUse = Cardinality(Holders \cup {r})
    BY <2>3, <1>1, <1>9 DEF CallsInv, SlotInv
  <2> QED BY <2>1, <2>2, <2>3, <2>4, <1>1, <1>2, <1>6, <1>8, <1>a, <1>b DEF SlotInv
<1>13. ASSUME ~HasSlot(sem, limit) PROVE SlotInv'
  <2>1. Holders' = Holders
    BY <1>3, <1>5, <1>6, <1>7, <1>13 DEF Holders, Holding
  <2>2. Waiting' = (Waiting \ {old}) \cup {r}
    BY <1>3, <1>5, <1>6, <1>7, <1>13 DEF Waiting
  <2>3. Semaphore(lim, limit, Holders, (Waiting \ {old}) \cup {r}, prio) /\ lim.inUse = sem.inUse
    BY <1>11, <1>13, <1>a
  <2>4. ~wasReset' => lim.inUse = Cardinality(Holders)
    BY <2>3, <1>1, <1>9 DEF CallsInv, SlotInv
  <2> QED BY <2>1, <2>2, <2>3, <2>4, <1>1, <1>2, <1>6, <1>8, <1>a, <1>b DEF SlotInv
<1>14. SlotInv'
  BY <1>12, <1>13
<1>15. /\ pending' \in [Panes -> Calls \cup {None}] /\ pending'[q.pane] = r
       /\ \A p \in Panes : p # q.pane => pending'[p] = pending[p]
  BY <1>1, <1>2, <1>q
<1>16. aborted' \subseteq Calls /\ \A c \in aborted' : pc'[c] # "idle"
  <2>1. old \in Calls \cup {None}
    BY <1>2, <1>q
  <2>2. ASSUME NEW c \in aborted' PROVE c \in Calls /\ pc'[c] # "idle"
    <3>1. CASE c \in aborted
      BY <3>1, <1>2, <1>3, <1>5, <1>6 DEF CallsInv, CallInv
    <3>2. CASE c = old /\ old # None
      <4>1. InFlight(old) /\ old \in Calls
        BY <3>2, <2>1, <1>q DEF CallsInv, CallInv, PendingIsCurrent
      <4>2. pc[old] # "idle"
        BY <4>1 DEF InFlight, Holding
      <4> QED BY <3>2, <4>1, <4>2, <1>3, <1>5, <1>6
    <3> QED BY <2>2, <3>1, <3>2, <1>1
  <2> QED BY <2>2
<1>17. \A c \in Calls : c # r /\ pc'[c] \in Holding \cup {"queued"} => InFlight(c)
  BY <1>5, <1>6 DEF InFlight
<1>18. pc'[r] \in Holding \cup {"queued"}
  BY <1>7 DEF Holding
<1>19. ASSUME NEW c \in Calls, pc'[c] \in Holding \cup {"queued"} PROVE req'[c].pane \in Panes
  BY <1>8, <1>17, <1>19, <1>q DEF CallsInv, CallInv
<1>20. ASSUME NEW p \in Panes, NEW c, c = pending'[p], c # None
       PROVE  pc'[c] \in Holding \cup {"queued"} /\ c \notin aborted' /\ req'[c].pane = p
  <2>1. CASE p = q.pane
    <3>1. c = r
      BY <2>1, <1>15, <1>20
    <3>2. r \notin aborted'
      BY <1>1, <1>3
    <3> QED BY <3>1, <3>2, <2>1, <1>8, <1>18
  <2>2. CASE p # q.pane
    <3>1. c = pending[p] /\ c \in Calls
      BY <2>2, <1>2, <1>15, <1>20
    <3>2. InFlight(c) /\ c \notin aborted /\ req[c].pane = p
      BY <3>1, <1>20 DEF CallsInv, CallInv, PendingIsCurrent
    <3>3. c # r
      BY <3>2, <1>3
    <3>4. c # old
      <4>1. old # None => req[old].pane = q.pane
        BY <1>q DEF CallsInv, CallInv, PendingIsCurrent
      <4> QED BY <4>1, <3>2, <2>2, <1>20
    <3>5. pc'[c] = pc[c]
      BY <3>1, <3>3, <3>4, <1>5, <1>6
    <3> QED BY <3>1, <3>2, <3>3, <3>4, <3>5, <1>1, <1>8 DEF InFlight
  <2> QED BY <2>1, <2>2
<1>21. ASSUME NEW c \in Calls, pc'[c] \in Holding \cup {"queued"}, c \notin aborted'
       PROVE  pending'[req'[c].pane] = c
  <2>1. CASE c = r
    BY <2>1, <1>8, <1>15
  <2>2. CASE c # r
    <3>1. InFlight(c) /\ c \notin aborted /\ req'[c] = req[c]
      BY <2>2, <1>1, <1>8, <1>17, <1>21
    <3>2. pending[req[c].pane] = c /\ req[c].pane \in Panes
      BY <3>1 DEF CallsInv, CallInv, PendingIsCurrent
    <3>3. c # None
      BY NoneAssumption
    <3>4. req[c].pane # q.pane
      BY <3>2, <3>3, <1>1, <1>21
    <3> QED BY <3>1, <3>2, <3>4, <1>15
  <2> QED BY <2>1, <2>2
<1>22. PendingIsCurrent'
  BY <1>20, <1>21 DEF PendingIsCurrent, InFlight
<1>23. CallInv'
  BY <1>15, <1>16, <1>19, <1>22 DEF CallInv, InFlight
<1> QED BY <1>14, <1>23 DEF CallsInv

\* The current call of a pane is canceled.
LEMMA CallCancels ==
    ASSUME CallsInv, NEW r \in Calls, Cancel(r)
    PROVE  CallsInv'
<1>1. PICK w, lim, pa : w = Waiting \ {r} /\ lim = Without(limiter, r) /\ pa = PcAborted({r})
  OBVIOUS
<1>2. /\ limit' = limit /\ focused' = focused /\ wasReset' = wasReset /\ req' = req
      /\ limiter' = lim /\ pc' = pa
      /\ aborted' = aborted \cup {r}
      /\ pending' = [pending EXCEPT ![req[r].pane] = None]
      /\ InFlight(r) /\ pending[req[r].pane] = r
  BY <1>1 DEF Cancel
<1>3. /\ pc \in [Calls -> Places] /\ req \in [Calls -> Params \cup {NoParams}]
      /\ pending \in [Panes -> Calls \cup {None}] /\ aborted \subseteq Calls
      /\ Semaphore(limiter, limit, Holders, Waiting, Priority(req))
      /\ limit \in Nat \ {0}
  BY DEF CallsInv, SlotInv, CallInv
<1>4. /\ pa \in [Calls -> Places]
      /\ \A c \in Calls : /\ pa[c] \in Holding <=> pc[c] \in Holding
                          /\ pa[c] = "queued" <=> pc[c] = "queued" /\ c # r
                          /\ pa[c] = "idle" <=> pc[c] = "idle"
                          /\ c # r => pa[c] = pc[c]
  BY <1>1, <1>3, AbortedPlaces
<1>5. Holders' = Holders /\ Waiting' = w /\ Priority(req)' = Priority(req)
  BY <1>1, <1>2, <1>4 DEF Holders, Waiting, Priority
<1>6. SlotInv'
  <2>1. Semaphore(lim, limit, Holders, w, Priority(req)) /\ lim.inUse = limiter.inUse
    BY <1>1, <1>3, WithoutCounts
  <2>2. ~wasReset => lim.inUse = Cardinality(Holders)
    BY <2>1 DEF CallsInv, SlotInv
  <2> QED BY <2>1, <2>2, <1>2, <1>3, <1>4, <1>5 DEF SlotInv
<1>7. req[r].pane \in Panes /\ r # None
  BY <1>2, NoneAssumption DEF CallsInv, CallInv
<1>8. /\ pending' \in [Panes -> Calls \cup {None}] /\ pending'[req[r].pane] = None
      /\ \A p \in Panes : p # req[r].pane => pending'[p] = pending[p]
  BY <1>2, <1>3, <1>7
<1>9. aborted' \subseteq Calls /\ \A c \in aborted' : pc'[c] # "idle"
  <2>1. pc[r] # "idle"
    BY <1>2 DEF InFlight, Holding
  <2> QED BY <2>1, <1>2, <1>3, <1>4 DEF CallsInv, CallInv
<1>10. \A c \in Calls : pc'[c] \in Holding \cup {"queued"} => InFlight(c)
  BY <1>2, <1>4 DEF InFlight
<1>11. \A c \in Calls : pc'[c] \in Holding \cup {"queued"} => req'[c].pane \in Panes
  BY <1>2, <1>10 DEF CallsInv, CallInv
<1>12. ASSUME NEW p \in Panes, NEW c, c = pending'[p], c # None
       PROVE  pc'[c] \in Holding \cup {"queued"} /\ c \notin aborted' /\ req'[c].pane = p
  <2>1. p # req[r].pane /\ c = pending[p] /\ c \in Calls
    BY <1>3, <1>8, <1>12
  <2>2. InFlight(c) /\ c \notin aborted /\ req[c].pane = p
    BY <2>1, <1>12 DEF CallsInv, CallInv, PendingIsCurrent
  <2>3. c # r
    BY <2>1, <2>2
  <2> QED BY <2>1, <2>2, <2>3, <1>2, <1>4 DEF InFlight
<1>13. ASSUME NEW c \in Calls, pc'[c] \in Holding \cup {"queued"}, c \notin aborted'
       PROVE  pending'[req'[c].pane] = c
  <2>1. InFlight(c) /\ c \notin aborted /\ c # r
    BY <1>2, <1>10, <1>13
  <2>2. pending[req[c].pane] = c /\ req[c].pane \in Panes
    BY <2>1 DEF CallsInv, CallInv, PendingIsCurrent
  <2> QED BY <2>1, <2>2, <1>2, <1>8
<1>14. PendingIsCurrent'
  BY <1>12, <1>13 DEF PendingIsCurrent, InFlight
<1>15. CallInv'
  BY <1>8, <1>9, <1>11, <1>14 DEF CallInv, InFlight
<1> QED BY <1>6, <1>15 DEF CallsInv

\* What reset() does to the places of the calls.
LEMMA ResetPlaces ==
    ASSUME CallsInv, Reset
    PROVE  \A c \in Calls : /\ pc'[c] \in Places
                            /\ pc'[c] \in Holding <=> pc[c] \in Holding
                            /\ pc'[c] # "queued"
                            /\ pc'[c] = "idle" => pc[c] = "idle"
                            /\ pc[c] = "done" => pc'[c] = "done"
                            /\ pc'[c] = "requested" => /\ pc[c] = "requested"
                                                       /\ c \notin {pending[p] : p \in Panes} \ {None}
                            /\ c \notin {pending[p] : p \in Panes} \ {None} /\ pc[c] # "queued"
                                 => pc'[c] = pc[c]
<1>1. PICK A, W, pa : /\ A = {pending[p] : p \in Panes} \ {None} /\ W = ToSet(limiter.queue)
                      /\ pa = PcAborted(A)
  OBVIOUS
<1>2. pc' = [r \in Calls |-> IF r \in W THEN "done" ELSE pa[r]]
  BY <1>1 DEF Reset
<1>3. W = Waiting
  <2>1. PICK q, w, prio : q = limiter.queue /\ w = Waiting /\ prio = Priority(req)
    OBVIOUS
  <2>2. QueueOf(q, w, prio)
    BY <2>1 DEF CallsInv, SlotInv, Semaphore
  <2>3. q \in Seq(Calls) /\ Members(q, Len(q)) = w
    BY <2>2 DEF QueueOf
  <2>4. ToSet(q) = w
    BY <2>3, QueueForms, Zenon
  <2> QED BY <2>1, <2>4, <1>1
<1>4. pc \in [Calls -> Places]
  BY DEF CallsInv, SlotInv
<1>5. \A c \in Calls : pa[c] = IF c \notin A THEN pc[c]
                               ELSE IF pc[c] = "queued" THEN "done"
                               ELSE IF pc[c] = "requested" THEN "failing" ELSE pc[c]
  BY <1>1 DEF PcAborted
<1>6. \A c \in Calls : c \in W <=> pc[c] = "queued"
  BY <1>3 DEF Waiting
<1> QED BY <1>1, <1>2, <1>4, <1>5, <1>6 DEF Places, Holding

\* reset() forgets the count and the queue, and aborts every current call.
LEMMA CallsReset ==
    ASSUME CallsInv, Reset
    PROVE  CallsInv'
<1>1. PICK A : A = {pending[p] : p \in Panes} \ {None}
  OBVIOUS
<1>2. /\ limit' = limit /\ wasReset' = TRUE /\ req' = req /\ focused' = focused
      /\ limiter' = NewSemaphore /\ aborted' = aborted \cup A
      /\ pending' = [p \in Panes |-> None]
      /\ DOMAIN pc' = Calls /\ pc' = [c \in Calls |-> pc'[c]]
  BY <1>1 DEF Reset
<1>3. \A c \in Calls : /\ pc'[c] \in Places
                       /\ pc'[c] \in Holding <=> pc[c] \in Holding
                       /\ pc'[c] # "queued"
                       /\ pc'[c] = "idle" => pc[c] = "idle"
  BY ResetPlaces
<1>4. pc' \in [Calls -> Places]
  BY <1>2, <1>3
<1>5. Holders' = Holders /\ Waiting' = {} /\ Priority(req)' = Priority(req)
  BY <1>2, <1>3 DEF Holders, Waiting, Priority
<1>6. SlotInv'
  <2>1. PICK lim : lim = limiter'
    OBVIOUS
  <2>2. lim = [inUse |-> lim.inUse, queue |-> lim.queue] /\ lim.inUse = 0 /\ lim.queue = <<>>
    BY <2>1, <1>2 DEF NewSemaphore
  <2>3. IsFiniteSet(Holders) /\ limit \in Nat \ {0} /\ req \in [Calls -> Params \cup {NoParams}]
    BY DEF CallsInv, SlotInv, Semaphore, SlotsOf
  <2>4. SlotsOf(lim.inUse, limit, Holders)
    BY <2>2, <2>3, FS_CardinalityType DEF SlotsOf
  <2>5. QueueOf(lim.queue, {}, Priority(req))
    BY <2>2, EmptyQueue
  <2>6. Semaphore(lim, limit, Holders, {}, Priority(req))
    BY <2>2, <2>3, <2>4, <2>5 DEF Semaphore
  <2> QED BY <2>1, <2>3, <2>6, <1>2, <1>4, <1>5 DEF SlotInv
<1>7. /\ pending \in [Panes -> Calls \cup {None}] /\ aborted \subseteq Calls
      /\ \A p \in Panes : pending[p] # None => InFlight(pending[p])
  BY DEF CallsInv, CallInv, PendingIsCurrent
<1>8. aborted' \subseteq Calls /\ \A c \in aborted' : pc'[c] # "idle"
  <2>1. \A c \in A : c \in Calls /\ pc[c] # "idle"
    BY <1>1, <1>7 DEF InFlight, Holding
  <2> QED BY <2>1, <1>2, <1>3, <1>7 DEF CallsInv, CallInv
<1>9. \A c \in Calls : pc'[c] \in Holding \cup {"queued"} => InFlight(c)
  BY <1>3 DEF InFlight
<1>10. \A c \in Calls : pc'[c] \in Holding \cup {"queued"} => req'[c].pane \in Panes
  BY <1>2, <1>9 DEF CallsInv, CallInv
<1>11. \A p \in Panes : pending'[p] = None
  BY <1>2
<1>12. ASSUME NEW c \in Calls, pc'[c] \in Holding \cup {"queued"} PROVE c \in aborted'
  <2>1. CASE c \in aborted
    BY <2>1, <1>2
  <2>2. CASE c \notin aborted
    <3>1. pending[req[c].pane] = c /\ req[c].pane \in Panes
      BY <2>2, <1>9, <1>12 DEF CallsInv, CallInv, PendingIsCurrent
    <3>2. c # None
      BY NoneAssumption
    <3> QED BY <3>1, <3>2, <1>1, <1>2
  <2> QED BY <2>1, <2>2
<1>13. PendingIsCurrent'
  BY <1>11, <1>12 DEF PendingIsCurrent, InFlight
<1>14. pending' \in [Panes -> Calls \cup {None}]
  BY <1>2
<1>15. CallInv'
  BY <1>8, <1>10, <1>13, <1>14 DEF CallInv, InFlight
<1> QED BY <1>6, <1>15 DEF CallsInv

\* Every step keeps slots and current calls.
LEMMA NextCalls ==
    ASSUME CallsInv, Next
    PROVE  CallsInv'
<1>1. ASSUME NEW r \in Calls, NEW p \in Panes, Refused(r, p) PROVE CallsInv'
  BY <1>1, CallGoesOn DEF Refused, Places
<1>2. ASSUME NEW r \in Calls, NEW q \in Params, Join(r, q) PROVE CallsInv'
  BY <1>2, CallGoesOn DEF Join, Places
<1>3. ASSUME NEW r \in Calls, NEW q \in Params, Start(r, q) PROVE CallsInv'
  BY <1>3, CallStarts
<1>4. ASSUME NEW r \in Calls, Cancel(r) PROVE CallsInv'
  BY <1>4, CallCancels
<1>5. \A r \in Calls : pc[r] \in {"granted", "probing", "reading", "cleaning", "requested", "failing"}
                         => pc[r] \in Holding
  BY DEF Holding
<1>6. {"probing", "reading", "cleaning", "requested"} \subseteq Holding \cap Places
  BY DEF Holding, Places
<1>7. ASSUME NEW r \in Calls, Granted(r) PROVE CallsInv'
  <2>1. pc[r] = "granted" /\ wasReset' = wasReset /\ (Settle(r) \/ GoTo(r, "probing"))
    BY <1>7 DEF Granted
  <2> QED BY <2>1, <1>5, <1>6, CallGoesOn, CallSettles
<1>8. ASSUME NEW r \in Calls, ProbeDone(r) PROVE CallsInv'
  <2>1. pc[r] = "probing" /\ wasReset' = wasReset
        /\ (Settle(r) \/ GoTo(r, "requested") \/ GoTo(r, "reading") \/ GoTo(r, "cleaning"))
    BY <1>8 DEF ProbeDone
  <2> QED BY <2>1, <1>5, <1>6, CallGoesOn, CallSettles
<1>9. ASSUME NEW r \in Calls, ReadRestored(r) PROVE CallsInv'
  BY <1>5, <1>9, CallSettles DEF ReadRestored
<1>10. ASSUME NEW r \in Calls, FilesDone(r) PROVE CallsInv'
  <2>1. pc[r] \in {"reading", "cleaning"} /\ wasReset' = wasReset
        /\ (Settle(r) \/ GoTo(r, "requested"))
    BY <1>10 DEF FilesDone
  <2> QED BY <2>1, <1>5, <1>6, CallGoesOn, CallSettles
<1>11. ASSUME NEW r \in Calls, Answer(r) PROVE CallsInv'
  BY <1>5, <1>11, CallSettles DEF Answer
<1>12. ASSUME NEW r \in Calls, RequestFails(r) PROVE CallsInv'
  BY <1>5, <1>12, CallSettles DEF RequestFails
<1>13. ASSUME NEW r \in Calls, HistoryInit(r) PROVE CallsInv'
  BY <1>13, CallsUntouched DEF HistoryInit
<1>14. ASSUME NEW p \in Panes,
              Kill(p) \/ ExitEvent(p) \/ SessionLost(p) \/ CleanupTimeout(p) \/ AckColdRestore(p)
       PROVE CallsInv'
  BY <1>14, CallsUntouched DEF Kill, ExitEvent, SessionLost, CleanupTimeout, AckColdRestore
<1>15. ASSUME NEW K \in SUBSET Panes, ForceKillAll(K) PROVE CallsInv'
  BY <1>15, CallsUntouched DEF ForceKillAll
<1>16. ASSUME ForceClosed \/ ForceKilled \/ ForceKillFails PROVE CallsInv'
  BY <1>16, CallsUntouched DEF ForceClosed, ForceKilled, ForceKillFails
<1>17. ASSUME Reset PROVE CallsInv'
  BY <1>17, CallsReset
<1> QED BY <1>1, <1>2, <1>3, <1>4, <1>7, <1>8, <1>9, <1>10, <1>11, <1>12, <1>13, <1>14, <1>15,
           <1>16, <1>17 DEF Next

\* What the end of a call does to the others.
LEMMA SettledPlaces ==
    ASSUME CallsInv, NEW r \in Calls, pc[r] \in Holding, Settle(r)
    PROVE  /\ aborted' = aborted /\ pc'[r] = "done"
           /\ \A c \in Calls : /\ pc[c] = "done" => pc'[c] = "done"
                               /\ pc'[c] = "requested" => pc[c] = "requested"
                               /\ req'[c].pane = req[c].pane
<1>1. PICK rel, g : rel = Released(limiter, limit) /\ g = rel.granted
  OBVIOUS
<1>2. /\ aborted' = aborted
      /\ pc' = [c \in Calls |-> IF c = r THEN "done" ELSE IF c \in g THEN "granted" ELSE pc[c]]
      /\ req' = [req EXCEPT ![r] = [pane |-> req[r].pane, join |-> FALSE, skip |-> FALSE]]
  BY <1>1 DEF Settle
<1>3. g \subseteq Waiting
  <2>1. Semaphore(limiter, limit, Holders, Waiting, Priority(req)) /\ r \in Holders
    BY DEF CallsInv, SlotInv, Holders
  <2>2. rel.granted \subseteq Waiting
    BY <2>1, <1>1, ReleasedCounts
  <2> QED BY <2>2, <1>1
<1>4. \A c \in g : pc[c] = "queued"
  BY <1>3 DEF Waiting
<1>5. req \in [Calls -> Params \cup {NoParams}]
  BY DEF CallsInv, SlotInv
<1>6. \A c \in Calls : req'[c].pane = req[c].pane
  <2>1. req'[r].pane = req[r].pane
    BY <1>2, <1>5
  <2>2. \A c \in Calls : c # r => req'[c] = req[c]
    BY <1>2, <1>5
  <2> QED BY <2>1, <2>2
<1> QED BY <1>2, <1>4, <1>6

\* A call that has ended stays so, and its pane; a call whose answer counts is not aborted.
PlacesKept ==
    /\ \A c \in Calls : pc[c] = "done" => pc'[c] = "done" /\ req'[c].pane = req[c].pane
    /\ aborted \subseteq aborted'
    /\ RequestInv'

\* Every step keeps the places of calls that have ended, and lets no aborted call be answered.
LEMMA NextPlaces ==
    ASSUME CallsInv, RequestInv, Next
    PROVE  PlacesKept
<1>1. ASSUME NEW r \in Calls, NEW where, GoTo(r, where), pc[r] # "done",
             where = "requested" => r \notin aborted
      PROVE  PlacesKept
  <2>1. pc \in [Calls -> Places]
    BY DEF CallsInv, SlotInv
  <2> QED BY <1>1, <2>1 DEF GoTo, PlacesKept, RequestInv
<1>2. ASSUME NEW r \in Calls, Settle(r), pc[r] \in Holding PROVE PlacesKept
  BY <1>2, SettledPlaces DEF PlacesKept, RequestInv
<1>3. ASSUME UNCHANGED callVars PROVE PlacesKept
  BY <1>3 DEF callVars, PlacesKept, RequestInv
<1>4. ASSUME NEW A, NEW pa, pa = PcAborted(A)
      PROVE  \A c \in Calls : /\ pc[c] = "done" => pa[c] = "done"
                              /\ pa[c] = "requested" => pc[c] = "requested" /\ c \notin A
  BY <1>4 DEF PcAborted
<1>5. ASSUME NEW r \in Calls, NEW p \in Panes, Refused(r, p) PROVE PlacesKept
  BY <1>5, <1>1 DEF Refused
<1>6. ASSUME NEW r \in Calls, NEW q \in Params, Join(r, q) PROVE PlacesKept
  BY <1>6, <1>1 DEF Join
<1>7. ASSUME NEW r \in Calls, NEW q \in Params, Start(r, q) PROVE PlacesKept
  <2>1. PICK old, pa, slot : /\ old = pending[q.pane] /\ pa = PcAborted({old})
                             /\ slot = HasSlot(Without(limiter, old), limit)
    OBVIOUS
  <2>2. /\ pc[r] = "idle" /\ aborted' = aborted \cup ({old} \ {None})
        /\ req' = [req EXCEPT ![r] = q]
        /\ pc' = [pa EXCEPT ![r] = IF slot THEN "granted" ELSE "queued"]
    BY <1>7, <2>1 DEF Start, Superseded
  <2>3. pa = [c \in Calls |-> pa[c]] /\ req \in [Calls -> Params \cup {NoParams}]
    BY <2>1 DEF PcAborted, CallsInv, SlotInv
  <2>4. \A c \in Calls : /\ pc[c] = "done" => pa[c] = "done"
                         /\ pa[c] = "requested" => pc[c] = "requested" /\ c \notin {old}
    BY <1>4, <2>1
  <2>5. ASSUME NEW c \in Calls, pc[c] = "done" PROVE pc'[c] = "done" /\ req'[c].pane = req[c].pane
    BY <2>2, <2>3, <2>4, <2>5
  <2>6. ASSUME NEW c \in Calls, pc'[c] = "requested" PROVE c \notin aborted'
    <3>1. c # r /\ pc'[c] = pa[c]
      BY <2>2, <2>3, <2>6
    <3>2. pc[c] = "requested" /\ c # old
      BY <3>1, <2>4, <2>6
    <3> QED BY <3>2, <2>2 DEF RequestInv
  <2> QED BY <2>2, <2>5, <2>6 DEF PlacesKept, RequestInv
<1>8. ASSUME NEW r \in Calls, Cancel(r) PROVE PlacesKept
  <2>1. PICK pa : pa = PcAborted({r})
    OBVIOUS
  <2>2. pc' = pa /\ aborted' = aborted \cup {r} /\ req' = req
    BY <1>8, <2>1 DEF Cancel
  <2>3. \A c \in Calls : /\ pc[c] = "done" => pa[c] = "done"
                         /\ pa[c] = "requested" => pc[c] = "requested" /\ c \notin {r}
    BY <1>4, <2>1
  <2> QED BY <2>2, <2>3 DEF PlacesKept, RequestInv
<1>9. \A r \in Calls : pc[r] \in {"granted", "probing", "reading", "cleaning", "requested", "failing"}
                         => pc[r] \in Holding /\ pc[r] # "done"
  BY DEF Holding
<1>10. ASSUME NEW r \in Calls, Granted(r) PROVE PlacesKept
  <2>1. pc[r] = "granted" /\ (Settle(r) \/ GoTo(r, "probing"))
    BY <1>10 DEF Granted
  <2> QED BY <2>1, <1>1, <1>2, <1>9
<1>11. ASSUME NEW r \in Calls, ProbeDone(r) PROVE PlacesKept
  <2>1. pc[r] = "probing"
        /\ (Settle(r) \/ (GoTo(r, "requested") /\ r \notin aborted) \/ GoTo(r, "reading")
              \/ GoTo(r, "cleaning"))
    BY <1>11 DEF ProbeDone
  <2> QED BY <2>1, <1>1, <1>2, <1>9
<1>12. ASSUME NEW r \in Calls, FilesDone(r) PROVE PlacesKept
  <2>1. pc[r] \in {"reading", "cleaning"} /\ (Settle(r) \/ (GoTo(r, "requested") /\ r \notin aborted))
    BY <1>12 DEF FilesDone
  <2> QED BY <2>1, <1>1, <1>2, <1>9
<1>13. ASSUME NEW r \in Calls, ReadRestored(r) \/ Answer(r) \/ RequestFails(r) PROVE PlacesKept
  BY <1>13, <1>2, <1>9 DEF ReadRestored, Answer, RequestFails
<1>14. ASSUME NEW r \in Calls, HistoryInit(r) PROVE PlacesKept
  BY <1>14, <1>3 DEF HistoryInit
<1>15. ASSUME NEW p \in Panes,
              Kill(p) \/ ExitEvent(p) \/ SessionLost(p) \/ CleanupTimeout(p) \/ AckColdRestore(p)
       PROVE PlacesKept
  BY <1>15, <1>3 DEF Kill, ExitEvent, SessionLost, CleanupTimeout, AckColdRestore
<1>16. ASSUME NEW K \in SUBSET Panes, ForceKillAll(K) PROVE PlacesKept
  BY <1>16, <1>3 DEF ForceKillAll
<1>17. ASSUME ForceClosed \/ ForceKilled \/ ForceKillFails PROVE PlacesKept
  BY <1>17, <1>3 DEF ForceClosed, ForceKilled, ForceKillFails
<1>18. ASSUME Reset PROVE PlacesKept
  <2>1. PICK A : A = {pending[p] : p \in Panes} \ {None}
    OBVIOUS
  <2>2. aborted' = aborted \cup A /\ req' = req
    BY <1>18, <2>1 DEF Reset
  <2>3. \A c \in Calls : /\ pc[c] = "done" => pc'[c] = "done"
                         /\ pc'[c] = "requested" => pc[c] = "requested" /\ c \notin A
    BY <1>18, <2>1, ResetPlaces
  <2> QED BY <2>2, <2>3 DEF PlacesKept, RequestInv
<1> QED BY <1>5, <1>6, <1>7, <1>8, <1>10, <1>11, <1>12, <1>13, <1>14, <1>15, <1>16, <1>17, <1>18
        DEF Next

-----------------------------------------------------------------------------
(* Entries, timers and history writers *)

\* Fewer writers initialise, and those that do belong to the same panes.
LEMMA InitsKept ==
    ASSUME EntryInv, PlacesKept, inits' \subseteq inits
    PROVE  /\ inits' \subseteq {r \in Calls : pc[r] = "done"}'
           /\ \A r \in inits' : req'[r].pane = req[r].pane /\ req'[r].pane \in Panes /\ r \in Calls
BY DEF EntryInv, PlacesKept

\* A step that leaves entries, timers and writers alone.
LEMMA EntryKept ==
    ASSUME EntryInv, PlacesKept,
           UNCHANGED <<sessions, timers, historyVars, forcing, upsets, late>>
    PROVE  EntryInv'
<1>1. /\ sessions' = sessions /\ timers' = timers /\ inits' = inits /\ writer' = writer
      /\ forcing' = forcing /\ upsets' = upsets /\ late' = late
  BY DEF historyVars
<1>2. /\ inits' \subseteq {r \in Calls : pc[r] = "done"}'
      /\ \A r \in inits' : req'[r].pane = req[r].pane /\ req'[r].pane \in Panes
  BY <1>1, InitsKept
<1> QED BY <1>1, <1>2 DEF EntryInv, ExitedHasTimer, HistoryEndsWithSession

\* The late end of a writer's init.
LEMMA EntryInit ==
    ASSUME EntryInv, PlacesKept, NEW r \in Calls, HistoryInit(r)
    PROVE  EntryInv'
<1>1. /\ sessions' = sessions /\ timers' = timers /\ forcing' = forcing /\ upsets' = upsets
      /\ late' = late /\ r \in inits /\ inits' = inits \ {r}
      /\ writer' = [writer EXCEPT ![req[r].pane] = r] \/ writer' = writer
  BY DEF HistoryInit, tableVars
<1>2. /\ inits' \subseteq {c \in Calls : pc[c] = "done"}'
      /\ \A c \in inits' : req'[c].pane = req[c].pane /\ req'[c].pane \in Panes
  BY <1>1, InitsKept
<1>3. req[r].pane \in Panes /\ writer \in [Panes -> Calls \cup {None}]
  BY <1>1 DEF EntryInv
<1>4. /\ writer' \in [Panes -> Calls \cup {None}]
      /\ \A p \in Panes : writer'[p] = writer[p] \/ (writer'[p] = r /\ p = req[r].pane)
  BY <1>1, <1>3
<1>5. HistoryEndsWithSession'
  BY <1>1, <1>4 DEF EntryInv, HistoryEndsWithSession
<1> QED BY <1>1, <1>2, <1>4, <1>5 DEF EntryInv, ExitedHasTimer

\* The answer registers a live session and cancels the cleanup that is listed.
LEMMA EntryAnswer ==
    ASSUME CallsInv, EntryInv, PlacesKept, NEW r \in Calls, Answer(r)
    PROVE  EntryInv'
<1> DEFINE p == req[r].pane
<1>1. /\ timers' = [timers EXCEPT ![p] = Unlisted(timers[p])]
      /\ sessions' = [sessions EXCEPT ![p] = [by |-> r, state |-> "alive"]]
      /\ inits' = inits \cup {r} /\ pc[r] = "requested" /\ Settle(r)
      /\ writer' = writer /\ forcing' = forcing /\ upsets' = upsets /\ late' = late
  BY DEF Answer
<1>2. pc'[r] = "done" /\ req'[r].pane = p /\ p \in Panes
  <2>1. pc[r] \in Holding /\ InFlight(r)
    BY <1>1 DEF Holding, InFlight
  <2> QED BY <2>1, <1>1, SettledPlaces DEF CallsInv, CallInv
<1>3. /\ inits' \subseteq {c \in Calls : pc[c] = "done"}'
      /\ \A c \in inits : req'[c].pane = req[c].pane
      /\ \A c \in inits' : req'[c].pane \in Panes
  BY <1>1, <1>2 DEF EntryInv, PlacesKept
<1>4. /\ sessions' \in [Panes -> [by: Calls \cup {None},
                                  state: {"none", "alive", "killed", "exited", "lost"}]]
      /\ sessions'[p].state = "alive" /\ \A x \in Panes : x # p => sessions'[x] = sessions[x]
  BY <1>1, <1>2 DEF EntryInv
<1>5. Unlisted(timers[p]) \in [armed: 0..upsets, listed: BOOLEAN] /\ ~Unlisted(timers[p]).listed
  BY <1>2 DEF EntryInv, Unlisted
<1>6. /\ timers' \in [Panes -> [armed: 0..upsets, listed: BOOLEAN]] /\ ~timers'[p].listed
      /\ \A x \in Panes : x # p => timers'[x] = timers[x]
  BY <1>1, <1>2, <1>5 DEF EntryInv
<1>7. ExitedHasTimer'
  BY <1>1, <1>4, <1>6 DEF EntryInv, ExitedHasTimer
<1>8. HistoryEndsWithSession'
  BY <1>1, <1>4 DEF EntryInv, HistoryEndsWithSession
<1>9. ASSUME forcing' # "closing", NEW c \in inits', sessions'[req'[c].pane].state \in {"killed", "exited"}
      PROVE  c \in late'
  <2>1. c # r
    BY <1>2, <1>4, <1>9
  <2>2. c \in inits /\ req'[c].pane = req[c].pane /\ req[c].pane # p /\ req[c].pane \in Panes
    BY <2>1, <1>1, <1>3, <1>4, <1>9
  <2> QED BY <2>2, <1>1, <1>4, <1>9 DEF EntryInv
<1> QED BY <1>1, <1>3, <1>4, <1>6, <1>7, <1>8, <1>9 DEF EntryInv

\* A writer is closed to delete a history.
LEMMA EntryWriterClosed ==
    ASSUME EntryInv, PlacesKept, NEW p \in Panes, writer' = WriterClosed(p),
           UNCHANGED <<sessions, timers, inits, forcing, upsets, late>>
    PROVE  EntryInv'
<1>1. /\ inits' \subseteq {c \in Calls : pc[c] = "done"}'
      /\ \A c \in inits' : req'[c].pane = req[c].pane /\ req'[c].pane \in Panes
  BY InitsKept
<1>2. /\ writer' \in [Panes -> Calls \cup {None}]
      /\ \A x \in Panes : writer'[x] = writer[x] \/ writer'[x] = None
  BY DEF EntryInv, WriterClosed
<1>3. HistoryEndsWithSession'
  BY <1>2 DEF EntryInv, HistoryEndsWithSession
<1> QED BY <1>1, <1>2, <1>3 DEF EntryInv, ExitedHasTimer

\* kill() and an exit: the writer is closed, those that initialise are late.
LEMMA EntryEnds ==
    ASSUME EntryInv, PlacesKept, NEW p \in Panes,
           /\ Upset /\ writer' = WriterClosed(p) /\ late' = late \cup InitsOf(p)
           /\ inits' = inits /\ req' = req /\ forcing' = forcing,
           NEW st \in {"none", "alive", "killed", "exited", "lost"},
           sessions' = [sessions EXCEPT ![p].state = st],
           \/ timers' = timers /\ (st = "exited" => sessions[p].state = "exited")
           \/ timers' = ArmCleanup(p)
    PROVE  EntryInv'
<1>1. /\ upsets \in 0..MaxUpsets /\ upsets' = upsets + 1 /\ upsets' \in 0..MaxUpsets
  BY BoundAssumption DEF EntryInv, Upset
<1>2. /\ inits' \subseteq {c \in Calls : pc[c] = "done"}'
      /\ \A c \in inits' : req'[c].pane \in Panes /\ c \in Calls
  BY InitsKept
<1>3. /\ writer' \in [Panes -> Calls \cup {None}] /\ writer'[p] = None
      /\ \A x \in Panes : x # p => writer'[x] = writer[x]
  BY DEF EntryInv, WriterClosed
<1>4. /\ sessions' \in [Panes -> [by: Calls \cup {None},
                                  state: {"none", "alive", "killed", "exited", "lost"}]]
      /\ sessions'[p].state = st /\ \A x \in Panes : x # p => sessions'[x] = sessions[x]
  BY DEF EntryInv
<1>5. timers \in [Panes -> [armed: 0..upsets, listed: BOOLEAN]]
  BY DEF EntryInv
<1>6. /\ timers' \in [Panes -> [armed: 0..upsets', listed: BOOLEAN]]
      /\ \A x \in Panes : timers'[x].listed => timers'[x].armed > 0
      /\ \A x \in Panes : x # p => timers'[x] = timers[x]
      /\ timers'[p].armed >= timers[p].armed
      /\ st = "exited" /\ sessions[p].state # "exited" => timers'[p].armed > 0
  <2>1. CASE timers' = timers /\ (st = "exited" => sessions[p].state = "exited")
    BY <2>1, <1>1, <1>5 DEF EntryInv
  <2>2. CASE timers' = ArmCleanup(p)
    <3>1. /\ timers' = [timers EXCEPT ![p] = [armed |-> timers[p].armed + 1, listed |-> TRUE]]
          /\ timers[p].armed \in 0..upsets
      BY <2>2, <1>5 DEF ArmCleanup
    <3> QED BY <3>1, <1>1, <1>5 DEF EntryInv
  <2> QED BY <2>1, <2>2
<1>7. ExitedHasTimer'
  <2>1. ASSUME forcing' = "no", NEW x \in Panes, sessions'[x].state = "exited" PROVE timers'[x].armed > 0
    <3>1. CASE x # p
      BY <2>1, <3>1, <1>4, <1>6 DEF EntryInv, ExitedHasTimer
    <3>2. CASE x = p
      <4>1. timers[p].armed \in Nat /\ timers'[p].armed \in Nat
        BY <1>1, <1>5, <1>6
      <4>2. sessions[p].state = "exited" => timers[p].armed > 0
        BY <2>1 DEF EntryInv, ExitedHasTimer
      <4> QED BY <2>1, <3>2, <4>1, <4>2, <1>4, <1>6
    <3> QED BY <3>1, <3>2
  <2> QED BY <2>1 DEF ExitedHasTimer
<1>8. HistoryEndsWithSession'
  BY <1>3, <1>4 DEF EntryInv, HistoryEndsWithSession
<1>9. late' \subseteq Calls
  BY DEF EntryInv, InitsOf
<1>10. ASSUME forcing' # "closing", NEW c \in inits', sessions'[req'[c].pane].state \in {"killed", "exited"}
       PROVE  c \in late'
  BY <1>2, <1>4, <1>10 DEF EntryInv, InitsOf
<1> QED BY <1>1, <1>2, <1>3, <1>4, <1>6, <1>7, <1>8, <1>9, <1>10 DEF EntryInv

\* A session that the daemon does not know.
LEMMA EntryLost ==
    ASSUME EntryInv, PlacesKept, NEW p \in Panes, SessionLost(p)
    PROVE  EntryInv'
<1>1. /\ timers' = timers /\ inits' = inits /\ writer' = writer /\ forcing' = forcing /\ late' = late
      /\ Upset /\ sessions' = [sessions EXCEPT ![p].state = "lost"] /\ req' = req
  BY DEF SessionLost, historyVars, callVars
<1>2. upsets \in 0..MaxUpsets /\ upsets' = upsets + 1 /\ upsets' \in 0..MaxUpsets
  BY <1>1, BoundAssumption DEF EntryInv, Upset
<1>3. /\ inits' \subseteq {c \in Calls : pc[c] = "done"}'
      /\ \A c \in inits' : req'[c].pane \in Panes /\ c \in Calls
  BY <1>1, InitsKept
<1>4. /\ sessions' \in [Panes -> [by: Calls \cup {None},
                                  state: {"none", "alive", "killed", "exited", "lost"}]]
      /\ sessions'[p].state = "lost" /\ \A x \in Panes : x # p => sessions'[x] = sessions[x]
  BY <1>1 DEF EntryInv
<1>5. timers' \in [Panes -> [armed: 0..upsets', listed: BOOLEAN]]
  BY <1>1, <1>2 DEF EntryInv
<1>6. ExitedHasTimer' /\ HistoryEndsWithSession'
  BY <1>1, <1>4 DEF EntryInv, ExitedHasTimer, HistoryEndsWithSession
<1> QED BY <1>1, <1>2, <1>3, <1>4, <1>5, <1>6 DEF EntryInv

\* A cleanup timer takes the entry away, whichever timer it is.
LEMMA EntryTimeout ==
    ASSUME EntryInv, PlacesKept, NEW p \in Panes, CleanupTimeout(p)
    PROVE  EntryInv'
<1>1. /\ inits' = inits /\ writer' = writer /\ forcing' = forcing /\ late' = late /\ req' = req
      /\ upsets' = upsets /\ timers[p].armed > 0
      /\ timers' = [timers EXCEPT ![p] = [armed |-> timers[p].armed - 1, listed |-> FALSE]]
      /\ sessions' = [sessions EXCEPT ![p] = NoSession]
  BY DEF CleanupTimeout, historyVars, callVars
<1>2. /\ inits' \subseteq {c \in Calls : pc[c] = "done"}'
      /\ \A c \in inits' : req'[c].pane \in Panes /\ c \in Calls
  BY <1>1, InitsKept
<1>3. /\ sessions' \in [Panes -> [by: Calls \cup {None},
                                  state: {"none", "alive", "killed", "exited", "lost"}]]
      /\ sessions'[p].state = "none" /\ \A x \in Panes : x # p => sessions'[x] = sessions[x]
  BY <1>1 DEF EntryInv, NoSession
<1>4. /\ timers' \in [Panes -> [armed: 0..upsets', listed: BOOLEAN]] /\ ~timers'[p].listed
      /\ \A x \in Panes : x # p => timers'[x] = timers[x]
  <2>1. timers[p].armed \in 0..upsets /\ upsets \in Nat
    BY DEF EntryInv
  <2>2. [armed |-> timers[p].armed - 1, listed |-> FALSE] \in [armed: 0..upsets, listed: BOOLEAN]
    BY <2>1, <1>1
  <2> QED BY <2>2, <1>1 DEF EntryInv
<1>5. ExitedHasTimer' /\ HistoryEndsWithSession'
  BY <1>1, <1>3, <1>4 DEF EntryInv, ExitedHasTimer, HistoryEndsWithSession
<1> QED BY <1>1, <1>2, <1>3, <1>4, <1>5 DEF EntryInv

\* All listed timers are cleared.
LEMMA ListedCleared ==
    ASSUME EntryInv, timers' = AllUnlisted, upsets' \in Nat, upsets <= upsets'
    PROVE  /\ timers' \in [Panes -> [armed: 0..upsets', listed: BOOLEAN]]
           /\ \A p \in Panes : ~timers'[p].listed
<1>1. ASSUME NEW p \in Panes
      PROVE  Unlisted(timers[p]) \in [armed: 0..upsets', listed: BOOLEAN] /\ ~Unlisted(timers[p]).listed
  <2>1. upsets \in Nat /\ timers[p] \in [armed: 0..upsets, listed: BOOLEAN]
        /\ (timers[p].listed => timers[p].armed > 0)
    BY DEF EntryInv
  <2> QED BY <2>1 DEF Unlisted
<1> QED BY <1>1 DEF AllUnlisted

\* forceKillAll() clears timers before the entries go.
LEMMA EntryForceKillAll ==
    ASSUME EntryInv, PlacesKept, NEW K \in SUBSET Panes, ForceKillAll(K)
    PROVE  EntryInv'
<1>1. /\ inits' = inits /\ writer' = writer /\ forcing' = "closing" /\ late' = late /\ req' = req
      /\ Upset /\ timers' = AllUnlisted
      /\ sessions' = [p \in Panes |-> IF p \in K /\ sessions[p].state = "alive"
                                      THEN [sessions[p] EXCEPT !.state = "killed"] ELSE sessions[p]]
  BY DEF ForceKillAll, historyVars, callVars
<1>2. upsets \in 0..MaxUpsets /\ upsets' = upsets + 1 /\ upsets' \in 0..MaxUpsets
  BY <1>1, BoundAssumption DEF EntryInv, Upset
<1>3. /\ inits' \subseteq {c \in Calls : pc[c] = "done"}'
      /\ \A c \in inits' : req'[c].pane \in Panes
  BY <1>1, InitsKept
<1>4. sessions' \in [Panes -> [by: Calls \cup {None},
                               state: {"none", "alive", "killed", "exited", "lost"}]]
  BY <1>1 DEF EntryInv
<1>5. /\ timers' \in [Panes -> [armed: 0..upsets', listed: BOOLEAN]]
      /\ \A p \in Panes : ~timers'[p].listed
  BY <1>1, <1>2, ListedCleared
<1> QED BY <1>1, <1>2, <1>3, <1>4, <1>5 DEF EntryInv, ExitedHasTimer, HistoryEndsWithSession

\* The rest of forceKillAll(), or its failure.
LEMMA EntryForced ==
    ASSUME EntryInv, PlacesKept, ForceClosed \/ ForceKilled \/ ForceKillFails
    PROVE  EntryInv'
<1>1. /\ inits' = inits /\ timers' = timers /\ upsets' = upsets
      /\ \/ /\ forcing' = "killing" /\ writer' = [p \in Panes |-> None] /\ late' = late \cup inits
            /\ sessions' = sessions
         \/ /\ forcing' = "no" /\ sessions' = [p \in Panes |-> NoSession]
            /\ writer' = writer /\ late' = late
         \/ /\ forcing = "killing" /\ forcing' = "failed"
            /\ writer' = writer /\ late' = late /\ sessions' = sessions
  BY DEF ForceClosed, ForceKilled, ForceKillFails, historyVars, tableVars
<1>2. /\ inits' \subseteq {c \in Calls : pc[c] = "done"}'
      /\ \A c \in inits' : req'[c].pane = req[c].pane /\ req'[c].pane \in Panes /\ c \in Calls
  BY <1>1, InitsKept
<1>3. /\ sessions' \in [Panes -> [by: Calls \cup {None},
                                  state: {"none", "alive", "killed", "exited", "lost"}]]
      /\ writer' \in [Panes -> Calls \cup {None}] /\ late' \subseteq Calls
  BY <1>1, <1>2 DEF EntryInv, NoSession
<1>4. ExitedHasTimer'
  BY <1>1 DEF EntryInv, ExitedHasTimer, NoSession
<1>5. HistoryEndsWithSession'
  BY <1>1 DEF EntryInv, HistoryEndsWithSession, NoSession
<1>6. ASSUME forcing' # "closing", NEW c \in inits', sessions'[req'[c].pane].state \in {"killed", "exited"}
      PROVE  c \in late'
  BY <1>1, <1>2, <1>6 DEF EntryInv, NoSession
<1> QED BY <1>1, <1>2, <1>3, <1>4, <1>5, <1>6 DEF EntryInv

\* reset() clears all of it.
LEMMA EntryReset ==
    ASSUME EntryInv, PlacesKept, Reset
    PROVE  EntryInv'
<1>1. /\ inits' = inits /\ writer' = [p \in Panes |-> None] /\ forcing' = forcing /\ late' = late
      /\ Upset /\ timers' = AllUnlisted /\ sessions' = [p \in Panes |-> NoSession]
  BY DEF Reset
<1>2. upsets \in 0..MaxUpsets /\ upsets' = upsets + 1 /\ upsets' \in 0..MaxUpsets
  BY <1>1, BoundAssumption DEF EntryInv, Upset
<1>3. /\ inits' \subseteq {c \in Calls : pc[c] = "done"}'
      /\ \A c \in inits' : req'[c].pane \in Panes
  BY <1>1, InitsKept
<1>4. /\ sessions' \in [Panes -> [by: Calls \cup {None},
                                  state: {"none", "alive", "killed", "exited", "lost"}]]
      /\ \A p \in Panes : sessions'[p].state = "none"
  BY <1>1 DEF NoSession
<1>5. /\ timers' \in [Panes -> [armed: 0..upsets', listed: BOOLEAN]]
      /\ \A p \in Panes : ~timers'[p].listed
  BY <1>1, <1>2, ListedCleared
<1> QED BY <1>1, <1>2, <1>3, <1>4, <1>5 DEF EntryInv, ExitedHasTimer, HistoryEndsWithSession

\* Every step keeps entries, timers and writers.
LEMMA NextEntry ==
    ASSUME CallsInv, EntryInv, PlacesKept, Next
    PROVE  EntryInv'
<1>1. ASSUME NEW r \in Calls, \/ \E p \in Panes : Refused(r, p)
                              \/ \E q \in Params : Join(r, q) \/ Start(r, q)
                              \/ Cancel(r) \/ Granted(r) \/ ReadRestored(r) \/ FilesDone(r)
                              \/ RequestFails(r)
      PROVE  EntryInv'
  <2>1. UNCHANGED <<sessions, timers, historyVars, forcing, upsets, late>>
    BY <1>1 DEF Refused, Join, Start, Cancel, Granted, ReadRestored, FilesDone, RequestFails, tableVars
  <2> QED BY <2>1, EntryKept
<1>2. ASSUME NEW r \in Calls, ProbeDone(r) PROVE EntryInv'
  <2>1. UNCHANGED <<sessions, timers, inits, forcing, upsets, late>>
    BY <1>2 DEF ProbeDone, tableVars
  <2>2. CASE writer' = writer
    BY <2>1, <2>2, EntryKept DEF historyVars
  <2>3. CASE writer' = WriterClosed(req[r].pane)
    <3>1. req[r].pane \in Panes
      BY <1>2 DEF ProbeDone, CallsInv, CallInv, InFlight, Holding
    <3> QED BY <2>1, <2>3, <3>1, EntryWriterClosed
  <2> QED BY <1>2, <2>2, <2>3 DEF ProbeDone
<1>3. ASSUME NEW r \in Calls, Answer(r) PROVE EntryInv'
  BY <1>3, EntryAnswer
<1>4. ASSUME NEW r \in Calls, HistoryInit(r) PROVE EntryInv'
  BY <1>4, EntryInit
<1>5. ASSUME NEW p \in Panes, Kill(p) PROVE EntryInv'
  <2>1. PICK st : st = IF sessions[p].state = "alive" THEN "killed" ELSE sessions[p].state
    OBVIOUS
  <2>2. /\ st \in {"none", "alive", "killed", "exited", "lost"}
        /\ st = "exited" => sessions[p].state = "exited"
    BY <2>1 DEF EntryInv
  <2>3. sessions' = [sessions EXCEPT ![p].state = st]
    BY <1>5, <2>1 DEF Kill
  <2>4. /\ Upset /\ writer' = WriterClosed(p) /\ late' = late \cup InitsOf(p)
        /\ inits' = inits /\ req' = req /\ forcing' = forcing /\ timers' = timers
    BY <1>5 DEF Kill, callVars
  <2> QED BY <2>2, <2>3, <2>4, EntryEnds
<1>6. ASSUME NEW p \in Panes, ExitEvent(p) PROVE EntryInv'
  <2>1. PICK st : st = IF sessions[p].state = "none" THEN "none" ELSE "exited"
    OBVIOUS
  <2>2. st \in {"none", "alive", "killed", "exited", "lost"}
    BY <2>1
  <2>3. sessions' = [sessions EXCEPT ![p].state = st]
    BY <1>6, <2>1 DEF ExitEvent
  <2>4. /\ Upset /\ writer' = WriterClosed(p) /\ late' = late \cup InitsOf(p)
        /\ inits' = inits /\ req' = req /\ forcing' = forcing /\ timers' = ArmCleanup(p)
    BY <1>6 DEF ExitEvent, callVars
  <2> QED BY <2>2, <2>3, <2>4, EntryEnds
<1>7. ASSUME NEW p \in Panes, SessionLost(p) PROVE EntryInv'
  BY <1>7, EntryLost
<1>8. ASSUME NEW p \in Panes, CleanupTimeout(p) PROVE EntryInv'
  BY <1>8, EntryTimeout
<1>9. ASSUME NEW p \in Panes, AckColdRestore(p) PROVE EntryInv'
  BY <1>9, EntryKept DEF AckColdRestore
<1>10. ASSUME NEW K \in SUBSET Panes, ForceKillAll(K) PROVE EntryInv'
  BY <1>10, EntryForceKillAll
<1>11. ASSUME ForceClosed \/ ForceKilled \/ ForceKillFails PROVE EntryInv'
  BY <1>11, EntryForced
<1>12. ASSUME Reset PROVE EntryInv'
  BY <1>12, EntryReset
<1> QED BY <1>1, <1>2, <1>3, <1>4, <1>5, <1>6, <1>7, <1>8, <1>9, <1>10, <1>11, <1>12 DEF Next

-----------------------------------------------------------------------------
(* Restored scrollback *)

\* A call that still reads while another one of its pane is answered has been aborted.
LEMMA NextRestore ==
    ASSUME CallsInv, RequestInv, RestoreInv, PlacesKept, Next
    PROVE  RestoreInv'
<1>1. limit' = limit /\ focused' = focused
  BY DEF Next, Refused, Join, Start, Cancel, Granted, ProbeDone, ReadRestored, FilesDone, Answer,
         RequestFails, HistoryInit, Kill, ExitEvent, SessionLost, CleanupTimeout, AckColdRestore,
         ForceKillAll, ForceClosed, ForceKilled, ForceKillFails, Reset, GoTo, Settle, semVars
<1>2. killed' \subseteq Panes /\ wasReset' \in BOOLEAN
  <2>1. wasReset' \in {wasReset, TRUE}
    BY DEF Next, Refused, Join, Start, Cancel, Granted, ProbeDone, ReadRestored, FilesDone, Answer,
           RequestFails, HistoryInit, Kill, ExitEvent, SessionLost, CleanupTimeout, AckColdRestore,
           ForceKillAll, ForceClosed, ForceKilled, ForceKillFails, Reset
  <2>2. killed' \subseteq killed \/ (\E p \in Panes : killed' = killed \cup {p})
        \/ (\E K \in SUBSET Panes : killed' = killed \cup K)
    BY DEF Next, Refused, Join, Start, Cancel, Granted, ProbeDone, ReadRestored, FilesDone, Answer,
           RequestFails, HistoryInit, Kill, ExitEvent, SessionLost, CleanupTimeout, AckColdRestore,
           ForceKillAll, ForceClosed, ForceKilled, ForceKillFails, Reset, tableVars
  <2> QED BY <2>1, <2>2 DEF RestoreInv
<1>3. restore' \in [Panes -> Calls \cup {None}]
  <2> DEFINE T == [Panes -> Calls \cup {None}]
  <2>1. restore \in T
    BY DEF RestoreInv
  <2>2. ASSUME NEW x, NEW v \in Calls \cup {None}, restore' = [restore EXCEPT ![x] = v]
        PROVE  restore' \in T
    BY <2>1, <2>2
  <2>3. ASSUME NEW r \in Calls, Granted(r) PROVE restore' \in T
    BY <2>1, <2>2, <2>3 DEF Granted
  <2>4. ASSUME NEW r \in Calls, ReadRestored(r) PROVE restore' \in T
    BY <2>2, <2>4 DEF ReadRestored
  <2>5. ASSUME NEW p, AckColdRestore(p) PROVE restore' \in T
    BY <2>2, <2>5 DEF AckColdRestore
  <2>6. ASSUME ForceKilled \/ Reset PROVE restore' \in T
    BY <2>6 DEF ForceKilled, Reset
  <2>7. ASSUME restore' = restore PROVE restore' \in T
    BY <2>1, <2>7
  <2> QED BY <2>3, <2>4, <2>5, <2>6, <2>7
          DEF Next, Refused, Join, Start, Cancel, ProbeDone, FilesDone, Answer, RequestFails,
              HistoryInit, Kill, ExitEvent, SessionLost, CleanupTimeout, ForceKillAll,
              ForceClosed, ForceKillFails, tableVars
<1>4. overtaken' \subseteq aborted'
  <2>1. aborted \subseteq aborted'
    BY DEF PlacesKept
  <2>2. ASSUME NEW r \in Calls, Answer(r) PROVE overtaken' \subseteq aborted
    <3>1. /\ pc[r] = "requested"
          /\ overtaken' = overtaken \cup {c \in Calls : pc[c] = "reading" /\ req[c].pane = req[r].pane}
      BY <2>2 DEF Answer
    <3>2. pending[req[r].pane] = r
      BY <3>1 DEF RequestInv, CallsInv, CallInv, PendingIsCurrent, InFlight, Holding
    <3>3. ASSUME NEW c \in Calls, pc[c] = "reading", req[c].pane = req[r].pane PROVE c \in aborted
      BY <3>1, <3>2, <3>3 DEF CallsInv, CallInv, PendingIsCurrent, InFlight, Holding
    <3> QED BY <3>1, <3>3 DEF RestoreInv
  <2>3. (\E r \in Calls : Answer(r)) \/ overtaken' = overtaken
    BY DEF Next, Refused, Join, Start, Cancel, Granted, ProbeDone, ReadRestored, FilesDone,
         RequestFails, HistoryInit, Kill, ExitEvent, SessionLost, CleanupTimeout, AckColdRestore,
         ForceKillAll, ForceClosed, ForceKilled, ForceKillFails, Reset
  <2> QED BY <2>1, <2>2, <2>3 DEF RestoreInv
<1> QED BY <1>1, <1>2, <1>3, <1>4 DEF RestoreInv

-----------------------------------------------------------------------------
(* What holds of every behaviour *)

\* The inductive invariant holds of every behaviour.
LEMMA Inductive == Spec => []Inv
<1>1. Init => Inv
  <2> SUFFICES ASSUME Init PROVE Inv
    OBVIOUS
  <2>1. CallsInv
    BY InitCalls
  <2>2. RequestInv
    BY DEF Init, RequestInv
  <2>3. EntryInv
    BY BoundAssumption DEF Init, EntryInv, ExitedHasTimer, HistoryEndsWithSession, NoSession, NoTimer
  <2>4. RestoreInv
    BY DEF Init, RestoreInv
  <2> QED BY <2>1, <2>2, <2>3, <2>4 DEF Inv, CallsInv
<1>2. ASSUME Inv, Next PROVE Inv'
  <2>1. CallsInv /\ RequestInv /\ EntryInv /\ RestoreInv
    BY <1>2 DEF Inv, CallsInv
  <2>2. CallsInv'
    BY <1>2, <2>1, NextCalls
  <2>3. PlacesKept
    BY <1>2, <2>1, NextPlaces
  <2>4. EntryInv'
    BY <1>2, <2>1, <2>3, NextEntry
  <2>5. RestoreInv'
    BY <1>2, <2>1, <2>3, NextRestore
  <2> QED BY <2>2, <2>3, <2>4, <2>5 DEF Inv, CallsInv, PlacesKept
<1>3. ASSUME Inv, UNCHANGED vars PROVE Inv'
  <2>1. CallsInv /\ RequestInv /\ EntryInv /\ RestoreInv
    BY <1>3 DEF Inv, CallsInv
  <2>2. UNCHANGED <<semVars, callVars, wasReset>>
    BY <1>3 DEF vars
  <2>3. CallsInv'
    BY <2>1, <2>2, CallsUntouched
  <2>4. PlacesKept
    BY <2>1, <2>2 DEF PlacesKept, RequestInv, callVars
  <2>5. EntryInv'
    <3>1. UNCHANGED <<sessions, timers, historyVars, forcing, upsets, late>>
      BY <1>3 DEF vars, tableVars
    <3> QED BY <2>1, <2>4, <3>1, EntryKept
  <2>6. RestoreInv'
    BY <1>3, <2>1 DEF vars, semVars, callVars, tableVars, RestoreInv
  <2> QED BY <2>3, <2>4, <2>5, <2>6 DEF Inv, CallsInv, PlacesKept
<1> QED BY <1>1, <1>2, <1>3, PTL DEF Spec

\* Every slot that the semaphore counts has a holder, all holders are counted until a
\* reset() forgets them, and the queue holds exactly the waiting calls, each once and by
\* priority, and only while all slots are taken (priority-semaphore.ts, and the finally
\* blocks, the aborts and reset() of daemon-manager.ts that use it).
THEOREM SlotsCorrect == Spec => []SlotsCounted
<1>1. ASSUME Inv PROVE SlotsCounted
  <2>1. PICK q, n, w, prio : /\ q = limiter.queue /\ n = limiter.inUse
                             /\ w = Waiting /\ prio = Priority(req)
    OBVIOUS
  <2>2. /\ limit \in Nat \ {0} /\ SlotsOf(n, limit, Holders) /\ QueueOf(q, w, prio)
        /\ q # <<>> => n = limit
    BY <1>1, <2>1 DEF Inv, SlotInv, Semaphore
  <2>3. q \in Seq(Calls) /\ Members(q, Len(q)) = w /\ Once(q, Len(q)) /\ InOrder(q, Len(q), prio)
    BY <2>2 DEF QueueOf
  <2>4. /\ ToSet(q) = w /\ IsInjective(q)
        /\ \A i, j \in DOMAIN q : i < j => prio[q[i]] <= prio[q[j]]
    BY <2>3, QueueForms, Zenon
  <2>5. n \in 0..limit /\ n <= Cardinality(Holders)
    BY <2>2 DEF SlotsOf
  <2>6. ~wasReset => n = Cardinality(Holders)
    BY <1>1, <2>1 DEF Inv, SlotInv
  <2>7. TypeOK
    <3>1. timers \in [Panes -> [armed: 0..MaxUpsets, listed: BOOLEAN]]
      <4>1. 0..upsets \subseteq 0..MaxUpsets
        BY <1>1, BoundAssumption DEF Inv, EntryInv
      <4> QED BY <1>1, <4>1 DEF Inv, EntryInv
    <3>2. limiter.inUse \in 0..limit /\ limiter.queue \in Seq(Calls)
      BY <2>1, <2>3, <2>5
    <3> QED BY <1>1, <3>1, <3>2, BoundAssumption
            DEF Inv, SlotInv, CallInv, EntryInv, RestoreInv, TypeOK, Places
  <2>8. \A i, j \in DOMAIN limiter.queue :
          i < j => Priority(req)[limiter.queue[i]] <= Priority(req)[limiter.queue[j]]
    BY <2>1, <2>4, Zenon
  <2> QED BY <2>1, <2>2, <2>4, <2>5, <2>6, <2>7, <2>8, Zenon DEF SlotsCounted, Waiting
<1> QED BY <1>1, Inductive, PTL

\* pendingSessions names the one call of a pane that counts, a restored scrollback that a
\* session has overtaken is kept by aborted calls only, every entry that has exited has a
\* timer to remove it, and its history is ended unless the writer was late
\* (daemon-manager.ts, for every interleaving of its calls with events and resets).
THEOREM PanesCorrect == Spec => []PanesSound
<1>1. Inv => PanesSound
  BY DEF Inv, CallInv, EntryInv, RestoreInv, PanesSound, RestoreIsCurrent
<1> QED BY <1>1, Inductive, PTL

\* Only the answer to the call that its pane waits for registers a session: the answer to
\* one that was canceled or superseded does not (doCreateOrAttach).
THEOREM RegistrationCorrect == Spec => OnlyCurrentRegisters
<1>1. ASSUME Inv, Next, NEW p \in Panes, sessions'[p].by \notin {None, sessions[p].by}
      PROVE  sessions'[p].by = pending[p] /\ pending[p] \notin aborted
  <2>1. PICK r \in Calls : Answer(r)
    <3>1. sessions' # sessions /\ sessions \in [Panes -> [by: Calls \cup {None},
                               state: {"none", "alive", "killed", "exited", "lost"}]]
      BY <1>1 DEF Inv, EntryInv
    <3>2. ASSUME NEW x, NEW st, sessions' = [sessions EXCEPT ![x].state = st] PROVE FALSE
      BY <1>1, <3>1, <3>2
    <3>3. ASSUME NEW x, Kill(x) PROVE FALSE
      BY <3>2, <3>3 DEF Kill
    <3>4. ASSUME NEW x, ExitEvent(x) PROVE FALSE
      BY <3>2, <3>4 DEF ExitEvent
    <3>5. ASSUME NEW x, SessionLost(x) PROVE FALSE
      BY <3>2, <3>5 DEF SessionLost
    <3>6. ASSUME NEW x \in Panes, CleanupTimeout(x) PROVE FALSE
      BY <1>1, <3>1, <3>6 DEF CleanupTimeout, NoSession
    <3>7. ASSUME NEW K, ForceKillAll(K) PROVE FALSE
      <4>1. sessions'[p].by = sessions[p].by
        BY <3>1, <3>7 DEF ForceKillAll
      <4> QED BY <1>1, <4>1
    <3>8. ASSUME ForceKilled \/ Reset PROVE FALSE
      BY <1>1, <3>8 DEF ForceKilled, Reset, NoSession
    <3> QED BY <1>1, <3>1, <3>3, <3>4, <3>5, <3>6, <3>7, <3>8
            DEF Next, Refused, Join, Start, Cancel, Granted, ProbeDone, ReadRestored, FilesDone,
                RequestFails, HistoryInit, AckColdRestore, ForceClosed, ForceKillFails, tableVars
  <2>2. /\ pc[r] = "requested"
        /\ sessions' = [sessions EXCEPT ![req[r].pane] = [by |-> r, state |-> "alive"]]
    BY <2>1 DEF Answer
  <2>3. r \notin aborted /\ pending[req[r].pane] = r /\ req[r].pane \in Panes
    BY <1>1, <2>2 DEF Inv, RequestInv, CallInv, PendingIsCurrent, InFlight, Holding
  <2>4. p = req[r].pane /\ sessions'[p].by = r
    BY <1>1, <2>2, <2>3 DEF Inv, EntryInv
  <2> QED BY <2>3, <2>4
<1>2. ASSUME Inv, [Next]_vars
      PROVE  [\A p \in Panes : sessions'[p].by \notin {None, sessions[p].by}
                                 => sessions'[p].by = pending[p] /\ pending[p] \notin aborted]_vars
  BY <1>1, <1>2
<1> QED BY <1>2, Inductive, PTL DEF Spec, OnlyCurrentRegisters

================================================================================
