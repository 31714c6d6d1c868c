------------------------------ MODULE SessionProofs ------------------------------
(***************************************************************************)
(* The way of what is typed, for any sizes of frames, watermarks and       *)
(* limits and any amount of it: through the process that owns the PTY,     *)
(* then through the gate and the queue that are before it.                 *)
(*                                                                         *)
(* Input: the bytes that the PTY has, followed by those that it may still  *)
(* get (Whole), are increasing, and as long as no write has failed they    *)
(* are all of the input that was not refused.  A partial write moves bytes *)
(* from the one part to the other, so it leaves Whole alone; a Write frame *)
(* extends it; a failed write and a dispose cut it.  The invariant speaks  *)
(* of the pending fs.write too, since its buffer is the head of the queue  *)
(* until a dispose takes the queue away.                                   *)
(*                                                                         *)
(* Output: the data frames sent and the batch are what has been printed,   *)
(* and an Exit frame is sent only from where no output can follow it.      *)
(*                                                                         *)
(* Gate: what the scanner has passed on and holds back is what arrived,    *)
(* until it has taken one marker out; each character of a frame keeps      *)
(* that, and a frame is a fold over its characters.                        *)
(*                                                                         *)
(* Queue: as long as the session is up, what is queued is what is not      *)
(* written yet, but for a head that has been written and stays; so a flush *)
(* that stops anywhere, and one that continues, leave the same sequence.   *)
(*                                                                         *)
(* All rest on lemmas about FlattenSeq and FoldLeft, which the community   *)
(* modules define by recursive functions: their values are extended one    *)
(* element at a time by minimal counterexamples.                           *)
(***************************************************************************)
EXTENDS ShellReady, SessionInput, PtySubprocess, FiniteSetTheorems, SequenceTheorems, TLAPS

-----------------------------------------------------------------------------
(* The inductive invariant *)

FrameTypes == {"ready", "spawned", "data", "error", "exit"}
Frames == [type : FrameTypes, bytes : Seq(1..MaxOutput)]

\* The process and its shell: who is alive, and which timers may still fire.
ProcInv ==
    /\ proc \in {"running", "exiting", "exited"} /\ pty \in BOOLEAN /\ fd \in BOOLEAN
    /\ shell \in {"none", "alive", "killed", "dead"}
    /\ kills \in 0..MaxKills /\ escalations \in Nat /\ forces \in Nat
    /\ escalations + forces <= kills
    /\ stdin \in {"open", "closed", "ended"} /\ inChunk \in BOOLEAN
    /\ ptyPaused \in BOOLEAN /\ owesDrain \in BOOLEAN
    /\ pty => shell \in {"alive", "killed"} /\ proc = "running"
    /\ shell = "alive" => pty
    /\ fd => pty
    /\ forces > 0 /\ pty => shell = "killed"
    /\ shell = "none" => proc # "exiting" /\ escalations = 0 /\ forces = 0
    /\ ptyPaused /\ pty => owesDrain

\* What is on its way to the PTY: one write or flush at most.
QueueTypes ==
    /\ input \in 0..MaxBytes /\ refused \subseteq 1..input
    /\ queuedBytes \in Int /\ flushes \in Nat
    /\ flushing \in BOOLEAN /\ stdinPaused \in BOOLEAN /\ failed \in BOOLEAN
    /\ writeQueue \in Seq(Seq(1..MaxBytes)) /\ inflight \in Seq(1..MaxBytes)
    /\ written \in Seq(1..MaxBytes)

NoneEmpty(q) == \A k \in 1..Len(q) : q[k] # <<>>

FlushInv ==
    /\ NoneEmpty(writeQueue)
    /\ flushes <= 1
    /\ inflight # <<>> => flushes = 0
    /\ inflight # <<>> /\ writeQueue # <<>> => Head(writeQueue) = inflight
    /\ inflight # <<>> /\ pty => writeQueue # <<>>
    /\ pty /\ flushing => flushes = 1 \/ inflight # <<>>
    /\ pty /\ ~flushing => flushes = 0 /\ inflight = <<>> /\ writeQueue = <<>>
    /\ pty /\ stdinPaused /\ ~failed => queuedBytes > LowWater
    /\ shell = "none" =>
         /\ writeQueue = <<>> /\ inflight = <<>> /\ flushes = 0
         /\ ~flushing /\ ~stdinPaused /\ ~failed
         /\ queuedBytes = 0 /\ written = <<>> /\ input = 0 /\ refused = {}

\* The bytes that the PTY has and those that it may still get, in order.
Pending == IF writeQueue = <<>> THEN inflight ELSE FlattenSeq(writeQueue)
Whole == written \o Pending

BytesInv ==
    /\ pty => queuedBytes = Total(writeQueue)
    /\ Increasing(Whole)
    /\ Range(Whole) \subseteq 1..input
    /\ pty /\ ~failed => Range(Whole) = (1..input) \ refused

\* What has been printed, and where it is.
OutputInv ==
    /\ output \in 0..MaxOutput /\ outputChunks \in Seq(1..MaxOutput)
    /\ Len(outputChunks) < MaxBatch
    /\ flushScheduled \in BOOLEAN /\ flushTimers \in Nat
    /\ sent \in Seq(Frames)
    /\ outputChunks # <<>> => flushScheduled
    /\ flushScheduled => flushTimers > 0
    /\ SentOutput \o outputChunks = BytesFrom(0, output)

ExitInv ==
    /\ Exits # {} => \/ shell = "dead" /\ outputChunks = <<>>
                     \/ shell = "killed" /\ proc = "exited"
    /\ \A i, j \in Exits : i = j
    /\ \A i \in Exits, j \in DOMAIN sent : i < j => sent[j].type # "data"

Inv == ProcInv /\ QueueTypes /\ FlushInv /\ BytesInv /\ OutputInv /\ ExitInv

\* A set of numbers that is not empty has a smallest member: the finite sets 0..x-1 are
\* well-founded by strict inclusion.
LEMMA NatMin ==
    ASSUME NEW T, T \subseteq Nat, T # {}
    PROVE  Min(T) \in T /\ \A y \in T : Min(T) <= y
<1> DEFINE Below(n) == IF n = 0 THEN {} ELSE 0..(n-1)
           U == {Below(x) : x \in T}
<1>1. U \subseteq FiniteSubsetsOf(Nat)
  <2> SUFFICES ASSUME NEW x \in T PROVE 0..(x-1) \in FiniteSubsetsOf(Nat)
    BY FS_EmptySet DEF FiniteSubsetsOf
  <2>1. 0..(x-1) \subseteq Nat
    OBVIOUS
  <2>2. IsFiniteSet(0..(x-1))
    BY FS_Interval
  <2> QED BY <2>1, <2>2 DEF FiniteSubsetsOf
<1>2. U # {}
  OBVIOUS
<1>3. PICK B \in U : \A C \in U : ~ (<<C, B>> \in StrictSubsetOrdering(Nat))
  <2> HIDE DEF U
  <2> QED BY <1>1, <1>2, FS_StrictSubsetOrderingWellFounded, WFMin
<1>4. PICK x \in T : B = Below(x)
  OBVIOUS
<1>5. ASSUME NEW y \in T, y < x PROVE FALSE
  <2>1. ~ (<<Below(y), Below(x)>> \in StrictSubsetOrdering(Nat))
    BY <1>3, <1>4
  <2>2. Below(y) \subseteq Below(x) /\ Below(y) # Below(x)
    <3>1. x \in Nat /\ y \in Nat
      OBVIOUS
    <3>2. x-1 \in Below(x) /\ x-1 \notin Below(y)
      BY <3>1, <1>5
    <3> QED BY <3>1, <3>2, <1>5
  <2>3. Below(y) \in SUBSET Nat /\ Below(x) \in SUBSET Nat
    BY x \in Nat, y \in Nat
  <2> QED BY <2>1, <2>2, <2>3 DEF StrictSubsetOrdering
<1>6. \E z \in T : \A y \in T : z <= y
  BY <1>5
<1> QED BY <1>6 DEF Min

-----------------------------------------------------------------------------
(* FlattenSeq, which is a recursive function: that there is such a function, *)
(* and what it does to a queue that grows at its end or loses its head.      *)

Joins(f, q, n) == f = [i \in 1..n |-> IF i = 1 THEN q[i] ELSE f[i - 1] \o q[i]]
Joiner(q) == CHOOSE f : Joins(f, q, Len(q))

Regroup(a, b, c) == (a \o b) \o c = a \o (b \o c)

LEMMA Regrouped ==
    ASSUME NEW S, NEW a \in Seq(S), NEW b \in Seq(S), NEW c \in Seq(S)
    PROVE  Regroup(a, b, c)
BY ConcatAssociative DEF Regroup

LEMMA FlattenIs ==
    ASSUME NEW q, Len(q) # 0
    PROVE  FlattenSeq(q) = Joiner(q)[Len(q)]
BY DEF FlattenSeq, Joiner, Joins

\* The function exists, for what is joined up to n can be continued.
LEMMA JoinerExists ==
    ASSUME NEW q, NEW n \in Nat
    PROVE  \E f : Joins(f, q, n)
<1> DEFINE T == {k \in Nat : ~\E f : Joins(f, q, k)}
<1>1. SUFFICES ASSUME T # {} PROVE FALSE
  OBVIOUS
<1>2. PICK m \in Nat : m \in T /\ \A k \in T : m <= k
  BY <1>1, NatMin
<1>3. m # 0
  <2>1. Joins([i \in 1..0 |-> i], q, 0)
    BY DEF Joins
  <2> QED BY <2>1, <1>2
<1>4. PICK l \in Nat : m = l + 1
  <2>1. m - 1 \in Nat /\ m = (m - 1) + 1
    BY <1>3
  <2> QED BY <2>1
<1>5. PICK f : Joins(f, q, l)
  BY <1>2, <1>4
<1> DEFINE g == [i \in 1..m |-> IF i = m THEN IF m = 1 THEN q[m] ELSE f[l] \o q[m] ELSE f[i]]
<1>6. Joins(g, q, m)
  <2>1. ASSUME NEW i \in 1..m
        PROVE  g[i] = IF i = 1 THEN q[i] ELSE g[i - 1] \o q[i]
    <3>1. CASE i = m
      <4>1. m # 1 => l \in 1..m /\ l # m /\ m - 1 = l
        BY <1>4
      <4> QED BY <3>1, <4>1
    <3>2. CASE i # m
      <4>1. i \in 1..l
        BY <3>2, <1>4
      <4>2. f[i] = IF i = 1 THEN q[i] ELSE f[i - 1] \o q[i]
        BY <4>1, <1>5 DEF Joins
      <4>3. i # 1 => i - 1 \in 1..m /\ i - 1 # m
        BY <4>1, <1>4
      <4> QED BY <3>2, <4>2, <4>3
    <3> QED BY <3>1, <3>2
  <2>2. g = [i \in 1..m |-> IF i = 1 THEN q[i] ELSE g[i - 1] \o q[i]]
    BY <2>1
  <2> QED BY <2>2 DEF Joins
<1> QED BY <1>2, <1>6

LEMMA JoinerStep ==
    ASSUME NEW q, Len(q) \in Nat, NEW i \in 1..Len(q)
    PROVE  Joiner(q)[i] = IF i = 1 THEN q[i] ELSE Joiner(q)[i - 1] \o q[i]
<1>1. Joins(Joiner(q), q, Len(q))
  BY JoinerExists DEF Joiner
<1> QED BY <1>1 DEF Joins

LEMMA JoinerIsSeq ==
    ASSUME NEW S, NEW q \in Seq(Seq(S)), NEW i \in 1..Len(q)
    PROVE  Joiner(q)[i] \in Seq(S)
<1> DEFINE T == {k \in 1..Len(q) : Joiner(q)[k] \notin Seq(S)}
<1>0. Len(q) \in Nat
  BY LenProperties
<1>1. SUFFICES ASSUME T # {} PROVE FALSE
  OBVIOUS
<1>2. PICK m \in 1..Len(q) : Joiner(q)[m] \notin Seq(S) /\ \A k \in T : m <= k
  <2>1. T \subseteq Nat
    BY <1>0
  <2>2. Min(T) \in T /\ \A k \in T : Min(T) <= k
    <3> HIDE DEF T
    <3> QED BY <1>1, <2>1, NatMin
  <2> QED BY <2>2
<1>3. q[m] \in Seq(S)
  BY ElementOfSeq
<1>4. Joiner(q)[m] = IF m = 1 THEN q[m] ELSE Joiner(q)[m - 1] \o q[m]
  BY <1>0, JoinerStep
<1>5. m # 1
  BY <1>2, <1>3, <1>4
<1>6. Joiner(q)[m - 1] \in Seq(S)
  <2>1. m - 1 \in 1..Len(q) /\ ~(m <= m - 1)
    BY <1>0, <1>5
  <2> QED BY <2>1, <1>2
<1>7. Joiner(q)[m - 1] \o q[m] \in Seq(S)
  BY <1>3, <1>6, ConcatProperties
<1> QED BY <1>2, <1>4, <1>5, <1>7

\* A queue and one that begins with it are joined alike.
LEMMA JoinerPrefix ==
    ASSUME NEW q, NEW r, Len(q) \in Nat, Len(r) \in Nat, Len(q) <= Len(r),
           \A k \in 1..Len(q) : r[k] = q[k], NEW i \in 1..Len(q)
    PROVE  Joiner(r)[i] = Joiner(q)[i]
<1> DEFINE T == {k \in 1..Len(q) : Joiner(r)[k] # Joiner(q)[k]}
<1>1. SUFFICES ASSUME T # {} PROVE FALSE
  OBVIOUS
<1>2. PICK m \in 1..Len(q) : Joiner(r)[m] # Joiner(q)[m] /\ \A k \in T : m <= k
  <2>1. T \subseteq Nat
    OBVIOUS
  <2>2. Min(T) \in T /\ \A k \in T : Min(T) <= k
    <3> HIDE DEF T
    <3> QED BY <1>1, <2>1, NatMin
  <2> QED BY <2>2
<1>3. Joiner(q)[m] = IF m = 1 THEN q[m] ELSE Joiner(q)[m - 1] \o q[m]
  BY JoinerStep
<1>4. Joiner(r)[m] = IF m = 1 THEN r[m] ELSE Joiner(r)[m - 1] \o r[m]
  <2>1. m \in 1..Len(r)
    OBVIOUS
  <2> QED BY <2>1, JoinerStep
<1>5. m # 1
  BY <1>2, <1>3, <1>4
<1>6. Joiner(r)[m - 1] = Joiner(q)[m - 1]
  <2>1. m - 1 \in 1..Len(q) /\ ~(m <= m - 1)
    BY <1>5
  <2> QED BY <2>1, <1>2
<1> QED BY <1>2, <1>3, <1>4, <1>5, <1>6

\* Without its head a queue is joined to what lacks the head's items in front.
LEMMA JoinerTail ==
    ASSUME NEW S, NEW q \in Seq(Seq(S)), q # <<>>, NEW i \in 1..Len(Tail(q))
    PROVE  Joiner(q)[i + 1] = Head(q) \o Joiner(Tail(q))[i]
<1> DEFINE r == Tail(q)
           T == {k \in 1..Len(r) : Joiner(q)[k + 1] # Head(q) \o Joiner(r)[k]}
<1>0. /\ r \in Seq(Seq(S)) /\ Len(r) \in Nat /\ Len(q) \in Nat /\ Len(r) = Len(q) - 1
      /\ \A k \in 1..Len(r) : r[k] = q[k + 1]
      /\ Head(q) = q[1] /\ Head(q) \in Seq(S)
  BY HeadTailProperties, LenProperties
<1> HIDE DEF r
<1>1. SUFFICES ASSUME T # {} PROVE FALSE
  BY DEF r
<1>2. PICK m \in 1..Len(r) : Joiner(q)[m + 1] # Head(q) \o Joiner(r)[m] /\ \A k \in T : m <= k
  <2>1. 1..Len(r) \subseteq Nat
    OBVIOUS
  <2>3. T \subseteq Nat
    BY <2>1
  <2>2. Min(T) \in T /\ \A k \in T : Min(T) <= k
    <3> HIDE DEF T
    <3> QED BY <1>1, <2>3, NatMin
  <2> QED BY <2>2
<1>3. Joiner(r)[m] = IF m = 1 THEN r[m] ELSE Joiner(r)[m - 1] \o r[m]
  BY <1>0, JoinerStep
<1>4. Joiner(q)[m + 1] = Joiner(q)[m] \o q[m + 1]
  <2>1. m + 1 \in 1..Len(q) /\ m + 1 # 1 /\ (m + 1) - 1 = m
    BY <1>0
  <2> QED BY <1>0, <2>1, JoinerStep
<1>5. m # 1
  <2> SUFFICES ASSUME m = 1 PROVE FALSE
    OBVIOUS
  <2>1. Joiner(q)[1] = q[1]
    <3>1. 1 \in 1..Len(q)
      BY <1>0
    <3> QED BY <1>0, <3>1, JoinerStep
  <2> QED BY <1>0, <1>2, <1>3, <1>4, <2>1
<1>6. PICK l \in 1..Len(r) : m = l + 1
  <2>1. m - 1 \in 1..Len(r) /\ m = (m - 1) + 1
    BY <1>0, <1>5
  <2> QED BY <2>1
<1>7. Joiner(q)[m] = Head(q) \o Joiner(r)[l]
  <2>1. ~(m <= l)
    BY <1>0, <1>6
  <2> QED BY <2>1, <1>2, <1>6
<1>8. m - 1 = l /\ r[m] = q[m + 1]
  BY <1>0, <1>6
<1>9. Joiner(r)[l] \in Seq(S) /\ r[m] \in Seq(S)
  BY <1>0, JoinerIsSeq, ElementOfSeq
<1>10. (Head(q) \o Joiner(r)[l]) \o r[m] = Head(q) \o (Joiner(r)[l] \o r[m])
  <2>1. Head(q) \in Seq(S)
    BY <1>0
  <2>2. Regroup(Head(q), Joiner(r)[l], r[m])
    BY <2>1, <1>9, Regrouped
  <2> QED BY <2>2 DEF Regroup
<1>11. Joiner(q)[m + 1] = (Head(q) \o Joiner(r)[l]) \o r[m]
  BY <1>4, <1>7, <1>8, Zenon
<1>12. Joiner(r)[m] = Joiner(r)[l] \o r[m]
  BY <1>3, <1>5, <1>8, Zenon
<1> QED BY <1>2, <1>10, <1>11, <1>12, Zenon

LEMMA FlattenEmpty == FlattenSeq(<<>>) = <<>>
BY DEF FlattenSeq

LEMMA FlattenIsSeq ==
    ASSUME NEW S, NEW q \in Seq(Seq(S))
    PROVE  FlattenSeq(q) \in Seq(S)
<1>1. CASE q = <<>>
  BY <1>1, FlattenEmpty, EmptySeq
<1>2. CASE q # <<>>
  <2>1. Len(q) \in Nat \ {0} /\ Len(q) \in 1..Len(q)
    BY <1>2, EmptySeq, LenProperties
  <2> QED BY <2>1, FlattenIs, JoinerIsSeq
<1> QED BY <1>1, <1>2

LEMMA FlattenAppend ==
    ASSUME NEW S, NEW q \in Seq(Seq(S)), NEW x \in Seq(S)
    PROVE  FlattenSeq(Append(q, x)) = FlattenSeq(q) \o x
<1> DEFINE r == Append(q, x)
<1>1. /\ r \in Seq(Seq(S)) /\ Len(q) \in Nat /\ Len(r) = Len(q) + 1
      /\ \A k \in 1..Len(q) : r[k] = q[k]
      /\ r[Len(q) + 1] = x
  BY AppendProperties, LenProperties
<1> HIDE DEF r
<1>2. FlattenSeq(r) = Joiner(r)[Len(r)]
  <2>1. Len(r) # 0
    BY <1>1
  <2> QED BY <2>1, FlattenIs
<1>3. Joiner(r)[Len(r)] = IF Len(r) = 1 THEN x ELSE Joiner(r)[Len(q)] \o x
  <2>1. Len(r) \in Nat /\ Len(r) \in 1..Len(r) /\ Len(r) - 1 = Len(q) /\ r[Len(r)] = x
    BY <1>1
  <2> QED BY <2>1, JoinerStep
<1>4. CASE q = <<>>
  <2>1. Len(r) = 1 /\ FlattenSeq(q) \o x = x
    BY <1>1, <1>4, EmptySeq, FlattenEmpty, ConcatEmptySeq
  <2> QED BY <1>2, <1>3, <2>1 DEF r
<1>5. CASE q # <<>>
  <2>1. Len(q) \in 1..Len(q) /\ Len(q) # 0 /\ Len(r) # 1 /\ Len(r) \in Nat /\ Len(q) <= Len(r)
    BY <1>1, <1>5, EmptySeq
  <2>2. Joiner(r)[Len(q)] = Joiner(q)[Len(q)]
    BY <1>1, <2>1, JoinerPrefix
  <2>3. FlattenSeq(q) = Joiner(q)[Len(q)]
    BY <2>1, FlattenIs
  <2> QED BY <1>2, <1>3, <2>1, <2>2, <2>3 DEF r
<1> QED BY <1>4, <1>5

LEMMA FlattenHead ==
    ASSUME NEW S, NEW q \in Seq(Seq(S)), q # <<>>
    PROVE  /\ Head(q) \in Seq(S) /\ Tail(q) \in Seq(Seq(S))
           /\ FlattenSeq(q) = Head(q) \o FlattenSeq(Tail(q))
<1>1. /\ Tail(q) \in Seq(Seq(S)) /\ Len(Tail(q)) \in Nat /\ Len(q) \in Nat
      /\ Len(Tail(q)) = Len(q) - 1 /\ Head(q) = q[1] /\ Head(q) \in Seq(S)
      /\ Len(q) # 0
  BY HeadTailProperties, LenProperties, EmptySeq
<1>2. FlattenSeq(q) = Joiner(q)[Len(q)]
  BY <1>1, FlattenIs
<1>3. CASE Tail(q) = <<>>
  <2>1. Len(Tail(q)) = 0
    BY <1>3, EmptySeq, Zenon
  <2>2. Len(q) \in Nat /\ Len(q) - 1 = 0
    BY <1>1, <2>1, Zenon
  <2>3. Len(q) = 1 /\ 1 \in 1..Len(q)
    BY <2>2
  <2>4. Joiner(q)[1] = q[1]
    BY <1>1, <2>3, JoinerStep
  <2>5. Head(q) \o FlattenSeq(Tail(q)) = Head(q)
    BY <1>1, <1>3, FlattenEmpty, ConcatEmptySeq
  <2> QED BY <1>1, <1>2, <2>3, <2>4, <2>5
<1>4. CASE Tail(q) # <<>>
  <2>1. Len(Tail(q)) # 0 /\ Len(Tail(q)) \in 1..Len(Tail(q)) /\ Len(Tail(q)) + 1 = Len(q)
    BY <1>1, <1>4, EmptySeq
  <2>2. FlattenSeq(Tail(q)) = Joiner(Tail(q))[Len(Tail(q))]
    BY <2>1, FlattenIs
  <2>3. Joiner(q)[Len(Tail(q)) + 1] = Head(q) \o Joiner(Tail(q))[Len(Tail(q))]
    BY <2>1, JoinerTail
  <2> QED BY <1>1, <1>2, <2>1, <2>2, <2>3
<1> QED BY <1>3, <1>4

-----------------------------------------------------------------------------
(* The process and its shell *)

LEMMA ProcInit == Init => ProcInv
<1> SUFFICES ASSUME Init PROVE ProcInv
  OBVIOUS
<1>1. /\ proc = "running" /\ pty = FALSE /\ fd = FALSE /\ shell = "none"
      /\ kills = 0 /\ escalations = 0 /\ forces = 0 /\ stdin = "open" /\ inChunk = FALSE
      /\ ptyPaused = FALSE /\ owesDrain = FALSE
  BY DEF Init
<1>2. /\ kills \in 0..MaxKills /\ escalations \in Nat /\ forces \in Nat
      /\ escalations + forces <= kills
  BY <1>1, BoundsAssumption
<1>3. ~pty /\ ~fd /\ ~ptyPaused
  BY <1>1
<1> QED BY <1>1, <1>2, <1>3, Zenon DEF ProcInv

\* Sending frames pauses the PTY only for a drain event.
LEMMA SendPauses ==
    ASSUME NEW batch, NEW full \in BOOLEAN, Send(batch, full),
           ptyPaused \in BOOLEAN, owesDrain \in BOOLEAN, pty \in BOOLEAN,
           ptyPaused /\ pty => owesDrain
    PROVE  ptyPaused' \in BOOLEAN /\ owesDrain' \in BOOLEAN /\ (ptyPaused' /\ pty => owesDrain')
<1>1. CASE batch = <<>>
  BY <1>1 DEF Send, SendNothing
<1>2. CASE batch # <<>>
  BY <1>2 DEF Send
<1> QED BY <1>1, <1>2

LEMMA ProcStep ==
    ASSUME ProcInv, [Next]_vars
    PROVE  ProcInv'
<1> USE DEF ProcInv, procVars, killVars, stdinVars, stdoutVars
<1>1. CASE UNCHANGED vars
  BY <1>1 DEF vars
<1>2. CASE StdoutDrain
  BY <1>2 DEF StdoutDrain
<1>3. CASE Flush \/ WriteWouldBlock \/ \E n \in 0..Len(inflight) : WriteDone(n)
  BY <1>3 DEF Flush, WriteWouldBlock, WriteDone
<1>4. CASE FlushSync
  <2>1. CASE UNCHANGED stdoutVars
    BY <1>4, <2>1 DEF FlushSync
  <2>2. CASE \E full \in BOOLEAN : WriteFails(full)
    BY <1>4, <2>2, SendPauses DEF FlushSync, WriteFails
  <2> QED BY <1>4, <2>1, <2>2 DEF FlushSync
<1>5. ASSUME NEW n \in 1..MaxBatch, NEW full \in BOOLEAN, PtyData(n, full)
      PROVE  ProcInv'
  <2>1. CASE SendNothing
    BY <1>5, <2>1 DEF PtyData, SendNothing
  <2>2. CASE \E batch : Send(batch, full)
    BY <1>5, <2>2, SendPauses DEF PtyData
  <2> QED BY <1>5, <2>1, <2>2 DEF PtyData
<1>6. ASSUME NEW ok \in BOOLEAN, NEW withFd \in BOOLEAN, NEW full \in BOOLEAN,
             HandleSpawn(ok, withFd, full)
      PROVE  ProcInv'
  <2>1. /\ proc = "running" /\ ~pty /\ ~fd /\ shell = "none" /\ UNCHANGED killVars
        /\ stdin' = stdin /\ inChunk' \in BOOLEAN
    BY <1>6 DEF HandleSpawn, Reads
  <2>2. CASE ok
    <3>1. /\ shell' = "alive" /\ pty' = TRUE /\ fd' \in BOOLEAN /\ UNCHANGED proc
          /\ owesDrain' \in BOOLEAN /\ ptyPaused' = owesDrain'
      BY <1>6, <2>2 DEF HandleSpawn
    <3> QED BY <2>1, <3>1
  <2>3. CASE ~ok
    <3>1. /\ shell' = "dead" /\ proc' = "exiting" /\ UNCHANGED <<pty, fd>>
          /\ Send(<<Frame("error", <<>>)>>, full)
      BY <1>6, <2>3 DEF HandleSpawn
    <3> QED BY <2>1, <3>1, SendPauses
  <2> QED BY <2>2, <2>3
<1>7. ASSUME NEW size \in Sizes, NEW full \in BOOLEAN, HandleWrite(size, full)
      PROVE  ProcInv'
  <2>1. CASE SendNothing
    <3>1. UNCHANGED <<procVars, killVars, stdin, sent, owesDrain, ptyPaused>> /\ inChunk' \in BOOLEAN
      BY <1>7, <2>1 DEF HandleWrite, SendNothing
    <3> QED BY <3>1
  <2>2. CASE Send(<<Frame("error", <<>>)>>, full)
    <3>1. UNCHANGED <<procVars, killVars, stdin>> /\ inChunk' \in BOOLEAN
      BY <1>7 DEF HandleWrite
    <3> QED BY <3>1, <2>2, SendPauses
  <2> QED BY <1>7, <2>1, <2>2 DEF HandleWrite
<1>8. ASSUME NEW full \in BOOLEAN, FlushTimer(full)
      PROVE  ProcInv'
  BY <1>8, SendPauses DEF FlushTimer, FlushOutput
<1>9. ASSUME NEW full \in BOOLEAN, WriteFailed(full)
      PROVE  ProcInv'
  BY <1>9, SendPauses DEF WriteFailed, WriteFails
<1>10. ASSUME NEW full \in BOOLEAN, StdinEnd(full)
       PROVE  ProcInv'
  BY <1>10, SendPauses DEF StdinEnd, Disposed, FlushOutput, Runs
<1>11. ASSUME NEW full \in BOOLEAN, ShellExit(full)
       PROVE  ProcInv'
  BY <1>11, SendPauses DEF ShellExit, FlushOutput
<1>12. ASSUME NEW full \in BOOLEAN, ForceExit(full)
       PROVE  ProcInv'
  <2>1. CASE pty
    <3>1. /\ Send(ExitFrame, full) /\ pty' = FALSE /\ fd' = FALSE /\ proc' = "exited"
          /\ UNCHANGED <<shell, escalations, kills, stdinVars>> /\ forces > 0 /\ forces' = forces - 1
      BY <1>12, <2>1 DEF ForceExit
    <3>2. ptyPaused' \in BOOLEAN /\ owesDrain' \in BOOLEAN
      BY <3>1, SendPauses
    <3>3. escalations' + forces' <= kills' /\ forces' \in Nat
      BY <3>1
    <3>4. shell = "killed"
      BY <3>1, <2>1
    <3> QED BY <3>1, <3>2, <3>3, <3>4
  <2>2. CASE ~pty
    <3>1. /\ UNCHANGED <<proc, pty, fd, shell, escalations, kills, stdinVars, owesDrain, ptyPaused>>
          /\ forces > 0 /\ forces' = forces - 1
      BY <1>12, <2>2 DEF ForceExit, SendNothing
    <3>2. escalations' + forces' <= kills' /\ forces' \in Nat
      BY <3>1
    <3>3. /\ proc' = proc /\ pty' = pty /\ fd' = fd /\ shell' = shell
          /\ escalations' = escalations /\ kills' = kills /\ stdin' = stdin
          /\ inChunk' = inChunk /\ owesDrain' = owesDrain /\ ptyPaused' = ptyPaused
      BY <3>1
    <3>4. (forces > 0 /\ pty => shell = "killed")' /\ (shell = "none" => forces = 0)'
      BY <3>1, <3>3, <2>2
    <3> QED BY <3>2, <3>3, <3>4
  <2> QED BY <2>1, <2>2
<1>13. CASE HandleKill
  BY <1>13, BoundsAssumption DEF HandleKill
<1>14. CASE ChunkEnds \/ DaemonGone \/ ProcessExit
  <2>1. CASE ChunkEnds
    BY <2>1 DEF ChunkEnds
  <2>2. CASE DaemonGone
    BY <2>2 DEF DaemonGone
  <2>3. CASE ProcessExit
    BY <2>3 DEF ProcessExit
  <2> QED BY <1>14, <2>1, <2>2, <2>3
<1>15. CASE Escalate
  BY <1>15 DEF Escalate
<1> QED BY <1>1, <1>2, <1>3, <1>4, <1>5, <1>6, <1>7, <1>8, <1>9, <1>10, <1>11,
           <1>12, <1>13, <1>14, <1>15 DEF Next

-----------------------------------------------------------------------------
(* What a write leaves in the queue *)

LEMMA InFront ==
    ASSUME NEW S, NEW r \in S, NEW q \in Seq(S)
    PROVE  /\ <<r>> \o q \in Seq(S) /\ <<r>> \o q # <<>>
           /\ Head(<<r>> \o q) = r /\ Tail(<<r>> \o q) = q
<1> DEFINE s == <<r>> \o q
<1>1. /\ <<r>> \in Seq(S) /\ Len(<<r>>) = 1 /\ <<r>>[1] = r /\ Len(q) \in Nat
  BY LenProperties
<1>2. /\ s \in Seq(S) /\ Len(s) = 1 + Len(q)
      /\ \A i \in 1..1 + Len(q) : s[i] = IF i <= 1 THEN <<r>>[i] ELSE q[i - 1]
  BY <1>1, ConcatProperties
<1> HIDE DEF s
<1>3. s # <<>>
  <2>1. Len(s) # 0
    BY <1>1, <1>2
  <2> QED BY <2>1
<1>4. Head(s) = r
  <2>1. 1 \in 1..1 + Len(q) /\ s[1] = <<r>>[1]
    BY <1>1, <1>2
  <2> QED BY <2>1, <1>1, <1>2, <1>3
<1>5. /\ Tail(s) \in Seq(S) /\ Len(Tail(s)) = Len(s) - 1
      /\ \A i \in 1..Len(Tail(s)) : Tail(s)[i] = s[i + 1]
  BY <1>2, <1>3, HeadTailProperties
<1>6. \A i \in 1..Len(q) : Tail(s)[i] = q[i]
  <2> TAKE i \in 1..Len(q)
  <2>1. Len(Tail(s)) = Len(q)
    BY <1>1, <1>2, <1>5
  <2>2. Tail(s)[i] = s[i + 1]
    BY <2>1, <1>5
  <2>3. i + 1 \in 1..1 + Len(q) /\ ~(i + 1 <= 1) /\ (i + 1) - 1 = i
    BY <1>1
  <2> QED BY <2>2, <2>3, <1>2
<1>7. Len(Tail(s)) = Len(q)
  BY <1>1, <1>2, <1>5
<1>8. Tail(s) = q
  BY <1>5, <1>6, <1>7, SeqEqual
<1> QED BY <1>2, <1>3, <1>4, <1>8 DEF s

LEMMA NoneEmptyTail ==
    ASSUME NEW S, NEW q \in Seq(S), q # <<>>, NoneEmpty(q)
    PROVE  NoneEmpty(Tail(q)) /\ Head(q) # <<>>
<1>1. /\ Len(q) \in Nat /\ Len(q) # 0 /\ Len(Tail(q)) = Len(q) - 1 /\ Head(q) = q[1]
      /\ \A i \in 1..Len(Tail(q)) : Tail(q)[i] = q[i + 1]
  BY HeadTailProperties, LenProperties, EmptySeq
<1>2. q[1] # <<>>
  <2>1. 1 \in 1..Len(q)
    BY <1>1
  <2> QED BY <2>1 DEF NoneEmpty
<1>3. ASSUME NEW i \in 1..Len(Tail(q)) PROVE Tail(q)[i] # <<>>
  <2>1. i + 1 \in 1..Len(q)
    BY <1>1
  <2> QED BY <2>1, <1>1 DEF NoneEmpty
<1> QED BY <1>1, <1>2, <1>3 DEF NoneEmpty

LEMMA NoneEmptyInFront ==
    ASSUME NEW S, NEW r \in S, r # <<>>, NEW q \in Seq(S), NoneEmpty(q)
    PROVE  NoneEmpty(<<r>> \o q)
<1>1. /\ <<r>> \in Seq(S) /\ Len(<<r>>) = 1 /\ <<r>>[1] = r /\ Len(q) \in Nat
  BY LenProperties
<1>2. /\ Len(<<r>> \o q) = 1 + Len(q)
      /\ \A i \in 1..1 + Len(q) : (<<r>> \o q)[i] = IF i <= 1 THEN <<r>>[i] ELSE q[i - 1]
  BY <1>1, ConcatProperties
<1>3. ASSUME NEW i \in 1..1 + Len(q) PROVE (<<r>> \o q)[i] # <<>>
  <2>1. CASE i = 1
    BY <2>1, <1>1, <1>2
  <2>2. CASE i # 1
    <3>1. i - 1 \in 1..Len(q) /\ ~(i <= 1)
      BY <2>2, <1>1
    <3>2. q[i - 1] # <<>>
      BY <3>1 DEF NoneEmpty
    <3> QED BY <3>1, <3>2, <1>2
  <2> QED BY <2>1, <2>2
<1> QED BY <1>2, <1>3 DEF NoneEmpty

LEMMA NoneEmptyAppend ==
    ASSUME NEW S, NEW r \in S, r # <<>>, NEW q \in Seq(S), NoneEmpty(q)
    PROVE  NoneEmpty(Append(q, r))
<1>1. /\ Len(q) \in Nat /\ Len(Append(q, r)) = Len(q) + 1
      /\ \A i \in 1..Len(q) : Append(q, r)[i] = q[i]
      /\ Append(q, r)[Len(q) + 1] = r
  BY AppendProperties, LenProperties
<1>2. ASSUME NEW i \in 1..Len(q) + 1 PROVE Append(q, r)[i] # <<>>
  <2>1. CASE i = Len(q) + 1
    BY <2>1, <1>1
  <2>2. CASE i # Len(q) + 1
    <3>1. i \in 1..Len(q)
      BY <2>2, <1>1
    <3>2. q[i] # <<>>
      BY <3>1 DEF NoneEmpty
    <3> QED BY <3>1, <3>2, <1>1
  <2> QED BY <2>1, <2>2
<1> QED BY <1>1, <1>2 DEF NoneEmpty

RestKeeps(buf, n, q) ==
    /\ SubSeq(buf, 1, n) \o FlattenSeq(Rest(buf, n) \o q) = buf \o FlattenSeq(q)
    /\ Len(FlattenSeq(Rest(buf, n) \o q)) = (Len(buf) - n) + Len(FlattenSeq(q))

\* A write that takes n bytes leaves all the others, in order, and no empty buffer.
LEMMA RestJoins ==
    ASSUME NEW S, NEW buf \in Seq(S), buf # <<>>, NEW n \in 0..Len(buf),
           NEW q \in Seq(Seq(S)), NoneEmpty(q)
    PROVE  /\ Rest(buf, n) \o q \in Seq(Seq(S)) /\ NoneEmpty(Rest(buf, n) \o q)
           /\ SubSeq(buf, 1, n) \in Seq(S)
           /\ RestKeeps(buf, n, q)
<1> USE DEF RestKeeps
<1>1. Len(buf) \in Nat /\ FlattenSeq(q) \in Seq(S) /\ Len(FlattenSeq(q)) \in Nat
  BY FlattenIsSeq, LenProperties
<1>2. CASE n = Len(buf)
  <2>1. Rest(buf, n) = <<>>
    BY <1>2, <1>1 DEF Rest
  <2>2. <<>> \o q = q
    BY ConcatEmptySeq
  <2>3. SubSeq(buf, 1, n) = buf
    BY <1>2, SubSeqFull
  <2>4. Rest(buf, n) \o q = q
    BY <2>1, <2>2
  <2>5. Len(FlattenSeq(q)) = (Len(buf) - n) + Len(FlattenSeq(q))
    BY <1>2, <1>1
  <2> QED BY <2>3, <2>4, <2>5
<1>3. CASE n # Len(buf)
  <2> DEFINE r == SubSeq(buf, n + 1, Len(buf))
             a == SubSeq(buf, 1, n)
  <2>1. Rest(buf, n) = <<r>>
    <3>1. ~(n >= Len(buf))
      BY <1>3, <1>1
    <3> QED BY <3>1 DEF Rest
  <2>2. a \in Seq(S)
    <3>1. \A i \in 1..n : buf[i] \in S
      BY <1>1, ElementOfSeq
    <3>2. n \in Int
      BY <1>1
    <3> QED BY <3>1, <3>2, SubSeqProperties
  <2>3. r \in Seq(S) /\ Len(r) = Len(buf) - n
    <3>1. \A i \in n + 1..Len(buf) : buf[i] \in S
      BY <1>1, ElementOfSeq
    <3>2. n + 1 \in Int /\ Len(buf) \in Int /\ n + 1 <= Len(buf) /\ Len(buf) - (n + 1) + 1 = Len(buf) - n
      BY <1>1, <1>3
    <3> QED BY <3>1, <3>2, SubSeqProperties
  <2>4. a \o r = buf
    <3>1. /\ 1 \in 1..Len(buf) + 1 /\ n \in 1 - 1..Len(buf) /\ Len(buf) \in n..Len(buf)
      BY <1>1
    <3>2. a \o r = SubSeq(buf, 1, Len(buf))
      BY <3>1, ConcatAdjacentSubSeq
    <3> QED BY <3>2, SubSeqFull
  <2> HIDE DEF a, r
  <2>5. r # <<>>
    <3>1. Len(r) # 0
      BY <2>3, <1>1, <1>3
    <3> QED BY <3>1
  <2>6. /\ <<r>> \o q \in Seq(Seq(S)) /\ <<r>> \o q # <<>>
        /\ Head(<<r>> \o q) = r /\ Tail(<<r>> \o q) = q
    BY <2>3, InFront
  <2>7. NoneEmpty(<<r>> \o q)
    BY <2>3, <2>5, NoneEmptyInFront
  <2>8. FlattenSeq(<<r>> \o q) = r \o FlattenSeq(q)
    BY <2>6, FlattenHead
  <2>9. Regroup(a, r, FlattenSeq(q))
    BY <1>1, <2>2, <2>3, Regrouped
  <2>10. a \o FlattenSeq(<<r>> \o q) = buf \o FlattenSeq(q)
    BY <2>4, <2>8, <2>9, Zenon DEF Regroup
  <2>11. Len(r \o FlattenSeq(q)) = Len(r) + Len(FlattenSeq(q))
    BY <1>1, <2>3, ConcatProperties
  <2> QED BY <2>1, <2>2, <2>3, <2>6, <2>7, <2>8, <2>10, <2>11, Zenon DEF a, r
<1> QED BY <1>2, <1>3

-----------------------------------------------------------------------------
(* The queue and its flush *)

LEMMA BytesFromIs ==
    ASSUME NEW i \in Nat, NEW n \in Nat
    PROVE  /\ BytesFrom(i, n) \in Seq(i + 1..i + n) /\ Len(BytesFrom(i, n)) = n
           /\ \A j \in 1..n : BytesFrom(i, n)[j] = i + j
           /\ Range(BytesFrom(i, n)) = i + 1..i + n
<1>1. /\ BytesFrom(i, n) \in Seq(i + 1..i + n) /\ Len(BytesFrom(i, n)) = n
      /\ \A j \in 1..n : BytesFrom(i, n)[j] = i + j
  BY DEF BytesFrom
<1>2. Range(BytesFrom(i, n)) = {BytesFrom(i, n)[j] : j \in 1..n}
  BY DEF Range, BytesFrom
<1>3. ASSUME NEW b \in i + 1..i + n PROVE b \in {BytesFrom(i, n)[j] : j \in 1..n}
  <2>1. b - i \in 1..n /\ i + (b - i) = b
    OBVIOUS
  <2>2. BytesFrom(i, n)[b - i] = i + (b - i)
    BY <2>1, <1>1
  <2> QED BY <2>1, <2>2
<1>4. {BytesFrom(i, n)[j] : j \in 1..n} \subseteq i + 1..i + n
  BY <1>1
<1> QED BY <1>1, <1>2, <1>3, <1>4

\* The steps that leave the queue alone, and at most take the PTY away or open it.
QueueQuiet ==
    /\ UNCHANGED <<writeQueue, queuedBytes, stdinPaused, written, refused, failed,
                   flushing, flushes, inflight, input>>
    /\ pty' => pty \/ shell = "none"
    /\ shell' = "none" => shell = "none"

LEMMA QueueSteps ==
    ASSUME ProcInv, [Next]_vars
    PROVE  \/ QueueQuiet
           \/ Flush \/ FlushSync \/ WriteWouldBlock
           \/ \E n \in 0..Len(inflight) : WriteDone(n)
           \/ \E size \in Sizes, full \in BOOLEAN : HandleWrite(size, full)
           \/ \E full \in BOOLEAN : WriteFailed(full)
           \/ \E full \in BOOLEAN : StdinEnd(full)
<1> USE DEF QueueQuiet, procVars, queueVars, flushVars, stdinVars
<1>1. CASE UNCHANGED vars
  BY <1>1 DEF vars
<1>2. CASE StdoutDrain
  BY <1>2 DEF StdoutDrain
<1>3. ASSUME NEW n \in 1..MaxBatch, NEW full \in BOOLEAN, PtyData(n, full)
      PROVE  QueueQuiet
  BY <1>3 DEF PtyData
<1>4. ASSUME NEW ok \in BOOLEAN, NEW withFd \in BOOLEAN, NEW full \in BOOLEAN,
             HandleSpawn(ok, withFd, full)
      PROVE  QueueQuiet
  BY <1>4 DEF HandleSpawn
<1>5. ASSUME NEW full \in BOOLEAN, FlushTimer(full)
      PROVE  QueueQuiet
  BY <1>5 DEF FlushTimer
<1>6. ASSUME NEW full \in BOOLEAN, ShellExit(full)
      PROVE  QueueQuiet
  BY <1>6 DEF ShellExit
<1>7. ASSUME NEW full \in BOOLEAN, ForceExit(full)
      PROVE  QueueQuiet
  <2>1. UNCHANGED <<queueVars, flushVars, stdinVars, shell>>
    BY <1>7 DEF ForceExit
  <2>2. pty' => pty
    BY <1>7 DEF ForceExit
  <2> QED BY <2>1, <2>2
<1>8. CASE HandleKill
  BY <1>8 DEF HandleKill
<1>9. CASE ChunkEnds
  BY <1>9 DEF ChunkEnds
<1>10. CASE DaemonGone
  BY <1>10 DEF DaemonGone
<1>11. CASE ProcessExit
  BY <1>11 DEF ProcessExit
<1>12. CASE Escalate
  <2>1. UNCHANGED <<queueVars, flushVars, stdinVars, pty>>
    BY <1>12 DEF Escalate
  <2>2. shell' = "killed" \/ shell' = shell
    BY <1>12 DEF Escalate
  <2> QED BY <2>1, <2>2
<1> QED BY <1>1, <1>2, <1>3, <1>4, <1>5, <1>6, <1>7, <1>8, <1>9, <1>10, <1>11, <1>12 DEF Next

LEMMA FlushInit == Init => QueueTypes /\ FlushInv
<1> SUFFICES ASSUME Init PROVE QueueTypes /\ FlushInv
  OBVIOUS
<1>1. /\ writeQueue = <<>> /\ inflight = <<>> /\ written = <<>> /\ refused = {}
      /\ queuedBytes = 0 /\ flushes = 0 /\ input = 0
      /\ flushing = FALSE /\ stdinPaused = FALSE /\ failed = FALSE
  BY DEF Init
<1>2. QueueTypes
  <2>1. /\ writeQueue \in Seq(Seq(1..MaxBytes)) /\ inflight \in Seq(1..MaxBytes)
        /\ written \in Seq(1..MaxBytes)
    BY <1>1, EmptySeq
  <2>2. input \in 0..MaxBytes /\ refused \subseteq 1..input /\ queuedBytes \in Int /\ flushes \in Nat
    BY <1>1, BoundsAssumption
  <2> QED BY <1>1, <2>1, <2>2 DEF QueueTypes
<1>3. NoneEmpty(writeQueue)
  <2>1. Len(writeQueue) = 0
    BY <1>1
  <2> QED BY <2>1 DEF NoneEmpty
<1>4. flushes <= 1
  BY <1>1
<1>5. ~flushing /\ ~stdinPaused /\ ~failed
  BY <1>1
<1> QED BY <1>1, <1>2, <1>3, <1>4, <1>5, Zenon DEF FlushInv

LEMMA QuietKeepsFlush ==
    ASSUME QueueTypes, FlushInv, QueueQuiet
    PROVE  QueueTypes' /\ FlushInv'
<1>1. QueueTypes'
  BY DEF QueueTypes, QueueQuiet
<1>2. CASE pty' /\ ~pty
  <2>1. shell = "none"
    BY <1>2 DEF QueueQuiet
  <2>2. /\ writeQueue = <<>> /\ inflight = <<>> /\ flushes = 0
        /\ ~flushing /\ ~stdinPaused /\ ~failed
        /\ queuedBytes = 0 /\ written = <<>> /\ input = 0 /\ refused = {}
    BY <2>1 DEF FlushInv
  <2>3. FlushInv'
    BY <2>2 DEF FlushInv, QueueQuiet
  <2> QED BY <1>1, <2>3
<1>3. CASE pty' => pty
  <2>1. FlushInv'
    BY <1>3 DEF FlushInv, QueueQuiet
  <2> QED BY <1>1, <2>1
<1> QED BY <1>2, <1>3

LEMMA FlushKeepsFlush ==
    ASSUME ProcInv, QueueTypes, FlushInv, Flush
    PROVE  QueueTypes' /\ FlushInv'
<1>1. /\ flushes > 0 /\ flushes' = flushes - 1 /\ flushes = 1 /\ flushes' = 0
      /\ inflight = <<>>
  BY DEF QueueTypes, FlushInv, Flush
<1>2. /\ writeQueue' = writeQueue /\ queuedBytes' = queuedBytes /\ stdinPaused' = stdinPaused
      /\ written' = written /\ refused' = refused /\ failed' = failed
      /\ pty' = pty /\ shell' = shell /\ input' = input
  BY DEF Flush, queueVars, procVars, stdinVars
<1>3. CASE ~pty \/ writeQueue = <<>>
  <2>1. flushing' = FALSE /\ inflight' = inflight
    BY <1>3 DEF Flush
  <2>2. QueueTypes'
    <3>1. 0 \in Nat
      OBVIOUS
    <3> QED BY <1>1, <1>2, <2>1, <3>1, Zenon DEF QueueTypes
  <2>3. FlushInv'
    BY <1>1, <1>2, <1>3, <2>1 DEF FlushInv
  <2> QED BY <2>2, <2>3
<1>4. CASE pty /\ writeQueue # <<>>
  <2>1. inflight' = Head(writeQueue) /\ flushing' = flushing
    BY <1>4 DEF Flush
  <2>2. Head(writeQueue) # <<>> /\ Head(writeQueue) \in Seq(1..MaxBytes)
    BY <1>4, NoneEmptyTail, FlattenHead DEF FlushInv, QueueTypes
  <2>3. QueueTypes'
    BY <1>1, <1>2, <2>1, <2>2 DEF QueueTypes
  <2>4. flushing
    BY <1>4 DEF FlushInv, QueueTypes
  <2>5. shell # "none"
    BY <1>4 DEF ProcInv
  <2>6. FlushInv'
    BY <1>1, <1>2, <1>4, <2>1, <2>2, <2>4, <2>5 DEF FlushInv
  <2> QED BY <2>3, <2>6
<1> QED BY <1>3, <1>4

LEMMA BlockKeepsFlush ==
    ASSUME ProcInv, QueueTypes, FlushInv, WriteWouldBlock
    PROVE  QueueTypes' /\ FlushInv'
<1>1. /\ inflight # <<>> /\ inflight' = <<>> /\ flushes = 0 /\ flushes' = 1
  BY DEF QueueTypes, FlushInv, WriteWouldBlock
<1>2. /\ writeQueue' = writeQueue /\ queuedBytes' = queuedBytes /\ stdinPaused' = stdinPaused
      /\ written' = written /\ refused' = refused /\ failed' = failed
      /\ pty' = pty /\ shell' = shell /\ input' = input /\ flushing' = flushing
  BY DEF WriteWouldBlock, queueVars, procVars, stdinVars
<1>3. QueueTypes'
  BY <1>1, <1>2 DEF QueueTypes
<1>4. FlushInv'
  BY <1>1, <1>2 DEF FlushInv
<1> QED BY <1>3, <1>4

LEMMA FailKeepsFlush ==
    ASSUME ProcInv, QueueTypes, FlushInv, NEW full \in BOOLEAN, WriteFailed(full)
    PROVE  QueueTypes' /\ FlushInv'
<1>1. /\ inflight # <<>> /\ inflight' = <<>> /\ flushes = 0 /\ flushes' = 0
      /\ writeQueue' = <<>> /\ queuedBytes' = 0 /\ flushing' = FALSE /\ failed' = TRUE
      /\ stdinPaused' = stdinPaused /\ written' = written /\ refused' = refused
      /\ pty' = pty /\ shell' = shell /\ input' = input
  BY DEF QueueTypes, FlushInv, WriteFailed, WriteFails, procVars, stdinVars
<1>2. QueueTypes'
  <2>1. <<>> \in Seq(Seq(1..MaxBytes)) /\ <<>> \in Seq(1..MaxBytes)
    BY EmptySeq
  <2>2. 0 \in Nat /\ 0 \in Int
    OBVIOUS
  <2> QED BY <1>1, <2>1, <2>2, Zenon DEF QueueTypes
<1>3. NoneEmpty(<<>>)
  BY DEF NoneEmpty
<1>4. shell # "none"
  BY <1>1 DEF FlushInv
<1>5. FlushInv'
  BY <1>1, <1>3, <1>4 DEF FlushInv
<1> QED BY <1>2, <1>5

LEMMA EndKeepsFlush ==
    ASSUME ProcInv, QueueTypes, FlushInv, NEW full \in BOOLEAN, StdinEnd(full)
    PROVE  QueueTypes' /\ FlushInv'
<1>1. /\ inflight' = inflight /\ flushes' = flushes
      /\ writeQueue' = <<>> /\ queuedBytes' = 0 /\ flushing' = FALSE /\ failed' = failed
      /\ stdinPaused' = stdinPaused /\ written' = written /\ refused' = refused
      /\ pty' = FALSE /\ input' = input
  BY DEF StdinEnd, Disposed
<1>2. shell' = "none" => shell = "none"
  BY DEF StdinEnd, Disposed
<1>3. QueueTypes'
  <2>1. <<>> \in Seq(Seq(1..MaxBytes))
    BY EmptySeq
  <2>2. 0 \in Nat /\ 0 \in Int
    OBVIOUS
  <2> QED BY <1>1, <2>1, <2>2, Zenon DEF QueueTypes
<1>4. NoneEmpty(<<>>)
  BY DEF NoneEmpty
<1>5. FlushInv'
  BY <1>1, <1>2, <1>4 DEF FlushInv
<1> QED BY <1>3, <1>5

\* What FlushOn leaves behind: a flush that is due exactly when there is something left.
LEMMA FlushOnIs ==
    ASSUME NEW p \in Nat, FlushOn(p), flushing \in BOOLEAN
    PROVE  /\ flushing' \in BOOLEAN /\ flushes' \in {p, p + 1}
           /\ writeQueue' # <<>> => flushes' = p + 1 /\ (flushing' <=> flushing)
           /\ writeQueue' = <<>> => flushes' = p /\ ~flushing'
<1>1. CASE writeQueue' # <<>>
  BY <1>1 DEF FlushOn
<1>2. CASE writeQueue' = <<>>
  BY <1>2 DEF FlushOn
<1> QED BY <1>1, <1>2

LEMMA SyncKeepsFlush ==
    ASSUME ProcInv, QueueTypes, FlushInv, FlushSync
    PROVE  QueueTypes' /\ FlushInv'
<1>1. /\ pty /\ writeQueue # <<>> /\ flushes = 1 /\ inflight = <<>>
      /\ pty' = pty /\ shell' = shell /\ input' = input /\ inflight' = inflight
      /\ refused' = refused
  BY DEF QueueTypes, FlushInv, FlushSync, procVars, stdinVars
<1>2. shell # "none" /\ flushing
  BY <1>1 DEF ProcInv, FlushInv, QueueTypes
<1>3. /\ Head(writeQueue) \in Seq(1..MaxBytes) /\ Tail(writeQueue) \in Seq(Seq(1..MaxBytes))
      /\ Len(Head(writeQueue)) \in Nat
  BY <1>1, FlattenHead, LenProperties DEF QueueTypes
<1>4. NoneEmpty(Tail(writeQueue))
  BY <1>1, NoneEmptyTail DEF FlushInv, QueueTypes
<1>5. CASE /\ writeQueue' = Tail(writeQueue)
           /\ queuedBytes' = queuedBytes - Len(Head(writeQueue))
           /\ written' = written \o Head(writeQueue)
           /\ FlushOn(flushes - 1)
           /\ UNCHANGED <<failed, stdoutVars>>
  <2>1. written' \in Seq(1..MaxBytes)
    BY <1>3, <1>5, ConcatProperties DEF QueueTypes
  <2>2. /\ flushing' \in BOOLEAN /\ flushes' \in {0, 1}
        /\ writeQueue' # <<>> => flushes' = 1 /\ (flushing' <=> flushing)
        /\ writeQueue' = <<>> => flushes' = 0 /\ ~flushing'
    <3>1. FlushOn(0) /\ flushing \in BOOLEAN
      BY <1>1, <1>5 DEF QueueTypes
    <3> QED BY <3>1, FlushOnIs
  <2>3. stdinPaused' \in BOOLEAN /\ (stdinPaused' => queuedBytes' > LowWater)
    BY <1>5 DEF FlushSync, StaysPaused
  <2>4. queuedBytes' \in Int
    BY <1>3, <1>5 DEF QueueTypes
  <2>5. flushes' \in Nat /\ flushing' \in BOOLEAN /\ flushes' <= 1
    BY <2>2
  <2>6. failed' = failed
    BY <1>5
  <2>7. QueueTypes'
    BY <1>1, <1>3, <1>5, <2>1, <2>3, <2>4, <2>5, <2>6, Zenon DEF QueueTypes
  <2>8. NoneEmpty(writeQueue)'
    BY <1>4, <1>5 DEF NoneEmpty
  <2>9. FlushInv'
    <3>1. writeQueue' = <<>> => flushes' = 0 /\ ~flushing'
      BY <2>2
    <3>2. writeQueue' # <<>> => flushes' = 1 /\ flushing'
      BY <2>2, <1>2
    <3> QED BY <1>1, <1>2, <2>3, <2>5, <2>8, <3>1, <3>2, Zenon DEF FlushInv
  <2> QED BY <2>7, <2>9
<1>6. CASE /\ \E full \in BOOLEAN : WriteFails(full)
           /\ flushes' = flushes - 1
           /\ UNCHANGED written
  <2>1. /\ writeQueue' = <<>> /\ queuedBytes' = 0 /\ flushing' = FALSE /\ failed' = TRUE
        /\ flushes' = 0 /\ written' = written
    BY <1>1, <1>6 DEF WriteFails
  <2>2. stdinPaused' \in BOOLEAN
    BY DEF FlushSync, StaysPaused
  <2>3. QueueTypes'
    <3>1. <<>> \in Seq(Seq(1..MaxBytes)) /\ 0 \in Nat /\ 0 \in Int
      BY EmptySeq
    <3> QED BY <1>1, <2>1, <2>2, <3>1, Zenon DEF QueueTypes
  <2>4. NoneEmpty(<<>>)
    BY DEF NoneEmpty
  <2>5. FlushInv'
    BY <1>1, <1>2, <2>1, <2>4 DEF FlushInv
  <2> QED BY <2>3, <2>5
<1> QED BY <1>5, <1>6 DEF FlushSync

\* What a finished write leaves behind it in the queue.
After == IF writeQueue = <<>> THEN <<>> ELSE Tail(writeQueue)

LEMMA AfterIs ==
    ASSUME QueueTypes, FlushInv
    PROVE  After \in Seq(Seq(1..MaxBytes)) /\ NoneEmpty(After)
<1>1. CASE writeQueue = <<>>
  <2>1. <<>> \in Seq(Seq(1..MaxBytes)) /\ NoneEmpty(<<>>)
    BY EmptySeq DEF NoneEmpty
  <2> QED BY <1>1, <2>1 DEF After
<1>2. CASE writeQueue # <<>>
  BY <1>2, FlattenHead, NoneEmptyTail DEF After, QueueTypes, FlushInv
<1> QED BY <1>1, <1>2

LEMMA DoneIs ==
    ASSUME QueueTypes, FlushInv, NEW n \in 0..Len(inflight), WriteDone(n)
    PROVE  /\ inflight # <<>> /\ inflight' = <<>> /\ Len(inflight) \in Nat
           /\ flushes = 0 /\ shell # "none"
           /\ queuedBytes' = queuedBytes - n
           /\ writeQueue' = Rest(inflight, n) \o After
           /\ written' = written \o SubSeq(inflight, 1, n)
           /\ pty' = pty /\ shell' = shell /\ input' = input /\ refused' = refused
           /\ failed' = failed
<1>1. inflight # <<>> /\ Len(inflight) \in Nat
  BY LenProperties DEF WriteDone, QueueTypes
<1>2. flushes = 0 /\ shell # "none"
  BY <1>1 DEF FlushInv
<1> QED BY <1>1, <1>2 DEF WriteDone, After, procVars, stdinVars

LEMMA DoneKeepsFlush ==
    ASSUME ProcInv, QueueTypes, FlushInv, NEW n \in 0..Len(inflight), WriteDone(n)
    PROVE  QueueTypes' /\ FlushInv'
<1>1. /\ inflight # <<>> /\ inflight' = <<>> /\ Len(inflight) \in Nat
      /\ flushes = 0 /\ shell # "none"
      /\ queuedBytes' = queuedBytes - n
      /\ writeQueue' = Rest(inflight, n) \o After
      /\ written' = written \o SubSeq(inflight, 1, n)
      /\ pty' = pty /\ shell' = shell /\ input' = input /\ refused' = refused
      /\ failed' = failed
  BY DoneIs
<1>2. /\ writeQueue' \in Seq(Seq(1..MaxBytes)) /\ NoneEmpty(writeQueue')
      /\ SubSeq(inflight, 1, n) \in Seq(1..MaxBytes)
  BY <1>1, AfterIs, RestJoins DEF QueueTypes
<1>3. written' \in Seq(1..MaxBytes)
  BY <1>1, <1>2, ConcatProperties DEF QueueTypes
<1>4. /\ flushing' \in BOOLEAN /\ flushes' \in {0, 1}
      /\ writeQueue' # <<>> => flushes' = 1 /\ (flushing' <=> flushing)
      /\ writeQueue' = <<>> => flushes' = 0 /\ ~flushing'
  <2>1. FlushOn(0) /\ flushing \in BOOLEAN
    BY <1>1 DEF WriteDone, QueueTypes
  <2> QED BY <2>1, FlushOnIs
<1>5. stdinPaused' \in BOOLEAN /\ (stdinPaused' => queuedBytes' > LowWater)
  BY DEF WriteDone, StaysPaused
<1>6. queuedBytes' \in Int
  BY <1>1 DEF QueueTypes
<1>7. flushes' \in Nat /\ flushing' \in BOOLEAN /\ flushes' <= 1
  BY <1>4
<1>8. QueueTypes'
  <2>1. <<>> \in Seq(1..MaxBytes)
    BY EmptySeq
  <2> QED BY <1>1, <1>2, <1>3, <1>5, <1>6, <1>7, <2>1, Zenon DEF QueueTypes
<1>9. NoneEmpty(writeQueue)'
  BY <1>2 DEF NoneEmpty
<1>10. pty => flushing
  BY <1>1 DEF FlushInv, QueueTypes
<1>11. FlushInv'
  <2>1. writeQueue' = <<>> => flushes' = 0 /\ ~flushing'
    BY <1>4
  <2>2. writeQueue' # <<>> => flushes' = 1 /\ (pty => flushing')
    BY <1>4, <1>10
  <2> QED BY <1>1, <1>5, <1>7, <1>9, <2>1, <2>2, Zenon DEF FlushInv
<1> QED BY <1>8, <1>11

\* A Write frame is either queued or refused.
Queues(size) ==
    /\ pty
    /\ writeQueue' = Append(writeQueue, BytesFrom(input, size))
    /\ queuedBytes' = queuedBytes + size
    /\ stdinPaused' = (stdinPaused \/ queuedBytes' >= HighWater)
    /\ ScheduleFlush
    /\ refused' = refused /\ inflight' = inflight

Refuses(size) ==
    /\ refused' = refused \cup (input + 1..input + size)
    /\ writeQueue' = writeQueue /\ queuedBytes' = queuedBytes /\ stdinPaused' = stdinPaused
    /\ flushing' = flushing /\ flushes' = flushes /\ inflight' = inflight

LEMMA WriteIs ==
    ASSUME ProcInv, QueueTypes, FlushInv, NEW size \in Sizes, NEW full \in BOOLEAN,
           HandleWrite(size, full)
    PROVE  /\ input' = input + size /\ input' \in 0..MaxBytes /\ input \in Nat
           /\ size \in Nat \ {0} /\ shell # "none"
           /\ pty' = pty /\ shell' = shell /\ written' = written /\ failed' = failed
           /\ Queues(size) \/ Refuses(size)
           /\ BytesFrom(input, size) \in Seq(input + 1..input + size)
           /\ BytesFrom(input, size) \in Seq(1..MaxBytes)
           /\ BytesFrom(input, size) # <<>> /\ Len(BytesFrom(input, size)) = size
<1>1. /\ input' = input + size /\ input + size <= MaxBytes /\ shell # "none"
      /\ pty' = pty /\ shell' = shell /\ written' = written /\ failed' = failed
  BY DEF HandleWrite, procVars
<1>2. size \in Nat \ {0} /\ input \in Nat /\ MaxBytes \in Nat
  BY SizesAssumption, BoundsAssumption DEF QueueTypes
<1>3. input' \in 0..MaxBytes
  BY <1>1, <1>2
<1>4. /\ BytesFrom(input, size) \in Seq(input + 1..input + size)
      /\ Len(BytesFrom(input, size)) = size
      /\ Range(BytesFrom(input, size)) = input + 1..input + size
  BY <1>2, BytesFromIs
<1>5. BytesFrom(input, size) \in Seq(1..MaxBytes)
  <2>1. input + 1..input + size \subseteq 1..MaxBytes
    BY <1>1, <1>2
  <2> QED BY <2>1, <1>4, SeqMonotonic
<1>6. BytesFrom(input, size) # <<>>
  <2>1. Len(BytesFrom(input, size)) # 0
    BY <1>2, <1>4
  <2> QED BY <2>1, EmptySeq, Zenon
<1>7. ToSet(BytesFrom(input, size)) = input + 1..input + size
  BY <1>4 DEF ToSet, Range
<1>8. Queues(size) \/ Refuses(size)
  BY <1>7 DEF HandleWrite, Queues, Refuses, flushVars
<1> QED BY <1>1, <1>2, <1>3, <1>4, <1>5, <1>6, <1>8

LEMMA WriteKeepsFlush ==
    ASSUME ProcInv, QueueTypes, FlushInv, NEW size \in Sizes, NEW full \in BOOLEAN,
           HandleWrite(size, full)
    PROVE  QueueTypes' /\ FlushInv'
<1> DEFINE bytes == BytesFrom(input, size)
<1>1. /\ input' = input + size /\ input' \in 0..MaxBytes /\ input \in Nat
      /\ size \in Nat \ {0} /\ shell # "none"
      /\ pty' = pty /\ shell' = shell /\ written' = written /\ failed' = failed
      /\ bytes \in Seq(1..MaxBytes) /\ bytes # <<>>
  BY WriteIs
<1>2. Queues(size) \/ Refuses(size)
  BY WriteIs
<1>3. ASSUME Queues(size) PROVE QueueTypes' /\ FlushInv'
  <2>1. /\ pty /\ refused' = refused /\ inflight' = inflight
        /\ writeQueue' = Append(writeQueue, bytes) /\ queuedBytes' = queuedBytes + size
    BY <1>3 DEF Queues
  <2> HIDE DEF bytes
  <2>2. writeQueue' \in Seq(Seq(1..MaxBytes)) /\ writeQueue' # <<>>
    <3>1. writeQueue \in Seq(Seq(1..MaxBytes)) /\ bytes \in Seq(1..MaxBytes)
      BY <1>1 DEF QueueTypes
    <3>2. Append(writeQueue, bytes) \in Seq(Seq(1..MaxBytes)) /\ Append(writeQueue, bytes) # <<>>
      BY <3>1, AppendProperties
    <3> QED BY <2>1, <3>2
  <2>3. NoneEmpty(writeQueue)'
    <3>1. NoneEmpty(Append(writeQueue, bytes))
      BY <1>1, NoneEmptyAppend DEF QueueTypes, FlushInv
    <3> QED BY <2>1, <3>1 DEF NoneEmpty
  <2>4. writeQueue # <<>> => Head(writeQueue') = Head(writeQueue)
    BY <1>1, <2>1, HeadTailAppend DEF QueueTypes
  <2>5. refused' \subseteq 1..input' /\ queuedBytes' \in Int
    BY <1>1, <2>1 DEF QueueTypes
  <2>6. /\ flushing' = TRUE
        /\ flushing => flushes' = flushes
        /\ ~flushing => flushes' = flushes + 1
    BY <1>3 DEF Queues, ScheduleFlush
  <2>7. /\ flushes' \in Nat /\ flushes' <= 1
        /\ inflight # <<>> => flushes' = 0 /\ writeQueue # <<>>
        /\ inflight = <<>> => flushes' = 1
    BY <2>1, <2>6 DEF QueueTypes, FlushInv
  <2>8. stdinPaused' \in BOOLEAN
    BY <1>3 DEF Queues
  <2>9. stdinPaused' /\ ~failed => queuedBytes' > LowWater
    <3>1. stdinPaused' => stdinPaused \/ queuedBytes' >= HighWater
      BY <1>3 DEF Queues
    <3>2. stdinPaused /\ ~failed => queuedBytes > LowWater
      BY <2>1 DEF FlushInv
    <3>3. queuedBytes \in Int /\ queuedBytes' = queuedBytes + size
      BY <2>1 DEF QueueTypes
    <3> QED BY <1>1, <3>1, <3>2, <3>3, WaterAssumption
  <2>10. QueueTypes'
    <3>1. flushing' \in BOOLEAN /\ written \in Seq(1..MaxBytes) /\ failed \in BOOLEAN
          /\ inflight \in Seq(1..MaxBytes)
      BY <2>6 DEF QueueTypes
    <3> QED BY <1>1, <2>1, <2>2, <2>5, <2>7, <2>8, <3>1, Zenon DEF QueueTypes
  <2>11. FlushInv'
    <3>1. inflight # <<>> /\ writeQueue # <<>> => Head(writeQueue) = inflight
      BY DEF FlushInv
    <3>2. flushing'
      BY <2>6
    <3> QED BY <1>1, <2>1, <2>2, <2>3, <2>4, <2>7, <2>9, <3>1, <3>2, Zenon DEF FlushInv
  <2> QED BY <2>10, <2>11
<1>4. ASSUME Refuses(size) PROVE QueueTypes' /\ FlushInv'
  <2>1. /\ writeQueue' = writeQueue /\ queuedBytes' = queuedBytes /\ stdinPaused' = stdinPaused
        /\ flushing' = flushing /\ flushes' = flushes /\ inflight' = inflight
    BY <1>4 DEF Refuses
  <2>2. refused' \subseteq 1..input'
    BY <1>1, <1>4 DEF Refuses, QueueTypes
  <2>3. QueueTypes'
    BY <1>1, <2>1, <2>2, Zenon DEF QueueTypes
  <2>4. FlushInv'
    <3>1. NoneEmpty(writeQueue)'
      BY <2>1 DEF NoneEmpty, FlushInv
    <3> QED BY <1>1, <2>1, <3>1, Zenon DEF FlushInv
  <2> QED BY <2>3, <2>4
<1> QED BY <1>2, <1>3, <1>4

LEMMA FlushStep ==
    ASSUME ProcInv, QueueTypes, FlushInv, [Next]_vars
    PROVE  QueueTypes' /\ FlushInv'
BY QueueSteps, QuietKeepsFlush, FlushKeepsFlush, SyncKeepsFlush, BlockKeepsFlush,
   DoneKeepsFlush, WriteKeepsFlush, FailKeepsFlush, EndKeepsFlush

-----------------------------------------------------------------------------
(* The bytes of input, those that the PTY has and those that it may still get *)

LEMMA IncreasingIs ==
    ASSUME NEW S, NEW s \in Seq(S)
    PROVE  Increasing(s) <=> \A i, j \in 1..Len(s) : i < j => s[i] < s[j]
<1>1. DOMAIN s = 1..Len(s)
  BY LenProperties
<1> QED BY <1>1, Zenon DEF Increasing

LEMMA PrefixIncreasing ==
    ASSUME NEW S, NEW a \in Seq(S), NEW b \in Seq(S), Increasing(a \o b)
    PROVE  Increasing(a) /\ Range(a) \subseteq Range(a \o b)
<1>1. /\ a \o b \in Seq(S) /\ Len(a) \in Nat /\ Len(b) \in Nat
      /\ Len(a \o b) = Len(a) + Len(b)
      /\ \A i \in 1..Len(a) + Len(b) : (a \o b)[i] = IF i <= Len(a) THEN a[i] ELSE b[i - Len(a)]
  BY ConcatProperties, LenProperties
<1>2. \A i, j \in 1..Len(a \o b) : i < j => (a \o b)[i] < (a \o b)[j]
  BY <1>1, IncreasingIs
<1>3. ASSUME NEW i \in 1..Len(a), NEW j \in 1..Len(a), i < j PROVE a[i] < a[j]
  <2>1. i \in 1..Len(a \o b) /\ j \in 1..Len(a \o b)
    BY <1>1
  <2>2. (a \o b)[i] = a[i] /\ (a \o b)[j] = a[j]
    BY <1>1
  <2> QED BY <2>1, <2>2, <1>2, <1>3
<1>4. Increasing(a)
  BY <1>3, IncreasingIs
<1>5. Range(a) \subseteq Range(a \o b)
  BY RangeConcatenation
<1> QED BY <1>4, <1>5

\* Bytes that come later are larger than all that were before.
LEMMA IncreasingGrows ==
    ASSUME NEW S, S \subseteq Nat, NEW a \in Seq(S), Increasing(a), NEW i \in Nat, NEW n \in Nat,
           Range(a) \subseteq 1..i
    PROVE  /\ Increasing(a \o BytesFrom(i, n))
           /\ Range(a \o BytesFrom(i, n)) = Range(a) \cup (i + 1..i + n)
<1> DEFINE b == BytesFrom(i, n)
<1>1. /\ b \in Seq(Nat) /\ Len(b) = n /\ (\A j \in 1..n : b[j] = i + j)
      /\ Range(b) = i + 1..i + n
  <2>1. i + 1..i + n \subseteq Nat
    OBVIOUS
  <2> QED BY <2>1, BytesFromIs, SeqMonotonic
<1>2. a \in Seq(Nat) /\ Len(a) \in Nat
  BY SeqMonotonic, LenProperties
<1> HIDE DEF b
<1>3. /\ a \o b \in Seq(Nat) /\ Len(a \o b) = Len(a) + n
      /\ \A k \in 1..Len(a) + n : (a \o b)[k] = IF k <= Len(a) THEN a[k] ELSE b[k - Len(a)]
  BY <1>1, <1>2, ConcatProperties
<1>4. \A k, j \in 1..Len(a) : k < j => a[k] < a[j]
  BY IncreasingIs
<1>5. ASSUME NEW k \in 1..Len(a) PROVE a[k] \in 1..i
  <2>1. a[k] \in Range(a)
    BY RangeEquality
  <2> QED BY <2>1
<1>6. ASSUME NEW k \in 1..Len(a) + n, NEW j \in 1..Len(a) + n, k < j
      PROVE  (a \o b)[k] < (a \o b)[j]
  <2>1. CASE j <= Len(a)
    <3>1. k \in 1..Len(a) /\ j \in 1..Len(a)
      BY <2>1, <1>2, <1>6
    <3>2. (a \o b)[k] = a[k] /\ (a \o b)[j] = a[j]
      BY <3>1, <1>3, <1>2
    <3> QED BY <3>1, <3>2, <1>4, <1>6
  <2>2. CASE k <= Len(a) /\ ~(j <= Len(a))
    <3>1. k \in 1..Len(a) /\ j - Len(a) \in 1..n
      BY <2>2, <1>2
    <3>2. (a \o b)[k] = a[k] /\ (a \o b)[j] = b[j - Len(a)]
      BY <2>2, <1>3
    <3>3. b[j - Len(a)] = i + (j - Len(a))
      BY <3>1, <1>1
    <3>4. a[k] \in 1..i
      BY <3>1, <1>5
    <3> QED BY <3>1, <3>2, <3>3, <3>4
  <2>3. CASE ~(k <= Len(a))
    <3>1. k - Len(a) \in 1..n /\ j - Len(a) \in 1..n /\ ~(j <= Len(a))
      BY <2>3, <1>2, <1>6
    <3>2. (a \o b)[k] = b[k - Len(a)] /\ (a \o b)[j] = b[j - Len(a)]
      BY <2>3, <3>1, <1>3
    <3>3. b[k - Len(a)] = i + (k - Len(a)) /\ b[j - Len(a)] = i + (j - Len(a))
      BY <3>1, <1>1
    <3>4. i + (k - Len(a)) < i + (j - Len(a))
      BY <1>2, <1>6
    <3> QED BY <3>2, <3>3, <3>4
  <2> QED BY <2>1, <2>2, <2>3
<1>7. Increasing(a \o b)
  BY <1>3, <1>6, IncreasingIs
<1>8. Range(a \o b) = Range(a) \cup Range(b)
  BY <1>1, <1>2, RangeConcatenation
<1> QED BY <1>1, <1>7, <1>8 DEF b

LEMMA PendingIs ==
    ASSUME QueueTypes, FlushInv
    PROVE  /\ Pending \in Seq(1..MaxBytes) /\ Whole \in Seq(1..MaxBytes)
           /\ FlattenSeq(writeQueue) \in Seq(1..MaxBytes)
           /\ pty => Pending = FlattenSeq(writeQueue)
           /\ inflight # <<>> => Pending = inflight \o FlattenSeq(After)
<1>1. FlattenSeq(writeQueue) \in Seq(1..MaxBytes)
  BY FlattenIsSeq DEF QueueTypes
<1>2. Pending \in Seq(1..MaxBytes)
  BY <1>1 DEF Pending, QueueTypes
<1>3. Whole \in Seq(1..MaxBytes)
  BY <1>2, ConcatProperties DEF Whole, QueueTypes
<1>4. ASSUME pty PROVE Pending = FlattenSeq(writeQueue)
  <2>1. CASE writeQueue = <<>>
    <3>1. inflight = <<>>
      BY <1>4, <2>1 DEF FlushInv
    <3> QED BY <2>1, <3>1, FlattenEmpty DEF Pending
  <2>2. CASE writeQueue # <<>>
    BY <2>2 DEF Pending
  <2> QED BY <2>1, <2>2
<1>5. ASSUME inflight # <<>> PROVE Pending = inflight \o FlattenSeq(After)
  <2>1. CASE writeQueue = <<>>
    <3>1. inflight \o <<>> = inflight
      BY ConcatEmptySeq DEF QueueTypes
    <3> QED BY <2>1, <3>1, FlattenEmpty DEF Pending, After
  <2>2. CASE writeQueue # <<>>
    <3>1. Head(writeQueue) = inflight
      BY <1>5, <2>2 DEF FlushInv
    <3>2. FlattenSeq(writeQueue) = Head(writeQueue) \o FlattenSeq(Tail(writeQueue))
      BY <2>2, FlattenHead DEF QueueTypes
    <3> QED BY <2>2, <3>1, <3>2, Zenon DEF Pending, After
  <2> QED BY <2>1, <2>2
<1> QED BY <1>1, <1>2, <1>3, <1>4, <1>5

\* A step that moves bytes to the PTY, or that moves none.
LEMMA BytesKept ==
    ASSUME BytesInv, Whole' = Whole, input' = input, refused' = refused, failed' = failed,
           pty' => pty, pty' => queuedBytes' = Total(writeQueue)'
    PROVE  BytesInv'
<1>1. (Increasing(Whole))' /\ (Range(Whole) \subseteq 1..input)'
  BY DEF BytesInv, Increasing, Range
<1>2. (pty /\ ~failed => Range(Whole) = (1..input) \ refused)'
  BY DEF BytesInv, Range
<1> QED BY <1>1, <1>2 DEF BytesInv

\* A step that gives up what is pending.
LEMMA BytesDropped ==
    ASSUME BytesInv, QueueTypes, FlushInv, NEW w \in Seq(1..MaxBytes),
           NEW x \in Seq(1..MaxBytes), Whole = w \o x, Whole' = w, input' = input,
           pty' => failed', pty' => queuedBytes' = Total(writeQueue)'
    PROVE  BytesInv'
<1>1. Increasing(w) /\ Range(w) \subseteq Range(w \o x)
  BY PrefixIncreasing DEF BytesInv
<1>2. Range(w) \subseteq 1..input
  BY <1>1 DEF BytesInv
<1>3. (Increasing(Whole))' /\ (Range(Whole) \subseteq 1..input)'
  BY <1>1, <1>2 DEF Increasing, Range
<1> QED BY <1>3 DEF BytesInv

LEMMA TotalEmpty == Total(<<>>) = 0
BY FlattenEmpty DEF Total

LEMMA BytesInit == Init => BytesInv
<1> SUFFICES ASSUME Init PROVE BytesInv
  OBVIOUS
<1>1. /\ writeQueue = <<>> /\ inflight = <<>> /\ written = <<>> /\ input = 0 /\ refused = {}
      /\ queuedBytes = 0
  BY DEF Init
<1>2. Whole = <<>>
  <2>1. <<>> \o <<>> = <<>>
    BY EmptySeq, ConcatEmptySeq
  <2> QED BY <1>1, <2>1 DEF Whole, Pending
<1>3. Increasing(<<>>) /\ Range(<<>>) = {}
  BY DEF Increasing, Range
<1> QED BY <1>1, <1>2, <1>3, TotalEmpty DEF BytesInv

LEMMA QuietKeepsBytes ==
    ASSUME QueueTypes, FlushInv, BytesInv, QueueQuiet
    PROVE  BytesInv'
<1>1. /\ writeQueue' = writeQueue /\ inflight' = inflight /\ written' = written
      /\ input' = input /\ refused' = refused /\ failed' = failed /\ queuedBytes' = queuedBytes
  BY DEF QueueQuiet
<1>2. Whole' = Whole
  BY <1>1 DEF Whole, Pending
<1>3. Total(writeQueue)' = Total(writeQueue)
  BY <1>1 DEF Total
<1>4. CASE pty' /\ ~pty
  <2>1. shell = "none"
    BY <1>4 DEF QueueQuiet
  <2>2. /\ writeQueue = <<>> /\ inflight = <<>> /\ queuedBytes = 0 /\ written = <<>>
        /\ input = 0 /\ refused = {}
    BY <2>1 DEF FlushInv
  <2>3. Whole = <<>>
    <3>1. <<>> \o <<>> = <<>>
      BY EmptySeq, ConcatEmptySeq
    <3> QED BY <2>2, <3>1 DEF Whole, Pending
  <2>4. Increasing(<<>>) /\ Range(<<>>) = {}
    BY DEF Increasing, Range
  <2>5. Increasing(Whole') /\ Range(Whole') = {}
    BY <1>2, <2>3, <2>4
  <2>6. Total(writeQueue) = 0
    BY <2>2, TotalEmpty
  <2> QED BY <1>1, <1>3, <2>2, <2>5, <2>6 DEF BytesInv
<1>5. CASE pty' => pty
  BY <1>1, <1>2, <1>3, <1>5, BytesKept DEF BytesInv
<1> QED BY <1>4, <1>5

LEMMA FlushKeepsBytes ==
    ASSUME ProcInv, QueueTypes, FlushInv, BytesInv, Flush
    PROVE  BytesInv'
<1>1. inflight = <<>>
  BY DEF QueueTypes, FlushInv, Flush
<1>2. /\ writeQueue' = writeQueue /\ queuedBytes' = queuedBytes
      /\ written' = written /\ refused' = refused /\ failed' = failed
      /\ pty' = pty /\ input' = input
  BY DEF Flush, queueVars, procVars, stdinVars
<1>3. writeQueue = <<>> => inflight' = inflight
  BY DEF Flush
<1>4. Whole' = Whole
  BY <1>2, <1>3 DEF Whole, Pending
<1>5. pty' => queuedBytes' = Total(writeQueue)'
  BY <1>2 DEF Total, BytesInv
<1> QED BY <1>2, <1>4, <1>5, BytesKept

LEMMA BlockKeepsBytes ==
    ASSUME ProcInv, QueueTypes, FlushInv, BytesInv, WriteWouldBlock
    PROVE  BytesInv'
<1>1. /\ inflight # <<>> /\ inflight' = <<>>
      /\ writeQueue' = writeQueue /\ queuedBytes' = queuedBytes
      /\ written' = written /\ refused' = refused /\ failed' = failed
      /\ pty' = pty /\ input' = input
  BY DEF WriteWouldBlock, queueVars, procVars, stdinVars
<1>2. pty' => queuedBytes' = Total(writeQueue)'
  BY <1>1 DEF Total, BytesInv
<1>3. CASE writeQueue # <<>>
  <2>1. Whole' = Whole
    BY <1>1, <1>3 DEF Whole, Pending
  <2> QED BY <1>1, <1>2, <2>1, BytesKept
<1>4. CASE writeQueue = <<>>
  <2>1. ~pty
    BY <1>1, <1>4 DEF FlushInv
  <2>2. Whole = written \o inflight
    BY <1>4 DEF Whole, Pending
  <2>3. written \o <<>> = written
    BY ConcatEmptySeq DEF QueueTypes
  <2>4. Whole' = written
    BY <1>1, <1>4, <2>3 DEF Whole, Pending
  <2>5. written \in Seq(1..MaxBytes) /\ inflight \in Seq(1..MaxBytes)
    BY DEF QueueTypes
  <2> QED BY <1>1, <2>1, <2>2, <2>4, <2>5, BytesDropped
<1> QED BY <1>3, <1>4

LEMMA FailKeepsBytes ==
    ASSUME ProcInv, QueueTypes, FlushInv, BytesInv, NEW full \in BOOLEAN, WriteFailed(full)
    PROVE  BytesInv'
<1>1. /\ inflight' = <<>> /\ writeQueue' = <<>> /\ queuedBytes' = 0 /\ failed' = TRUE
      /\ written' = written /\ input' = input
  BY DEF WriteFailed, WriteFails, stdinVars
<1>2. written \o <<>> = written
  BY ConcatEmptySeq DEF QueueTypes
<1>3. Whole' = written
  BY <1>1, <1>2 DEF Whole, Pending
<1>4. written \in Seq(1..MaxBytes) /\ Pending \in Seq(1..MaxBytes) /\ Whole = written \o Pending
  BY PendingIs DEF QueueTypes, Whole
<1>5. queuedBytes' = Total(writeQueue)'
  BY <1>1, TotalEmpty
<1> QED BY <1>1, <1>3, <1>4, <1>5, BytesDropped

LEMMA EndKeepsBytes ==
    ASSUME ProcInv, QueueTypes, FlushInv, BytesInv, NEW full \in BOOLEAN, StdinEnd(full)
    PROVE  BytesInv'
<1>1. /\ inflight' = inflight /\ writeQueue' = <<>> /\ pty' = FALSE
      /\ written' = written /\ input' = input
  BY DEF StdinEnd, Disposed
<1>2. Whole' = written \o inflight
  BY <1>1 DEF Whole, Pending
<1>3. /\ written \in Seq(1..MaxBytes) /\ inflight \in Seq(1..MaxBytes)
      /\ Pending \in Seq(1..MaxBytes) /\ Whole = written \o Pending
  BY PendingIs DEF QueueTypes, Whole
<1>4. written \o inflight \in Seq(1..MaxBytes)
  BY <1>3, ConcatProperties
<1>5. CASE inflight = <<>>
  <2>1. written \o inflight = written
    BY <1>3, <1>5, ConcatEmptySeq
  <2> QED BY <1>1, <1>2, <1>3, <2>1, BytesDropped
<1>6. CASE inflight # <<>>
  <2>1. Pending = inflight \o FlattenSeq(After) /\ FlattenSeq(After) \in Seq(1..MaxBytes)
    BY <1>6, PendingIs, AfterIs, FlattenIsSeq
  <2>2. Regroup(written, inflight, FlattenSeq(After))
    BY <1>3, <2>1, Regrouped
  <2>3. Whole = (written \o inflight) \o FlattenSeq(After)
    BY <1>3, <2>1, <2>2, Zenon DEF Regroup
  <2> QED BY <1>1, <1>2, <1>4, <2>1, <2>3, BytesDropped
<1> QED BY <1>5, <1>6

LEMMA SyncKeepsBytes ==
    ASSUME ProcInv, QueueTypes, FlushInv, BytesInv, FlushSync
    PROVE  BytesInv'
<1>1. /\ pty /\ writeQueue # <<>> /\ inflight = <<>> /\ inflight' = inflight
      /\ pty' = pty /\ input' = input /\ refused' = refused
  BY DEF QueueTypes, FlushInv, FlushSync, procVars, stdinVars
<1>2. /\ Head(writeQueue) \in Seq(1..MaxBytes) /\ Tail(writeQueue) \in Seq(Seq(1..MaxBytes))
      /\ FlattenSeq(writeQueue) = Head(writeQueue) \o FlattenSeq(Tail(writeQueue))
      /\ FlattenSeq(Tail(writeQueue)) \in Seq(1..MaxBytes)
  BY <1>1, FlattenHead, FlattenIsSeq DEF QueueTypes
<1>3. written \in Seq(1..MaxBytes) /\ Pending \in Seq(1..MaxBytes) /\ Whole = written \o Pending
  BY PendingIs DEF QueueTypes, Whole
<1>4. CASE /\ writeQueue' = Tail(writeQueue)
           /\ queuedBytes' = queuedBytes - Len(Head(writeQueue))
           /\ written' = written \o Head(writeQueue)
           /\ failed' = failed
  <2>1. Pending = Head(writeQueue) \o FlattenSeq(Tail(writeQueue))
    BY <1>1, <1>2 DEF Pending
  <2>2. Pending' = FlattenSeq(Tail(writeQueue))
    <3>1. CASE Tail(writeQueue) = <<>>
      BY <3>1, <1>1, <1>4, FlattenEmpty DEF Pending
    <3>2. CASE Tail(writeQueue) # <<>>
      BY <3>2, <1>4 DEF Pending
    <3> QED BY <3>1, <3>2
  <2>3. Regroup(written, Head(writeQueue), FlattenSeq(Tail(writeQueue)))
    BY <1>2, <1>3, Regrouped
  <2>4. Whole' = Whole
    BY <1>3, <1>4, <2>1, <2>2, <2>3, Zenon DEF Regroup, Whole
  <2>5. queuedBytes' = Total(writeQueue)'
    <3>1. queuedBytes = Len(FlattenSeq(writeQueue))
      BY <1>1 DEF BytesInv, Total
    <3>2. /\ Len(FlattenSeq(writeQueue))
               = Len(Head(writeQueue)) + Len(FlattenSeq(Tail(writeQueue)))
          /\ Len(Head(writeQueue)) \in Nat /\ Len(FlattenSeq(Tail(writeQueue))) \in Nat
      BY <1>2, ConcatProperties, LenProperties
    <3>3. queuedBytes' = Len(FlattenSeq(Tail(writeQueue)))
      BY <1>4, <3>1, <3>2
    <3> QED BY <1>4, <3>3 DEF Total
  <2> QED BY <1>1, <1>4, <2>4, <2>5, BytesKept
<1>5. CASE \E full \in BOOLEAN : WriteFails(full) /\ UNCHANGED written
  <2>1. writeQueue' = <<>> /\ queuedBytes' = 0 /\ failed' = TRUE /\ written' = written
    BY <1>5 DEF WriteFails
  <2>2. written \o <<>> = written
    BY <1>3, ConcatEmptySeq
  <2>3. Whole' = written
    BY <1>1, <2>1, <2>2 DEF Whole, Pending
  <2>4. queuedBytes' = Total(writeQueue)'
    BY <2>1, TotalEmpty
  <2> QED BY <1>1, <1>3, <2>1, <2>3, <2>4, BytesDropped
<1> QED BY <1>4, <1>5 DEF FlushSync

LEMMA DoneKeepsBytes ==
    ASSUME ProcInv, QueueTypes, FlushInv, BytesInv, NEW n \in 0..Len(inflight), WriteDone(n)
    PROVE  BytesInv'
<1>1. /\ inflight # <<>> /\ inflight' = <<>> /\ Len(inflight) \in Nat
      /\ queuedBytes' = queuedBytes - n
      /\ writeQueue' = Rest(inflight, n) \o After
      /\ written' = written \o SubSeq(inflight, 1, n)
      /\ pty' = pty /\ input' = input /\ refused' = refused /\ failed' = failed
  BY DoneIs
<1> DEFINE rest == FlattenSeq(Rest(inflight, n) \o After)
<1>2. /\ After \in Seq(Seq(1..MaxBytes)) /\ NoneEmpty(After)
      /\ inflight \in Seq(1..MaxBytes) /\ written \in Seq(1..MaxBytes)
  BY AfterIs DEF QueueTypes
<1>3. /\ Rest(inflight, n) \o After \in Seq(Seq(1..MaxBytes))
      /\ SubSeq(inflight, 1, n) \in Seq(1..MaxBytes)
      /\ SubSeq(inflight, 1, n) \o rest = inflight \o FlattenSeq(After)
      /\ Len(rest) = (Len(inflight) - n) + Len(FlattenSeq(After))
  <2>1. inflight # <<>>
    BY <1>1
  <2>2. /\ Rest(inflight, n) \o After \in Seq(Seq(1..MaxBytes))
        /\ SubSeq(inflight, 1, n) \in Seq(1..MaxBytes)
        /\ RestKeeps(inflight, n, After)
    BY <1>2, <2>1, RestJoins
  <2> QED BY <2>2, Zenon DEF RestKeeps
<1>4. rest \in Seq(1..MaxBytes) /\ FlattenSeq(After) \in Seq(1..MaxBytes)
  BY <1>2, <1>3, FlattenIsSeq
<1>5. Pending = inflight \o FlattenSeq(After)
  BY <1>1, PendingIs
<1>6. Pending' = rest
  <2>1. CASE Rest(inflight, n) \o After = <<>>
    BY <2>1, <1>1, FlattenEmpty DEF Pending
  <2>2. CASE Rest(inflight, n) \o After # <<>>
    BY <2>2, <1>1 DEF Pending
  <2> QED BY <2>1, <2>2
<1> HIDE DEF rest
<1>7. Regroup(written, SubSeq(inflight, 1, n), rest)
  BY <1>2, <1>3, <1>4, Regrouped
<1>8. Whole' = Whole
  BY <1>1, <1>3, <1>5, <1>6, <1>7, Zenon DEF Regroup, Whole
<1>9. pty => queuedBytes' = Total(writeQueue)'
  <2> SUFFICES ASSUME pty PROVE queuedBytes' = Total(writeQueue)'
    OBVIOUS
  <2>1. queuedBytes = Len(Pending)
    BY PendingIs DEF BytesInv, Total
  <2>2. /\ Len(Pending) = Len(inflight) + Len(FlattenSeq(After))
        /\ Len(FlattenSeq(After)) \in Nat
    BY <1>2, <1>4, <1>5, ConcatProperties, LenProperties
  <2>3. queuedBytes' = Len(rest)
    BY <1>1, <1>3, <2>1, <2>2
  <2> QED BY <1>1, <2>3 DEF Total, rest
<1> QED BY <1>1, <1>8, <1>9, BytesKept

LEMMA WriteKeepsBytes ==
    ASSUME ProcInv, QueueTypes, FlushInv, BytesInv,
           NEW size \in Sizes, NEW full \in BOOLEAN, HandleWrite(size, full)
    PROVE  BytesInv'
<1> DEFINE bytes == BytesFrom(input, size)
<1>1. /\ input' = input + size /\ input \in Nat /\ size \in Nat
      /\ pty' = pty /\ written' = written /\ failed' = failed
      /\ bytes \in Seq(1..MaxBytes) /\ Len(bytes) = size
  BY WriteIs
<1>2. Queues(size) \/ Refuses(size)
  BY WriteIs
<1>3. refused \subseteq 1..input
  BY DEF QueueTypes
<1>4. /\ written \in Seq(1..MaxBytes) /\ Pending \in Seq(1..MaxBytes)
      /\ Whole \in Seq(1..MaxBytes) /\ Whole = written \o Pending
  BY PendingIs DEF QueueTypes, Whole
<1>5. ASSUME Queues(size) PROVE BytesInv'
  <2>1. /\ pty /\ refused' = refused /\ queuedBytes' = queuedBytes + size
        /\ writeQueue' = Append(writeQueue, bytes)
    BY <1>5 DEF Queues
  <2>2. Pending = FlattenSeq(writeQueue)
    BY <2>1, PendingIs
  <2>3. 1..MaxBytes \subseteq Nat
    OBVIOUS
  <2>4. /\ Increasing(Whole \o bytes)
        /\ Range(Whole \o bytes) = Range(Whole) \cup (input + 1..input + size)
    BY <1>1, <1>4, <2>3, IncreasingGrows DEF BytesInv
  <2> HIDE DEF bytes
  <2>5. FlattenSeq(Append(writeQueue, bytes)) = FlattenSeq(writeQueue) \o bytes
    BY <1>1, FlattenAppend DEF QueueTypes
  <2>6. Append(writeQueue, bytes) # <<>>
    <3>1. writeQueue \in Seq(Seq(1..MaxBytes))
      BY DEF QueueTypes
    <3> QED BY <1>1, <3>1, AppendProperties
  <2>7. Pending' = Pending \o bytes
    BY <2>1, <2>2, <2>5, <2>6 DEF Pending
  <2>8. Regroup(written, Pending, bytes)
    BY <1>1, <1>4, Regrouped
  <2>9. Whole' = Whole \o bytes
    BY <1>1, <2>7, <2>8, Zenon DEF Regroup, Whole
  <2>10. queuedBytes' = Total(writeQueue)'
    <3>1. queuedBytes = Len(Pending) /\ Len(Pending \o bytes) = Len(Pending) + Len(bytes)
      BY <1>1, <1>4, <2>1, <2>2, ConcatProperties DEF BytesInv, Total
    <3>2. queuedBytes' = Len(Pending \o bytes)
      BY <1>1, <2>1, <3>1
    <3> QED BY <2>1, <2>2, <2>5, <3>2 DEF Total
  <2>11. Range(Whole') \subseteq 1..input'
    <3>1. Range(Whole) \subseteq 1..input
      BY DEF BytesInv
    <3> QED BY <1>1, <2>4, <2>9, <3>1
  <2>12. ~failed' => Range(Whole') = (1..input') \ refused'
    <3> SUFFICES ASSUME ~failed' PROVE Range(Whole') = (1..input') \ refused'
      OBVIOUS
    <3>1. Range(Whole) = (1..input) \ refused
      BY <1>1, <2>1 DEF BytesInv
    <3>2. ((1..input) \ refused) \cup (input + 1..input + size) = (1..input + size) \ refused
      BY <1>1, <1>3
    <3> QED BY <1>1, <2>1, <2>4, <2>9, <3>1, <3>2
  <2>13. Increasing(Whole')
    BY <2>4, <2>9
  <2> QED BY <2>10, <2>11, <2>12, <2>13 DEF BytesInv
<1>6. ASSUME Refuses(size) PROVE BytesInv'
  <2>1. /\ writeQueue' = writeQueue /\ queuedBytes' = queuedBytes /\ inflight' = inflight
        /\ refused' = refused \cup (input + 1..input + size)
    BY <1>6 DEF Refuses
  <2>2. Whole' = Whole
    BY <1>1, <2>1 DEF Whole, Pending
  <2>3. pty => queuedBytes' = Total(writeQueue')
    BY <2>1 DEF BytesInv
  <2>4. Range(Whole) \subseteq 1..input'
    BY <1>1 DEF BytesInv
  <2>5. pty /\ ~failed => Range(Whole) = (1..input') \ refused'
    <3> SUFFICES ASSUME pty, ~failed PROVE Range(Whole) = (1..input') \ refused'
      OBVIOUS
    <3>1. Range(Whole) = (1..input) \ refused
      BY DEF BytesInv
    <3>2. (1..input + size) \ (refused \cup (input + 1..input + size)) = (1..input) \ refused
      BY <1>1, <1>3
    <3> QED BY <1>1, <2>1, <3>1, <3>2
  <2>6. Increasing(Whole)
    BY DEF BytesInv
  <2> QED BY <1>1, <2>2, <2>3, <2>4, <2>5, <2>6 DEF BytesInv
<1> QED BY <1>2, <1>5, <1>6

LEMMA BytesStep ==
    ASSUME ProcInv, QueueTypes, FlushInv, BytesInv, [Next]_vars
    PROVE  BytesInv'
BY QueueSteps, QuietKeepsBytes, FlushKeepsBytes, SyncKeepsBytes, BlockKeepsBytes,
   DoneKeepsBytes, WriteKeepsBytes, FailKeepsBytes, EndKeepsBytes

-----------------------------------------------------------------------------
(* The output and the Exit frame *)

OutputOf(s) == FlattenSeq([i \in 1..Len(s) |-> s[i].bytes])
ExitsOf(s) == {i \in DOMAIN s : s[i].type = "exit"}
Orderly(s) ==
    /\ \A i, j \in ExitsOf(s) : i = j
    /\ \A i \in ExitsOf(s), j \in DOMAIN s : i < j => s[j].type # "data"

LEMMA BytesFromJoin ==
    ASSUME NEW i \in Nat, NEW n \in Nat
    PROVE  BytesFrom(0, i) \o BytesFrom(i, n) = BytesFrom(0, i + n)
<1> DEFINE a == BytesFrom(0, i)
           b == BytesFrom(i, n)
           c == BytesFrom(0, i + n)
<1>1. a \in Seq(Nat) /\ Len(a) = i /\ \A j \in 1..i : a[j] = j
  <2>1. 0 + 1..0 + i \subseteq Nat /\ (\A j \in 1..i : 0 + j = j) /\ 0 \in Nat
    OBVIOUS
  <2> QED BY <2>1, BytesFromIs, SeqMonotonic
<1>2. b \in Seq(Nat) /\ Len(b) = n /\ \A j \in 1..n : b[j] = i + j
  <2>1. i + 1..i + n \subseteq Nat
    OBVIOUS
  <2> QED BY <2>1, BytesFromIs, SeqMonotonic
<1>3. c \in Seq(Nat) /\ Len(c) = i + n /\ \A j \in 1..i + n : c[j] = j
  <2>1. /\ 0 + 1..0 + (i + n) \subseteq Nat /\ (\A j \in 1..i + n : 0 + j = j) /\ 0 \in Nat
        /\ i + n \in Nat
    OBVIOUS
  <2> QED BY <2>1, BytesFromIs, SeqMonotonic
<1> HIDE DEF a, b, c
<1>4. /\ a \o b \in Seq(Nat) /\ Len(a \o b) = i + n
      /\ \A j \in 1..i + n : (a \o b)[j] = IF j <= i THEN a[j] ELSE b[j - i]
  BY <1>1, <1>2, ConcatProperties
<1>5. ASSUME NEW j \in 1..i + n PROVE (a \o b)[j] = c[j]
  <2>1. CASE j <= i
    <3>1. j \in 1..i
      BY <2>1
    <3> QED BY <2>1, <3>1, <1>1, <1>3, <1>4
  <2>2. CASE ~(j <= i)
    <3>1. j - i \in 1..n /\ i + (j - i) = j
      BY <2>2
    <3> QED BY <2>2, <3>1, <1>2, <1>3, <1>4
  <2> QED BY <2>1, <2>2
<1>6. a \o b = c
  BY <1>3, <1>4, <1>5, SeqEqual
<1> QED BY <1>6 DEF a, b, c

LEMMA OutputOfIs ==
    ASSUME NEW s \in Seq(Frames)
    PROVE  /\ [i \in 1..Len(s) |-> s[i].bytes] \in Seq(Seq(1..MaxOutput))
           /\ OutputOf(s) \in Seq(1..MaxOutput)
<1>1. Len(s) \in Nat
  BY LenProperties
<1>2. \A i \in 1..Len(s) : s[i].bytes \in Seq(1..MaxOutput)
  <2> TAKE i \in 1..Len(s)
  <2>1. s[i] \in Frames
    BY ElementOfSeq
  <2> QED BY <2>1 DEF Frames
<1>3. [i \in 1..Len(s) |-> s[i].bytes] \in Seq(Seq(1..MaxOutput))
  BY <1>1, <1>2, SeqDef
<1> QED BY <1>3, FlattenIsSeq DEF OutputOf

\* A frame more is its bytes more.
LEMMA OutputAppend ==
    ASSUME NEW s \in Seq(Frames), NEW f \in Frames
    PROVE  Append(s, f) \in Seq(Frames) /\ OutputOf(Append(s, f)) = OutputOf(s) \o f.bytes
<1> DEFINE r == Append(s, f)
           a == [i \in 1..Len(s) |-> s[i].bytes]
           b == [i \in 1..Len(r) |-> r[i].bytes]
<1>1. /\ r \in Seq(Frames) /\ Len(s) \in Nat /\ Len(r) = Len(s) + 1
      /\ \A i \in 1..Len(s) : r[i] = s[i]
      /\ r[Len(s) + 1] = f
  BY AppendProperties, LenProperties
<1> HIDE DEF r
<1>2. a \in Seq(Seq(1..MaxOutput)) /\ b \in Seq(Seq(1..MaxOutput))
  BY <1>1, OutputOfIs
<1>3. f.bytes \in Seq(1..MaxOutput)
  BY DEF Frames
<1>4. Len(a) = Len(s) /\ Len(b) = Len(s) + 1
  BY <1>1
<1>5. /\ Append(a, f.bytes) \in Seq(Seq(1..MaxOutput))
      /\ Len(Append(a, f.bytes)) = Len(s) + 1
      /\ \A i \in 1..Len(s) : Append(a, f.bytes)[i] = a[i]
      /\ Append(a, f.bytes)[Len(s) + 1] = f.bytes
  <2> HIDE DEF a
  <2> QED BY <1>2, <1>3, <1>4, AppendProperties
<1>6. ASSUME NEW i \in 1..Len(s) + 1 PROVE b[i] = Append(a, f.bytes)[i]
  <2>1. b[i] = r[i].bytes
    BY <1>1
  <2>2. CASE i = Len(s) + 1
    BY <2>1, <2>2, <1>1, <1>5
  <2>3. CASE i # Len(s) + 1
    <3>1. i \in 1..Len(s)
      BY <2>3, <1>1
    <3>2. a[i] = s[i].bytes
      BY <3>1
    <3> QED BY <2>1, <3>1, <3>2, <1>1, <1>5
  <2> QED BY <2>2, <2>3
<1>7. b = Append(a, f.bytes)
  <2> HIDE DEF a, b
  <2> QED BY <1>2, <1>4, <1>5, <1>6, SeqEqual
<1>8. FlattenSeq(Append(a, f.bytes)) = FlattenSeq(a) \o f.bytes
  <2> HIDE DEF a
  <2> QED BY <1>2, <1>3, FlattenAppend
<1>9. OutputOf(r) = OutputOf(s) \o f.bytes
  BY <1>7, <1>8 DEF OutputOf
<1> QED BY <1>1, <1>9 DEF r

\* A frame more keeps the order of frames, unless it is output or an Exit after an Exit.
LEMMA OrderlyAppend ==
    ASSUME NEW s \in Seq(Frames), NEW f \in Frames, Orderly(s),
           f.type \in {"exit", "data"} => ExitsOf(s) = {}
    PROVE  /\ Orderly(Append(s, f))
           /\ f.type # "exit" => ExitsOf(Append(s, f)) = ExitsOf(s)
<1> DEFINE r == Append(s, f)
<1>1. /\ Len(s) \in Nat /\ DOMAIN s = 1..Len(s) /\ DOMAIN r = 1..Len(s) + 1
      /\ \A i \in 1..Len(s) : r[i] = s[i]
      /\ r[Len(s) + 1] = f
  BY AppendProperties, LenProperties
<1> HIDE DEF r
<1>2. \A i \in ExitsOf(r) : i \in ExitsOf(s) \/ (i = Len(s) + 1 /\ f.type = "exit")
  <2> TAKE i \in ExitsOf(r)
  <2>1. i \in 1..Len(s) + 1 /\ r[i].type = "exit"
    BY <1>1 DEF ExitsOf
  <2>2. CASE i = Len(s) + 1
    BY <2>1, <2>2, <1>1
  <2>3. CASE i # Len(s) + 1
    <3>1. i \in 1..Len(s)
      BY <2>1, <2>3, <1>1
    <3> QED BY <2>1, <3>1, <1>1 DEF ExitsOf
  <2> QED BY <2>2, <2>3
<1>3. ExitsOf(s) \subseteq ExitsOf(r)
  <2> SUFFICES ASSUME NEW i \in ExitsOf(s) PROVE i \in ExitsOf(r)
    OBVIOUS
  <2>1. i \in 1..Len(s) /\ s[i].type = "exit" /\ i \in 1..Len(s) + 1
    BY <1>1 DEF ExitsOf
  <2> QED BY <2>1, <1>1 DEF ExitsOf
<1>4. f.type # "exit" => ExitsOf(r) = ExitsOf(s)
  BY <1>2, <1>3
<1>5. \A i, j \in ExitsOf(r) : i = j
  <2>1. CASE f.type = "exit"
    BY <2>1, <1>2
  <2>2. CASE f.type # "exit"
    BY <2>2, <1>4 DEF Orderly
  <2> QED BY <2>1, <2>2
<1>6. ASSUME NEW i \in ExitsOf(r), NEW j \in DOMAIN r, i < j PROVE r[j].type # "data"
  <2>1. CASE i \in ExitsOf(s)
    <3>1. f.type # "data" /\ f.type # "exit"
      BY <2>1
    <3>2. CASE j = Len(s) + 1
      BY <3>1, <3>2, <1>1
    <3>3. CASE j # Len(s) + 1
      <4>1. j \in DOMAIN s /\ r[j] = s[j]
        BY <3>3, <1>1
      <4> QED BY <2>1, <4>1, <1>6 DEF Orderly
    <3> QED BY <3>2, <3>3
  <2>2. CASE i = Len(s) + 1
    <3>1. j \in 1..Len(s) + 1
      BY <1>1
    <3> QED BY <2>2, <3>1, <1>1, <1>6
  <2> QED BY <1>2, <2>1, <2>2
<1>7. Orderly(r)
  BY <1>5, <1>6 DEF Orderly
<1> QED BY <1>4, <1>7 DEF r

LEMMA TwoInRow ==
    ASSUME NEW f, NEW e
    PROVE  <<f>> \o <<e>> = <<f, e>>
<1> DEFINE s == <<f>> \o <<e>>
           t == <<f, e>>
<1>1. <<f>> \in Seq({f, e}) /\ <<e>> \in Seq({f, e}) /\ t \in Seq({f, e})
  OBVIOUS
<1>2. Len(<<f>>) = 1 /\ Len(<<e>>) = 1 /\ Len(t) = 2
  OBVIOUS
<1>3. /\ s \in Seq({f, e}) /\ Len(s) = 1 + 1
      /\ \A i \in 1..1 + 1 : s[i] = IF i <= 1 THEN <<f>>[i] ELSE <<e>>[i - 1]
  BY <1>1, <1>2, ConcatProperties
<1>4. t[1] = f /\ t[2] = e /\ <<f>>[1] = f /\ <<e>>[1] = e
  OBVIOUS
<1> HIDE DEF s, t
<1>5. s[1] = f /\ s[2] = e
  BY <1>3, <1>4
<1>6. ASSUME NEW i \in 1..2 PROVE s[i] = t[i]
  <2>1. i = 1 \/ i = 2
    OBVIOUS
  <2> QED BY <2>1, <1>4, <1>5
<1>7. s = t
  BY <1>1, <1>2, <1>3, <1>6, SeqEqual
<1> QED BY <1>7 DEF s, t

LEMMA FrameIs ==
    ASSUME NEW t \in FrameTypes, NEW b \in Seq(1..MaxOutput)
    PROVE  Frame(t, b) \in Frames /\ Frame(t, b).type = t /\ Frame(t, b).bytes = b
BY DEF Frame, Frames

LEMMA SendsOne ==
    ASSUME NEW f \in Frames, NEW full \in BOOLEAN, Send(<<f>>, full), sent \in Seq(Frames)
    PROVE  sent' = Append(sent, f)
<1>1. <<f>> # <<>>
  OBVIOUS
<1>2. sent' = sent \o <<f>>
  BY <1>1 DEF Send
<1> QED BY <1>2, AppendIsConcat

\* The steps that print nothing: an error frame or a Spawned frame at most.
OutputQuiet ==
    /\ UNCHANGED <<outputChunks, flushScheduled, flushTimers, output>>
    /\ sent' = sent \/ \E t \in {"error", "spawned"} : sent' = Append(sent, Frame(t, <<>>))
    /\ shell = "dead" => shell' = "dead"
    /\ proc = "exited" => shell' = shell /\ proc' = proc

LEMMA OutputSteps ==
    ASSUME ProcInv, sent \in Seq(Frames), [Next]_vars
    PROVE  \/ OutputQuiet
           \/ \E n \in 1..MaxBatch, full \in BOOLEAN : PtyData(n, full)
           \/ \E full \in BOOLEAN : FlushTimer(full) \/ StdinEnd(full) \/ ShellExit(full)
           \/ \E full \in BOOLEAN : ForceExit(full) /\ pty
<1> USE DEF OutputQuiet, procVars, batchVars, stdoutVars
<1>0. ASSUME NEW full \in BOOLEAN, Send(<<Frame("error", <<>>)>>, full)
      PROVE  sent' = Append(sent, Frame("error", <<>>))
  <2>1. Frame("error", <<>>) \in Frames
    BY EmptySeq, FrameIs DEF FrameTypes
  <2> QED BY <1>0, <2>1, SendsOne
<1>1. CASE UNCHANGED vars
  BY <1>1 DEF vars
<1>2. CASE StdoutDrain
  BY <1>2 DEF StdoutDrain
<1>3. CASE Flush
  BY <1>3 DEF Flush
<1>4. CASE FlushSync
  <2>1. UNCHANGED <<procVars, batchVars>>
    BY <1>4 DEF FlushSync
  <2>2. UNCHANGED stdoutVars \/ \E full \in BOOLEAN : Send(<<Frame("error", <<>>)>>, full)
    BY <1>4 DEF FlushSync, WriteFails
  <2>3. sent' = sent \/ sent' = Append(sent, Frame("error", <<>>))
    BY <2>2, <1>0
  <2> QED BY <2>1, <2>3
<1>5. CASE WriteWouldBlock
  BY <1>5 DEF WriteWouldBlock
<1>6. ASSUME NEW n \in 0..Len(inflight), WriteDone(n)
      PROVE  OutputQuiet
  BY <1>6 DEF WriteDone
<1>7. ASSUME NEW ok \in BOOLEAN, NEW withFd \in BOOLEAN, NEW full \in BOOLEAN,
             HandleSpawn(ok, withFd, full)
      PROVE  OutputQuiet
  <2>1. UNCHANGED batchVars /\ shell = "none" /\ proc # "exited"
    BY <1>7 DEF HandleSpawn, Reads
  <2>2. \/ sent' = Append(sent, Frame("spawned", <<>>))
        \/ Send(<<Frame("error", <<>>)>>, full)
    BY <1>7 DEF HandleSpawn
  <2>3. \E t \in {"error", "spawned"} : sent' = Append(sent, Frame(t, <<>>))
    BY <2>2, <1>0
  <2> QED BY <2>1, <2>3
<1>8. ASSUME NEW size \in Sizes, NEW full \in BOOLEAN, HandleWrite(size, full)
      PROVE  OutputQuiet
  <2>1. UNCHANGED <<procVars, batchVars>>
    BY <1>8 DEF HandleWrite
  <2>2. sent' = sent \/ Send(<<Frame("error", <<>>)>>, full)
    BY <1>8 DEF HandleWrite, SendNothing
  <2>3. sent' = sent \/ sent' = Append(sent, Frame("error", <<>>))
    BY <2>2, <1>0
  <2> QED BY <2>1, <2>3
<1>9. ASSUME NEW full \in BOOLEAN, WriteFailed(full)
      PROVE  OutputQuiet
  <2>1. UNCHANGED <<procVars, batchVars>>
    BY <1>9 DEF WriteFailed
  <2>2. Send(<<Frame("error", <<>>)>>, full)
    BY <1>9 DEF WriteFailed, WriteFails
  <2> QED BY <2>1, <2>2, <1>0
<1>10. ASSUME NEW full \in BOOLEAN, ForceExit(full), ~pty
       PROVE  OutputQuiet
  <2>1. UNCHANGED <<shell, proc, batchVars, sent>>
    BY <1>10 DEF ForceExit, SendNothing
  <2> QED BY <2>1
<1>11. CASE HandleKill
  BY <1>11 DEF HandleKill
<1>12. CASE ChunkEnds
  BY <1>12 DEF ChunkEnds
<1>13. CASE DaemonGone
  BY <1>13 DEF DaemonGone
<1>14. CASE ProcessExit
  BY <1>14 DEF ProcessExit
<1>15. CASE Escalate
  <2>1. UNCHANGED <<proc, batchVars, stdoutVars>> /\ proc # "exited"
    BY <1>15 DEF Escalate, Runs
  <2>2. shell = "dead" => shell' = shell
    BY <1>15 DEF Escalate, ProcInv
  <2> QED BY <2>1, <2>2
<1> QED BY <1>1, <1>2, <1>3, <1>4, <1>5, <1>6, <1>7, <1>8, <1>9, <1>10, <1>11, <1>12,
           <1>13, <1>14, <1>15 DEF Next

\* The frames after a flush of the output that was held back.
Flushed == IF outputChunks = <<>> THEN sent ELSE Append(sent, Frame("data", outputChunks))

LEMMA FlushedIs ==
    ASSUME OutputInv, Orderly(sent), outputChunks # <<>> => ExitsOf(sent) = {}
    PROVE  /\ Flushed \in Seq(Frames) /\ OutputOf(Flushed) = BytesFrom(0, output)
           /\ Orderly(Flushed) /\ ExitsOf(Flushed) = ExitsOf(sent)
<1>1. /\ sent \in Seq(Frames) /\ outputChunks \in Seq(1..MaxOutput)
      /\ OutputOf(sent) \o outputChunks = BytesFrom(0, output)
  BY DEF OutputInv, OutputOf, SentOutput
<1>2. CASE outputChunks = <<>>
  <2>1. OutputOf(sent) \o <<>> = OutputOf(sent)
    BY <1>1, OutputOfIs, ConcatEmptySeq
  <2> QED BY <1>1, <1>2, <2>1 DEF Flushed
<1>3. CASE outputChunks # <<>>
  <2> DEFINE f == Frame("data", outputChunks)
  <2>1. f \in Frames /\ f.type = "data" /\ f.bytes = outputChunks
    BY <1>1, FrameIs DEF FrameTypes
  <2>2. Flushed = Append(sent, f)
    BY <1>3 DEF Flushed
  <2> HIDE DEF f
  <2>3. Append(sent, f) \in Seq(Frames) /\ OutputOf(Append(sent, f)) = OutputOf(sent) \o f.bytes
    BY <1>1, <2>1, OutputAppend
  <2>4. Orderly(Append(sent, f)) /\ ExitsOf(Append(sent, f)) = ExitsOf(sent)
    BY <1>1, <1>3, <2>1, OrderlyAppend
  <2> QED BY <1>1, <2>1, <2>2, <2>3, <2>4
<1> QED BY <1>2, <1>3

LEMMA FlushSends ==
    ASSUME sent \in Seq(Frames), outputChunks \in Seq(1..MaxOutput), NEW full \in BOOLEAN
    PROVE  /\ FlushOutput(<<>>, full) => sent' = Flushed
           /\ FlushOutput(ExitFrame, full) => sent' = Append(Flushed, Frame("exit", <<>>))
<1> DEFINE f == Frame("data", outputChunks)
           e == Frame("exit", <<>>)
<1>1. f \in Frames /\ e \in Frames
  BY FrameIs, EmptySeq DEF FrameTypes
<1>2. /\ outputChunks = <<>> => Batch = <<>> /\ Flushed = sent
      /\ outputChunks # <<>> => Batch = <<f>> /\ Flushed = Append(sent, f)
  BY DEF Batch, Flushed
<1>3. ExitFrame = <<e>>
  BY DEF ExitFrame
<1> HIDE DEF f, e
<1>4. sent \o <<e>> = Append(sent, e) /\ sent \o <<f>> = Append(sent, f)
  BY <1>1, AppendIsConcat
<1>5. sent \o <<f, e>> = Append(Append(sent, f), e)
  <2>1. Append(sent, f) \in Seq(Frames)
    BY <1>1, AppendProperties
  <2>2. Append(Append(sent, f), e) = Append(sent, f) \o <<e>>
    BY <1>1, <2>1, AppendIsConcat
  <2>3. <<f>> \in Seq(Frames) /\ <<e>> \in Seq(Frames)
    BY <1>1
  <2>4. Regroup(sent, <<f>>, <<e>>)
    BY <2>3, Regrouped
  <2>5. <<f>> \o <<e>> = <<f, e>>
    BY TwoInRow
  <2> QED BY <1>4, <2>2, <2>4, <2>5, Zenon DEF Regroup
<1>6. ASSUME FlushOutput(<<>>, full) PROVE sent' = Flushed
  <2>1. CASE outputChunks = <<>>
    <3>1. Batch \o <<>> = <<>>
      BY <1>2, <2>1, EmptySeq, ConcatEmptySeq
    <3> QED BY <1>2, <1>6, <2>1, <3>1 DEF FlushOutput, Send, SendNothing
  <2>2. CASE outputChunks # <<>>
    <3>1. Batch \o <<>> = <<f>> /\ <<f>> # <<>>
      BY <1>2, <2>2
    <3> QED BY <1>2, <1>4, <1>6, <2>2, <3>1 DEF FlushOutput, Send
  <2> QED BY <2>1, <2>2
<1>7. ASSUME FlushOutput(ExitFrame, full) PROVE sent' = Append(Flushed, e)
  <2>1. CASE outputChunks = <<>>
    <3>1. Batch \o ExitFrame = <<e>> /\ <<e>> # <<>>
      BY <1>2, <1>3, <2>1
    <3> QED BY <1>2, <1>4, <1>7, <2>1, <3>1 DEF FlushOutput, Send
  <2>2. CASE outputChunks # <<>>
    <3>1. Batch \o ExitFrame = <<f, e>> /\ <<f, e>> # <<>>
      BY <1>2, <1>3, <2>2, TwoInRow
    <3> QED BY <1>2, <1>5, <1>7, <2>2, <3>1 DEF FlushOutput, Send
  <2> QED BY <2>1, <2>2
<1> QED BY <1>6, <1>7 DEF e

LEMMA OutputInit == Init => OutputInv /\ ExitInv
<1> SUFFICES ASSUME Init PROVE OutputInv /\ ExitInv
  OBVIOUS
<1> DEFINE f == Frame("ready", <<>>)
<1>1. /\ outputChunks = <<>> /\ flushScheduled = FALSE /\ flushTimers = 0 /\ output = 0
      /\ sent = <<f>>
  BY DEF Init
<1>2. f \in Frames /\ f.type = "ready" /\ f.bytes = <<>>
  BY FrameIs, EmptySeq DEF FrameTypes
<1> HIDE DEF f
<1>3. <<>> \in Seq(Frames) /\ Append(<<>>, f) = <<f>>
  BY EmptySeq, <1>2
<1>4. OutputOf(<<>>) = <<>>
  <2>1. [i \in 1..Len(<<>>) |-> <<>>[i].bytes] = <<>>
    OBVIOUS
  <2> QED BY <2>1, FlattenEmpty DEF OutputOf
<1>5. <<f>> \in Seq(Frames) /\ OutputOf(<<f>>) = <<>>
  <2>1. Append(<<>>, f) \in Seq(Frames) /\ OutputOf(Append(<<>>, f)) = OutputOf(<<>>) \o f.bytes
    BY <1>2, <1>3, OutputAppend
  <2>2. <<>> \o <<>> = <<>>
    BY EmptySeq, ConcatEmptySeq
  <2> QED BY <1>2, <1>3, <1>4, <2>1, <2>2
<1>6. BytesFrom(0, 0) = <<>>
  <2>1. Len(BytesFrom(0, 0)) = 0 /\ BytesFrom(0, 0) \in Seq(0 + 1..0 + 0)
    BY BytesFromIs
  <2> QED BY <2>1, EmptySeq
<1>7. OutputInv
  <2>1. SentOutput \o outputChunks = BytesFrom(0, output)
    <3>1. <<>> \o <<>> = <<>>
      BY EmptySeq, ConcatEmptySeq
    <3> QED BY <1>1, <1>5, <1>6, <3>1 DEF SentOutput, OutputOf
  <2>2. output \in 0..MaxOutput /\ outputChunks \in Seq(1..MaxOutput) /\ Len(outputChunks) < MaxBatch
    BY <1>1, EmptySeq, BoundsAssumption, SizesAssumption
  <2> QED BY <1>1, <1>5, <2>1, <2>2 DEF OutputInv
<1>8. Exits = {}
  BY <1>1, <1>2 DEF Exits
<1> QED BY <1>7, <1>8 DEF ExitInv

LEMMA ExitsAre ==
    /\ Exits = ExitsOf(sent) /\ SentOutput = OutputOf(sent)
    /\ ExitInv => Orderly(sent)
BY DEF Exits, ExitsOf, SentOutput, OutputOf, ExitInv, Orderly

\* What is to be shown of a step for ExitInv.
LEMMA ExitsGrow ==
    ASSUME Orderly(sent'),
           ExitsOf(sent') # {} => \/ shell' = "dead" /\ outputChunks' = <<>>
                                  \/ shell' = "killed" /\ proc' = "exited"
    PROVE  ExitInv'
BY DEF ExitInv, Exits, ExitsOf, Orderly

LEMMA OutputGrows ==
    ASSUME output' \in 0..MaxOutput, outputChunks' \in Seq(1..MaxOutput),
           Len(outputChunks') < MaxBatch, flushScheduled' \in BOOLEAN, flushTimers' \in Nat,
           sent' \in Seq(Frames), outputChunks' # <<>> => flushScheduled',
           flushScheduled' => flushTimers' > 0,
           OutputOf(sent') \o outputChunks' = BytesFrom(0, output')
    PROVE  OutputInv'
BY DEF OutputInv, SentOutput, OutputOf

LEMMA QuietKeepsOutput ==
    ASSUME ProcInv, OutputInv, ExitInv, OutputQuiet
    PROVE  OutputInv' /\ ExitInv'
<1>1. /\ outputChunks' = outputChunks /\ flushScheduled' = flushScheduled
      /\ flushTimers' = flushTimers /\ output' = output
  BY DEF OutputQuiet
<1>2. /\ sent \in Seq(Frames) /\ OutputOf(sent) \o outputChunks = BytesFrom(0, output)
      /\ Orderly(sent)
  BY ExitsAre DEF OutputInv
<1>3. /\ sent' \in Seq(Frames) /\ OutputOf(sent') = OutputOf(sent)
      /\ Orderly(sent') /\ ExitsOf(sent') = ExitsOf(sent)
  <2>1. CASE sent' = sent
    BY <1>2, <2>1
  <2>2. ASSUME NEW t \in {"error", "spawned"}, sent' = Append(sent, Frame(t, <<>>))
        PROVE  /\ sent' \in Seq(Frames) /\ OutputOf(sent') = OutputOf(sent)
               /\ Orderly(sent') /\ ExitsOf(sent') = ExitsOf(sent)
    <3> DEFINE f == Frame(t, <<>>)
    <3>1. f \in Frames /\ f.type = t /\ f.bytes = <<>>
      <4>1. <<>> \in Seq(1..MaxOutput) /\ t \in FrameTypes
        BY EmptySeq DEF FrameTypes
      <4> QED BY <4>1, FrameIs
    <3>2. sent' = Append(sent, f)
      BY <2>2
    <3> HIDE DEF f
    <3>3. Append(sent, f) \in Seq(Frames) /\ OutputOf(Append(sent, f)) = OutputOf(sent) \o f.bytes
      BY <1>2, <3>1, OutputAppend
    <3>4. OutputOf(sent) \o <<>> = OutputOf(sent)
      BY <1>2, OutputOfIs, ConcatEmptySeq
    <3>5. f.type \notin {"exit", "data"}
      BY <3>1
    <3>6. Orderly(Append(sent, f)) /\ ExitsOf(Append(sent, f)) = ExitsOf(sent)
      BY <1>2, <3>1, <3>5, OrderlyAppend
    <3> QED BY <3>1, <3>2, <3>3, <3>4, <3>6
  <2> QED BY <2>1, <2>2 DEF OutputQuiet
<1>4. OutputInv'
  <2>1. /\ output \in 0..MaxOutput /\ outputChunks \in Seq(1..MaxOutput)
        /\ Len(outputChunks) < MaxBatch /\ flushScheduled \in BOOLEAN /\ flushTimers \in Nat
        /\ (outputChunks # <<>> => flushScheduled) /\ (flushScheduled => flushTimers > 0)
    BY DEF OutputInv
  <2> QED BY <1>1, <1>2, <1>3, <2>1, OutputGrows
<1>5. ExitInv'
  <2>1. ExitsOf(sent') # {} => \/ shell' = "dead" /\ outputChunks' = <<>>
                               \/ shell' = "killed" /\ proc' = "exited"
    BY <1>1, <1>3, ExitsAre DEF ExitInv, OutputQuiet
  <2> QED BY <1>3, <2>1, ExitsGrow
<1> QED BY <1>4, <1>5

LEMMA DataKeepsOutput ==
    ASSUME ProcInv, OutputInv, ExitInv, NEW n \in 1..MaxBatch, NEW full \in BOOLEAN,
           PtyData(n, full)
    PROVE  OutputInv' /\ ExitInv'
<1> DEFINE chunks == outputChunks \o BytesFrom(output, n)
           f == Frame("data", chunks)
<1>1. /\ shell \in {"alive", "killed"} /\ proc # "exited" /\ output' = output + n
      /\ output + n <= MaxOutput
  BY DEF PtyData, Runs
<1>2. /\ sent \in Seq(Frames) /\ OutputOf(sent) \o outputChunks = BytesFrom(0, output)
      /\ outputChunks \in Seq(1..MaxOutput) /\ output \in Nat /\ Orderly(sent)
      /\ flushScheduled \in BOOLEAN /\ flushTimers \in Nat
      /\ (flushScheduled => flushTimers > 0)
  BY ExitsAre, BoundsAssumption DEF OutputInv
<1>3. n \in Nat \ {0} /\ output' \in 0..MaxOutput /\ MaxBatch \in Nat \ {0} /\ MaxOutput \in Nat
  BY <1>1, <1>2, SizesAssumption, BoundsAssumption
<1>4. BytesFrom(output, n) \in Seq(1..MaxOutput)
  <2>1. BytesFrom(output, n) \in Seq(output + 1..output + n)
    BY <1>2, <1>3, BytesFromIs
  <2>2. output + 1..output + n \subseteq 1..MaxOutput
    BY <1>1, <1>2, <1>3
  <2> QED BY <2>1, <2>2, SeqMonotonic
<1>5. ExitsOf(sent) = {}
  BY <1>1, ExitsAre DEF ExitInv
<1>6. chunks \in Seq(1..MaxOutput) /\ OutputOf(sent) \o chunks = BytesFrom(0, output')
  <2>1. chunks \in Seq(1..MaxOutput)
    BY <1>2, <1>4, ConcatProperties
  <2>2. Regroup(OutputOf(sent), outputChunks, BytesFrom(output, n))
    BY <1>2, <1>4, OutputOfIs, Regrouped
  <2>3. BytesFrom(0, output) \o BytesFrom(output, n) = BytesFrom(0, output + n)
    BY <1>2, <1>3, BytesFromJoin
  <2> QED BY <1>1, <1>2, <2>1, <2>2, <2>3, Zenon DEF Regroup
<1>7. CASE /\ Len(chunks) >= MaxBatch /\ flushScheduled' = FALSE /\ outputChunks' = <<>>
           /\ Send(<<Frame("data", chunks)>>, full) /\ UNCHANGED flushTimers
  <2>1. f \in Frames /\ f.type = "data" /\ f.bytes = chunks
    <3> HIDE DEF chunks
    <3> QED BY <1>6, FrameIs DEF FrameTypes
  <2>2. Send(<<f>>, full)
    BY <1>7
  <2> HIDE DEF f, chunks
  <2>3. sent' = Append(sent, f)
    BY <1>2, <2>1, <2>2, SendsOne
  <2>4. Append(sent, f) \in Seq(Frames) /\ OutputOf(Append(sent, f)) = OutputOf(sent) \o f.bytes
    BY <1>2, <2>1, OutputAppend
  <2>5. Orderly(Append(sent, f)) /\ ExitsOf(Append(sent, f)) = ExitsOf(sent)
    BY <1>2, <1>5, <2>1, OrderlyAppend
  <2>6. OutputOf(sent') \o outputChunks' = BytesFrom(0, output')
    <3>1. OutputOf(sent') = BytesFrom(0, output')
      BY <1>6, <2>1, <2>3, <2>4
    <3>2. OutputOf(sent') \in Seq(1..MaxOutput)
      BY <2>3, <2>4, OutputOfIs
    <3>3. OutputOf(sent') \o <<>> = OutputOf(sent')
      BY <3>2, ConcatEmptySeq
    <3> QED BY <1>7, <3>1, <3>3
  <2>7. outputChunks' \in Seq(1..MaxOutput) /\ Len(outputChunks') < MaxBatch
    BY <1>3, <1>7, EmptySeq
  <2>8. OutputInv'
    BY <1>2, <1>3, <1>7, <2>3, <2>4, <2>6, <2>7, OutputGrows
  <2>9. ExitInv'
    BY <1>5, <2>3, <2>5, ExitsGrow
  <2> QED BY <2>8, <2>9
<1>8. CASE /\ Len(chunks) < MaxBatch /\ flushScheduled' = TRUE
           /\ flushTimers' = IF NeedsTimer THEN flushTimers + 1 ELSE flushTimers
           /\ outputChunks' = chunks /\ SendNothing
  <2>1. sent' = sent
    BY <1>8 DEF SendNothing
  <2>2. flushTimers' \in Nat /\ flushTimers' > 0
    BY <1>2, <1>8 DEF NeedsTimer
  <2>3. OutputInv'
    <3> HIDE DEF chunks
    <3> QED BY <1>2, <1>3, <1>6, <1>8, <2>1, <2>2, OutputGrows
  <2>4. ExitInv'
    BY <1>2, <1>5, <2>1, ExitsGrow
  <2> QED BY <2>3, <2>4
<1> QED BY <1>7, <1>8 DEF PtyData

\* A flush empties the buffer; what else the step does is in its hypotheses.
LEMMA FlushKeepsOutput ==
    ASSUME OutputInv, ExitInv, flushScheduled' = FALSE, outputChunks' = <<>>, output' = output,
           flushTimers' \in Nat, sent' = Flushed,
           outputChunks # <<>> => Exits = {},
           Exits # {} => shell' = "dead"
    PROVE  OutputInv' /\ ExitInv'
<1>1. Orderly(sent) /\ Exits = ExitsOf(sent)
  BY ExitsAre
<1>2. /\ Flushed \in Seq(Frames) /\ OutputOf(Flushed) = BytesFrom(0, output)
      /\ Orderly(Flushed) /\ ExitsOf(Flushed) = ExitsOf(sent)
  BY <1>1, FlushedIs
<1>3. OutputOf(sent') \o outputChunks' = BytesFrom(0, output')
  <2>1. OutputOf(Flushed) \o <<>> = OutputOf(Flushed)
    BY <1>2, OutputOfIs, ConcatEmptySeq
  <2> QED BY <1>2, <2>1
<1>4. outputChunks' \in Seq(1..MaxOutput) /\ Len(outputChunks') < MaxBatch
  BY EmptySeq, SizesAssumption
<1>5. output \in 0..MaxOutput
  BY DEF OutputInv
<1>6. OutputInv'
  BY <1>2, <1>3, <1>4, <1>5, OutputGrows
<1>7. ExitInv'
  BY <1>1, <1>2, ExitsGrow
<1> QED BY <1>6, <1>7

LEMMA TimerKeepsOutput ==
    ASSUME ProcInv, OutputInv, ExitInv, NEW full \in BOOLEAN, FlushTimer(full)
    PROVE  OutputInv' /\ ExitInv'
<1>1. /\ flushScheduled' = FALSE /\ outputChunks' = <<>> /\ output' = output
      /\ FlushOutput(<<>>, full) /\ shell' = shell /\ proc # "exited"
      /\ flushTimers > 0 /\ flushTimers' = flushTimers - 1
  BY DEF FlushTimer, FlushOutput, Runs, procVars
<1>2. sent' = Flushed
  BY <1>1, FlushSends DEF OutputInv
<1>3. flushTimers' \in Nat
  BY <1>1 DEF OutputInv
<1>4. Exits # {} => shell = "dead" /\ outputChunks = <<>>
  BY <1>1 DEF ExitInv
<1> QED BY <1>1, <1>2, <1>3, <1>4, FlushKeepsOutput

LEMMA EndKeepsOutput ==
    ASSUME ProcInv, OutputInv, ExitInv, NEW full \in BOOLEAN, StdinEnd(full)
    PROVE  OutputInv' /\ ExitInv'
<1>1. /\ flushScheduled' = FALSE /\ outputChunks' = <<>> /\ output' = output
      /\ FlushOutput(<<>>, full) /\ proc # "exited"
      /\ flushTimers' = flushTimers /\ shell' = IF pty THEN "killed" ELSE shell
  BY DEF StdinEnd, Disposed, FlushOutput, Runs
<1>2. sent' = Flushed
  BY <1>1, FlushSends DEF OutputInv
<1>3. flushTimers' \in Nat
  BY <1>1 DEF OutputInv
<1>4. Exits # {} => shell = "dead" /\ outputChunks = <<>>
  BY <1>1 DEF ExitInv
<1>5. shell = "dead" => shell' = "dead"
  BY <1>1 DEF ProcInv
<1> QED BY <1>1, <1>2, <1>3, <1>4, <1>5, FlushKeepsOutput

LEMMA ExitKeepsOutput ==
    ASSUME ProcInv, OutputInv, ExitInv, NEW full \in BOOLEAN, ShellExit(full)
    PROVE  OutputInv' /\ ExitInv'
<1> DEFINE e == Frame("exit", <<>>)
<1>1. /\ flushScheduled' = FALSE /\ outputChunks' = <<>> /\ output' = output
      /\ FlushOutput(ExitFrame, full) /\ proc # "exited" /\ shell \in {"alive", "killed"}
      /\ flushTimers' = flushTimers /\ shell' = "dead"
  BY DEF ShellExit, FlushOutput, Runs
<1>2. sent' = Append(Flushed, e)
  BY <1>1, FlushSends DEF OutputInv
<1>3. e \in Frames /\ e.type = "exit" /\ e.bytes = <<>>
  BY FrameIs, EmptySeq DEF FrameTypes
<1> HIDE DEF e
<1>4. ExitsOf(sent) = {} /\ Orderly(sent)
  BY <1>1, ExitsAre DEF ExitInv
<1>5. /\ Flushed \in Seq(Frames) /\ OutputOf(Flushed) = BytesFrom(0, output)
      /\ Orderly(Flushed) /\ ExitsOf(Flushed) = {}
  BY <1>4, FlushedIs
<1>6. sent' \in Seq(Frames) /\ OutputOf(sent') = OutputOf(Flushed) \o <<>>
  BY <1>2, <1>3, <1>5, OutputAppend
<1>7. Orderly(sent')
  BY <1>2, <1>3, <1>5, OrderlyAppend
<1>8. OutputOf(sent') \o outputChunks' = BytesFrom(0, output')
  <2>1. OutputOf(Flushed) \o <<>> = OutputOf(Flushed)
    BY <1>5, OutputOfIs, ConcatEmptySeq
  <2>2. OutputOf(sent') \o <<>> = OutputOf(sent')
    BY <1>6, OutputOfIs, ConcatEmptySeq
  <2> QED BY <1>1, <1>5, <1>6, <2>1, <2>2
<1>9. outputChunks' \in Seq(1..MaxOutput) /\ Len(outputChunks') < MaxBatch
  BY <1>1, EmptySeq, SizesAssumption
<1>10. output \in 0..MaxOutput /\ flushTimers \in Nat
  BY DEF OutputInv
<1>11. OutputInv'
  BY <1>1, <1>6, <1>8, <1>9, <1>10, OutputGrows
<1>12. ExitInv'
  BY <1>1, <1>7, ExitsGrow
<1> QED BY <1>11, <1>12

LEMMA ForceKeepsOutput ==
    ASSUME ProcInv, OutputInv, ExitInv, NEW full \in BOOLEAN, ForceExit(full), pty
    PROVE  OutputInv' /\ ExitInv'
<1> DEFINE e == Frame("exit", <<>>)
<1>1. /\ flushScheduled' = flushScheduled /\ outputChunks' = outputChunks /\ output' = output
      /\ Send(<<e>>, full) /\ flushTimers' = flushTimers
      /\ shell' = shell /\ proc' = "exited" /\ forces > 0
  BY DEF ForceExit, batchVars, ExitFrame
<1>2. shell = "killed" /\ proc = "running"
  BY <1>1 DEF ProcInv
<1>3. e \in Frames /\ e.type = "exit" /\ e.bytes = <<>>
  BY FrameIs, EmptySeq DEF FrameTypes
<1> HIDE DEF e
<1>4. /\ sent \in Seq(Frames) /\ OutputOf(sent) \o outputChunks = BytesFrom(0, output)
      /\ ExitsOf(sent) = {} /\ Orderly(sent)
  BY <1>2, ExitsAre DEF ExitInv, OutputInv
<1>5. sent' = Append(sent, e)
  BY <1>1, <1>3, <1>4, SendsOne
<1>6. sent' \in Seq(Frames) /\ OutputOf(sent') = OutputOf(sent) \o <<>>
  BY <1>3, <1>4, <1>5, OutputAppend
<1>7. Orderly(sent')
  BY <1>3, <1>4, <1>5, OrderlyAppend
<1>8. OutputOf(sent') \o outputChunks' = BytesFrom(0, output')
  <2>1. OutputOf(sent) \o <<>> = OutputOf(sent)
    BY <1>4, OutputOfIs, ConcatEmptySeq
  <2> QED BY <1>1, <1>4, <1>6, <2>1
<1>9. /\ output \in 0..MaxOutput /\ outputChunks \in Seq(1..MaxOutput)
      /\ Len(outputChunks) < MaxBatch /\ flushScheduled \in BOOLEAN /\ flushTimers \in Nat
      /\ (outputChunks # <<>> => flushScheduled) /\ (flushScheduled => flushTimers > 0)
  BY DEF OutputInv
<1>10. OutputInv'
  BY <1>1, <1>6, <1>8, <1>9, OutputGrows
<1>11. ExitInv'
  BY <1>1, <1>2, <1>7, ExitsGrow
<1> QED BY <1>10, <1>11

LEMMA OutputStep ==
    ASSUME ProcInv, OutputInv, ExitInv, [Next]_vars
    PROVE  OutputInv' /\ ExitInv'
<1>1. sent \in Seq(Frames)
  BY DEF OutputInv
<1> QED BY <1>1, OutputSteps, QuietKeepsOutput, DataKeepsOutput, TimerKeepsOutput,
           EndKeepsOutput, ExitKeepsOutput, ForceKeepsOutput

-----------------------------------------------------------------------------
(* The theorems                                                             *)

\* The invariant holds from the start, and every step keeps it.
LEMMA InvHolds == Spec => []Inv
<1>1. Init => Inv
  BY ProcInit, FlushInit, BytesInit, OutputInit DEF Inv
<1>2. Inv /\ [Next]_vars => Inv'
  BY ProcStep, FlushStep, BytesStep, OutputStep DEF Inv
<1> QED
  BY <1>1, <1>2, PTL DEF Spec

LEMMA InvTypes == ASSUME Inv PROVE TypeOK
<1>1. /\ shell \in {"none", "alive", "killed", "dead"} /\ proc \in {"running", "exiting", "exited"}
      /\ pty \in BOOLEAN /\ fd \in BOOLEAN /\ stdin \in {"open", "closed", "ended"}
      /\ inChunk \in BOOLEAN /\ ptyPaused \in BOOLEAN /\ owesDrain \in BOOLEAN
      /\ kills \in 0..MaxKills
  BY DEF Inv, ProcInv
<1>2. escalations \in 0..MaxKills /\ forces \in 0..MaxKills
  <2>1. /\ kills \in 0..MaxKills /\ escalations \in Nat /\ forces \in Nat
        /\ escalations + forces <= kills
    BY DEF Inv, ProcInv
  <2> QED
    BY <2>1, BoundsAssumption
<1>3. /\ writeQueue \in Seq(Seq(1..MaxBytes)) /\ queuedBytes \in Int
      /\ flushing \in BOOLEAN /\ stdinPaused \in BOOLEAN /\ failed \in BOOLEAN
      /\ inflight \in Seq(1..MaxBytes) /\ input \in 0..MaxBytes
      /\ written \in Seq(1..MaxBytes)
  BY DEF Inv, QueueTypes
<1>4. flushes \in 0..1
  BY DEF Inv, QueueTypes, FlushInv
<1>5. refused \subseteq 1..MaxBytes
  BY BoundsAssumption DEF Inv, QueueTypes
<1>6. /\ outputChunks \in Seq(1..MaxOutput) /\ Len(outputChunks) < MaxBatch
      /\ flushScheduled \in BOOLEAN /\ flushTimers \in Nat /\ output \in 0..MaxOutput
  BY DEF Inv, OutputInv
<1> QED
  BY <1>1, <1>2, <1>3, <1>4, <1>5, <1>6 DEF TypeOK

LEMMA InvOrders == ASSUME Inv PROVE InputInOrder
<1>1. /\ Pending \in Seq(1..MaxBytes) /\ written \in Seq(1..MaxBytes)
      /\ pty => Pending = FlattenSeq(writeQueue)
  BY PendingIs DEF Inv, QueueTypes
<1>2. Increasing(written \o Pending)
  BY DEF Inv, BytesInv, Whole
<1>3. Increasing(written)
  BY <1>1, <1>2, PrefixIncreasing
<1>4. pty /\ ~failed => Range(written \o Pending) = (1..input) \ refused
  BY DEF Inv, BytesInv, Whole
<1>5. pty => queuedBytes = Total(writeQueue)
  BY DEF Inv, BytesInv
<1> QED
  BY <1>1, <1>2, <1>3, <1>4, <1>5, Zenon DEF InputInOrder

LEMMA InvFlushes == ASSUME Inv PROVE BacklogHasFlusher
<1> SUFFICES ASSUME pty
              PROVE  /\ writeQueue # <<>> => flushing
                     /\ flushes + (IF inflight = <<>> THEN 0 ELSE 1)
                          = (IF flushing THEN 1 ELSE 0)
                     /\ stdinPaused /\ ~failed => queuedBytes > LowWater
  BY DEF BacklogHasFlusher
<1>1. flushes \in Nat /\ flushing \in BOOLEAN
  BY DEF Inv, QueueTypes
<1>2. CASE flushing
  <2>1. flushes + (IF inflight = <<>> THEN 0 ELSE 1) = 1
    BY <1>1, <1>2 DEF Inv, FlushInv
  <2> QED
    BY <2>1, <1>2 DEF Inv, FlushInv
<1>3. CASE ~flushing
  BY <1>1, <1>3 DEF Inv, FlushInv
<1> QED
  BY <1>1, <1>2, <1>3

LEMMA InvSendsAll == ASSUME Inv PROVE OutputThenExit
<1>1. ShellIsKept
  BY DEF Inv, ProcInv, ShellIsKept
<1>2. outputChunks # <<>> => flushTimers > 0
  BY DEF Inv, OutputInv
<1>3. shell = "dead" /\ Exits # {} => outputChunks = <<>>
  BY DEF Inv, ExitInv
<1> QED
  BY <1>1, <1>2, <1>3 DEF Inv, OutputInv, ExitInv, OutputThenExit

\* What is typed reaches the PTY in its order, through partial writes, retries
\* (EAGAIN) and frames that come during a write; until a write fails nothing but
\* what the hard limit refused is missing; queuedBytes is the size of the queue;
\* and while there is input in it exactly one write or flush of it is on its way.
THEOREM InputCorrect == Spec => []InputSound
<1>1. Inv => InputSound
  BY InvTypes, InvOrders, InvFlushes DEF InputSound
<1> QED
  BY <1>1, InvHolds, PTL

\* What the shell prints leaves in its order and no byte is lost in the batch,
\* whichever timers of the batch are still armed; there is one Exit frame at most,
\* no output comes after it, and all that a dead shell printed comes before it; the
\* process never exits while its shell is alive, nor holds it back while stdout is free.
THEOREM OutputCorrect == Spec => []OutputThenExit
<1>1. Inv => OutputThenExit
  BY InvSendsAll
<1> QED
  BY <1>1, InvHolds, PTL

-----------------------------------------------------------------------------
(* ShellReady: the scan is a fold over the characters of a frame.           *)

\* The fold as a function of the positions that it has seen.
FoldsOver(f, base, q, d) ==
    f = [s \in SUBSET d |-> IF s = {} THEN base ELSE ScanChar(f[s \ {Max(s)}], q[Max(s)])]
Folder(base, q, d) == CHOOSE f : FoldsOver(f, base, q, d)

LEMMA FoldIs ==
    ASSUME NEW base, NEW q
    PROVE  FoldLeft(ScanChar, base, q) = Folder(base, q, DOMAIN q)[DOMAIN q]
BY DEF FoldLeft, MapThenFoldSet, Folder, FoldsOver

LEMMA MaxIs ==
    ASSUME NEW m \in Nat, NEW s \in SUBSET (1..m), m \in s
    PROVE  Max(s) = m
<1>1. \A y \in s : m >= y
  OBVIOUS
<1>2. Max(s) \in s /\ \A y \in s : Max(s) >= y
  BY <1>1 DEF Max
<1>3. \A x \in s : x >= m => x = m
  OBVIOUS
<1> QED BY <1>2, <1>3

\* The function exists, for what is scanned up to n can be continued.
LEMMA FolderExists ==
    ASSUME NEW base, NEW q, NEW n \in Nat
    PROVE  \E f : FoldsOver(f, base, q, 1..n)
<1> DEFINE T == {k \in Nat : ~\E f : FoldsOver(f, base, q, 1..k)}
<1>1. SUFFICES ASSUME T # {} PROVE FALSE
  OBVIOUS
<1>2. PICK m \in Nat : m \in T /\ \A k \in T : m <= k
  BY <1>1, NatMin
<1>3. m # 0
  <2>1. 1..0 = {}
    OBVIOUS
  <2>2. FoldsOver([s \in SUBSET (1..0) |-> base], base, q, 1..0)
    BY <2>1 DEF FoldsOver
  <2> QED BY <2>2, <1>2
<1>4. PICK l \in Nat : m = l + 1
  <2>1. m - 1 \in Nat /\ m = (m - 1) + 1
    BY <1>3
  <2> QED BY <2>1
<1>5. PICK f : FoldsOver(f, base, q, 1..l)
  BY <1>2, <1>4
<1> DEFINE g == [s \in SUBSET (1..m) |-> IF m \in s THEN ScanChar(f[s \ {m}], q[m]) ELSE f[s]]
<1>6. FoldsOver(g, base, q, 1..m)
  <2>1. ASSUME NEW s \in SUBSET (1..m)
        PROVE  g[s] = IF s = {} THEN base ELSE ScanChar(g[s \ {Max(s)}], q[Max(s)])
    <3>1. CASE m \in s
      <4>1. Max(s) = m
        BY <3>1, MaxIs
      <4>2. g[s \ {m}] = f[s \ {m}]
        OBVIOUS
      <4> QED BY <3>1, <4>1, <4>2
    <3>2. CASE m \notin s
      <4>1. s \in SUBSET (1..l)
        BY <3>2, <1>4
      <4>2. f[s] = IF s = {} THEN base ELSE ScanChar(f[s \ {Max(s)}], q[Max(s)])
        BY <4>1, <1>5 DEF FoldsOver
      <4>3. g[s \ {Max(s)}] = f[s \ {Max(s)}] /\ g[s] = f[s]
        BY <3>2
      <4> QED BY <4>2, <4>3
    <3> QED BY <3>1, <3>2
  <2>2. g = [s \in SUBSET (1..m) |-> IF s = {} THEN base
                                     ELSE ScanChar(g[s \ {Max(s)}], q[Max(s)])]
    BY <2>1
  <2> QED BY <2>2 DEF FoldsOver
<1> QED BY <1>2, <1>6

LEMMA FolderStep ==
    ASSUME NEW base, NEW q, NEW n \in Nat
    PROVE  /\ Folder(base, q, 1..n)[{}] = base
           /\ \A i \in 1..n : Folder(base, q, 1..n)[1..i]
                                = ScanChar(Folder(base, q, 1..n)[1..i - 1], q[i])
<1> DEFINE f == Folder(base, q, 1..n)
<1>1. f = [s \in SUBSET (1..n) |-> IF s = {} THEN base
                                   ELSE ScanChar(f[s \ {Max(s)}], q[Max(s)])]
  <2>1. FoldsOver(f, base, q, 1..n)
    BY FolderExists DEF Folder
  <2> HIDE DEF f
  <2> QED BY <2>1 DEF FoldsOver
<1> HIDE DEF f
<1>2. f[{}] = base
  BY <1>1
<1>3. ASSUME NEW i \in 1..n
      PROVE  f[1..i] = ScanChar(f[1..i - 1], q[i])
  <2>1. 1..i \in SUBSET (1..n) /\ 1..i # {} /\ i \in 1..i /\ i \in Nat
    OBVIOUS
  <2>2. Max(1..i) = i
    BY <2>1, MaxIs
  <2>3. (1..i) \ {i} = 1..i - 1
    BY <2>1
  <2>4. f[1..i] = ScanChar(f[(1..i) \ {Max(1..i)}], q[Max(1..i)])
    BY <1>1, <2>1
  <2> QED BY <2>2, <2>3, <2>4
<1> QED BY <1>2, <1>3 DEF f

\* What the scanner is after it has seen all characters: it holds back a piece of a
\* marker, or has taken one out.
Scanners == [pos : 0..Len(Marker) - 1, held : Seq(Chars), out : Seq(Chars), found : BOOLEAN]
OneTaken(all, out) == \E a, b \in Seq(Chars) : all = (a \o Marker) \o b /\ out = a \o b
ScanState(acc, all) ==
    /\ acc \in Scanners
    /\ acc.held = SubSeq(Marker, 1, acc.pos)
    /\ ~acc.found => acc.out \o acc.held = all
    /\ acc.found => acc.pos = 0 /\ OneTaken(all, acc.out)

AppendsIn(a, b, c) == Append(a \o b, c) = a \o Append(b, c)

LEMMA AppendConcat ==
    ASSUME NEW S, NEW a \in Seq(S), NEW b \in Seq(S), NEW c \in S
    PROVE  AppendsIn(a, b, c)
<1>1. a \o b \in Seq(S) /\ <<c>> \in Seq(S)
  BY ConcatProperties
<1>2. Regroup(a, b, <<c>>)
  BY <1>1, Regrouped
<1>3. Append(a \o b, c) = (a \o b) \o <<c>> /\ Append(b, c) = b \o <<c>>
  BY <1>1, AppendIsConcat
<1> QED BY <1>2, <1>3 DEF Regroup, AppendsIn

LEMMA MarkerPieces ==
    /\ Len(Marker) \in Nat \ {0}
    /\ SubSeq(Marker, 1, 0) = <<>> /\ SubSeq(Marker, 1, Len(Marker)) = Marker
    /\ \A n \in 0..Len(Marker) - 1 :
          /\ Marker[n + 1] \in Chars
          /\ Append(SubSeq(Marker, 1, n), Marker[n + 1]) = SubSeq(Marker, 1, n + 1)
<1>1. Marker \in Seq(Chars) /\ Marker # <<>> /\ Len(Marker) \in Nat \ {0}
  BY GateAssumption, LenProperties, EmptySeq
<1>2. SubSeq(Marker, 1, 0) = <<>>
  <2>1. 0 \in Int /\ 1 \in Int /\ 0 < 1
    OBVIOUS
  <2> QED BY <2>1, SubSeqEmpty
<1>3. SubSeq(Marker, 1, Len(Marker)) = Marker
  BY <1>1, SubSeqFull
<1>4. ASSUME NEW n \in 0..Len(Marker) - 1
      PROVE  /\ Marker[n + 1] \in Chars
             /\ Append(SubSeq(Marker, 1, n), Marker[n + 1]) = SubSeq(Marker, 1, n + 1)
  <2>1. n + 1 \in 1..Len(Marker)
    BY <1>1
  <2>2. Marker[n + 1] \in Chars
    BY <1>1, <2>1, ElementOfSeq
  <2>3. SubSeq(Marker, 1, n + 1) = Append(SubSeq(Marker, 1, n), Marker[n + 1])
    <3> DEFINE m == n + 1
    <3>1. m \in 1..Len(Marker) /\ m - 1 = n
      BY <2>1
    <3> HIDE DEF m
    <3>2. 1 \in 1..Len(Marker) /\ m \in 1..Len(Marker) /\ m \in Int /\ n \in Int /\ 1 \in Int
      BY <1>1, <3>1
    <3>3. SubSeq(Marker, 1, m) = SubSeq(Marker, 1, n) \o <<Marker[m]>>
      BY <1>1, <3>1, <3>2, SubSeqRecursiveSecond
    <3>4. \A i \in 1..n : Marker[i] \in Chars
      BY <1>1, ElementOfSeq
    <3>5. SubSeq(Marker, 1, n) \in Seq(Chars)
      BY <3>2, <3>4, SubSeqProperties
    <3>6. Append(SubSeq(Marker, 1, n), Marker[m]) = SubSeq(Marker, 1, n) \o <<Marker[m]>>
      BY <2>2, <3>5, AppendIsConcat DEF m
    <3> QED BY <3>3, <3>6 DEF m
  <2> QED BY <2>2, <2>3
<1> QED BY <1>1, <1>2, <1>3, <1>4

\* One more character: the scanner passes it on, holds it back, or has found the marker.
LEMMA ScanCharStep ==
    ASSUME NEW all \in Seq(Chars), NEW acc, ScanState(acc, all), NEW c \in Chars
    PROVE  ScanState(ScanChar(acc, c), Append(all, c))
<1> DEFINE new == ScanChar(acc, c)
<1>1. /\ acc \in Scanners /\ acc.pos \in 0..Len(Marker) - 1 /\ acc.found \in BOOLEAN
      /\ acc.held \in Seq(Chars) /\ acc.out \in Seq(Chars)
      /\ acc.held = SubSeq(Marker, 1, acc.pos)
  BY DEF ScanState, Scanners
<1>2. Len(Marker) \in Nat \ {0} /\ 0 \in 0..Len(Marker) - 1 /\ SubSeq(Marker, 1, 0) = <<>>
  BY MarkerPieces
<1>3. <<>> \in Seq(Chars) /\ <<c>> \in Seq(Chars) /\ Append(all, c) \in Seq(Chars)
  BY EmptySeq, AppendProperties
<1>4. CASE acc.found
  <2>1. PICK a, b \in Seq(Chars) : all = (a \o Marker) \o b /\ acc.out = a \o b
    BY <1>4 DEF ScanState, OneTaken
  <2>2. new = [acc EXCEPT !.out = Append(@, c)]
    BY <1>4 DEF ScanChar
  <2>3. /\ new.pos = acc.pos /\ new.held = acc.held /\ new.found = acc.found
        /\ new.out = Append(acc.out, c)
    BY <1>1, <2>2 DEF Scanners
  <2>4. new \in Scanners
    <3>1. Append(acc.out, c) \in Seq(Chars)
      BY <1>1, AppendProperties
    <3> QED BY <1>1, <2>2, <3>1 DEF Scanners
  <2>5. a \o Marker \in Seq(Chars) /\ Append(b, c) \in Seq(Chars)
    BY ConcatProperties, AppendProperties, GateAssumption
  <2>6. Append(all, c) = (a \o Marker) \o Append(b, c)
    <3> DEFINE x == a \o Marker
    <3>1. x \in Seq(Chars)
      BY <2>5
    <3> HIDE DEF x
    <3>2. AppendsIn(x, b, c)
      BY <3>1, AppendConcat
    <3> QED BY <2>1, <3>2, Zenon DEF x, AppendsIn
  <2>7. new.out = a \o Append(b, c)
    <3>1. AppendsIn(a, b, c)
      BY AppendConcat
    <3> HIDE DEF new
    <3> QED BY <2>1, <2>3, <3>1, Zenon DEF AppendsIn
  <2>8. OneTaken(Append(all, c), new.out)
    BY <2>5, <2>6, <2>7 DEF OneTaken
  <2>9. acc.pos = 0
    BY <1>4 DEF ScanState
  <2> HIDE DEF new
  <2>10. ScanState(new, Append(all, c))
    BY <1>1, <1>4, <2>3, <2>4, <2>8, <2>9 DEF ScanState
  <2> QED BY <2>10 DEF new
<1>5. CASE ~acc.found /\ c # Marker[acc.pos + 1]
  <2>1. acc.out \o acc.held = all
    BY <1>5 DEF ScanState
  <2>2. new = [acc EXCEPT !.pos = 0, !.held = <<>>, !.out = (@ \o acc.held) \o <<c>>]
    BY <1>5 DEF ScanChar, Mismatch
  <2>3. Append(all, c) = all \o <<c>>
    BY AppendIsConcat
  <2>4. /\ new.pos = 0 /\ new.held = <<>> /\ new.found = acc.found
        /\ new.out = Append(all, c)
    BY <1>1, <2>1, <2>2, <2>3 DEF Scanners
  <2>5. new \in Scanners
    <3>1. new = [acc EXCEPT !.pos = 0, !.held = <<>>, !.out = Append(all, c)]
      BY <2>1, <2>2, <2>3
    <3> QED BY <1>1, <1>2, <1>3, <3>1 DEF Scanners
  <2>6. Append(all, c) \o <<>> = Append(all, c)
    BY <1>3, ConcatEmptySeq
  <2> HIDE DEF new
  <2>7. ScanState(new, Append(all, c))
    BY <1>2, <1>5, <2>4, <2>5, <2>6 DEF ScanState
  <2> QED BY <2>7 DEF new
<1>6. CASE ~acc.found /\ c = Marker[acc.pos + 1]
  <2>1. acc.out \o acc.held = all
    BY <1>6 DEF ScanState
  <2>2. Append(acc.held, c) = SubSeq(Marker, 1, acc.pos + 1) /\ Append(acc.held, c) \in Seq(Chars)
    BY <1>1, <1>6, MarkerPieces, AppendProperties
  <2>3. Append(all, c) = acc.out \o Append(acc.held, c)
    <3>1. AppendsIn(acc.out, acc.held, c)
      BY <1>1, AppendConcat
    <3> QED BY <2>1, <3>1, Zenon DEF AppendsIn
  <2>4. CASE acc.pos + 1 < Len(Marker)
    <3>1. new = [acc EXCEPT !.pos = @ + 1, !.held = Append(@, c)]
      BY <1>6, <2>4 DEF ScanChar
    <3>2. /\ new.pos = acc.pos + 1 /\ new.held = Append(acc.held, c) /\ new.found = acc.found
          /\ new.out = acc.out
      BY <1>1, <3>1 DEF Scanners
    <3>3. acc.pos + 1 \in 0..Len(Marker) - 1
      BY <1>1, <1>2, <2>4
    <3>4. new \in Scanners
      BY <1>1, <2>2, <3>1, <3>3 DEF Scanners
    <3> HIDE DEF new
    <3>5. ScanState(new, Append(all, c))
      BY <1>6, <2>2, <2>3, <3>2, <3>4 DEF ScanState
    <3> QED BY <3>5 DEF new
  <2>5. CASE ~(acc.pos + 1 < Len(Marker))
    <3>1. new = [acc EXCEPT !.pos = 0, !.held = <<>>, !.found = TRUE]
      BY <1>6, <2>5 DEF ScanChar
    <3>2. new.pos = 0 /\ new.held = <<>> /\ new.found = TRUE /\ new.out = acc.out
      BY <1>1, <3>1 DEF Scanners
    <3>3. new \in Scanners
      BY <1>1, <1>2, <1>3, <3>1 DEF Scanners
    <3>4. acc.pos + 1 = Len(Marker)
      BY <1>1, <1>2, <2>5
    <3>5. Append(all, c) = acc.out \o Marker
      BY <2>2, <2>3, <3>4, MarkerPieces
    <3>6. (acc.out \o Marker) \o <<>> = acc.out \o Marker /\ acc.out \o <<>> = acc.out
      <4>1. acc.out \o Marker \in Seq(Chars)
        BY <1>1, ConcatProperties, GateAssumption
      <4> QED BY <1>1, <4>1, ConcatEmptySeq
    <3>7. OneTaken(Append(all, c), new.out)
      BY <1>1, <1>3, <3>2, <3>5, <3>6 DEF OneTaken
    <3> HIDE DEF new
    <3>8. ScanState(new, Append(all, c))
      BY <1>2, <3>2, <3>3, <3>7 DEF ScanState
    <3> QED BY <3>8 DEF new
  <2> QED BY <2>4, <2>5
<1> QED BY <1>1, <1>4, <1>5, <1>6

\* The whole frame.
LEMMA ScanIs ==
    ASSUME NEW payload \in Seq(Chars),
           markerMatchPos \in 0..Len(Marker) - 1, markerHeld = SubSeq(Marker, 1, markerMatchPos)
    PROVE  /\ markerHeld \in Seq(Chars)
           /\ ScanState(Scan(payload), markerHeld \o payload)
<1> DEFINE base == [pos |-> markerMatchPos, held |-> markerHeld, out |-> <<>>, found |-> FALSE]
           n == Len(payload)
           f == Folder(base, payload, 1..n)
           All(i) == markerHeld \o SubSeq(payload, 1, i)
           T == {i \in 0..n : ~ScanState(f[1..i], All(i))}
<1>1. n \in Nat /\ DOMAIN payload = 1..n
  BY LenProperties
<1>2. Scan(payload) = f[1..n]
  <2>1. Scan(payload) = Folder(base, payload, DOMAIN payload)[DOMAIN payload]
    BY FoldIs DEF Scan
  <2> QED BY <1>1, <2>1
<1>3. markerHeld \in Seq(Chars)
  <2>1. Marker \in Seq(Chars) /\ Len(Marker) \in Nat /\ 1 \in Int /\ markerMatchPos \in Int
    BY GateAssumption, LenProperties
  <2>2. \A i \in 1..markerMatchPos : Marker[i] \in Chars
    BY <2>1, ElementOfSeq
  <2> QED BY <2>1, <2>2, SubSeqProperties
<1>4. \A i \in 0..n : SubSeq(payload, 1, i) \in Seq(Chars) /\ All(i) \in Seq(Chars)
  <2>1. TAKE i \in 0..n
  <2>2. i \in Int /\ 1 \in Int /\ \A j \in 1..i : payload[j] \in Chars
    BY <1>1, ElementOfSeq
  <2>3. SubSeq(payload, 1, i) \in Seq(Chars)
    BY <2>2, SubSeqProperties
  <2> QED BY <1>3, <2>3, ConcatProperties
<1>5. f[{}] = base /\ \A i \in 1..n : f[1..i] = ScanChar(f[1..i - 1], payload[i])
  BY <1>1, FolderStep
<1>6. ScanState(f[1..0], All(0))
  <2>1. 1..0 = {} /\ 0 < 1 /\ 0 \in Int /\ 1 \in Int
    OBVIOUS
  <2>2. All(0) = markerHeld
    <3>1. SubSeq(payload, 1, 0) = <<>>
      BY <2>1, SubSeqEmpty
    <3> QED BY <1>3, <3>1, ConcatEmptySeq
  <2>3. <<>> \o markerHeld = markerHeld /\ <<>> \in Seq(Chars)
    BY <1>3, EmptySeq, ConcatEmptySeq
  <2>4. ScanState(base, markerHeld)
    BY <1>3, <2>3 DEF ScanState, Scanners
  <2> QED BY <1>5, <2>1, <2>2, <2>4
<1>7. ASSUME NEW i \in 1..n, ScanState(f[1..i - 1], All(i - 1))
      PROVE  ScanState(f[1..i], All(i))
  <2>1. payload[i] \in Chars /\ i - 1 \in 0..n
    BY <1>1, ElementOfSeq
  <2>2. Append(All(i - 1), payload[i]) = All(i)
    <3> DEFINE b == SubSeq(payload, 1, i - 1)
    <3>1. b \in Seq(Chars)
      BY <1>4, <2>1
    <3>2. 1 \in 1..Len(payload) /\ i \in 1..Len(payload)
      BY <1>1
    <3>3. SubSeq(payload, 1, i) = b \o <<payload[i]>>
      BY <3>2, SubSeqRecursiveSecond
    <3>4. Append(b, payload[i]) = b \o <<payload[i]>>
      BY <2>1, <3>1, AppendIsConcat
    <3>5. AppendsIn(markerHeld, b, payload[i])
      BY <1>3, <2>1, <3>1, AppendConcat
    <3> QED BY <3>3, <3>4, <3>5, Zenon DEF AppendsIn
  <2>3. ScanState(ScanChar(f[1..i - 1], payload[i]), Append(All(i - 1), payload[i]))
    <3>1. All(i - 1) \in Seq(Chars)
      BY <1>4, <2>1
    <3> HIDE DEF All, f
    <3> QED BY <1>7, <2>1, <3>1, ScanCharStep
  <2> QED BY <1>5, <2>2, <2>3
<1>8. T = {}
  <2>1. SUFFICES ASSUME T # {} PROVE FALSE
    OBVIOUS
  <2>2. PICK m \in 0..n : ~ScanState(f[1..m], All(m)) /\ \A k \in T : m <= k
    <3>1. T \subseteq Nat
      BY <1>1
    <3>2. Min(T) \in T /\ \A k \in T : Min(T) <= k
      <4> HIDE DEF T
      <4> QED BY <2>1, <3>1, NatMin
    <3> QED BY <3>2
  <2>3. m # 0
    BY <1>6, <2>2
  <2>4. m \in 1..n /\ m - 1 \in 0..n /\ ~(m <= m - 1)
    BY <1>1, <2>3
  <2>5. ScanState(f[1..m - 1], All(m - 1))
    <3>1. m - 1 \notin T
      BY <2>2, <2>4
    <3> QED BY <2>4, <3>1
  <2> QED BY <1>7, <2>2, <2>4, <2>5
<1>9. ScanState(f[1..n], All(n))
  <2>1. n \in 0..n
    BY <1>1
  <2> QED BY <1>8, <2>1
<1>10. All(n) = markerHeld \o payload
  BY SubSeqFull
<1> QED BY <1>2, <1>3, <1>9, <1>10

-----------------------------------------------------------------------------
(* ShellReady: the gate.                                                    *)

\* Output, by what the gate is.
OutputSplit ==
    process # "gone" =>
        /\ Shut => arrived = shown \o markerHeld
        /\ shellReadyState = "ready" => OneTaken(arrived, shown)
        /\ shellReadyState \in {"timed_out", "unsupported"} => arrived = shown

GateInv ==
    /\ GateTypeOK /\ TimeoutIffShut /\ NothingTypedEarly /\ WritesKeepOrder /\ OutputSplit
    /\ ~Shut => preReady = <<>>

LEMMA InitialIs == InitialState \in ReadyStates
BY DEF InitialState, ReadyStates

LEMMA PrefixIs ==
    ASSUME NEW S, NEW a \in Seq(S), NEW b \in Seq(S)
    PROVE  IsPrefix(a, a \o b)
<1>1. /\ Len(a) \in Nat /\ Len(b) \in Nat /\ a \o b \in Seq(S)
      /\ Len(a \o b) = Len(a) + Len(b)
  BY LenProperties, ConcatProperties
<1>2. SubSeq(a, 1, Len(a)) = SubSeq(a \o b, 1, Len(a))
  <2>1. CASE Len(a) = 0
    <3>1. Len(a) \in Int /\ 1 \in Int /\ Len(a) < 1
      BY <2>1
    <3> QED BY <3>1, SubSeqEmpty
  <2>2. CASE Len(a) # 0
    <3>1. 1 \in 1..Len(a) /\ Len(a) \in 1..Len(a)
      BY <1>1, <2>2
    <3> QED BY <3>1, SubSeqOfConcat1
  <2> QED BY <2>1, <2>2
<1>3. Len(a) <= Len(a \o b)
  BY <1>1
<1> QED BY <1>2, <1>3 DEF IsPrefix

LEMMA HeldIs ==
    ASSUME GateTypeOK
    PROVE  /\ markerHeld \in Seq(Chars) /\ 0 \in 0..Len(Marker) - 1
           /\ SubSeq(Marker, 1, 0) = <<>> /\ <<>> \in Seq(1..MaxWrites)
<1>1. <<>> \in Seq(Chars) /\ <<>> \in Seq(1..MaxWrites)
  BY EmptySeq
<1> QED BY <1>1, ScanIs, MarkerPieces DEF GateTypeOK

LEMMA GateStarts == GateInit => GateInv
<1> SUFFICES ASSUME GateInit PROVE GateInv
  OBVIOUS
<1>1. /\ gatedShell \in Shells /\ process = "none" /\ shellReadyState = InitialState
      /\ timeoutArmed = FALSE /\ preReady = <<>> /\ markerMatchPos = 0 /\ markerHeld = <<>>
      /\ gateSent = <<>> /\ shown = <<>> /\ gateWritten = <<>> /\ arrived = <<>>
      /\ replies = 0 /\ calls = 0
  BY DEF GateInit
<1>2. GateTypeOK
  <2>1. <<>> \in Seq(1..MaxWrites) /\ <<>> \in Seq(Chars)
    BY EmptySeq
  <2>2. 0 \in 0..MaxWrites /\ 0 \in 0..MaxReplies
    BY GateAssumption
  <2>3. 0 \in 0..Len(Marker) - 1 /\ SubSeq(Marker, 1, 0) = <<>>
    BY MarkerPieces
  <2> QED BY <1>1, <2>1, <2>2, <2>3, InitialIs DEF GateTypeOK, Processes
<1>3. <<>> \o <<>> = <<>>
  <2>1. <<>> \in Seq(Chars)
    BY EmptySeq
  <2> QED BY <2>1, ConcatEmptySeq
<1>4. TimeoutIffShut /\ NothingTypedEarly
  BY <1>1 DEF TimeoutIffShut, NothingTypedEarly
<1>5. WritesKeepOrder
  BY <1>1, <1>3 DEF WritesKeepOrder
<1>6. OutputSplit
  BY <1>1, <1>3 DEF OutputSplit, InitialState
<1> QED BY <1>1, <1>2, <1>4, <1>5, <1>6 DEF GateInv

LEMMA SpawnGate == ASSUME GateInv, Spawn \/ ReadyFrame PROVE GateInv'
<1>1. /\ process \in {"none", "booting"} /\ process' \in {"booting", "ready"}
      /\ timeoutArmed' \in BOOLEAN
      /\ (timeoutArmed' <=> Shut)
  <2>1. CASE Spawn
    BY <2>1 DEF Spawn, Shut
  <2>2. CASE ReadyFrame
    BY <2>2 DEF ReadyFrame, GateInv, GateTypeOK, TimeoutIffShut, Shut
  <2> QED BY <2>1, <2>2
<1>2. /\ gatedShell' = gatedShell /\ shellReadyState' = shellReadyState
      /\ preReady' = preReady /\ markerMatchPos' = markerMatchPos /\ markerHeld' = markerHeld
      /\ gateSent' = gateSent /\ replies' = replies /\ shown' = shown
      /\ gateWritten' = gateWritten /\ calls' = calls /\ arrived' = arrived
  BY DEF Spawn, ReadyFrame, scanVars, gateHistVars
<1>3. GateTypeOK'
  BY <1>1, <1>2 DEF GateInv, GateTypeOK, Processes
<1>4. TimeoutIffShut' /\ NothingTypedEarly' /\ WritesKeepOrder'
  BY <1>1, <1>2 DEF GateInv, TimeoutIffShut, NothingTypedEarly, WritesKeepOrder, Shut
<1>5. OutputSplit'
  BY <1>1, <1>2 DEF GateInv, OutputSplit, Shut
<1> QED BY <1>2, <1>3, <1>4, <1>5 DEF GateInv, Shut

LEMMA WriteGate == ASSUME GateInv, NEW escape \in BOOLEAN, Write(escape) PROVE GateInv'
<1>1. /\ process = "ready" /\ calls' = calls + 1 /\ calls < MaxWrites
      /\ gatedShell' = gatedShell /\ process' = process /\ shellReadyState' = shellReadyState
      /\ timeoutArmed' = timeoutArmed
      /\ markerMatchPos' = markerMatchPos /\ markerHeld' = markerHeld
      /\ replies' = replies /\ shown' = shown /\ arrived' = arrived
  BY DEF Write, scanVars
<1>2. calls' \in 1..MaxWrites /\ calls' \in 0..MaxWrites
  BY <1>1, GateAssumption DEF GateInv, GateTypeOK
<1>3. /\ preReady \in Seq(1..MaxWrites) /\ gateSent \in Seq(1..MaxWrites)
      /\ gateWritten \in Seq(1..MaxWrites)
      /\ Append(preReady, calls') \in Seq(1..MaxWrites)
      /\ Append(gateSent, calls') \in Seq(1..MaxWrites)
      /\ Append(gateWritten, calls') \in Seq(1..MaxWrites)
  BY <1>2, AppendProperties DEF GateInv, GateTypeOK
<1>4. gateSent \o preReady = gateWritten
  BY <1>1 DEF GateInv, WritesKeepOrder
<1>5. /\ preReady' \in Seq(1..MaxWrites) /\ gateSent' \in Seq(1..MaxWrites)
      /\ gateWritten' \in Seq(1..MaxWrites)
      /\ gateSent' \o preReady' = gateWritten'
      /\ Shut => gateSent' = gateSent
      /\ ~Shut => preReady' = <<>>
  <2>1. CASE preReady' = preReady /\ gateSent' = gateSent /\ gateWritten' = gateWritten
    BY <1>3, <1>4, <2>1 DEF GateInv
  <2>2. CASE /\ Shut /\ preReady' = Append(preReady, calls') /\ gateSent' = gateSent
             /\ gateWritten' = Append(gateWritten, calls')
    <3>1. AppendsIn(gateSent, preReady, calls')
      BY <1>2, <1>3, AppendConcat
    <3>2. gateSent' \o preReady' = gateWritten'
      BY <1>4, <2>2, <3>1, Zenon DEF AppendsIn
    <3> QED BY <1>3, <2>2, <3>2
  <2>3. CASE /\ ~Shut /\ gateSent' = Append(gateSent, calls') /\ preReady' = preReady
             /\ gateWritten' = Append(gateWritten, calls')
    <3>1. preReady = <<>>
      BY <2>3 DEF GateInv
    <3>2. gateSent = gateWritten
      BY <1>3, <1>4, <3>1, ConcatEmptySeq
    <3>3. gateSent' \o <<>> = gateSent'
      BY <1>3, <2>3, ConcatEmptySeq
    <3> QED BY <1>3, <2>3, <3>1, <3>2, <3>3
  <2> QED BY <2>1, <2>2, <2>3 DEF Write, Shut
<1>6. GateTypeOK'
  BY <1>1, <1>2, <1>5 DEF GateInv, GateTypeOK
<1>7. TimeoutIffShut' /\ NothingTypedEarly' /\ WritesKeepOrder'
  BY <1>1, <1>5 DEF GateInv, TimeoutIffShut, NothingTypedEarly, WritesKeepOrder, Shut
<1>8. OutputSplit'
  BY <1>1 DEF GateInv, OutputSplit, Shut
<1> QED BY <1>1, <1>5, <1>6, <1>7, <1>8 DEF GateInv, Shut

LEMMA RepliesGate == ASSUME GateInv, EmulatorReplies PROVE GateInv'
<1>1. /\ process = "ready" /\ shellReadyState # "pending"
      /\ replies' = replies + 1 /\ replies < MaxReplies
      /\ gatedShell' = gatedShell /\ process' = process /\ shellReadyState' = shellReadyState
      /\ timeoutArmed' = timeoutArmed /\ preReady' = preReady
      /\ markerMatchPos' = markerMatchPos /\ markerHeld' = markerHeld
      /\ gateSent' = gateSent /\ shown' = shown /\ gateWritten' = gateWritten
      /\ calls' = calls /\ arrived' = arrived
  BY DEF EmulatorReplies, scanVars
<1>2. replies' \in 0..MaxReplies
  BY <1>1, GateAssumption DEF GateInv, GateTypeOK
<1>3. GateTypeOK'
  BY <1>1, <1>2 DEF GateInv, GateTypeOK
<1>4. TimeoutIffShut' /\ NothingTypedEarly' /\ WritesKeepOrder'
  BY <1>1 DEF GateInv, TimeoutIffShut, NothingTypedEarly, WritesKeepOrder, Shut
<1>5. OutputSplit'
  BY <1>1 DEF GateInv, OutputSplit, Shut
<1> QED BY <1>1, <1>3, <1>4, <1>5 DEF GateInv, Shut

\* The gate opens in the middle of a frame, at a marker, or the frame is passed on.
LEMMA DataGate ==
    ASSUME GateInv, NEW payload \in Seq(Chars), DataFrame(payload)
    PROVE  GateInv'
<1>1. /\ process = "ready" /\ arrived' = arrived \o payload
      /\ gatedShell' = gatedShell /\ process' = process /\ replies' = replies
      /\ gateWritten' = gateWritten /\ calls' = calls
  BY DEF DataFrame
<1>2. /\ arrived \in Seq(Chars) /\ shown \in Seq(Chars) /\ arrived' \in Seq(Chars)
      /\ shown \o payload \in Seq(Chars)
      /\ markerHeld \in Seq(Chars)
      /\ preReady \in Seq(1..MaxWrites) /\ gateSent \in Seq(1..MaxWrites)
      /\ <<>> \in Seq(1..MaxWrites)
  BY <1>1, HeldIs, ConcatProperties DEF GateInv, GateTypeOK
<1>3. gateSent \o preReady = gateWritten
  BY <1>1 DEF GateInv, WritesKeepOrder
<1>4. CASE shellReadyState # "pending"
  <2>1. /\ shown' = shown \o payload /\ shellReadyState' = shellReadyState
        /\ timeoutArmed' = timeoutArmed /\ preReady' = preReady /\ gateSent' = gateSent
        /\ markerMatchPos' = markerMatchPos /\ markerHeld' = markerHeld
    BY <1>4 DEF DataFrame, scanVars
  <2>2. GateTypeOK'
    BY <1>1, <1>2, <2>1 DEF GateInv, GateTypeOK
  <2>3. TimeoutIffShut' /\ NothingTypedEarly' /\ WritesKeepOrder'
    BY <1>1, <2>1 DEF GateInv, TimeoutIffShut, NothingTypedEarly, WritesKeepOrder, Shut
  <2>4. shellReadyState = "ready" => OneTaken(arrived', shown')
    <3>1. SUFFICES ASSUME shellReadyState = "ready" PROVE OneTaken(arrived', shown')
      OBVIOUS
    <3>2. PICK a, b \in Seq(Chars) : arrived = (a \o Marker) \o b /\ shown = a \o b
      BY <1>1, <3>1 DEF GateInv, OutputSplit, OneTaken
    <3> DEFINE x == a \o Marker
    <3>3. x \in Seq(Chars) /\ b \o payload \in Seq(Chars)
      BY <3>2, ConcatProperties, GateAssumption
    <3> HIDE DEF x
    <3>4. Regroup(x, b, payload) /\ Regroup(a, b, payload)
      BY <3>2, <3>3, Regrouped
    <3>5. arrived' = x \o (b \o payload)
      BY <1>1, <3>2, <3>4, Zenon DEF Regroup, x
    <3>6. shown' = a \o (b \o payload)
      BY <2>1, <3>2, <3>4, Zenon DEF Regroup
    <3> QED BY <3>2, <3>3, <3>5, <3>6 DEF OneTaken, x
  <2>5. OutputSplit'
    BY <1>1, <1>4, <2>1, <2>4 DEF GateInv, OutputSplit, Shut
  <2> QED BY <1>4, <2>1, <2>2, <2>3, <2>5 DEF GateInv, Shut
<1>5. CASE shellReadyState = "pending"
  <2> DEFINE scan == Scan(payload)
             all == markerHeld \o payload
  <2>1. ScanState(scan, all)
    BY ScanIs DEF GateInv, GateTypeOK
  <2> HIDE DEF scan
  <2>2. /\ scan.pos \in 0..Len(Marker) - 1 /\ scan.held \in Seq(Chars) /\ scan.out \in Seq(Chars)
        /\ scan.found \in BOOLEAN /\ scan.held = SubSeq(Marker, 1, scan.pos)
        /\ ~scan.found => scan.out \o scan.held = all
        /\ scan.found => OneTaken(all, scan.out)
    BY <2>1 DEF ScanState, Scanners
  <2>3. /\ markerMatchPos' = scan.pos /\ markerHeld' = scan.held /\ shown' = shown \o scan.out
        /\ scan.found => /\ shellReadyState' = "ready" /\ timeoutArmed' = FALSE
                         /\ preReady' = <<>> /\ gateSent' = gateSent \o preReady
        /\ ~scan.found => /\ shellReadyState' = shellReadyState /\ timeoutArmed' = timeoutArmed
                          /\ preReady' = preReady /\ gateSent' = gateSent
    BY <1>5 DEF DataFrame, FlushPreReady, scan
  <2>4. arrived = shown \o markerHeld
    BY <1>1, <1>5 DEF GateInv, OutputSplit, Shut
  <2>5. arrived' = shown \o all
    <3>1. Regroup(shown, markerHeld, payload)
      BY <1>2, Regrouped
    <3> QED BY <1>1, <2>4, <3>1, Zenon DEF Regroup
  <2> HIDE DEF all
  <2>6. shown' \in Seq(Chars) /\ gateSent \o preReady \in Seq(1..MaxWrites)
    BY <1>2, <2>2, <2>3, ConcatProperties
  <2>7. GateTypeOK'
    <3>1. CASE scan.found
      BY <1>1, <1>2, <2>2, <2>3, <2>6, <3>1 DEF GateInv, GateTypeOK, ReadyStates
    <3>2. CASE ~scan.found
      BY <1>1, <1>2, <2>2, <2>3, <2>6, <3>2 DEF GateInv, GateTypeOK
    <3> QED BY <2>2, <3>1, <3>2
  <2>8. CASE scan.found
    <3>1. gateSent' \o <<>> = gateSent'
      BY <2>3, <2>6, <2>8, ConcatEmptySeq
    <3>2. TimeoutIffShut' /\ NothingTypedEarly'
      BY <2>3, <2>8 DEF TimeoutIffShut, NothingTypedEarly, Shut
    <3>3. WritesKeepOrder'
      BY <1>1, <1>3, <2>3, <2>8, <3>1 DEF WritesKeepOrder
    <3>4. PICK a, b \in Seq(Chars) : all = (a \o Marker) \o b /\ scan.out = a \o b
      BY <2>2, <2>8 DEF OneTaken
    <3> DEFINE x == a \o Marker
               y == shown \o a
    <3>5. x \in Seq(Chars) /\ y \in Seq(Chars) /\ Marker \in Seq(Chars)
      BY <1>2, <3>4, ConcatProperties, GateAssumption
    <3>6. Regroup(shown, a, Marker) /\ Regroup(shown, a, b)
      BY <1>2, <3>4, <3>5, Regrouped
    <3>7. Regroup(shown, x, b)
      <4> HIDE DEF x
      <4> QED BY <1>2, <3>4, <3>5, Regrouped
    <3>8. arrived' = (y \o Marker) \o b
      <4>1. arrived' = shown \o (x \o b)
        BY <2>5, <3>4
      <4>2. (shown \o x) \o b = shown \o (x \o b)
        BY <3>7, Zenon DEF Regroup
      <4>3. y \o Marker = shown \o x
        BY <3>6, Zenon DEF Regroup
      <4> HIDE DEF x, y
      <4> QED BY <4>1, <4>2, <4>3, Zenon
    <3>9. shown' = y \o b
      BY <2>3, <3>4, <3>6, Zenon DEF Regroup
    <3>10. OneTaken(arrived', shown')
      <4> HIDE DEF y
      <4> QED BY <3>4, <3>5, <3>8, <3>9 DEF OneTaken
    <3>11. OutputSplit'
      BY <2>3, <2>8, <3>10 DEF OutputSplit, Shut
    <3> QED BY <2>3, <2>7, <2>8, <3>2, <3>3, <3>11 DEF GateInv
  <2>9. CASE ~scan.found
    <3>1. Regroup(shown, scan.out, scan.held)
      BY <1>2, <2>2, Regrouped
    <3>2. arrived' = shown' \o markerHeld'
      BY <2>2, <2>3, <2>5, <2>9, <3>1, Zenon DEF Regroup
    <3>3. TimeoutIffShut' /\ NothingTypedEarly' /\ WritesKeepOrder'
      BY <1>1, <2>3, <2>9 DEF GateInv, TimeoutIffShut, NothingTypedEarly, WritesKeepOrder, Shut
    <3>4. OutputSplit'
      BY <1>5, <2>3, <2>9, <3>2 DEF OutputSplit, Shut
    <3> QED BY <1>5, <2>3, <2>7, <2>9, <3>3, <3>4 DEF GateInv, Shut
  <2> QED BY <2>2, <2>8, <2>9
<1> QED BY <1>4, <1>5

\* The gate opens without a marker: what was held back of it is output.
LEMMA TimeoutGate == ASSUME GateInv, ShellReadyTimeout PROVE GateInv'
<1>1. /\ timeoutArmed /\ Shut /\ shellReadyState' = "timed_out" /\ timeoutArmed' = FALSE
      /\ shown' = shown \o markerHeld /\ markerHeld' = <<>> /\ markerMatchPos' = 0
      /\ gateSent' = gateSent \o preReady /\ preReady' = <<>>
      /\ gatedShell' = gatedShell /\ process' = process /\ replies' = replies
      /\ gateWritten' = gateWritten /\ calls' = calls /\ arrived' = arrived
  BY DEF ShellReadyTimeout, FlushHeld, FlushPreReady, Shut
<1>2. /\ markerHeld \in Seq(Chars) /\ 0 \in 0..Len(Marker) - 1
      /\ SubSeq(Marker, 1, 0) = <<>> /\ <<>> \in Seq(1..MaxWrites)
  BY HeldIs DEF GateInv
<1>3. shown' \in Seq(Chars) /\ gateSent' \in Seq(1..MaxWrites)
  BY <1>1, <1>2, ConcatProperties DEF GateInv, GateTypeOK
<1>4. process \in {"booting", "ready"}
  BY <1>1 DEF GateInv, TimeoutIffShut
<1>5. GateTypeOK'
  BY <1>1, <1>2, <1>3 DEF GateInv, GateTypeOK, ReadyStates
<1>6. TimeoutIffShut' /\ NothingTypedEarly'
  BY <1>1 DEF TimeoutIffShut, NothingTypedEarly, Shut
<1>7. WritesKeepOrder'
  <2>1. gateSent' \o <<>> = gateSent'
    BY <1>3, ConcatEmptySeq
  <2>2. gateSent' = gateWritten
    BY <1>1, <1>4 DEF GateInv, WritesKeepOrder
  <2> QED BY <1>1, <1>4, <2>1, <2>2 DEF WritesKeepOrder
<1>8. OutputSplit'
  BY <1>1, <1>4 DEF GateInv, OutputSplit, Shut
<1> QED BY <1>1, <1>5, <1>6, <1>7, <1>8 DEF GateInv

\* The fields are reset, with the gate opened first or not.
LEMMA ResetGate == ASSUME GateInv, SubprocessExit \/ Dispose PROVE GateInv'
<1>1. /\ process # "gone" /\ process' = "gone" /\ shellReadyState' = InitialState'
      /\ timeoutArmed' = FALSE /\ preReady' = <<>> /\ markerMatchPos' = 0 /\ markerHeld' = <<>>
      /\ gatedShell' = gatedShell /\ replies' = replies
      /\ gateWritten' = gateWritten /\ calls' = calls /\ arrived' = arrived
  BY DEF SubprocessExit, Dispose, Reset, gateHistVars, InitialState
<1>2. /\ markerHeld \in Seq(Chars) /\ 0 \in 0..Len(Marker) - 1
      /\ SubSeq(Marker, 1, 0) = <<>> /\ <<>> \in Seq(1..MaxWrites)
      /\ gateSent \in Seq(1..MaxWrites) /\ preReady \in Seq(1..MaxWrites)
      /\ shown \in Seq(Chars)
  BY HeldIs DEF GateInv, GateTypeOK
<1>3. gateSent' \in {gateSent, gateSent \o preReady} /\ shown' \in {shown, shown \o markerHeld}
  BY DEF SubprocessExit, Dispose, FlushPreReady, FlushHeld, gateHistVars
<1>4. gateSent' \in Seq(1..MaxWrites) /\ shown' \in Seq(Chars)
  BY <1>2, <1>3, ConcatProperties
<1>5. InitialState' \in ReadyStates
  BY DEF InitialState, ReadyStates
<1>6. GateTypeOK'
  BY <1>1, <1>2, <1>4, <1>5 DEF GateInv, GateTypeOK, Processes
<1>7. TimeoutIffShut' /\ NothingTypedEarly' /\ OutputSplit'
  BY <1>1 DEF TimeoutIffShut, NothingTypedEarly, OutputSplit
<1>8. WritesKeepOrder'
  <2>1. gateSent \o preReady = gateWritten
    BY <1>1 DEF GateInv, WritesKeepOrder
  <2>2. IsPrefix(gateSent, gateSent \o preReady)
    BY <1>2, PrefixIs
  <2>3. IsPrefix(gateSent \o preReady, (gateSent \o preReady) \o <<>>)
    BY <1>2, ConcatProperties, PrefixIs
  <2>4. (gateSent \o preReady) \o <<>> = gateSent \o preReady
    BY <1>2, ConcatProperties, ConcatEmptySeq
  <2>5. IsPrefix(gateSent', gateWritten)
    BY <1>3, <2>1, <2>2, <2>3, <2>4
  <2> QED BY <1>1, <2>5 DEF WritesKeepOrder
<1> QED BY <1>1, <1>6, <1>7, <1>8 DEF GateInv

LEMMA QuietGate == ASSUME GateInv, UNCHANGED gateVars PROVE GateInv'
<1>1. /\ gatedShell' = gatedShell /\ process' = process /\ shellReadyState' = shellReadyState
      /\ timeoutArmed' = timeoutArmed /\ preReady' = preReady
      /\ markerMatchPos' = markerMatchPos /\ markerHeld' = markerHeld
      /\ gateSent' = gateSent /\ replies' = replies /\ shown' = shown
      /\ gateWritten' = gateWritten /\ calls' = calls /\ arrived' = arrived
  BY DEF gateVars, gateHistVars, scanVars
<1> QED BY <1>1 DEF GateInv, GateTypeOK, TimeoutIffShut, NothingTypedEarly, WritesKeepOrder,
       OutputSplit, Shut

LEMMA GateStep == ASSUME GateInv, [GateNext]_gateVars PROVE GateInv'
<1>1. ASSUME NEW payload \in SeqOf(Chars, MaxFrame) PROVE payload \in Seq(Chars)
  <2>1. PICK m \in 0..MaxFrame : payload \in [1..m -> Chars]
    BY <1>1 DEF SeqOf
  <2> QED BY <2>1
<1>2. CASE \E payload \in SeqOf(Chars, MaxFrame) \ {<<>>} : DataFrame(payload)
  BY <1>1, <1>2, DataGate
<1>3. CASE GateNext /\ ~\E payload \in SeqOf(Chars, MaxFrame) \ {<<>>} : DataFrame(payload)
  BY <1>3, SpawnGate, WriteGate, RepliesGate, TimeoutGate, ResetGate DEF GateNext
<1> QED BY <1>2, <1>3, QuietGate

\* What OutputExact says of an open gate, by the positions of the marker.
LEMMA TakenIs ==
    ASSUME NEW all \in Seq(Chars), NEW out, OneTaken(all, out)
    PROVE  \E i \in 0..(Len(all) - Len(Marker)) :
               /\ SubSeq(all, i + 1, i + Len(Marker)) = Marker
               /\ out = SubSeq(all, 1, i) \o SubSeq(all, i + Len(Marker) + 1, Len(all))
<1>1. PICK a, b \in Seq(Chars) : all = (a \o Marker) \o b /\ out = a \o b
  BY DEF OneTaken
<1> DEFINE x == a \o Marker
           y == Marker \o b
           i == Len(a)
           m == Len(Marker)
           k == Len(b)
<1>2. /\ i \in Nat /\ m \in Nat \ {0} /\ k \in Nat /\ Marker \in Seq(Chars)
      /\ x \in Seq(Chars) /\ y \in Seq(Chars) /\ Len(x) = i + m /\ Len(y) = m + k
  BY <1>1, LenProperties, ConcatProperties, MarkerPieces, GateAssumption
<1>3. Len(x \o b) = i + m + k
  <2>1. Len(x \o b) = Len(x) + Len(b)
    <3> HIDE DEF x
    <3> QED BY <1>1, <1>2, ConcatProperties
  <2>2. Len(x) = i + m /\ Len(b) = k
    BY <1>2, Zenon
  <2> HIDE DEF x, i, m, k
  <2> QED BY <1>2, <2>1, <2>2
<1>4. all = x \o b /\ x \o b = a \o y
  <2>1. Regroup(a, Marker, b)
    BY <1>1, <1>2, Regrouped
  <2> QED BY <1>1, <2>1, Zenon DEF Regroup
<1> HIDE DEF x, y
<1>5. SubSeq(all, i + 1, i + m) = Marker
  <2>1. i + 1 \in Len(a) + 1..Len(a) + Len(y) /\ i + m \in Len(a) + 1..Len(a) + Len(y)
    BY <1>2
  <2>2. SubSeq(a \o y, i + 1, i + m) = SubSeq(y, i + 1 - i, i + m - i)
    BY <1>1, <1>2, <2>1, SubSeqOfConcat2
  <2>3. i + 1 - i = 1 /\ i + m - i = m /\ 1 \in 1..Len(Marker) /\ m \in 1..Len(Marker)
    BY <1>2
  <2>4. SubSeq(y, 1, m) = SubSeq(Marker, 1, m)
    BY <1>1, <1>2, <2>3, SubSeqOfConcat1 DEF y
  <2>5. SubSeq(Marker, 1, m) = Marker
    BY <1>2, SubSeqFull
  <2> QED BY <1>4, <2>2, <2>3, <2>4, <2>5
<1>6. SubSeq(all, 1, i) = a
  <2>1. CASE i = 0
    <3>1. i \in Int /\ 1 \in Int /\ i < 1
      BY <2>1
    <3>2. a = <<>>
      BY <1>1, <2>1, EmptySeq
    <3> QED BY <3>1, <3>2, SubSeqEmpty
  <2>2. CASE i # 0
    <3>1. 1 \in 1..Len(a) /\ i \in 1..Len(a)
      BY <1>2, <2>2
    <3>2. SubSeq(a \o y, 1, i) = SubSeq(a, 1, i)
      BY <1>1, <1>2, <3>1, SubSeqOfConcat1
    <3> QED BY <1>1, <1>4, <3>2, SubSeqFull
  <2> QED BY <2>1, <2>2
<1>7. SubSeq(all, i + m + 1, Len(all)) = b
  <2>1. Len(all) = i + m + k
    BY <1>3, <1>4
  <2>2. CASE k = 0
    <3>1. i + m + 1 \in Int /\ Len(all) \in Int /\ Len(all) < i + m + 1
      BY <1>2, <2>1, <2>2
    <3>2. b = <<>>
      BY <1>1, <2>2, EmptySeq
    <3> QED BY <3>1, <3>2, SubSeqEmpty
  <2>3. CASE k # 0
    <3>1. /\ i + m + 1 \in Len(x) + 1..Len(x) + Len(b)
          /\ i + m + k \in Len(x) + 1..Len(x) + Len(b)
          /\ (i + m + 1) - Len(x) = 1 /\ (i + m + k) - Len(x) = k
      BY <1>2, <2>3
    <3>2. SubSeq(x \o b, i + m + 1, i + m + k)
            = SubSeq(b, (i + m + 1) - Len(x), (i + m + k) - Len(x))
      <4> DEFINE u == i + m + 1
                 v == i + m + k
      <4>1. /\ x \in Seq(Chars) /\ b \in Seq(Chars)
            /\ u \in Len(x) + 1..Len(x) + Len(b) /\ v \in Len(x) + 1..Len(x) + Len(b)
        BY <1>1, <1>2, <3>1, Zenon
      <4> HIDE DEF u, v
      <4>2. SubSeq(x \o b, u, v) = SubSeq(b, u - Len(x), v - Len(x))
        BY <4>1, SubSeqOfConcat2
      <4> QED BY <4>2, Zenon DEF u, v
    <3>3. SubSeq(b, 1, k) = b
      BY <1>1, SubSeqFull
    <3> QED BY <1>4, <2>1, <3>1, <3>2, <3>3
  <2> QED BY <2>2, <2>3
<1>8. i \in 0..(Len(all) - Len(Marker))
  BY <1>2, <1>3, <1>4
<1> QED BY <1>1, <1>5, <1>6, <1>7, <1>8

\* Nothing is typed into a starting shell, by a write or by the emulator; the writes
\* made meanwhile reach it in their order, once each, when the gate opens, whether a
\* marker, the time-out or the exit opens it; and output comes out as it came in,
\* less one marker, in whatever frames the marker came, its beginnings included
\* that were none (the scanner, resolveShellReady and write() of session.ts).
THEOREM GateCorrect == GateSpec => []GateExact
<1>1. GateInv => OutputExact
  <2> SUFFICES ASSUME GateInv PROVE OutputExact
    OBVIOUS
  <2>1. CASE process = "gone"
    BY <2>1 DEF OutputExact
  <2>2. CASE process # "gone" /\ Shut
    BY <2>2 DEF OutputExact, GateInv, OutputSplit, Shut
  <2>3. CASE process # "gone" /\ shellReadyState = "ready"
    <3>1. arrived \in Seq(Chars) /\ OneTaken(arrived, shown)
      BY <2>3 DEF GateInv, GateTypeOK, OutputSplit
    <3>2. \E i \in 0..(Len(arrived) - Len(Marker)) :
               /\ SubSeq(arrived, i + 1, i + Len(Marker)) = Marker
               /\ shown = SubSeq(arrived, 1, i)
                          \o SubSeq(arrived, i + Len(Marker) + 1, Len(arrived))
      BY <3>1, TakenIs
    <3> QED BY <2>3, <3>2 DEF OutputExact, Shut
  <2>4. CASE process # "gone" /\ shellReadyState \in {"timed_out", "unsupported"}
    BY <2>4 DEF OutputExact, GateInv, OutputSplit, Shut
  <2> QED BY <2>1, <2>2, <2>3, <2>4 DEF GateInv, GateTypeOK, ReadyStates, Shut
<1>2. GateInv => GateExact
  BY <1>1 DEF GateInv, GateExact
<1> QED BY <1>2, GateStarts, GateStep, PTL DEF GateSpec

-----------------------------------------------------------------------------
(* SessionInput: the bytes of buffers are a fold too.                       *)

\* Their function of the positions, and the bytes of the first i buffers.
SumsOver(f, q, d) ==
    f = [s \in SUBSET d |-> IF s = {} THEN 0 ELSE f[s \ {Max(s)}] + q[Max(s)].size]
Summer(q, d) == CHOOSE f : SumsOver(f, q, d)
Sum(q, i) == Summer(q, 1..Len(q))[1..i]

LEMMA BytesAre ==
    ASSUME NEW q, DOMAIN q = 1..Len(q)
    PROVE  Bytes(q) = Sum(q, Len(q))
BY DEF Bytes, FoldLeft, MapThenFoldSet, Summer, SumsOver, Sum

\* The function exists, for what is added up to n can be continued.
LEMMA SummerExists ==
    ASSUME NEW q, NEW n \in Nat
    PROVE  \E f : SumsOver(f, q, 1..n)
<1> DEFINE T == {k \in Nat : ~\E f : SumsOver(f, q, 1..k)}
<1>1. SUFFICES ASSUME T # {} PROVE FALSE
  OBVIOUS
<1>2. PICK m \in Nat : m \in T /\ \A k \in T : m <= k
  BY <1>1, NatMin
<1>3. m # 0
  <2>1. 1..0 = {}
    OBVIOUS
  <2>2. SumsOver([s \in SUBSET (1..0) |-> 0], q, 1..0)
    BY <2>1 DEF SumsOver
  <2> QED BY <2>2, <1>2
<1>4. PICK l \in Nat : m = l + 1
  <2>1. m - 1 \in Nat /\ m = (m - 1) + 1
    BY <1>3
  <2> QED BY <2>1
<1>5. PICK f : SumsOver(f, q, 1..l)
  BY <1>2, <1>4
<1> DEFINE g == [s \in SUBSET (1..m) |-> IF m \in s THEN f[s \ {m}] + q[m].size ELSE f[s]]
<1>6. SumsOver(g, q, 1..m)
  <2>1. ASSUME NEW s \in SUBSET (1..m)
        PROVE  g[s] = IF s = {} THEN 0 ELSE g[s \ {Max(s)}] + q[Max(s)].size
    <3>1. CASE m \in s
      <4>1. Max(s) = m
        BY <3>1, MaxIs
      <4>2. g[s \ {m}] = f[s \ {m}]
        OBVIOUS
      <4> QED BY <3>1, <4>1, <4>2
    <3>2. CASE m \notin s
      <4>1. s \in SUBSET (1..l)
        BY <3>2, <1>4
      <4>2. f[s] = IF s = {} THEN 0 ELSE f[s \ {Max(s)}] + q[Max(s)].size
        BY <4>1, <1>5 DEF SumsOver
      <4>3. g[s \ {Max(s)}] = f[s \ {Max(s)}] /\ g[s] = f[s]
        BY <3>2
      <4> QED BY <4>2, <4>3
    <3> QED BY <3>1, <3>2
  <2>2. g = [s \in SUBSET (1..m) |-> IF s = {} THEN 0 ELSE g[s \ {Max(s)}] + q[Max(s)].size]
    BY <2>1
  <2> QED BY <2>2 DEF SumsOver
<1> QED BY <1>2, <1>6

LEMMA UpTo ==
    ASSUME NEW n \in Nat, NEW i \in 1..n
    PROVE  i \in Nat /\ 1..i \in SUBSET (1..n) /\ 1..i # {} /\ i \in 1..i
OBVIOUS

LEMMA SumStep ==
    ASSUME NEW q, Len(q) \in Nat
    PROVE  /\ Sum(q, 0) = 0
           /\ \A i \in 1..Len(q) : Sum(q, i) = Sum(q, i - 1) + q[i].size
<1> DEFINE n == Len(q)
           f == Summer(q, 1..n)
<1>1. f = [s \in SUBSET (1..n) |-> IF s = {} THEN 0 ELSE f[s \ {Max(s)}] + q[Max(s)].size]
  <2>1. SumsOver(f, q, 1..n)
    BY SummerExists DEF Summer
  <2> HIDE DEF f
  <2> QED BY <2>1 DEF SumsOver
<1> HIDE DEF f
<1>2. f[1..0] = 0
  BY <1>1
<1>3. n \in Nat
  OBVIOUS
<1> HIDE DEF n
<1>4. ASSUME NEW i \in 1..n
      PROVE  f[1..i] = f[1..i - 1] + q[i].size
  <2>1. i \in Nat /\ 1..i \in SUBSET (1..n) /\ 1..i # {} /\ i \in 1..i
    BY <1>3, UpTo
  <2>2. Max(1..i) = i
    BY <2>1, MaxIs
  <2>3. (1..i) \ {i} = 1..i - 1
    BY <2>1
  <2>4. f[1..i] = f[(1..i) \ {Max(1..i)}] + q[Max(1..i)].size
    BY <1>1, <2>1
  <2> QED BY <2>2, <2>3, <2>4
<1> QED BY <1>2, <1>4 DEF f, n, Sum

LEMMA SizeIsNat ==
    /\ HeaderBytes \in Nat
    /\ \A b \in Buffers : b.size \in Nat
    /\ \A q \in Seq(Buffers) : \A i \in 1..Len(q) : q[i].size \in Nat
<1>1. HeaderBytes \in Nat
  BY InputAssumption
<1>2. \A b \in Buffers : b.size \in Nat
  BY <1>1, InputAssumption DEF Buffers
<1>3. ASSUME NEW q \in Seq(Buffers), NEW i \in 1..Len(q) PROVE q[i] \in Buffers
  BY ElementOfSeq
<1> QED BY <1>1, <1>2, <1>3

LEMMA SumIsNat ==
    ASSUME NEW q \in Seq(Buffers), NEW n \in 0..Len(q)
    PROVE  Sum(q, n) \in Nat
<1> DEFINE T == {k \in Nat : k <= Len(q) /\ Sum(q, k) \notin Nat}
<1>0. Len(q) \in Nat
  BY LenProperties
<1>1. SUFFICES ASSUME T # {} PROVE FALSE
  BY <1>0
<1>2. PICK m \in Nat : m \in T /\ \A k \in T : m <= k
  BY <1>1, NatMin
<1>3. Sum(q, 0) = 0 /\ \A i \in 1..Len(q) : Sum(q, i) = Sum(q, i - 1) + q[i].size
  BY <1>0, SumStep
<1>4. m # 0 /\ m \in 1..Len(q) /\ m - 1 \in Nat /\ m - 1 <= Len(q)
  BY <1>0, <1>2, <1>3
<1>5. Sum(q, m - 1) \in Nat
  BY <1>2, <1>4
<1>6. Sum(q, m) \in Nat
  BY <1>3, <1>4, <1>5, SizeIsNat
<1> QED BY <1>2, <1>6

\* What does not depend on what comes behind, and what is added behind.
LEMMA SumOfConcat ==
    ASSUME NEW a \in Seq(Buffers), NEW b \in Seq(Buffers)
    PROVE  /\ \A i \in 0..Len(a) : Sum(a \o b, i) = Sum(a, i)
           /\ \A i \in 0..Len(b) : Sum(a \o b, Len(a) + i) = Sum(a, Len(a)) + Sum(b, i)
<1> DEFINE q == a \o b
<1>1. /\ q \in Seq(Buffers) /\ Len(a) \in Nat /\ Len(b) \in Nat /\ Len(q) = Len(a) + Len(b)
      /\ \A i \in 1..Len(a) : q[i] = a[i]
      /\ \A i \in 1..Len(b) : q[Len(a) + i] = b[i]
  BY LenProperties, ConcatProperties
<1> HIDE DEF q
<1>2. /\ Sum(a, 0) = 0 /\ \A i \in 1..Len(a) : Sum(a, i) = Sum(a, i - 1) + a[i].size
      /\ Sum(b, 0) = 0 /\ \A i \in 1..Len(b) : Sum(b, i) = Sum(b, i - 1) + b[i].size
      /\ Sum(q, 0) = 0 /\ \A i \in 1..Len(q) : Sum(q, i) = Sum(q, i - 1) + q[i].size
  <2>1. Len(q) \in Nat
    BY <1>1
  <2> QED BY <1>1, <2>1, SumStep
<1>3. ASSUME NEW n \in 0..Len(a) PROVE Sum(q, n) = Sum(a, n)
  <2> DEFINE T == {k \in Nat : k <= Len(a) /\ Sum(q, k) # Sum(a, k)}
  <2>1. SUFFICES ASSUME T # {} PROVE FALSE
    BY <1>1
  <2>2. PICK m \in Nat : m \in T /\ \A k \in T : m <= k
    BY <2>1, NatMin
  <2>3. m # 0 /\ m \in 1..Len(a) /\ m \in 1..Len(q) /\ m - 1 \in Nat /\ m - 1 <= Len(a)
    BY <1>1, <1>2, <2>2
  <2>4. Sum(q, m - 1) = Sum(a, m - 1)
    BY <2>2, <2>3
  <2>5. Sum(q, m) = Sum(q, m - 1) + q[m].size /\ Sum(a, m) = Sum(a, m - 1) + a[m].size
    BY <1>2, <2>3
  <2>6. q[m] = a[m]
    BY <1>1, <2>3
  <2> QED BY <2>2, <2>4, <2>5, <2>6
<1>4. ASSUME NEW n \in 0..Len(b)
      PROVE  Sum(q, Len(a) + n) = Sum(a, Len(a)) + Sum(b, n)
  <2> DEFINE P(k) == Sum(q, Len(a) + k) = Sum(a, Len(a)) + Sum(b, k)
             T == {k \in Nat : k <= Len(b) /\ ~P(k)}
  <2>1. SUFFICES ASSUME T # {} PROVE FALSE
    BY <1>1
  <2>2. PICK m \in Nat : m \in T /\ \A k \in T : m <= k
    BY <2>1, NatMin
  <2>3. Sum(a, Len(a)) \in Nat /\ P(0)
    <3>1. Sum(a, Len(a)) \in Nat /\ Sum(q, Len(a)) = Sum(a, Len(a))
      BY <1>1, <1>3, SumIsNat
    <3> QED BY <1>1, <1>2, <3>1
  <2>4. /\ m # 0 /\ m \in 1..Len(b) /\ Len(a) + m \in 1..Len(q)
        /\ m - 1 \in 0..Len(b) /\ m - 1 \in Nat /\ m - 1 <= Len(b)
    BY <1>1, <2>2, <2>3
  <2>5. P(m - 1)
    BY <2>2, <2>4
  <2>6. Sum(b, m) = Sum(b, m - 1) + b[m].size /\ Sum(b, m - 1) \in Nat /\ b[m].size \in Nat
    BY <1>2, <2>4, SumIsNat, SizeIsNat
  <2>7. Sum(q, Len(a) + m) = Sum(q, Len(a) + (m - 1)) + b[m].size
    <3>1. Sum(q, Len(a) + m) = Sum(q, Len(a) + m - 1) + q[Len(a) + m].size
      BY <1>2, <2>4
    <3>2. q[Len(a) + m] = b[m]
      BY <1>1, <2>4
    <3>3. Len(a) + m - 1 = Len(a) + (m - 1)
      BY <1>1, <2>4
    <3> QED BY <3>1, <3>2, <3>3
  <2>8. P(m)
    BY <2>3, <2>5, <2>6, <2>7
  <2> QED BY <2>2, <2>8
<1> QED BY <1>3, <1>4 DEF q

LEMMA BytesConcat ==
    ASSUME NEW a \in Seq(Buffers), NEW b \in Seq(Buffers)
    PROVE  /\ Bytes(a) \in Nat /\ Bytes(b) \in Nat
           /\ Bytes(a \o b) = Bytes(a) + Bytes(b)
<1>1. /\ Len(a) \in Nat /\ Len(b) \in Nat /\ a \o b \in Seq(Buffers)
      /\ Len(a \o b) = Len(a) + Len(b)
  BY LenProperties, ConcatProperties
<1>2. Bytes(a) = Sum(a, Len(a)) /\ Bytes(b) = Sum(b, Len(b))
      /\ Bytes(a \o b) = Sum(a \o b, Len(a) + Len(b))
  BY <1>1, LenProperties, BytesAre
<1>3. Sum(a, Len(a)) \in Nat /\ Sum(b, Len(b)) \in Nat
  BY <1>1, SumIsNat
<1>4. Sum(a \o b, Len(a) + Len(b)) = Sum(a, Len(a)) + Sum(b, Len(b))
  BY <1>1, SumOfConcat
<1> QED BY <1>2, <1>3, <1>4

\* The order and the count of what a frame and a flush leave.
Joined(a, b, c) == a \o b = c
From(q) == IF IsRepeated(q) THEN 2 ELSE 1

Placed == IF queue = <<>> THEN passed = accepted
          ELSE IsRepeated(queue) /\ Joined(passed, Tail(queue), accepted)

InputInv ==
    /\ InputTypeOK /\ BytesCounted /\ BacklogHasDrain
    /\ \A i \in 1..Len(accepted) : accepted[i].frame <= frames
    /\ up => Placed
    /\ ~up => queue = <<>> /\ IsPrefix(passed, accepted)

LEMMA BytesSplit ==
    ASSUME NEW q \in Seq(Buffers), NEW k \in 0..Len(q)
    PROVE  /\ SubSeq(q, 1, k) \in Seq(Buffers) /\ SubSeq(q, k + 1, Len(q)) \in Seq(Buffers)
           /\ Bytes(SubSeq(q, 1, k)) \in Nat /\ Bytes(SubSeq(q, k + 1, Len(q))) \in Nat
           /\ Bytes(q) = Bytes(SubSeq(q, 1, k)) + Bytes(SubSeq(q, k + 1, Len(q)))
<1>1. Len(q) \in Nat /\ \A i \in 1..Len(q) : q[i] \in Buffers
  BY LenProperties, ElementOfSeq
<1>2. k \in Int /\ k + 1 \in Int /\ Len(q) \in Int /\ k <= Len(q)
  BY <1>1
<1>3. SubSeq(q, 1, k) \in Seq(Buffers)
  BY <1>1, <1>2, SubSeqProperties
<1>4. SubSeq(q, k + 1, Len(q)) \in Seq(Buffers)
  BY <1>1, <1>2, SubSeqProperties
<1>5. Joined(SubSeq(q, 1, k), SubSeq(q, k + 1, Len(q)), q)
  <2>1. 1 \in 1..Len(q) + 1 /\ k \in 1 - 1..Len(q) /\ Len(q) \in k..Len(q)
    BY <1>1
  <2>2. SubSeq(q, 1, k) \o SubSeq(q, k + 1, Len(q)) = SubSeq(q, 1, Len(q))
    BY <2>1, ConcatAdjacentSubSeq
  <2>3. SubSeq(q, 1, Len(q)) = q
    BY SubSeqFull
  <2> QED BY <2>2, <2>3, Zenon DEF Joined
<1> DEFINE a == SubSeq(q, 1, k)
           b == SubSeq(q, k + 1, Len(q))
<1> HIDE DEF a, b
<1>6. Bytes(a) \in Nat /\ Bytes(b) \in Nat /\ Bytes(a \o b) = Bytes(a) + Bytes(b)
  BY <1>3, <1>4, BytesConcat DEF a, b
<1>7. a \o b = q
  BY <1>5, Zenon DEF a, b, Joined
<1>8. Bytes(q) = Bytes(a) + Bytes(b)
  BY <1>6, <1>7, Zenon
<1> QED BY <1>3, <1>4, <1>6, <1>8 DEF a, b

LEMMA BytesOfOne ==
    /\ Bytes(<<>>) = 0
    /\ \A b \in Buffers : Bytes(<<b>>) = b.size
<1>1. Bytes(<<>>) = 0
  <2>1. Len(<<>>) = 0 /\ DOMAIN <<>> = 1..0
    OBVIOUS
  <2>2. Bytes(<<>>) = Sum(<<>>, 0)
    BY <2>1, BytesAre
  <2> QED BY <2>1, <2>2, SumStep
<1>2. ASSUME NEW b \in Buffers PROVE Bytes(<<b>>) = b.size
  <2> DEFINE q == <<b>>
  <2>1. Len(q) = 1 /\ DOMAIN q = 1..1 /\ q[1] = b
    OBVIOUS
  <2>2. b.size \in Nat
    BY SizeIsNat
  <2> HIDE DEF q
  <2>3. Bytes(q) = Sum(q, 1)
    BY <2>1, BytesAre
  <2>4. Sum(q, 0) = 0 /\ Sum(q, 1) = Sum(q, 0) + q[1].size
    BY <2>1, SumStep
  <2> QED BY <2>1, <2>2, <2>3, <2>4 DEF q
<1> QED BY <1>1, <1>2

LEMMA PiecesAre ==
    ASSUME NEW n \in 1..MaxFrames, NEW size \in Payloads
    PROVE  /\ Pieces(n, size) \in Seq(Buffers) /\ Pieces(n, size) # <<>>
           /\ \A i \in 1..Len(Pieces(n, size)) : Pieces(n, size)[i].frame = n
           /\ Head(Pieces(n, size)).frame = n
           /\ Bytes(Pieces(n, size)) = HeaderBytes + size
<1> DEFINE h == [frame |-> n, part |-> "header", size |-> HeaderBytes]
           p == [frame |-> n, part |-> "payload", size |-> size]
           rest == IF size > 0 THEN <<p>> ELSE <<>>
<1>1. h \in Buffers /\ p \in Buffers
  BY DEF Buffers
<1>2. <<h>> \in Seq(Buffers) /\ <<p>> \in Seq(Buffers) /\ <<>> \in Seq(Buffers)
  BY <1>1, EmptySeq
<1>3. Pieces(n, size) = <<h>> \o rest
  BY DEF Pieces
<1>4. rest \in Seq(Buffers) /\ Len(rest) \in {0, 1}
      /\ \A i \in 1..Len(rest) : rest[i].frame = n
  BY <1>2
<1>5. Bytes(rest) = size /\ size \in Nat /\ Bytes(<<h>>) = HeaderBytes
  <2>1. size \in Nat /\ Bytes(<<>>) = 0 /\ Bytes(<<p>>) = p.size /\ Bytes(<<h>>) = h.size
    BY <1>1, InputAssumption, BytesOfOne
  <2>2. CASE size > 0
    <3>1. rest = <<p>>
      BY <2>2
    <3> QED BY <2>1, <3>1, Zenon
  <2>3. CASE ~(size > 0)
    <3>1. rest = <<>> /\ size = 0
      BY <2>1, <2>3
    <3> HIDE DEF rest
    <3> QED BY <2>1, <3>1
  <2> QED BY <2>2, <2>3
<1>6. Len(<<h>>) = 1 /\ <<h>>[1] = h /\ h.frame = n
  OBVIOUS
<1> DEFINE one == <<h>>
<1> HIDE DEF h, p, rest, one
<1>7. one \in Seq(Buffers) /\ Len(one) = 1 /\ one[1].frame = n /\ Bytes(one) = HeaderBytes
  BY <1>2, <1>5, <1>6 DEF one
<1>8. /\ one \o rest \in Seq(Buffers)
      /\ Len(one \o rest) = 1 + Len(rest)
      /\ \A i \in 1..1 + Len(rest) : (one \o rest)[i] = IF i <= 1 THEN one[i] ELSE rest[i - 1]
  BY <1>4, <1>7, ConcatProperties
<1>9. Bytes(one \o rest) = HeaderBytes + size
  <2>1. Bytes(one \o rest) = Bytes(one) + Bytes(rest)
    BY <1>4, <1>7, BytesConcat
  <2> QED BY <1>5, <1>7, <2>1, Zenon
<1> DEFINE q == one \o rest
<1> HIDE DEF q
<1>10. q \in Seq(Buffers) /\ Len(q) \in {1, 2} /\ Bytes(q) = HeaderBytes + size
      /\ \A i \in 1..Len(q) : q[i].frame = n
  BY <1>4, <1>7, <1>8, <1>9 DEF q
<1>11. q # <<>> /\ 1 \in 1..Len(q)
  BY <1>10, EmptySeq
<1>12. Head(q) = q[1]
  BY <1>11
<1>13. Pieces(n, size) = q
  BY <1>3 DEF q, one
<1> QED BY <1>10, <1>11, <1>12, <1>13

\* What a flush does that takes the first taken buffers at once, writes n and shifts k.
Writes(q, bytes, taken, n, k) ==
    /\ taken \in 0..n /\ n \in 0..Len(q) /\ k \in 0..Len(q)
    /\ passed' = passed \o SubSeq(q, From(q), n)
    /\ stream' = stream \o SubSeq(q, taken + 1, n)
    /\ queue' = SubSeq(q, k + 1, Len(q))
    /\ stdinQueuedBytes' = bytes - Bytes(SubSeq(q, 1, k))

Completed(q, n, k, armed, heard, owed) ==
    /\ n = Len(q) /\ k = Len(q)
    /\ needDrain' = owed /\ drainArmed' = armed /\ listening' = heard

Refused(q, n, k, armed, heard) ==
    /\ n \in 1..Len(q) /\ k = n - 1
    /\ needDrain' = TRUE /\ drainArmed' = TRUE /\ listening' = (heard \/ ~armed)

LEMMA FlushIs ==
    ASSUME NEW q \in Seq(Buffers), NEW bytes, NEW armed, NEW heard, NEW owed,
           FlushStdin(q, bytes, armed, heard, owed)
    PROVE  \E taken, n, k \in 0..Len(q) :
              /\ Writes(q, bytes, taken, n, k)
              /\ Completed(q, n, k, armed, heard, owed) \/ Refused(q, n, k, armed, heard)
<1>1. Len(q) \in Nat
  BY LenProperties
<1>2. PICK taken \in 0..Len(q) :
        \/ /\ taken <= Len(q)
           /\ Pass(q, Len(q))
           /\ stream' = stream \o SubSeq(q, taken + 1, Len(q))
           /\ queue' = SubSeq(q, Len(q) + 1, Len(q))
           /\ stdinQueuedBytes' = bytes - Shifted(q, Len(q))
           /\ needDrain' = owed /\ drainArmed' = armed /\ listening' = heard
        \/ \E i \in 1..Len(q) :
              /\ taken <= i
              /\ Pass(q, i)
              /\ stream' = stream \o SubSeq(q, taken + 1, i)
              /\ queue' = SubSeq(q, (i - 1) + 1, Len(q))
              /\ stdinQueuedBytes' = bytes - Shifted(q, i - 1)
              /\ needDrain' = TRUE /\ drainArmed' = TRUE /\ listening' = (heard \/ ~armed)
  BY Zenon DEF FlushStdin
<1>3. ASSUME Pass(q, Len(q)) PROVE passed' = passed \o SubSeq(q, From(q), Len(q))
  BY <1>3, Zenon DEF Pass, From
<1>4. ASSUME NEW i, Pass(q, i) PROVE passed' = passed \o SubSeq(q, From(q), i)
  BY <1>4, Zenon DEF Pass, From
<1>5. CASE /\ taken <= Len(q)
           /\ Pass(q, Len(q))
           /\ stream' = stream \o SubSeq(q, taken + 1, Len(q))
           /\ queue' = SubSeq(q, Len(q) + 1, Len(q))
           /\ stdinQueuedBytes' = bytes - Shifted(q, Len(q))
           /\ needDrain' = owed /\ drainArmed' = armed /\ listening' = heard
  <2>1. taken \in 0..Len(q) /\ Len(q) \in 0..Len(q)
    BY <1>1
  <2>2. Writes(q, bytes, taken, Len(q), Len(q))
    BY <1>3, <1>5, <2>1, Zenon DEF Writes, Shifted
  <2>3. Completed(q, Len(q), Len(q), armed, heard, owed)
    BY <1>5, Zenon DEF Completed
  <2> QED BY <2>1, <2>2, <2>3, Zenon
<1>6. CASE \E i \in 1..Len(q) :
              /\ taken <= i
              /\ Pass(q, i)
              /\ stream' = stream \o SubSeq(q, taken + 1, i)
              /\ queue' = SubSeq(q, (i - 1) + 1, Len(q))
              /\ stdinQueuedBytes' = bytes - Shifted(q, i - 1)
              /\ needDrain' = TRUE /\ drainArmed' = TRUE /\ listening' = (heard \/ ~armed)
  <2>1. PICK i \in 1..Len(q) :
              /\ taken <= i
              /\ Pass(q, i)
              /\ stream' = stream \o SubSeq(q, taken + 1, i)
              /\ queue' = SubSeq(q, (i - 1) + 1, Len(q))
              /\ stdinQueuedBytes' = bytes - Shifted(q, i - 1)
              /\ needDrain' = TRUE /\ drainArmed' = TRUE /\ listening' = (heard \/ ~armed)
    BY <1>6, Zenon
  <2>2. taken \in 0..i /\ i \in 0..Len(q) /\ i - 1 \in 0..Len(q)
    <3>1. taken <= i
      BY <2>1, Zenon
    <3> QED BY <1>1, <3>1
  <2>3. Writes(q, bytes, taken, i, i - 1)
    BY <1>4, <2>1, <2>2, Zenon DEF Writes, Shifted
  <2>4. Refused(q, i, i - 1, armed, heard)
    BY <2>1, Zenon DEF Refused
  <2> QED BY <2>2, <2>3, <2>4, Zenon
<1> QED BY <1>2, <1>5, <1>6, Zenon

LEMMA FlushTypes ==
    ASSUME NEW q \in Seq(Buffers), NEW bytes, NEW taken \in 0..Len(q), NEW n \in 0..Len(q),
           NEW k \in 0..Len(q), Writes(q, bytes, taken, n, k),
           passed \in Seq(Buffers), stream \in Seq(Buffers),
           bytes = Bytes(q), bytes <= MaxQueueBytes
    PROVE  /\ passed' \in Seq(Buffers) /\ stream' \in Seq(Buffers) /\ queue' \in Seq(Buffers)
           /\ stdinQueuedBytes' = Bytes(queue') /\ stdinQueuedBytes' \in 0..MaxQueueBytes
<1>1. Len(q) \in Nat /\ \A i \in 1..Len(q) : q[i] \in Buffers
  BY LenProperties, ElementOfSeq
<1>2. ASSUME NEW a \in Nat \ {0}, NEW b \in 0..Len(q) PROVE SubSeq(q, a, b) \in Seq(Buffers)
  <2>1. a \in Int /\ b \in Int /\ \A i \in a..b : q[i] \in Buffers
    BY <1>1
  <2> QED BY <2>1, SubSeqProperties
<1>3. From(q) \in Nat \ {0} /\ taken + 1 \in Nat \ {0}
  BY <1>1 DEF From
<1>4. SubSeq(q, From(q), n) \in Seq(Buffers) /\ SubSeq(q, taken + 1, n) \in Seq(Buffers)
  BY <1>2, <1>3
<1>5. passed' \in Seq(Buffers)
  <2>1. passed \o SubSeq(q, From(q), n) \in Seq(Buffers)
    BY <1>4, ConcatProperties
  <2> QED BY <2>1, Zenon DEF Writes
<1>6. stream' \in Seq(Buffers)
  <2>1. stream \o SubSeq(q, taken + 1, n) \in Seq(Buffers)
    BY <1>4, ConcatProperties
  <2> QED BY <2>1, Zenon DEF Writes
<1> DEFINE a == SubSeq(q, 1, k)
           b == SubSeq(q, k + 1, Len(q))
<1>7. /\ b \in Seq(Buffers) /\ Bytes(a) \in Nat /\ Bytes(b) \in Nat
      /\ Bytes(q) = Bytes(a) + Bytes(b)
  BY BytesSplit
<1>8. queue' = b /\ stdinQueuedBytes' = bytes - Bytes(a)
  BY Zenon DEF Writes
<1> HIDE DEF a, b
<1>9. bytes - Bytes(a) = Bytes(b) /\ Bytes(b) \in 0..MaxQueueBytes
  BY <1>7, InputAssumption
<1>10. stdinQueuedBytes' = Bytes(queue')
  BY <1>8, <1>9, Zenon
<1>11. stdinQueuedBytes' \in 0..MaxQueueBytes
  BY <1>8, <1>9, Zenon
<1> QED BY <1>5, <1>6, <1>7, <1>8, <1>10, <1>11, Zenon

LEMMA HeadTailConcat ==
    ASSUME NEW S, NEW s \in Seq(S), NEW t \in Seq(S), s # <<>>
    PROVE  s \o t # <<>> /\ Head(s \o t) = Head(s) /\ Tail(s \o t) = Tail(s) \o t
<1> DEFINE q == s \o t
<1>1. /\ Len(s) \in Nat \ {0} /\ Len(t) \in Nat
      /\ q \in Seq(S) /\ Len(q) = Len(s) + Len(t)
      /\ \A i \in 1..Len(s) + Len(t) : q[i] = IF i <= Len(s) THEN s[i] ELSE t[i - Len(s)]
  BY EmptySeq, LenProperties, ConcatProperties
<1>2. q # <<>> /\ Len(q) # 0
  <2> HIDE DEF q
  <2>1. Len(q) # 0
    BY <1>1
  <2> QED BY <2>1, EmptySeq
<1>3. Head(q) = Head(s)
  <2>1. Head(q) = q[1] /\ Head(s) = s[1]
    <3> HIDE DEF q
    <3> QED BY <1>1, <1>2
  <2>2. q[1] = s[1]
    <3> HIDE DEF q
    <3> QED BY <1>1
  <2> QED BY <2>1, <2>2, Zenon
<1>4. Tail(q) = Tail(s) \o t
  <2> DEFINE a == Tail(q)
             u == Tail(s)
             b == u \o t
  <2>1. a \in Seq(S) /\ Len(a) = Len(q) - 1 /\ \A i \in 1..Len(a) : a[i] = q[i + 1]
    <3> HIDE DEF q
    <3> QED BY <1>1, <1>2, HeadTailProperties
  <2>2. u \in Seq(S) /\ Len(u) = Len(s) - 1 /\ \A i \in 1..Len(u) : u[i] = s[i + 1]
    BY HeadTailProperties
  <2>3. b \in Seq(S) /\ Len(b) = Len(u) + Len(t)
        /\ \A i \in 1..Len(u) + Len(t) : b[i] = IF i <= Len(u) THEN u[i] ELSE t[i - Len(u)]
    <3> HIDE DEF u
    <3> QED BY <2>2, ConcatProperties
  <2> HIDE DEF a, b, u, q
  <2>4. Len(a) = Len(b)
    BY <1>1, <2>1, <2>2, <2>3
  <2>5. ASSUME NEW i \in 1..Len(a) PROVE a[i] = b[i]
    <3>1. /\ i \in Nat /\ i + 1 \in 1..Len(s) + Len(t) /\ i \in 1..Len(u) + Len(t)
          /\ (i + 1 <= Len(s) <=> i <= Len(u)) /\ i + 1 - Len(s) = i - Len(u)
          /\ (i <= Len(u) => i \in 1..Len(u))
      BY <1>1, <2>1, <2>2
    <3>2. a[i] = IF i + 1 <= Len(s) THEN s[i + 1] ELSE t[i + 1 - Len(s)]
      BY <1>1, <2>1, <3>1
    <3>3. b[i] = IF i <= Len(u) THEN u[i] ELSE t[i - Len(u)]
      BY <2>3, <3>1
    <3>4. i <= Len(u) => u[i] = s[i + 1]
      BY <2>2, <3>1
    <3>5. CASE i <= Len(u)
      BY <3>1, <3>2, <3>3, <3>4, <3>5, Zenon
    <3>6. CASE ~(i <= Len(u))
      BY <3>1, <3>2, <3>3, <3>6, Zenon
    <3> QED BY <3>5, <3>6
  <2>6. a = b
    BY <2>1, <2>3, <2>4, <2>5, SeqEqual
  <2> QED BY <2>6 DEF a, b, u
<1> QED BY <1>2, <1>3, <1>4 DEF q

\* In a place where a queue q, not written yet but perhaps for its head, makes up acc
\* with what was, a flush leaves what is placed again.
LEMMA FlushPlaces ==
    ASSUME NEW q \in Seq(Buffers), NEW acc \in Seq(Buffers), NEW bytes,
           NEW taken \in 0..Len(q), NEW n \in 0..Len(q), NEW k \in 0..Len(q),
           NEW armed, NEW heard, NEW owed,
           passed \in Seq(Buffers), Writes(q, bytes, taken, n, k),
           Completed(q, n, k, armed, heard, owed) \/ Refused(q, n, k, armed, heard),
           Joined(passed, SubSeq(q, From(q), Len(q)), acc)
    PROVE  IF queue' = <<>> THEN passed' = acc
           ELSE IsRepeated(queue)' /\ Joined(passed', Tail(queue'), acc)
<1>1. Len(q) \in Nat /\ \A i \in 1..Len(q) : q[i] \in Buffers
  BY LenProperties, ElementOfSeq
<1>2. passed' = passed \o SubSeq(q, From(q), n) /\ queue' = SubSeq(q, k + 1, Len(q))
  BY Zenon DEF Writes
<1>3. CASE Completed(q, n, k, armed, heard, owed)
  <2>1. n = Len(q) /\ k = Len(q)
    BY <1>3 DEF Completed
  <2>2. queue' = <<>>
    <3>1. k + 1 \in Int /\ Len(q) \in Int /\ Len(q) < k + 1
      BY <1>1, <2>1
    <3>2. SubSeq(q, k + 1, Len(q)) = <<>>
      BY <3>1, SubSeqEmpty
    <3> QED BY <1>2, <3>2, Zenon
  <2>3. passed' = acc
    BY <1>2, <2>1, Zenon DEF Joined
  <2> QED BY <2>2, <2>3, Zenon
<1>4. CASE Refused(q, n, k, armed, heard)
  <2>1. n \in 1..Len(q) /\ k + 1 = n
    BY <1>1, <1>4 DEF Refused
  <2> DEFINE f == From(q)
             a == SubSeq(q, f, n)
             b == SubSeq(q, n + 1, Len(q))
  <2>2. f \in 1..Len(q) + 1 /\ n \in f - 1..Len(q) /\ Len(q) \in n..Len(q) /\ f \in {1, 2}
    BY <1>1, <2>1 DEF From
  <2>3. queue' # <<>> /\ Head(queue') = q[n] /\ Tail(queue') = b
    <3>1. queue' = SubSeq(q, n, Len(q))
      BY <1>2, <2>1, Zenon
    <3>2. Head(SubSeq(q, n, Len(q))) = q[n] /\ Tail(SubSeq(q, n, Len(q))) = b
      BY <2>1, <2>2, HeadTailOfSubSeq
    <3>3. SubSeq(q, n, Len(q)) # <<>>
      <4>1. n \in Int /\ Len(q) \in Int /\ n <= Len(q) /\ \A i \in n..Len(q) : q[i] \in Buffers
        BY <1>1, <2>1
      <4>2. Len(SubSeq(q, n, Len(q))) = Len(q) - n + 1
        BY <4>1, SubSeqProperties
      <4>3. Len(SubSeq(q, n, Len(q))) # 0
        BY <4>1, <4>2
      <4> QED BY <4>3, EmptySeq
    <3> QED BY <3>1, <3>2, <3>3, Zenon
  <2>4. a \in Seq(Buffers) /\ b \in Seq(Buffers) /\ Len(a) = n - f + 1
        /\ \A i \in 1..n - f + 1 : a[i] = q[f + i - 1]
    <3>1. f \in Int /\ n \in Int /\ (\A i \in f..n : q[i] \in Buffers)
          /\ n + 1 \in Int /\ Len(q) \in Int /\ \A i \in n + 1..Len(q) : q[i] \in Buffers
      BY <1>1, <2>1, <2>2
    <3>2. b \in Seq(Buffers)
      BY <3>1, SubSeqProperties
    <3>3. a \in Seq(Buffers) /\ Len(a) = (IF f <= n THEN n - f + 1 ELSE 0)
          /\ \A i \in 1..n - f + 1 : a[i] = q[f + i - 1]
      <4> HIDE DEF f
      <4> QED BY <3>1, SubSeqProperties
    <3>4. (IF f <= n THEN n - f + 1 ELSE 0) = n - f + 1
      BY <2>1, <2>2
    <3> QED BY <3>2, <3>3, <3>4, Zenon
  <2>5. Joined(passed', b, acc)
    <3>1. a \o b = SubSeq(q, f, Len(q))
      <4> HIDE DEF f
      <4> QED BY <2>2, ConcatAdjacentSubSeq
    <3>2. Regroup(passed, a, b)
      <4> HIDE DEF a, b
      <4> QED BY <2>4, Regrouped
    <3>3. passed \o SubSeq(q, f, Len(q)) = acc
      BY Zenon DEF Joined
    <3> QED BY <1>2, <3>1, <3>2, <3>3, Zenon DEF Regroup, Joined
  <2>6. passed' # <<>> /\ Last(passed') = q[n]
    <3>1. CASE f <= n
      <4> DEFINE r == passed \o a
      <4>1. n \in Nat /\ f \in Nat /\ Len(passed) \in Nat /\ Len(a) >= 1
            /\ Len(a) \in 1..n - f + 1 /\ f + Len(a) - 1 = n
        <5>1. n \in Nat /\ f \in Nat
          BY <1>1, <2>1, <2>2
        <5>2. Len(passed) \in Nat
          BY LenProperties
        <5> HIDE DEF a, f
        <5> QED BY <3>1, <5>1, <5>2, <2>4
      <4>2. r \in Seq(Buffers) /\ Len(r) = Len(passed) + Len(a)
            /\ \A i \in 1..Len(passed) + Len(a) :
                  r[i] = IF i <= Len(passed) THEN passed[i] ELSE a[i - Len(passed)]
        <5> HIDE DEF a
        <5> QED BY <2>4, ConcatProperties
      <4>3. passed' = r
        BY <1>2, Zenon
      <4>4. a[Len(a)] = q[n]
        <5> HIDE DEF a, f
        <5> QED BY <2>4, <4>1
      <4> HIDE DEF r, a, f
      <4>5. Len(r) \in 1..Len(passed) + Len(a) /\ ~(Len(r) <= Len(passed))
            /\ Len(r) - Len(passed) = Len(a) /\ Len(r) # 0
        BY <4>1, <4>2
      <4>6. r[Len(r)] = a[Len(a)]
        BY <4>2, <4>5
      <4>7. r # <<>>
        BY <4>5, EmptySeq
      <4> QED BY <4>3, <4>4, <4>6, <4>7, Zenon DEF Last
    <3>2. CASE ~(f <= n)
      <4>1. f = 2 /\ n = 1
        BY <1>1, <2>1, <2>2, <3>2
      <4>2. IsRepeated(q)
        BY <4>1 DEF From
      <4>3. a = <<>>
        <5>1. SubSeq(q, 2, 1) = <<>>
          BY SubSeqEmpty
        <5> HIDE DEF f
        <5> QED BY <4>1, <5>1, Zenon
      <4>4. passed \o <<>> = passed
        BY ConcatEmptySeq
      <4>5. passed' = passed
        BY <1>2, <4>3, <4>4, Zenon
      <4>6. Head(q) = q[1]
        BY <1>1, <2>1
      <4>7. q[n] = q[1]
        BY <4>1, Zenon
      <4> QED BY <4>2, <4>5, <4>6, <4>7, Zenon DEF IsRepeated
    <3> QED BY <3>1, <3>2
  <2>7. IsRepeated(queue)'
    BY <2>3, <2>6, Zenon DEF IsRepeated
  <2> QED BY <2>3, <2>5, <2>7, Zenon
<1> QED BY <1>3, <1>4

\* Such a place is that of the queue before a drain, ...
LEMMA QueueIsPlaced ==
    ASSUME InputInv, up
    PROVE  Joined(passed, SubSeq(queue, From(queue), Len(queue)), accepted)
<1>1. Placed /\ queue \in Seq(Buffers) /\ passed \in Seq(Buffers)
  BY DEF InputInv, InputTypeOK
<1>2. CASE queue = <<>>
  <2>1. SubSeq(queue, From(queue), Len(queue)) = <<>>
    <3>1. From(queue) = 1 /\ Len(queue) = 0
      BY <1>2 DEF From, IsRepeated
    <3>2. SubSeq(queue, 1, 0) = <<>>
      BY SubSeqEmpty
    <3> QED BY <3>1, <3>2, Zenon
  <2>2. passed \o <<>> = passed
    BY <1>1, ConcatEmptySeq
  <2> QED BY <1>1, <1>2, <2>1, <2>2, Zenon DEF Placed, Joined
<1>3. CASE queue # <<>>
  <2>1. IsRepeated(queue) /\ Joined(passed, Tail(queue), accepted)
    BY <1>1, <1>3, Zenon DEF Placed
  <2>2. From(queue) = 2
    BY <2>1, Zenon DEF From
  <2>3. Tail(queue) = SubSeq(queue, 2, Len(queue))
    BY <1>1, <1>3, TailIsSubSeq
  <2> QED BY <2>1, <2>2, <2>3, Zenon
<1> QED BY <1>2, <1>3

\* ... and of the queue with a new frame at its end.
LEMMA FrameIsPlaced ==
    ASSUME InputInv, up, NEW p \in Seq(Buffers), p # <<>>, Head(p).frame = frames + 1
    PROVE  Joined(passed, SubSeq(queue \o p, From(queue \o p), Len(queue \o p)), accepted \o p)
<1> DEFINE q == queue \o p
<1>1. /\ Placed /\ queue \in Seq(Buffers) /\ passed \in Seq(Buffers) /\ accepted \in Seq(Buffers)
      /\ frames \in Nat
  BY DEF InputInv, InputTypeOK
<1>2. q \in Seq(Buffers)
  BY <1>1, ConcatProperties
<1>3. CASE queue = <<>>
  <2>1. q = p
    <3>1. <<>> \o p = p
      BY ConcatEmptySeq
    <3> QED BY <1>3, <3>1, Zenon
  <2>2. passed = accepted
    BY <1>1, <1>3, Zenon DEF Placed
  <2>3. ~IsRepeated(p)
    <3> SUFFICES ASSUME passed # <<>>, Head(p) = Last(passed) PROVE FALSE
      BY Zenon DEF IsRepeated
    <3>1. Len(accepted) \in Nat \ {0}
      BY <1>1, <2>2, EmptySeq
    <3>2. Len(accepted) \in 1..Len(accepted)
      BY <3>1
    <3>3. accepted[Len(accepted)].frame <= frames
      BY <3>2 DEF InputInv
    <3>4. Last(passed) = accepted[Len(accepted)]
      BY <2>2, Zenon DEF Last
    <3>5. Head(p).frame <= frames
      BY <3>3, <3>4, Zenon
    <3> QED BY <1>1, <3>5
  <2>4. From(p) = 1
    BY <2>3, Zenon DEF From
  <2>5. SubSeq(p, 1, Len(p)) = p
    BY SubSeqFull
  <2>6. SubSeq(q, From(q), Len(q)) = p
    <3> HIDE DEF q
    <3> QED BY <2>1, <2>4, <2>5, Zenon
  <2> QED BY <2>2, <2>6, Zenon DEF Joined
<1>4. CASE queue # <<>>
  <2>1. IsRepeated(queue) /\ Joined(passed, Tail(queue), accepted)
    BY <1>1, <1>4, Zenon DEF Placed
  <2>2. q # <<>> /\ Head(q) = Head(queue) /\ Tail(q) = Tail(queue) \o p
    BY <1>1, <1>4, HeadTailConcat
  <2>3. From(q) = 2
    <3> HIDE DEF q
    <3> QED BY <2>1, <2>2, Zenon DEF From, IsRepeated
  <2>4. Tail(q) = SubSeq(q, 2, Len(q))
    <3> HIDE DEF q
    <3> QED BY <1>2, <2>2, TailIsSubSeq
  <2>5. Regroup(passed, Tail(queue), p)
    <3>1. Tail(queue) \in Seq(Buffers)
      BY <1>1, <1>4, HeadTailProperties
    <3> QED BY <1>1, <3>1, Regrouped
  <2>6. SubSeq(q, From(q), Len(q)) = Tail(queue) \o p
    <3> HIDE DEF q
    <3> QED BY <2>2, <2>3, <2>4, Zenon
  <2>7. passed \o (Tail(queue) \o p) = accepted \o p
    BY <2>1, <2>5, Zenon DEF Regroup, Joined
  <2> QED BY <2>6, <2>7, Zenon DEF Joined
<1> QED BY <1>3, <1>4

\* A flush keeps the invariant, wherever it starts from.
LEMMA FlushKeeps ==
    ASSUME NEW q \in Seq(Buffers), NEW acc \in Seq(Buffers), NEW bytes,
           NEW armed \in BOOLEAN, NEW heard \in BOOLEAN, NEW owed \in BOOLEAN,
           passed \in Seq(Buffers), stream \in Seq(Buffers),
           bytes = Bytes(q), bytes <= MaxQueueBytes,
           heard <=> armed, heard => owed,
           Joined(passed, SubSeq(q, From(q), Len(q)), acc),
           FlushStdin(q, bytes, armed, heard, owed)
    PROVE  /\ passed' \in Seq(Buffers) /\ stream' \in Seq(Buffers) /\ queue' \in Seq(Buffers)
           /\ stdinQueuedBytes' = Bytes(queue') /\ stdinQueuedBytes' \in 0..MaxQueueBytes
           /\ needDrain' \in BOOLEAN /\ drainArmed' \in BOOLEAN /\ listening' \in BOOLEAN
           /\ queue' # <<>> => listening'
           /\ listening' <=> drainArmed'
           /\ listening' => needDrain'
           /\ IF queue' = <<>> THEN passed' = acc
              ELSE IsRepeated(queue)' /\ Joined(passed', Tail(queue'), acc)
<1>1. PICK taken, n, k \in 0..Len(q) :
         /\ Writes(q, bytes, taken, n, k)
         /\ Completed(q, n, k, armed, heard, owed) \/ Refused(q, n, k, armed, heard)
  BY FlushIs
<1>2. /\ passed' \in Seq(Buffers) /\ stream' \in Seq(Buffers) /\ queue' \in Seq(Buffers)
      /\ stdinQueuedBytes' = Bytes(queue') /\ stdinQueuedBytes' \in 0..MaxQueueBytes
  BY <1>1, FlushTypes
<1>3. IF queue' = <<>> THEN passed' = acc
      ELSE IsRepeated(queue)' /\ Joined(passed', Tail(queue'), acc)
  BY <1>1, FlushPlaces
<1>4. CASE Completed(q, n, k, armed, heard, owed)
  <2>1. needDrain' = owed /\ drainArmed' = armed /\ listening' = heard /\ k = Len(q)
    BY <1>4, Zenon DEF Completed
  <2>2. queue' = <<>>
    <3>1. Len(q) \in Int /\ k + 1 \in Int /\ Len(q) < k + 1
      BY <2>1, LenProperties
    <3>2. SubSeq(q, k + 1, Len(q)) = <<>>
      BY <3>1, SubSeqEmpty
    <3> QED BY <1>1, <3>2, Zenon DEF Writes
  <2>3. /\ needDrain' \in BOOLEAN /\ drainArmed' \in BOOLEAN /\ listening' \in BOOLEAN
        /\ listening' <=> drainArmed'
        /\ listening' => needDrain'
    BY <2>1, Zenon
  <2> QED BY <1>2, <1>3, <2>2, <2>3, Zenon
<1>5. CASE Refused(q, n, k, armed, heard)
  <2>1. needDrain' = TRUE /\ drainArmed' = TRUE /\ listening' = (heard \/ ~armed)
    BY <1>5, Zenon DEF Refused
  <2>2. listening' = TRUE
    BY <2>1, Zenon
  <2> QED BY <1>2, <1>3, <2>1, <2>2, Zenon
<1> QED BY <1>1, <1>4, <1>5

LEMMA InputStarts == InputInit => InputInv
<1> SUFFICES ASSUME InputInit PROVE InputInv
  OBVIOUS
<1>1. <<>> \in Seq(Buffers) /\ Len(<<>>) = 0
  BY EmptySeq
<1>2. InputTypeOK
  <2>1. 0 \in 0..MaxQueueBytes /\ 0 \in 0..MaxFrames /\ TRUE \in BOOLEAN /\ FALSE \in BOOLEAN
    BY InputAssumption
  <2> QED BY <1>1, <2>1, Zenon DEF InputInit, InputTypeOK
<1>3. BytesCounted
  BY BytesOfOne DEF InputInit, BytesCounted
<1>4. BacklogHasDrain
  BY DEF InputInit, BacklogHasDrain
<1>5. \A i \in 1..Len(accepted) : accepted[i].frame <= frames
  BY <1>1 DEF InputInit
<1>6. up /\ Placed
  BY DEF InputInit, Placed
<1> QED BY <1>2, <1>3, <1>4, <1>5, <1>6, Zenon DEF InputInv

LEMMA QuietInput == ASSUME InputInv, UNCHANGED inputVars PROVE InputInv'
<1>1. /\ up' = up /\ queue' = queue /\ stdinQueuedBytes' = stdinQueuedBytes
      /\ drainArmed' = drainArmed /\ stream' = stream /\ needDrain' = needDrain
      /\ listening' = listening /\ passed' = passed /\ accepted' = accepted
      /\ frames' = frames
  BY DEF inputVars, sessionVars, streamVars, inputHistVars
<1> QED BY <1>1 DEF InputInv, InputTypeOK, BytesCounted, BacklogHasDrain, Placed, IsRepeated,
                    Joined

LEMMA SendInput ==
    ASSUME InputInv, NEW size \in Payloads, SendFrame(size)
    PROVE  InputInv'
<1>1. /\ InputTypeOK /\ BytesCounted /\ BacklogHasDrain
      /\ \A i \in 1..Len(accepted) : accepted[i].frame <= frames
      /\ up /\ up' = up /\ frames' = frames + 1 /\ frames < MaxFrames
  BY DEF InputInv, SendFrame
<1>2. frames \in Nat /\ frames' \in 0..MaxFrames /\ frames' \in 1..MaxFrames
  BY <1>1, InputAssumption DEF InputTypeOK
<1>3. CASE ~Room(size) /\ UNCHANGED <<queue, stdinQueuedBytes, drainArmed, streamVars,
                                      passed, accepted>>
  <2>1. /\ queue' = queue /\ stdinQueuedBytes' = stdinQueuedBytes
        /\ drainArmed' = drainArmed /\ stream' = stream /\ needDrain' = needDrain
        /\ listening' = listening /\ passed' = passed /\ accepted' = accepted
    BY <1>3 DEF streamVars
  <2>2. InputTypeOK' /\ BytesCounted' /\ BacklogHasDrain'
    BY <1>1, <1>2, <2>1 DEF InputTypeOK, BytesCounted, BacklogHasDrain
  <2>3. \A i \in 1..Len(accepted') : accepted'[i].frame <= frames'
    <3>1. accepted \in Seq(Buffers) /\ \A i \in 1..Len(accepted) : accepted[i] \in Buffers
      BY <1>1, ElementOfSeq DEF InputTypeOK
    <3>2. \A i \in 1..Len(accepted) : accepted[i].frame \in Nat
      BY <3>1 DEF Buffers
    <3>3. ASSUME NEW i \in 1..Len(accepted) PROVE accepted[i].frame <= frames + 1
      <4> DEFINE x == accepted[i].frame
      <4>1. x \in Nat /\ x <= frames
        BY <1>1, <3>2
      <4> HIDE DEF x
      <4>2. x <= frames + 1
        BY <1>2, <4>1
      <4> QED BY <4>2 DEF x
    <3> QED BY <1>1, <2>1, <3>3, Zenon
  <2>4. Placed'
    BY <1>1, <2>1, Zenon DEF InputInv, Placed, IsRepeated, Joined
  <2> QED BY <1>1, <2>2, <2>3, <2>4, Zenon DEF InputInv
<1>4. CASE /\ Room(size)
           /\ accepted' = accepted \o Pieces(frames', size)
           /\ FlushStdin(Queued(Pieces(frames', size)),
                         stdinQueuedBytes + Bytes(Pieces(frames', size)),
                         drainArmed, listening, needDrain)
  <2> DEFINE p == Pieces(frames', size)
             q == queue \o p
             acc == accepted \o p
             bytes == stdinQueuedBytes + Bytes(p)
  <2>1. /\ p \in Seq(Buffers) /\ p # <<>> /\ Bytes(p) = HeaderBytes + size
        /\ \A i \in 1..Len(p) : p[i].frame = frames'
        /\ Head(p).frame = frames + 1
    BY <1>1, <1>2, PiecesAre
  <2>2. /\ queue \in Seq(Buffers) /\ accepted \in Seq(Buffers) /\ passed \in Seq(Buffers)
        /\ stream \in Seq(Buffers) /\ stdinQueuedBytes = Bytes(queue)
        /\ drainArmed \in BOOLEAN /\ listening \in BOOLEAN /\ needDrain \in BOOLEAN
        /\ listening <=> drainArmed
        /\ listening => needDrain
    BY <1>1, Zenon DEF InputTypeOK, BytesCounted, BacklogHasDrain
  <2>3. q \in Seq(Buffers) /\ acc \in Seq(Buffers)
    <3> HIDE DEF p
    <3> QED BY <2>1, <2>2, ConcatProperties
  <2>4. bytes = Bytes(q) /\ bytes <= MaxQueueBytes
    <3>1. Bytes(q) = Bytes(queue) + Bytes(p)
      <4> HIDE DEF p
      <4> QED BY <2>1, <2>2, BytesConcat
    <3>2. stdinQueuedBytes + HeaderBytes + size <= MaxQueueBytes
      BY <1>4 DEF Room
    <3>3. stdinQueuedBytes \in Nat /\ HeaderBytes \in Nat /\ size \in Nat
      BY <1>1, InputAssumption, SizeIsNat DEF InputTypeOK
    <3>4. stdinQueuedBytes + (HeaderBytes + size) <= MaxQueueBytes
      BY <3>2, <3>3
    <3> QED BY <2>1, <2>2, <3>1, <3>4, Zenon
  <2>5. Joined(passed, SubSeq(q, From(q), Len(q)), acc)
    <3> HIDE DEF p
    <3> QED BY <1>1, <2>1, FrameIsPlaced
  <2>6. FlushStdin(q, bytes, drainArmed, listening, needDrain)
    BY <1>4, Zenon DEF Queued
  <2>7. accepted' = acc
    BY <1>4, Zenon
  <2>8. \A i \in 1..Len(acc) : acc[i].frame <= frames'
    <3>1. /\ Len(accepted) \in Nat /\ Len(p) \in Nat /\ Len(acc) = Len(accepted) + Len(p)
          /\ \A i \in 1..Len(accepted) + Len(p) :
                acc[i] = IF i <= Len(accepted) THEN accepted[i] ELSE p[i - Len(accepted)]
          /\ \A i \in 1..Len(accepted) : accepted[i] \in Buffers
      <4> HIDE DEF p
      <4> QED BY <2>1, <2>2, ConcatProperties, LenProperties, ElementOfSeq
    <3> HIDE DEF p, acc
    <3>2. \A i \in 1..Len(accepted) : accepted[i].frame \in Nat
      BY <3>1 DEF Buffers
    <3> SUFFICES ASSUME NEW i \in 1..Len(acc) PROVE acc[i].frame <= frames'
      OBVIOUS
    <3>3. i \in 1..Len(accepted) + Len(p)
      BY <3>1, Zenon
    <3>4. CASE i <= Len(accepted)
      <4> DEFINE x == accepted[i].frame
      <4>1. i \in 1..Len(accepted)
        BY <3>1, <3>3, <3>4
      <4>2. x \in Nat /\ x <= frames
        BY <1>1, <3>2, <4>1
      <4>3. acc[i].frame = x
        BY <3>1, <3>3, <3>4
      <4> HIDE DEF x
      <4>4. x <= frames'
        BY <1>1, <1>2, <4>2
      <4> QED BY <4>3, <4>4, Zenon
    <3>5. CASE ~(i <= Len(accepted))
      <4>1. i - Len(accepted) \in 1..Len(p)
        BY <3>1, <3>3, <3>5
      <4>2. acc[i] = p[i - Len(accepted)]
        BY <3>1, <3>3, <3>5
      <4>3. acc[i].frame = frames'
        BY <2>1, <4>1, <4>2, Zenon
      <4>4. frames' <= frames'
        BY <1>2
      <4> QED BY <4>3, <4>4, Zenon
    <3> QED BY <3>4, <3>5
  <2> HIDE DEF p, q, acc, bytes
  <2>9. /\ passed' \in Seq(Buffers) /\ stream' \in Seq(Buffers) /\ queue' \in Seq(Buffers)
        /\ stdinQueuedBytes' = Bytes(queue') /\ stdinQueuedBytes' \in 0..MaxQueueBytes
        /\ needDrain' \in BOOLEAN /\ drainArmed' \in BOOLEAN /\ listening' \in BOOLEAN
        /\ queue' # <<>> => listening'
        /\ listening' <=> drainArmed'
        /\ listening' => needDrain'
        /\ IF queue' = <<>> THEN passed' = acc
           ELSE IsRepeated(queue)' /\ Joined(passed', Tail(queue'), acc)
    BY <2>2, <2>3, <2>4, <2>5, <2>6, FlushKeeps
  <2>10. InputTypeOK' /\ BytesCounted' /\ BacklogHasDrain'
    BY <1>1, <1>2, <2>3, <2>7, <2>9, Zenon DEF InputTypeOK, BytesCounted, BacklogHasDrain
  <2>11. Placed'
    BY <2>7, <2>9, Zenon DEF Placed, Joined
  <2> QED BY <1>1, <2>7, <2>8, <2>10, <2>11, Zenon DEF InputInv
<1> QED BY <1>3, <1>4, Zenon DEF SendFrame

LEMMA DeliverInput == ASSUME InputInv, Deliver PROVE InputInv'
<1>1. /\ up' = up /\ queue' = queue /\ stdinQueuedBytes' = stdinQueuedBytes
      /\ drainArmed' = drainArmed /\ needDrain' = needDrain
      /\ listening' = listening /\ passed' = passed /\ accepted' = accepted
      /\ frames' = frames
  BY DEF Deliver, sessionVars, inputHistVars
<1>2. stream' \in Seq(Buffers)
  BY HeadTailProperties DEF Deliver, InputInv, InputTypeOK
<1> QED BY <1>1, <1>2, Zenon DEF InputInv, InputTypeOK, BytesCounted, BacklogHasDrain, Placed,
                                 IsRepeated, Joined

LEMMA DrainInput == ASSUME InputInv, Drain PROVE InputInv'
<1>1. /\ InputTypeOK /\ BytesCounted /\ BacklogHasDrain
      /\ up' = up /\ frames' = frames /\ accepted' = accepted /\ needDrain
  BY DEF InputInv, Drain
<1>2. CASE /\ listening /\ up
           /\ FlushStdin(queue, stdinQueuedBytes, ArmedAfterDrain, FALSE, FALSE)
  <2>1. /\ queue \in Seq(Buffers) /\ accepted \in Seq(Buffers) /\ passed \in Seq(Buffers)
        /\ stream \in Seq(Buffers) /\ stdinQueuedBytes = Bytes(queue)
        /\ stdinQueuedBytes \in 0..MaxQueueBytes
    BY <1>1, Zenon DEF InputTypeOK, BytesCounted
  <2>2. stdinQueuedBytes <= MaxQueueBytes
    BY <2>1, InputAssumption
  <2>3. Joined(passed, SubSeq(queue, From(queue), Len(queue)), accepted)
    BY <1>2, QueueIsPlaced
  <2>4. FlushStdin(queue, stdinQueuedBytes, FALSE, FALSE, FALSE)
    BY <1>2, Zenon DEF ArmedAfterDrain
  <2>5. /\ passed' \in Seq(Buffers) /\ stream' \in Seq(Buffers) /\ queue' \in Seq(Buffers)
        /\ stdinQueuedBytes' = Bytes(queue') /\ stdinQueuedBytes' \in 0..MaxQueueBytes
        /\ needDrain' \in BOOLEAN /\ drainArmed' \in BOOLEAN /\ listening' \in BOOLEAN
        /\ queue' # <<>> => listening'
        /\ listening' <=> drainArmed'
        /\ listening' => needDrain'
        /\ IF queue' = <<>> THEN passed' = accepted
           ELSE IsRepeated(queue)' /\ Joined(passed', Tail(queue'), accepted)
    BY <2>1, <2>2, <2>3, <2>4, FlushKeeps
  <2>6. InputTypeOK' /\ BytesCounted' /\ BacklogHasDrain'
    BY <1>1, <2>5, Zenon DEF InputTypeOK, BytesCounted, BacklogHasDrain
  <2>7. Placed'
    BY <1>1, <2>5, Zenon DEF Placed, Joined
  <2> QED BY <1>1, <1>2, <2>6, <2>7, Zenon DEF InputInv
<1>3. CASE /\ ~(listening /\ up)
           /\ needDrain' = FALSE /\ listening' = FALSE /\ drainArmed' = FALSE
           /\ UNCHANGED <<queue, stdinQueuedBytes, stream, passed>>
  <2>1. /\ queue' = queue /\ stdinQueuedBytes' = stdinQueuedBytes /\ stream' = stream
        /\ passed' = passed
    BY <1>3
  <2>2. InputTypeOK' /\ BytesCounted'
    BY <1>1, <1>3, <2>1, Zenon DEF InputTypeOK, BytesCounted
  <2>3. BacklogHasDrain'
    BY <1>1, <1>3, <2>1, Zenon DEF BacklogHasDrain
  <2>4. up => Placed'
    BY <1>1, <2>1, Zenon DEF InputInv, Placed, IsRepeated, Joined
  <2> QED BY <1>1, <2>1, <2>2, <2>3, <2>4, Zenon DEF InputInv
<1> QED BY <1>2, <1>3, Zenon DEF Drain

LEMMA DownInput == ASSUME InputInv, Down PROVE InputInv'
<1>1. /\ up /\ up' = FALSE /\ queue' = <<>> /\ stdinQueuedBytes' = 0 /\ drainArmed' = FALSE
      /\ stream' = stream /\ needDrain' = needDrain /\ listening' = listening
      /\ passed' = passed /\ accepted' = accepted /\ frames' = frames
  BY DEF Down, streamVars, inputHistVars
<1>2. InputTypeOK /\ Placed
  BY <1>1 DEF InputInv
<1>3. InputTypeOK'
  <2>1. <<>> \in Seq(Buffers) /\ 0 \in 0..MaxQueueBytes
    BY EmptySeq, InputAssumption
  <2> QED BY <1>1, <1>2, <2>1, Zenon DEF InputTypeOK
<1>4. BytesCounted' /\ BacklogHasDrain'
  BY <1>1, BytesOfOne, Zenon DEF BytesCounted, BacklogHasDrain
<1>5. IsPrefix(passed, accepted)
  <2>1. passed \in Seq(Buffers) /\ queue \in Seq(Buffers)
    BY <1>2 DEF InputTypeOK
  <2>2. CASE queue = <<>>
    <3>1. passed = accepted
      BY <1>2, <2>2, Zenon DEF Placed
    <3>2. passed \o <<>> = passed
      BY <2>1, ConcatEmptySeq
    <3>3. <<>> \in Seq(Buffers)
      BY EmptySeq
    <3>4. IsPrefix(passed, passed \o <<>>)
      BY <2>1, <3>3, PrefixIs
    <3> QED BY <3>1, <3>2, <3>4, Zenon
  <2>3. CASE queue # <<>>
    <3>1. Tail(queue) \in Seq(Buffers)
      BY <2>1, <2>3, HeadTailProperties
    <3>2. IsPrefix(passed, passed \o Tail(queue))
      BY <2>1, <3>1, PrefixIs
    <3>3. passed \o Tail(queue) = accepted
      BY <1>2, <2>3, Zenon DEF Placed, Joined
    <3> QED BY <3>2, <3>3, Zenon
  <2> QED BY <2>2, <2>3
<1>6. \A i \in 1..Len(accepted') : accepted'[i].frame <= frames'
  BY <1>1, Zenon DEF InputInv
<1> QED BY <1>1, <1>3, <1>4, <1>5, <1>6, Zenon DEF InputInv

LEMMA InputStep == ASSUME InputInv, [InputNext]_inputVars PROVE InputInv'
<1>1. ASSUME NEW size \in Payloads, SendFrame(size) PROVE InputInv'
  BY <1>1, SendInput
<1> QED BY <1>1, QuietInput, DeliverInput, DrainInput, DownInput, Zenon DEF InputNext

\* For any sizes of frames, limit and high-water mark: the queue counts its bytes, waits
\* for a drain that is owed while it holds anything, and hands on what it accepted in that
\* order, through flushes that stop anywhere, drops and resets.
THEOREM QueueCorrect == InputSpec => []QueueSound
<1>1. InputInv => QueueSound
  <2> SUFFICES ASSUME InputInv PROVE InputKeepsOrder
    BY DEF InputInv, QueueSound
  <2>1. CASE up
    <3>1. Placed /\ passed \in Seq(Buffers)
      BY <2>1 DEF InputInv, InputTypeOK
    <3>2. passed \o <<>> = passed
      BY <3>1, ConcatEmptySeq
    <3> QED BY <2>1, <3>1, <3>2, Zenon DEF Placed, Joined, InputKeepsOrder
  <2>2. CASE ~up
    BY <2>2, Zenon DEF InputInv, InputKeepsOrder
  <2> QED BY <2>1, <2>2
<1> QED BY <1>1, InputStarts, InputStep, PTL DEF InputSpec

=============================================================================
