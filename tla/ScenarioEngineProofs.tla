-------------------------- MODULE ScenarioEngineProofs --------------------------
(* Proofs about ScenarioEngine for all scenarios, spaces and bounds.        *)
EXTENDS ScenarioEngine, SequenceTheorems, WellFoundedInduction, TLAPS

-------------------------------------------------------------------------------
(* Numbers and sequences.                                                   *)

LEMMA LeastNat ==
  ASSUME NEW T, T \subseteq Nat, T # {}
  PROVE  \E x \in T : \A y \in T : x <= y
<1>1. PICK x \in T : \A y \in T : ~(<<y, x>> \in OpToRel(<, Nat))
  BY NatLessThanWellFounded, WFMin
<1>2. \A y \in T : ~(y < x)
  BY <1>1 DEF OpToRel
<1> QED
  BY <1>2

LEMMA GreatestNat ==
  ASSUME NEW T, NEW n \in Nat, T \subseteq 0 .. n, T # {}
  PROVE  \E x \in T : \A y \in T : x >= y
<1> DEFINE Distances == {n - x : x \in T}
<1>1. PICK d \in Distances : \A e \in Distances : d <= e
  <2>1. Distances \subseteq Nat
    OBVIOUS
  <2>2. PICK t \in T : TRUE
    OBVIOUS
  <2>3. n - t \in Distances
    OBVIOUS
  <2> HIDE DEF Distances
  <2> QED
    BY <2>1, <2>3, LeastNat
<1>2. PICK x \in T : d = n - x
  OBVIOUS
<1>3. ASSUME NEW y \in T PROVE x >= y
  <2>1. n - y \in Distances
    OBVIOUS
  <2>2. n - x <= n - y
    BY <1>1, <1>2, <2>1
  <2> QED
    BY <2>2
<1> QED
  BY <1>3

LEMMA MaxOfIndices ==
  ASSUME NEW T, NEW n \in Nat, T \subseteq 0 .. n, T # {}
  PROVE  Max(T) \in T
<1>1. \E x \in T : \A y \in T : x >= y
  BY GreatestNat
<1> QED
  BY <1>1 DEF Max

LEMMA PrefixIsSeq ==
  ASSUME NEW S, NEW s \in Seq(S), NEW d \in 0 .. Len(s)
  PROVE  SubSeq(s, 1, d) \in Seq(S)
<1>1. \A i \in 1 .. d : s[i] \in S
  BY ElementOfSeq, LenProperties
<1>2. d \in Int
  BY LenProperties
<1> QED
  BY <1>1, <1>2, SubSeqProperties

LEMMA Difference ==
  ASSUME NEW n \in Nat, NEW c \in Nat, NEW d \in Nat
  PROVE  n - (n - c - d) = c + d
OBVIOUS

LEMMA Shorter ==
  ASSUME NEW n \in Nat, NEW d \in Nat, d # 0
  PROVE  n - d # n
OBVIOUS

LEMMA SuffixOfSuffix ==
  ASSUME NEW S, NEW s \in Seq(S), NEW c \in 0 .. Len(s), NEW d \in 0 .. Len(s) - c
  PROVE  LET q == SubSeq(s, c + 1, Len(s))
         IN  /\ q \in Seq(S)
             /\ Len(q) = Len(s) - c
             /\ \A i \in 1 .. Len(q) : q[i] = s[c + i]
             /\ SubSeq(q, d + 1, Len(q)) = SubSeq(s, c + d + 1, Len(s))
<1> DEFINE q == SubSeq(s, c + 1, Len(s))
           u == SubSeq(q, d + 1, Len(q))
           v == SubSeq(s, c + d + 1, Len(s))
<1>1. /\ q \in Seq(S)
      /\ Len(q) = Len(s) - c
      /\ \A i \in 1 .. Len(q) : q[i] = s[c + i]
  BY SubSeqProperties, ElementOfSeq, LenProperties
<1>2. /\ u \in Seq(S)
      /\ Len(u) = Len(s) - c - d
      /\ \A i \in 1 .. Len(u) : u[i] = q[d + i]
  <2> HIDE DEF q
  <2> QED
    BY <1>1, SubSeqProperties, ElementOfSeq, LenProperties
<1>3. /\ v \in Seq(S)
      /\ Len(v) = Len(s) - c - d
      /\ \A i \in 1 .. Len(v) : v[i] = s[c + d + i]
  BY SubSeqProperties, ElementOfSeq, LenProperties
<1>4. \A i \in 1 .. Len(u) : u[i] = v[i]
  BY <1>1, <1>2, <1>3
<1>5. u = v
  <2>1. u = [i \in 1 .. Len(u) |-> u[i]] /\ v = [i \in 1 .. Len(v) |-> v[i]]
    BY <1>2, <1>3, LenProperties
  <2>2. Len(u) = Len(v)
    BY <1>2, <1>3
  <2> HIDE DEF u, v
  <2> QED
    BY <1>4, <2>1, <2>2
<1> QED
  BY <1>1, <1>5

-------------------------------------------------------------------------------
(* The loops. ApplyAll is a fold, which is defined by a recursive function   *)
(* on the sets of indices: that it exists and what it is on 1 .. m, by       *)
(* induction on the number of events.                                        *)

IsLoop(f, k, s, q, n) ==
  f = [T \in SUBSET (1 .. n) |->
         IF T = {} THEN s ELSE Apply(k, f[T \ {Max(T)}], q[Max(T)])]

LEMMA MaxOfInterval ==
  ASSUME NEW m \in Nat \ {0}
  PROVE  Max(1 .. m) = m
<1>1. 1 .. m \subseteq 0 .. m /\ 1 .. m # {}
  <2>1. 1 \in 1 .. m
    OBVIOUS
  <2> QED
    BY <2>1
<1>2. Max(1 .. m) \in 1 .. m /\ \A x \in 1 .. m : Max(1 .. m) >= x
  <2>1. \E x \in 1 .. m : \A y \in 1 .. m : x >= y
    BY <1>1, GreatestNat
  <2> QED
    BY <2>1 DEF Max
<1> QED
  BY <1>2

LEMMA LoopExists ==
  ASSUME NEW k, NEW s, NEW q, NEW n \in Nat
  PROVE  \E f : IsLoop(f, k, s, q, n)
<1> DEFINE Without == {m \in Nat : ~\E f : IsLoop(f, k, s, q, m)}
<1>1. CASE Without = {}
  BY <1>1
<1>2. CASE Without # {}
  <2>1. PICK m \in Without : \A j \in Without : m <= j
    <3>1. Without \subseteq Nat
      OBVIOUS
    <3> HIDE DEF Without
    <3> QED
      BY <1>2, <3>1, LeastNat
  <2>2. m # 0
    <3>1. IsLoop([T \in SUBSET (1 .. 0) |-> s], k, s, q, 0)
      <4>1. \A T \in SUBSET (1 .. 0) : T = {}
        OBVIOUS
      <4> QED
        BY <4>1 DEF IsLoop
    <3>2. 0 \notin Without
      BY <3>1
    <3> HIDE DEF Without
    <3> QED
      BY <3>2
  <2>3. m \in Nat /\ m - 1 \in Nat /\ m - 1 \notin Without
    <3>1. m \in Nat
      OBVIOUS
    <3> HIDE DEF Without
    <3> QED
      BY <2>1, <2>2, <3>1
  <2>4. PICK g : IsLoop(g, k, s, q, m - 1)
    BY <2>3
  <2> DEFINE f == [T \in SUBSET (1 .. m) |->
                     IF m \in T THEN Apply(k, g[T \ {m}], q[m]) ELSE g[T]]
  <2>5. ASSUME NEW T \in SUBSET (1 .. m)
        PROVE  f[T] = IF T = {} THEN s ELSE Apply(k, f[T \ {Max(T)}], q[Max(T)])
    <3>1. CASE m \in T
      <4>1. Max(T) = m
        <5>1. T \subseteq 0 .. m /\ T # {}
          BY <2>3, <3>1
        <5>2. Max(T) \in T /\ \A y \in T : Max(T) >= y
          BY <2>3, <5>1, GreatestNat DEF Max
        <5>3. Max(T) >= m /\ Max(T) \in 1 .. m
          BY <3>1, <5>2
        <5> QED
          BY <2>3, <5>3
      <4>2. T \ {m} \in SUBSET (1 .. m) /\ m \notin T \ {m}
        OBVIOUS
      <4>3. f[T \ {m}] = g[T \ {m}]
        BY <4>2
      <4> QED
        BY <3>1, <4>1, <4>3
    <3>2. CASE m \notin T
      <4>1. T \in SUBSET (1 .. m - 1)
        BY <2>3, <3>2
      <4>2. f[T] = g[T] /\ f[T \ {Max(T)}] = g[T \ {Max(T)}]
        BY <3>2
      <4>3. g[T] = IF T = {} THEN s ELSE Apply(k, g[T \ {Max(T)}], q[Max(T)])
        BY <2>4, <4>1 DEF IsLoop
      <4> QED
        BY <4>2, <4>3
    <3> QED
      BY <3>1, <3>2
  <2>6. IsLoop(f, k, s, q, m)
    <3>1. f = [T \in SUBSET (1 .. m) |-> f[T]]
      OBVIOUS
    <3>2. [T \in SUBSET (1 .. m) |-> f[T]]
            = [T \in SUBSET (1 .. m) |->
                 IF T = {} THEN s ELSE Apply(k, f[T \ {Max(T)}], q[Max(T)])]
      <4> HIDE DEF f
      <4> QED
        BY <2>5
    <3> HIDE DEF f
    <3> QED
      BY <3>1, <3>2 DEF IsLoop
  <2> QED
    BY <2>6
<1> QED
  BY <1>1, <1>2

\* The loop over all of q, seen as the last of its partial results.
IsTrace(g, k, s, q, n) ==
  /\ g[0] = s
  /\ \A m \in 1 .. n : g[m] = Apply(k, g[m - 1], q[m])

LEMMA ApplyAllTrace ==
  ASSUME NEW k, NEW s, NEW q, NEW n \in Nat, DOMAIN q = 1 .. n
  PROVE  \E g : IsTrace(g, k, s, q, n) /\ ApplyAll(k, s, q) = g[n]
<1> DEFINE f == CHOOSE f : IsLoop(f, k, s, q, n)
<1>1. ApplyAll(k, s, q) = f[1 .. n]
  BY DEF ApplyAll, FoldLeft, MapThenFoldSet, IsLoop
<1>2. IsLoop(f, k, s, q, n)
  BY LoopExists, Zenon
<1> HIDE DEF f
<1>3. /\ f[1 .. 0] = s
      /\ \A m \in 1 .. n : f[1 .. m] = Apply(k, f[1 .. m - 1], q[m])
  <2>1. f[1 .. 0] = s
    <3>1. 1 .. 0 = {} /\ {} \in SUBSET (1 .. n)
      OBVIOUS
    <3> QED
      BY <1>2, <3>1 DEF IsLoop
  <2>2. ASSUME NEW m \in 1 .. n PROVE f[1 .. m] = Apply(k, f[1 .. m - 1], q[m])
    <3>1. 1 .. m \in SUBSET (1 .. n) /\ 1 .. m # {}
      <4>1. 1 \in 1 .. m
        OBVIOUS
      <4>2. \A j \in 1 .. m : j \in 1 .. n
        OBVIOUS
      <4> QED
        BY <4>1, <4>2, Zenon
    <3>2. Max(1 .. m) = m
      BY MaxOfInterval
    <3>3. (1 .. m) \ {m} = 1 .. m - 1
      OBVIOUS
    <3>4. f[1 .. m] = Apply(k, f[(1 .. m) \ {Max(1 .. m)}], q[Max(1 .. m)])
      BY <1>2, <3>1, Zenon DEF IsLoop
    <3> QED
      BY <3>2, <3>3, <3>4
  <2> QED
    BY <2>1, <2>2
<1> DEFINE g == [m \in 0 .. n |-> f[1 .. m]]
<1>4. g[0] = s /\ g[n] = f[1 .. n]
  BY <1>3
<1>5. ASSUME NEW m \in 1 .. n PROVE g[m] = Apply(k, g[m - 1], q[m])
  <2>1. g[m] = f[1 .. m] /\ g[m - 1] = f[1 .. m - 1]
    OBVIOUS
  <2> QED
    BY <1>3, <2>1
<1>6. IsTrace(g, k, s, q, n)
  BY <1>4, <1>5 DEF IsTrace
<1> QED
  BY <1>1, <1>4, <1>6

LEMMA ApplyAllOfEmpty ==
  ASSUME NEW k, NEW s, NEW q, DOMAIN q = {}
  PROVE  ApplyAll(k, s, q) = s
<1> DEFINE n == 0
<1>1. n \in Nat /\ DOMAIN q = 1 .. n
  OBVIOUS
<1> HIDE DEF n
<1>2. PICK g : IsTrace(g, k, s, q, n) /\ ApplyAll(k, s, q) = g[n]
  BY <1>1, ApplyAllTrace, Z3
<1> QED
  BY <1>2 DEF IsTrace, n

\* One more turn of the loop.
LEMMA ApplyAllOneMore ==
  ASSUME NEW k, NEW s, NEW u, NEW v, NEW d \in Nat, NEW n \in Nat, n = d + 1,
         DOMAIN u = 1 .. d, DOMAIN v = 1 .. n,
         \A i \in 1 .. d : u[i] = v[i]
  PROVE  ApplyAll(k, s, v) = Apply(k, ApplyAll(k, s, u), v[n])
<1>1. PICK f : IsTrace(f, k, s, u, d) /\ ApplyAll(k, s, u) = f[d]
  BY ApplyAllTrace, Z3
<1>2. PICK g : IsTrace(g, k, s, v, n) /\ ApplyAll(k, s, v) = g[n]
  BY ApplyAllTrace, Z3
<1> DEFINE Differ == {m \in 0 .. d : f[m] # g[m]}
<1>3. Differ = {}
  <2> SUFFICES ASSUME Differ # {} PROVE FALSE
    OBVIOUS
  <2>1. PICK m \in Differ : \A j \in Differ : m <= j
    <3>1. Differ \subseteq Nat
      OBVIOUS
    <3> HIDE DEF Differ
    <3> QED
      BY <3>1, LeastNat
  <2>2. m \in 0 .. d /\ f[m] # g[m]
    OBVIOUS
  <2>3. m # 0
    BY <1>1, <1>2, <2>2 DEF IsTrace
  <2>4. m \in 1 .. d /\ m \in 1 .. n /\ m - 1 \in 0 .. d /\ m - 1 \notin Differ
    <3> HIDE DEF Differ
    <3> QED
      BY <2>1, <2>2, <2>3
  <2>5. f[m - 1] = g[m - 1]
    BY <2>4
  <2> HIDE DEF Differ
  <2>6. f[m] = Apply(k, f[m - 1], u[m]) /\ g[m] = Apply(k, g[m - 1], v[m])
    BY <1>1, <1>2, <2>4 DEF IsTrace
  <2> QED
    BY <2>2, <2>4, <2>5, <2>6
<1>4. f[d] = g[d]
  <2>1. d \in 0 .. d /\ d \notin Differ
    BY <1>3
  <2> QED
    BY <2>1
<1>5. g[n] = Apply(k, g[n - 1], v[n]) /\ n - 1 = d
  BY <1>2 DEF IsTrace
<1> QED
  BY <1>1, <1>2, <1>4, <1>5

\* An invariant of the loop: what holds after m events, by induction on m.
LEMMA LoopInduction ==
  ASSUME NEW k, NEW s, NEW q, NEW n \in Nat, DOMAIN q = 1 .. n,
         NEW P, s \in P[0],
         \A m \in 1 .. n : \A t \in P[m - 1] : Apply(k, t, q[m]) \in P[m]
  PROVE  ApplyAll(k, s, q) \in P[n]
<1>1. PICK f : IsTrace(f, k, s, q, n) /\ ApplyAll(k, s, q) = f[n]
  BY ApplyAllTrace, Z3
<1> DEFINE Out == {m \in 0 .. n : f[m] \notin P[m]}
<1>2. Out = {}
  <2> SUFFICES ASSUME Out # {} PROVE FALSE
    OBVIOUS
  <2>1. PICK m \in Out : \A j \in Out : m <= j
    <3>1. Out \subseteq Nat
      OBVIOUS
    <3> HIDE DEF Out
    <3> QED
      BY <3>1, LeastNat
  <2>2. m \in 0 .. n /\ f[m] \notin P[m]
    OBVIOUS
  <2>3. m # 0
    BY <1>1, <2>2 DEF IsTrace
  <2>4. m \in 1 .. n /\ m - 1 \in 0 .. n /\ m - 1 \notin Out
    <3> HIDE DEF Out
    <3> QED
      BY <2>1, <2>2, <2>3
  <2>5. f[m - 1] \in P[m - 1]
    BY <2>4
  <2> QED
    BY <1>1, <2>2, <2>4, <2>5 DEF IsTrace
<1>3. n \in 0 .. n /\ n \notin Out
  BY <1>2
<1> QED
  BY <1>1, <1>3

\* What every turn of the loop keeps, the loop keeps.
LEMMA ApplyAllKeeps ==
  ASSUME NEW k, NEW S, NEW s \in S, NEW q, NEW n \in Nat, DOMAIN q = 1 .. n,
         \A t \in S, i \in 1 .. n : Apply(k, t, q[i]) \in S
  PROVE  ApplyAll(k, s, q) \in S
<1> DEFINE P == [m \in 0 .. n |-> S]
<1>1. s \in P[0] /\ P[n] = S
  OBVIOUS
<1>2. \A m \in 1 .. n : \A t \in P[m - 1] : Apply(k, t, q[m]) \in P[m]
  OBVIOUS
<1> HIDE DEF P
<1>3. ApplyAll(k, s, q) \in P[n]
  BY <1>1, <1>2, LoopInduction
<1> QED
  BY <1>1, <1>3

-------------------------------------------------------------------------------
(* The deques.                                                              *)

LEMMA EventHasTrigger ==
  ASSUME NEW k \in Kinds, NEW e \in EventType[k]
  PROVE  e.trigger_value \in Nat \ {0}
<1>1. k \in {"ssrc", "timestamp", "codec", "sequence", "pause", "transport"}
  BY DEF Kinds
<1>2. CASE k = "ssrc"
  BY <1>2 DEF EventType, EventsWith, Triggers
<1>3. CASE k = "timestamp"
  BY <1>3 DEF EventType, EventsWith, Triggers
<1>4. CASE k = "codec"
  BY <1>4 DEF EventType, EventsWith, Triggers
<1>5. CASE k = "sequence"
  BY <1>5 DEF EventType, EventsWith, Triggers
<1>6. CASE k = "pause"
  BY <1>6 DEF EventType, EventsWith, Triggers
<1>7. CASE k = "transport"
  BY <1>7 DEF EventType, EventsWith, Triggers
<1> QED
  BY <1>1, <1>2, <1>3, <1>4, <1>5, <1>6, <1>7

\* What the while loop of tick() consumes: all the events at the front whose
\* trigger is reached, and no other.
LEMMA DueCountIsLoopExit ==
  ASSUME NEW q, Len(q) \in Nat, NEW now
  PROVE  /\ DueCount(q, now) \in 0 .. Len(q)
         /\ \A i \in 1 .. DueCount(q, now) : TriggerReached(q[i], now)
         /\ DueCount(q, now) < Len(q) => ~TriggerReached(q[DueCount(q, now) + 1], now)
<1> DEFINE Stops == {n \in 0 .. Len(q) : n < Len(q) => ~TriggerReached(q[n + 1], now)}
<1>1. PICK n \in Stops : \A m \in Stops : n <= m
  <2>1. Len(q) \in Stops
    OBVIOUS
  <2>2. Stops \subseteq Nat
    OBVIOUS
  <2> HIDE DEF Stops
  <2> QED
    BY <2>1, <2>2, LeastNat
<1>2. \A i \in 1 .. n : TriggerReached(q[i], now)
  <2> TAKE i \in 1 .. n
  <2>1. i - 1 \in 0 .. Len(q) /\ i - 1 < Len(q) /\ (i - 1) + 1 = i
    OBVIOUS
  <2>2. i - 1 \notin Stops
    <3>1. n \in Nat /\ \A m \in Stops : n <= m
      BY <1>1
    <3> HIDE DEF Stops
    <3> QED
      BY <3>1
  <2> QED
    BY <2>1, <2>2
<1> QED
  BY <1>1, <1>2 DEF DueCount

\* Sorting a deque permutes it.
LEMMA SortedDeque ==
  ASSUME NEW S, NEW q \in Seq(S), NEW s \in SortByTrigger(q)
  PROVE  s \in Seq(S) /\ SortedByTrigger(s)
<1>1. PICK p \in Bijection(DOMAIN q, DOMAIN q) : s = [i \in DOMAIN q |-> q[p[i]]]
  BY DEF SortByTrigger
<1>2. p \in [DOMAIN q -> DOMAIN q]
  BY <1>1 DEF Bijection, Injection
<1>3. s \in [1 .. Len(q) -> S]
  BY <1>1, <1>2, LenProperties
<1> QED
  BY <1>3, LenProperties, IsASeq DEF SortByTrigger

LEMMA PauseLengthType ==
  ASSUME NEW q \in Seq(EventType["pause"])
  PROVE  PauseLength(q) \in Nat
<1>1. CASE Pauses(q) = {}
  BY <1>1 DEF PauseLength
<1>2. CASE Pauses(q) # {}
  <2>1. Pauses(q) \subseteq 0 .. Len(q) /\ Len(q) \in Nat
    BY LenProperties DEF Pauses
  <2>2. Max(Pauses(q)) \in Pauses(q)
    BY <1>2, <2>1, MaxOfIndices
  <2>3. \A i \in DOMAIN q : q[i].ms_to_pause \in Option(UInt32)
    <3>1. \A e \in EventType["pause"] : e.ms_to_pause \in Option(UInt32)
      BY DEF EventType, EventsWith
    <3> QED
      BY <3>1, LenProperties, ElementOfSeq
  <2> QED
    BY <1>2, <2>2, <2>3 DEF PauseLength, Pauses, Option, UInt32
<1> QED
  BY <1>1, <1>2

-------------------------------------------------------------------------------
(* The invariant: the deques are sorted for good, and the clock the triggers *)
(* are compared with never runs backwards.                                  *)

ScriptSorted == \A k \in Kinds : SortedByTrigger(script[k])

EngineInv == CountersTypeOK /\ ScriptSorted /\ PendingIsFuture

LEMMA EngineInit_Inv == EngineInit => EngineInv
<1> SUFFICES ASSUME EngineInit PROVE EngineInv
  OBVIOUS
<1>1. opts \in Scenarios /\ \A k \in Kinds : opts.changes[k] \in Seq(EventType[k])
  BY ScenariosAssumption DEF EngineInit, IsScenario
<1>2. /\ DOMAIN script = Kinds
      /\ \A k \in Kinds : script[k] \in SortByTrigger(opts.changes[k])
  BY DEF EngineInit, Kinds
<1>3. \A k \in Kinds : script[k] \in Seq(EventType[k]) /\ SortedByTrigger(script[k])
  BY <1>1, <1>2, SortedDeque
<1>4. CountersTypeOK
  BY <1>1, <1>2, <1>3 DEF EngineInit, CountersTypeOK
<1>5. Now = 0
  BY DEF EngineInit, Now
<1>6. ASSUME NEW k \in Kinds
      PROVE  /\ Consumed(k) = 0
             /\ pending[k] = SubSeq(script[k], 1, Len(script[k]))
             /\ \A i \in DOMAIN script[k] : i > 0 /\ script[k][i].trigger_value > 0
  <2>1. script[k] \in Seq(EventType[k]) /\ pending[k] = script[k]
    BY <1>3 DEF EngineInit
  <2>2. /\ DOMAIN script[k] = 1 .. Len(script[k]) /\ Len(script[k]) \in Nat
        /\ \A i \in 1 .. Len(script[k]) : script[k][i] \in EventType[k]
    BY <2>1, LenProperties, ElementOfSeq
  <2>3. script[k] = SubSeq(script[k], 1, Len(script[k]))
    BY <2>1, <2>2
  <2>4. \A i \in DOMAIN script[k] : script[k][i].trigger_value \in Nat \ {0}
    BY <2>2, EventHasTrigger
  <2> QED
    BY <2>1, <2>2, <2>3, <2>4 DEF Consumed
<1>7. PendingIsFuture
  <2> SUFFICES ASSUME NEW k \in Kinds
               PROVE  /\ Consumed(k) \in 0 .. Len(script[k])
                      /\ pending[k] = SubSeq(script[k], Consumed(k) + 1, Len(script[k]))
                      /\ \A i \in DOMAIN script[k] :
                           i <= Consumed(k) <=> script[k][i].trigger_value <= Now
    BY DEF PendingIsFuture
  <2>1. Len(script[k]) \in Nat /\ DOMAIN script[k] = 1 .. Len(script[k])
    BY <1>3, LenProperties
  <2>2. \A i \in DOMAIN script[k] : script[k][i].trigger_value \in Nat
    BY <1>3, EventHasTrigger, ElementOfSeq, LenProperties
  <2> QED
    BY <1>5, <1>6, <2>1, <2>2
<1> QED
  BY <1>3, <1>4, <1>7 DEF EngineInv, ScriptSorted

\* The arithmetic of consuming the events a later clock has reached.
LEMMA ConsumedIsReached ==
  ASSUME NEW n \in Nat, NEW t \in [1 .. n -> Nat], NEW c \in 0 .. n,
         NEW d \in 0 .. n - c, NEW now \in Nat, NEW later \in Nat, now <= later,
         \A i, j \in 1 .. n : i < j => t[i] <= t[j],
         \A i \in 1 .. n : i <= c <=> t[i] <= now,
         \A i \in 1 .. d : later >= t[c + i],
         c + d < n => ~(later >= t[c + d + 1])
  PROVE  \A i \in 1 .. n : i <= c + d <=> t[i] <= later
<1> TAKE i \in 1 .. n
<1>1. CASE i <= c
  <2>1. t[i] <= now /\ t[i] \in Nat
    BY <1>1
  <2> QED
    BY <1>1, <2>1
<1>2. CASE c < i /\ i <= c + d
  <2>1. i - c \in 1 .. d /\ c + (i - c) = i
    BY <1>2
  <2>2. later >= t[i]
    BY <2>1
  <2> QED
    BY <1>2, <2>2
<1>3. CASE c + d < i
  <2>1. c + d + 1 \in 1 .. n
    BY <1>3
  <2>2. t[c + d + 1] > later /\ t[c + d + 1] \in Nat
    BY <1>3, <2>1
  <2>3. t[c + d + 1] <= t[i] /\ t[i] \in Nat
    BY <1>3, <2>1
  <2> QED
    BY <1>3, <2>2, <2>3
<1> QED
  BY <1>1, <1>2, <1>3

LEMMA TickDeques ==
  ASSUME EngineInv, NEW delta \in Nat, Tick(delta), NEW k \in Kinds
  PROVE  LET c == Consumed(k)
             d == DueCount(pending[k], Now')
         IN  /\ c \in 0 .. Len(script[k])
             /\ d \in 0 .. Len(script[k]) - c
             /\ pending'[k] = SubSeq(script[k], c + d + 1, Len(script[k]))
             /\ pending'[k] \in Seq(EventType[k])
             /\ Len(pending'[k]) = Len(script[k]) - c - d
             /\ \A i \in 1 .. d : TriggerReached(script[k][c + i], Now')
             /\ c + d < Len(script[k]) => ~TriggerReached(script[k][c + d + 1], Now')
<1> DEFINE c == Consumed(k)
           q == pending[k]
           d == DueCount(q, Now')
<1>1. script[k] \in Seq(EventType[k]) /\ q \in Seq(EventType[k])
  BY DEF EngineInv, CountersTypeOK
<1>2. c \in 0 .. Len(script[k]) /\ q = SubSeq(script[k], c + 1, Len(script[k]))
  BY DEF EngineInv, PendingIsFuture
<1>3. Len(q) = Len(script[k]) - c /\ \A i \in 1 .. Len(q) : q[i] = script[k][c + i]
  <2>1. 0 \in 0 .. Len(script[k]) - c
    BY <1>1, <1>2, LenProperties
  <2> HIDE DEF c
  <2> QED
    BY <1>1, <1>2, <2>1, SuffixOfSuffix
<1>4. /\ d \in 0 .. Len(q)
      /\ \A i \in 1 .. d : TriggerReached(q[i], Now')
      /\ d < Len(q) => ~TriggerReached(q[d + 1], Now')
  <2>1. Len(q) \in Nat
    BY <1>1, LenProperties
  <2> QED
    BY <2>1, DueCountIsLoopExit
<1>5. pending'[k] = SubSeq(q, d + 1, Len(q))
  BY DEF Tick, Remaining
<1>6. Len(script[k]) \in Nat /\ Len(q) \in Nat
  BY <1>1, LenProperties
<1> HIDE DEF c, q, d
<1>7. c \in Nat /\ d \in 0 .. Len(script[k]) - c
  BY <1>2, <1>3, <1>4
<1>8. pending'[k] = SubSeq(script[k], c + d + 1, Len(script[k]))
  <2>1. SubSeq(q, d + 1, Len(q)) = SubSeq(script[k], c + d + 1, Len(script[k]))
    BY <1>1, <1>2, <1>7, SuffixOfSuffix
  <2> QED
    BY <1>5, <2>1
<1>9. pending'[k] \in Seq(EventType[k]) /\ Len(pending'[k]) = Len(script[k]) - c - d
  <2>1. c + d \in 0 .. Len(script[k]) /\ 0 \in 0 .. Len(script[k]) - (c + d)
    BY <1>2, <1>6, <1>7
  <2>2. Len(script[k]) - (c + d) = Len(script[k]) - c - d
    BY <1>6, <1>7
  <2> QED
    BY <1>1, <1>8, <2>1, <2>2, SuffixOfSuffix
<1>10. \A i \in 1 .. d : TriggerReached(script[k][c + i], Now')
  <2> TAKE i \in 1 .. d
  <2>1. i \in 1 .. Len(q)
    BY <1>4, <1>6
  <2> QED
    BY <1>3, <1>4, <2>1
<1>11. c + d < Len(script[k]) => ~TriggerReached(script[k][c + d + 1], Now')
  <2> HAVE c + d < Len(script[k])
  <2>1. d < Len(q) /\ d + 1 \in 1 .. Len(q) /\ c + (d + 1) = c + d + 1
    BY <1>3, <1>6, <1>7
  <2> QED
    BY <1>3, <1>4, <2>1
<1> QED
  BY <1>2, <1>7, <1>8, <1>9, <1>10, <1>11 DEF c, q, d

LEMMA TickTypes ==
  ASSUME EngineInv, NEW delta \in Nat, Tick(delta)
  PROVE  CountersTypeOK' /\ Now \in Nat /\ Now' \in Nat /\ Now <= Now'
<1>1. /\ packet_count' = packet_count + 1
      /\ elapsed_ms' = elapsed_ms + ms_to_pause + delta
      /\ opts' = opts /\ script' = script
  BY DEF Tick, ElapsedAfter
<1>2. packet_count' \in Nat /\ elapsed_ms' \in Nat
  BY <1>1 DEF EngineInv, CountersTypeOK
<1>3. \A k \in Kinds : pending'[k] \in Seq(EventType[k])
  BY TickDeques
<1>4. DOMAIN pending' = Kinds
  BY DEF Tick
<1>5. ms_to_pause' \in Nat
  <2> DEFINE due == Due(pending.pause, Now')
  <2>1. ms_to_pause' = PauseLength(due)
    BY DEF Tick, Kinds
  <2>2. pending.pause \in Seq(EventType["pause"])
    BY DEF EngineInv, CountersTypeOK, Kinds
  <2>3. DueCount(pending.pause, Now') \in 0 .. Len(pending.pause)
    BY <2>2, LenProperties, DueCountIsLoopExit
  <2>4. due \in Seq(EventType["pause"])
    BY <2>2, <2>3, PrefixIsSeq DEF Due
  <2> QED
    BY <2>1, <2>4, PauseLengthType
<1>6. is_paused' \in BOOLEAN
  BY DEF Tick
<1> QED
  BY <1>1, <1>2, <1>3, <1>4, <1>5, <1>6 DEF EngineInv, CountersTypeOK, Now

LEMMA Tick_Inv ==
  ASSUME EngineInv, NEW delta \in Nat, Tick(delta)
  PROVE  EngineInv'
<1>1. CountersTypeOK' /\ Now \in Nat /\ Now' \in Nat /\ Now <= Now' /\ script' = script
  BY TickTypes DEF Tick
<1>2. ASSUME NEW k \in Kinds
      PROVE  /\ Consumed(k)' \in 0 .. Len(script[k])
             /\ pending'[k] = SubSeq(script[k], Consumed(k)' + 1, Len(script[k]))
             /\ \A i \in DOMAIN script[k] :
                  i <= Consumed(k)' <=> script[k][i].trigger_value <= Now'
  <2> DEFINE c == Consumed(k)
             d == DueCount(pending[k], Now')
  <2>1. /\ c \in 0 .. Len(script[k])
        /\ d \in 0 .. Len(script[k]) - c
        /\ pending'[k] = SubSeq(script[k], c + d + 1, Len(script[k]))
        /\ Len(pending'[k]) = Len(script[k]) - c - d
        /\ \A i \in 1 .. d : TriggerReached(script[k][c + i], Now')
        /\ c + d < Len(script[k]) => ~TriggerReached(script[k][c + d + 1], Now')
    BY TickDeques
  <2>2. /\ Len(script[k]) \in Nat
        /\ DOMAIN script[k] = 1 .. Len(script[k])
        /\ \A i \in DOMAIN script[k] : script[k][i].trigger_value \in Nat
    BY EventHasTrigger, LenProperties, ElementOfSeq DEF EngineInv, CountersTypeOK
  <2>3. \A i \in DOMAIN script[k] : i <= c <=> script[k][i].trigger_value <= Now
    BY DEF EngineInv, PendingIsFuture
  <2>4. \A i, j \in DOMAIN script[k] :
          i < j => script[k][i].trigger_value <= script[k][j].trigger_value
    BY DEF EngineInv, ScriptSorted, SortedByTrigger
  <2>5. Consumed(k)' = Len(script[k]) - Len(pending'[k])
    BY <1>1 DEF Consumed
  <2> HIDE DEF c, d
  <2>6. c \in Nat /\ d \in Nat /\ c + d \in 0 .. Len(script[k])
    BY <2>1, <2>2
  <2>7. Consumed(k)' = c + d
    <3>1. Len(pending'[k]) = Len(script[k]) - c - d
      BY <2>1
    <3>2. Len(script[k]) - (Len(script[k]) - c - d) = c + d
      BY <2>2, <2>6, Difference
    <3> QED
      BY <2>5, <3>1, <3>2
  <2>8. \A i \in DOMAIN script[k] :
          i <= c + d <=> script[k][i].trigger_value <= Now'
    <3> DEFINE t == [i \in 1 .. Len(script[k]) |-> script[k][i].trigger_value]
    <3>1. t \in [1 .. Len(script[k]) -> Nat]
      BY <2>2
    <3>2. \A i, j \in 1 .. Len(script[k]) : i < j => t[i] <= t[j]
      BY <2>2, <2>4
    <3>3. \A i \in 1 .. Len(script[k]) : i <= c <=> t[i] <= Now
      BY <2>2, <2>3
    <3>4. \A i \in 1 .. d : Now' >= t[c + i]
      <4> TAKE i \in 1 .. d
      <4>1. c + i \in 1 .. Len(script[k])
        BY <2>2, <2>6
      <4> QED
        BY <2>1, <4>1 DEF TriggerReached
    <3>5. c + d < Len(script[k]) => ~(Now' >= t[c + d + 1])
      <4> HAVE c + d < Len(script[k])
      <4>1. c + d + 1 \in 1 .. Len(script[k])
        BY <2>2, <2>6
      <4> QED
        BY <2>1, <4>1 DEF TriggerReached
    <3>6. \A i \in 1 .. Len(script[k]) : t[i] = script[k][i].trigger_value
      OBVIOUS
    <3> HIDE DEF t
    <3>7. \A i \in 1 .. Len(script[k]) : i <= c + d <=> t[i] <= Now'
      BY <1>1, <2>1, <2>2, <3>1, <3>2, <3>3, <3>4, <3>5, ConsumedIsReached
    <3> QED
      BY <2>2, <3>6, <3>7
  <2> QED
    BY <2>1, <2>6, <2>7, <2>8
<1>3. PendingIsFuture'
  BY <1>1, <1>2 DEF PendingIsFuture
<1>4. ScriptSorted'
  BY <1>1 DEF EngineInv, ScriptSorted
<1> QED
  BY <1>1, <1>3, <1>4 DEF EngineInv

LEMMA EngineStutter_Inv ==
  ASSUME EngineInv, UNCHANGED engineVars
  PROVE  EngineInv'
BY DEF EngineInv, CountersTypeOK, ScriptSorted, PendingIsFuture, Consumed, Now, engineVars

LEMMA Engine_Invariance == EngineSpec => []EngineInv
<1>1. EngineInv /\ [EngineNext]_engineVars => EngineInv'
  <2> SUFFICES ASSUME EngineInv, [EngineNext]_engineVars PROVE EngineInv'
    OBVIOUS
  <2>1. ASSUME NEW delta \in Deltas, Tick(delta) PROVE EngineInv'
    BY <2>1, Tick_Inv, BoundsAssumption, WidthsAssumption
  <2> QED
    BY <2>1, EngineStutter_Inv DEF EngineNext, BoundReached
<1> QED
  BY <1>1, EngineInit_Inv, PTL DEF EngineSpec

\* The counters, the pause and the deques keep their types.
THEOREM EngineCountersTypeCorrect == EngineSpec => []CountersTypeOK
<1>1. EngineInv => CountersTypeOK
  BY DEF EngineInv
<1> QED
  BY <1>1, Engine_Invariance, PTL

\* For every scenario each event fires in the first tick that reaches its
\* trigger, once, whatever the deltas, the pauses and the order of equal triggers.
THEOREM EngineFiresOnTime == EngineSpec => []PendingIsFuture
<1>1. EngineInv => PendingIsFuture
  BY DEF EngineInv
<1> QED
  BY <1>1, Engine_Invariance, PTL

-------------------------------------------------------------------------------
(* Remainders, for any width.                                               *)

LEMMA Remainder ==
  ASSUME NEW a \in Int, NEW m \in Nat \ {0}
  PROVE  a \div m \in Int /\ a % m \in 0 .. m - 1 /\ a = m * (a \div m) + (a % m)
OBVIOUS

LEMMA RemainderUnique ==
  ASSUME NEW a \in Int, NEW m \in Nat \ {0}, NEW n \in Int, NEW r \in 0 .. m - 1,
         a = m * n + r
  PROVE  a % m = r
OBVIOUS

\* A number may wrap after every step or once at the end.
LEMMA WrapTwice ==
  ASSUME NEW a \in Int, NEW b \in Int, NEW m \in Nat \ {0}
  PROVE  ((a % m) + b) % m = (a + b) % m
<1> DEFINE p == a \div m
           r == a % m
           u == (r + b) \div m
           v == (r + b) % m
<1>1. p \in Int /\ r \in 0 .. m - 1 /\ a = m * p + r
  BY Remainder
<1>2. u \in Int /\ v \in 0 .. m - 1 /\ r + b = m * u + v
  <2>1. r + b \in Int
    BY <1>1
  <2> HIDE DEF r
  <2> QED
    BY <2>1, Remainder
<1> HIDE DEF p, r, u, v
<1>3. a + b = m * (p + u) + v
  <2>1. m * (p + u) = m * p + m * u
    BY <1>1, <1>2
  <2> QED
    BY <1>1, <1>2, <2>1
<1>4. (a + b) % m = v
  <2> DEFINE c == a + b
             n == p + u
  <2>1. c \in Int /\ n \in Int /\ c = m * n + v
    BY <1>1, <1>2, <1>3
  <2> HIDE DEF c, n
  <2>2. c % m = v
    BY <1>2, <2>1, RemainderUnique
  <2> QED
    BY <2>2 DEF c
<1> QED
  BY <1>4 DEF v, r

-------------------------------------------------------------------------------
(* The fields. A reset writes a value because the events of a scenario that  *)
(* reset have one, which the script keeps however it was sorted.            *)

ScriptResets ==
  \A k \in Kinds : \A i \in DOMAIN script[k] : ResetsHaveValue(k, script[k][i])

FieldsInv == FieldsTypeOK /\ ScriptResets

LEMMA ModuloType ==
  ASSUME NEW a \in Int
  PROVE  a % SeqSpace \in Seqs /\ a % TsSpace \in Timestamps
BY WidthsAssumption DEF Seqs, Timestamps

LEMMA StepType ==
  ASSUME opts \in Scenarios
  PROVE  opts.timestamp_step_size \in Nat
BY ScenariosAssumption DEF IsScenario, OptionsComplete, UInt32

LEMMA StepsType ==
  ASSUME opts \in Scenarios, NEW n \in Int
  PROVE  n * opts.timestamp_step_size \in Int
BY StepType

LEMMA AdvanceType ==
  ASSUME opts \in Scenarios, NEW s \in RtpType
  PROVE  Advance(s) \in RtpType
<1>1. s.seq + 1 \in Int /\ s.timestamp + opts.timestamp_step_size \in Int
  BY StepType, WidthsAssumption DEF RtpType, Seqs, Timestamps
<1>2. /\ (s.seq + 1) % SeqSpace \in Seqs
      /\ (s.timestamp + opts.timestamp_step_size) % TsSpace \in Timestamps
  BY <1>1, ModuloType
<1> QED
  BY <1>2 DEF Advance, RtpType

LEMMA ApplySsrcType ==
  ASSUME NEW s \in RtpType, NEW e \in EventType["ssrc"], ResetsHaveValue("ssrc", e)
  PROVE  ApplySsrc(s, e) \in RtpType
<1>1. /\ e.new_ssrc \in Option(UInt32)
      /\ e.seq_to_continue \in Option(Seqs)
      /\ e.timestamp_to_continue \in Option(Timestamps)
  BY DEF EventType, EventsWith
<1>2. /\ e.continue_seq = FALSE => e.seq_to_continue # NONE
      /\ e.continue_timestamp = FALSE => e.timestamp_to_continue # NONE
  BY DEF ResetsHaveValue, Resettable
<1> QED
  BY <1>1, <1>2 DEF ApplySsrc, RtpType, ValueOr, Continue, Option

LEMMA ApplyTimestampType ==
  ASSUME opts \in Scenarios, NEW s \in RtpType,
         NEW e \in EventType["timestamp"], ResetsHaveValue("timestamp", e)
  PROVE  ApplyTimestamp(s, e) \in RtpType
<1>1. /\ e.new_timestamp \in Option(Timestamps)
      /\ e.steps_to_jump \in Option(Int16)
      /\ e.seq_to_continue \in Option(Seqs)
  BY DEF EventType, EventsWith
<1>2. e.continue_seq = FALSE => e.seq_to_continue # NONE
  BY DEF ResetsHaveValue, Resettable
<1>3. ASSUME NEW t \in Timestamps
      PROVE  JumpTimestamp(t, e.steps_to_jump) \in Timestamps
  <2>1. CASE e.steps_to_jump = NONE
    BY <2>1 DEF JumpTimestamp
  <2>2. CASE e.steps_to_jump # NONE
    <3>1. e.steps_to_jump * opts.timestamp_step_size \in Int /\ t \in Int
      BY <1>1, <2>2, StepsType, WidthsAssumption DEF Option, Int16, Timestamps
    <3>2. t + e.steps_to_jump * opts.timestamp_step_size \in Int
      BY <3>1
    <3> QED
      BY <2>2, <3>2, ModuloType DEF JumpTimestamp
  <2> QED
    BY <2>1, <2>2
<1>4. ValueOr(e.new_timestamp, s.timestamp) \in Timestamps
  BY <1>1 DEF ValueOr, Option, RtpType
<1>5. Continue(e.continue_seq, e.seq_to_continue, s.seq) \in Seqs
  BY <1>1, <1>2 DEF Continue, Option, RtpType
<1>6. JumpTimestamp(ValueOr(e.new_timestamp, s.timestamp), e.steps_to_jump) \in Timestamps
  BY <1>3, <1>4
<1> QED
  BY <1>5, <1>6 DEF ApplyTimestamp, RtpType

LEMMA ApplyCodecType ==
  ASSUME NEW s \in RtpType, NEW e \in EventType["codec"], ResetsHaveValue("codec", e)
  PROVE  ApplyCodec(s, e) \in RtpType
<1>1. /\ e.new_codec \in Option(UInt8) /\ e.new_clockrate \in Option(UInt16)
      /\ e.ssrc_to_continue \in Option(UInt32)
      /\ e.seq_to_continue \in Option(Seqs)
      /\ e.timestamp_to_continue \in Option(Timestamps)
  BY DEF EventType, EventsWith
<1>2. /\ e.continue_ssrc = FALSE => e.ssrc_to_continue # NONE
      /\ e.continue_seq = FALSE => e.seq_to_continue # NONE
      /\ e.continue_timestamp = FALSE => e.timestamp_to_continue # NONE
  BY DEF ResetsHaveValue, Resettable
<1> QED
  BY <1>1, <1>2 DEF ApplyCodec, RtpType, ValueOr, Continue, Option

LEMMA ApplySequenceType ==
  ASSUME NEW s \in RtpType, NEW e \in EventType["sequence"]
  PROVE  ApplySequence(s, e) \in RtpType
<1>1. e.seq_to_jump \in Option(Int16)
  BY DEF EventType, EventsWith
<1>2. CASE e.seq_to_jump = NONE
  BY <1>2 DEF ApplySequence, RtpType
<1>3. CASE e.seq_to_jump # NONE
  <2>1. s.seq + e.seq_to_jump \in Int
    BY <1>1, <1>3, WidthsAssumption DEF Option, Int16, RtpType, Seqs
  <2>2. (s.seq + e.seq_to_jump) % SeqSpace \in Seqs
    BY <2>1, ModuloType
  <2> QED
    BY <1>3, <2>2 DEF ApplySequence, RtpType
<1> QED
  BY <1>2, <1>3

LEMMA ApplyTransportType ==
  ASSUME NEW s \in TransportType, NEW e \in EventType["transport"]
  PROVE  ApplyTransport(s, e) \in TransportType
<1>1. /\ e.new_dest_ip \in Option(Nat) /\ e.new_dest_port \in Option(UInt16)
      /\ e.new_source_port \in Option(UInt16)
  BY DEF EventType, EventsWith
<1>2. 0 \in UInt16
  BY DEF UInt16
<1> QED
  BY <1>1, <1>2 DEF ApplyTransport, TransportType, ValueOr, Option

\* Any event keeps the types of the fields of its kind.
LEMMA ApplyType ==
  ASSUME opts \in Scenarios, NEW k \in Kinds \ {"pause", "transport"},
         NEW s \in RtpType, NEW e \in EventType[k], ResetsHaveValue(k, e)
  PROVE  Apply(k, s, e) \in RtpType
<1>1. CASE k = "ssrc"
  BY <1>1, ApplySsrcType DEF Apply
<1>2. CASE k = "timestamp"
  BY <1>2, ApplyTimestampType DEF Apply
<1>3. CASE k = "codec"
  BY <1>3, ApplyCodecType DEF Apply
<1>4. CASE k = "sequence"
  BY <1>4, ApplySequenceType DEF Apply
<1> QED
  BY <1>1, <1>2, <1>3, <1>4 DEF Kinds

\* The events a tick applies are those of the script it consumes.
LEMMA DueIsScript ==
  ASSUME EngineInv, NEW delta \in Nat, Tick(delta), NEW k \in Kinds
  PROVE  LET q == Due(pending[k], Now')
             c == Consumed(k)
             d == DueCount(pending[k], Now')
         IN  /\ d \in Nat /\ c \in Nat /\ c + d <= Len(script[k])
             /\ DOMAIN q = 1 .. d
             /\ q \in Seq(EventType[k])
             /\ \A i \in 1 .. d : c + i \in DOMAIN script[k] /\ q[i] = script[k][c + i]
             /\ Consumed(k)' = c + d
<1> DEFINE c == Consumed(k)
           p == pending[k]
           d == DueCount(p, Now')
           q == SubSeq(p, 1, d)
<1>1. script[k] \in Seq(EventType[k]) /\ p \in Seq(EventType[k])
  BY DEF EngineInv, CountersTypeOK
<1>2. c \in 0 .. Len(script[k]) /\ p = SubSeq(script[k], c + 1, Len(script[k]))
  BY DEF EngineInv, PendingIsFuture
<1>3. Len(script[k]) \in Nat /\ Len(p) \in Nat /\ DOMAIN script[k] = 1 .. Len(script[k])
  BY <1>1, LenProperties
<1>4. Len(p) = Len(script[k]) - c /\ \A i \in 1 .. Len(p) : p[i] = script[k][c + i]
  <2>1. 0 \in 0 .. Len(script[k]) - c
    BY <1>2, <1>3
  <2> HIDE DEF c, p
  <2> QED
    BY <1>1, <1>2, <2>1, SuffixOfSuffix
<1>5. d \in 0 .. Len(p)
  BY <1>3, DueCountIsLoopExit
<1>6. q \in Seq(EventType[k])
  <2> HIDE DEF d, p
  <2> QED
    BY <1>1, <1>5, PrefixIsSeq
<1>7. DOMAIN q = 1 .. d /\ \A i \in 1 .. d : q[i] = p[i]
  <2> HIDE DEF d, p
  <2> QED
    BY <1>1, <1>3, <1>5, SubSeqProperties
<1>8. script' = script /\ Len(pending'[k]) = Len(script[k]) - c - d
  BY TickDeques DEF Tick
<1> HIDE DEF c, d, p, q
<1>9. c \in Nat /\ d \in Nat /\ c + d <= Len(script[k])
  BY <1>2, <1>3, <1>4, <1>5
<1>10. Consumed(k)' = c + d
  <2>1. Consumed(k)' = Len(script[k]) - (Len(script[k]) - c - d)
    BY <1>8 DEF Consumed
  <2> QED
    BY <1>3, <1>9, <2>1, Difference
<1>11. \A i \in 1 .. d : c + i \in DOMAIN script[k] /\ q[i] = script[k][c + i]
  BY <1>3, <1>4, <1>5, <1>7, <1>9
<1>12. q = Due(pending[k], Now')
  BY DEF q, d, p, Due
<1> QED
  BY <1>6, <1>7, <1>9, <1>10, <1>11, <1>12 DEF c, d, p

LEMMA TickFields ==
  ASSUME EngineInv, FieldsInv, NEW delta \in Nat, Tick(delta)
  PROVE  FieldsInv'
<1>1. opts \in Scenarios /\ opts' = opts /\ script' = script
  BY DEF EngineInv, CountersTypeOK, Tick
<1> DEFINE due == [k \in Kinds |-> Due(pending[k], Now')]
<1>2. /\ rtp' = ApplyRtpChanges(Advance(rtp), due)
      /\ transport' = ApplyTransportChanges(transport, due)
  BY DEF Tick
<1>3. ASSUME NEW k \in Kinds
      PROVE  \E d \in Nat :
               /\ DOMAIN due[k] = 1 .. d
               /\ \A i \in 1 .. d : due[k][i] \in EventType[k] /\ ResetsHaveValue(k, due[k][i])
  <2> DEFINE q == Due(pending[k], Now')
             d == DueCount(pending[k], Now')
  <2>1. /\ d \in Nat /\ DOMAIN q = 1 .. d /\ q \in Seq(EventType[k])
        /\ \A i \in 1 .. d : \E j \in DOMAIN script[k] : q[i] = script[k][j]
    BY DueIsScript
  <2>2. due[k] = q
    OBVIOUS
  <2> HIDE DEF q, d, due
  <2>3. \A i \in 1 .. d : q[i] \in EventType[k]
    <3>1. \A i \in 1 .. Len(q) : q[i] \in EventType[k]
      BY <2>1, ElementOfSeq
    <3>2. DOMAIN q = 1 .. Len(q)
      BY <2>1, LenProperties
    <3> QED
      BY <2>1, <3>1, <3>2
  <2>4. \A i \in 1 .. d : ResetsHaveValue(k, q[i])
    BY <2>1 DEF FieldsInv, ScriptResets
  <2> QED
    BY <2>1, <2>2, <2>3, <2>4
<1> HIDE DEF due
<1>4. ASSUME NEW k \in Kinds \ {"pause", "transport"}, NEW s \in RtpType
      PROVE  ApplyAll(k, s, due[k]) \in RtpType
  <2>1. PICK d \in Nat :
          /\ DOMAIN due[k] = 1 .. d
          /\ \A i \in 1 .. d : due[k][i] \in EventType[k] /\ ResetsHaveValue(k, due[k][i])
    BY <1>3
  <2> DEFINE q == due[k]
  <2>2. DOMAIN q = 1 .. d /\ \A t \in RtpType, i \in 1 .. d : Apply(k, t, q[i]) \in RtpType
    BY <1>1, <2>1, ApplyType
  <2> HIDE DEF q
  <2>3. ApplyAll(k, s, q) \in RtpType
    BY <2>2, ApplyAllKeeps
  <2> QED
    BY <2>3 DEF q
<1>5. rtp' \in RtpType
  <2>1. Advance(rtp) \in RtpType
    BY <1>1, AdvanceType DEF FieldsInv, FieldsTypeOK, RtpType
  <2>2. {"ssrc", "timestamp", "codec", "sequence"} \subseteq Kinds \ {"pause", "transport"}
    BY DEF Kinds
  <2>3. ApplyAll("ssrc", Advance(rtp), due.ssrc) \in RtpType
    BY <1>4, <2>1, <2>2
  <2>4. ApplyAll("timestamp", ApplyAll("ssrc", Advance(rtp), due.ssrc), due.timestamp) \in RtpType
    BY <1>4, <2>2, <2>3
  <2>5. ApplyAll("codec", ApplyAll("timestamp", ApplyAll("ssrc", Advance(rtp), due.ssrc),
                                   due.timestamp), due.codec) \in RtpType
    BY <1>4, <2>2, <2>4
  <2> QED
    BY <1>2, <1>4, <2>2, <2>5 DEF ApplyRtpChanges
<1>6. transport' \in TransportType
  <2>1. "transport" \in Kinds
    BY DEF Kinds
  <2>2. PICK d \in Nat :
          DOMAIN due.transport = 1 .. d /\ \A i \in 1 .. d : due.transport[i] \in EventType["transport"]
    BY <1>3, <2>1
  <2>3. \A t \in TransportType, i \in 1 .. d :
          Apply("transport", t, due.transport[i]) \in TransportType
    BY <2>2, ApplyTransportType DEF Apply
  <2>4. transport \in TransportType
    BY DEF FieldsInv, FieldsTypeOK, TransportType
  <2>5. ApplyAll("transport", transport, due.transport) \in TransportType
    BY <2>2, <2>3, <2>4, ApplyAllKeeps, Z3
  <2> QED
    BY <1>2, <2>5 DEF ApplyTransportChanges
<1> QED
  BY <1>1, <1>5, <1>6 DEF FieldsInv, FieldsTypeOK, ScriptResets, RtpType, TransportType

LEMMA EngineInit_Fields == EngineInit => FieldsInv
<1> SUFFICES ASSUME EngineInit PROVE FieldsInv
  OBVIOUS
<1>1. /\ opts \in Scenarios /\ OptionsComplete(opts)
      /\ \A k \in Kinds : \A n \in DOMAIN opts.changes[k] :
           ResetsHaveValue(k, opts.changes[k][n])
  BY ScenariosAssumption DEF EngineInit, IsScenario
<1>2. \A k \in Kinds : script[k] \in SortByTrigger(opts.changes[k])
  BY DEF EngineInit, Kinds
<1>3. ScriptResets
  <2> SUFFICES ASSUME NEW k \in Kinds, NEW i \in DOMAIN script[k]
               PROVE  ResetsHaveValue(k, script[k][i])
    BY DEF ScriptResets
  <2> DEFINE q == opts.changes[k]
  <2>1. PICK p \in Bijection(DOMAIN q, DOMAIN q) : script[k] = [j \in DOMAIN q |-> q[p[j]]]
    BY <1>2 DEF SortByTrigger
  <2>2. p \in [DOMAIN q -> DOMAIN q]
    BY <2>1 DEF Bijection, Injection
  <2>3. i \in DOMAIN q /\ script[k][i] = q[p[i]] /\ p[i] \in DOMAIN q
    BY <2>1, <2>2
  <2> QED
    BY <1>1, <2>3
<1>4. FieldsTypeOK
  BY <1>1 DEF EngineInit, OptionsComplete, FieldsTypeOK, RtpType, TransportType,
               InitialRtp, InitialTransport
<1> QED
  BY <1>3, <1>4 DEF FieldsInv

LEMMA EngineStutter_Fields ==
  ASSUME FieldsInv, UNCHANGED engineVars
  PROVE  FieldsInv'
BY DEF FieldsInv, FieldsTypeOK, ScriptResets, engineVars

\* Every field of the stream keeps its type, the numbers their width, whatever
\* resets and jumps fall due together: no reset finds its value missing.
THEOREM EngineTypeCorrect == EngineSpec => []EngineTypeOK
<1>1. EngineInv /\ FieldsInv /\ [EngineNext]_engineVars => FieldsInv'
  <2> SUFFICES ASSUME EngineInv, FieldsInv, [EngineNext]_engineVars PROVE FieldsInv'
    OBVIOUS
  <2>1. ASSUME NEW delta \in Deltas, Tick(delta) PROVE FieldsInv'
    BY <2>1, TickFields, BoundsAssumption
  <2> QED
    BY <2>1, EngineStutter_Fields DEF EngineNext, BoundReached
<1>2. EngineInv /\ FieldsInv => EngineTypeOK
  BY DEF EngineInv, FieldsInv, EngineTypeOK
<1> QED
  BY <1>1, <1>2, EngineInit_Fields, Engine_Invariance, PTL DEF EngineSpec

-------------------------------------------------------------------------------
(* Pauses.  A pause of 0 ms, which the validator lets through, never ends    *)
(* (MCZeroPause); the theorem is about scenarios without one.               *)

Lasting(q) == \A i \in DOMAIN q : q[i].ms_to_pause \in Nat \ {0}

PausesLast ==
  /\ Lasting(pending.pause)
  /\ is_paused => ms_to_pause > 0

LEMMA SortedPausesLast ==
  ASSUME NEW S, NEW q \in Seq(S), Lasting(q), NEW s \in SortByTrigger(q)
  PROVE  Lasting(s)
<1>1. PICK p \in Bijection(DOMAIN q, DOMAIN q) : s = [i \in DOMAIN q |-> q[p[i]]]
  BY DEF SortByTrigger
<1>2. p \in [DOMAIN q -> DOMAIN q]
  BY <1>1 DEF Bijection, Injection
<1> QED
  BY <1>1, <1>2 DEF Lasting

LEMMA PausesOfPrefix ==
  ASSUME NEW q \in Seq(EventType["pause"]), Lasting(q), NEW d \in 0 .. Len(q)
  PROVE  /\ Pauses(SubSeq(q, 1, d)) = 1 .. d
         /\ d # 0 => PauseLength(SubSeq(q, 1, d)) > 0
<1> DEFINE u == SubSeq(q, 1, d)
<1>1. /\ u \in Seq(EventType["pause"]) /\ Len(u) = d
      /\ \A i \in 1 .. d : u[i] = q[i]
  <2>1. u \in Seq(EventType["pause"])
    BY PrefixIsSeq
  <2>2. d \in Nat /\ Len(q) \in Nat
    BY LenProperties
  <2>3. 1 \in 1 .. Len(q) + 1 /\ d \in 1 - 1 .. Len(q)
    BY <2>2
  <2>4. Len(u) = d /\ \A i \in 1 .. d : u[i] = q[i]
    BY <2>2
  <2> QED
    BY <2>1, <2>4
<1>2. DOMAIN u = 1 .. d /\ DOMAIN q = 1 .. Len(q) /\ Len(q) \in Nat /\ d \in Nat
  BY <1>1, LenProperties
<1> HIDE DEF u
<1>3. \A i \in 1 .. d : u[i].ms_to_pause \in Nat \ {0}
  BY <1>1, <1>2 DEF Lasting
<1>4. NONE \notin Nat
  BY NoneAssumption
<1>5. Pauses(u) = 1 .. d
  BY <1>2, <1>3, <1>4 DEF Pauses
<1>6. ASSUME d # 0 PROVE PauseLength(u) > 0
  <2>1. d \in Nat /\ 1 .. d \subseteq 0 .. d /\ 1 .. d # {}
    <3>1. d \in Nat /\ d >= 1
      BY <1>2, <1>6
    <3>2. 1 \in 1 .. d
      BY <3>1
    <3>3. 1 .. d \subseteq 0 .. d
      BY <3>1
    <3> QED
      BY <3>1, <3>2, <3>3, Zenon
  <2>2. Max(1 .. d) \in 1 .. d
    BY <1>2, <2>1, MaxOfIndices
  <2> QED
    BY <1>3, <1>5, <2>1, <2>2 DEF PauseLength
<1> QED
  BY <1>5, <1>6 DEF u

\* One tick: the pause of the tick before is over, and a new one begins
\* exactly when an event was consumed.
LEMMA TickPauses ==
  ASSUME EngineInv, PausesLast, NEW delta \in Nat, Tick(delta)
  PROVE  PausesLast' /\ (is_paused' <=> pending'.pause # pending.pause)
<1> DEFINE q == pending.pause
           d == DueCount(q, Now')
<1>1. "pause" \in Kinds /\ q \in Seq(EventType["pause"]) /\ Lasting(q)
  BY DEF EngineInv, CountersTypeOK, PausesLast, Kinds
<1>2. Len(q) \in Nat /\ DOMAIN q = 1 .. Len(q) /\ d \in 0 .. Len(q)
  BY <1>1, LenProperties, DueCountIsLoopExit
<1>3. /\ pending'.pause = SubSeq(q, d + 1, Len(q))
      /\ ms_to_pause' = PauseLength(SubSeq(q, 1, d))
      /\ is_paused' = (PausedAfterResume \/ Pauses(SubSeq(q, 1, d)) # {})
  BY <1>1 DEF Tick, Remaining, Due
<1>4. ~PausedAfterResume
  BY DEF PausesLast, PausedAfterResume, EngineInv, CountersTypeOK
<1> HIDE DEF q, d
<1>5. is_paused' <=> d # 0
  <2>1. Pauses(SubSeq(q, 1, d)) = 1 .. d
    BY <1>1, <1>2, PausesOfPrefix
  <2>2. d \in Nat /\ (1 .. d # {} <=> d # 0)
    BY <1>2
  <2> QED
    BY <1>3, <1>4, <2>1, <2>2
<1>6. is_paused' => ms_to_pause' > 0
  BY <1>1, <1>2, <1>3, <1>5, PausesOfPrefix
<1>7. /\ pending'.pause \in Seq(EventType["pause"])
      /\ Len(pending'.pause) = Len(q) - d
      /\ \A i \in 1 .. Len(q) - d : pending'.pause[i] = q[d + i]
      /\ SubSeq(q, 1, Len(q)) = q
  <2>1. d \in Nat /\ 0 \in 0 .. Len(q) - d
    BY <1>2
  <2>2. LET r == SubSeq(q, d + 1, Len(q))
        IN  /\ r \in Seq(EventType["pause"])
            /\ Len(r) = Len(q) - d
            /\ \A i \in 1 .. Len(r) : r[i] = q[d + i]
    BY <1>1, <1>2, <2>1, SuffixOfSuffix
  <2>3. SubSeq(q, 1, Len(q)) = q
    BY <1>1, <1>2
  <2> QED
    BY <1>3, <2>2, <2>3
<1>8. Lasting(pending'.pause)
  <2>1. DOMAIN pending'.pause = 1 .. Len(q) - d
    BY <1>7, LenProperties
  <2>2. \A i \in 1 .. Len(q) - d : d + i \in DOMAIN q
    BY <1>2
  <2> QED
    BY <1>1, <1>7, <2>1, <2>2 DEF Lasting
<1>9. pending'.pause # q <=> d # 0
  <2>1. CASE d = 0
    BY <1>3, <1>7, <2>1
  <2>2. CASE d # 0
    <3>1. Len(q) - d # Len(q)
      <4>1. d \in Nat
        BY <1>2
      <4> QED
        BY <1>2, <2>2, <4>1, Shorter
    <3>2. Len(pending'.pause) = Len(q) - d
      BY <1>7
    <3> QED
      BY <2>2, <3>1, <3>2, Zenon
  <2> QED
    BY <2>1, <2>2
<1> QED
  BY <1>5, <1>6, <1>8, <1>9 DEF PausesLast, q

\* Where no pause is empty, a tick is a pause exactly when it consumed a pause
\* event, for every scenario, sort, delta and number of ticks.
THEOREM EveryPauseLastsOneTick ==
  ASSUME \A o \in Scenarios : Lasting(o.changes.pause)
  PROVE  EngineSpec => PauseLastsOneTick
<1>1. EngineInit => PausesLast
  <2> SUFFICES ASSUME EngineInit PROVE PausesLast
    OBVIOUS
  <2>1. opts \in Scenarios /\ opts.changes["pause"] \in Seq(EventType["pause"])
    BY ScenariosAssumption DEF EngineInit, IsScenario, Kinds
  <2>2. pending.pause \in SortByTrigger(opts.changes.pause)
    BY DEF EngineInit
  <2>3. Lasting(pending.pause)
    BY <2>1, <2>2, SortedPausesLast
  <2> QED
    BY <2>3 DEF PausesLast, EngineInit
<1>2. EngineInv /\ PausesLast /\ [EngineNext]_engineVars
      => /\ PausesLast'
         /\ [is_paused' <=> pending'.pause # pending.pause]_engineVars
  <2> SUFFICES ASSUME EngineInv, PausesLast, [EngineNext]_engineVars
               PROVE  /\ PausesLast'
                      /\ [is_paused' <=> pending'.pause # pending.pause]_engineVars
    OBVIOUS
  <2>1. CASE \E delta \in Deltas : Tick(delta)
    BY <2>1, TickPauses, BoundsAssumption
  <2>2. CASE UNCHANGED engineVars
    BY <2>2 DEF PausesLast, Lasting, engineVars
  <2> QED
    BY <2>1, <2>2 DEF EngineNext, BoundReached
<1> QED
  BY <1>1, <1>2, Engine_Invariance, PTL DEF EngineSpec, PauseLastsOneTick

===============================================================================
