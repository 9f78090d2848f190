-------------------------- MODULE RtpTimelineProofs --------------------------
(* Proofs that the loops of ScenarioEngine give every packet the fields its  *)
(* script prescribes, for all scenarios, spaces and bounds.                 *)
EXTENDS RtpTimeline, ScenarioEngineProofs, FiniteSetTheorems

-------------------------------------------------------------------------------
(* Sums. SumFunctionOnSet is a fold as well: that its recursion is defined,  *)
(* by induction on the size of the set, and that the order does not matter.  *)

Pick(T) == CHOOSE x \in T : TRUE

IsSumming(g, f, S) ==
  g = [T \in SUBSET S |->
         IF T = {} THEN 0 ELSE f[Pick(T)] + g[T \ {Pick(T)}]]

Sums(f, S) == CHOOSE g : IsSumming(g, f, S)

LEMMA SumIsSums ==
  ASSUME NEW f, NEW S
  PROVE  SumFunctionOnSet(f, S) = Sums(f, S)[S]
BY DEF SumFunctionOnSet, FoldFunctionOnSet, MapThenFoldSet, Sums, IsSumming, Pick

\* A set whose sum is that of one of its elements and of the rest.
Unfolds(f, S) ==
  SumFunctionOnSet(f, S) =
    IF S = {} THEN 0 ELSE f[Pick(S)] + SumFunctionOnSet(f, S \ {Pick(S)})

LEMMA UnfoldOneMore ==
  ASSUME NEW f, NEW S, IsFiniteSet(S),
         \A T \in SUBSET S : T # S => Unfolds(f, T)
  PROVE  Unfolds(f, S)
<1> DEFINE h == [T \in SUBSET S |->
                   IF T # S THEN SumFunctionOnSet(f, T)
                   ELSE IF S = {} THEN 0
                   ELSE f[Pick(S)] + SumFunctionOnSet(f, S \ {Pick(S)})]
<1>1. ASSUME NEW T \in SUBSET S, T # {}
      PROVE  Pick(T) \in T /\ T \ {Pick(T)} \in SUBSET S /\ T \ {Pick(T)} # S
  <2>1. Pick(T) \in T
    BY <1>1 DEF Pick
  <2> QED
    BY <2>1
<1>2. \A T \in SUBSET S : T # S => h[T] = SumFunctionOnSet(f, T)
  OBVIOUS
<1>3. h[S] = IF S = {} THEN 0 ELSE f[Pick(S)] + SumFunctionOnSet(f, S \ {Pick(S)})
  OBVIOUS
<1>4. h = [T \in SUBSET S |-> h[T]]
  OBVIOUS
<1> HIDE DEF h
<1>5. ASSUME NEW T \in SUBSET S
      PROVE  h[T] = IF T = {} THEN 0 ELSE f[Pick(T)] + h[T \ {Pick(T)}]
  <2>1. T # {} => h[T \ {Pick(T)}] = SumFunctionOnSet(f, T \ {Pick(T)})
    BY <1>1, <1>2
  <2>2. CASE T = S
    BY <1>3, <2>1, <2>2
  <2>3. CASE T # S
    <3>1. Unfolds(f, T)
      BY <2>3
    <3> QED
      BY <1>2, <2>1, <2>3, <3>1 DEF Unfolds
  <2> QED
    BY <2>2, <2>3
<1>6. IsSumming(h, f, S)
  <2>1. [T \in SUBSET S |-> h[T]]
          = [T \in SUBSET S |-> IF T = {} THEN 0 ELSE f[Pick(T)] + h[T \ {Pick(T)}]]
    BY <1>5
  <2> QED
    BY <1>4, <2>1 DEF IsSumming
<1> DEFINE g == Sums(f, S)
<1>7. IsSumming(g, f, S)
  BY <1>6 DEF Sums
<1> HIDE DEF g
<1>8. \A T \in SUBSET S :
        g[T] = IF T = {} THEN 0 ELSE f[Pick(T)] + g[T \ {Pick(T)}]
  BY <1>7 DEF IsSumming
<1> DEFINE Differ == {n \in Nat : \E T \in SUBSET S : Cardinality(T) = n /\ g[T] # h[T]}
<1>9. Differ = {}
  <2> SUFFICES ASSUME Differ # {} PROVE FALSE
    OBVIOUS
  <2>1. PICK n \in Differ : \A m \in Differ : n <= m
    <3>1. Differ \subseteq Nat
      OBVIOUS
    <3> HIDE DEF Differ
    <3> QED
      BY <3>1, LeastNat
  <2>2. PICK T \in SUBSET S : Cardinality(T) = n /\ g[T] # h[T]
    BY <2>1
  <2>3. T # {}
    BY <1>5, <1>8, <2>2
  <2>4. IsFiniteSet(T) /\ Pick(T) \in T
    BY <1>1, <2>3, FS_Subset
  <2>5. /\ IsFiniteSet(T \ {Pick(T)})
        /\ Cardinality(T \ {Pick(T)}) = n - 1
    BY <2>2, <2>4, FS_RemoveElement
  <2>6. n - 1 \in Nat /\ n \in Nat
    <3>1. Cardinality(T \ {Pick(T)}) \in Nat
      BY <2>5, FS_CardinalityType
    <3>2. n \in Nat
      OBVIOUS
    <3> QED
      BY <2>5, <3>1, <3>2
  <2>7. n - 1 \notin Differ
    <3> HIDE DEF Differ
    <3> QED
      BY <2>1, <2>6
  <2>8. g[T \ {Pick(T)}] = h[T \ {Pick(T)}]
    BY <1>1, <2>3, <2>5, <2>6, <2>7
  <2> HIDE DEF Differ
  <2> QED
    BY <1>5, <1>8, <2>2, <2>3, <2>8
<1>10. \A T \in SUBSET S : g[T] = h[T]
  <2> TAKE T \in SUBSET S
  <2>1. Cardinality(T) \in Nat
    BY FS_Subset, FS_CardinalityType
  <2> QED
    BY <1>9, <2>1
<1>11. g[S] = h[S]
  BY <1>10
<1> QED
  BY <1>3, <1>11, SumIsSums DEF Unfolds, g

LEMMA SumUnfolds ==
  ASSUME NEW f, NEW S, IsFiniteSet(S)
  PROVE  Unfolds(f, S)
<1> DEFINE Without == {n \in Nat : \E T : IsFiniteSet(T) /\ Cardinality(T) = n /\ ~Unfolds(f, T)}
<1>1. Without = {}
  <2> SUFFICES ASSUME Without # {} PROVE FALSE
    OBVIOUS
  <2>1. PICK n \in Without : \A m \in Without : n <= m
    <3>1. Without \subseteq Nat
      OBVIOUS
    <3> HIDE DEF Without
    <3> QED
      BY <3>1, LeastNat
  <2>2. PICK T : IsFiniteSet(T) /\ Cardinality(T) = n /\ ~Unfolds(f, T)
    BY <2>1
  <2>3. ASSUME NEW U \in SUBSET T, U # T PROVE Unfolds(f, U)
    <3>1. /\ IsFiniteSet(U) /\ Cardinality(U) \in Nat
          /\ Cardinality(U) <= n /\ Cardinality(U) # n
      BY <2>2, <2>3, FS_Subset, FS_CardinalityType
    <3>2. n \in Nat
      OBVIOUS
    <3>3. Cardinality(U) \notin Without
      <4> HIDE DEF Without
      <4> QED
        BY <2>1, <3>1, <3>2
    <3> QED
      BY <3>1, <3>3
  <2> QED
    BY <2>2, <2>3, UnfoldOneMore
<1>2. Cardinality(S) \in Nat /\ Cardinality(S) \notin Without
  BY <1>1, FS_CardinalityType
<1> QED
  BY <1>2

LEMMA SumOfEmpty ==
  ASSUME NEW f
  PROVE  SumFunctionOnSet(f, {}) = 0
<1>1. IsFiniteSet({})
  BY FS_EmptySet
<1> QED
  BY <1>1, SumUnfolds DEF Unfolds

Ints(f, S) == \A x \in S : f[x] \in Int

LEMMA SumType ==
  ASSUME NEW f, NEW S, IsFiniteSet(S), Ints(f, S)
  PROVE  SumFunctionOnSet(f, S) \in Int
<1> DEFINE Without == {n \in Nat : \E T : /\ IsFiniteSet(T) /\ Cardinality(T) = n
                                          /\ Ints(f, T) /\ SumFunctionOnSet(f, T) \notin Int}
<1>1. Without = {}
  <2> SUFFICES ASSUME Without # {} PROVE FALSE
    OBVIOUS
  <2>1. PICK n \in Without : \A m \in Without : n <= m
    <3>1. Without \subseteq Nat
      OBVIOUS
    <3> HIDE DEF Without
    <3> QED
      BY <3>1, LeastNat
  <2>2. PICK T : /\ IsFiniteSet(T) /\ Cardinality(T) = n
                 /\ Ints(f, T) /\ SumFunctionOnSet(f, T) \notin Int
    BY <2>1
  <2> DEFINE x == Pick(T)
  <2>3. /\ T # {} /\ SumFunctionOnSet(f, T) = f[x] + SumFunctionOnSet(f, T \ {x})
    BY <2>2, SumUnfolds DEF Unfolds
  <2>4. x \in T
    BY <2>3 DEF Pick
  <2> HIDE DEF x
  <2>5. /\ IsFiniteSet(T \ {x}) /\ Cardinality(T \ {x}) = n - 1
        /\ Cardinality(T \ {x}) \in Nat /\ Ints(f, T \ {x})
    BY <2>2, <2>4, FS_RemoveElement, FS_CardinalityType DEF Ints
  <2>6. n \in Nat
    OBVIOUS
  <2>7. n - 1 \in Nat /\ n - 1 \notin Without
    <3> HIDE DEF Without
    <3> QED
      BY <2>1, <2>5, <2>6
  <2>8. SumFunctionOnSet(f, T \ {x}) \in Int
    BY <2>5, <2>7
  <2> HIDE DEF Without
  <2> QED
    BY <2>2, <2>3, <2>4, <2>8 DEF Ints
<1>2. Cardinality(S) \in Nat /\ Cardinality(S) \notin Without
  BY <1>1, FS_CardinalityType
<1> QED
  BY <1>2

Grows(f, S, w) ==
  SumFunctionOnSet(f, S \union {w}) = SumFunctionOnSet(f, S) + f[w]

LEMMA SumGrows ==
  ASSUME NEW f, NEW S, IsFiniteSet(S), NEW w, w \notin S, Ints(f, S \union {w})
  PROVE  Grows(f, S, w)
<1> DEFINE Without == {n \in Nat : \E T, v : /\ IsFiniteSet(T) /\ Cardinality(T) = n
                                             /\ v \notin T /\ Ints(f, T \union {v})
                                             /\ ~Grows(f, T, v)}
<1>1. Without = {}
  <2> SUFFICES ASSUME Without # {} PROVE FALSE
    OBVIOUS
  <2>1. PICK n \in Without : \A m \in Without : n <= m
    <3>1. Without \subseteq Nat
      OBVIOUS
    <3> HIDE DEF Without
    <3> QED
      BY <3>1, LeastNat
  <2>2. PICK T, v : /\ IsFiniteSet(T) /\ Cardinality(T) = n
                    /\ v \notin T /\ Ints(f, T \union {v})
                    /\ ~Grows(f, T, v)
    BY <2>1
  <2> DEFINE U == T \union {v}
             x == Pick(U)
  <2>3. IsFiniteSet(U)
    BY <2>2, FS_AddElement
  <2>4. SumFunctionOnSet(f, U) = f[x] + SumFunctionOnSet(f, U \ {x}) /\ x \in U
    <3>1. U # {}
      OBVIOUS
    <3> HIDE DEF U
    <3>2. Unfolds(f, U)
      BY <2>3, SumUnfolds
    <3> QED
      BY <3>1, <3>2 DEF Unfolds, Pick
  <2> HIDE DEF x
  <2>5. \A y \in U : f[y] \in Int
    BY <2>2 DEF Ints
  <2>6. SumFunctionOnSet(f, T) \in Int
    BY <2>2, <2>5, SumType DEF Ints
  <2>7. CASE x = v
    <3>1. U \ {x} = T
      BY <2>2, <2>7
    <3>2. SumFunctionOnSet(f, U) = SumFunctionOnSet(f, T) + f[v]
      <4> DEFINE a == f[v]
                 b == SumFunctionOnSet(f, T)
      <4>1. a \in Int /\ b \in Int
        BY <2>5, <2>6
      <4>2. SumFunctionOnSet(f, U) = a + b
        BY <2>4, <2>7, <3>1
      <4> HIDE DEF a, b, U
      <4>3. a + b = b + a
        BY <4>1
      <4> QED
        BY <4>2, <4>3, Zenon DEF a, b
    <3> QED
      BY <2>2, <3>2 DEF Grows
  <2>8. CASE x # v
    <3> DEFINE R == T \ {x}
    <3>1. x \in T /\ U \ {x} = R \union {v} /\ R \union {x} = T
      BY <2>2, <2>4, <2>8
    <3>2. /\ IsFiniteSet(R) /\ Cardinality(R) = n - 1 /\ Cardinality(R) \in Nat
          /\ Ints(f, R \union {v}) /\ Ints(f, R \union {x}) /\ Ints(f, R)
          /\ v \notin R /\ x \notin R
      BY <2>2, <2>5, <3>1, FS_RemoveElement, FS_CardinalityType DEF Ints
    <3>3. n \in Nat
      OBVIOUS
    <3>4. n - 1 \in Nat /\ n - 1 \notin Without
      <4> HIDE DEF Without
      <4> QED
        BY <2>1, <3>2, <3>3
    <3>5. Grows(f, R, v) /\ Grows(f, R, x)
      <4> HIDE DEF R
      <4> QED
        BY <3>2, <3>4
    <3>6. SumFunctionOnSet(f, R) \in Int
      BY <3>2, SumType
    <3> HIDE DEF R
    <3>7. SumFunctionOnSet(f, U) = f[x] + (SumFunctionOnSet(f, R) + f[v])
      BY <2>4, <3>1, <3>5 DEF Grows
    <3>8. SumFunctionOnSet(f, T) = SumFunctionOnSet(f, R) + f[x]
      BY <3>1, <3>5 DEF Grows
    <3>9. f[x] \in Int /\ f[v] \in Int
      BY <2>4, <2>5
    <3>10. SumFunctionOnSet(f, U) = SumFunctionOnSet(f, T) + f[v]
      <4> DEFINE a == f[x]
                 b == SumFunctionOnSet(f, R)
                 c == f[v]
      <4>1. a \in Int /\ b \in Int /\ c \in Int
        BY <3>6, <3>9
      <4> HIDE DEF a, b, c
      <4>2. a + (b + c) = (b + a) + c
        BY <4>1
      <4> QED
        BY <3>7, <3>8, <4>2, Zenon DEF a, b, c
    <3> QED
      BY <2>2, <3>10 DEF Grows
  <2> QED
    BY <2>7, <2>8
<1>2. Cardinality(S) \in Nat /\ Cardinality(S) \notin Without
  BY <1>1, FS_CardinalityType
<1> QED
  BY <1>2
-------------------------------------------------------------------------------
(* A field, over any events: who writes it and what, who moves it and how   *)
(* far. order and tick say when the events F have taken effect, by tick n.  *)

FieldOK(fd) ==
  /\ fd.width \in Nat \ {0} /\ fd.start \in Int /\ fd.step \in Int
  /\ Ints(fd.value, fd.writers) /\ Ints(fd.jump, fd.jumpers)

IsLast(l, W, order) ==
  l \in W /\ \A v \in W \ {l} : <<v, l>> \in order /\ <<l, v>> \notin order

JumpsAfter(fd, F, order, l) == {j \in F \intersect fd.jumpers : <<j, l>> \notin order}

Count(fd, from, ticks, J) ==
  (from + fd.step * (ticks + SumFunctionOnSet(fd.jump, J))) % fd.width

\* What the field holds if it follows the script.
Follows(x, fd, F, order, tick, n) ==
  \/ /\ F \intersect fd.writers = {}
     /\ x = Count(fd, fd.start, n, F \intersect fd.jumpers)
  \/ \E l : /\ IsLast(l, F \intersect fd.writers, order)
            /\ x = Count(fd, fd.value[l], n - tick[l], JumpsAfter(fd, F, order, l))

\* w takes effect after all of F.
ComesLast(w, F, order) ==
  /\ w \notin F /\ <<w, w>> \notin order
  /\ \A v \in F : <<v, w>> \in order /\ <<w, v>> \notin order

LEMMA LastIsUnique ==
  ASSUME NEW W, NEW order, NEW l, IsLast(l, W, order)
  PROVE  LastIn(order, W) = l
<1>1. l \in W /\ \A v \in W \ {l} : <<v, l>> \in order /\ <<l, v>> \notin order
  BY DEF IsLast
<1>2. ASSUME NEW w \in W, \A v \in W \ {w} : <<v, w>> \in order PROVE w = l
  BY <1>1, <1>2
<1> QED
  BY <1>1, <1>2 DEF LastIn

LEMMA CountMoves ==
  ASSUME NEW fd, FieldOK(fd), NEW from \in Int, NEW ticks \in Int, NEW J,
         IsFiniteSet(J), J \subseteq fd.jumpers, NEW d \in Int,
         NEW more \in Int, NEW K,
         more + SumFunctionOnSet(fd.jump, K) = ticks + SumFunctionOnSet(fd.jump, J) + d
  PROVE  (Count(fd, from, ticks, J) + fd.step * d) % fd.width = Count(fd, from, more, K)
<1> DEFINE sum == SumFunctionOnSet(fd.jump, J)
           sumk == SumFunctionOnSet(fd.jump, K)
           step == fd.step
           m == fd.width
           a == from + step * (ticks + sum)
           b == step * d
<1>1. sum \in Int
  BY SumType DEF FieldOK, Ints
<1>2. step \in Int /\ m \in Nat \ {0}
  BY DEF FieldOK
<1>3. more + sumk = (ticks + sum) + d
  OBVIOUS
<1> HIDE DEF sum, step, m, sumk
<1>4. a \in Int /\ b \in Int
  <2>1. step * (ticks + sum) \in Int
    BY <1>1, <1>2
  <2> QED
    BY <1>2, <2>1
<1>5. a + b = from + step * (more + sumk)
  <2> DEFINE t == ticks + sum
  <2>1. t \in Int
    BY <1>1
  <2> HIDE DEF t
  <2>2. step * (t + d) = step * t + step * d /\ step * t \in Int /\ step * d \in Int
    BY <1>2, <2>1
  <2>3. (from + step * t) + step * d = from + step * (t + d)
    BY <2>2
  <2> QED
    BY <1>3, <2>3 DEF t
<1> HIDE DEF a, b
<1>6. ((a % m) + b) % m = (a + b) % m
  BY <1>2, <1>4, WrapTwice
<1>7. Count(fd, from, ticks, J) = a % m
  BY DEF Count, a, m, sum, step
<1>8. Count(fd, from, more, K) = (from + step * (more + sumk)) % m
  BY DEF Count, m, sumk, step
<1> QED
  BY <1>5, <1>6, <1>7, <1>8 DEF b, m, step

\* A tick of its own moves the field by one step.
LEMMA TickFollows ==
  ASSUME NEW fd, FieldOK(fd), NEW F, IsFiniteSet(F), NEW x,
         NEW order, NEW tick, NEW n \in Nat, Ints(tick, F), Follows(x, fd, F, order, tick, n),
         NEW later, \A v, w \in F : <<v, w>> \in later <=> <<v, w>> \in order,
         NEW tick2, \A w \in F : tick2[w] = tick[w]
  PROVE  Follows((x + fd.step) % fd.width, fd, F, later, tick2, n + 1)
<1>1. fd.step \in Int /\ fd.step * 1 = fd.step
  BY DEF FieldOK
<1>2. \A J \in SUBSET (F \intersect fd.jumpers) :
        /\ IsFiniteSet(J) /\ J \subseteq fd.jumpers
        /\ SumFunctionOnSet(fd.jump, J) \in Int
  BY FS_Subset, SumType DEF FieldOK, Ints
<1>3. ASSUME NEW from \in Int, NEW ticks \in Int, NEW J \in SUBSET (F \intersect fd.jumpers)
      PROVE  (Count(fd, from, ticks, J) + fd.step) % fd.width = Count(fd, from, ticks + 1, J)
  <2> DEFINE more == ticks + 1
             d == 1
             sum == SumFunctionOnSet(fd.jump, J)
  <2>1. more \in Int /\ d \in Int /\ more + sum = ticks + sum + d
    BY <1>2
  <2>2. IsFiniteSet(J) /\ J \subseteq fd.jumpers
    BY <1>2
  <2> HIDE DEF more, d
  <2>3. (Count(fd, from, ticks, J) + fd.step * d) % fd.width = Count(fd, from, more, J)
    BY <2>1, <2>2, CountMoves
  <2> QED
    BY <1>1, <2>3 DEF more, d
<1>4. CASE /\ F \intersect fd.writers = {}
           /\ x = Count(fd, fd.start, n, F \intersect fd.jumpers)
  <2>1. (x + fd.step) % fd.width = Count(fd, fd.start, n + 1, F \intersect fd.jumpers)
    BY <1>3, <1>4 DEF FieldOK
  <2> QED
    BY <1>4, <2>1 DEF Follows
<1>5. ASSUME NEW l, IsLast(l, F \intersect fd.writers, order),
             x = Count(fd, fd.value[l], n - tick[l], JumpsAfter(fd, F, order, l))
      PROVE  Follows((x + fd.step) % fd.width, fd, F, later, tick2, n + 1)
  <2>1. l \in F /\ l \in fd.writers /\ tick2[l] = tick[l] /\ tick[l] \in Int
        /\ fd.value[l] \in Int
    BY <1>5 DEF IsLast, FieldOK, Ints
  <2>2. IsLast(l, F \intersect fd.writers, later)
    BY <1>5 DEF IsLast
  <2>3. JumpsAfter(fd, F, later, l) = JumpsAfter(fd, F, order, l)
    BY <2>1 DEF JumpsAfter
  <2>4. (x + fd.step) % fd.width
          = Count(fd, fd.value[l], (n - tick[l]) + 1, JumpsAfter(fd, F, order, l))
    <3> DEFINE ticks == n - tick[l]
               J == JumpsAfter(fd, F, order, l)
    <3>1. ticks \in Int /\ J \in SUBSET (F \intersect fd.jumpers)
      BY <2>1 DEF JumpsAfter
    <3> HIDE DEF ticks, J
    <3>2. (Count(fd, fd.value[l], ticks, J) + fd.step) % fd.width
            = Count(fd, fd.value[l], ticks + 1, J)
      BY <1>3, <2>1, <3>1
    <3> QED
      BY <1>5, <3>2 DEF ticks, J
  <2>5. (n - tick[l]) + 1 = (n + 1) - tick2[l]
    BY <2>1
  <2>6. (x + fd.step) % fd.width
          = Count(fd, fd.value[l], (n + 1) - tick2[l], JumpsAfter(fd, F, later, l))
    BY <2>3, <2>4, <2>5
  <2> QED
    BY <2>2, <2>6 DEF Follows
<1> QED
  BY <1>4, <1>5 DEF Follows

\* Events that neither write nor move it leave it alone.
LEMMA OthersFollow ==
  ASSUME NEW fd, NEW F, NEW G, NEW x, NEW order, NEW tick, NEW n,
         F \intersect fd.writers = G \intersect fd.writers,
         F \intersect fd.jumpers = G \intersect fd.jumpers,
         Follows(x, fd, F, order, tick, n)
  PROVE  Follows(x, fd, G, order, tick, n)
BY DEF Follows, JumpsAfter

\* A jump moves it, wherever the last write is.
LEMMA JumpFollows ==
  ASSUME NEW fd, FieldOK(fd), NEW F, IsFiniteSet(F), NEW x,
         NEW order, NEW tick, NEW n \in Nat, Ints(tick, F), Follows(x, fd, F, order, tick, n),
         NEW w \in fd.jumpers, w \notin fd.writers, ComesLast(w, F, order)
  PROVE  Follows((x + fd.step * fd.jump[w]) % fd.width, fd, F \union {w}, order, tick, n)
<1>1. ASSUME NEW from \in Int, NEW ticks \in Int, NEW J \in SUBSET (F \intersect fd.jumpers)
      PROVE  (Count(fd, from, ticks, J) + fd.step * fd.jump[w]) % fd.width
               = Count(fd, from, ticks, J \union {w})
  <2> DEFINE sum == SumFunctionOnSet(fd.jump, J)
             d == fd.jump[w]
             K == J \union {w}
  <2>1. /\ IsFiniteSet(J) /\ J \subseteq fd.jumpers
        /\ sum \in Int
    BY FS_Subset, SumType DEF FieldOK, Ints
  <2>2. w \notin J /\ Ints(fd.jump, J \union {w}) /\ d \in Int
    BY DEF FieldOK, Ints, ComesLast
  <2>3. SumFunctionOnSet(fd.jump, K) = sum + d
    BY <2>1, <2>2, SumGrows DEF Grows
  <2> HIDE DEF d, K
  <2>4. ticks + SumFunctionOnSet(fd.jump, K) = ticks + SumFunctionOnSet(fd.jump, J) + d
    BY <2>1, <2>2, <2>3
  <2>5. (Count(fd, from, ticks, J) + fd.step * d) % fd.width = Count(fd, from, ticks, K)
    BY <2>1, <2>2, <2>4, CountMoves
  <2> QED
    BY <2>5 DEF d, K
<1>2. (F \union {w}) \intersect fd.writers = F \intersect fd.writers
  OBVIOUS
<1>3. CASE /\ F \intersect fd.writers = {}
           /\ x = Count(fd, fd.start, n, F \intersect fd.jumpers)
  <2>1. (F \union {w}) \intersect fd.jumpers = (F \intersect fd.jumpers) \union {w}
    OBVIOUS
  <2> DEFINE J == F \intersect fd.jumpers
  <2>2. J \in SUBSET (F \intersect fd.jumpers) /\ fd.start \in Int
    BY DEF FieldOK
  <2> HIDE DEF J
  <2>3. (Count(fd, fd.start, n, J) + fd.step * fd.jump[w]) % fd.width
               = Count(fd, fd.start, n, J \union {w})
    BY <1>1, <2>2
  <2> QED
    BY <1>2, <1>3, <2>1, <2>3 DEF Follows, J
<1>4. ASSUME NEW l, IsLast(l, F \intersect fd.writers, order),
             x = Count(fd, fd.value[l], n - tick[l], JumpsAfter(fd, F, order, l))
      PROVE  Follows((x + fd.step * fd.jump[w]) % fd.width, fd, F \union {w}, order, tick, n)
  <2>1. l \in F /\ l \in fd.writers /\ tick[l] \in Int /\ fd.value[l] \in Int
    BY <1>4 DEF IsLast, FieldOK, Ints
  <2>2. JumpsAfter(fd, F \union {w}, order, l) = JumpsAfter(fd, F, order, l) \union {w}
    BY <2>1 DEF JumpsAfter, ComesLast
  <2> DEFINE ticks == n - tick[l]
             J == JumpsAfter(fd, F, order, l)
  <2>3. ticks \in Int /\ J \in SUBSET (F \intersect fd.jumpers)
    BY <2>1 DEF JumpsAfter
  <2> HIDE DEF ticks, J
  <2>4. (Count(fd, fd.value[l], ticks, J) + fd.step * fd.jump[w]) % fd.width
               = Count(fd, fd.value[l], ticks, J \union {w})
    BY <1>1, <2>1, <2>3
  <2> QED
    BY <1>2, <1>4, <2>2, <2>4 DEF Follows, ticks, J
<1> QED
  BY <1>3, <1>4 DEF Follows

\* A write replaces it, whatever it was; what it moves itself counts from there.
LEMMA WriteFollows ==
  ASSUME NEW fd, FieldOK(fd), NEW F, NEW order, NEW tick, NEW n \in Nat,
         NEW w \in fd.writers, ComesLast(w, F, order), tick[w] = n
  PROVE  /\ w \notin fd.jumpers =>
              Follows(fd.value[w] % fd.width, fd, F \union {w}, order, tick, n)
         /\ w \in fd.jumpers =>
              Follows((fd.value[w] + fd.step * fd.jump[w]) % fd.width,
                      fd, F \union {w}, order, tick, n)
<1> DEFINE G == F \union {w}
<1>1. IsLast(w, G \intersect fd.writers, order)
  BY DEF IsLast, ComesLast
<1>2. n - tick[w] = 0
  OBVIOUS
<1>3. fd.value[w] \in Int /\ fd.step \in Int
  BY DEF FieldOK, Ints
<1>4. ASSUME w \notin fd.jumpers
      PROVE  Follows(fd.value[w] % fd.width, fd, G, order, tick, n)
  <2>1. JumpsAfter(fd, G, order, w) = {}
    BY <1>4 DEF JumpsAfter, ComesLast
  <2>2. fd.value[w] + fd.step * (0 + 0) = fd.value[w]
    BY <1>3
  <2>3. Count(fd, fd.value[w], n - tick[w], JumpsAfter(fd, G, order, w))
          = fd.value[w] % fd.width
    BY <1>2, <2>1, <2>2, SumOfEmpty DEF Count
  <2> QED
    BY <1>1, <2>3 DEF Follows
<1>5. ASSUME w \in fd.jumpers
      PROVE  Follows((fd.value[w] + fd.step * fd.jump[w]) % fd.width, fd, G, order, tick, n)
  <2>1. JumpsAfter(fd, G, order, w) = {} \union {w}
    BY <1>5 DEF JumpsAfter, ComesLast
  <2>2. fd.jump[w] \in Int
    BY <1>5 DEF FieldOK, Ints
  <2>3. SumFunctionOnSet(fd.jump, {} \union {w}) = 0 + fd.jump[w]
    <3> DEFINE E == {}
    <3>1. IsFiniteSet(E) /\ w \notin E /\ Ints(fd.jump, E \union {w})
      BY <2>2, FS_EmptySet DEF Ints
    <3>2. SumFunctionOnSet(fd.jump, E) = 0
      BY SumOfEmpty
    <3> HIDE DEF E
    <3>3. Grows(fd.jump, E, w)
      BY <3>1, SumGrows
    <3> QED
      BY <3>2, <3>3 DEF Grows, E
  <2>4. 0 + (0 + fd.jump[w]) = fd.jump[w]
    BY <2>2
  <2>5. Count(fd, fd.value[w], n - tick[w], JumpsAfter(fd, G, order, w))
          = (fd.value[w] + fd.step * fd.jump[w]) % fd.width
    BY <1>2, <2>1, <2>3, <2>4 DEF Count
  <2> QED
    BY <1>1, <2>5 DEF Follows
<1> QED
  BY <1>4, <1>5

\* What one event makes of a field.
Written(fd, w, x) == IF w \in fd.writers THEN fd.value[w] ELSE x

Effect(fd, w, x) ==
  IF w \in fd.jumpers THEN (Written(fd, w, x) + fd.step * fd.jump[w]) % fd.width
  ELSE Written(fd, w, x)

\* Whatever is written fits the field.
FieldFits(fd) ==
  /\ fd.start \in 0 .. fd.width - 1
  /\ \A w \in fd.writers : fd.value[w] \in 0 .. fd.width - 1

LEMMA Fits ==
  ASSUME NEW m \in Nat \ {0}, NEW v \in 0 .. m - 1
  PROVE  v % m = v
OBVIOUS

LEMMA EventFollows ==
  ASSUME NEW fd, FieldOK(fd), FieldFits(fd), NEW F, IsFiniteSet(F), NEW x,
         NEW order, NEW tick, NEW n \in Nat, Ints(tick, F), Follows(x, fd, F, order, tick, n),
         NEW w, ComesLast(w, F, order), tick[w] = n
  PROVE  Follows(Effect(fd, w, x), fd, F \union {w}, order, tick, n)
<1>1. CASE w \in fd.writers
  <2>1. fd.value[w] % fd.width = fd.value[w]
    <3> DEFINE v == fd.value[w]
               m == fd.width
    <3>1. m \in Nat \ {0} /\ v \in 0 .. m - 1
      BY <1>1 DEF FieldOK, FieldFits
    <3> HIDE DEF v, m
    <3>2. v % m = v
      BY <3>1, Fits
    <3> QED
      BY <3>2 DEF v, m
  <2>2. /\ w \notin fd.jumpers =>
             Follows(fd.value[w] % fd.width, fd, F \union {w}, order, tick, n)
        /\ w \in fd.jumpers =>
             Follows((fd.value[w] + fd.step * fd.jump[w]) % fd.width,
                     fd, F \union {w}, order, tick, n)
    BY <1>1, WriteFollows
  <2> QED
    BY <1>1, <2>1, <2>2 DEF Effect, Written
<1>2. CASE w \notin fd.writers /\ w \in fd.jumpers
  BY <1>2, JumpFollows DEF Effect, Written
<1>3. CASE w \notin fd.writers /\ w \notin fd.jumpers
  <2>1. /\ F \intersect fd.writers = (F \union {w}) \intersect fd.writers
        /\ F \intersect fd.jumpers = (F \union {w}) \intersect fd.jumpers
    BY <1>3
  <2>2. Follows(x, fd, F \union {w}, order, tick, n)
    BY <2>1, OthersFollow
  <2> QED
    BY <1>3, <2>2 DEF Effect, Written
<1> QED
  BY <1>1, <1>2, <1>3

-------------------------------------------------------------------------------
(* The fields of the engine. The SSRC and the source port are fields that no *)
(* tick and no event moves.                                                 *)

SeqField ==
  [writers |-> SeqWriters, value |-> SeqValue, jumpers |-> SeqJumpers, jump |-> SeqJump,
   start |-> opts.start_seq, step |-> 1, width |-> SeqSpace]

TimestampField ==
  [writers |-> TimestampWriters, value |-> TimestampValue,
   jumpers |-> TimestampJumpers, jump |-> TimestampJump,
   start |-> opts.start_timestamp, step |-> opts.timestamp_step_size, width |-> TsSpace]

UInt32Space == 65536 * 65536

SsrcField ==
  [writers |-> SsrcWriters, value |-> SsrcValue, jumpers |-> {}, jump |-> SsrcValue,
   start |-> opts.start_ssrc, step |-> 0, width |-> UInt32Space]

UInt16Space == 65536

SrcPortField ==
  [writers |-> SrcPortWriters, value |-> SrcPortValue, jumpers |-> {}, jump |-> SrcPortValue,
   start |-> opts.source_port, step |-> 0, width |-> UInt16Space]

LEMMA Spaces ==
  /\ UInt32Space \in Nat \ {0} /\ UInt32 \subseteq 0 .. UInt32Space - 1
  /\ UInt16Space \in Nat \ {0} /\ UInt16 \subseteq 0 .. UInt16Space - 1
<1>1. UInt32Space \in Nat \ {0} /\ UInt16Space \in Nat \ {0}
  BY SMT DEF UInt32Space, UInt16Space
<1>2. ASSUME NEW v \in UInt32 PROVE v \in 0 .. UInt32Space - 1
  <2>1. v \in Nat /\ v < UInt32Space
    BY SMT DEF UInt32, UInt32Space
  <2> HIDE DEF UInt32Space
  <2> QED
    BY <1>1, <2>1
<1>3. ASSUME NEW v \in UInt16 PROVE v \in 0 .. UInt16Space - 1
  <2>1. v \in Nat /\ v < UInt16Space
    BY SMT DEF UInt16, UInt16Space
  <2> HIDE DEF UInt16Space
  <2> QED
    BY <1>1, <2>1
<1> QED
  BY <1>1, <1>2, <1>3

LEMMA EventAt ==
  ASSUME EngineInv, FieldsInv, NEW w \in Places
  PROVE  /\ w[1] \in Kinds /\ w[2] \in Nat /\ w[2] \in 1 .. Len(script[w[1]])
         /\ w = <<w[1], w[2]>>
         /\ Event(w) \in EventType[w[1]] /\ ResetsHaveValue(w[1], Event(w))
<1>1. PICK k \in Kinds : \E i \in DOMAIN script[k] : w = <<k, i>>
  BY DEF Places
<1>2. PICK i \in DOMAIN script[k] : w = <<k, i>>
  BY <1>1
<1>3. script[k] \in Seq(EventType[k]) /\ DOMAIN script[k] = 1 .. Len(script[k])
  BY LenProperties DEF EngineInv, CountersTypeOK
<1>4. script[k][i] \in EventType[k] /\ ResetsHaveValue(k, script[k][i])
  BY <1>3, ElementOfSeq DEF FieldsInv, ScriptResets
<1> QED
  BY <1>2, <1>3, <1>4 DEF Event

LEMMA ResetValues ==
  ASSUME NEW k \in {"ssrc", "timestamp", "codec"}, NEW e \in EventType[k], ResetsHaveValue(k, e)
  PROVE  /\ e.continue_seq = FALSE => e.seq_to_continue \in Seqs
         /\ k # "timestamp" /\ e.continue_timestamp = FALSE =>
              e.timestamp_to_continue \in Timestamps
         /\ k = "codec" /\ e.continue_ssrc = FALSE => e.ssrc_to_continue \in UInt32
<1>1. CASE k = "ssrc"
  <2>1. e.seq_to_continue \in Option(Seqs) /\ e.timestamp_to_continue \in Option(Timestamps)
    BY <1>1 DEF EventType, EventsWith
  <2>2. /\ e.continue_seq = FALSE => e.seq_to_continue # NONE
        /\ e.continue_timestamp = FALSE => e.timestamp_to_continue # NONE
    BY <1>1 DEF ResetsHaveValue, Resettable
  <2> QED
    BY <1>1, <2>1, <2>2 DEF Option
<1>2. CASE k = "timestamp"
  <2>1. e.seq_to_continue \in Option(Seqs)
    BY <1>2 DEF EventType, EventsWith
  <2>2. e.continue_seq = FALSE => e.seq_to_continue # NONE
    BY <1>2 DEF ResetsHaveValue, Resettable
  <2> QED
    BY <1>2, <2>1, <2>2 DEF Option
<1>3. CASE k = "codec"
  <2>1. /\ e.seq_to_continue \in Option(Seqs)
        /\ e.timestamp_to_continue \in Option(Timestamps)
        /\ e.ssrc_to_continue \in Option(UInt32)
    BY <1>3 DEF EventType, EventsWith
  <2>2. /\ e.continue_ssrc = FALSE => e.ssrc_to_continue # NONE
        /\ e.continue_seq = FALSE => e.seq_to_continue # NONE
        /\ e.continue_timestamp = FALSE => e.timestamp_to_continue # NONE
    BY <1>3 DEF ResetsHaveValue, Resettable
  <2> QED
    BY <1>3, <2>1, <2>2 DEF Option
<1> QED
  BY <1>1, <1>2, <1>3

LEMMA SeqFieldOK ==
  ASSUME EngineInv, FieldsInv
  PROVE  FieldOK(SeqField) /\ FieldFits(SeqField)
<1>1. opts.start_seq \in Seqs
  BY ScenariosAssumption DEF EngineInv, CountersTypeOK, IsScenario, OptionsComplete
<1>2. ASSUME NEW w \in SeqWriters PROVE SeqValue[w] \in Seqs
  <2>1. /\ w \in Places /\ w[1] \in {"ssrc", "timestamp", "codec"}
        /\ Event(w).continue_seq = FALSE /\ SeqValue[w] = Event(w).seq_to_continue
    BY DEF SeqWriters, SeqValue, PlacesOf
  <2>2. Event(w) \in EventType[w[1]] /\ ResetsHaveValue(w[1], Event(w))
    BY <2>1, EventAt
  <2> QED
    BY <2>1, <2>2, ResetValues
<1>3. ASSUME NEW w \in SeqJumpers PROVE SeqJump[w] \in Int
  <2>1. /\ w \in Places /\ w[1] = "sequence"
        /\ Event(w).seq_to_jump # NONE /\ SeqJump[w] = Event(w).seq_to_jump
    BY DEF SeqJumpers, SeqJump, PlacesOf
  <2>2. Event(w) \in EventType["sequence"]
    BY <2>1, EventAt
  <2> QED
    BY <2>1, <2>2 DEF EventType, EventsWith, Option, Int16
<1> QED
  BY <1>1, <1>2, <1>3, WidthsAssumption DEF SeqField, FieldOK, FieldFits, Ints, Seqs

LEMMA TimestampFieldOK ==
  ASSUME EngineInv, FieldsInv
  PROVE  FieldOK(TimestampField) /\ FieldFits(TimestampField)
<1>1. opts.start_timestamp \in Timestamps /\ opts.timestamp_step_size \in Nat
  BY ScenariosAssumption, StepType DEF EngineInv, CountersTypeOK, IsScenario, OptionsComplete
<1>2. ASSUME NEW w \in TimestampWriters PROVE TimestampValue[w] \in Timestamps
  <2>1. /\ w \in Places
        /\ \/ /\ w[1] \in {"ssrc", "codec"} /\ Event(w).continue_timestamp = FALSE
              /\ TimestampValue[w] = Event(w).timestamp_to_continue
           \/ /\ w[1] = "timestamp" /\ Event(w).new_timestamp # NONE
              /\ TimestampValue[w] = Event(w).new_timestamp
    BY DEF TimestampWriters, TimestampValue, PlacesOf
  <2>2. Event(w) \in EventType[w[1]] /\ ResetsHaveValue(w[1], Event(w))
    BY <2>1, EventAt
  <2>3. CASE w[1] = "timestamp"
    BY <2>1, <2>2, <2>3 DEF EventType, EventsWith, Option
  <2>4. CASE w[1] \in {"ssrc", "codec"}
    BY <2>1, <2>2, <2>4, ResetValues
  <2> QED
    BY <2>1, <2>3, <2>4
<1>3. ASSUME NEW w \in TimestampJumpers PROVE TimestampJump[w] \in Int
  <2>1. /\ w \in Places /\ w[1] = "timestamp"
        /\ Event(w).steps_to_jump # NONE /\ TimestampJump[w] = Event(w).steps_to_jump
    BY DEF TimestampJumpers, TimestampJump, PlacesOf
  <2>2. Event(w) \in EventType["timestamp"]
    BY <2>1, EventAt
  <2> QED
    BY <2>1, <2>2 DEF EventType, EventsWith, Option, Int16
<1> QED
  BY <1>1, <1>2, <1>3, WidthsAssumption
  DEF TimestampField, FieldOK, FieldFits, Ints, Timestamps

LEMMA SsrcFieldOK ==
  ASSUME EngineInv, FieldsInv
  PROVE  FieldOK(SsrcField) /\ FieldFits(SsrcField)
<1>1. opts.start_ssrc \in UInt32
  BY ScenariosAssumption DEF EngineInv, CountersTypeOK, IsScenario, OptionsComplete
<1>2. ASSUME NEW w \in SsrcWriters PROVE SsrcValue[w] \in UInt32
  <2>1. /\ w \in Places
        /\ \/ /\ w[1] = "ssrc" /\ Event(w).new_ssrc # NONE
              /\ SsrcValue[w] = Event(w).new_ssrc
           \/ /\ w[1] = "codec" /\ Event(w).continue_ssrc = FALSE
              /\ SsrcValue[w] = Event(w).ssrc_to_continue
    BY DEF SsrcWriters, SsrcValue, PlacesOf
  <2>2. Event(w) \in EventType[w[1]] /\ ResetsHaveValue(w[1], Event(w))
    BY <2>1, EventAt
  <2>3. CASE w[1] = "ssrc"
    BY <2>1, <2>2, <2>3 DEF EventType, EventsWith, Option
  <2>4. CASE w[1] = "codec"
    BY <2>1, <2>2, <2>4, ResetValues
  <2> QED
    BY <2>1, <2>3, <2>4
<1>3. \A v \in UInt32 : v \in Int
  BY DEF UInt32
<1>4. 0 \in Int
  OBVIOUS
<1> HIDE DEF UInt32, UInt32Space
<1> QED
  BY <1>1, <1>2, <1>3, <1>4, Spaces DEF SsrcField, FieldOK, FieldFits, Ints

LEMMA SrcPortFieldOK ==
  ASSUME EngineInv, FieldsInv
  PROVE  FieldOK(SrcPortField) /\ FieldFits(SrcPortField)
<1>1. opts.source_port \in UInt16 /\ 0 \in UInt16
  BY ScenariosAssumption, SMT
  DEF EngineInv, CountersTypeOK, IsScenario, OptionsComplete, UInt16
<1>2. ASSUME NEW w \in SrcPortWriters PROVE SrcPortValue[w] \in UInt16
  <2>1. /\ w \in Places /\ w[1] = "transport"
        /\ \/ SrcPortValue[w] = 0
           \/ /\ Event(w).new_source_port # NONE
              /\ SrcPortValue[w] = Event(w).new_source_port
    BY DEF SrcPortWriters, SrcPortValue, PlacesOf
  <2>2. Event(w) \in EventType["transport"]
    BY <2>1, EventAt
  <2>3. Event(w).new_source_port \in Option(UInt16)
    BY <2>2 DEF EventType, EventsWith
  <2> QED
    BY <1>1, <2>1, <2>3 DEF Option
<1>3. \A v \in UInt16 : v \in Int
  BY DEF UInt16
<1>4. 0 \in Int
  OBVIOUS
<1> QED
  BY <1>1, <1>2, <1>3, <1>4, Spaces DEF SrcPortField, FieldOK, FieldFits, Ints

-------------------------------------------------------------------------------
(* What apply() makes of the fields is what the script says of the event.    *)

LEMMA WritersAre ==
  ASSUME NEW w \in Places
  PROVE  /\ w \in SeqWriters <=> w[1] \in {"ssrc", "timestamp", "codec"}
                                  /\ Event(w).continue_seq = FALSE
         /\ w \in SeqJumpers <=> w[1] = "sequence" /\ Event(w).seq_to_jump # NONE
         /\ w \in TimestampWriters <=>
              \/ w[1] \in {"ssrc", "codec"} /\ Event(w).continue_timestamp = FALSE
              \/ w[1] = "timestamp" /\ Event(w).new_timestamp # NONE
         /\ w \in TimestampJumpers <=> w[1] = "timestamp" /\ Event(w).steps_to_jump # NONE
         /\ w \in SsrcWriters <=>
              \/ w[1] = "ssrc" /\ Event(w).new_ssrc # NONE
              \/ w[1] = "codec" /\ Event(w).continue_ssrc = FALSE
         /\ w \in SrcPortWriters <=>
              w[1] = "transport" /\ \/ Event(w).use_random_new_source_port = TRUE
                                    \/ Event(w).new_source_port # NONE
BY DEF PlacesOf, SeqWriters, SeqJumpers, TimestampWriters, TimestampJumpers,
       SsrcWriters, SrcPortWriters

LEMMA SeqEffect ==
  ASSUME NEW w \in Places, NEW s \in RtpType,
         w[1] \in {"ssrc", "timestamp", "codec", "sequence"},
         w[1] = "sequence" => Event(w) \in EventType["sequence"]
  PROVE  Apply(w[1], s, Event(w)).seq = Effect(SeqField, w, s.seq)
<1> DEFINE e == Event(w)
<1>1. CASE w[1] = "sequence"
  <2>1. Apply(w[1], s, e).seq =
          IF e.seq_to_jump = NONE THEN s.seq ELSE (s.seq + e.seq_to_jump) % SeqSpace
    BY <1>1 DEF Apply, ApplySequence, RtpType
  <2>2. w \notin SeqWriters /\ (w \in SeqJumpers <=> e.seq_to_jump # NONE)
    BY <1>1, WritersAre
  <2>3. e.seq_to_jump # NONE => SeqJump[w] = e.seq_to_jump /\ 1 * e.seq_to_jump = e.seq_to_jump
    BY <1>1, <2>2 DEF SeqJump, EventType, EventsWith, Option, Int16
  <2> QED
    BY <2>1, <2>2, <2>3 DEF Effect, Written, SeqField
<1>2. CASE w[1] \in {"ssrc", "timestamp", "codec"}
  <2>1. Apply(w[1], s, e).seq = Continue(e.continue_seq, e.seq_to_continue, s.seq)
    BY <1>2 DEF Apply, ApplySsrc, ApplyTimestamp, ApplyCodec, RtpType
  <2>2. w \notin SeqJumpers /\ (w \in SeqWriters <=> e.continue_seq = FALSE)
    BY <1>2, WritersAre
  <2>3. w \in SeqWriters => SeqValue[w] = e.seq_to_continue
    BY DEF SeqValue
  <2> QED
    BY <2>1, <2>2, <2>3 DEF Effect, Written, SeqField, Continue
<1> QED
  BY <1>1, <1>2

LEMMA TimestampEffect ==
  ASSUME opts \in Scenarios, NEW w \in Places, NEW s \in RtpType,
         w[1] \in {"ssrc", "timestamp", "codec", "sequence"},
         w[1] = "timestamp" => Event(w) \in EventType["timestamp"]
  PROVE  Apply(w[1], s, Event(w)).timestamp = Effect(TimestampField, w, s.timestamp)
<1> DEFINE e == Event(w)
<1>1. CASE w[1] = "timestamp"
  <2> DEFINE v == ValueOr(e.new_timestamp, s.timestamp)
             step == opts.timestamp_step_size
  <2>1. Apply(w[1], s, e).timestamp = JumpTimestamp(v, e.steps_to_jump)
    BY <1>1 DEF Apply, ApplyTimestamp, RtpType
  <2>2. /\ w \in TimestampWriters <=> e.new_timestamp # NONE
        /\ w \in TimestampJumpers <=> e.steps_to_jump # NONE
    BY <1>1, WritersAre
  <2>3. w \in TimestampWriters => TimestampValue[w] = e.new_timestamp
    BY <1>1 DEF TimestampValue
  <2>4. Written(TimestampField, w, s.timestamp) = v
    BY <2>2, <2>3 DEF Written, TimestampField, ValueOr
  <2>5. e.steps_to_jump # NONE =>
          TimestampJump[w] = e.steps_to_jump /\ step * e.steps_to_jump = e.steps_to_jump * step
    <3>1. e.steps_to_jump # NONE => e.steps_to_jump \in Int
      BY <1>1 DEF EventType, EventsWith, Option, Int16
    <3>2. step \in Int
      BY StepType
    <3>3. w \in TimestampJumpers => TimestampJump[w] = e.steps_to_jump
      BY DEF TimestampJump
    <3> HIDE DEF e, step
    <3> QED
      BY <2>2, <3>1, <3>2, <3>3
  <2> QED
    BY <2>1, <2>2, <2>4, <2>5 DEF Effect, TimestampField, JumpTimestamp
<1>2. CASE w[1] \in {"ssrc", "codec"}
  <2>1. Apply(w[1], s, e).timestamp =
          Continue(e.continue_timestamp, e.timestamp_to_continue, s.timestamp)
    BY <1>2 DEF Apply, ApplySsrc, ApplyCodec, RtpType
  <2>2. w \notin TimestampJumpers /\ (w \in TimestampWriters <=> e.continue_timestamp = FALSE)
    BY <1>2, WritersAre
  <2>3. w \in TimestampWriters => TimestampValue[w] = e.timestamp_to_continue
    BY <1>2 DEF TimestampValue
  <2> QED
    BY <2>1, <2>2, <2>3 DEF Effect, Written, TimestampField, Continue
<1>3. CASE w[1] = "sequence"
  <2>1. Apply(w[1], s, e).timestamp = s.timestamp
    BY <1>3 DEF Apply, ApplySequence, RtpType
  <2>2. w \notin TimestampJumpers /\ w \notin TimestampWriters
    BY <1>3, WritersAre
  <2> QED
    BY <2>1, <2>2 DEF Effect, Written, TimestampField
<1> QED
  BY <1>1, <1>2, <1>3

LEMMA SsrcEffect ==
  ASSUME NEW w \in Places, NEW s \in RtpType,
         w[1] \in {"ssrc", "timestamp", "codec", "sequence"}
  PROVE  Apply(w[1], s, Event(w)).ssrc = Effect(SsrcField, w, s.ssrc)
<1> DEFINE e == Event(w)
<1>1. CASE w[1] = "ssrc"
  <2>1. Apply(w[1], s, e).ssrc = ValueOr(e.new_ssrc, s.ssrc)
    BY <1>1 DEF Apply, ApplySsrc, RtpType
  <2>2. w \in SsrcWriters <=> e.new_ssrc # NONE
    BY <1>1, WritersAre
  <2>3. w \in SsrcWriters => SsrcValue[w] = e.new_ssrc
    BY <1>1 DEF SsrcValue
  <2> QED
    BY <2>1, <2>2, <2>3 DEF Effect, Written, SsrcField, ValueOr
<1>2. CASE w[1] = "codec"
  <2>1. Apply(w[1], s, e).ssrc = Continue(e.continue_ssrc, e.ssrc_to_continue, s.ssrc)
    BY <1>2 DEF Apply, ApplyCodec, RtpType
  <2>2. w \in SsrcWriters <=> e.continue_ssrc = FALSE
    BY <1>2, WritersAre
  <2>3. w \in SsrcWriters => SsrcValue[w] = e.ssrc_to_continue
    BY <1>2 DEF SsrcValue
  <2> QED
    BY <2>1, <2>2, <2>3 DEF Effect, Written, SsrcField, Continue
<1>3. CASE w[1] \in {"timestamp", "sequence"}
  <2>1. Apply(w[1], s, e).ssrc = s.ssrc
    BY <1>3 DEF Apply, ApplyTimestamp, ApplySequence, RtpType
  <2>2. w \notin SsrcWriters
    BY <1>3, WritersAre
  <2> QED
    BY <2>1, <2>2 DEF Effect, Written, SsrcField
<1> QED
  BY <1>1, <1>2, <1>3

LEMMA SrcPortEffect ==
  ASSUME NEW w \in Places, NEW t \in TransportType, w[1] = "transport"
  PROVE  Apply(w[1], t, Event(w)).src_port = Effect(SrcPortField, w, t.src_port)
<1> DEFINE e == Event(w)
<1>1. Apply(w[1], t, e).src_port =
        IF e.use_random_new_source_port = TRUE THEN 0 ELSE ValueOr(e.new_source_port, t.src_port)
  BY DEF Apply, ApplyTransport, TransportType
<1>2. w \in SrcPortWriters <=> \/ e.use_random_new_source_port = TRUE
                               \/ e.new_source_port # NONE
  BY WritersAre
<1>3. w \in SrcPortWriters =>
        SrcPortValue[w] = IF e.use_random_new_source_port = TRUE THEN 0 ELSE e.new_source_port
  BY DEF SrcPortValue
<1> QED
  BY <1>1, <1>2, <1>3 DEF Effect, Written, SrcPortField, ValueOr

-------------------------------------------------------------------------------
(* The loops, event by event.                                               *)

\* The fields of s follow the script when the events F have taken effect.
Holds(s, F, order, tick, n) ==
  /\ Follows(s.seq, SeqField, F, order, tick, n)
  /\ Follows(s.timestamp, TimestampField, F, order, tick, n)
  /\ Follows(s.ssrc, SsrcField, F, order, tick, n)

LEMMA EventHolds ==
  ASSUME EngineInv, FieldsInv, NEW w \in Places,
         w[1] \in {"ssrc", "timestamp", "codec", "sequence"},
         NEW F, IsFiniteSet(F), NEW order, NEW tick, NEW n \in Nat, Ints(tick, F),
         ComesLast(w, F, order), tick[w] = n,
         NEW s \in RtpType, Holds(s, F, order, tick, n)
  PROVE  /\ Apply(w[1], s, Event(w)) \in RtpType
         /\ Holds(Apply(w[1], s, Event(w)), F \union {w}, order, tick, n)
<1> DEFINE t == Apply(w[1], s, Event(w))
<1>1. opts \in Scenarios /\ Event(w) \in EventType[w[1]] /\ ResetsHaveValue(w[1], Event(w))
  BY EventAt DEF EngineInv, CountersTypeOK
<1>2. t \in RtpType
  BY <1>1, ApplyType DEF Kinds
<1>3. /\ t.seq = Effect(SeqField, w, s.seq)
      /\ t.timestamp = Effect(TimestampField, w, s.timestamp)
      /\ t.ssrc = Effect(SsrcField, w, s.ssrc)
  BY <1>1, SeqEffect, TimestampEffect, SsrcEffect
<1> HIDE DEF t
<1>4. Follows(Effect(SeqField, w, s.seq), SeqField, F \union {w}, order, tick, n)
  <2>1. Follows(s.seq, SeqField, F, order, tick, n)
    BY DEF Holds
  <2> QED
    BY <2>1, SeqFieldOK, EventFollows
<1>5. Follows(Effect(TimestampField, w, s.timestamp), TimestampField,
              F \union {w}, order, tick, n)
  <2>1. Follows(s.timestamp, TimestampField, F, order, tick, n)
    BY DEF Holds
  <2> QED
    BY <2>1, TimestampFieldOK, EventFollows
<1>6. Follows(Effect(SsrcField, w, s.ssrc), SsrcField, F \union {w}, order, tick, n)
  <2>1. Follows(s.ssrc, SsrcField, F, order, tick, n)
    BY DEF Holds
  <2> QED
    BY <2>1, SsrcFieldOK, EventFollows
<1>7. t \in RtpType /\ Holds(t, F \union {w}, order, tick, n)
  BY <1>2, <1>3, <1>4, <1>5, <1>6 DEF Holds
<1> QED
  BY <1>7 DEF t

\* The d events of the deque of kind k that follow the first c.
Batch(k, c, d) == {<<k, c + i>> : i \in 1 .. d}

LEMMA BatchGrows ==
  ASSUME NEW k, NEW c \in Nat, NEW m \in Nat \ {0}
  PROVE  Batch(k, c, m) = Batch(k, c, m - 1) \union {<<k, c + m>>}
BY DEF Batch

LEMMA BatchPart ==
  ASSUME NEW k, NEW c, NEW d \in Nat, NEW m \in 1 .. d
  PROVE  Batch(k, c, m - 1) \subseteq Batch(k, c, d)
<1>1. \A i \in 1 .. m - 1 : i \in 1 .. d
  OBVIOUS
<1> QED
  BY <1>1 DEF Batch

LEMMA BatchOfNone ==
  ASSUME NEW k, NEW c
  PROVE  Batch(k, c, 0) = {}
<1>1. 1 .. 0 = {}
  OBVIOUS
<1> QED
  BY <1>1 DEF Batch

LEMMA LoopHolds ==
  ASSUME EngineInv, FieldsInv, NEW k \in {"ssrc", "timestamp", "codec", "sequence"},
         NEW c \in Nat, NEW d \in Nat, NEW q, DOMAIN q = 1 .. d,
         \A i \in 1 .. d : <<k, c + i>> \in Places /\ q[i] = Event(<<k, c + i>>),
         NEW F, IsFiniteSet(F), NEW order, NEW tick, NEW n \in Nat,
         Ints(tick, F \union Batch(k, c, d)),
         \A i \in 1 .. d : /\ ComesLast(<<k, c + i>>, F \union Batch(k, c, i - 1), order)
                           /\ tick[<<k, c + i>>] = n,
         NEW s \in RtpType, Holds(s, F, order, tick, n)
  PROVE  /\ IsFiniteSet(F \union Batch(k, c, d))
         /\ ApplyAll(k, s, q) \in RtpType
         /\ Holds(ApplyAll(k, s, q), F \union Batch(k, c, d), order, tick, n)
<1> DEFINE P == [m \in 0 .. d |->
                   {t \in RtpType : /\ IsFiniteSet(F \union Batch(k, c, m))
                                    /\ Holds(t, F \union Batch(k, c, m), order, tick, n)}]
<1>1. s \in P[0]
  <2>1. F \union Batch(k, c, 0) = F /\ 0 \in 0 .. d
    BY BatchOfNone
  <2> QED
    BY <2>1
<1>2. ASSUME NEW m \in 1 .. d, NEW t \in P[m - 1] PROVE Apply(k, t, q[m]) \in P[m]
  <2> DEFINE w == <<k, c + m>>
             G == F \union Batch(k, c, m - 1)
  <2>1. m - 1 \in 0 .. d /\ m \in Nat \ {0} /\ m \in 0 .. d
    OBVIOUS
  <2>2. t \in RtpType /\ IsFiniteSet(G) /\ Holds(t, G, order, tick, n)
    BY <2>1
  <2>3. F \union Batch(k, c, m) = G \union {w} /\ G \subseteq F \union Batch(k, c, d)
    <3>1. Batch(k, c, m) = Batch(k, c, m - 1) \union {w}
      BY <2>1, BatchGrows
    <3>2. Batch(k, c, m - 1) \subseteq Batch(k, c, d)
      BY BatchPart
    <3> QED
      BY <3>1, <3>2
  <2>4. w \in Places /\ w[1] = k /\ q[m] = Event(w) /\ ComesLast(w, G, order) /\ tick[w] = n
    OBVIOUS
  <2>5. Ints(tick, G)
    BY <2>3 DEF Ints
  <2> HIDE DEF w, G, P
  <2>6. /\ Apply(k, t, q[m]) \in RtpType
        /\ Holds(Apply(k, t, q[m]), G \union {w}, order, tick, n)
    BY <2>2, <2>4, <2>5, EventHolds
  <2>7. IsFiniteSet(G \union {w})
    BY <2>2, FS_AddElement
  <2> QED
    BY <2>1, <2>3, <2>6, <2>7 DEF P
<1> HIDE DEF P
<1>3. ApplyAll(k, s, q) \in P[d]
  BY <1>1, <1>2, LoopInduction
<1> QED
  BY <1>3 DEF P

LEMMA TransportLoopHolds ==
  ASSUME EngineInv, FieldsInv,
         NEW c \in Nat, NEW d \in Nat, NEW q, DOMAIN q = 1 .. d,
         \A i \in 1 .. d : /\ <<"transport", c + i>> \in Places
                           /\ q[i] = Event(<<"transport", c + i>>),
         NEW F, IsFiniteSet(F), NEW order, NEW tick, NEW n \in Nat,
         Ints(tick, F \union Batch("transport", c, d)),
         \A i \in 1 .. d :
           /\ ComesLast(<<"transport", c + i>>, F \union Batch("transport", c, i - 1), order)
           /\ tick[<<"transport", c + i>>] = n,
         NEW s \in TransportType, Follows(s.src_port, SrcPortField, F, order, tick, n)
  PROVE  Follows(ApplyAll("transport", s, q).src_port, SrcPortField,
                 F \union Batch("transport", c, d), order, tick, n)
<1> DEFINE k == "transport"
           P == [m \in 0 .. d |->
                   {t \in TransportType :
                      /\ IsFiniteSet(F \union Batch(k, c, m))
                      /\ Follows(t.src_port, SrcPortField, F \union Batch(k, c, m),
                                 order, tick, n)}]
<1>1. s \in P[0]
  <2>1. F \union Batch(k, c, 0) = F /\ 0 \in 0 .. d
    BY BatchOfNone
  <2> QED
    BY <2>1
<1>2. ASSUME NEW m \in 1 .. d, NEW t \in P[m - 1] PROVE Apply(k, t, q[m]) \in P[m]
  <2> DEFINE w == <<k, c + m>>
             G == F \union Batch(k, c, m - 1)
             u == Apply(k, t, q[m])
  <2>1. m - 1 \in 0 .. d /\ m \in Nat \ {0} /\ m \in 0 .. d
    OBVIOUS
  <2>2. /\ t \in TransportType /\ IsFiniteSet(G)
        /\ Follows(t.src_port, SrcPortField, G, order, tick, n)
    BY <2>1
  <2>3. F \union Batch(k, c, m) = G \union {w} /\ G \subseteq F \union Batch(k, c, d)
    <3>1. Batch(k, c, m) = Batch(k, c, m - 1) \union {w}
      BY <2>1, BatchGrows
    <3>2. Batch(k, c, m - 1) \subseteq Batch(k, c, d)
      BY BatchPart
    <3> QED
      BY <3>1, <3>2
  <2>4. w \in Places /\ w[1] = k /\ q[m] = Event(w) /\ ComesLast(w, G, order) /\ tick[w] = n
    OBVIOUS
  <2>5. Ints(tick, G)
    BY <2>3 DEF Ints
  <2>6. Event(w) \in EventType["transport"]
    BY <2>4, EventAt
  <2>7. u \in TransportType /\ u.src_port = Effect(SrcPortField, w, t.src_port)
    BY <2>2, <2>4, <2>6, ApplyTransportType, SrcPortEffect DEF Apply
  <2> HIDE DEF w, G, P, u
  <2>8. Follows(Effect(SrcPortField, w, t.src_port), SrcPortField,
                G \union {w}, order, tick, n)
    BY <2>2, <2>4, <2>5, SrcPortFieldOK, EventFollows
  <2>9. IsFiniteSet(G \union {w})
    BY <2>2, FS_AddElement
  <2>10. u \in P[m]
    BY <2>1, <2>3, <2>7, <2>8, <2>9 DEF P
  <2> QED
    BY <2>10 DEF u
<1> HIDE DEF P, k
<1>3. ApplyAll(k, s, q) \in P[d]
  BY <1>1, <1>2, LoopInduction
<1> QED
  BY <1>3 DEF P, k

-------------------------------------------------------------------------------
(* The clock, and what one tick adds to the events that have taken effect.   *)

ClockInv ==
  /\ clock \in Seq(Nat) /\ Len(clock) = packet_count
  /\ \A n \in 1 .. packet_count : clock[n] <= Now
  /\ packet_count # 0 => clock[packet_count] = Now
  /\ packet_count = 0 => Now = 0

TimelineInv == EngineInv /\ FieldsInv /\ ClockInv

LEMMA ClockTypes ==
  ASSUME EngineInv, ClockInv
  PROVE  /\ packet_count \in Nat /\ Now \in Nat
         /\ DOMAIN clock = 1 .. packet_count
         /\ \A n \in 1 .. packet_count : clock[n] \in Nat
BY LenProperties, ElementOfSeq DEF EngineInv, CountersTypeOK, ClockInv, Now

LEMMA TriggerAt ==
  ASSUME EngineInv, FieldsInv, NEW w \in Places
  PROVE  Event(w).trigger_value \in Nat \ {0}
<1>1. w[1] \in Kinds /\ Event(w) \in EventType[w[1]]
  BY EventAt
<1> QED
  BY <1>1, EventHasTrigger

\* An event has taken effect when the clock has reached it ...
LEMMA FiredIsReached ==
  ASSUME TimelineInv, NEW w \in Places
  PROVE  w \in Fired <=> Event(w).trigger_value <= Now
<1>1. /\ packet_count \in Nat /\ Now \in Nat /\ DOMAIN clock = 1 .. packet_count
      /\ \A n \in 1 .. packet_count : clock[n] \in Nat
  BY ClockTypes DEF TimelineInv
<1> DEFINE t == Event(w).trigger_value
<1>2. t \in Nat \ {0}
  BY TriggerAt DEF TimelineInv
<1>3. w \in Fired <=> \E n \in 1 .. packet_count : clock[n] >= t
  BY <1>1 DEF Fired
<1> HIDE DEF t
<1>4. ASSUME NEW n \in 1 .. packet_count, clock[n] >= t PROVE t <= Now
  <2>1. clock[n] <= Now /\ clock[n] \in Nat
    BY <1>1 DEF TimelineInv, ClockInv
  <2> QED
    BY <1>1, <1>2, <1>4, <2>1
<1>5. ASSUME t <= Now PROVE \E n \in 1 .. packet_count : clock[n] >= t
  <2>1. packet_count # 0
    BY <1>2, <1>5 DEF TimelineInv, ClockInv
  <2>2. packet_count \in 1 .. packet_count /\ clock[packet_count] = Now
    BY <1>1, <2>1 DEF TimelineInv, ClockInv
  <2> QED
    BY <1>1, <1>2, <1>5, <2>2
<1> QED
  BY <1>3, <1>4, <1>5 DEF t

\* ... which is when its deque no longer holds it.
FiredAreConsumed == \A w \in Places : w \in Fired <=> w[2] <= Consumed(w[1])

LEMMA FiredIsConsumed == TimelineInv => FiredAreConsumed
<1> SUFFICES ASSUME TimelineInv, NEW w \in Places
             PROVE  w \in Fired <=> w[2] <= Consumed(w[1])
  BY DEF FiredAreConsumed
<1>1. w[1] \in Kinds /\ w[2] \in DOMAIN script[w[1]]
  BY DEF Places
<1>2. w[2] <= Consumed(w[1]) <=> script[w[1]][w[2]].trigger_value <= Now
  BY <1>1 DEF TimelineInv, EngineInv, PendingIsFuture
<1> QED
  BY <1>2, FiredIsReached DEF Event

LEMMA MinIs ==
  ASSUME NEW S, S \subseteq Nat, NEW x \in S, \A y \in S : x <= y
  PROVE  Min(S) = x
<1>1. Min(S) \in S /\ \A y \in S : Min(S) <= y
  BY DEF Min
<1>2. Min(S) <= x /\ x <= Min(S) /\ Min(S) \in Nat /\ x \in Nat
  BY <1>1
<1> QED
  BY <1>2

LEMMA MinOfMore ==
  ASSUME NEW n \in Nat, NEW S, S \subseteq 1 .. n, S # {},
         NEW T, S \subseteq T, T \subseteq S \union {n + 1}
  PROVE  Min(T) = Min(S) /\ Min(S) \in 1 .. n
<1>1. S \subseteq Nat /\ T \subseteq Nat
  OBVIOUS
<1>2. PICK x \in S : \A y \in S : x <= y
  BY <1>1, LeastNat
<1>3. x \in T /\ \A y \in T : x <= y
  BY <1>2
<1>4. Min(S) = x
  BY <1>1, <1>2, MinIs
<1>5. Min(T) = x
  BY <1>1, <1>3, MinIs
<1> QED
  BY <1>4, <1>5

\* One step of the timeline is one tick, which writes the clock down.
TimelineTick(delta) == Tick(delta) /\ clock' = Append(clock, Now')

LEMMA TickClock ==
  ASSUME TimelineInv, NEW delta \in Nat, TimelineTick(delta)
  PROVE  /\ TimelineInv'
         /\ packet_count' = packet_count + 1
         /\ \A n \in 1 .. packet_count : clock'[n] = clock[n]
         /\ clock'[packet_count + 1] = Now'
<1>1. EngineInv' /\ FieldsInv'
  BY Tick_Inv, TickFields DEF TimelineInv, TimelineTick
<1>2. Now \in Nat /\ Now' \in Nat /\ Now <= Now' /\ packet_count' = packet_count + 1
  BY TickTypes DEF TimelineInv, TimelineTick, Tick
<1>3. packet_count \in Nat /\ clock \in Seq(Nat) /\ Len(clock) = packet_count
  BY ClockTypes DEF TimelineInv, ClockInv
<1>4. /\ clock' \in Seq(Nat) /\ Len(clock') = packet_count + 1
      /\ \A n \in 1 .. packet_count : clock'[n] = clock[n]
      /\ clock'[packet_count + 1] = Now'
  <2> DEFINE now == Now'
  <2>1. clock' = Append(clock, now) /\ now \in Nat
    BY <1>2 DEF TimelineTick
  <2> HIDE DEF now
  <2> QED
    BY <1>3, <2>1, AppendProperties DEF now
<1>5. \A n \in 1 .. packet_count : clock[n] <= Now /\ clock[n] \in Nat
  BY ClockTypes DEF TimelineInv, ClockInv
<1>6. ASSUME NEW n \in 1 .. packet_count' PROVE clock'[n] <= Now'
  <2>1. CASE n = packet_count + 1
    BY <1>2, <1>4, <2>1
  <2>2. CASE n # packet_count + 1
    <3>1. n \in 1 .. packet_count
      BY <1>2, <1>3, <2>2
    <3> QED
      BY <1>2, <1>4, <1>5, <3>1
  <2> QED
    BY <2>1, <2>2
<1>7. ClockInv'
  <2>1. packet_count + 1 # 0
    BY <1>3
  <2> QED
    BY <1>2, <1>4, <1>6, <2>1 DEF ClockInv
<1> QED
  BY <1>1, <1>2, <1>4, <1>7 DEF TimelineInv

LEMMA TickFires ==
  ASSUME TimelineInv, NEW delta \in Nat, TimelineTick(delta)
  PROVE  /\ Places' = Places
         /\ \A w \in Fired : /\ w \in Fired' /\ w \in Places
                             /\ TickOf(w)' = TickOf(w) /\ TickOf(w) \in 1 .. packet_count
         /\ \A w \in Fired' : w \notin Fired => TickOf(w)' = packet_count + 1
<1>1. script' = script /\ Places' = Places /\ \A w : Event(w)' = Event(w)
  BY DEF TimelineTick, Tick, Places, Event
<1>2. /\ packet_count \in Nat /\ DOMAIN clock = 1 .. packet_count
      /\ \A n \in 1 .. packet_count : clock[n] \in Nat
  BY ClockTypes DEF TimelineInv
<1>3. /\ packet_count' = packet_count + 1
      /\ \A n \in 1 .. packet_count : clock'[n] = clock[n]
      /\ clock'[packet_count + 1] = Now'
      /\ TimelineInv'
  BY TickClock
<1>4. DOMAIN clock' = 1 .. packet_count + 1
  BY <1>3, LenProperties DEF TimelineInv, ClockInv
<1>5. ASSUME NEW w \in Fired
      PROVE  /\ w \in Fired' /\ w \in Places
             /\ TickOf(w)' = TickOf(w) /\ TickOf(w) \in 1 .. packet_count
  <2> DEFINE t == Event(w).trigger_value
             n == packet_count
             S == {m \in DOMAIN clock : clock[m] >= t}
             T == {m \in DOMAIN clock' : clock'[m] >= t}
  <2>1. S \subseteq 1 .. n /\ S # {} /\ S \subseteq T /\ T \subseteq S \union {n + 1}
    <3>1. S \subseteq 1 .. n /\ S # {}
      BY <1>2 DEF Fired
    <3>2. \A m \in 1 .. n : m \in 1 .. n + 1
      BY <1>2
    <3>3. \A m \in 1 .. n + 1 : m \in 1 .. n \/ m = n + 1
      BY <1>2
    <3> QED
      BY <1>2, <1>3, <1>4, <3>1, <3>2, <3>3
  <2>2. Event(w)' = Event(w)
    BY <1>1
  <2>3. TickOf(w) = Min(S) /\ TickOf(w)' = Min(T)
    BY <2>2 DEF TickOf
  <2>4. w \in Fired' /\ w \in Places
    <3>1. T # {}
      BY <2>1
    <3> QED
      BY <1>1, <3>1 DEF Fired
  <2>5. n \in Nat
    BY <1>2
  <2> HIDE DEF S, T, n
  <2>6. Min(T) = Min(S) /\ Min(S) \in 1 .. n
    BY <2>1, <2>5, MinOfMore
  <2> QED
    BY <2>3, <2>4, <2>6 DEF n
<1>6. ASSUME NEW w \in Fired', w \notin Fired
      PROVE  TickOf(w)' = packet_count + 1
  <2> DEFINE t == Event(w).trigger_value
             T == {m \in DOMAIN clock' : clock'[m] >= t}
  <2>1. w \in Places /\ Event(w)' = Event(w)
    BY <1>1 DEF Fired
  <2>2. \A m \in 1 .. packet_count : ~(clock[m] >= t)
    BY <1>2, <1>6, <2>1 DEF Fired
  <2>3. T # {} /\ TickOf(w)' = Min(T)
    BY <1>1, <2>1 DEF Fired, TickOf
  <2>4. \A m \in T : m = packet_count + 1
    BY <1>2, <1>3, <1>4, <2>2
  <2> DEFINE n == packet_count + 1
  <2>5. n \in T /\ T \subseteq Nat /\ \A y \in T : n <= y
    BY <1>2, <2>3, <2>4
  <2> HIDE DEF T, n
  <2>6. Min(T) = n
    BY <2>5, MinIs
  <2> QED
    BY <2>3, <2>6 DEF n
<1> QED
  BY <1>1, <1>5, <1>6

LEMMA Lexicographic ==
  ASSUME NEW a, NEW b, NEW c, NEW d, NEW e, NEW f,
         NEW p, p = <<a, b, c>>, NEW q, q = <<d, e, f>>
  PROVE  (\E i \in 1 .. 3 : p[i] < q[i] /\ \A j \in 1 .. i - 1 : p[j] = q[j])
           <=> \/ a < d
               \/ a = d /\ b < e
               \/ a = d /\ b = e /\ c < f
<1>1. 1 .. 3 = {1, 2, 3} /\ 1 .. 1 - 1 = {} /\ 1 .. 2 - 1 = {1} /\ 1 .. 3 - 1 = {1, 2}
  OBVIOUS
<1>2. /\ p[1] = a /\ p[2] = b /\ p[3] = c
      /\ q[1] = d /\ q[2] = e /\ q[3] = f
  OBVIOUS
<1>3. \A i \in {1, 2, 3} : i = 1 \/ i = 2 \/ i = 3
  OBVIOUS
<1> QED
  BY <1>1, <1>2, <1>3

LEMMA RankType ==
  ASSUME EngineInv, FieldsInv, NEW w \in Places
  PROVE  Rank[w[1]] \in Nat /\ w[2] \in Nat
<1>1. w[1] \in Kinds /\ w[2] \in Nat
  BY EventAt
<1> QED
  BY <1>1 DEF Kinds, Rank

\* A tick does not change the order of the past, and the events of a tick come
\* after those of the past, by kind and then by place in their deque.
LEMMA TickOrder ==
  ASSUME TimelineInv, NEW delta \in Nat, TimelineTick(delta)
  PROVE  /\ \A v, w \in Fired : <<v, w>> \in Order' <=> <<v, w>> \in Order
         /\ \A w \in Fired' : w \notin Fired =>
              \A G \in SUBSET Fired' :
                (\A v \in G : \/ v \in Fired
                              \/ Rank[v[1]] < Rank[w[1]]
                              \/ v[1] = w[1] /\ v[2] < w[2])
                => ComesLast(w, G, Order')
<1>1. /\ \A w \in Fired : /\ w \in Fired' /\ w \in Places
                          /\ TickOf(w)' = TickOf(w) /\ TickOf(w) \in 1 .. packet_count
      /\ \A w \in Fired' : w \notin Fired => TickOf(w)' = packet_count + 1
  BY TickFires
<1>2. packet_count \in Nat
  BY ClockTypes DEF TimelineInv
<1>3. \A w \in Fired' : Rank[w[1]] \in Nat /\ w[2] \in Nat
  <2>1. \A w \in Fired' : w \in Places
    BY TickFires DEF Fired
  <2> QED
    BY <2>1, RankType DEF TimelineInv
<1>4. \A v, w : Before(v, w) <=> \/ TickOf(v) < TickOf(w)
                                 \/ TickOf(v) = TickOf(w) /\ Rank[v[1]] < Rank[w[1]]
                                 \/ /\ TickOf(v) = TickOf(w) /\ Rank[v[1]] = Rank[w[1]]
                                    /\ v[2] < w[2]
  <2> TAKE v, w
  <2> DEFINE p == Position(v)
             q == Position(w)
  <2>1. /\ p = <<TickOf(v), Rank[v[1]], v[2]>>
        /\ q = <<TickOf(w), Rank[w[1]], w[2]>>
        /\ Before(v, w) <=> \E i \in 1 .. 3 : p[i] < q[i] /\ \A j \in 1 .. i - 1 : p[j] = q[j]
    BY DEF Before, Position
  <2> HIDE DEF p, q
  <2> QED
    BY <2>1, Lexicographic
<1>5. \A v, w : Before(v, w)' <=> \/ TickOf(v)' < TickOf(w)'
                                  \/ TickOf(v)' = TickOf(w)' /\ Rank[v[1]] < Rank[w[1]]
                                  \/ /\ TickOf(v)' = TickOf(w)' /\ Rank[v[1]] = Rank[w[1]]
                                     /\ v[2] < w[2]
  <2> TAKE v, w
  <2> DEFINE p == Position(v)'
             q == Position(w)'
  <2>1. /\ p = <<TickOf(v)', Rank[v[1]], v[2]>>
        /\ q = <<TickOf(w)', Rank[w[1]], w[2]>>
        /\ Before(v, w)' <=> \E i \in 1 .. 3 : p[i] < q[i] /\ \A j \in 1 .. i - 1 : p[j] = q[j]
    BY DEF Before, Position
  <2> HIDE DEF p, q
  <2> QED
    BY <2>1, Lexicographic
<1>6. ASSUME NEW v \in Fired, NEW w \in Fired
      PROVE  <<v, w>> \in Order' <=> <<v, w>> \in Order
  <2>1. Before(v, w)' <=> Before(v, w)
    BY <1>1, <1>4, <1>5
  <2>2. <<v, w>> \in Order <=> Before(v, w)
    BY DEF Order
  <2>3. <<v, w>> \in Order' <=> Before(v, w)'
    BY <1>1 DEF Order
  <2> QED
    BY <2>1, <2>2, <2>3
<1>7. ASSUME NEW w \in Fired', w \notin Fired, NEW G \in SUBSET Fired',
             \A v \in G : \/ v \in Fired
                          \/ Rank[v[1]] < Rank[w[1]]
                          \/ v[1] = w[1] /\ v[2] < w[2]
      PROVE  ComesLast(w, G, Order')
  <2>1. TickOf(w)' = packet_count + 1 /\ Rank[w[1]] \in Nat /\ w[2] \in Nat
    BY <1>1, <1>3, <1>7
  <2>2. w \notin G
    BY <1>7, <2>1
  <2>3. ~Before(w, w)'
    BY <1>2, <1>5, <2>1
  <2>4. ASSUME NEW v \in G PROVE Before(v, w)' /\ ~Before(w, v)'
    <3>1. v \in Fired' /\ Rank[v[1]] \in Nat /\ v[2] \in Nat
      BY <1>3
    <3>2. CASE v \in Fired
      <4>1. TickOf(v)' \in 1 .. packet_count
        BY <1>1, <3>2
      <4>2. TickOf(v)' < TickOf(w)' /\ ~(TickOf(w)' < TickOf(v)') /\ TickOf(w)' # TickOf(v)'
        BY <1>2, <2>1, <4>1
      <4> QED
        BY <1>5, <4>2
    <3>3. CASE v \notin Fired
      <4>1. TickOf(v)' = TickOf(w)' /\ ~(TickOf(w)' < TickOf(v)')
        BY <1>1, <1>2, <2>1, <3>1, <3>3
      <4>2. \/ Rank[v[1]] < Rank[w[1]]
            \/ v[1] = w[1] /\ v[2] < w[2]
        BY <1>7, <3>3
      <4> QED
        BY <1>5, <2>1, <3>1, <4>1, <4>2
    <3> QED
      BY <3>2, <3>3
  <2>5. \A u, v : <<u, v>> \in Order' <=> u \in Fired' /\ v \in Fired' /\ Before(u, v)'
    BY DEF Order
  <2>6. <<w, w>> \notin Order'
    BY <2>3, <2>5
  <2>7. \A v \in G : <<v, w>> \in Order' /\ <<w, v>> \notin Order'
    BY <1>7, <2>4, <2>5
  <2> QED
    BY <2>2, <2>6, <2>7 DEF ComesLast
<1> QED
  BY <1>6, <1>7

LEMMA BatchFinite ==
  ASSUME NEW k, NEW c \in Nat, NEW d \in Nat
  PROVE  IsFiniteSet(Batch(k, c, d))
<1> DEFINE f == [i \in 1 .. d |-> <<k, c + i>>]
           S == 1 .. d
           T == Batch(k, c, d)
<1>1. IsFiniteSet(S)
  BY FS_Interval
<1>2. f \in Surjection(S, T)
  BY DEF Batch, Surjection
<1> HIDE DEF f, S, T
<1>3. IsFiniteSet(T)
  BY <1>1, <1>2, FS_Surjection
<1> QED
  BY <1>3 DEF T

\* The events of the deque of kind k that a tick consumes.
New(k) == Batch(k, Consumed(k), DueCount(pending[k], Now'))

LEMMA TickBatch ==
  ASSUME TimelineInv, NEW delta \in Nat, TimelineTick(delta), NEW k \in Kinds
  PROVE  LET q == Due(pending[k], Now')
             c == Consumed(k)
             d == DueCount(pending[k], Now')
         IN  /\ d \in Nat /\ c \in Nat /\ DOMAIN q = 1 .. d
             /\ Consumed(k)' = c + d
             /\ \A i \in 1 .. d : /\ <<k, c + i>> \in Places /\ q[i] = Event(<<k, c + i>>)
                                  /\ <<k, c + i>> \in Fired' /\ <<k, c + i>> \notin Fired
<1> DEFINE q == Due(pending[k], Now')
           c == Consumed(k)
           d == DueCount(pending[k], Now')
<1>1. /\ d \in Nat /\ c \in Nat /\ DOMAIN q = 1 .. d
      /\ \A i \in 1 .. d : c + i \in DOMAIN script[k] /\ q[i] = script[k][c + i]
      /\ Consumed(k)' = c + d
  BY DueIsScript DEF TimelineInv, TimelineTick
<1> HIDE DEF q, c, d
<1>2. ASSUME NEW i \in 1 .. d
      PROVE  /\ <<k, c + i>> \in Places /\ q[i] = Event(<<k, c + i>>)
             /\ <<k, c + i>> \in Fired' /\ <<k, c + i>> \notin Fired
  <2> PICK w : w = <<k, c + i>>
    OBVIOUS
  <2>1. w \in Places /\ q[i] = Event(w) /\ w[1] = k /\ w[2] = c + i
    BY <1>1 DEF Places, Event
  <2>2. c + i <= c + d /\ ~(c + i <= c)
    BY <1>1
  <2>3. w \notin Fired
    <3>1. w \in Fired <=> w[2] <= Consumed(w[1])
      BY <2>1, FiredIsConsumed DEF FiredAreConsumed
    <3> QED
      BY <2>1, <2>2, <3>1 DEF c
  <2>4. w \in Fired'
    <3>1. TimelineInv' => FiredAreConsumed'
      BY FiredIsConsumed, PTL
    <3>2. w \in Places' /\ TimelineInv'
      BY <2>1, TickClock, TickFires
    <3>3. w \in Fired' <=> w[2] <= Consumed(w[1])'
      BY <3>1, <3>2 DEF FiredAreConsumed
    <3>4. Consumed(w[1])' = c + d
      BY <1>1, <2>1
    <3> QED
      BY <2>1, <2>2, <3>3, <3>4
  <2> QED
    BY <2>1, <2>3, <2>4
<1> QED
  BY <1>1, <1>2 DEF q, c, d

LEMMA TickFired ==
  ASSUME TimelineInv, NEW delta \in Nat, TimelineTick(delta)
  PROVE  /\ Fired \subseteq Fired'
         /\ \A k \in Kinds : New(k) \subseteq Fired' /\ IsFiniteSet(New(k))
         /\ \A w \in Fired' : w \notin Fired => w[1] \in Kinds /\ w \in New(w[1])
<1>1. Fired \subseteq Fired'
  BY TickFires
<1>2. ASSUME NEW k \in Kinds PROVE New(k) \subseteq Fired' /\ IsFiniteSet(New(k))
  <2> DEFINE c == Consumed(k)
             d == DueCount(pending[k], Now')
  <2>1. /\ d \in Nat /\ c \in Nat
        /\ \A i \in 1 .. d : <<k, c + i>> \in Fired'
    BY TickBatch
  <2>2. New(k) = Batch(k, c, d)
    BY DEF New
  <2> HIDE DEF c, d
  <2>3. IsFiniteSet(Batch(k, c, d))
    BY <2>1, BatchFinite
  <2> QED
    BY <2>1, <2>2, <2>3 DEF Batch
<1>3. ASSUME NEW w \in Fired', w \notin Fired
      PROVE  w[1] \in Kinds /\ w \in New(w[1])
  <2>1. w \in Places /\ w \in Places'
    BY TickFires DEF Fired
  <2>2. w[1] \in Kinds /\ w[2] \in Nat /\ w = <<w[1], w[2]>>
    BY <2>1, EventAt DEF TimelineInv
  <2> DEFINE k == w[1]
             c == Consumed(k)
             d == DueCount(pending[k], Now')
  <2>3. d \in Nat /\ c \in Nat /\ Consumed(k)' = c + d
    BY <2>2, TickBatch
  <2>4. ~(w[2] <= c)
    BY <1>3, <2>1, FiredIsConsumed DEF FiredAreConsumed
  <2>5. w[2] <= c + d
    <3>1. TimelineInv' => FiredAreConsumed'
      BY FiredIsConsumed, PTL
    <3>2. w[2] <= Consumed(w[1])'
      BY <2>1, <3>1, TickClock DEF FiredAreConsumed
    <3> QED
      BY <2>3, <3>2
  <2>6. New(w[1]) = Batch(k, c, d)
    BY DEF New
  <2> HIDE DEF c, d
  <2>7. w[2] - c \in 1 .. d /\ c + (w[2] - c) = w[2]
    BY <2>2, <2>3, <2>4, <2>5
  <2>8. w = <<k, c + (w[2] - c)>>
    BY <2>2, <2>7
  <2>9. w \in Batch(k, c, d)
    BY <2>7, <2>8 DEF Batch
  <2> QED
    BY <2>2, <2>6, <2>9
<1> QED
  BY <1>1, <1>2, <1>3

Ticks == [w \in Fired |-> TickOf(w)]

LEMMA TickTicks ==
  ASSUME TimelineInv, NEW delta \in Nat, TimelineTick(delta)
  PROVE  /\ packet_count + 1 \in Nat /\ Ints(Ticks', Fired') /\ Ints(Ticks, Fired)
         /\ \A w \in Fired : Ticks'[w] = Ticks[w]
         /\ \A w \in Fired' : w \notin Fired => Ticks'[w] = packet_count + 1
<1>1. /\ \A w \in Fired : /\ w \in Fired'
                          /\ TickOf(w)' = TickOf(w) /\ TickOf(w) \in 1 .. packet_count
      /\ \A w \in Fired' : w \notin Fired => TickOf(w)' = packet_count + 1
  BY TickFires
<1>2. packet_count \in Nat
  BY ClockTypes DEF TimelineInv
<1>3. /\ \A w \in Fired : Ticks[w] = TickOf(w)
      /\ \A w \in Fired' : Ticks'[w] = TickOf(w)'
  BY DEF Ticks
<1> QED
  BY <1>1, <1>2, <1>3 DEF Ints

\* The events of kind k come last after those of the past and of lower rank.
LEMMA TickComesLast ==
  ASSUME TimelineInv, NEW delta \in Nat, TimelineTick(delta), NEW k \in Kinds,
         NEW F \in SUBSET Fired', \A v \in F : v \in Fired \/ Rank[v[1]] < Rank[k],
         NEW i \in 1 .. DueCount(pending[k], Now')
  PROVE  ComesLast(<<k, Consumed(k) + i>>, F \union Batch(k, Consumed(k), i - 1), Order')
<1> DEFINE c == Consumed(k)
           d == DueCount(pending[k], Now')
           w == <<k, c + i>>
           G == F \union Batch(k, c, i - 1)
<1>1. d \in Nat /\ c \in Nat /\ \A j \in 1 .. d : <<k, c + j>> \in Fired' /\ <<k, c + j>> \notin Fired
  BY TickBatch
<1>2. w \in Fired' /\ w \notin Fired /\ w[1] = k /\ w[2] = c + i
  BY <1>1
<1> HIDE DEF c, d
<1>3. ASSUME NEW v \in Batch(k, c, i - 1)
      PROVE  v \in Fired' /\ v[1] = k /\ v[2] < c + i
  <2>1. PICK j \in 1 .. i - 1 : v = <<k, c + j>>
    BY DEF Batch
  <2>2. i \in 1 .. d
    BY DEF d
  <2>3. j \in 1 .. d /\ c + j < c + i
    BY <1>1, <2>2
  <2> QED
    BY <1>1, <2>1, <2>3
<1>4. G \in SUBSET Fired'
  BY <1>3
<1>5. \A v \in G : \/ v \in Fired
                   \/ Rank[v[1]] < Rank[w[1]]
                   \/ v[1] = w[1] /\ v[2] < w[2]
  BY <1>2, <1>3
<1> HIDE DEF w, G
<1>6. ComesLast(w, G, Order')
  BY <1>2, <1>4, <1>5, TickOrder
<1> QED
  BY <1>6 DEF w, G, c

-------------------------------------------------------------------------------
(* A tick as a whole: the loops of tick() in their order.                   *)

\* The fields of s follow the script after the events F of this tick's order.
TickHolds(s, F) == Holds(s, F, Order', Ticks', packet_count + 1)

\* The loop over the deque of kind k, when those of lower rank are done.
LEMMA TickLoop ==
  ASSUME TimelineInv, NEW delta \in Nat, TimelineTick(delta),
         NEW k \in {"ssrc", "timestamp", "codec", "sequence"},
         NEW F \in SUBSET Fired', IsFiniteSet(F),
         \A v \in F : v \in Fired \/ Rank[v[1]] < Rank[k],
         NEW s \in RtpType, TickHolds(s, F)
  PROVE  LET t == ApplyAll(k, s, Due(pending[k], Now'))
         IN  /\ t \in RtpType /\ TickHolds(t, F \union New(k))
             /\ IsFiniteSet(F \union New(k)) /\ F \union New(k) \in SUBSET Fired'
             /\ \A v \in F \union New(k) : v \in Fired \/ Rank[v[1]] < Rank[k] + 1
<1> DEFINE q == Due(pending[k], Now')
           c == Consumed(k)
           d == DueCount(pending[k], Now')
           n == packet_count + 1
           order == Order'
           tick == Ticks'
<1>1. k \in Kinds /\ Rank[k] \in Nat
  BY DEF Kinds, Rank
<1>2. /\ d \in Nat /\ c \in Nat /\ DOMAIN q = 1 .. d
      /\ \A i \in 1 .. d : /\ <<k, c + i>> \in Places /\ q[i] = Event(<<k, c + i>>)
                           /\ <<k, c + i>> \in Fired' /\ <<k, c + i>> \notin Fired
  BY <1>1, TickBatch
<1>3. New(k) = Batch(k, c, d)
  BY DEF New
<1>4. \A i \in 1 .. d : ComesLast(<<k, c + i>>, F \union Batch(k, c, i - 1), order)
  BY <1>1, TickComesLast
<1>5. n \in Nat /\ \A i \in 1 .. d : tick[<<k, c + i>>] = n
  BY <1>2, TickTicks
<1>6. F \union Batch(k, c, d) \in SUBSET Fired'
  BY <1>2 DEF Batch
<1>7. Ints(tick, F \union Batch(k, c, d))
  BY <1>6, TickTicks DEF Ints
<1>8. Holds(s, F, order, tick, n)
  BY DEF TickHolds
<1>9. EngineInv /\ FieldsInv
  BY DEF TimelineInv
<1> HIDE DEF q, c, d, n, order, tick
<1>10. /\ IsFiniteSet(F \union Batch(k, c, d))
       /\ ApplyAll(k, s, q) \in RtpType
       /\ Holds(ApplyAll(k, s, q), F \union Batch(k, c, d), order, tick, n)
  <2>1. \A i \in 1 .. d : <<k, c + i>> \in Places /\ q[i] = Event(<<k, c + i>>)
    BY <1>2
  <2>2. \A i \in 1 .. d : /\ ComesLast(<<k, c + i>>, F \union Batch(k, c, i - 1), order)
                          /\ tick[<<k, c + i>>] = n
    BY <1>4, <1>5
  <2> QED
    BY <1>2, <1>5, <1>7, <1>8, <1>9, <2>1, <2>2, LoopHolds
<1>11. \A v \in F \union Batch(k, c, d) : v \in Fired \/ Rank[v[1]] < Rank[k] + 1
  <2>1. \A v \in Batch(k, c, d) : v[1] = k
    BY DEF Batch
  <2>2. \A v \in F : v \notin Fired => Rank[v[1]] \in Nat /\ Rank[v[1]] < Rank[k]
    <3> TAKE v \in F
    <3> HAVE v \notin Fired
    <3>1. v \in Places
      BY TickFires DEF Fired
    <3> QED
      BY <1>9, <3>1, RankType
  <2> QED
    BY <1>1, <2>1, <2>2
<1> QED
  BY <1>3, <1>6, <1>10, <1>11 DEF q, n, order, tick, TickHolds

\* The increment of the tick.
LEMMA AdvanceHolds ==
  ASSUME TimelineInv, NEW delta \in Nat, TimelineTick(delta), IsFiniteSet(Fired),
         Holds(rtp, Fired, Order, Ticks, packet_count)
  PROVE  Advance(rtp) \in RtpType /\ TickHolds(Advance(rtp), Fired)
<1> DEFINE s == Advance(rtp)
           n == packet_count
<1>1. EngineInv /\ FieldsInv /\ opts \in Scenarios /\ rtp \in RtpType /\ n \in Nat
  BY DEF TimelineInv, EngineInv, CountersTypeOK, FieldsInv, FieldsTypeOK
<1>2. s \in RtpType
  BY <1>1, AdvanceType
<1>3. /\ s.seq = (rtp.seq + SeqField.step) % SeqField.width
      /\ s.timestamp = (rtp.timestamp + TimestampField.step) % TimestampField.width
      /\ s.ssrc = rtp.ssrc
  BY <1>1 DEF Advance, RtpType, SeqField, TimestampField
<1>4. rtp.ssrc = (rtp.ssrc + SsrcField.step) % SsrcField.width
  <2> DEFINE m == UInt32Space
             v == rtp.ssrc
  <2>1. m \in Nat \ {0} /\ v \in 0 .. m - 1
    <3>1. v \in UInt32
      BY <1>1 DEF RtpType
    <3> QED
      BY <3>1, Spaces
  <2>2. SsrcField.step = 0 /\ SsrcField.width = m
    BY DEF SsrcField
  <2> HIDE DEF m, v
  <2>3. v % m = v /\ v + 0 = v
    BY <2>1, Fits
  <2> QED
    BY <2>2, <2>3 DEF v
<1>5. /\ \A v, w \in Fired : <<v, w>> \in Order' <=> <<v, w>> \in Order
      /\ \A w \in Fired : Ticks'[w] = Ticks[w]
      /\ Ints(Ticks, Fired)
  BY TickOrder, TickTicks
<1>6. /\ Follows(rtp.seq, SeqField, Fired, Order, Ticks, n)
      /\ Follows(rtp.timestamp, TimestampField, Fired, Order, Ticks, n)
      /\ Follows(rtp.ssrc, SsrcField, Fired, Order, Ticks, n)
  BY DEF Holds
<1> DEFINE order == Order
           later == Order'
           tick == Ticks
           tick2 == Ticks'
           F == Fired
<1> HIDE DEF order, later, tick, tick2, s, n, F
<1>7. /\ \A v, w \in F : <<v, w>> \in later <=> <<v, w>> \in order
      /\ \A w \in F : tick2[w] = tick[w]
      /\ Ints(tick, F) /\ IsFiniteSet(F)
  BY <1>5 DEF order, later, tick, tick2, F
<1>8. Follows(s.seq, SeqField, F, later, tick2, n + 1)
  <2>1. FieldOK(SeqField) /\ Follows(rtp.seq, SeqField, F, order, tick, n)
    BY <1>1, <1>6, SeqFieldOK DEF F, order, tick
  <2> QED
    BY <1>1, <1>3, <1>7, <2>1, TickFollows
<1>9. Follows(s.timestamp, TimestampField, F, later, tick2, n + 1)
  <2>1. FieldOK(TimestampField) /\ Follows(rtp.timestamp, TimestampField, F, order, tick, n)
    BY <1>1, <1>6, TimestampFieldOK DEF F, order, tick
  <2> QED
    BY <1>1, <1>3, <1>7, <2>1, TickFollows
<1>10. Follows(s.ssrc, SsrcField, F, later, tick2, n + 1)
  <2>1. FieldOK(SsrcField) /\ Follows(rtp.ssrc, SsrcField, F, order, tick, n)
    BY <1>1, <1>6, SsrcFieldOK DEF F, order, tick
  <2>2. Follows((rtp.ssrc + SsrcField.step) % SsrcField.width, SsrcField,
                F, later, tick2, n + 1)
    BY <1>1, <1>7, <2>1, TickFollows
  <2> QED
    BY <1>3, <1>4, <2>2
<1> QED
  BY <1>2, <1>8, <1>9, <1>10 DEF TickHolds, Holds, s, later, tick2, n, F

\* Pauses and transport changes leave the RTP fields alone.
LEMMA OthersHold ==
  ASSUME NEW F, NEW G, F \subseteq G,
         \A w \in G : w \notin F => w \in Places /\ w[1] \in {"pause", "transport"},
         NEW s, TickHolds(s, F)
  PROVE  TickHolds(s, G)
<1>1. \A w \in G : w \notin F => /\ w \notin SeqWriters /\ w \notin SeqJumpers
                                 /\ w \notin TimestampWriters /\ w \notin TimestampJumpers
                                 /\ w \notin SsrcWriters
  BY WritersAre
<1>2. /\ F \intersect SeqField.writers = G \intersect SeqField.writers
      /\ F \intersect SeqField.jumpers = G \intersect SeqField.jumpers
  BY <1>1 DEF SeqField
<1>3. /\ F \intersect TimestampField.writers = G \intersect TimestampField.writers
      /\ F \intersect TimestampField.jumpers = G \intersect TimestampField.jumpers
  BY <1>1 DEF TimestampField
<1>4. /\ F \intersect SsrcField.writers = G \intersect SsrcField.writers
      /\ F \intersect SsrcField.jumpers = G \intersect SsrcField.jumpers
  BY <1>1 DEF SsrcField
<1> DEFINE order == Order'
           tick == Ticks'
           n == packet_count + 1
<1>5. /\ Follows(s.seq, SeqField, F, order, tick, n)
      /\ Follows(s.timestamp, TimestampField, F, order, tick, n)
      /\ Follows(s.ssrc, SsrcField, F, order, tick, n)
  BY DEF TickHolds, Holds
<1> HIDE DEF order, tick, n
<1>6. Follows(s.seq, SeqField, G, order, tick, n)
  BY <1>2, <1>5, OthersFollow
<1>7. Follows(s.timestamp, TimestampField, G, order, tick, n)
  BY <1>3, <1>5, OthersFollow
<1>8. Follows(s.ssrc, SsrcField, G, order, tick, n)
  BY <1>4, <1>5, OthersFollow
<1> QED
  BY <1>6, <1>7, <1>8 DEF TickHolds, Holds, order, tick, n

LEMMA TickRtpHolds ==
  ASSUME TimelineInv, NEW delta \in Nat, TimelineTick(delta), IsFiniteSet(Fired),
         Holds(rtp, Fired, Order, Ticks, packet_count)
  PROVE  TickHolds(rtp', Fired')
<1> DEFINE due == [k \in Kinds |-> Due(pending[k], Now')]
           s0 == Advance(rtp)
           s1 == ApplyAll("ssrc", s0, due.ssrc)
           s2 == ApplyAll("timestamp", s1, due.timestamp)
           s3 == ApplyAll("codec", s2, due.codec)
           s4 == ApplyAll("sequence", s3, due.sequence)
           F1 == Fired \union New("ssrc")
           F2 == F1 \union New("timestamp")
           F3 == F2 \union New("codec")
           F4 == F3 \union New("sequence")
<1>1. rtp' = s4
  BY DEF TimelineTick, Tick, ApplyRtpChanges
<1>2. /\ due.ssrc = Due(pending["ssrc"], Now')
      /\ due.timestamp = Due(pending["timestamp"], Now')
      /\ due.codec = Due(pending["codec"], Now')
      /\ due.sequence = Due(pending["sequence"], Now')
  BY DEF Kinds
<1>3. /\ Rank["timestamp"] = Rank["ssrc"] + 1 /\ Rank["codec"] = Rank["timestamp"] + 1
      /\ Rank["sequence"] = Rank["codec"] + 1
  BY DEF Rank
<1>4. /\ s0 \in RtpType /\ TickHolds(s0, Fired) /\ Fired \in SUBSET Fired'
  BY AdvanceHolds, TickFires
<1>5. /\ s1 \in RtpType /\ TickHolds(s1, F1) /\ IsFiniteSet(F1) /\ F1 \in SUBSET Fired'
      /\ \A v \in F1 : v \in Fired \/ Rank[v[1]] < Rank["timestamp"]
  <2> HIDE DEF s0, due
  <2> QED
    BY <1>2, <1>3, <1>4, TickLoop
<1>6. /\ s2 \in RtpType /\ TickHolds(s2, F2) /\ IsFiniteSet(F2) /\ F2 \in SUBSET Fired'
      /\ \A v \in F2 : v \in Fired \/ Rank[v[1]] < Rank["codec"]
  <2> HIDE DEF s1, due, F1
  <2> QED
    BY <1>2, <1>3, <1>5, TickLoop
<1>7. /\ s3 \in RtpType /\ TickHolds(s3, F3) /\ IsFiniteSet(F3) /\ F3 \in SUBSET Fired'
      /\ \A v \in F3 : v \in Fired \/ Rank[v[1]] < Rank["sequence"]
  <2> HIDE DEF s2, due, F2
  <2> QED
    BY <1>2, <1>3, <1>6, TickLoop
<1>8. TickHolds(s4, F4) /\ F4 \in SUBSET Fired'
  <2> HIDE DEF s3, due, F3
  <2> QED
    BY <1>2, <1>7, TickLoop
<1>9. \A w \in Fired' : w \notin F4 => w \in Places /\ w[1] \in {"pause", "transport"}
  <2> TAKE w \in Fired'
  <2> HAVE w \notin F4
  <2>1. w[1] \in Kinds /\ w \in New(w[1])
    BY TickFired
  <2>2. w[1] \notin {"ssrc", "timestamp", "codec", "sequence"}
    BY <2>1
  <2>3. w \in Places
    BY TickFires DEF Fired
  <2> QED
    BY <2>1, <2>2, <2>3 DEF Kinds
<1> HIDE DEF s4, F4
<1>10. TickHolds(s4, Fired')
  BY <1>8, <1>9, OthersHold
<1> QED
  BY <1>1, <1>10
LEMMA TickFinite ==
  ASSUME TimelineInv, NEW delta \in Nat, TimelineTick(delta), IsFiniteSet(Fired)
  PROVE  IsFiniteSet(Fired')
<1>1. /\ IsFiniteSet(New("ssrc")) /\ IsFiniteSet(New("timestamp"))
      /\ IsFiniteSet(New("codec")) /\ IsFiniteSet(New("sequence"))
      /\ IsFiniteSet(New("pause")) /\ IsFiniteSet(New("transport"))
  BY TickFired DEF Kinds
<1> DEFINE F1 == Fired \union New("ssrc")
           F2 == F1 \union New("timestamp")
           F3 == F2 \union New("codec")
           F4 == F3 \union New("sequence")
           F5 == F4 \union New("pause")
           F6 == F5 \union New("transport")
<1>2. Fired' \subseteq F6
  <2>1. \A w \in Fired' : w \notin Fired => w[1] \in Kinds /\ w \in New(w[1])
    BY TickFired
  <2> QED
    BY <2>1 DEF Kinds
<1>3. IsFiniteSet(F1)
  BY <1>1, FS_Union
<1> HIDE DEF F1
<1>4. IsFiniteSet(F2)
  BY <1>1, <1>3, FS_Union
<1> HIDE DEF F2
<1>5. IsFiniteSet(F3)
  BY <1>1, <1>4, FS_Union
<1> HIDE DEF F3
<1>6. IsFiniteSet(F4)
  BY <1>1, <1>5, FS_Union
<1> HIDE DEF F4
<1>7. IsFiniteSet(F5)
  BY <1>1, <1>6, FS_Union
<1> HIDE DEF F5
<1>8. IsFiniteSet(F6)
  BY <1>1, <1>7, FS_Union
<1> HIDE DEF F6
<1> QED
  BY <1>2, <1>8, FS_Subset

LEMMA TickTransportHolds ==
  ASSUME TimelineInv, NEW delta \in Nat, TimelineTick(delta), IsFiniteSet(Fired),
         Follows(transport.src_port, SrcPortField, Fired, Order, Ticks, packet_count)
  PROVE  Follows(transport'.src_port, SrcPortField, Fired', Order', Ticks', packet_count + 1)
<1> DEFINE k == "transport"
           x == transport.src_port
           q == Due(pending[k], Now')
           c == Consumed(k)
           d == DueCount(pending[k], Now')
           order == Order'
           tick == Ticks'
           n == packet_count
           F == {v \in Fired' : v \in Fired \/ Rank[v[1]] < Rank[k]}
<1>1. EngineInv /\ FieldsInv /\ transport \in TransportType /\ n \in Nat /\ k \in Kinds
  BY DEF TimelineInv, EngineInv, CountersTypeOK, FieldsInv, FieldsTypeOK, Kinds
<1>2. FieldOK(SrcPortField) /\ SrcPortField.step = 0 /\ SrcPortField.width = UInt16Space
  BY <1>1, SrcPortFieldOK DEF SrcPortField
<1>3. (x + SrcPortField.step) % SrcPortField.width = x
  <2> DEFINE m == UInt16Space
  <2>1. m \in Nat \ {0} /\ x \in 0 .. m - 1
    <3>1. x \in UInt16
      BY <1>1 DEF TransportType
    <3> QED
      BY <3>1, Spaces
  <2> HIDE DEF m, x
  <2>2. x % m = x /\ x + 0 = x
    BY <2>1, Fits
  <2> QED
    BY <1>2, <2>2 DEF m
<1>4. Follows(x, SrcPortField, Fired, order, tick, n + 1)
  <2> DEFINE before == Order
             tick0 == Ticks
             G == Fired
  <2>1. /\ \A v, w \in G : <<v, w>> \in order <=> <<v, w>> \in before
        /\ \A w \in G : tick[w] = tick0[w]
        /\ Ints(tick0, G) /\ IsFiniteSet(G)
    BY TickOrder, TickTicks
  <2>2. Follows(x, SrcPortField, G, before, tick0, n)
    OBVIOUS
  <2> HIDE DEF before, tick0, G, order, tick, n, x
  <2>3. Follows((x + SrcPortField.step) % SrcPortField.width, SrcPortField, G, order, tick, n + 1)
    BY <1>1, <1>2, <2>1, <2>2, TickFollows
  <2> QED
    BY <1>3, <2>3 DEF G
<1>5. Fired \subseteq Fired' /\ \A w \in Fired' : w \in Places
  BY TickFires DEF Fired
<1>6. Follows(x, SrcPortField, F, order, tick, n + 1)
  <2>1. \A w \in F : w \notin Fired => w[1] # k
    <3>1. ~(Rank[k] < Rank[k])
      BY DEF Rank
    <3> QED
      BY <3>1
  <2>2. \A w \in F : w \notin Fired => w \notin SrcPortWriters
    BY <1>5, <2>1, WritersAre
  <2>3. Fired \intersect SrcPortField.writers = F \intersect SrcPortField.writers
    BY <1>5, <2>2 DEF SrcPortField
  <2>4. Fired \intersect SrcPortField.jumpers = F \intersect SrcPortField.jumpers
    BY DEF SrcPortField
  <2> HIDE DEF F, order, tick, n, x
  <2> QED
    BY <1>4, <2>3, <2>4, OthersFollow
<1>7. IsFiniteSet(F) /\ F \in SUBSET Fired'
  BY TickFinite, FS_Subset
<1>8. Fired' = F \union Batch(k, c, d)
  <2>1. New(k) = Batch(k, c, d) /\ New(k) \subseteq Fired'
    BY <1>1, TickFired DEF New
  <2>2. ASSUME NEW w \in Fired', w \notin F PROVE w \in New(k)
    <3>1. w[1] \in Kinds /\ w \in New(w[1]) /\ ~(Rank[w[1]] < Rank[k])
      BY <2>2, TickFired
    <3>2. w[1] = k
      BY <3>1 DEF Kinds, Rank
    <3> QED
      BY <3>1, <3>2
  <2> QED
    BY <2>1, <2>2
<1>9. /\ d \in Nat /\ c \in Nat /\ DOMAIN q = 1 .. d
      /\ \A i \in 1 .. d : /\ <<k, c + i>> \in Places /\ q[i] = Event(<<k, c + i>>)
                           /\ <<k, c + i>> \in Fired' /\ <<k, c + i>> \notin Fired
  BY <1>1, TickBatch
<1>10. \A i \in 1 .. d : ComesLast(<<k, c + i>>, F \union Batch(k, c, i - 1), order)
  <2>1. \A v \in F : v \in Fired \/ Rank[v[1]] < Rank[k]
    OBVIOUS
  <2> HIDE DEF F
  <2> QED
    BY <1>1, <1>7, <2>1, TickComesLast
<1>11. \A i \in 1 .. d : tick[<<k, c + i>>] = n + 1
  BY <1>9, TickTicks
<1>12. Ints(tick, F \union Batch(k, c, d)) /\ n + 1 \in Nat
  BY <1>8, TickTicks
<1>13. transport' = ApplyAll(k, transport, q)
  BY <1>1 DEF TimelineTick, Tick, ApplyTransportChanges
<1>14. \A i \in 1 .. d : <<k, c + i>> \in Places /\ q[i] = Event(<<k, c + i>>)
  BY <1>9
<1> DEFINE m == n + 1
<1> HIDE DEF q, c, d, order, tick, F, m
<1>15. Follows(ApplyAll("transport", transport, q).src_port, SrcPortField,
               F \union Batch("transport", c, d), order, tick, m)
  <2>1. m \in Nat /\ \A i \in 1 .. d : tick[<<k, c + i>>] = m
    BY <1>11, <1>12 DEF m
  <2>2. Follows(transport.src_port, SrcPortField, F, order, tick, m)
    BY <1>6 DEF m
  <2> QED
    BY <1>1, <1>7, <1>9, <1>10, <1>12, <1>14, <2>1, <2>2, TransportLoopHolds
<1> QED
  BY <1>8, <1>13, <1>15 DEF m, order, tick

-------------------------------------------------------------------------------
(* The theorems.                                                            *)

\* The strengthening: the formulas of the properties in terms of Follows, which
\* each event and each tick keeps.
StreamFollows ==
  /\ TimelineInv
  /\ IsFiniteSet(Fired)
  /\ Holds(rtp, Fired, Order, Ticks, packet_count)
  /\ Follows(transport.src_port, SrcPortField, Fired, Order, Ticks, packet_count)

LEMMA StartFollows ==
  ASSUME NEW fd, FieldOK(fd), FieldFits(fd), NEW order, NEW tick
  PROVE  Follows(fd.start, fd, {}, order, tick, 0)
<1> DEFINE v == fd.start
           m == fd.width
           step == fd.step
<1>1. m \in Nat \ {0} /\ v \in 0 .. m - 1 /\ step \in Int
  BY DEF FieldOK, FieldFits
<1>2. SumFunctionOnSet(fd.jump, {}) = 0
  BY SumOfEmpty
<1>3. v + step * (0 + 0) = v /\ v % m = v
  <2> HIDE DEF v, m, step
  <2> QED
    BY <1>1, Fits
<1>4. Count(fd, fd.start, 0, {}) = v
  BY <1>2, <1>3 DEF Count
<1> QED
  BY <1>4 DEF Follows

LEMMA TimelineInit_Follows == TimelineInit => StreamFollows
<1> SUFFICES ASSUME TimelineInit PROVE StreamFollows
  OBVIOUS
<1>1. EngineInv /\ FieldsInv
  BY EngineInit_Inv, EngineInit_Fields DEF TimelineInit
<1>2. packet_count = 0 /\ clock = <<>> /\ Now = 0
  BY DEF TimelineInit, EngineInit, Now
<1>3. ClockInv
  BY <1>2, EmptySeq DEF ClockInv
<1>4. Fired = {} /\ IsFiniteSet({})
  BY <1>2, FS_EmptySet DEF Fired
<1>5. /\ rtp.seq = SeqField.start /\ rtp.timestamp = TimestampField.start
      /\ rtp.ssrc = SsrcField.start /\ transport.src_port = SrcPortField.start
  BY DEF TimelineInit, EngineInit, InitialRtp, InitialTransport,
         SeqField, TimestampField, SsrcField, SrcPortField
<1> DEFINE order == Order
           tick == Ticks
<1> HIDE DEF order, tick
<1>6. Follows(SeqField.start, SeqField, {}, order, tick, 0)
  BY <1>1, SeqFieldOK, StartFollows
<1>7. Follows(TimestampField.start, TimestampField, {}, order, tick, 0)
  BY <1>1, TimestampFieldOK, StartFollows
<1>8. Follows(SsrcField.start, SsrcField, {}, order, tick, 0)
  BY <1>1, SsrcFieldOK, StartFollows
<1>9. Follows(SrcPortField.start, SrcPortField, {}, order, tick, 0)
  BY <1>1, SrcPortFieldOK, StartFollows
<1> QED
  BY <1>1, <1>2, <1>3, <1>4, <1>5, <1>6, <1>7, <1>8, <1>9
  DEF StreamFollows, TimelineInv, Holds, order, tick

LEMMA SameFields ==
  ASSUME script' = script, opts' = opts
  PROVE  /\ SeqField' = SeqField /\ TimestampField' = TimestampField
         /\ SsrcField' = SsrcField /\ SrcPortField' = SrcPortField
<1>1. Places' = Places /\ \A w : Event(w)' = Event(w)
  BY DEF Places, Event
<1> QED
  BY <1>1
  DEF SeqField, TimestampField, SsrcField, SrcPortField, PlacesOf,
      SeqWriters, SeqValue, SeqJumpers, SeqJump,
      TimestampWriters, TimestampValue, TimestampJumpers, TimestampJump,
      SsrcWriters, SsrcValue, SrcPortWriters, SrcPortValue

LEMMA TimelineStutter_Follows ==
  ASSUME StreamFollows, UNCHANGED timelineVars
  PROVE  StreamFollows'
<1>1. /\ script' = script /\ opts' = opts /\ clock' = clock /\ Now' = Now
      /\ packet_count' = packet_count /\ rtp' = rtp /\ transport' = transport
      /\ UNCHANGED engineVars
  BY DEF timelineVars, engineVars, Now
<1>2. EngineInv' /\ FieldsInv'
  BY <1>1, EngineStutter_Inv, EngineStutter_Fields DEF StreamFollows, TimelineInv
<1>3. ClockInv'
  BY <1>1 DEF StreamFollows, TimelineInv, ClockInv
<1>4. Places' = Places /\ \A w : Event(w)' = Event(w)
  BY <1>1 DEF Places, Event
<1>5. Fired' = Fired /\ \A w : TickOf(w)' = TickOf(w)
  BY <1>1, <1>4 DEF Fired, TickOf
<1>6. Ticks' = Ticks
  BY <1>5 DEF Ticks
<1>7. Order' = Order
  <2>1. \A v, w : Before(v, w)' <=> Before(v, w)
    BY <1>5 DEF Before, Position
  <2> QED
    BY <1>5, <2>1 DEF Order
<1> QED
  BY <1>1, <1>2, <1>3, <1>5, <1>6, <1>7, SameFields DEF StreamFollows, TimelineInv, Holds

LEMMA Timeline_Invariance == TimelineSpec => []StreamFollows
<1>1. StreamFollows /\ [TimelineNext]_timelineVars => StreamFollows'
  <2> SUFFICES ASSUME StreamFollows, [TimelineNext]_timelineVars PROVE StreamFollows'
    OBVIOUS
  <2>1. ASSUME NEW delta \in Deltas, Tick(delta), TimelineNext PROVE StreamFollows'
    <3>1. delta \in Nat /\ packet_count \in Nat
      BY BoundsAssumption DEF StreamFollows, TimelineInv, EngineInv, CountersTypeOK
    <3>2. TimelineTick(delta)
      <4>1. packet_count' = packet_count + 1
        BY <2>1 DEF Tick
      <4>2. packet_count' # packet_count
        BY <3>1, <4>1
      <4> QED
        BY <2>1, <4>2 DEF TimelineNext, TimelineTick
    <3>3. TimelineInv' /\ packet_count' = packet_count + 1
      BY <3>1, <3>2, TickClock DEF StreamFollows
    <3>4. IsFiniteSet(Fired')
      BY <3>1, <3>2, TickFinite DEF StreamFollows
    <3>5. TickHolds(rtp', Fired')
      BY <3>1, <3>2, TickRtpHolds DEF StreamFollows
    <3>6. Follows(transport'.src_port, SrcPortField, Fired', Order', Ticks', packet_count + 1)
      BY <3>1, <3>2, TickTransportHolds DEF StreamFollows
    <3>7. /\ SeqField' = SeqField /\ TimestampField' = TimestampField
          /\ SsrcField' = SsrcField /\ SrcPortField' = SrcPortField
      BY <2>1, SameFields DEF Tick
    <3> QED
      BY <3>3, <3>4, <3>5, <3>6, <3>7 DEF StreamFollows, TickHolds, Holds
  <2>2. CASE UNCHANGED timelineVars
    BY <2>2, TimelineStutter_Follows
  <2>3. CASE TimelineNext
    <3>1. CASE \E delta \in Deltas : Tick(delta)
      BY <2>1, <2>3, <3>1
    <3>2. CASE BoundReached
      <4>1. UNCHANGED timelineVars
        BY <2>3, <3>2 DEF TimelineNext, BoundReached, timelineVars, engineVars
      <4> QED
        BY <4>1, TimelineStutter_Follows
    <3> QED
      BY <2>3, <3>1, <3>2 DEF TimelineNext, EngineNext
  <2> QED
    BY <2>2, <2>3
<1> QED
  BY <1>1, TimelineInit_Follows, PTL DEF TimelineSpec

\* A field that follows the script holds what the formula of its property says.
LEMMA FollowsIsFormula ==
  ASSUME StreamFollows, NEW fd, FieldOK(fd), FieldFits(fd), NEW x,
         Follows(x, fd, Fired, Order, Ticks, packet_count),
         NEW W, W = Fired \intersect fd.writers, NEW J, J = Fired \intersect fd.jumpers
  PROVE  /\ x = (LastWritten(W, fd.value, fd.start)
                  + fd.step * (TicksSince(W) + JumpedSince(W, J, fd.jump))) % fd.width
         /\ TicksSince(W) \in Int /\ JumpedSince(W, J, fd.jump) \in Int
         /\ LastWritten(W, fd.value, fd.start) \in 0 .. fd.width - 1
<1>1. /\ packet_count \in Nat /\ Len(clock) = packet_count /\ IsFiniteSet(Fired)
      /\ \A w \in Fired : Ticks[w] = TickOf(w)
  BY ClockTypes DEF StreamFollows, TimelineInv, ClockInv, Ticks
<1>2. \A w \in Fired : TickOf(w) \in Int
  <2> TAKE w \in Fired
  <2> DEFINE S == {n \in DOMAIN clock : clock[n] >= Event(w).trigger_value}
             n == packet_count
  <2>1. S \subseteq 1 .. n /\ S # {} /\ n \in Nat
    BY ClockTypes DEF StreamFollows, TimelineInv, Fired
  <2>2. TickOf(w) = Min(S)
    BY DEF TickOf
  <2> HIDE DEF S, n
  <2>3. Min(S) \in 1 .. n
    BY <2>1, MinOfMore
  <2> QED
    BY <2>1, <2>2, <2>3
<1>3. \A K \in SUBSET J : SumFunctionOnSet(fd.jump, K) \in Int
  BY <1>1, FS_Subset, SumType DEF FieldOK, Ints
<1>4. JumpedSince(W, J, fd.jump) \in Int
  BY <1>3 DEF JumpedSince
<1>5. CASE W = {} /\ x = Count(fd, fd.start, packet_count, J)
  <2>1. /\ TicksSince(W) = packet_count /\ LastWritten(W, fd.value, fd.start) = fd.start
        /\ JumpedSince(W, J, fd.jump) = SumFunctionOnSet(fd.jump, J)
    BY <1>1, <1>5 DEF TicksSince, LastWritten, JumpedSince
  <2> QED
    BY <1>1, <1>4, <1>5, <2>1 DEF Count, FieldFits
<1>6. ASSUME NEW l, IsLast(l, W, Order),
             x = Count(fd, fd.value[l], packet_count - Ticks[l],
                       JumpsAfter(fd, Fired, Order, l))
      PROVE  /\ x = (LastWritten(W, fd.value, fd.start)
                      + fd.step * (TicksSince(W) + JumpedSince(W, J, fd.jump))) % fd.width
             /\ TicksSince(W) \in Int
             /\ LastWritten(W, fd.value, fd.start) \in 0 .. fd.width - 1
  <2>1. l \in W /\ l \in Fired /\ l \in fd.writers /\ W # {}
    BY <1>6 DEF IsLast
  <2>2. LastOf(W) = l
    BY <1>6, LastIsUnique DEF LastOf
  <2>3. JumpsAfter(fd, Fired, Order, l) = {j \in J : <<j, l>> \notin Order}
    BY DEF JumpsAfter
  <2>4. /\ TicksSince(W) = packet_count - Ticks[l]
        /\ LastWritten(W, fd.value, fd.start) = fd.value[l]
        /\ JumpedSince(W, J, fd.jump)
             = SumFunctionOnSet(fd.jump, JumpsAfter(fd, Fired, Order, l))
    BY <1>1, <2>1, <2>2, <2>3 DEF TicksSince, LastWritten, JumpedSince
  <2>5. packet_count - Ticks[l] \in Int
    BY <1>1, <1>2, <2>1
  <2> QED
    BY <1>6, <2>1, <2>4, <2>5 DEF Count, FieldFits
<1> QED
  BY <1>4, <1>5, <1>6 DEF Follows

\* A field that is never moved holds the last value written.
LEMMA UnmovedIsWritten ==
  ASSUME StreamFollows, NEW fd, FieldOK(fd), FieldFits(fd), fd.step = 0, NEW x,
         Follows(x, fd, Fired, Order, Ticks, packet_count)
  PROVE  x = LastWritten(Fired \intersect fd.writers, fd.value, fd.start)
<1> DEFINE W == Fired \intersect fd.writers
           J == Fired \intersect fd.jumpers
           v == LastWritten(W, fd.value, fd.start)
           a == TicksSince(W)
           b == JumpedSince(W, J, fd.jump)
           m == fd.width
<1>1. x = (v + fd.step * (a + b)) % m /\ a \in Int /\ b \in Int /\ v \in 0 .. m - 1
  <2> HIDE DEF W, J
  <2> QED
    BY FollowsIsFormula DEF W, J
<1>2. m \in Nat \ {0}
  BY DEF FieldOK
<1> HIDE DEF v, a, b, m
<1>3. v + fd.step * (a + b) = v
  BY <1>1
<1>4. x = v
  BY <1>1, <1>2, <1>3, Fits
<1> QED
  BY <1>4 DEF v

\* The sequence number of every packet is the one its script prescribes, for
\* every scenario, sort, width, delta and number of ticks: no loop of tick()
\* applies an event late, twice, in the wrong order or to a stale value.
THEOREM SeqCorrect == TimelineSpec => []SeqFollowsScript
<1>1. StreamFollows => SeqFollowsScript
  <2> SUFFICES ASSUME StreamFollows PROVE SeqFollowsScript
    OBVIOUS
  <2> DEFINE W == Fired \intersect SeqField.writers
             J == Fired \intersect SeqField.jumpers
             v == LastWritten(W, SeqField.value, SeqField.start)
             a == TicksSince(W)
             b == JumpedSince(W, J, SeqField.jump)
  <2>1. /\ rtp.seq = (v + SeqField.step * (a + b)) % SeqField.width
        /\ a \in Int /\ b \in Int
    <3>1. FieldOK(SeqField) /\ FieldFits(SeqField)
      BY SeqFieldOK DEF StreamFollows, TimelineInv
    <3>2. Follows(rtp.seq, SeqField, Fired, Order, Ticks, packet_count)
      BY DEF StreamFollows, Holds
    <3> HIDE DEF W, J
    <3> QED
      BY <3>1, <3>2, FollowsIsFormula DEF W, J
  <2>2. /\ SeqField.step = 1 /\ SeqField.width = SeqSpace
        /\ v = LastWritten(Fired \intersect SeqWriters, SeqValue, opts.start_seq)
        /\ a = TicksSince(Fired \intersect SeqWriters)
        /\ b = JumpedSince(Fired \intersect SeqWriters, Fired \intersect SeqJumpers, SeqJump)
    BY DEF SeqField
  <2> HIDE DEF v, a, b
  <2>3. SeqField.step * (a + b) = a + b
    BY <2>1, <2>2
  <2> QED
    BY <2>1, <2>2, <2>3 DEF SeqFollowsScript
<1> QED
  BY <1>1, Timeline_Invariance, PTL

\* The same for the timestamp: in particular the relative jump of an event counts
\* from the absolute value the same event sets.
THEOREM TimestampCorrect == TimelineSpec => []TimestampFollowsScript
<1>1. StreamFollows => TimestampFollowsScript
  <2> SUFFICES ASSUME StreamFollows PROVE TimestampFollowsScript
    OBVIOUS
  <2> DEFINE W == Fired \intersect TimestampField.writers
             J == Fired \intersect TimestampField.jumpers
  <2>1. rtp.timestamp =
          ( LastWritten(W, TimestampField.value, TimestampField.start)
            + TimestampField.step *
                (TicksSince(W) + JumpedSince(W, J, TimestampField.jump)) )
          % TimestampField.width
    <3>1. FieldOK(TimestampField) /\ FieldFits(TimestampField)
      BY TimestampFieldOK DEF StreamFollows, TimelineInv
    <3>2. Follows(rtp.timestamp, TimestampField, Fired, Order, Ticks, packet_count)
      BY DEF StreamFollows, Holds
    <3> HIDE DEF W, J
    <3> QED
      BY <3>1, <3>2, FollowsIsFormula DEF W, J
  <2> QED
    BY <2>1 DEF TimestampField, TimestampFollowsScript
<1> QED
  BY <1>1, Timeline_Invariance, PTL

\* The SSRC is always that of the last SSRC or codec change to write it, in the
\* order of the kinds within a tick.
THEOREM SsrcCorrect == TimelineSpec => []SsrcFollowsScript
<1>1. StreamFollows => SsrcFollowsScript
  <2> SUFFICES ASSUME StreamFollows PROVE SsrcFollowsScript
    OBVIOUS
  <2>1. FieldOK(SsrcField) /\ FieldFits(SsrcField) /\ SsrcField.step = 0
    BY SsrcFieldOK DEF StreamFollows, TimelineInv, SsrcField
  <2>2. Follows(rtp.ssrc, SsrcField, Fired, Order, Ticks, packet_count)
    BY DEF StreamFollows, Holds
  <2>3. rtp.ssrc = LastWritten(Fired \intersect SsrcField.writers, SsrcField.value,
                               SsrcField.start)
    BY <2>1, <2>2, UnmovedIsWritten
  <2> QED
    BY <2>3 DEF SsrcField, SsrcFollowsScript
<1> QED
  BY <1>1, Timeline_Invariance, PTL

\* The source port asked for is always that of the last transport change to name
\* one, a random one (port 0) winning within an event.
THEOREM SrcPortCorrect == TimelineSpec => []SrcPortFollowsScript
<1>1. StreamFollows => SrcPortFollowsScript
  <2> SUFFICES ASSUME StreamFollows PROVE SrcPortFollowsScript
    OBVIOUS
  <2>1. FieldOK(SrcPortField) /\ FieldFits(SrcPortField) /\ SrcPortField.step = 0
    BY SrcPortFieldOK DEF StreamFollows, TimelineInv, SrcPortField
  <2>2. Follows(transport.src_port, SrcPortField, Fired, Order, Ticks, packet_count)
    BY DEF StreamFollows
  <2>3. transport.src_port = LastWritten(Fired \intersect SrcPortField.writers,
                                         SrcPortField.value, SrcPortField.start)
    BY <2>1, <2>2, UnmovedIsWritten
  <2> QED
    BY <2>3 DEF SrcPortField, SrcPortFollowsScript
<1> QED
  BY <1>1, Timeline_Invariance, PTL

===============================================================================
