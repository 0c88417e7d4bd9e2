----------------------------- MODULE Induction ------------------------------
(* Induction without operator parameters: a set of numbers has a least      *)
(* one, so a set of counterexamples that has none is empty.  What recursive *)
(* functions compute follows, and that an order numbers a finite set.       *)
EXTENDS Integers, SequencesExt, SequenceTheorems, FiniteSetTheorems, WellFoundedInduction, TLAPS

LEMMA LeastNumber ==
  ASSUME NEW T, T \subseteq Nat, T # {}
  PROVE  \E n \in T : \A m \in T : n <= m
<1>1. PICK n \in T : \A m \in T : <<m, n>> \notin OpToRel(<, Nat)
  BY NatLessThanWellFounded, WFMin
<1>2. \A m \in T : ~(m < n)
  BY <1>1 DEF OpToRel
<1> QED
  BY <1>2

\* A set with its successors up to n, and 0, has all numbers up to n.
LEMMA CountingUp ==
  ASSUME NEW n \in Nat, NEW G, 0 \in G, \A k \in 1 .. n : k - 1 \in G => k \in G
  PROVE  \A k \in 0 .. n : k \in G
<1> SUFFICES ASSUME {k \in 0 .. n : k \notin G} # {}
             PROVE  FALSE
  OBVIOUS
<1>1. PICK k \in {j \in 0 .. n : j \notin G} : \A m \in {j \in 0 .. n : j \notin G} : k <= m
  <2> DEFINE T == {j \in 0 .. n : j \notin G}
  <2>1. T \subseteq Nat /\ T # {}
    OBVIOUS
  <2> HIDE DEF T
  <2>2. \E k \in T : \A m \in T : k <= m
    BY <2>1, LeastNumber
  <2> QED
    BY <2>2 DEF T
<1>2. k # 0
  OBVIOUS
<1>3. k - 1 \in G
  BY <1>1, <1>2
<1> QED
  BY <1>1, <1>2, <1>3

Iterates(f, first, step, n) ==
  f[0] = first /\ \A i \in 1 .. n : f[i] = step[i][f[i - 1]]

\* A function that each step takes from value to value exists up to any number.
LEMMA Recursion ==
  ASSUME NEW S, NEW first \in S, NEW n \in Nat, NEW step \in [1 .. n -> [S -> S]]
  PROVE  \E f \in [0 .. n -> S] : Iterates(f, first, step, n)
<1> DEFINE Upto(k) == \E f \in [0 .. k -> S] :
                        f[0] = first /\ \A i \in 1 .. k : f[i] = step[i][f[i - 1]]
           G == {k \in 0 .. n : Upto(k)}
<1>1. Upto(0)
  <2>1. [i \in 0 .. 0 |-> first] \in [0 .. 0 -> S] /\ \A i \in 1 .. 0 : FALSE
    OBVIOUS
  <2> WITNESS [i \in 0 .. 0 |-> first] \in [0 .. 0 -> S]
  <2> QED
    BY <2>1
<1>2. ASSUME NEW k \in 1 .. n, Upto(k - 1)
      PROVE  Upto(k)
  <2>1. PICK f \in [0 .. k - 1 -> S] :
          f[0] = first /\ \A i \in 1 .. k - 1 : f[i] = step[i][f[i - 1]]
    BY <1>2
  <2> DEFINE g == [i \in 0 .. k |-> IF i = k THEN step[k][f[k - 1]] ELSE f[i]]
  <2>2. step[k] \in [S -> S] /\ f[k - 1] \in S
    OBVIOUS
  <2>3. g \in [0 .. k -> S]
    BY <2>2
  <2>4. g[0] = first /\ \A i \in 1 .. k : g[i] = step[i][g[i - 1]]
    BY <2>1
  <2> QED
    BY <2>3, <2>4
<1> HIDE DEF Upto
<1>3. 0 \in G /\ \A k \in 1 .. n : k - 1 \in G => k \in G
  BY <1>1, <1>2
<1> HIDE DEF G
<1>4. \A k \in 0 .. n : k \in G
  BY <1>3, CountingUp
<1>5. n \in 0 .. n
  OBVIOUS
<1> QED
  BY <1>4, <1>5 DEF G, Upto, Iterates

IteratesForever(g, first, step) ==
  g[0] = first /\ \A i \in Nat \ {0} : g[i] = step[i][g[i - 1]]

\* And one for all numbers.
LEMMA RecursionForever ==
  ASSUME NEW S, NEW first \in S, NEW step \in [Nat \ {0} -> [S -> S]]
  PROVE  \E g \in [Nat -> S] : IteratesForever(g, first, step)
<1> DEFINE g == [n \in Nat |-> (CHOOSE f \in [0 .. n -> S] : Iterates(f, first, step, n))[n]]
<1>1. ASSUME NEW n \in Nat
      PROVE  \E f \in [0 .. n -> S] : Iterates(f, first, step, n) /\ g[n] = f[n]
  <2> DEFINE steps == [i \in 1 .. n |-> step[i]]
  <2>1. steps \in [1 .. n -> [S -> S]]
    OBVIOUS
  <2>2. \A i \in 1 .. n : steps[i] = step[i]
    OBVIOUS
  <2> HIDE DEF steps
  <2>3. PICK f \in [0 .. n -> S] : Iterates(f, first, steps, n)
    BY <2>1, Recursion, Zenon
  <2>4. Iterates(f, first, step, n)
    BY <2>2, <2>3 DEF Iterates
  <2> QED
    BY <2>4
<1> HIDE DEF g
<1>2. ASSUME NEW n \in Nat, NEW m \in Nat, n <= m,
             NEW f \in [0 .. n -> S], NEW h \in [0 .. m -> S],
             Iterates(f, first, step, n), Iterates(h, first, step, m)
      PROVE  f[n] = h[n]
  <2> DEFINE G == {k \in 0 .. n : f[k] = h[k]}
  <2>1. 0 \in G
    BY <1>2 DEF Iterates
  <2>2. ASSUME NEW k \in 1 .. n, k - 1 \in G
        PROVE  k \in G
    BY <1>2, <2>2 DEF Iterates
  <2>3. \A k \in G : f[k] = h[k]
    OBVIOUS
  <2> HIDE DEF G
  <2>4. n \in 0 .. n
    OBVIOUS
  <2> QED
    BY <2>1, <2>2, <2>3, <2>4, CountingUp
<1>3. \A n \in Nat : g[n] \in S
  BY <1>1
<1>4. g \in [Nat -> S]
  BY <1>3 DEF g
<1>5. g[0] = first
  BY <1>1 DEF Iterates
<1>6. ASSUME NEW i \in Nat \ {0}
      PROVE  g[i] = step[i][g[i - 1]]
  <2>1. PICK h \in [0 .. i -> S] : Iterates(h, first, step, i) /\ g[i] = h[i]
    BY <1>1
  <2>2. i - 1 \in Nat /\ i - 1 <= i /\ i \in 1 .. i
    OBVIOUS
  <2>3. PICK f \in [0 .. i - 1 -> S] : Iterates(f, first, step, i - 1) /\ g[i - 1] = f[i - 1]
    BY <1>1, <2>2
  <2>4. f[i - 1] = h[i - 1]
    BY <1>2, <2>1, <2>2, <2>3
  <2>5. h[i] = step[i][h[i - 1]]
    BY <2>1, <2>2 DEF Iterates
  <2> QED
    BY <2>1, <2>3, <2>4, <2>5
<1> QED
  BY <1>4, <1>5, <1>6 DEF IteratesForever

LEMMA LargestNumber ==
  ASSUME NEW T, T \subseteq Nat, NEW k \in T, \A m \in T : k >= m
  PROVE  Max(T) = k
<1>1. Max(T) \in T /\ \A m \in T : Max(T) >= m
  BY Zenon DEF Max
<1>2. PICK n : n = Max(T)
  OBVIOUS
<1>3. n \in Nat /\ k \in Nat /\ n >= k /\ k >= n
  BY <1>1, <1>2
<1> QED
  BY <1>2, <1>3

LEMMA LargestExists ==
  ASSUME NEW n \in Nat, NEW s \in (SUBSET (1 .. n)) \ {{}}
  PROVE  Max(s) \in s /\ \A m \in s : Max(s) >= m
<1> DEFINE T == {m \in 0 .. n : \A x \in s : x <= m}
<1>1. T \subseteq Nat /\ n \in T
  OBVIOUS
<1>2. \A m \in T : m \in 0 .. n /\ \A x \in s : x <= m
  OBVIOUS
<1>3. \A m \in 0 .. n : (\A x \in s : x <= m) => m \in T
  OBVIOUS
<1> HIDE DEF T
<1>4. PICK k \in T : \A m \in T : k <= m
  BY <1>1, LeastNumber
<1>5. k \in s
  <2> SUFFICES ASSUME k \notin s
               PROVE  FALSE
    OBVIOUS
  <2>1. PICK x : x \in s /\ x \in 1 .. n
    OBVIOUS
  <2>2. k \in 0 .. n /\ \A y \in s : y <= k /\ y # k /\ y \in 1 .. n
    BY <1>2
  <2>3. k - 1 \in 0 .. n /\ \A y \in s : y <= k - 1
    BY <2>1, <2>2
  <2>4. k - 1 \in T
    BY <1>3, <2>3
  <2> QED
    BY <1>4, <2>2, <2>4
<1>6. s \subseteq Nat /\ \A m \in s : k >= m
  BY <1>2
<1>7. Max(s) = k
  BY <1>5, <1>6, LargestNumber
<1> QED
  BY <1>5, <1>6, <1>7

LEMMA LargestOfPrefix ==
  ASSUME NEW k \in Nat \ {0}
  PROVE  Max(1 .. k) = k /\ (1 .. k) \ {k} = 1 .. k - 1
<1>1. 1 .. k \subseteq Nat /\ k \in 1 .. k /\ \A m \in 1 .. k : k >= m
  OBVIOUS
<1>2. Max(1 .. k) = k
  BY <1>1, LargestNumber, Zenon
<1>3. \A j : j \in (1 .. k) \ {k} <=> j \in 1 .. k - 1
  OBVIOUS
<1> QED
  BY <1>2, <1>3

\* The iteration inside a left fold: it takes the largest number off a set.
TakesLargest(f, first, step, n) ==
  /\ f[{}] = first
  /\ \A s \in (SUBSET (1 .. n)) \ {{}} : f[s] = step[Max(s)][f[s \ {Max(s)}]]

LEMMA FoldIteration ==
  ASSUME NEW S, NEW first \in S, NEW n \in Nat, NEW step \in [1 .. n -> [S -> S]]
  PROVE  \E f \in [SUBSET (1 .. n) -> S] : TakesLargest(f, first, step, n)
<1> DEFINE Upto(k) == \E f \in [SUBSET (1 .. k) -> S] :
             /\ f[{}] = first
             /\ \A s \in (SUBSET (1 .. k)) \ {{}} : f[s] = step[Max(s)][f[s \ {Max(s)}]]
           G == {k \in 0 .. n : Upto(k)}
<1>1. Upto(0)
  <2>1. /\ [s \in SUBSET (1 .. 0) |-> first] \in [SUBSET (1 .. 0) -> S]
        /\ SUBSET (1 .. 0) = {{}}
    OBVIOUS
  <2> WITNESS [s \in SUBSET (1 .. 0) |-> first] \in [SUBSET (1 .. 0) -> S]
  <2> QED
    BY <2>1
<1>2. ASSUME NEW k \in 1 .. n, Upto(k - 1)
      PROVE  Upto(k)
  <2>1. PICK f \in [SUBSET (1 .. k - 1) -> S] :
          /\ f[{}] = first
          /\ \A s \in (SUBSET (1 .. k - 1)) \ {{}} : f[s] = step[Max(s)][f[s \ {Max(s)}]]
    BY <1>2
  <2> DEFINE g == [s \in SUBSET (1 .. k) |->
                     IF k \in s THEN step[k][f[s \ {k}]] ELSE f[s]]
  <2>2. \A s \in SUBSET (1 .. k) : s \ {k} \in SUBSET (1 .. k - 1)
    OBVIOUS
  <2>3. step[k] \in [S -> S] /\ 1 .. k - 1 \subseteq 1 .. k
    OBVIOUS
  <2>4. g \in [SUBSET (1 .. k) -> S]
    <3>1. ASSUME NEW s \in SUBSET (1 .. k)
          PROVE  (IF k \in s THEN step[k][f[s \ {k}]] ELSE f[s]) \in S
      <4>1. f[s \ {k}] \in S
        BY <2>2
      <4>2. k \notin s => s \ {k} = s
        OBVIOUS
      <4> QED
        BY <2>3, <4>1, <4>2
    <3> QED
      BY <3>1
  <2>5. g[{}] = first
    BY <2>1
  <2>6. ASSUME NEW s \in (SUBSET (1 .. k)) \ {{}}
        PROVE  g[s] = step[Max(s)][g[s \ {Max(s)}]]
    <3>1. CASE k \in s
      <4>1. Max(s) = k
        <5>1. k \in s /\ (\A y \in s : k >= y) /\ s \subseteq Nat
          BY <3>1
        <5> QED
          BY <5>1, LargestNumber
      <4>2. g[s \ {k}] = f[s \ {k}]
        BY <2>2
      <4> QED
        BY <3>1, <4>1, <4>2
    <3>2. CASE k \notin s
      <4>1. s \in SUBSET (1 .. k - 1)
        BY <3>2
      <4>2. \A x : s \ {x} \in SUBSET (1 .. k - 1) /\ s \ {x} \in SUBSET (1 .. k) /\ k \notin s \ {x}
        BY <3>2, <4>1
      <4>3. g[s] = f[s] /\ g[s \ {Max(s)}] = f[s \ {Max(s)}]
        BY <3>2, <4>1, <4>2
      <4> QED
        BY <2>1, <4>1, <4>3
    <3> QED
      BY <3>1, <3>2
  <2> HIDE DEF g
  <2> QED
    BY <2>4, <2>5, <2>6
<1> HIDE DEF Upto
<1>3. 0 \in G /\ \A k \in 1 .. n : k - 1 \in G => k \in G
  BY <1>1, <1>2
<1> HIDE DEF G
<1>4. \A k \in 0 .. n : k \in G
  BY <1>3, CountingUp
<1>5. n \in 0 .. n
  OBVIOUS
<1> QED
  BY <1>4, <1>5 DEF G, Upto, TakesLargest

\* The prefixes that FlattenSeq goes through.
Concatenates(f, seqs, n) ==
  /\ \A i \in 1 .. n : f[i] = IF i = 1 THEN seqs[i] ELSE f[i - 1] \o seqs[i]
  /\ FlattenSeq(seqs) = f[n]

LEMMA FlattenPrefixes ==
  ASSUME NEW T, NEW n \in Nat, n # 0, NEW seqs \in Seq(Seq(T)), Len(seqs) = n
  PROVE  \E f \in [1 .. n -> Seq(T)] : Concatenates(f, seqs, n)
<1> DEFINE step == [i \in 1 .. n |-> [v \in Seq(T) |-> IF i = 1 THEN seqs[i] ELSE v \o seqs[i]]]
<1>1. \A i \in 1 .. n : seqs[i] \in Seq(T)
  OBVIOUS
<1>2. step \in [1 .. n -> [Seq(T) -> Seq(T)]] /\ <<>> \in Seq(T)
  <2>1. ASSUME NEW i \in 1 .. n, NEW v \in Seq(T)
        PROVE  (IF i = 1 THEN seqs[i] ELSE v \o seqs[i]) \in Seq(T)
    BY <1>1
  <2> QED
    BY <2>1
<1>3. ASSUME NEW i \in 1 .. n, NEW v \in Seq(T)
      PROVE  step[i][v] = IF i = 1 THEN seqs[i] ELSE v \o seqs[i]
  OBVIOUS
<1> HIDE DEF step
<1>4. PICK h \in [0 .. n -> Seq(T)] : Iterates(h, <<>>, step, n)
  BY <1>2, Recursion, Zenon
<1> DEFINE body(g) == [i \in 1 .. n |-> IF i = 1 THEN seqs[i] ELSE g[i - 1] \o seqs[i]]
           f == [i \in 1 .. n |-> h[i]]
<1>5. \A i \in 1 .. n : i \in 0 .. n /\ i - 1 \in 0 .. n /\ (i # 1 => i - 1 \in 1 .. n)
  OBVIOUS
<1>6. f \in [1 .. n -> Seq(T)]
  BY <1>5
<1>7. ASSUME NEW i \in 1 .. n
      PROVE  f[i] = IF i = 1 THEN seqs[i] ELSE f[i - 1] \o seqs[i]
  <2>1. h[i - 1] \in Seq(T) /\ h[i] = step[i][h[i - 1]]
    BY <1>4, <1>5 DEF Iterates
  <2>2. h[i] = IF i = 1 THEN seqs[i] ELSE h[i - 1] \o seqs[i]
    BY <1>3, <2>1
  <2> QED
    BY <1>5, <2>2
<1> HIDE DEF f
<1>8. f = body(f)
  <2>1. DOMAIN f = 1 .. n /\ f = [i \in 1 .. n |-> f[i]]
    BY <1>6
  <2> QED
    BY <1>7, <2>1, Zenon
<1> DEFINE c == CHOOSE g : g = body(g)
<1>9. c = body(c)
  BY <1>8
<1>10. FlattenSeq(seqs) = c[n]
  BY Zenon DEF FlattenSeq
<1> HIDE DEF c
<1>11. ASSUME NEW i \in 1 .. n
       PROVE  c[i] = IF i = 1 THEN seqs[i] ELSE c[i - 1] \o seqs[i]
  BY <1>9
<1>12. c[n] = f[n]
  <2> DEFINE G == {j \in 0 .. n : j = 0 \/ c[j] = f[j]}
  <2>1. 0 \in G
    OBVIOUS
  <2>2. ASSUME NEW k \in 1 .. n, k - 1 \in G
        PROVE  k \in G
    BY <1>5, <1>7, <1>11, <2>2
  <2>3. \A k \in G : k = 0 \/ c[k] = f[k]
    OBVIOUS
  <2> HIDE DEF G
  <2>4. \A k \in 0 .. n : k \in G
    BY <2>1, <2>2, CountingUp
  <2>5. n \in 0 .. n
    OBVIOUS
  <2> QED
    BY <2>3, <2>4, <2>5
<1> QED
  BY <1>6, <1>7, <1>10, <1>12 DEF Concatenates

LEMMA FlattenEmpty == FlattenSeq(<<>>) = <<>>
  BY DEF FlattenSeq

LEMMA FlattenAppend ==
  ASSUME NEW T, NEW seqs \in Seq(Seq(T)), NEW last \in Seq(T)
  PROVE  /\ FlattenSeq(seqs) \in Seq(T)
         /\ FlattenSeq(Append(seqs, last)) = FlattenSeq(seqs) \o last
<1>1. PICK n \in Nat : n = Len(seqs)
  OBVIOUS
<1>2. PICK more : more = Append(seqs, last)
  OBVIOUS
<1>3. PICK m : m = n + 1
  OBVIOUS
<1>4. /\ more \in Seq(Seq(T)) /\ Len(more) = m
      /\ \A i \in 1 .. n : more[i] = seqs[i]
      /\ more[m] = last
  BY <1>1, <1>2, <1>3
<1>5. /\ m \in Nat /\ m # 0 /\ m \in 1 .. m
      /\ \A i \in 1 .. n : i \in 1 .. m /\ (i # 1 => i - 1 \in 1 .. n)
  BY <1>3
<1>6. PICK g \in [1 .. m -> Seq(T)] : Concatenates(g, more, m)
  BY <1>4, <1>5, FlattenPrefixes, Zenon
<1>7. CASE n = 0
  <2>1. seqs = <<>> /\ <<>> \in Seq(T)
    BY <1>1, <1>7, EmptySeq
  <2>2. FlattenSeq(seqs) = <<>>
    BY <2>1, FlattenEmpty
  <2>3. FlattenSeq(more) = last
    BY <1>3, <1>4, <1>5, <1>6, <1>7 DEF Concatenates
  <2>4. <<>> \o last = last
    OBVIOUS
  <2> QED
    BY <1>2, <2>1, <2>2, <2>3, <2>4
<1>8. CASE n # 0
  <2>1. PICK f \in [1 .. n -> Seq(T)] : Concatenates(f, seqs, n)
    BY <1>1, <1>8, FlattenPrefixes, Zenon
  <2>2. f[n] = g[n]
    <3> DEFINE G == {j \in 0 .. n : j = 0 \/ f[j] = g[j]}
    <3>1. 0 \in G
      OBVIOUS
    <3>2. ASSUME NEW k \in 1 .. n, k - 1 \in G
          PROVE  k \in G
      <4>1. k \in 1 .. m /\ more[k] = seqs[k]
        BY <1>4, <1>5
      <4>2. /\ f[k] = IF k = 1 THEN seqs[k] ELSE f[k - 1] \o seqs[k]
            /\ g[k] = IF k = 1 THEN seqs[k] ELSE g[k - 1] \o seqs[k]
        BY <1>6, <2>1, <4>1, Zenon DEF Concatenates
      <4>3. k = 1 \/ f[k - 1] = g[k - 1]
        BY <3>2
      <4>4. f[k] = g[k]
        BY <4>2, <4>3, Zenon
      <4> QED
        BY <4>4
    <3>3. \A k \in G : k = 0 \/ f[k] = g[k]
      OBVIOUS
    <3> HIDE DEF G
    <3>4. \A k \in 0 .. n : k \in G
      BY <3>1, <3>2, CountingUp
    <3>5. n \in 0 .. n
      OBVIOUS
    <3> QED
      BY <1>8, <3>3, <3>4, <3>5
  <2>3. f[n] \in Seq(T)
    BY <1>8, <2>1
  <2>4. g[m] = g[n] \o last
    <3>1. m # 1 /\ m - 1 = n
      BY <1>3, <1>8
    <3> QED
      BY <1>4, <1>5, <1>6, <3>1, Zenon DEF Concatenates
  <2> QED
    BY <1>2, <1>6, <2>1, <2>2, <2>3, <2>4 DEF Concatenates
<1> QED
  BY <1>7, <1>8

\* Flattening loses nothing.
LEMMA FlattenKeeps ==
  ASSUME NEW T, NEW seqs \in Seq(Seq(T)), NEW i \in DOMAIN seqs, NEW x, \E k \in DOMAIN seqs[i] : seqs[i][k] = x
  PROVE  \E j \in DOMAIN FlattenSeq(seqs) : FlattenSeq(seqs)[j] = x
<1>1. PICK n \in Nat : n = Len(seqs)
  OBVIOUS
<1>2. n # 0 /\ i \in 1 .. n /\ \A l \in 1 .. n : seqs[l] \in Seq(T)
  BY <1>1
<1>3. PICK f \in [1 .. n -> Seq(T)] : Concatenates(f, seqs, n)
  BY <1>1, <1>2, FlattenPrefixes, Zenon
<1> DEFINE Holds(s) == \E j \in DOMAIN s : s[j] = x
           G == {l \in 0 .. n : l >= i => Holds(f[l])}
<1>4. \A u, v \in Seq(T) : Holds(u) \/ Holds(v) => Holds(u \o v)
  <2> SUFFICES ASSUME NEW u \in Seq(T), NEW v \in Seq(T), Holds(u) \/ Holds(v)
               PROVE  Holds(u \o v)
    OBVIOUS
  <2>1. /\ DOMAIN (u \o v) = 1 .. Len(u) + Len(v) /\ DOMAIN u = 1 .. Len(u) /\ DOMAIN v = 1 .. Len(v)
        /\ \A a \in 1 .. Len(u) + Len(v) : (u \o v)[a] = IF a <= Len(u) THEN u[a] ELSE v[a - Len(u)]
        /\ Len(u) \in Nat /\ Len(v) \in Nat
    BY ConcatProperties
  <2>2. CASE Holds(u)
    <3>1. PICK j \in 1 .. Len(u) : u[j] = x
      BY <2>1, <2>2
    <3>2. j \in 1 .. Len(u) + Len(v) /\ j <= Len(u)
      BY <2>1
    <3> QED
      BY <2>1, <3>1, <3>2
  <2>3. CASE Holds(v)
    <3>1. PICK j \in 1 .. Len(v) : v[j] = x
      BY <2>1, <2>3
    <3>0. PICK cu \in Nat, cv \in Nat : cu = Len(u) /\ cv = Len(v)
      BY <2>1
    <3>4. j \in 1 .. cv
      BY <3>0
    <3>2. PICK a \in 1 .. cu + cv : a = cu + j
      BY <3>4
    <3>3. ~(a <= cu) /\ a - cu = j
      BY <3>0, <3>2
    <3> QED
      BY <2>1, <3>0, <3>1, <3>3
  <2> QED
    BY <2>2, <2>3
<1>5. ASSUME NEW l \in 1 .. n, l - 1 >= i => Holds(f[l - 1]), l >= i
      PROVE  Holds(f[l])
  <2>1. f[l] = IF l = 1 THEN seqs[l] ELSE f[l - 1] \o seqs[l]
    BY <1>3, Zenon DEF Concatenates
  <2>2. l # 1 => l - 1 \in 1 .. n
    OBVIOUS
  <2>3. l = i \/ (l # 1 /\ l - 1 >= i)
    BY <1>2, <1>5
  <2>4. l = i => Holds(seqs[l])
    OBVIOUS
  <2> HIDE DEF Holds
  <2> QED
    BY <1>2, <1>4, <1>5, <2>1, <2>2, <2>3, <2>4
<1>6. 0 \in G
  BY <1>2
<1>7. \A l \in 1 .. n : l - 1 \in G => l \in G
  <2> HIDE DEF Holds
  <2> QED
    BY <1>5
<1>8. \A l \in 0 .. n : l \in G
  <2> HIDE DEF G
  <2> QED
    BY <1>6, <1>7, CountingUp
<1>9. Holds(f[n])
  <2> HIDE DEF Holds
  <2>1. n \in 0 .. n /\ n >= i
    BY <1>2
  <2> QED
    BY <1>8, <2>1
<1> QED
  BY <1>3, <1>9 DEF Concatenates

\* prior[x]: what comes before x in a strict total order of S.
Orders(prior, S) ==
  /\ \A x \in S : x \notin prior[x]
  /\ \A x, y \in S : x \in prior[y] => prior[x] \subseteq prior[y]
  /\ \A x, y \in S : x = y \/ x \in prior[y] \/ y \in prior[x]

\* All of S, in that order, by the number of those that come before.
Enumerates(f, prior, S) ==
  /\ \A i \in 1 .. Cardinality(S) : \A x \in S : Cardinality(prior[x]) = i - 1 <=> f[i] = x
  /\ \A x \in S : \E i \in 1 .. Cardinality(S) : f[i] = x
  /\ \A i, j \in 1 .. Cardinality(S) : i < j => f[i] \in prior[f[j]]

LEMMA Enumeration ==
  ASSUME NEW S, IsFiniteSet(S), NEW prior \in [S -> SUBSET S], Orders(prior, S)
  PROVE  \E f \in [1 .. Cardinality(S) -> S] : Enumerates(f, prior, S)
<1>1. PICK n \in Nat : n = Cardinality(S)
  BY FS_CardinalityType
<1> DEFINE rank == [x \in S |-> Cardinality(prior[x])]
<1>2. ASSUME NEW x \in S
      PROVE  rank[x] \in 0 .. n - 1
  <2>1. prior[x] \in SUBSET S /\ prior[x] # S
    BY DEF Orders
  <2>2. /\ IsFiniteSet(prior[x]) /\ Cardinality(prior[x]) <= Cardinality(S)
        /\ Cardinality(S) = Cardinality(prior[x]) => S = prior[x]
    BY <2>1, FS_Subset
  <2>3. PICK k \in Nat : k = Cardinality(prior[x])
    BY <2>2, FS_CardinalityType
  <2>4. k <= n /\ k # n
    BY <1>1, <2>1, <2>2, <2>3
  <2> QED
    BY <2>3, <2>4
<1>3. ASSUME NEW x \in S, NEW y \in S, x \in prior[y]
      PROVE  rank[x] < rank[y]
  <2>1. prior[x] \in SUBSET prior[y] /\ prior[x] # prior[y] /\ prior[y] \in SUBSET S
    BY <1>3 DEF Orders
  <2>2. IsFiniteSet(prior[y])
    BY <2>1, FS_Subset
  <2>3. /\ Cardinality(prior[x]) <= Cardinality(prior[y])
        /\ Cardinality(prior[y]) = Cardinality(prior[x]) => prior[y] = prior[x]
    BY <2>1, <2>2, FS_Subset
  <2>4. PICK k \in Nat : k = rank[x]
    BY <1>2
  <2>5. PICK m \in Nat : m = rank[y]
    BY <1>2
  <2>6. k <= m /\ k # m
    BY <2>1, <2>3, <2>4, <2>5
  <2> QED
    BY <2>4, <2>5, <2>6
<1>4. rank \in [S -> 0 .. n - 1]
  BY <1>2
<1>5. \A x, y \in S : rank[x] = rank[y] => x = y
  <2>1. \A x, y \in S : x \in prior[y] => rank[x] # rank[y]
    BY <1>2, <1>3
  <2> QED
    BY <2>1 DEF Orders
<1>6. \A x \in S : rank[x] = Cardinality(prior[x])
  OBVIOUS
<1> HIDE DEF rank
<1>7. rank \in Injection(S, 0 .. n - 1)
  BY <1>4, <1>5 DEF Injection, IsInjective
<1>8. IsFiniteSet(0 .. n - 1) /\ Cardinality(0 .. n - 1) = n
  <2>1. 0 \in Int /\ n - 1 \in Int /\ (IF 0 > n - 1 THEN 0 ELSE (n - 1) - 0 + 1) = n
    OBVIOUS
  <2> QED
    BY <2>1, FS_Interval
<1>9. rank \in Surjection(S, 0 .. n - 1)
  BY <1>1, <1>7, <1>8, FS_Injection
<1> DEFINE f == [i \in 1 .. n |-> CHOOSE x \in S : Cardinality(prior[x]) = i - 1]
<1>10. ASSUME NEW i \in 1 .. n
       PROVE  f[i] \in S /\ rank[f[i]] = i - 1
  <2>1. i - 1 \in 0 .. n - 1
    OBVIOUS
  <2>2. \E x \in S : rank[x] = i - 1
    BY <1>9, <2>1 DEF Surjection
  <2>3. \E x \in S : Cardinality(prior[x]) = i - 1
    BY <1>6, <2>2
  <2>4. f[i] \in S /\ Cardinality(prior[f[i]]) = i - 1
    BY <2>3
  <2> QED
    BY <1>6, <2>4
<1>11. \A i \in 1 .. n : \A x \in S : Cardinality(prior[x]) = i - 1 <=> f[i] = x
  BY <1>5, <1>6, <1>10
<1>12. f \in [1 .. n -> S]
  BY <1>10
<1> HIDE DEF f
<1>13. ASSUME NEW x \in S
       PROVE  \E i \in 1 .. n : f[i] = x
  <2>1. PICK i \in 1 .. n : i = rank[x] + 1
    BY <1>2
  <2>2. rank[f[i]] = rank[x] /\ f[i] \in S
    BY <1>2, <1>10, <2>1
  <2> QED
    BY <1>5, <2>2
<1>14. ASSUME NEW i \in 1 .. n, NEW j \in 1 .. n, i < j
       PROVE  f[i] \in prior[f[j]]
  <2>1. f[i] \in S /\ f[j] \in S /\ rank[f[i]] = i - 1 /\ rank[f[j]] = j - 1
    BY <1>10
  <2>2. f[i] # f[j]
    BY <1>14, <2>1
  <2>3. ~(f[j] \in prior[f[i]])
    <3>1. f[j] \in prior[f[i]] => rank[f[j]] < rank[f[i]]
      BY <1>3, <2>1
    <3> QED
      BY <1>14, <2>1, <3>1
  <2> QED
    BY <2>1, <2>2, <2>3 DEF Orders
<1>15. Enumerates(f, prior, S)
  BY <1>1, <1>11, <1>13, <1>14 DEF Enumerates
<1> QED
  BY <1>1, <1>12, <1>15
=============================================================================
