----------------------------- MODULE VaultProofs ----------------------------
(* For any drives, paths and manifests.  First the order of plans: from the *)
(* order of paths to that of topological_sort's queue, and from what        *)
(* plan_sync puts into a plan to what is left of it in any state of the     *)
(* vault.  Then types: whatever plan_sync plans and however an operation    *)
(* ends, files stay in directories and rows are rows.  Then what a plan is  *)
(* worth: it leads every drive to the same files.  Then a single path, for  *)
(* which that always holds and the second sync leaves nothing to do.  Then  *)
(* the version vectors of the rows.  Last a lone change: followed from the  *)
(* drive where it was made to all others.                                   *)
EXTENDS Vault, Induction

-----------------------------------------------------------------------------
(* The order of paths                                                      *)

\* The first place where p and q differ, and p is less there.
Differ(p, q, n) ==
  /\ n \in 1 .. Len(q) /\ n <= Len(p) + 1
  /\ \A i \in 1 .. n - 1 : p[i] = q[i]
  /\ n <= Len(p) => p[n] < q[n]

LEMMA PrefixesEqual ==
  ASSUME NEW p \in Seq(Nat), NEW q \in Seq(Nat), NEW n \in Nat,
         n <= Len(p), n <= Len(q)
  PROVE  SubSeq(p, 1, n) = SubSeq(q, 1, n) <=> \A i \in 1 .. n : p[i] = q[i]
<1>1. /\ SubSeq(p, 1, n) \in Seq(Nat) /\ Len(SubSeq(p, 1, n)) = n
      /\ \A i \in 1 .. n : SubSeq(p, 1, n)[i] = p[i]
  BY SubSeqProperties
<1>2. /\ SubSeq(q, 1, n) \in Seq(Nat) /\ Len(SubSeq(q, 1, n)) = n
      /\ \A i \in 1 .. n : SubSeq(q, 1, n)[i] = q[i]
  BY SubSeqProperties
<1>3. PICK x : x = SubSeq(p, 1, n)
  OBVIOUS
<1>4. PICK y : y = SubSeq(q, 1, n)
  OBVIOUS
<1>5. x = y <=> \A i \in 1 .. n : x[i] = y[i]
  BY <1>1, <1>2, <1>3, <1>4, SeqEqual
<1> QED
  BY <1>1, <1>2, <1>3, <1>4, <1>5

\* Whether p is a proper prefix of q, by its names.
LEMMA StrictPrefix ==
  ASSUME NEW p \in Seq(Nat), NEW q \in Seq(Nat)
  PROVE  IsStrictPrefix(p, q) <=> Len(p) < Len(q) /\ \A i \in 1 .. Len(p) : p[i] = q[i]
<1>1. PICK a \in Nat : a = Len(p)
  OBVIOUS
<1>2. PICK b \in Nat : b = Len(q)
  OBVIOUS
<1>3. SubSeq(p, 1, a) = p /\ SubSeq(q, 1, b) = q
  BY <1>1, <1>2, SubSeqFull
<1>4. CASE ~(a <= b)
  BY <1>1, <1>2, <1>4 DEF IsStrictPrefix, IsPrefix
<1>5. CASE a <= b
  <2>1. SubSeq(p, 1, a) = SubSeq(q, 1, a) <=> \A i \in 1 .. a : p[i] = q[i]
    BY <1>1, <1>2, <1>5, PrefixesEqual
  <2>2. a = b => (SubSeq(p, 1, a) = SubSeq(q, 1, a) <=> p = q)
    BY <1>3
  <2>3. a # b => p # q
    BY <1>1, <1>2
  <2> QED
    BY <1>1, <1>2, <1>5, <2>1, <2>2, <2>3 DEF IsStrictPrefix, IsPrefix
<1> QED
  BY <1>4, <1>5

LEMMA LessIsDiffer ==
  ASSUME NEW p \in Seq(Nat), NEW q \in Seq(Nat)
  PROVE  PathLess(p, q) <=> \E n \in Nat : Differ(p, q, n)
<1>1. PICK a \in Nat : a = Len(p)
  OBVIOUS
<1>2. PICK b \in Nat : b = Len(q)
  OBVIOUS
<1>3. ASSUME NEW n \in 1 .. a, n <= b
      PROVE  /\ (SubSeq(p, 1, n - 1) = SubSeq(q, 1, n - 1) /\ p[n] < q[n]) <=> Differ(p, q, n)
  <2>1. n - 1 \in Nat /\ n - 1 <= Len(p) /\ n - 1 <= Len(q)
    BY <1>1, <1>2, <1>3
  <2>2. SubSeq(p, 1, n - 1) = SubSeq(q, 1, n - 1) <=> \A i \in 1 .. n - 1 : p[i] = q[i]
    BY <2>1, PrefixesEqual
  <2> QED
    BY <1>1, <1>2, <1>3, <2>2 DEF Differ
<1>4. IsStrictPrefix(p, q) <=> Differ(p, q, a + 1)
  <2>1. (a + 1) - 1 = a /\ ~(a + 1 <= a) /\ (a + 1 \in 1 .. b <=> a < b) /\ a + 1 <= a + 1
    OBVIOUS
  <2>2. IsStrictPrefix(p, q) <=> a < b /\ \A i \in 1 .. a : p[i] = q[i]
    BY <1>1, <1>2, StrictPrefix
  <2> QED
    BY <1>1, <1>2, <2>1, <2>2 DEF Differ
<1>5. ASSUME NEW n \in Nat, Differ(p, q, n)
      PROVE  n = a + 1 \/ (n \in 1 .. a /\ n <= b)
  BY <1>1, <1>2, <1>5 DEF Differ
<1>6. PathLess(p, q) <=> IsStrictPrefix(p, q) \/ \E n \in 1 .. a : n <= b /\ Differ(p, q, n)
  BY <1>1, <1>2, <1>3 DEF PathLess
<1>7. \A n \in 1 .. a : n \in Nat
  OBVIOUS
<1>8. a + 1 \in Nat
  OBVIOUS
<1> QED
  BY <1>4, <1>5, <1>6, <1>7, <1>8

LEMMA PathOrder ==
  ASSUME NEW p \in Seq(Nat), NEW q \in Seq(Nat), NEW r \in Seq(Nat)
  PROVE  /\ ~PathLess(p, p)
         /\ PathLess(p, q) /\ PathLess(q, r) => PathLess(p, r)
         /\ p = q \/ PathLess(p, q) \/ PathLess(q, p)
<1>0. /\ Len(p) \in Nat /\ Len(q) \in Nat /\ Len(r) \in Nat
      /\ \A i \in 1 .. Len(p) : p[i] \in Nat
      /\ \A i \in 1 .. Len(q) : q[i] \in Nat
      /\ \A i \in 1 .. Len(r) : r[i] \in Nat
  OBVIOUS
<1>1. ~PathLess(p, p)
  <2>1. ASSUME NEW n \in Nat, Differ(p, p, n)
        PROVE  FALSE
    BY <1>0, <2>1 DEF Differ
  <2> QED
    BY <2>1, LessIsDiffer
<1>2. ASSUME PathLess(p, q), PathLess(q, r)
      PROVE  PathLess(p, r)
  <2>1. PICK n \in Nat : Differ(p, q, n)
    BY <1>2, LessIsDiffer
  <2>2. PICK m \in Nat : Differ(q, r, m)
    BY <1>2, LessIsDiffer
  <2>3. CASE n <= m
    <3>1. Differ(p, r, n)
      <4>1. n \in 1 .. Len(r) /\ n <= Len(p) + 1 /\ n \in 1 .. Len(q)
        BY <1>0, <2>1, <2>2, <2>3 DEF Differ
      <4>2. \A i \in 1 .. n - 1 : p[i] = r[i]
        BY <2>1, <2>2, <2>3 DEF Differ
      <4>3. ASSUME n <= Len(p)
            PROVE  p[n] < r[n]
        <5>1. p[n] < q[n] /\ p[n] \in Nat /\ q[n] \in Nat /\ r[n] \in Nat
          BY <1>0, <2>1, <4>1, <4>3 DEF Differ
        <5>2. CASE n = m
          BY <2>2, <4>1, <5>1, <5>2 DEF Differ
        <5>3. CASE n < m
          BY <2>2, <4>1, <5>1, <5>3 DEF Differ
        <5> QED
          BY <2>3, <5>2, <5>3
      <4> QED
        BY <4>1, <4>2, <4>3 DEF Differ
    <3> QED
      BY <3>1, LessIsDiffer
  <2>4. CASE m < n
    <3>1. Differ(p, r, m)
      <4>1. m \in 1 .. Len(r) /\ m <= Len(p) /\ m \in 1 .. Len(q)
        BY <1>0, <2>1, <2>2, <2>4 DEF Differ
      <4>2. \A i \in 1 .. m - 1 : p[i] = r[i]
        BY <2>1, <2>2, <2>4 DEF Differ
      <4>3. p[m] = q[m] /\ q[m] < r[m]
        BY <2>1, <2>2, <2>4, <4>1 DEF Differ
      <4> QED
        BY <1>0, <4>1, <4>2, <4>3 DEF Differ
    <3> QED
      BY <3>1, LessIsDiffer
  <2> QED
    BY <2>3, <2>4
<1>3. ASSUME p # q
      PROVE  PathLess(p, q) \/ PathLess(q, p)
  <2>1. CASE \A i \in 1 .. Len(p) : i <= Len(q) => p[i] = q[i]
    <3>1. Len(p) # Len(q)
      BY <1>0, <1>3, <2>1, SeqEqual
    <3>2. CASE Len(p) < Len(q)
      <4>1. IsStrictPrefix(p, q)
        BY <1>0, <2>1, <3>2, StrictPrefix
      <4> QED
        BY <4>1 DEF PathLess
    <3>3. CASE Len(q) < Len(p)
      <4>1. IsStrictPrefix(q, p)
        BY <1>0, <2>1, <3>3, StrictPrefix
      <4> QED
        BY <4>1 DEF PathLess
    <3> QED
      BY <1>0, <3>1, <3>2, <3>3
  <2>2. CASE \E i \in 1 .. Len(p) : i <= Len(q) /\ p[i] # q[i]
    <3> DEFINE T == {i \in 1 .. Len(p) : i <= Len(q) /\ p[i] # q[i]}
    <3>1. T \subseteq Nat /\ T # {}
      BY <2>2
    <3>2. PICK n \in T : \A m \in T : n <= m
      BY <3>1, LeastNumber
    <3>3. n \in 1 .. Len(p) /\ n \in 1 .. Len(q) /\ p[n] # q[n]
      BY <1>0
    <3>4. ASSUME NEW i \in 1 .. n - 1
          PROVE  p[i] = q[i]
      <4>1. i \in 1 .. Len(p) /\ i <= Len(q) /\ ~(n <= i)
        BY <1>0, <3>3
      <4>2. i \notin T
        BY <3>2, <4>1
      <4> QED
        BY <4>1, <4>2
    <3>5. p[n] \in Nat /\ q[n] \in Nat
      BY <1>0, <3>3
    <3>6. CASE p[n] < q[n]
      <4>1. Differ(p, q, n)
        BY <1>0, <3>3, <3>4, <3>6 DEF Differ
      <4> QED
        BY <3>3, <4>1, LessIsDiffer
    <3>7. CASE q[n] < p[n]
      <4>1. Differ(q, p, n)
        BY <1>0, <3>3, <3>4, <3>7 DEF Differ
      <4> QED
        BY <3>3, <4>1, LessIsDiffer
    <3> QED
      BY <3>3, <3>5, <3>6, <3>7
  <2> QED
    BY <2>1, <2>2
<1> QED
  BY <1>1, <1>2, <1>3

-----------------------------------------------------------------------------
(* Ascending                                                               *)

IsAscending(s, S) ==
  /\ \A x \in S : \E i \in 1 .. Len(s) : s[i] = x
  /\ \A i, j \in 1 .. Len(s) : i < j => s[i] < s[j]

LEMMA AscendingFacts ==
  ASSUME NEW n \in Nat, NEW S \in SUBSET (1 .. n)
  PROVE  Ascending(S) \in Seq(S) /\ IsAscending(Ascending(S), S)
<1>1. IsFiniteSet(S)
  <2>1. IsFiniteSet(1 .. n)
    BY FS_Interval
  <2> QED
    BY <2>1, FS_Subset
<1> DEFINE before == [x \in S |-> {y \in S : y < x}]
<1>2. before \in [S -> SUBSET S]
  OBVIOUS
<1>4. \A x \in S : before[x] = {y \in S : y < x}
  OBVIOUS
<1> HIDE DEF before
<1>3. Orders(before, S)
  <2>1. \A x, y \in S : x \in before[y] <=> x < y
    BY <1>4
  <2>2. S \subseteq Nat
    OBVIOUS
  <2>3. \A x \in S : x \notin before[x]
    BY <2>1, <2>2
  <2>4. \A x, y \in S : x \in before[y] => before[x] \subseteq before[y]
    <3>1. \A x, y, z \in S : x < y /\ z < x => z < y
      BY <2>2
    <3> QED
      BY <1>2, <2>1, <3>1
  <2>5. \A x, y \in S : x = y \/ x \in before[y] \/ y \in before[x]
    <3>1. \A x, y \in S : x = y \/ x < y \/ y < x
      BY <2>2
    <3> QED
      BY <2>1, <3>1
  <2> QED
    BY <2>3, <2>4, <2>5 DEF Orders
<1>5. PICK f \in [1 .. Cardinality(S) -> S] : Enumerates(f, before, S)
  BY <1>1, <1>2, <1>3, Enumeration
<1>6. PICK c \in Nat : c = Cardinality(S)
  BY <1>1, FS_CardinalityType
<1>7. ASSUME NEW i \in 1 .. c
      PROVE  f[i] = CHOOSE x \in S : Cardinality({y \in S : y < x}) = i - 1
  <2>1. \A x \in S : Cardinality({y \in S : y < x}) = i - 1 <=> f[i] = x
    BY <1>4, <1>5, <1>6 DEF Enumerates
  <2>2. f[i] \in S
    BY <1>6
  <2> QED
    BY <2>1, <2>2
<1>8. Ascending(S) = [i \in 1 .. c |-> f[i]]
  BY <1>6, <1>7 DEF Ascending, InOrder
<1>9. f = [i \in 1 .. c |-> f[i]] /\ f \in Seq(S) /\ Len(f) = c
  BY <1>6
<1>10. \A i, j \in 1 .. c : i < j => f[i] < f[j]
  <2>1. \A i, j \in 1 .. c : i < j => f[i] \in before[f[j]]
    BY <1>5, <1>6 DEF Enumerates
  <2>2. \A j \in 1 .. c : f[j] \in S
    BY <1>6
  <2> QED
    BY <1>4, <2>1, <2>2
<1>11. \A x \in S : \E i \in 1 .. c : f[i] = x
  BY <1>5, <1>6 DEF Enumerates
<1> QED
  BY <1>8, <1>9, <1>10, <1>11 DEF IsAscending

-----------------------------------------------------------------------------
(* topological_sort                                                        *)

\* The queue after k turns, where w[j] is what j waits for.  Nothing is in it
\* twice; what is in it waits for what was taken before; and what waits for
\* nothing else is in it.
Queued(q, w, n, k) ==
  /\ \A a, b \in 1 .. Len(q) : q[a] = q[b] => a = b
  /\ \A a \in 1 .. Len(q) : \A x \in w[q[a]] : \E b \in 1 .. a - 1 : b <= k /\ q[b] = x
  /\ \A j \in 1 .. n :
       (\A x \in w[j] : \E b \in 1 .. Len(q) : b <= k /\ q[b] = x)
         => \E a \in 1 .. Len(q) : q[a] = j

LEMMA QueuedTurn ==
  ASSUME NEW n \in Nat, NEW w \in [1 .. n -> SUBSET (1 .. n)],
         NEW k \in 1 .. n, NEW q \in Seq(1 .. n), Queued(q, w, n, k - 1), k <= Len(q),
         NEW F, F = {j \in 1 .. n : q[k] \in w[j] /\ \A x \in w[j] : \E b \in 1 .. k : q[b] = x},
         NEW s \in Seq(F), IsAscending(s, F)
  PROVE  Queued(q \o s, w, n, k)
<1>1. PICK u \in Nat : u = Len(q)
  OBVIOUS
<1>2. PICK v \in Nat : v = Len(s)
  OBVIOUS
<1>3. PICK z : z = q \o s
  OBVIOUS
<1>4. F \subseteq 1 .. n /\ s \in Seq(1 .. n)
  <2>1. F \subseteq 1 .. n
    OBVIOUS
  <2> QED
    BY <2>1, SeqMonotonic
<1>5. /\ Len(z) = u + v /\ \A a \in 1 .. u : z[a] = q[a]
      /\ \A a \in u + 1 .. u + v : a - u \in 1 .. v /\ z[a] = s[a - u]
  <2>1. /\ Len(z) = u + v
        /\ \A a \in 1 .. u + v : z[a] = IF a <= u THEN q[a] ELSE s[a - u]
    BY <1>1, <1>2, <1>3, <1>4, ConcatProperties
  <2>2. \A a \in 1 .. u : a \in 1 .. u + v /\ a <= u
    OBVIOUS
  <2>3. \A a \in u + 1 .. u + v : a \in 1 .. u + v /\ ~(a <= u) /\ a - u \in 1 .. v
    OBVIOUS
  <2> QED
    BY <2>1, <2>2, <2>3
<1>6. \A a \in 1 .. u : q[a] \in 1 .. n
  BY <1>1
<1>7. \A a \in 1 .. v : s[a] \in F
  BY <1>2
<1>8. \A a, b \in 1 .. u : q[a] = q[b] => a = b
  BY <1>1 DEF Queued
<1>9. \A a \in 1 .. u : \A x \in w[q[a]] : \E b \in 1 .. a - 1 : b <= k - 1 /\ q[b] = x
  BY <1>1 DEF Queued
<1>10. \A a, b \in 1 .. v : s[a] = s[b] => a = b
  <2>1. \A a, b \in 1 .. v : a < b => s[a] < s[b]
    BY <1>2 DEF IsAscending
  <2>2. \A a \in 1 .. v : s[a] \in Nat
    BY <1>4, <1>7
  <2>3. ASSUME NEW a \in 1 .. v, NEW b \in 1 .. v, s[a] = s[b]
        PROVE  a = b
    <3>1. ~(a < b) /\ ~(b < a)
      BY <2>1, <2>2, <2>3
    <3> QED
      BY <3>1
  <2> QED
    BY <2>3
\* What is freed was not in the queue.
<1>11. ASSUME NEW a \in 1 .. u
       PROVE  q[a] \notin F
  <2> SUFFICES ASSUME q[a] \in F
               PROVE  FALSE
    OBVIOUS
  <2>1. PICK b \in 1 .. a - 1 : b <= k - 1 /\ q[b] = q[k]
    BY <1>9
  <2>2. b \in 1 .. u /\ k \in 1 .. u /\ b # k
    BY <1>1, <2>1
  <2> QED
    BY <1>8, <2>1, <2>2
<1>12. ASSUME NEW a \in 1 .. u + v, NEW b \in 1 .. u + v, z[a] = z[b]
       PROVE  a = b
  <2>1. CASE a \in 1 .. u /\ b \in 1 .. u
    BY <1>5, <1>8, <1>12, <2>1
  <2>2. CASE a \in u + 1 .. u + v /\ b \in u + 1 .. u + v
    <3>1. a - u = b - u
      BY <1>5, <1>10, <1>12, <2>2
    <3> QED
      BY <3>1
  <2>3. CASE a \in 1 .. u /\ b \in u + 1 .. u + v
    <3>1. z[a] = q[a] /\ z[b] \in F
      BY <1>5, <1>7, <2>3
    <3> QED
      BY <1>11, <1>12, <2>3, <3>1
  <2>4. CASE b \in 1 .. u /\ a \in u + 1 .. u + v
    <3>1. z[b] = q[b] /\ z[a] \in F
      BY <1>5, <1>7, <2>4
    <3> QED
      BY <1>11, <1>12, <2>4, <3>1
  <2> QED
    BY <2>1, <2>2, <2>3, <2>4
<1>13. ASSUME NEW a \in 1 .. u + v, NEW x \in w[z[a]]
       PROVE  \E b \in 1 .. a - 1 : b <= k /\ z[b] = x
  <2>1. CASE a \in 1 .. u
    <3>1. PICK b \in 1 .. a - 1 : b <= k - 1 /\ q[b] = x
      BY <1>5, <1>9, <1>13, <2>1
    <3>2. b \in 1 .. u /\ b <= k
      BY <2>1, <3>1
    <3> QED
      BY <1>5, <3>1, <3>2
  <2>2. CASE a \in u + 1 .. u + v
    <3>1. z[a] \in F
      BY <1>5, <1>7, <2>2
    <3>2. PICK b \in 1 .. k : q[b] = x
      BY <1>13, <3>1
    <3>3. b \in 1 .. u /\ b \in 1 .. a - 1 /\ b <= k
      BY <1>1, <2>2, <3>2
    <3> QED
      BY <1>5, <3>2, <3>3
  <2> QED
    BY <2>1, <2>2
<1>14. ASSUME NEW j \in 1 .. n,
              \A x \in w[j] : \E b \in 1 .. u + v : b <= k /\ z[b] = x
       PROVE  \E a \in 1 .. u + v : z[a] = j
  <2>1. \A x \in w[j] : \E b \in 1 .. k : q[b] = x
    <3>0. \A b \in 1 .. u + v : b <= k => b \in 1 .. k /\ b \in 1 .. u
      BY <1>1
    <3>1. \A b \in 1 .. u + v : b <= k => b \in 1 .. k /\ z[b] = q[b]
      BY <1>5, <3>0
    <3> QED
      BY <1>14, <3>1
  <2>2. CASE q[k] \in w[j]
    <3>1. j \in F
      BY <2>1, <2>2
    <3>2. PICK a \in 1 .. v : s[a] = j
      BY <1>2, <3>1 DEF IsAscending
    <3>3. PICK c \in u + 1 .. u + v : c = u + a
      OBVIOUS
    <3>4. c - u = a
      BY <3>3
    <3>5. z[c] = j /\ c \in 1 .. u + v
      BY <1>5, <3>2, <3>4
    <3> QED
      BY <3>5
  <2>3. CASE q[k] \notin w[j]
    <3>1. \A x \in w[j] : \E b \in 1 .. u : b <= k - 1 /\ q[b] = x
      <4>1. \A b \in 1 .. k : b # k => b \in 1 .. u /\ b <= k - 1
        BY <1>1
      <4> QED
        BY <2>1, <2>3, <4>1
    <3>2. PICK a \in 1 .. u : q[a] = j
      BY <1>1, <3>1 DEF Queued
    <3>3. a \in 1 .. u + v
      OBVIOUS
    <3> QED
      BY <1>5, <3>2, <3>3
  <2> QED
    BY <2>2, <2>3
<1>15. Queued(z, w, n, k)
  BY <1>5, <1>12, <1>13, <1>14 DEF Queued
<1> QED
  BY <1>3, <1>15

\* A queue that has come to its end stays.
LEMMA QueuedRest ==
  ASSUME NEW n \in Nat, NEW w \in [1 .. n -> SUBSET (1 .. n)],
         NEW k \in 1 .. n, NEW q \in Seq(1 .. n), Queued(q, w, n, k - 1), k > Len(q)
  PROVE  Queued(q, w, n, k)
<1>1. PICK u \in Nat : u = Len(q)
  OBVIOUS
<1>2. \A b \in 1 .. u : b <= k - 1
  BY <1>1
<1>3. \A a \in 1 .. u : \A b \in 1 .. a - 1 : b <= k - 1 => b <= k
  OBVIOUS
<1> QED
  BY <1>1, <1>2, <1>3 DEF Queued

Free(ops) == Ascending({j \in DOMAIN ops : Waits(ops, j) = {}})

QueueTurns(turn, ops, n) ==
  turn[0] = Free(ops) /\ \A k \in 1 .. n : turn[k] = Take(ops, turn[k - 1], k)

\* The queue, and what waits in a circle.
WithRest(queue, ops) ==
  LET order == queue \o Ascending(DOMAIN ops \ Range(queue))
  IN [k \in DOMAIN ops |-> ops[order[k]]]

LEMMA TakeType ==
  ASSUME NEW T, NEW ops \in Seq(T), NEW n \in Nat, Len(ops) = n,
         NEW queue \in Seq(1 .. n), NEW k \in 1 .. n
  PROVE  Take(ops, queue, k) \in Seq(1 .. n) /\ Free(ops) \in Seq(1 .. n)
<1>1. DOMAIN ops = 1 .. n
  OBVIOUS
<1>2. PICK F \in SUBSET (1 .. n) : F = Freed(ops, queue, k)
  BY <1>1 DEF Freed
<1>3. Ascending(F) \in Seq(1 .. n)
  <2>1. Ascending(F) \in Seq(F)
    BY AscendingFacts
  <2> QED
    BY <2>1, SeqMonotonic
<1>4. PICK G \in SUBSET (1 .. n) : G = {j \in DOMAIN ops : Waits(ops, j) = {}}
  BY <1>1
<1>5. Ascending(G) \in Seq(1 .. n)
  <2>1. Ascending(G) \in Seq(G)
    BY AscendingFacts
  <2> QED
    BY <2>1, SeqMonotonic
<1>6. queue \o Ascending(F) \in Seq(1 .. n)
  BY <1>3, ConcatProperties
<1> QED
  BY <1>2, <1>4, <1>5, <1>6 DEF Take, Free

\* The fold goes from turn to turn.
LEMMA SortTurns ==
  ASSUME NEW T, NEW ops \in Seq(T), NEW n \in Nat, Len(ops) = n
  PROVE  \E turn \in [0 .. n -> Seq(1 .. n)] :
           QueueTurns(turn, ops, n) /\ TopologicalSort(ops) = WithRest(turn[n], ops)
<1> DEFINE step == [i \in 1 .. n |-> [queue \in Seq(1 .. n) |-> Take(ops, queue, i)]]
<1>1. Free(ops) \in Seq(1 .. n)
  <2>1. DOMAIN ops = 1 .. n
    OBVIOUS
  <2>2. PICK G \in SUBSET (1 .. n) : G = {j \in DOMAIN ops : Waits(ops, j) = {}}
    BY <2>1
  <2>3. Ascending(G) \in Seq(G)
    BY AscendingFacts
  <2>4. Ascending(G) \in Seq(1 .. n)
    BY <2>3, SeqMonotonic
  <2> QED
    BY <2>2, <2>4 DEF Free
<1>2. step \in [1 .. n -> [Seq(1 .. n) -> Seq(1 .. n)]]
  BY TakeType
<1>3. \A i \in 1 .. n, queue \in Seq(1 .. n) : step[i][queue] = Take(ops, queue, i)
  OBVIOUS
<1> HIDE DEF step
<1>4. PICK f \in [SUBSET (1 .. n) -> Seq(1 .. n)] : TakesLargest(f, Free(ops), step, n)
  BY <1>1, <1>2, FoldIteration, Zenon
<1> DEFINE body(g) == [s \in SUBSET (1 .. n) |->
                         IF s = {} THEN Free(ops) ELSE Take(ops, g[s \ {Max(s)}], Max(s))]
           q == [i \in DOMAIN ops |-> i]
           domains(g) == [s \in SUBSET DOMAIN q |->
                            IF s = {} THEN Free(ops)
                            ELSE Take(ops, g[s \ {Max(s)}], q[Max(s)])]
           c == CHOOSE g : g = domains(g)
           turn == [k \in 0 .. n |-> c[1 .. k]]
<1>5. f = body(f)
  <2>1. ASSUME NEW s \in SUBSET (1 .. n), s # {}
        PROVE  f[s] = Take(ops, f[s \ {Max(s)}], Max(s))
    <3>1. Max(s) \in 1 .. n
      BY <2>1, LargestExists
    <3>2. f[s \ {Max(s)}] \in Seq(1 .. n)
      OBVIOUS
    <3>3. f[s] = step[Max(s)][f[s \ {Max(s)}]]
      BY <1>4, <2>1, Zenon DEF TakesLargest
    <3> QED
      BY <1>3, <3>1, <3>2, <3>3
  <2>2. f = [s \in SUBSET (1 .. n) |-> f[s]] /\ f[{}] = Free(ops)
    BY <1>4 DEF TakesLargest
  <2> QED
    BY <2>1, <2>2, Zenon
<1>6. ASSUME NEW g
      PROVE  domains(g) = body(g)
  <2>1. DOMAIN q = 1 .. n /\ \A i \in 1 .. n : q[i] = i
    OBVIOUS
  <2>2. \A s \in (SUBSET (1 .. n)) \ {{}} : q[Max(s)] = Max(s)
    BY <2>1, LargestExists
  <2> QED
    BY <2>1, <2>2
<1>7. f = domains(f)
  BY <1>5, <1>6
<1>8. c = domains(c)
  BY <1>7
<1>9. TopologicalSort(ops) = WithRest(c[1 .. n], ops)
  <2>1. 1 .. n = DOMAIN q
    OBVIOUS
  <2>2. TopologicalSort(ops) = WithRest(c[DOMAIN q], ops)
    BY DEF TopologicalSort, WithRest, FoldLeftDomain, FoldLeft, MapThenFoldSet, Free
  <2> QED
    BY <2>1, <2>2, Zenon
<1>10. c[1 .. 0] = Free(ops)
  <2>1. 1 .. 0 = {}
    OBVIOUS
  <2> QED
    BY <1>6, <1>8, <2>1
<1> HIDE DEF c, domains
<1>11. ASSUME NEW k \in 1 .. n
       PROVE  c[1 .. k] = Take(ops, c[1 .. k - 1], k)
  <2>1. Max(1 .. k) = k /\ (1 .. k) \ {k} = 1 .. k - 1
    BY LargestOfPrefix
  <2>2. 1 .. k \in SUBSET (1 .. n) /\ 1 .. k # {}
    <3>1. k \in 1 .. k /\ \A j \in 1 .. k : j \in 1 .. n
      OBVIOUS
    <3> QED
      BY <3>1
  <2>3. c = body(c)
    BY <1>6, <1>8
  <2> QED
    BY <2>1, <2>2, <2>3
<1> HIDE DEF body
<1>12. \A k \in 0 .. n : c[1 .. k] \in Seq(1 .. n)
  <2> DEFINE G == {k \in 0 .. n : c[1 .. k] \in Seq(1 .. n)}
  <2>1. 0 \in G
    BY <1>1, <1>10
  <2>2. ASSUME NEW k \in 1 .. n, k - 1 \in G
        PROVE  k \in G
    <3>1. c[1 .. k - 1] \in Seq(1 .. n)
      BY <2>2
    <3>2. c[1 .. k] \in Seq(1 .. n)
      BY <1>11, <3>1, TakeType
    <3> QED
      BY <3>2
  <2>3. \A k \in G : c[1 .. k] \in Seq(1 .. n)
    OBVIOUS
  <2> HIDE DEF G
  <2> QED
    BY <2>1, <2>2, <2>3, CountingUp
<1>13. turn \in [0 .. n -> Seq(1 .. n)]
  BY <1>12
<1>14. QueueTurns(turn, ops, n)
  <2>1. turn[0] = Free(ops)
    BY <1>10
  <2>2. ASSUME NEW k \in 1 .. n
        PROVE  turn[k] = Take(ops, turn[k - 1], k)
    BY <1>11
  <2> QED
    BY <2>1, <2>2 DEF QueueTurns
<1>15. turn[n] = c[1 .. n]
  OBVIOUS
<1> QED
  BY <1>9, <1>13, <1>14, <1>15

Occurs(o, ops) == \E i \in DOMAIN ops : ops[i] = o

\* What each operation waits for.
WaitSets(ops, n) == [j \in 1 .. n |-> Waits(ops, j)]

LEMMA AllQueued ==
  ASSUME NEW T, NEW ops \in Seq(T), NEW n \in Nat, Len(ops) = n,
         NEW turn \in [0 .. n -> Seq(1 .. n)], QueueTurns(turn, ops, n)
  PROVE  \A k \in 0 .. n : Queued(turn[k], WaitSets(ops, n), n, k)
<1>1. DOMAIN ops = 1 .. n
  OBVIOUS
<1>2. PICK w \in [1 .. n -> SUBSET (1 .. n)] : w = WaitSets(ops, n)
  BY <1>1 DEF WaitSets, Waits
<1>3. \A j \in 1 .. n : w[j] = Waits(ops, j)
  BY <1>2 DEF WaitSets
<1> DEFINE G == {k \in 0 .. n : Queued(turn[k], w, n, k)}
<1>4. 0 \in G
  <2>1. PICK F \in SUBSET (1 .. n) : F = {j \in DOMAIN ops : Waits(ops, j) = {}}
    BY <1>1
  <2>2. PICK s : s = Ascending(F)
    OBVIOUS
  <2>3. s \in Seq(F) /\ IsAscending(s, F)
    BY <2>2, AscendingFacts
  <2>4. turn[0] = s
    BY <2>1, <2>2 DEF QueueTurns, Free
  <2>5. \A a \in 1 .. Len(s) : s[a] \in F
    BY <2>3
  <2>6. \A j \in 1 .. n : j \in F <=> w[j] = {}
    BY <1>1, <1>3, <2>1
  <2>7. ASSUME NEW a \in 1 .. Len(s), NEW b \in 1 .. Len(s), s[a] = s[b]
        PROVE  a = b
    <3>1. \A x \in F : x \in Nat
      OBVIOUS
    <3>2. s[a] \in Nat /\ s[b] \in Nat
      BY <2>5, <3>1
    <3>3. (a < b => s[a] < s[b]) /\ (b < a => s[b] < s[a])
      BY <2>3 DEF IsAscending
    <3>4. ~(a < b) /\ ~(b < a)
      BY <2>7, <3>2, <3>3
    <3> QED
      BY <3>4
  <2>8. \A a \in 1 .. Len(s) : w[s[a]] = {}
    BY <2>5, <2>6
  <2>9. ASSUME NEW j \in 1 .. n, \A x \in w[j] : \E b \in 1 .. Len(s) : b <= 0 /\ s[b] = x
        PROVE  \E a \in 1 .. Len(s) : s[a] = j
    <3>1. w[j] = {}
      BY <2>9
    <3>2. j \in F
      BY <2>6, <3>1
    <3> QED
      BY <2>3, <3>2 DEF IsAscending
  <2>10. Queued(s, w, n, 0)
    BY <2>7, <2>8, <2>9 DEF Queued
  <2> QED
    BY <2>4, <2>10
<1>5. ASSUME NEW k \in 1 .. n, k - 1 \in G
      PROVE  k \in G
  <2>1. PICK q \in Seq(1 .. n) : q = turn[k - 1]
    OBVIOUS
  <2>2. Queued(q, w, n, k - 1) /\ turn[k] = Take(ops, q, k)
    BY <1>5, <2>1 DEF QueueTurns
  <2>3. CASE k > Len(q)
    <3>1. turn[k] = q
      BY <2>2, <2>3 DEF Take
    <3>2. Queued(q, w, n, k)
      BY <2>2, <2>3, QueuedRest
    <3> QED
      BY <3>1, <3>2
  <2>4. CASE ~(k > Len(q))
    <3>0. k <= Len(q)
      BY <2>4
    <3>1. PICK F : F = Freed(ops, q, k)
      OBVIOUS
    <3>2. PICK r : r = Range(SubSeq(q, 1, k))
      OBVIOUS
    <3>12. \A x : x \in r <=> \E b \in 1 .. k : q[b] = x
      <4>1. \A b \in 1 .. k : q[b] \in 1 .. n
        BY <3>0
      <4>2. /\ SubSeq(q, 1, k) \in Seq(1 .. n) /\ Len(SubSeq(q, 1, k)) = k
            /\ \A j \in 1 .. k : SubSeq(q, 1, k)[j] = q[j]
        BY <4>1, SubSeqProperties
      <4>3. DOMAIN SubSeq(q, 1, k) = 1 .. k
        BY <4>2
      <4> QED
        BY <3>2, <4>2, <4>3 DEF Range
    <3>13. F = {j \in 1 .. n : q[k] \in Waits(ops, j) /\ Waits(ops, j) \subseteq r}
      BY <1>1, <3>1, <3>2 DEF Freed
    <3>14. ASSUME NEW j \in 1 .. n
          PROVE  Waits(ops, j) \subseteq r <=> \A x \in w[j] : \E b \in 1 .. k : q[b] = x
      <4>1. w[j] = Waits(ops, j)
        BY <1>3
      <4> QED
        BY <3>12, <4>1
    <3>15. \A j \in 1 .. n : j \in F <=> /\ q[k] \in w[j]
                                       /\ \A x \in w[j] : \E b \in 1 .. k : q[b] = x
      BY <1>3, <3>13, <3>14
    <3>3. F = {j \in 1 .. n : q[k] \in w[j] /\ \A x \in w[j] : \E b \in 1 .. k : q[b] = x}
      BY <3>13, <3>15
    <3>4. F \in SUBSET (1 .. n)
      BY <3>13
    <3>5. PICK s : s = Ascending(F)
      OBVIOUS
    <3>6. s \in Seq(F) /\ IsAscending(s, F)
      BY <3>4, <3>5, AscendingFacts
    <3>7. Queued(q \o s, w, n, k)
      BY <2>2, <3>0, <3>3, <3>6, QueuedTurn
    <3>8. turn[k] = q \o s
      BY <2>2, <2>4, <3>1, <3>5 DEF Take
    <3>9. Queued(turn[k], w, n, k)
      BY <3>7, <3>8, Zenon
    <3> QED
      BY <3>9
  <2> QED
    BY <2>3, <2>4
<1>6. \A k \in G : Queued(turn[k], w, n, k)
  OBVIOUS
<1> HIDE DEF G
<1> QED
  BY <1>2, <1>4, <1>5, <1>6, CountingUp

\* A way through all operations.  The first m of them come after what they
\* wait for, and whatever waits for nothing else is one of them.
Ordered(order, w, n, m) ==
  /\ \A a, b \in 1 .. n : order[a] = order[b] => a = b
  /\ \A j \in 1 .. n : \E a \in 1 .. n : order[a] = j
  /\ \A a \in 1 .. m : \A x \in w[order[a]] : \E b \in 1 .. a - 1 : order[b] = x
  /\ \A j \in 1 .. n :
       (\A x \in w[j] : \E b \in 1 .. m : order[b] = x) => \E a \in 1 .. m : order[a] = j

LEMMA SameNumber ==
  ASSUME NEW n \in Nat, NEW k \in Nat, NEW z \in Bijection(1 .. k, 1 .. n)
  PROVE  k = n
<1>1. ExistsBijection(1 .. k, 1 .. n)
  BY DEF ExistsBijection
<1>2. /\ IsFiniteSet(1 .. k)
      /\ Cardinality(1 .. k) = IF 1 > k THEN 0 ELSE k - 1 + 1
  <2>1. 1 \in Int /\ k \in Int
    OBVIOUS
  <2> QED
    BY <2>1, FS_Interval
<1>3. Cardinality(1 .. n) = IF 1 > n THEN 0 ELSE n - 1 + 1
  <2>1. 1 \in Int /\ n \in Int
    OBVIOUS
  <2> QED
    BY <2>1, FS_Interval
<1>4. Cardinality(1 .. n) = Cardinality(1 .. k)
  BY <1>1, <1>2, FS_Bijection
<1>5. (IF 1 > n THEN 0 ELSE n - 1 + 1) = n /\ (IF 1 > k THEN 0 ELSE k - 1 + 1) = k
  OBVIOUS
<1> QED
  BY <1>2, <1>3, <1>4, <1>5

\* z is q, of length u, and the rest of 1 .. n in rising order, s, behind it.
Completes(z, q, s, w, n, u, v) ==
  /\ \A a, b \in 1 .. u : q[a] = q[b] => a = b
  /\ \A a \in 1 .. u : \A x \in w[q[a]] : \E b \in 1 .. a - 1 : q[b] = x
  /\ \A j \in 1 .. n : (\A x \in w[j] : \E b \in 1 .. u : q[b] = x)
                         => \E a \in 1 .. u : q[a] = j
  /\ \A a \in 1 .. v, b \in 1 .. u : s[a] # q[b]
  /\ \A j \in 1 .. n : (\E a \in 1 .. u : q[a] = j) \/ \E a \in 1 .. v : s[a] = j
  /\ \A a, b \in 1 .. v : a < b => s[a] < s[b]
  /\ \A a \in 1 .. u : z[a] = q[a]
  /\ \A a \in u + 1 .. u + v : a - u \in 1 .. v /\ z[a] = s[a - u]

LEMMA QueueThenRest ==
  ASSUME NEW n \in Nat, NEW w \in [1 .. n -> SUBSET (1 .. n)], NEW u \in Nat, NEW v \in Nat,
         NEW q \in [1 .. u -> 1 .. n], NEW s \in [1 .. v -> 1 .. n],
         NEW z \in [1 .. u + v -> 1 .. n], Completes(z, q, s, w, n, u, v)
  PROVE  u + v = n /\ u \in 0 .. n /\ Ordered(z, w, n, u)
<1>0. /\ \A a, b \in 1 .. u : q[a] = q[b] => a = b
      /\ \A a \in 1 .. u : \A x \in w[q[a]] : \E b \in 1 .. a - 1 : q[b] = x
      /\ \A j \in 1 .. n : (\A x \in w[j] : \E b \in 1 .. u : q[b] = x)
                             => \E a \in 1 .. u : q[a] = j
      /\ \A a \in 1 .. v, b \in 1 .. u : s[a] # q[b]
      /\ \A j \in 1 .. n : (\E a \in 1 .. u : q[a] = j) \/ \E a \in 1 .. v : s[a] = j
      /\ \A a, b \in 1 .. v : a < b => s[a] < s[b]
      /\ \A a \in 1 .. u : z[a] = q[a]
      /\ \A a \in u + 1 .. u + v : a - u \in 1 .. v /\ z[a] = s[a - u]
  BY DEF Completes
<1> DEFINE k == u + v
<1>7. k \in Nat
  OBVIOUS
<1>1. \A a \in 1 .. u : a \in 1 .. k
  OBVIOUS
<1>2. \A a, b \in 1 .. v : s[a] = s[b] => a = b
  <2>1. ASSUME NEW a \in 1 .. v, NEW b \in 1 .. v, s[a] = s[b]
        PROVE  a = b
    <3>1. s[a] \in Nat
      OBVIOUS
    <3>2. ~(a < b) /\ ~(b < a)
      BY <1>0, <2>1, <3>1
    <3> QED
      BY <3>2
  <2> QED
    BY <2>1
<1>3. \A a \in 1 .. u, b \in u + 1 .. k : z[a] # z[b]
  BY <1>0
<1>4. \A a \in 1 .. k : a \in 1 .. u \/ a \in u + 1 .. k
  OBVIOUS
<1>5. ASSUME NEW a \in 1 .. k, NEW b \in 1 .. k, z[a] = z[b]
      PROVE  a = b
  <2>1. CASE a \in 1 .. u /\ b \in 1 .. u
    BY <1>0, <1>5, <2>1
  <2>2. CASE a \in u + 1 .. k /\ b \in u + 1 .. k
    <3>1. a - u = b - u
      BY <1>0, <1>2, <1>5, <2>2
    <3> QED
      BY <3>1
  <2>3. ~(a \in 1 .. u /\ b \in u + 1 .. k) /\ ~(b \in 1 .. u /\ a \in u + 1 .. k)
    BY <1>3, <1>5
  <2> QED
    BY <1>4, <2>1, <2>2, <2>3
<1>6. ASSUME NEW j \in 1 .. n
      PROVE  \E a \in 1 .. k : z[a] = j
  <2>1. ASSUME NEW a \in 1 .. v, s[a] = j
        PROVE  \E c \in 1 .. k : z[c] = j
    <3>1. PICK c \in u + 1 .. k : c = u + a
      OBVIOUS
    <3>2. c - u = a /\ c \in 1 .. k
      BY <3>1
    <3>3. z[c] = j
      BY <1>0, <2>1, <3>2
    <3> QED
      BY <3>2, <3>3
  <2>2. ASSUME NEW a \in 1 .. u, q[a] = j
        PROVE  \E c \in 1 .. k : z[c] = j
    BY <1>0, <1>1, <2>2
  <2> QED
    BY <1>0, <2>1, <2>2
<1>8. k = n
  <2>1. z \in Bijection(1 .. k, 1 .. n)
    BY <1>5, <1>6 DEF Bijection, Injection, IsInjective, Surjection
  <2> HIDE DEF k
  <2> QED
    BY <1>7, <2>1, SameNumber
<1>9. u \in 0 .. n
  BY <1>8
<1>10. ASSUME NEW a \in 1 .. u, NEW x \in w[z[a]]
       PROVE  \E b \in 1 .. a - 1 : z[b] = x
  <2>1. z[a] = q[a]
    BY <1>0
  <2>2. PICK b \in 1 .. a - 1 : q[b] = x
    BY <1>0, <1>10, <2>1
  <2>3. b \in 1 .. u
    BY <2>2
  <2> QED
    BY <1>0, <2>2, <2>3
<1>11. ASSUME NEW j \in 1 .. n, \A x \in w[j] : \E b \in 1 .. u : z[b] = x
       PROVE  \E a \in 1 .. u : z[a] = j
  <2>1. \A x \in w[j] : \E b \in 1 .. u : q[b] = x
    BY <1>0, <1>11
  <2>2. \E a \in 1 .. u : q[a] = j
    BY <1>0, <2>1
  <2> QED
    BY <1>0, <2>2
<1>12. \A a, b \in 1 .. n : z[a] = z[b] => a = b
  BY <1>5, <1>8
<1>13. \A j \in 1 .. n : \E a \in 1 .. n : z[a] = j
  BY <1>6, <1>8
<1>14. Ordered(z, w, n, u)
  BY <1>10, <1>11, <1>12, <1>13 DEF Ordered
<1> QED
  BY <1>8, <1>9, <1>14

SortsBy(ops, order, n, m) ==
  /\ Ordered(order, WaitSets(ops, n), n, m)
  /\ TopologicalSort(ops) = [k \in 1 .. n |-> ops[order[k]]]

LEMMA SortedOrder ==
  ASSUME NEW T, NEW ops \in Seq(T), NEW n \in Nat, Len(ops) = n
  PROVE  \E order \in [1 .. n -> 1 .. n], m \in 0 .. n : SortsBy(ops, order, n, m)
<1>1. DOMAIN ops = 1 .. n
  OBVIOUS
<1>2. PICK w \in [1 .. n -> SUBSET (1 .. n)] : w = WaitSets(ops, n)
  BY <1>1 DEF WaitSets, Waits
<1>3. PICK turn \in [0 .. n -> Seq(1 .. n)] :
        QueueTurns(turn, ops, n) /\ TopologicalSort(ops) = WithRest(turn[n], ops)
  BY SortTurns
<1>4. n \in 0 .. n
  OBVIOUS
<1>5. Queued(turn[n], w, n, n)
  BY <1>2, <1>3, <1>4, AllQueued
<1>6. PICK q \in Seq(1 .. n) : q = turn[n]
  BY <1>4
<1>7. PICK R \in SUBSET (1 .. n) : R = (1 .. n) \ Range(q)
  OBVIOUS
<1>8. PICK s : s = Ascending(R)
  OBVIOUS
<1>9. s \in Seq(R) /\ IsAscending(s, R)
  BY <1>8, AscendingFacts
<1>10. s \in Seq(1 .. n)
  BY <1>9, SeqMonotonic
<1>11. PICK u \in Nat : u = Len(q)
  OBVIOUS
<1>12. PICK v \in Nat : v = Len(s)
  BY <1>10
<1>13. PICK z : z = q \o s
  OBVIOUS
<1>15. /\ z \in Seq(1 .. n) /\ Len(z) = u + v /\ \A a \in 1 .. u : z[a] = q[a]
       /\ \A a \in u + 1 .. u + v : a - u \in 1 .. v /\ z[a] = s[a - u]
  <2>1. /\ z \in Seq(1 .. n) /\ Len(z) = u + v
        /\ \A a \in 1 .. u + v : z[a] = IF a <= u THEN q[a] ELSE s[a - u]
    BY <1>10, <1>11, <1>12, <1>13, ConcatProperties
  <2>2. \A a \in 1 .. u : a \in 1 .. u + v /\ a <= u
    OBVIOUS
  <2>3. \A a \in u + 1 .. u + v : a \in 1 .. u + v /\ ~(a <= u) /\ a - u \in 1 .. v
    OBVIOUS
  <2> QED
    BY <2>1, <2>2, <2>3
<1>16. q \in [1 .. u -> 1 .. n] /\ DOMAIN q = 1 .. u
  BY <1>11
<1>17. s \in [1 .. v -> 1 .. n] /\ z \in [1 .. u + v -> 1 .. n]
  <2>1. s \in [1 .. v -> 1 .. n]
    BY <1>10, <1>12
  <2>2. z \in [1 .. u + v -> 1 .. n]
    BY <1>15
  <2> QED
    BY <2>1, <2>2
<1>18. \A a \in 1 .. v : s[a] \in R
  BY <1>9, <1>12
<1>19. \A j \in 1 .. n : j \in R <=> \A a \in 1 .. u : q[a] # j
  BY <1>7, <1>16 DEF Range
<1>20. /\ \A j \in R : \E a \in 1 .. v : s[a] = j
       /\ \A a, b \in 1 .. v : a < b => s[a] < s[b]
  BY <1>9, <1>12 DEF IsAscending
<1>21. /\ \A a, b \in 1 .. u : q[a] = q[b] => a = b
       /\ \A a \in 1 .. u : \A x \in w[q[a]] : \E b \in 1 .. a - 1 : q[b] = x
       /\ \A j \in 1 .. n : (\A x \in w[j] : \E b \in 1 .. u : b <= n /\ q[b] = x)
                               => \E a \in 1 .. u : q[a] = j
  <2>1. Queued(q, w, n, n)
    BY <1>5, <1>6
  <2> QED
    BY <1>11, <2>1 DEF Queued
<1>22. \A a \in 1 .. u : a <= n
  <2>1. IsFiniteSet(1 .. n) /\ Cardinality(1 .. n) = IF 1 > n THEN 0 ELSE n - 1 + 1
    <3>1. 1 \in Int /\ n \in Int
      OBVIOUS
    <3> QED
      BY <3>1, FS_Interval
  <2>2. Cardinality(1 .. u) = IF 1 > u THEN 0 ELSE u - 1 + 1
    <3>1. 1 \in Int /\ u \in Int
      OBVIOUS
    <3> QED
      BY <3>1, FS_Interval
  <2>3. q \in Injection(1 .. u, 1 .. n)
    BY <1>16, <1>21 DEF Injection, IsInjective
  <2>4. Cardinality(1 .. u) <= Cardinality(1 .. n)
    BY <2>1, <2>3, FS_Injection
  <2> QED
    BY <2>1, <2>2, <2>4
<1>23. \A j \in 1 .. n : (\A x \in w[j] : \E b \in 1 .. u : q[b] = x)
                            => \E a \in 1 .. u : q[a] = j
  BY <1>21, <1>22
<1>24. Completes(z, q, s, w, n, u, v)
  <2>1. \A a \in 1 .. v, b \in 1 .. u : s[a] # q[b]
    BY <1>16, <1>18, <1>19
  <2>2. \A j \in 1 .. n : (\E a \in 1 .. u : q[a] = j) \/ \E a \in 1 .. v : s[a] = j
    BY <1>19, <1>20
  <2> QED
    BY <1>15, <1>20, <1>21, <1>23, <2>1, <2>2 DEF Completes
<1>26. u + v = n /\ u \in 0 .. n /\ Ordered(z, w, n, u)
  BY <1>16, <1>17, <1>24, QueueThenRest
<1>25. TopologicalSort(ops) = [i \in 1 .. n |-> ops[z[i]]]
  BY <1>1, <1>3, <1>6, <1>7, <1>8, <1>13 DEF WithRest
<1> QED
  BY <1>2, <1>17, <1>25, <1>26 DEF SortsBy

-----------------------------------------------------------------------------
(* Directories                                                             *)

\* No path is a file on one drive and a directory on another.
FilesAreNoDirs == Paths \cap Dirs = {}

\* What the order of a plan depends on: MKDIRs are about directories, all
\* else is about files.
Targets(o) ==
  /\ o.path \in Seq(Nat)
  /\ o.type = "MKDIR" => o.path \in Dirs
  /\ o.type # "MKDIR" => o.path \in Paths
  /\ o.type = "RENAME" => o.newPath \in Paths

AreTargets(T) == \A o \in T : Targets(o)

ParentsFirst(ops) ==
  \A i, j \in DOMAIN ops :
    /\ ops[i].type = "MKDIR" /\ ops[i].target = ops[j].target
    /\ Below(ops[j].path, ops[i].path)
    => i < j

LEMMA BelowIsLonger ==
  ASSUME NEW p \in Seq(Nat), NEW q \in Seq(Nat), Below(p, q)
  PROVE  Len(q) < Len(p) /\ p # q
<1>1. Len(q) < Len(p)
  BY StrictPrefix DEF Below
<1>2. Len(q) \in Nat
  OBVIOUS
<1> QED
  BY <1>1, <1>2

\* A MKDIR waits for MKDIRs of shorter paths only.
LEMMA DirsWaitForDirs ==
  ASSUME NEW a, NEW b, Targets(a), Targets(b), FilesAreNoDirs,
         b.type = "MKDIR", Precedes(a, b)
  PROVE  a.type = "MKDIR" /\ Len(a.path) < Len(b.path)
<1>1. b.path \in Dirs /\ b.path \notin Paths
  BY DEF Targets, FilesAreNoDirs
<1>2. ~(a.type = "RENAME" /\ b.path = a.newPath)
  BY <1>1 DEF Targets
<1>3. a.type = "MKDIR" /\ Below(b.path, a.path)
  BY <1>2 DEF Precedes
<1>4. a.path \in Seq(Nat) /\ b.path \in Seq(Nat)
  BY DEF Targets
<1> QED
  BY <1>3, <1>4, BelowIsLonger

DirsFirst(ops, order, n, m) ==
  \A j \in 1 .. n : ops[j].type = "MKDIR" => \E a \in 1 .. m : order[a] = j

LEMMA DirsAreQueued ==
  ASSUME NEW T, AreTargets(T), FilesAreNoDirs,
         NEW ops \in Seq(T), NEW n \in Nat, Len(ops) = n,
         NEW m \in 0 .. n, NEW order \in [1 .. n -> 1 .. n], SortsBy(ops, order, n, m)
  PROVE  DirsFirst(ops, order, n, m)
<1> DEFINE Left == {i \in 1 .. n : ops[i].type = "MKDIR" /\ \A a \in 1 .. m : order[a] # i}
           Lengths == {Len(ops[i].path) : i \in Left}
<1>0. \A i \in 1 .. n : Targets(ops[i]) /\ ops[i].path \in Seq(Nat) /\ Len(ops[i].path) \in Nat
  BY DEF AreTargets, Targets
<1> SUFFICES ASSUME Left # {}
             PROVE  FALSE
  BY DEF DirsFirst
<1>1. Lengths \subseteq Nat /\ Lengths # {}
  <2>1. \A l \in Lengths : l \in Nat
    BY <1>0
  <2>2. PICK i : i \in Left
    OBVIOUS
  <2>3. Len(ops[i].path) \in Lengths
    BY <2>2
  <2> QED
    BY <2>1, <2>3
<1>2. PICK k \in Nat : k \in Lengths /\ \A l \in Lengths : k <= l
  <2> HIDE DEF Lengths
  <2> QED
    BY <1>1, LeastNumber
<1>3. PICK i \in Left : Len(ops[i].path) = k
  BY <1>2
<1>8. i \in 1 .. n /\ ops[i].type = "MKDIR" /\ \A a \in 1 .. m : order[a] # i
  OBVIOUS
<1>9. ASSUME NEW x \in 1 .. n, ops[x].type = "MKDIR", Len(ops[x].path) < k
      PROVE  \E b \in 1 .. m : order[b] = x
  <2>1. PICK l \in Nat : l = Len(ops[x].path)
    BY <1>0
  <2>2. x \in Left => k <= l
    BY <1>2, <2>1
  <2>3. ~(k <= l)
    BY <1>9, <2>1
  <2> QED
    BY <1>9, <2>2, <2>3
<1> HIDE DEF Left, Lengths
<1>4. DOMAIN ops = 1 .. n
  OBVIOUS
<1>5. PICK w : w = WaitSets(ops, n)
  OBVIOUS
<1>6. ASSUME NEW x \in w[i]
      PROVE  \E b \in 1 .. m : order[b] = x
  <2>1. x \in 1 .. n /\ Precedes(ops[x], ops[i])
    BY <1>4, <1>5, <1>6, <1>8 DEF WaitSets, Waits
  <2>2. Targets(ops[x]) /\ Targets(ops[i]) /\ ops[i].type = "MKDIR"
    BY <1>0, <1>8, <2>1
  <2>3. ops[x].type = "MKDIR" /\ Len(ops[x].path) < Len(ops[i].path)
    BY <2>1, <2>2, DirsWaitForDirs
  <2> QED
    BY <1>3, <1>9, <2>1, <2>3
<1>7. \E a \in 1 .. m : order[a] = i
  BY <1>5, <1>6, <1>8 DEF Ordered, SortsBy
<1> QED
  BY <1>7, <1>8

LEMMA SortPutsParentsFirst ==
  ASSUME NEW T, AreTargets(T), FilesAreNoDirs, NEW ops \in Seq(T)
  PROVE  TopologicalSort(ops) \in Seq(T) /\ ParentsFirst(TopologicalSort(ops))
<1>1. PICK n \in Nat : Len(ops) = n
  OBVIOUS
<1>2. PICK order \in [1 .. n -> 1 .. n], m \in 0 .. n : SortsBy(ops, order, n, m)
  BY <1>1, SortedOrder, Zenon
<1>10. DirsFirst(ops, order, n, m)
  BY <1>1, <1>2, DirsAreQueued
<1>3. PICK s : s = [k \in 1 .. n |-> ops[order[k]]]
  OBVIOUS
<1>4. s \in Seq(T) /\ DOMAIN s = 1 .. n
  <2>1. \A k \in 1 .. n : ops[order[k]] \in T
    BY <1>1
  <2>2. s \in [1 .. n -> T]
    BY <1>3, <2>1
  <2> QED
    BY <2>2
<1>5. PICK w : w = WaitSets(ops, n)
  OBVIOUS
<1>6. \A a, b \in 1 .. n : order[a] = order[b] => a = b
  BY <1>2 DEF Ordered, SortsBy
<1>7. \A a \in 1 .. m : \A x \in w[order[a]] : \E b \in 1 .. a - 1 : order[b] = x
  BY <1>2, <1>5 DEF Ordered, SortsBy
<1>8. ASSUME NEW i \in 1 .. n, NEW j \in 1 .. n,
             s[i].type = "MKDIR", s[i].target = s[j].target, Below(s[j].path, s[i].path)
      PROVE  i < j
  <2>1. PICK x \in 1 .. n : x = order[i]
    OBVIOUS
  <2>2. PICK y \in 1 .. n : y = order[j]
    OBVIOUS
  <2>3. s[i] = ops[x] /\ s[j] = ops[y]
    BY <1>3, <2>1, <2>2
  <2>4. x # y
    <3>1. s[i].path \in Seq(Nat) /\ s[j].path \in Seq(Nat)
      BY <1>4 DEF AreTargets, Targets
    <3>2. s[j].path # s[i].path
      BY <1>8, <3>1, BelowIsLonger
    <3> QED
      BY <2>3, <3>2
  <2>5. x \in w[y]
    <3>1. Precedes(ops[x], ops[y])
      BY <1>8, <2>3 DEF Precedes
    <3>2. DOMAIN ops = 1 .. n
      BY <1>1
    <3> QED
      BY <1>5, <2>4, <3>1, <3>2 DEF WaitSets, Waits
  <2>6. i \in 1 .. m
    <3>1. ops[x].type = "MKDIR"
      BY <1>8, <2>3
    <3>2. PICK a \in 1 .. m : order[a] = x
      BY <1>10, <3>1 DEF DirsFirst
    <3>3. a \in 1 .. n /\ a = i
      BY <1>6, <2>1, <3>2
    <3> QED
      BY <3>3
  <2>7. CASE j \in 1 .. m
    <3>1. PICK b \in 1 .. j - 1 : order[b] = x
      BY <1>7, <2>2, <2>5, <2>7
    <3>2. b \in 1 .. n /\ b = i
      BY <1>6, <2>1, <3>1
    <3> QED
      BY <3>2
  <2>8. CASE j \notin 1 .. m
    BY <2>6, <2>8
  <2> QED
    BY <2>7, <2>8
<1>9. ParentsFirst(s)
  BY <1>4, <1>8 DEF ParentsFirst
<1> QED
  BY <1>2, <1>3, <1>4, <1>9 DEF SortsBy

LEMMA SortKeepsAll ==
  ASSUME NEW T, NEW ops \in Seq(T), NEW k \in DOMAIN ops
  PROVE  Occurs(ops[k], TopologicalSort(ops))
<1>1. PICK n \in Nat : Len(ops) = n
  OBVIOUS
<1>2. PICK order \in [1 .. n -> 1 .. n], m \in 0 .. n : SortsBy(ops, order, n, m)
  BY <1>1, SortedOrder, Zenon
<1>3. PICK s : s = [a \in 1 .. n |-> ops[order[a]]]
  OBVIOUS
<1>4. k \in 1 .. n
  BY <1>1
<1>5. PICK a \in 1 .. n : order[a] = k
  BY <1>2, <1>4 DEF SortsBy, Ordered
<1>6. DOMAIN s = 1 .. n /\ s[a] = ops[k]
  BY <1>3, <1>5
<1>7. TopologicalSort(ops) = s
  BY <1>2, <1>3 DEF SortsBy
<1> QED
  BY <1>6, <1>7 DEF Occurs

\* No path of a drive is worked on twice.
OnceEach(ops) ==
  \A i, j \in DOMAIN ops : ops[i].target = ops[j].target /\ ops[i].path = ops[j].path => i = j

LEMMA CoalesceFacts ==
  ASSUME NEW T, NEW ops \in Seq(T)
  PROVE  /\ Coalesce(ops) \in Seq(T) /\ OnceEach(Coalesce(ops))
         /\ ParentsFirst(ops) => ParentsFirst(Coalesce(ops))
         /\ \A k \in DOMAIN ops : \E i \in DOMAIN Coalesce(ops) :
              Coalesce(ops)[i].target = ops[k].target /\ Coalesce(ops)[i].path = ops[k].path
<1>1. PICK n \in Nat : n = Len(ops) /\ DOMAIN ops = 1 .. n
  OBVIOUS
<1>2. PICK R \in SUBSET (1 .. n) :
        R = {k \in DOMAIN ops : ~ \E j \in k + 1 .. Len(ops) :
               ops[j].target = ops[k].target /\ ops[j].path = ops[k].path}
  BY <1>1
<1>3. PICK kept : kept = Ascending(R)
  OBVIOUS
<1>4. kept \in Seq(R) /\ IsAscending(kept, R)
  BY <1>3, AscendingFacts
<1>5. PICK v \in Nat : v = Len(kept) /\ DOMAIN kept = 1 .. v
  BY <1>4
<1>6. \A i \in 1 .. v : kept[i] \in 1 .. n
  <2>1. \A i \in 1 .. v : kept[i] \in R
    BY <1>4, <1>5
  <2> QED
    BY <2>1
<1>7. PICK s : s = [i \in 1 .. v |-> ops[kept[i]]]
  OBVIOUS
<1>8. s \in Seq(T) /\ DOMAIN s = 1 .. v
  BY <1>1, <1>6, <1>7
<1>9. \A i, j \in 1 .. v : i < j => kept[i] < kept[j]
  BY <1>4, <1>5 DEF IsAscending
<1>10. ASSUME ParentsFirst(ops), NEW i \in 1 .. v, NEW j \in 1 .. v,
              s[i].type = "MKDIR", s[i].target = s[j].target, Below(s[j].path, s[i].path)
       PROVE  i < j
  <2>1. s[i] = ops[kept[i]] /\ s[j] = ops[kept[j]]
    BY <1>7
  <2>2. kept[i] < kept[j]
    BY <1>1, <1>6, <1>10, <2>1 DEF ParentsFirst
  <2>3. kept[i] \in Nat /\ kept[j] \in Nat
    BY <1>6
  <2>4. ~(i = j) /\ ~(j < i)
    BY <1>9, <2>2, <2>3
  <2> QED
    BY <2>4
<1>11. ParentsFirst(ops) => ParentsFirst(s)
  BY <1>8, <1>10 DEF ParentsFirst
<1>13. ASSUME NEW i \in 1 .. v, NEW j \in 1 .. v, i < j,
              s[i].target = s[j].target, s[i].path = s[j].path
       PROVE  FALSE
  <2>1. s[i] = ops[kept[i]] /\ s[j] = ops[kept[j]]
    BY <1>7
  <2>2. PICK a \in 1 .. n : a = kept[i] /\ a \in R
    BY <1>4, <1>5, <1>6
  <2>3. PICK b \in 1 .. n : b = kept[j]
    BY <1>6
  <2>4. a < b
    BY <1>9, <1>13, <2>2, <2>3
  <2>5. b \in a + 1 .. Len(ops)
    BY <1>1, <2>4
  <2>6. ops[b].target = ops[a].target /\ ops[b].path = ops[a].path
    BY <1>13, <2>1, <2>2, <2>3
  <2> QED
    BY <1>2, <2>2, <2>5, <2>6
<1>14. OnceEach(s)
  <2>1. \A i, j \in 1 .. v : i < j \/ j < i \/ i = j
    OBVIOUS
  <2> QED
    BY <1>8, <1>13, <2>1 DEF OnceEach
<1>12. Coalesce(ops) = s
  BY <1>2, <1>3, <1>5, <1>7 DEF Coalesce
\* The last operation on a path of a drive is kept.
<1>15. ASSUME NEW k \in 1 .. n
       PROVE  \E i \in 1 .. v : s[i].target = ops[k].target /\ s[i].path = ops[k].path
  <2>1. PICK L \in SUBSET (1 .. n) : L = {j \in 1 .. n : ops[j].target = ops[k].target /\ ops[j].path = ops[k].path}
    OBVIOUS
  <2>2. L # {}
    BY <2>1
  <2>3. PICK l \in L : \A j \in L : l >= j
    BY <2>2, LargestExists
  <2>4. l \in 1 .. n
    OBVIOUS
  <2>5. l \in R
    <3>1. ASSUME NEW j \in l + 1 .. Len(ops), ops[j].target = ops[l].target, ops[j].path = ops[l].path
          PROVE  FALSE
      <4>1. j \in 1 .. n /\ ~(l >= j)
        BY <1>1, <2>4
      <4>2. j \in L
        BY <2>1, <3>1, <4>1
      <4> QED
        BY <2>3, <4>1, <4>2
    <3> QED
      BY <1>1, <1>2, <2>4, <3>1
  <2>6. PICK i \in 1 .. v : kept[i] = l
    BY <1>4, <1>5, <2>5 DEF IsAscending
  <2> QED
    BY <1>7, <2>1, <2>3, <2>6
<1> QED
  BY <1>1, <1>8, <1>11, <1>12, <1>14, <1>15

-----------------------------------------------------------------------------
(* emit_mkdirs                                                             *)

\* The operations on files and directories, whatever their sources and vectors.
FileOps(S, V) ==
  [type : {"COPY", "REPLACE", "REMOVE", "RENAME"}, source : S, target : Drives,
   path : Paths, newPath : Paths, vv : V]
DirOps(S, V) ==
  [type : {"MKDIR"}, source : S, target : Drives, path : Dirs, newPath : Dirs, vv : V]

LEMMA AncestorsAreDirs ==
  ASSUME NEW p \in Paths
  PROVE  AncestorDirs(p) \in Seq(Dirs) /\ Parents(p) \subseteq Dirs
<1>1. p \in Seq(Nat) \ {<<>>}
  BY PathsAreNames
<1>2. PICK n \in Nat : n = Len(p) - 1
  BY <1>1
<1>3. PICK s : s = AncestorDirs(p)
  OBVIOUS
<1>4. DOMAIN s = 1 .. n /\ s = [i \in 1 .. n |-> s[i]]
  BY <1>2, <1>3 DEF AncestorDirs
<1>5. Range(s) = Parents(p)
  BY <1>3 DEF Parents
<1>6. \A i \in 1 .. n : s[i] \in Parents(p)
  BY <1>4, <1>5 DEF Range
<1>7. Parents(p) \subseteq Dirs
  BY DEF Dirs
<1>8. s \in [1 .. n -> Dirs]
  BY <1>4, <1>6, <1>7
<1> QED
  BY <1>3, <1>7, <1>8

LEMMA DirsAreNames ==
  ASSUME NEW dir \in Dirs
  PROVE  dir \in Seq(Nat)
<1>1. PICK p \in Paths : dir \in Range(AncestorDirs(p))
  BY DEF Dirs, Parents
<1>2. p \in Seq(Nat) \ {<<>>}
  BY PathsAreNames
<1>3. PICK n \in Nat : n = Len(p)
  BY <1>2
<1>4. PICK i \in 1 .. n - 1 : dir = SubSeq(p, 1, n - i)
  BY <1>1, <1>3 DEF AncestorDirs, Range
<1>5. \A k \in 1 .. n - i : p[k] \in Nat
  BY <1>2, <1>3
<1>6. n - i \in Nat
  OBVIOUS
<1>7. SubSeq(p, 1, n - i) \in Seq(Nat)
  BY <1>5, <1>6, SubSeqProperties
<1> QED
  BY <1>4, <1>7

LEMMA DirsForType ==
  ASSUME NEW S, NEW V, NEW o \in FileOps(S, V)
  PROVE  DirsFor(o) \in Seq(Dirs)
<1>1. o.path \in Paths /\ o.newPath \in Paths
  BY DEF FileOps
<1>2. AncestorDirs(o.path) \in Seq(Dirs) /\ AncestorDirs(o.newPath) \in Seq(Dirs)
  BY <1>1, AncestorsAreDirs
<1>3. <<>> \in Seq(Dirs)
  OBVIOUS
<1> QED
  BY <1>2, <1>3 DEF DirsFor

LEMMA MkdirType ==
  ASSUME NEW S, NEW V, NEW o \in FileOps(S, V), NEW dir \in Dirs
  PROVE  Mkdir(o, dir) \in DirOps(S, V)
BY DEF Mkdir, FileOps, DirOps

LEMMA WithMkdirsType ==
  ASSUME NEW S, NEW V, NEW F \in SUBSET FileOps(S, V),
         NEW G, \A o \in F, dir \in Dirs : Mkdir(o, dir) \in G,
         NEW ops \in Seq(F)
  PROVE  WithMkdirs(ops) \in Seq(F \cup G) /\ \A i \in DOMAIN ops : Occurs(ops[i], WithMkdirs(ops))
<1> DEFINE Emitted(i, dir) == \E j \in 1 .. i - 1 :
             ops[j].target = ops[i].target /\ dir \in Range(DirsFor(ops[j]))
           Missing(i) == Ascending({k \in DOMAIN DirsFor(ops[i]) : ~Emitted(i, DirsFor(ops[i])[k])})
           Group(i) ==
             [k \in DOMAIN Missing(i) |-> Mkdir(ops[i], DirsFor(ops[i])[Missing(i)[k]])] \o <<ops[i]>>
           groups == [i \in DOMAIN ops |-> Group(i)]
<1>1. PICK T : T = F \cup G
  OBVIOUS
<1>2. ASSUME NEW i \in DOMAIN ops
      PROVE  Group(i) \in Seq(T) /\ Occurs(ops[i], Group(i))
  <2>1. ops[i] \in F /\ ops[i] \in FileOps(S, V) /\ ops[i] \in T
    BY <1>1
  <2>2. PICK s \in Seq(Dirs) : s = DirsFor(ops[i])
    BY <2>1, DirsForType
  <2>3. PICK n \in Nat : n = Len(s) /\ DOMAIN s = 1 .. n
    OBVIOUS
  <2>4. PICK R \in SUBSET (1 .. n) : R = {k \in DOMAIN DirsFor(ops[i]) : ~Emitted(i, DirsFor(ops[i])[k])}
    BY <2>2, <2>3
  <2>5. PICK t : t = Missing(i)
    OBVIOUS
  <2>6. t = Ascending(R)
    BY <2>4, <2>5
  <2> HIDE DEF Missing, Emitted
  <2>7. t \in Seq(R)
    BY <2>6, AscendingFacts
  <2>8. PICK v \in Nat : v = Len(t) /\ DOMAIN t = 1 .. v
    BY <2>7
  <2>9. \A k \in 1 .. v : t[k] \in R
    BY <2>7, <2>8
  <2>10. \A k \in 1 .. v : t[k] \in 1 .. n
    BY <2>9
  <2>11. \A k \in 1 .. v : s[t[k]] \in Dirs
    BY <2>3, <2>10
  <2>12. \A k \in 1 .. v : Mkdir(ops[i], s[t[k]]) \in T
    BY <1>1, <2>1, <2>11
  <2>13. [k \in 1 .. v |-> Mkdir(ops[i], s[t[k]])] \in Seq(T)
    <3>1. [k \in 1 .. v |-> Mkdir(ops[i], s[t[k]])] \in [1 .. v -> T]
      BY <2>12
    <3> QED
      BY <3>1
  <2>14. <<ops[i]>> \in Seq(T)
    BY <2>1
  <2>15. [k \in DOMAIN Missing(i) |-> Mkdir(ops[i], DirsFor(ops[i])[Missing(i)[k]])]
           = [k \in 1 .. v |-> Mkdir(ops[i], s[t[k]])]
    BY <2>2, <2>5, <2>8
  <2>16. PICK u \in Seq(T) : u = [k \in 1 .. v |-> Mkdir(ops[i], s[t[k]])]
    BY <2>13
  <2>17. PICK last \in Seq(T) : last = <<ops[i]>>
    BY <2>14
  <2>18. Len(last) = 1 /\ last[1] = ops[i]
    BY <2>17
  <2>19. u \o last \in Seq(T) /\ Occurs(ops[i], u \o last)
    <3>1. /\ u \o last \in Seq(T) /\ Len(u \o last) = Len(u) + Len(last)
          /\ \A a \in 1 .. Len(u) + Len(last) :
               (u \o last)[a] = IF a <= Len(u) THEN u[a] ELSE last[a - Len(u)]
      BY ConcatProperties
    <3>2. PICK z \in Seq(T) : z = u \o last
      BY <3>1
    <3>3. PICK c \in Nat : c = Len(u)
      OBVIOUS
    <3>4. c + 1 \in 1 .. c + 1 /\ ~(c + 1 <= c) /\ c + 1 - c = 1
      OBVIOUS
    <3>5. Len(z) = c + 1 /\ \A a \in 1 .. c + 1 : z[a] = IF a <= c THEN u[a] ELSE last[a - c]
      BY <2>18, <3>1, <3>2, <3>3
    <3>6. z[c + 1] = last[1]
      BY <3>4, <3>5
    <3>7. c + 1 \in DOMAIN z
      BY <3>4, <3>5
    <3> QED
      BY <2>18, <3>1, <3>2, <3>6, <3>7 DEF Occurs
  <2>20. Group(i) = u \o last
    BY <2>15, <2>16, <2>17
  <2> QED
    BY <2>19, <2>20
<1>3. PICK gs : gs = groups
  OBVIOUS
<1>4. gs \in Seq(Seq(T))
  <2>1. DOMAIN ops = 1 .. Len(ops) /\ Len(ops) \in Nat
    OBVIOUS
  <2> HIDE DEF Group
  <2>2. gs \in [1 .. Len(ops) -> Seq(T)]
    BY <1>2, <1>3, <2>1
  <2> QED
    BY <2>1, <2>2
<1>5. WithMkdirs(ops) = FlattenSeq(gs)
  BY <1>3 DEF WithMkdirs
<1>6. <<>> \in Seq(T)
  OBVIOUS
<1>7. FlattenSeq(gs) \in Seq(T)
  BY <1>4, <1>6, FlattenAppend
<1>8. ASSUME NEW i \in DOMAIN ops
      PROVE  Occurs(ops[i], FlattenSeq(gs))
  <2>1. i \in DOMAIN gs /\ gs[i] = Group(i)
    <3> HIDE DEF Group
    <3> QED
      BY <1>3
  <2> HIDE DEF groups, Group
  <2>2. PICK x : x = ops[i]
    OBVIOUS
  <2>3. \E k \in DOMAIN gs[i] : gs[i][k] = x
    BY <1>2, <2>1, <2>2 DEF Occurs
  <2>4. \E j \in DOMAIN FlattenSeq(gs) : FlattenSeq(gs)[j] = x
    BY <1>4, <2>1, <2>3, FlattenKeeps
  <2> QED
    BY <2>2, <2>4 DEF Occurs
<1> QED
  BY <1>1, <1>5, <1>7, <1>8

-----------------------------------------------------------------------------
(* The operations that plan_sync sorts                                     *)

\* 0 for a rename, 1 for anything else: renames come first.
Turn(o) == IF o.type = "RENAME" THEN 0 ELSE 1

\* No two renames, and no two other operations, are for the same path of a drive.
OnePerPath(A) ==
  \A a, b \in A : Turn(a) = Turn(b) /\ a.target = b.target /\ a.path = b.path => a = b

LEMMA BeforeIsAnOrder ==
  ASSUME NEW S, NEW V,
         NEW a \in FileOps(S, V), NEW b \in FileOps(S, V), NEW c \in FileOps(S, V)
  PROVE  /\ ~Before(a, a)
         /\ Before(a, b) /\ Before(b, c) => Before(a, c)
         /\ (Turn(a) = Turn(b) /\ a.target = b.target /\ a.path = b.path)
              \/ Before(a, b) \/ Before(b, a)
<1>1. /\ a.path \in Seq(Nat) /\ b.path \in Seq(Nat) /\ c.path \in Seq(Nat)
      /\ a.target \in Nat /\ b.target \in Nat /\ c.target \in Nat
  BY PathsAreNames, DrivesAreOrdered DEF FileOps
<1>2. PICK p \in Seq(Nat) : p = a.path
  BY <1>1
<1>3. PICK q \in Seq(Nat) : q = b.path
  BY <1>1
<1>4. PICK r \in Seq(Nat) : r = c.path
  BY <1>1
<1>5. PICK i \in Nat : i = a.target
  BY <1>1
<1>6. PICK j \in Nat : j = b.target
  BY <1>1
<1>7. PICK k \in Nat : k = c.target
  BY <1>1
<1>8. PICK t : t = a.type
  OBVIOUS
<1>9. PICK u : u = b.type
  OBVIOUS
<1>10. PICK v : v = c.type
  OBVIOUS
<1>11. /\ ~PathLess(p, p)
       /\ PathLess(p, q) /\ PathLess(q, r) => PathLess(p, r)
       /\ p = q \/ PathLess(p, q) \/ PathLess(q, p)
  BY PathOrder
<1>12. ~Before(a, a)
  BY <1>2, <1>5, <1>11 DEF Before
<1>13. Before(a, b) /\ Before(b, c) => Before(a, c)
  BY <1>2, <1>3, <1>4, <1>5, <1>6, <1>7, <1>8, <1>9, <1>10, <1>11 DEF Before
<1>14. (Turn(a) = Turn(b) /\ a.target = b.target /\ a.path = b.path) \/ Before(a, b) \/ Before(b, a)
  BY <1>2, <1>3, <1>5, <1>6, <1>8, <1>9, <1>11 DEF Before, Turn
<1> QED
  BY <1>12, <1>13, <1>14

LEMMA InOrderType ==
  ASSUME NEW S, NEW V, NEW A \in SUBSET FileOps(S, V), IsFiniteSet(A), OnePerPath(A)
  PROVE  InOrder(A, Before) \in Seq(A) /\ \A o \in A : Occurs(o, InOrder(A, Before))
<1> DEFINE before == [x \in A |-> {y \in A : Before(y, x)}]
<1>1. before \in [A -> SUBSET A] /\ \A x \in A : before[x] = {y \in A : Before(y, x)}
  OBVIOUS
<1> HIDE DEF before
<1>2. \A x, y \in A : x \in before[y] <=> Before(x, y)
  BY <1>1
<1>3. Orders(before, A)
  <2>1. \A x \in A : x \notin before[x]
    BY <1>2, BeforeIsAnOrder
  <2>2. ASSUME NEW x \in A, NEW y \in A, x \in before[y], NEW z \in before[x]
        PROVE  z \in before[y]
    <3>1. z \in A /\ x \in FileOps(S, V) /\ y \in FileOps(S, V) /\ z \in FileOps(S, V)
      BY <1>1, <2>2
    <3>2. Before(z, x) /\ Before(x, y)
      BY <1>2, <2>2, <3>1
    <3>3. Before(z, y)
      BY <3>1, <3>2, BeforeIsAnOrder
    <3> QED
      BY <1>2, <3>1, <3>3
  <2>3. ASSUME NEW x \in A, NEW y \in A
        PROVE  x = y \/ x \in before[y] \/ y \in before[x]
    <3>1. x \in FileOps(S, V) /\ y \in FileOps(S, V)
      OBVIOUS
    <3>2. (Turn(x) = Turn(y) /\ x.target = y.target /\ x.path = y.path) \/ Before(x, y) \/ Before(y, x)
      BY <3>1, BeforeIsAnOrder
    <3> QED
      BY <1>2, <3>2 DEF OnePerPath
  <2> QED
    BY <2>1, <2>2, <2>3 DEF Orders
<1>4. PICK f \in [1 .. Cardinality(A) -> A] : Enumerates(f, before, A)
  BY <1>1, <1>3, Enumeration
<1>5. PICK c \in Nat : c = Cardinality(A)
  BY FS_CardinalityType
<1>6. ASSUME NEW i \in 1 .. c
      PROVE  f[i] = CHOOSE x \in A : Cardinality({y \in A : Before(y, x)}) = i - 1
  <2>1. \A x \in A : Cardinality({y \in A : Before(y, x)}) = i - 1 <=> f[i] = x
    <3>1. \A x \in A : Cardinality(before[x]) = i - 1 <=> f[i] = x
      BY <1>4, <1>5 DEF Enumerates
    <3>2. ASSUME NEW x \in A
          PROVE  Cardinality({y \in A : Before(y, x)}) = Cardinality(before[x])
      <4>1. before[x] = {y \in A : Before(y, x)}
        BY <1>1
      <4> QED
        BY <4>1, Zenon
    <3> QED
      BY <3>1, <3>2
  <2>2. f[i] \in A
    BY <1>5
  <2> QED
    BY <2>1, <2>2
<1>7. InOrder(A, Before) = [i \in 1 .. c |-> f[i]]
  BY <1>5, <1>6 DEF InOrder
<1>8. [i \in 1 .. c |-> f[i]] \in [1 .. c -> A]
  BY <1>5
<1>9. \A o \in A : \E i \in 1 .. c : f[i] = o
  BY <1>4, <1>5 DEF Enumerates
<1>10. PICK s : s = [i \in 1 .. c |-> f[i]]
  OBVIOUS
<1>11. \A o \in A : Occurs(o, s)
  BY <1>9, <1>10 DEF Occurs
<1> QED
  BY <1>7, <1>8, <1>10, <1>11

\* An operation of plan_sync, before MKDIRs are added.
Planned(o) ==
  \E type \in {"COPY", "REPLACE", "REMOVE", "RENAME"}, tgt \in Drives, p, q \in Paths :
    \E src, v : o = SyncOp(type, src, tgt, p, q, v)

LEMMA SyncOpFields ==
  ASSUME NEW type, NEW src, NEW tgt, NEW p, NEW q, NEW v, NEW o, o = SyncOp(type, src, tgt, p, q, v)
  PROVE  /\ o.type = type /\ o.source = src /\ o.target = tgt
         /\ o.path = p /\ o.newPath = q /\ o.vv = v
BY DEF SyncOp

LEMMA PlannedType ==
  ASSUME NEW A, \A o \in A : Planned(o)
  PROVE  \E S, V : A \in SUBSET FileOps(S, V)
<1>1. PICK S : \A o \in A : o.source \in S
  <2>1. \A o \in A : o.source \in {a.source : a \in A}
    OBVIOUS
  <2> QED
    BY <2>1
<1>2. PICK V : \A o \in A : o.vv \in V
  <2>1. \A o \in A : o.vv \in {a.vv : a \in A}
    OBVIOUS
  <2> QED
    BY <2>1
<1>3. ASSUME NEW o \in A
      PROVE  o \in FileOps(S, V)
  <2>1. PICK type \in {"COPY", "REPLACE", "REMOVE", "RENAME"}, tgt \in Drives, p \in Paths, q \in Paths :
          \E src, v : o = SyncOp(type, src, tgt, p, q, v)
    BY DEF Planned
  <2>2. PICK src, v : o = SyncOp(type, src, tgt, p, q, v)
    BY <2>1
  <2>3. src \in S /\ v \in V
    <3>1. o.source = src /\ o.vv = v
      BY <2>2, SyncOpFields
    <3> QED
      BY <1>1, <1>2, <3>1
  <2> QED
    BY <2>2, <2>3 DEF SyncOp, FileOps
<1> QED
  BY <1>3

LEMMA PathOpsFacts ==
  ASSUME NEW m, DOMAIN m \subseteq Drives, NEW p \in Paths, NEW handled
  PROVE  /\ \A o \in PathOps(m, p, handled) : Planned(o) /\ o.type # "RENAME" /\ o.path = p /\ <<o.target, p>> \notin handled
         /\ \A a, b \in PathOps(m, p, handled) : a.target = b.target => a = b
<1> DEFINE deleted == {d \in DOMAIN m : IsTombstone(m, d, p)}
           targets == {d \in DOMAIN m : <<d, p>> \notin handled}
           src == SourceDrive(m, p)
<1>1. targets \subseteq Drives
  OBVIOUS
<1>2. PICK t \in SUBSET Drives : t = targets
  BY <1>1
<1>3. PICK e : e = deleted
  OBVIOUS
<1>4. PICK s : s = src
  OBVIOUS
<1>5. PathOps(m, p, handled) \subseteq Removals(m, p, e, t) \cup Updates(m, p, s, t)
  <2>1. \/ PathOps(m, p, handled) = Removals(m, p, e, t)
        \/ PathOps(m, p, handled) = UNION {Updates(m, p, x, t) :
                     x \in IF DOMAIN Versions(m, p) = {} THEN {} ELSE {SourceDrive(m, p)}}
    BY <1>2, <1>3, Zenon DEF PathOps
  <2> QED
    BY <1>4, <2>1
<1>6. \/ PathOps(m, p, handled) \subseteq Removals(m, p, e, t)
      \/ PathOps(m, p, handled) \subseteq Updates(m, p, s, t)
  <2>1. \/ PathOps(m, p, handled) = Removals(m, p, e, t)
        \/ PathOps(m, p, handled) = UNION {Updates(m, p, x, t) :
                     x \in IF DOMAIN Versions(m, p) = {} THEN {} ELSE {SourceDrive(m, p)}}
    BY <1>2, <1>3, Zenon DEF PathOps
  <2> QED
    BY <1>4, <2>1
<1>7. ASSUME NEW o \in Removals(m, p, e, t)
      PROVE  \E tgt \in t : o = SyncOp("REMOVE", Min(e), tgt, p, p, MergedVector({m[d][p] : d \in e}))
  BY DEF Removals
<1>8. ASSUME NEW o \in Updates(m, p, s, t)
      PROVE  \E tgt \in t : /\ Needed(m, p, s, tgt) # None
                            /\ o = SyncOp(Needed(m, p, s, tgt), s, tgt, p, p, PlannedVector(m, p, s))
  BY DEF Updates
<1>9. \A tgt : Needed(m, p, s, tgt) # None => Needed(m, p, s, tgt) \in {"REMOVE", "COPY", "REPLACE"}
  BY DEF Needed
<1>10. \A o \in Removals(m, p, e, t) :
         Planned(o) /\ o.type # "RENAME" /\ o.path = p /\ o.target \in t
  <2> SUFFICES ASSUME NEW o \in Removals(m, p, e, t)
               PROVE  Planned(o) /\ o.type # "RENAME" /\ o.path = p /\ o.target \in t
    OBVIOUS
  <2>1. PICK tgt \in t : o = SyncOp("REMOVE", Min(e), tgt, p, p, MergedVector({m[d][p] : d \in e}))
    BY <1>7
  <2>2. o.type = "REMOVE" /\ o.path = p /\ o.target = tgt
    BY <2>1, SyncOpFields
  <2>3. Planned(o)
    <3>1. tgt \in Drives /\ "REMOVE" \in {"COPY", "REPLACE", "REMOVE", "RENAME"}
      OBVIOUS
    <3> QED
      BY <2>1, <3>1, Zenon DEF Planned
  <2> QED
    BY <2>2, <2>3
<1>11. \A o \in Updates(m, p, s, t) :
         Planned(o) /\ o.type # "RENAME" /\ o.path = p /\ o.target \in t
  <2> SUFFICES ASSUME NEW o \in Updates(m, p, s, t)
               PROVE  Planned(o) /\ o.type # "RENAME" /\ o.path = p /\ o.target \in t
    OBVIOUS
  <2>1. PICK tgt \in t : /\ Needed(m, p, s, tgt) # None
                         /\ o = SyncOp(Needed(m, p, s, tgt), s, tgt, p, p, PlannedVector(m, p, s))
    BY <1>8
  <2>2. PICK type : type = Needed(m, p, s, tgt)
    OBVIOUS
  <2>3. PICK v : v = PlannedVector(m, p, s)
    OBVIOUS
  <2>4. type \in {"REMOVE", "COPY", "REPLACE"} /\ o = SyncOp(type, s, tgt, p, p, v)
    BY <1>9, <2>1, <2>2, <2>3
  <2>5. o.type = type /\ o.path = p /\ o.target = tgt
    BY <2>4, SyncOpFields
  <2>6. Planned(o)
    <3>1. tgt \in Drives /\ type \in {"COPY", "REPLACE", "REMOVE", "RENAME"}
      BY <2>4
    <3> QED
      BY <2>4, <3>1, Zenon DEF Planned
  <2> QED
    BY <2>4, <2>5, <2>6
<1>12. \A a, b \in Removals(m, p, e, t) : a.target = b.target => a = b
  <2> SUFFICES ASSUME NEW a \in Removals(m, p, e, t), NEW b \in Removals(m, p, e, t), a.target = b.target
               PROVE  a = b
    OBVIOUS
  <2>1. PICK i \in t : a = SyncOp("REMOVE", Min(e), i, p, p, MergedVector({m[d][p] : d \in e}))
    BY <1>7
  <2>2. PICK j \in t : b = SyncOp("REMOVE", Min(e), j, p, p, MergedVector({m[d][p] : d \in e}))
    BY <1>7
  <2>3. a.target = i /\ b.target = j
    BY <2>1, <2>2, SyncOpFields
  <2> QED
    BY <2>1, <2>2, <2>3, Zenon
<1>13. \A a, b \in Updates(m, p, s, t) : a.target = b.target => a = b
  <2> SUFFICES ASSUME NEW a \in Updates(m, p, s, t), NEW b \in Updates(m, p, s, t), a.target = b.target
               PROVE  a = b
    OBVIOUS
  <2>1. PICK i \in t : a = SyncOp(Needed(m, p, s, i), s, i, p, p, PlannedVector(m, p, s))
    BY <1>8
  <2>2. PICK j \in t : b = SyncOp(Needed(m, p, s, j), s, j, p, p, PlannedVector(m, p, s))
    BY <1>8
  <2>3. a.target = i /\ b.target = j
    BY <2>1, <2>2, SyncOpFields
  <2> QED
    BY <2>1, <2>2, <2>3, Zenon
<1>14. \A d \in t : <<d, p>> \notin handled
  BY <1>2
<1> HIDE DEF deleted, targets, src
<1> QED
  BY <1>6, <1>10, <1>11, <1>12, <1>13, <1>14

LEMMA RenameIsOp ==
  ASSUME NEW m, NEW tgt, NEW old, NEW new
  PROVE  \E src, v : RenameOp(m, tgt, old, new) = SyncOp("RENAME", src, tgt, old, new, v)
<1> DEFINE holders == {d \in DOMAIN m \ {tgt} : IsLive(m, d, new)}
           rows == (UNION {{m[d][old], m[d][new]} : d \in DOMAIN m}) \ {None}
<1>1. RenameOp(m, tgt, old, new) = SyncOp("RENAME", Min(holders), tgt, old, new, MergedVector(rows))
  BY DEF RenameOp
<1> HIDE DEF holders, rows
<1> QED
  BY <1>1

LEMMA RenameOpFacts ==
  ASSUME NEW m, DOMAIN m \subseteq Drives, NEW renames \in RenameMaps(m), NEW x \in DOMAIN renames,
         NEW o, o = RenameOp(m, x[1], x[2], renames[x])
  PROVE  Planned(o) /\ o.type = "RENAME" /\ o.target = x[1] /\ o.path = x[2] /\ x \in Drives \X Paths
<1>1. renames[x] \in Paths /\ x \in (DOMAIN m) \X Paths
  BY DEF RenameMaps
<1>2. x[1] \in Drives /\ x[2] \in Paths /\ x \in Drives \X Paths
  BY <1>1
<1>3. PICK src, v : o = SyncOp("RENAME", src, x[1], x[2], renames[x], v)
  BY RenameIsOp
<1>4. o.type = "RENAME" /\ o.target = x[1] /\ o.path = x[2]
  BY <1>3, SyncOpFields
<1>5. Planned(o)
  <2>1. "RENAME" \in {"COPY", "REPLACE", "REMOVE", "RENAME"}
    OBVIOUS
  <2> QED
    BY <1>1, <1>2, <1>3, <2>1, Zenon DEF Planned
<1> QED
  BY <1>2, <1>4, <1>5

LEMMA AllOpsFacts ==
  ASSUME NEW m, DOMAIN m \subseteq Drives, NEW renames \in RenameMaps(m)
  PROVE  (\A o \in AllOps(m, renames) : Planned(o)) /\ OnePerPath(AllOps(m, renames))
<1>1. ASSUME NEW o \in AllOps(m, renames)
      PROVE  \/ \E x \in DOMAIN renames : o = RenameOp(m, x[1], x[2], renames[x])
             \/ \E p \in Paths : o \in PathOps(m, p, RenameHandled(renames))
  BY DEF AllOps
<1>2. ASSUME NEW o \in AllOps(m, renames)
      PROVE  Planned(o)
  <2>1. CASE \E x \in DOMAIN renames : o = RenameOp(m, x[1], x[2], renames[x])
    BY <2>1, RenameOpFacts
  <2>2. CASE \E p \in Paths : o \in PathOps(m, p, RenameHandled(renames))
    BY <2>2, PathOpsFacts
  <2> QED
    BY <1>1, <1>2, <2>1, <2>2
<1>3. ASSUME NEW a \in AllOps(m, renames), NEW b \in AllOps(m, renames),
             Turn(a) = Turn(b), a.target = b.target, a.path = b.path
      PROVE  a = b
  <2>1. CASE a.type = "RENAME" /\ b.type = "RENAME"
    <3>1. PICK x \in DOMAIN renames : a = RenameOp(m, x[1], x[2], renames[x])
      BY <1>1, <2>1, PathOpsFacts
    <3>2. PICK y \in DOMAIN renames : b = RenameOp(m, y[1], y[2], renames[y])
      BY <1>1, <2>1, PathOpsFacts
    <3>3. x[1] = y[1] /\ x[2] = y[2] /\ x \in Drives \X Paths /\ y \in Drives \X Paths
      BY <1>3, <3>1, <3>2, RenameOpFacts
    <3>4. x = y
      BY <3>3
    <3> QED
      BY <3>1, <3>2, <3>4
  <2>2. CASE a.type # "RENAME" /\ b.type # "RENAME"
    <3>1. PICK p \in Paths : a \in PathOps(m, p, RenameHandled(renames))
      BY <1>1, <2>2, RenameOpFacts
    <3>2. PICK q \in Paths : b \in PathOps(m, q, RenameHandled(renames))
      BY <1>1, <2>2, RenameOpFacts
    <3>3. p = q
      <4>1. a.path = p
        BY <3>1, PathOpsFacts
      <4>2. b.path = q
        BY <3>2, PathOpsFacts
      <4> QED
        BY <1>3, <4>1, <4>2
    <3> QED
      BY <1>3, <3>1, <3>2, <3>3, PathOpsFacts
  <2>3. (a.type = "RENAME") = (b.type = "RENAME")
    BY <1>3 DEF Turn
  <2> QED
    BY <2>1, <2>2, <2>3
<1> QED
  BY <1>2, <1>3 DEF OnePerPath

LEMMA FewOps ==
  ASSUME NEW S, NEW V, NEW A \in SUBSET FileOps(S, V), OnePerPath(A)
  PROVE  IsFiniteSet(A)
<1> DEFINE key == [o \in A |-> <<<<Turn(o), o.target>>, o.path>>]
           Keys == ({0, 1} \X Drives) \X Paths
<1>1. IsFiniteSet(Keys)
  <2>1. IsFiniteSet({0, 1})
    <3>1. IsFiniteSet({} \cup {0})
      BY FS_EmptySet, FS_AddElement
    <3>2. IsFiniteSet(({} \cup {0}) \cup {1})
      BY <3>1, FS_AddElement
    <3>3. ({} \cup {0}) \cup {1} = {0, 1}
      OBVIOUS
    <3> QED
      BY <3>2, <3>3
  <2>2. IsFiniteSet(Drives) /\ IsFiniteSet(Paths)
    BY VaultAssumption
  <2>3. IsFiniteSet({0, 1} \X Drives)
    BY <2>1, <2>2, FS_Product
  <2> QED
    BY <2>2, <2>3, FS_Product
<1>2. \A o \in A : Turn(o) \in {0, 1} /\ o.target \in Drives /\ o.path \in Paths
  BY DEF Turn, FileOps
<1>3. key \in [A -> Keys]
  BY <1>2
<1>4. \A a, b \in A : key[a] = key[b] => a = b
  BY DEF OnePerPath
<1>5. key \in Injection(A, Keys)
  BY <1>3, <1>4 DEF Injection, IsInjective
<1> QED
  BY <1>1, <1>5, FS_Injection

-----------------------------------------------------------------------------
(* What is left of a plan                                                  *)

IsPlan(ops) == (\E T : ops \in Seq(T)) /\ ParentsFirst(ops)

LEMMA PlansPutParentsFirst ==
  ASSUME FilesAreNoDirs, NEW m, DOMAIN m \subseteq Drives, NEW ops \in Plans(m)
  PROVE  IsPlan(ops)
<1>1. PICK renames \in RenameMaps(m) :
        ops = Coalesce(TopologicalSort(WithMkdirs(InOrder(AllOps(m, renames), Before))))
  BY DEF Plans
<1>2. PICK A : A = AllOps(m, renames)
  OBVIOUS
<1>3. (\A o \in A : Planned(o)) /\ OnePerPath(A)
  BY <1>2, AllOpsFacts
<1>4. PICK S, V : A \in SUBSET FileOps(S, V)
  BY <1>3, PlannedType
<1>5. PICK planned \in Seq(A) : planned = InOrder(A, Before)
  <2>1. IsFiniteSet(A)
    BY <1>3, <1>4, FewOps
  <2> QED
    BY <1>3, <1>4, <2>1, InOrderType
<1>6. PICK T : T = A \cup DirOps(S, V)
  OBVIOUS
<1>7. PICK more \in Seq(T) : more = WithMkdirs(planned)
  <2>1. \A o \in A, dir \in Dirs : Mkdir(o, dir) \in DirOps(S, V)
    BY <1>4, MkdirType
  <2> QED
    BY <1>4, <1>6, <2>1, WithMkdirsType
<1>8. AreTargets(T)
  <2>1. ASSUME NEW o \in FileOps(S, V)
        PROVE  Targets(o)
    BY PathsAreNames DEF FileOps, Targets
  <2>2. ASSUME NEW o \in DirOps(S, V)
        PROVE  Targets(o)
    <3>1. o.type = "MKDIR" /\ o.path \in Dirs
      BY DEF DirOps
    <3>2. o.path \in Seq(Nat)
      BY <3>1, DirsAreNames
    <3> QED
      BY <3>1, <3>2 DEF Targets
  <2> QED
    BY <1>4, <1>6, <2>1, <2>2 DEF AreTargets
<1>9. PICK sorted \in Seq(T) : sorted = TopologicalSort(more) /\ ParentsFirst(sorted)
  BY <1>8, SortPutsParentsFirst
<1>10. Coalesce(sorted) \in Seq(T) /\ ParentsFirst(Coalesce(sorted))
  BY <1>9, CoalesceFacts
<1>11. ops = Coalesce(sorted)
  BY <1>1, <1>2, <1>5, <1>7, <1>9
<1> QED
  BY <1>10, <1>11 DEF IsPlan

LEMMA NoPlan == IsPlan(<<>>)
<1>1. <<>> \in Seq({})
  OBVIOUS
<1>2. DOMAIN <<>> = {}
  OBVIOUS
<1> QED
  BY <1>1, <1>2 DEF IsPlan, ParentsFirst

LEMMA RestOfPlan ==
  ASSUME NEW ops, IsPlan(ops), ops # <<>>
  PROVE  IsPlan(Tail(ops))
<1>1. PICK T : ops \in Seq(T)
  BY DEF IsPlan
<1>2. PICK n \in Nat : n = Len(ops) /\ DOMAIN ops = 1 .. n
  BY <1>1
<1>3. n # 0
  BY <1>1, <1>2, EmptySeq
<1>4. PICK s \in Seq(T) : s = Tail(ops)
  <2>1. Tail(ops) \in Seq(T)
    BY <1>1, HeadTailProperties
  <2> QED
    BY <2>1
<1>5. Len(s) = n - 1 /\ DOMAIN s = 1 .. n - 1 /\ \A i \in 1 .. n - 1 : s[i] = ops[i + 1]
  BY <1>1, <1>2, <1>3, <1>4
<1>6. \A i \in 1 .. n - 1 : i + 1 \in 1 .. n
  OBVIOUS
<1>7. ASSUME NEW i \in 1 .. n - 1, NEW j \in 1 .. n - 1,
             s[i].type = "MKDIR", s[i].target = s[j].target, Below(s[j].path, s[i].path)
      PROVE  i < j
  <2>1. i + 1 < j + 1
    BY <1>2, <1>5, <1>6, <1>7 DEF IsPlan, ParentsFirst
  <2> QED
    BY <2>1
<1>8. ParentsFirst(s)
  BY <1>5, <1>7 DEF ParentsFirst
<1> QED
  BY <1>4, <1>8 DEF IsPlan

\* As long as no path is a file on one drive and a directory on another,
\* topological_sort and coalesce leave each MKDIR before all work on the paths
\* below its directory, in whatever is left of a plan.
THEOREM PlansMakeParentsFirst ==
  ASSUME FilesAreNoDirs
  PROVE  Spec => []ParentsComeFirst
<1>1. Init => IsPlan(plan)
  BY NoPlan DEF Init
<1>2. IsPlan(plan) /\ [Next]_vars => IsPlan(plan)'
  <2> SUFFICES ASSUME IsPlan(plan), [Next]_vars
               PROVE  IsPlan(plan')
    OBVIOUS
  <2>1. ASSUME NEW connected \in SUBSET Drives, Sync(connected)
        PROVE  IsPlan(plan')
    <3>1. PICK m : m = [d \in connected |-> manifest[d]]
      OBVIOUS
    <3>2. DOMAIN m \subseteq Drives /\ plan' \in Plans(m)
      BY <2>1, <3>1 DEF Sync
    <3> QED
      BY <3>2, PlansPutParentsFirst
  <2>2. CASE Execute \/ ExecuteFails
    <3>1. plan # <<>> /\ plan' = Tail(plan)
      BY <2>2 DEF Execute, ExecuteFails
    <3> QED
      BY <3>1, RestOfPlan
  <2>3. CASE Crash
    BY <2>3, NoPlan DEF Crash
  <2>4. CASE UNCHANGED plan
    BY <2>4
  <2>5. \/ \E connected \in SUBSET Drives : Sync(connected)
        \/ Execute \/ ExecuteFails \/ Crash \/ UNCHANGED plan
    <3>1. ASSUME NEW d \in Drives, \E unreadable \in SUBSET Paths : Scan(d, unreadable)
          PROVE  UNCHANGED plan
      BY <3>1 DEF Scan
    <3>2. ASSUME NEW d \in Drives, ScanFallsShort(d) \/ Rebuild(d)
          PROVE  UNCHANGED plan
      BY <3>2 DEF ScanFallsShort, Rebuild
    <3>3. ASSUME NEW p \in Paths, NEW useDrive \in Drives, NEW connected \in SUBSET Drives,
                 Resolves(p, useDrive, connected) \/ ResolveDies(p, useDrive, connected)
          PROVE  UNCHANGED plan
      BY <3>3 DEF Resolves, ResolveDies
    <3>4. ASSUME NEW d \in Drives, NEW p \in Paths,
                 \/ \E content \in Contents, mtime \in Times : UserWrite(d, p, content, mtime)
                 \/ UserDelete(d, p)
                 \/ \E newPath \in Paths : UserMove(d, p, newPath)
          PROVE  UNCHANGED plan
      BY <3>4 DEF UserWrite, UserDelete, UserMove, Changed
    <3>5. CASE UNCHANGED vars
      BY <3>5 DEF vars
    <3> QED
      BY <3>1, <3>2, <3>3, <3>4, <3>5 DEF Next
  <2> QED
    BY <2>1, <2>2, <2>3, <2>4, <2>5
<1>3. IsPlan(plan) => ParentsComeFirst
  BY DEF IsPlan, ParentsFirst, ParentsComeFirst
<1> QED
  BY <1>1, <1>2, <1>3, PTL DEF Spec

-----------------------------------------------------------------------------
(* Who is chosen                                                           *)

\* Min and Max, which CHOOSE their result, find one.
LEMMA LeastChosen ==
  ASSUME NEW T, T \subseteq Nat, T # {}
  PROVE  Min(T) \in T /\ \A x \in T : Min(T) <= x
<1>1. \E n \in T : \A x \in T : n <= x
  BY LeastNumber
<1> QED
  BY <1>1, Zenon DEF Min

LEMMA GreatestChosen ==
  ASSUME NEW T, T \subseteq Nat, T # {}, IsFiniteSet(T)
  PROVE  Max(T) \in T /\ \A x \in T : Max(T) >= x
<1> DEFINE before == [x \in T |-> {y \in T : y < x}]
<1>1. before \in [T -> SUBSET T]
  OBVIOUS
<1>2. \A x, y \in T : x \in before[y] <=> x < y
  OBVIOUS
<1> HIDE DEF before
<1>3. Orders(before, T)
  <2>1. \A x \in T : x \notin before[x]
    BY <1>2
  <2>2. ASSUME NEW x \in T, NEW y \in T, x \in before[y], NEW z \in before[x]
        PROVE  z \in before[y]
    <3>1. z \in T
      BY <1>1, <2>2
    <3>2. z < x /\ x < y
      BY <1>2, <2>2, <3>1
    <3>3. x \in Nat /\ y \in Nat /\ z \in Nat
      BY <3>1
    <3>4. z < y
      BY <3>2, <3>3
    <3> QED
      BY <1>2, <3>1, <3>4
  <2>3. ASSUME NEW x \in T, NEW y \in T
        PROVE  x = y \/ x \in before[y] \/ y \in before[x]
    <3>1. x \in Nat /\ y \in Nat
      OBVIOUS
    <3>2. x = y \/ x < y \/ y < x
      BY <3>1
    <3> QED
      BY <1>2, <3>2
  <2> QED
    BY <2>1, <2>2, <2>3 DEF Orders
<1>4. PICK f \in [1 .. Cardinality(T) -> T] : Enumerates(f, before, T)
  BY <1>1, <1>3, Enumeration
<1>5. PICK n \in Nat : n = Cardinality(T)
  BY FS_CardinalityType
<1>6. \A x \in T : \E i \in 1 .. n : f[i] = x
  BY <1>4, <1>5 DEF Enumerates
<1>7. n \in 1 .. n /\ f[n] \in T
  <2>1. PICK x : x \in T
    OBVIOUS
  <2>2. PICK i \in 1 .. n : f[i] = x
    BY <1>6, <2>1
  <2>3. n \in 1 .. n
    BY <2>2
  <2> QED
    BY <1>5, <2>3
<1>8. ASSUME NEW x \in T
      PROVE  f[n] >= x
  <2>1. PICK i \in 1 .. n : f[i] = x
    BY <1>6
  <2>2. i < n => f[i] \in before[f[n]]
    BY <1>4, <1>5, <1>7 DEF Enumerates
  <2>3. i < n => x < f[n]
    BY <1>2, <1>7, <2>1, <2>2
  <2>4. i = n \/ i < n
    OBVIOUS
  <2>5. x \in Nat /\ f[n] \in Nat
    BY <1>7
  <2> QED
    BY <2>1, <2>3, <2>4, <2>5
<1> QED
  BY <1>7, <1>8, Zenon DEF Max

LEMMA ImageFinite ==
  ASSUME NEW D, IsFiniteSet(D), NEW X, NEW f \in [D -> X],
         NEW T, \A t \in T : \E d \in D : f[d] = t
  PROVE  IsFiniteSet(T)
<1>1. PICK Y : Y = {f[d] : d \in D}
  OBVIOUS
<1>2. f \in Surjection(D, Y)
  BY <1>1 DEF Surjection
<1>3. IsFiniteSet(Y)
  BY <1>2, FS_Surjection
<1>4. T \in SUBSET Y
  BY <1>1
<1> QED
  BY <1>3, <1>4, FS_Subset

LEMMA MergedVectorType ==
  ASSUME NEW rows, IsFiniteSet(rows), rows # {}, \A r \in rows : r.vv \in Vector
  PROVE  MergedVector(rows) \in Vector
<1>1. ASSUME NEW k \in Drives
      PROVE  Max({r.vv[k] : r \in rows}) \in Nat
  <2>1. \A r \in rows : r.vv[k] \in Nat
    BY DEF Vector
  <2>2. PICK clock \in [rows -> Nat] : \A r \in rows : clock[r] = r.vv[k]
    <3>1. [r \in rows |-> r.vv[k]] \in [rows -> Nat]
      BY <2>1
    <3> QED
      BY <3>1
  <2>3. PICK T : T = {r.vv[k] : r \in rows}
    OBVIOUS
  <2>4. \A t \in T : \E r \in rows : clock[r] = t
    BY <2>2, <2>3
  <2>5. IsFiniteSet(T)
    <3>1. IsFiniteSet(rows) /\ clock \in [rows -> Nat]
      OBVIOUS
    <3>2. PICK D : D = rows
      OBVIOUS
    <3>3. IsFiniteSet(D) /\ clock \in [D -> Nat] /\ \A t \in T : \E d \in D : clock[d] = t
      BY <2>4, <3>1, <3>2
    <3> QED
      BY <3>3, ImageFinite
  <2>6. T \subseteq Nat /\ T # {}
    BY <2>1, <2>3
  <2>7. Max(T) \in T
    BY <2>5, <2>6, GreatestChosen
  <2> QED
    BY <2>3, <2>6, <2>7
<1> QED
  BY <1>1 DEF MergedVector, Vector

\* The merge of rows is behind none of them.
LEMMA MergedIsAbove ==
  ASSUME NEW rows, IsFiniteSet(rows), \A r \in rows : r.vv \in Vector, NEW row \in rows
  PROVE  MergedVector(rows) \in Vector /\ ~Exceeds(row.vv, MergedVector(rows))
<1>1. MergedVector(rows) \in Vector
  BY MergedVectorType
<1>2. ASSUME NEW k \in Drives
      PROVE  ~(row.vv[k] > MergedVector(rows)[k])
  <2>1. PICK T : T = {r.vv[k] : r \in rows}
    OBVIOUS
  <2>2. T \subseteq Nat /\ row.vv[k] \in T
    BY <2>1 DEF Vector
  <2>3. IsFiniteSet(T)
    <3>1. PICK D : D = rows
      OBVIOUS
    <3>2. PICK f : f = [r \in D |-> r.vv[k]]
      OBVIOUS
    <3>3. f \in [D -> Nat]
      BY <3>1, <3>2 DEF Vector
    <3>4. \A t \in T : \E r \in D : f[r] = t
      BY <2>1, <3>1, <3>2
    <3>5. IsFiniteSet(D)
      BY <3>1
    <3> QED
      BY <3>3, <3>4, <3>5, ImageFinite
  <2>4. Max(T) >= row.vv[k] /\ Max(T) \in Nat
    BY <2>2, <2>3, GreatestChosen
  <2>5. MergedVector(rows)[k] = Max(T)
    BY <2>1 DEF MergedVector
  <2>6. row.vv[k] \in Nat
    BY <2>2
  <2> QED
    BY <2>4, <2>5, <2>6
<1> QED
  BY <1>1, <1>2 DEF Exceeds

LEMMA FirstPathExists ==
  ASSUME NEW P \in SUBSET Paths, P # {}
  PROVE  \E q \in P : \A x \in P : ~PathLess(x, q)
<1> DEFINE before == [x \in P |-> {y \in P : PathLess(y, x)}]
<1>1. before \in [P -> SUBSET P]
  OBVIOUS
<1>2. \A x, y \in P : x \in before[y] <=> PathLess(x, y)
  OBVIOUS
<1> HIDE DEF before
<1>3. \A x \in P : x \in Seq(Nat)
  BY PathsAreNames
<1>4. Orders(before, P)
  <2>1. \A x \in P : x \notin before[x]
    BY <1>2, <1>3, PathOrder
  <2>2. ASSUME NEW x \in P, NEW y \in P, x \in before[y], NEW z \in before[x]
        PROVE  z \in before[y]
    <3>1. z \in P
      BY <1>1, <2>2
    <3>2. PathLess(z, x) /\ PathLess(x, y)
      BY <1>2, <2>2, <3>1
    <3>3. PathLess(z, y)
      BY <1>3, <3>1, <3>2, PathOrder
    <3> QED
      BY <1>2, <3>1, <3>3
  <2>3. \A x, y \in P : x = y \/ x \in before[y] \/ y \in before[x]
    BY <1>2, <1>3, PathOrder
  <2> QED
    BY <2>1, <2>2, <2>3 DEF Orders
<1>5. IsFiniteSet(P)
  BY FS_Subset, VaultAssumption
<1>6. PICK f \in [1 .. Cardinality(P) -> P] : Enumerates(f, before, P)
  BY <1>1, <1>4, <1>5, Enumeration
<1>7. PICK n \in Nat : n = Cardinality(P)
  BY <1>5, FS_CardinalityType
<1>8. \A x \in P : \E i \in 1 .. n : f[i] = x
  BY <1>6, <1>7 DEF Enumerates
<1>9. 1 \in 1 .. n /\ f[1] \in P
  BY <1>7, <1>8
<1>10. ASSUME NEW x \in P
       PROVE  ~PathLess(x, f[1])
  <2>1. PICK i \in 1 .. n : f[i] = x
    BY <1>8
  <2>2. 1 < i => f[1] \in before[f[i]]
    BY <1>6, <1>7, <1>9 DEF Enumerates
  <2>3. 1 < i => PathLess(f[1], x)
    BY <1>2, <1>9, <2>1, <2>2
  <2>4. f[1] \in Seq(Nat) /\ x \in Seq(Nat)
    BY <1>3, <1>9
  <2>5. PathLess(x, f[1]) => ~PathLess(f[1], x) /\ x # f[1]
    BY <2>4, PathOrder
  <2>6. i = 1 => x = f[1]
    BY <2>1
  <2> QED
    BY <2>3, <2>5, <2>6
<1> QED
  BY <1>9, <1>10

\* Does d follow on those of the chain that come before it?
Follows(versions, chain, d) ==
  \/ d = Min(DOMAIN versions)
  \/ Compare(versions[d].vv, versions[Max({e \in chain : e < d})].vv) = "DOMINATES"

\* NewestVersion's chain, among the drives up to n.
IsChain(versions, chain, n) ==
  \A d \in DOMAIN versions : d <= n => (d \in chain <=> Follows(versions, chain, d))

LEMMA ChainExists ==
  ASSUME NEW D \in SUBSET Drives, NEW versions, DOMAIN versions = D, NEW n \in Nat
  PROVE  \E chain \in SUBSET D : IsChain(versions, chain, n)
<1> DEFINE Upto(k) == \E chain \in SUBSET D : IsChain(versions, chain, k) /\ \A e \in chain : e <= k
           G == {k \in 0 .. n : Upto(k)}
<1>1. \A d \in D : d \in Nat \ {0}
  BY DrivesAreOrdered
<1>2. Upto(0)
  <2>1. \A d \in D : ~(d <= 0)
    BY <1>1
  <2>2. IsChain(versions, {}, 0)
    BY <2>1 DEF IsChain
  <2> QED
    BY <2>2
<1>3. ASSUME NEW k \in 1 .. n, Upto(k - 1)
      PROVE  Upto(k)
  <2>1. PICK S \in SUBSET D : IsChain(versions, S, k - 1) /\ \A e \in S : e <= k - 1
    BY <1>3
  <2>2. PICK T : T = IF k \in D /\ Follows(versions, S, k) THEN S \cup {k} ELSE S
    OBVIOUS
  <2>3. T \in SUBSET D /\ \A e \in T : e <= k
    <3>1. \A e \in S : e \in Nat /\ e <= k - 1
      BY <1>1, <2>1
    <3>2. \A e \in S : e <= k
      BY <3>1
    <3> QED
      BY <2>2, <3>2
  <2>4. ASSUME NEW d \in D, d <= k
        PROVE  d \in T <=> Follows(versions, T, d)
    <3>1. d \in Nat /\ \A e \in S : e \in Nat /\ e <= k - 1
      BY <1>1, <2>1
    <3>2. \A e : e \in {x \in T : x < d} <=> e \in {x \in S : x < d}
      <4>1. ~(k < d)
        BY <2>4, <3>1
      <4> QED
        BY <2>2, <4>1
    <3>3. {x \in T : x < d} = {x \in S : x < d}
      BY <3>2
    <3>4. Follows(versions, T, d) = Follows(versions, S, d)
      BY <3>3, Zenon DEF Follows
    <3>5. CASE d = k
      <4>1. d \notin S
        BY <3>1, <3>5
      <4> QED
        BY <2>2, <3>4, <3>5, <4>1
    <3>6. CASE d # k
      <4>1. d <= k - 1
        BY <2>4, <3>1, <3>6
      <4>2. d \in S <=> Follows(versions, S, d)
        BY <2>1, <4>1 DEF IsChain
      <4>3. d \in T <=> d \in S
        BY <2>2, <3>6
      <4> QED
        BY <3>4, <4>2, <4>3
    <3> QED
      BY <3>5, <3>6
  <2>5. IsChain(versions, T, k)
    BY <2>4 DEF IsChain
  <2> QED
    BY <2>3, <2>5
<1>4. 0 \in G /\ \A k \in 1 .. n : k - 1 \in G => k \in G
  <2>1. \A k \in 0 .. n : k \in G <=> Upto(k)
    OBVIOUS
  <2>2. 0 \in 0 .. n /\ \A k \in 1 .. n : k - 1 \in 0 .. n /\ k \in 0 .. n
    OBVIOUS
  <2> HIDE DEF G
  <2> QED
    BY <1>2, <1>3, <2>1, <2>2
<1>5. n \in G
  <2> HIDE DEF G
  <2>1. \A k \in 0 .. n : k \in G
    BY <1>4, CountingUp
  <2> QED
    BY <2>1
<1> QED
  BY <1>5

\* NewestVersion of some drives is one of them.
LEMMA NewestExists ==
  ASSUME NEW D \in SUBSET Drives, D # {}, NEW versions, DOMAIN versions = D
  PROVE  NewestVersion(versions) \in D
<1> DEFINE IsWhole(S) == \A d \in DOMAIN versions : d \in S <=> Follows(versions, S, d)
           chain == CHOOSE S \in SUBSET DOMAIN versions : IsWhole(S)
<1>1. D \subseteq Nat /\ IsFiniteSet(D)
  <2>1. D \subseteq Nat
    BY DrivesAreOrdered
  <2> QED
    BY <2>1, FS_Subset, VaultAssumption
<1>2. Max(D) \in Nat /\ \A d \in D : d \in Nat /\ Max(D) >= d
  BY <1>1, GreatestChosen
<1>3. PICK n \in Nat : n = Max(D)
  BY <1>2
<1>4. \A d \in D : d <= n
  BY <1>2, <1>3
<1>5. \E S \in SUBSET D : IsChain(versions, S, n)
  BY ChainExists
<1>6. \E S \in SUBSET DOMAIN versions : IsWhole(S)
  BY <1>4, <1>5 DEF IsChain
<1>7. chain \in SUBSET D /\ IsWhole(chain)
  BY <1>6
<1>8. PICK c : c = chain
  OBVIOUS
<1>9. NewestVersion(versions) = Max(c)
  BY <1>8 DEF NewestVersion, Follows
<1> HIDE DEF chain
<1>10. Min(D) \in D
  BY <1>1, LeastChosen
<1>11. Min(D) \in c
  BY <1>7, <1>8, <1>10 DEF Follows
<1>12. c \subseteq Nat /\ c # {} /\ IsFiniteSet(c) /\ c \subseteq D
  BY <1>1, <1>7, <1>8, <1>11, FS_Subset
<1>13. Max(c) \in c
  BY <1>12, GreatestChosen
<1> QED
  BY <1>9, <1>12, <1>13

LEMMA SourceExists ==
  ASSUME NEW m, DOMAIN m \subseteq Drives, NEW p \in Paths, DOMAIN Versions(m, p) # {}
  PROVE  SourceDrive(m, p) \in DOMAIN Versions(m, p)
<1>1. PICK v : v = Versions(m, p)
  OBVIOUS
<1>2. DOMAIN v \subseteq DOMAIN m /\ DOMAIN v \in SUBSET Drives /\ DOMAIN v # {}
  BY <1>1 DEF Versions
<1> DEFINE Usable(winner) ==
             /\ winner \in DOMAIN v
             /\ \E d \in DOMAIN v : Compare(v[winner].vv, v[d].vv) = "CONCURRENT"
           usable == {x \in Resolutions(m) : Usable(x[2])}
           First(winner) == \E q \in Paths : <<q, winner>> \in usable /\ \A x \in usable : ~PathLess(x[1], q)
<1>3. SourceDrive(m, p) = IF usable = {} THEN NewestVersion(v) ELSE CHOOSE winner \in DOMAIN m : First(winner)
  BY <1>1 DEF SourceDrive
<1>4. \A x \in usable : x[2] \in DOMAIN v /\ x[1] \in Paths /\ x = <<x[1], x[2]>>
  BY DEF Resolutions, Conflicts
<1> HIDE DEF usable
<1>5. CASE usable = {}
  <2>1. NewestVersion(v) \in DOMAIN v
    BY <1>2, NewestExists
  <2> QED
    BY <1>1, <1>3, <1>5, <2>1
<1>6. CASE usable # {}
  <2>1. PICK P : P = {x[1] : x \in usable}
    OBVIOUS
  <2>2. P \in SUBSET Paths /\ P # {}
    BY <1>4, <1>6, <2>1
  <2>3. PICK q \in P : \A x \in P : ~PathLess(x, q)
    BY <2>2, FirstPathExists
  <2>4. PICK x \in usable : x[1] = q
    BY <2>1
  <2>5. First(x[2]) /\ x[2] \in DOMAIN m
    <3>1. <<q, x[2]>> \in usable
      BY <1>4, <2>4
    <3>2. \A y \in usable : ~PathLess(y[1], q)
      BY <2>1, <2>3
    <3> QED
      BY <1>2, <1>4, <2>2, <2>3, <3>1, <3>2
  <2>6. PICK w \in DOMAIN m : w = (CHOOSE winner \in DOMAIN m : First(winner)) /\ First(w)
    BY <2>5
  <2>7. PICK r \in Paths : <<r, w>> \in usable
    BY <2>6
  <2>8. w \in DOMAIN v
    BY <1>4, <2>7
  <2> QED
    BY <1>1, <1>3, <1>6, <2>6, <2>8
<1> QED
  BY <1>5, <1>6

-----------------------------------------------------------------------------
(* The operations of a plan can be asked of an Executor                    *)

AreManifests(m) ==
  /\ DOMAIN m \subseteq Drives
  /\ \A d \in DOMAIN m, p \in Paths : m[d][p] # None => m[d][p] \in Entry

\* From one drive to another, and what is to be removed has a row.
SoundOps(m) ==
  {o \in FileOps(Drives, Vector) :
     /\ o.source # o.target
     /\ o.type = "REMOVE" => o.target \in DOMAIN m /\ m[o.target][o.path] # None}
SoundDirOps == {o \in DirOps(Drives, Vector) : o.source # o.target}

\* Rows of some drives for two paths are few.
LEMMA RowsAreFew ==
  ASSUME NEW m, AreManifests(m), NEW D \in SUBSET DOMAIN m, NEW p \in Paths, NEW q \in Paths,
         NEW rows, \A r \in rows : r # None /\ \E d \in D : r = m[d][p] \/ r = m[d][q]
  PROVE  IsFiniteSet(rows)
<1>1. IsFiniteSet(D)
  BY FS_Subset, VaultAssumption DEF AreManifests
<1>2. ASSUME NEW x \in {p, q}
      PROVE  \E Y : IsFiniteSet(Y) /\ \A d \in D : m[d][x] \in Y
  <2>1. PICK Y : \A d \in D : m[d][x] \in Y
    <3>1. \A d \in D : m[d][x] \in {m[e][x] : e \in D}
      OBVIOUS
    <3> QED
      BY <3>1
  <2>2. PICK f \in [D -> Y] : \A d \in D : f[d] = m[d][x]
    <3>1. [d \in D |-> m[d][x]] \in [D -> Y]
      BY <2>1
    <3> QED
      BY <3>1
  <2>3. PICK T : T = {m[d][x] : d \in D}
    OBVIOUS
  <2>4. \A t \in T : \E d \in D : f[d] = t
    BY <2>2, <2>3
  <2>5. IsFiniteSet(T)
    <3>1. IsFiniteSet(D) /\ f \in [D -> Y] /\ \A t \in T : \E d \in D : f[d] = t
      BY <1>1, <2>4
    <3> QED
      BY <3>1, ImageFinite
  <2> QED
    BY <2>3, <2>5
<1>3. PICK Y : IsFiniteSet(Y) /\ \A d \in D : m[d][p] \in Y
  BY <1>2
<1>4. PICK Z : IsFiniteSet(Z) /\ \A d \in D : m[d][q] \in Z
  BY <1>2
<1>5. rows \subseteq Y \cup Z
  BY <1>3, <1>4
<1> QED
  BY <1>3, <1>4, <1>5, FS_Union, FS_Subset

\* The same of the rows of two paths.
LEMMA MergeCoversRows ==
  ASSUME NEW m, AreManifests(m), NEW D \in SUBSET DOMAIN m, NEW p \in Paths, NEW q \in Paths,
         NEW rows, \A r \in rows : r # None /\ \E d \in D : r = m[d][p] \/ r = m[d][q],
         NEW row \in rows
  PROVE  MergedVector(rows) \in Vector /\ row.vv \in Vector /\ ~Exceeds(row.vv, MergedVector(rows))
<1>1. IsFiniteSet(rows)
  BY RowsAreFew
<1>2. \A r \in rows : r \in Entry
  BY DEF AreManifests
<1>3. \A r \in rows : r.vv \in Vector
  BY <1>2 DEF Entry
<1> QED
  BY <1>1, <1>3, MergedIsAbove

LEMMA RowsVector ==
  ASSUME NEW m, AreManifests(m), NEW D \in SUBSET DOMAIN m, NEW p \in Paths, NEW q \in Paths,
         NEW rows, \A r \in rows : r # None /\ \E d \in D : r = m[d][p] \/ r = m[d][q],
         rows # {}
  PROVE  MergedVector(rows) \in Vector
<1>1. PICK row : row \in rows
  OBVIOUS
<1> QED
  BY <1>1, MergeCoversRows

LEMMA RemovalIsSound ==
  ASSUME NEW m, AreManifests(m), NEW p \in Paths, NEW e \in SUBSET DOMAIN m, e # {},
         \A d \in e : IsTombstone(m, d, p), NEW t \in SUBSET DOMAIN m, NEW o \in Removals(m, p, e, t)
  PROVE  o \in SoundOps(m)
<1>1. PICK v : v = MergedVector({m[d][p] : d \in e})
  OBVIOUS
<1>2. v \in Vector
  <2>1. \A d \in e : m[d][p] # None
    BY DEF IsTombstone
  <2>2. PICK rows : rows = {m[d][p] : d \in e}
    OBVIOUS
  <2>3. rows # {} /\ \A r \in rows : r # None /\ \E d \in e : r = m[d][p] \/ r = m[d][p]
    BY <2>1, <2>2
  <2> QED
    BY <1>1, <2>2, <2>3, RowsVector
<1>3. PICK src \in e : src = Min(e)
  <2>1. e \subseteq Nat
    BY DrivesAreOrdered DEF AreManifests
  <2> QED
    BY <2>1, LeastChosen
<1>4. PICK tgt \in t : IsLive(m, tgt, p) /\ o = SyncOp("REMOVE", src, tgt, p, p, v)
  BY <1>1, <1>3 DEF Removals
<1>5. src # tgt
  BY <1>4 DEF IsLive, IsTombstone
<1>6. m[tgt][p] # None
  BY <1>4 DEF IsLive
<1>7. src \in Drives /\ tgt \in Drives /\ tgt \in DOMAIN m
  BY DEF AreManifests
<1>8. o \in FileOps(Drives, Vector)
  BY <1>2, <1>4, <1>7 DEF SyncOp, FileOps
<1>9. o.source = src /\ o.target = tgt /\ o.path = p
  BY <1>4, SyncOpFields
<1> QED
  BY <1>5, <1>6, <1>7, <1>8, <1>9 DEF SoundOps

LEMMA UpdateIsSound ==
  ASSUME NEW m, AreManifests(m), NEW p \in Paths, NEW src \in DOMAIN m, m[src][p] # None,
         NEW t \in SUBSET DOMAIN m, NEW o \in Updates(m, p, src, t)
  PROVE  o \in SoundOps(m)
<1>1. PICK v : v = PlannedVector(m, p, src)
  OBVIOUS
<1>2. v \in Vector
  <2>1. PICK rows : rows = {m[d][p] : d \in DOMAIN m} \ {None}
    OBVIOUS
  <2>2. rows # {} /\ \A r \in rows : r # None /\ \E d \in DOMAIN m : r = m[d][p] \/ r = m[d][p]
    BY <2>1
  <2>3. MergedVector(rows) \in Vector
    BY <2>2, RowsVector
  <2> QED
    BY <1>1, <2>1, <2>3 DEF PlannedVector
<1>3. PICK tgt \in t \ {src} : /\ Needed(m, p, src, tgt) # None
                              /\ o = SyncOp(Needed(m, p, src, tgt), src, tgt, p, p, v)
  BY <1>1 DEF Updates
<1>4. PICK type : type = Needed(m, p, src, tgt)
  OBVIOUS
<1>5. /\ type \in {"REMOVE", "COPY", "REPLACE"}
      /\ type = "REMOVE" => m[tgt][p] # None
  <2>1. CASE m[src][p].tombstone
    <3>1. type = IF IsLive(m, tgt, p) THEN "REMOVE" ELSE None
      BY <1>4, <2>1 DEF Needed
    <3> QED
      BY <1>3, <1>4, <3>1 DEF IsLive
  <2>2. CASE ~m[src][p].tombstone
    <3>1. type \in {"COPY", "REPLACE", None}
      BY <1>4, <2>2 DEF Needed
    <3> QED
      BY <1>3, <1>4, <3>1
  <2> QED
    BY <2>1, <2>2
<1>6. o = SyncOp(type, src, tgt, p, p, v)
  BY <1>3, <1>4
<1>7. src \in Drives /\ tgt \in Drives /\ tgt \in DOMAIN m /\ src # tgt
  BY DEF AreManifests
<1>8. o \in FileOps(Drives, Vector)
  BY <1>2, <1>5, <1>6, <1>7 DEF SyncOp, FileOps
<1>9. o.type = type /\ o.source = src /\ o.target = tgt /\ o.path = p
  BY <1>6, SyncOpFields
<1> QED
  BY <1>5, <1>7, <1>8, <1>9 DEF SoundOps

LEMMA PathOpsAreSound ==
  ASSUME NEW m, AreManifests(m), NEW p \in Paths, NEW handled, NEW o \in PathOps(m, p, handled)
  PROVE  o \in SoundOps(m)
<1>1. PICK e : e = {d \in DOMAIN m : IsTombstone(m, d, p)}
  OBVIOUS
<1>2. PICK t : t = {d \in DOMAIN m : <<d, p>> \notin handled}
  OBVIOUS
<1>3. e \in SUBSET DOMAIN m /\ t \in SUBSET DOMAIN m /\ \A d \in e : IsTombstone(m, d, p)
  BY <1>1, <1>2
<1>4. CASE 2 * Cardinality(e) > Cardinality(DOMAIN m)
  <2>1. o \in Removals(m, p, e, t)
    BY <1>1, <1>2, <1>4 DEF PathOps
  <2>2. e # {}
    <3>1. Cardinality({}) = 0 /\ IsFiniteSet(DOMAIN m)
      BY FS_EmptySet, FS_Subset, VaultAssumption DEF AreManifests
    <3>2. PICK k \in Nat : k = Cardinality(DOMAIN m)
      BY <3>1, FS_CardinalityType
    <3> QED
      BY <1>4, <3>1, <3>2
  <2> QED
    BY <1>3, <2>1, <2>2, RemovalIsSound
<1>5. CASE ~(2 * Cardinality(e) > Cardinality(DOMAIN m))
  <2>1. o \in UNION {Updates(m, p, src, t) :
                     src \in IF DOMAIN Versions(m, p) = {} THEN {} ELSE {SourceDrive(m, p)}}
    BY <1>1, <1>2, <1>5, Zenon DEF PathOps
  <2>2. PICK src : src = SourceDrive(m, p)
    OBVIOUS
  <2>3. DOMAIN Versions(m, p) # {} /\ o \in Updates(m, p, src, t)
    BY <2>1, <2>2
  <2>4. src \in DOMAIN Versions(m, p)
    BY <2>2, <2>3, SourceExists DEF AreManifests
  <2>5. src \in DOMAIN m /\ m[src][p] # None
    BY <2>4 DEF Versions
  <2> QED
    BY <1>3, <2>3, <2>5, UpdateIsSound
<1> QED
  BY <1>4, <1>5

LEMMA RenameIsSound ==
  ASSUME NEW m, AreManifests(m), NEW renames \in RenameMaps(m), NEW x \in DOMAIN renames,
         NEW o, o = RenameOp(m, x[1], x[2], renames[x])
  PROVE  o \in SoundOps(m)
<1>1. /\ renames[x] \in Paths /\ renames[x] \in NewNames(m, x[1], x[2])
      /\ x[1] \in DOMAIN m /\ x[2] \in Paths
  BY DEF RenameMaps
<1>2. PICK tgt \in DOMAIN m, old \in Paths, new \in Paths : tgt = x[1] /\ old = x[2] /\ new = renames[x]
  BY <1>1
<1>3. new \in NewNames(m, tgt, old)
  BY <1>1, <1>2
<1> DEFINE sources == {src \in DOMAIN m \ {tgt} : RenamesFrom(m, src, tgt, old) # {}}
           holders == {d \in DOMAIN m \ {tgt} : IsLive(m, d, new)}
           rows == (UNION {{m[d][old], m[d][new]} : d \in DOMAIN m}) \ {None}
<1>4. DOMAIN m \subseteq Nat /\ DOMAIN m \subseteq Drives /\ IsFiniteSet(DOMAIN m)
  BY FS_Subset, VaultAssumption, DrivesAreOrdered DEF AreManifests
<1>5. PICK s : s = sources
  OBVIOUS
<1>6. s # {} /\ new \in RenamesFrom(m, Max(s), tgt, old)
  BY <1>3, <1>5 DEF NewNames
<1>7. Max(s) \in s
  <2>1. s \subseteq Nat /\ IsFiniteSet(s)
    BY <1>4, <1>5, FS_Subset
  <2> QED
    BY <1>6, <2>1, GreatestChosen
<1>8. PICK h : h = holders
  OBVIOUS
<1>9. Max(s) \in h
  BY <1>5, <1>6, <1>7, <1>8 DEF RenamesFrom
<1>10. Min(h) \in h
  <2>1. h \subseteq Nat /\ h # {}
    BY <1>4, <1>8, <1>9
  <2> QED
    BY <2>1, LeastChosen
<1>11. PICK src \in DOMAIN m : src = Min(h) /\ src # tgt
  BY <1>8, <1>10
<1>20. /\ \A d \in DOMAIN m : m[d][new] # None => m[d][new] \in rows
       /\ \A y \in rows : y # None /\ \E d \in DOMAIN m : y = m[d][old] \/ y = m[d][new]
  OBVIOUS
<1>21. RenameOp(m, tgt, old, new) = SyncOp("RENAME", Min(h), tgt, old, new, MergedVector(rows))
  BY <1>8 DEF RenameOp
<1> HIDE DEF rows
<1>12. PICK v : v = MergedVector(rows)
  OBVIOUS
<1>13. v \in Vector
  <2>1. PICK r : r = rows
    OBVIOUS
  <2>2. m[Max(s)][new] # None /\ Max(s) \in DOMAIN m
    BY <1>8, <1>9 DEF IsLive
  <2>3. m[Max(s)][new] \in r
    BY <1>20, <2>1, <2>2
  <2>4. \A y \in r : y # None /\ \E d \in DOMAIN m : y = m[d][old] \/ y = m[d][new]
    BY <1>20, <2>1
  <2>5. DOMAIN m \in SUBSET DOMAIN m /\ r # {}
    BY <2>3
  <2>6. MergedVector(r) \in Vector
    BY <2>4, <2>5, RowsVector
  <2> QED
    BY <1>12, <2>1, <2>6
<1>14. o = SyncOp("RENAME", src, tgt, old, new, v)
  BY <1>2, <1>11, <1>12, <1>21
<1> HIDE DEF sources, holders
<1>15. src \in Drives /\ tgt \in Drives
  BY <1>4
<1>16. o \in FileOps(Drives, Vector)
  BY <1>13, <1>14, <1>15 DEF SyncOp, FileOps
<1>17. o.type = "RENAME" /\ o.source = src /\ o.target = tgt
  BY <1>14, SyncOpFields
<1> QED
  BY <1>11, <1>16, <1>17 DEF SoundOps

\* The operations plan_sync found, and MKDIRs.
LEMMA PlansAreOps ==
  ASSUME NEW m, AreManifests(m), NEW ops \in Plans(m)
  PROVE  \E renames \in RenameMaps(m) :
           /\ AllOps(m, renames) \subseteq SoundOps(m)
           /\ ops \in Seq(AllOps(m, renames) \cup SoundDirOps) /\ OnceEach(ops)
<1>1. PICK renames \in RenameMaps(m) :
        ops = Coalesce(TopologicalSort(WithMkdirs(InOrder(AllOps(m, renames), Before))))
  BY DEF Plans
<1>2. PICK A : A = AllOps(m, renames)
  OBVIOUS
<1>3. OnePerPath(A)
  BY <1>2, AllOpsFacts DEF AreManifests
<1>4. A \in SUBSET SoundOps(m)
  <2>1. ASSUME NEW o \in A
        PROVE  o \in SoundOps(m)
    <3>1. \/ \E x \in DOMAIN renames : o = RenameOp(m, x[1], x[2], renames[x])
          \/ \E p \in Paths : o \in PathOps(m, p, RenameHandled(renames))
      BY <1>2 DEF AllOps
    <3> QED
      BY <3>1, RenameIsSound, PathOpsAreSound
  <2> QED
    BY <2>1
<1>5. A \in SUBSET FileOps(Drives, Vector)
  BY <1>4 DEF SoundOps
<1>6. PICK planned \in Seq(A) : planned = InOrder(A, Before)
  <2>1. IsFiniteSet(A)
    BY <1>3, <1>5, FewOps
  <2> QED
    BY <1>3, <1>5, <2>1, InOrderType
<1>7. PICK T : T = A \cup SoundDirOps
  OBVIOUS
<1>8. PICK more \in Seq(T) : more = WithMkdirs(planned)
  <2>1. ASSUME NEW o \in A, NEW dir \in Dirs
        PROVE  Mkdir(o, dir) \in SoundDirOps
    <3>1. o \in FileOps(Drives, Vector) /\ o.source # o.target
      BY <1>4 DEF SoundOps
    <3>2. Mkdir(o, dir) \in DirOps(Drives, Vector)
      BY <3>1, MkdirType
    <3>3. Mkdir(o, dir).source = o.source /\ Mkdir(o, dir).target = o.target
      BY <3>1 DEF Mkdir, FileOps
    <3> QED
      BY <3>1, <3>2, <3>3 DEF SoundDirOps
  <2> QED
    BY <1>5, <1>7, <2>1, WithMkdirsType
<1>9. PICK sorted \in Seq(T) : sorted = TopologicalSort(more)
  <2>1. PICK n \in Nat : Len(more) = n
    OBVIOUS
  <2>2. PICK order \in [1 .. n -> 1 .. n], k \in 0 .. n : SortsBy(more, order, n, k)
    BY <2>1, SortedOrder, Zenon
  <2>3. PICK s : s = [i \in 1 .. n |-> more[order[i]]]
    OBVIOUS
  <2>4. \A i \in 1 .. n : more[order[i]] \in T
    BY <2>1
  <2>5. s \in [1 .. n -> T]
    BY <2>3, <2>4
  <2>6. s \in Seq(T)
    BY <2>5
  <2> QED
    BY <2>2, <2>3, <2>6 DEF SortsBy
<1>10. Coalesce(sorted) \in Seq(T) /\ OnceEach(Coalesce(sorted))
  BY <1>9, CoalesceFacts
<1>11. ops = Coalesce(sorted)
  BY <1>1, <1>2, <1>6, <1>8, <1>9
<1> QED
  BY <1>2, <1>4, <1>7, <1>10, <1>11

\* Every plan of the manifests m.
LEMMA PlansAreSound ==
  ASSUME NEW m, AreManifests(m), NEW ops \in Plans(m)
  PROVE  ops \in Seq(SoundOps(m) \cup SoundDirOps) /\ OnceEach(ops)
<1>1. PICK renames \in RenameMaps(m) :
        /\ AllOps(m, renames) \subseteq SoundOps(m)
        /\ ops \in Seq(AllOps(m, renames) \cup SoundDirOps) /\ OnceEach(ops)
  BY PlansAreOps
<1>2. AllOps(m, renames) \cup SoundDirOps \subseteq SoundOps(m) \cup SoundDirOps
  BY <1>1
<1> QED
  BY <1>1, <1>2, SeqMonotonic

-----------------------------------------------------------------------------
(* Files and directories of a drive                                        *)

LEMMA ParentsAreAbove ==
  ASSUME NEW p \in Seq(Nat), NEW dir \in Parents(p)
  PROVE  /\ Below(p, dir) /\ dir \in Seq(Nat) /\ dir # p
         /\ \E k \in 1 .. Len(p) - 1 : dir = SubSeq(p, 1, k)
<1>1. PICK n \in Nat : n = Len(p)
  OBVIOUS
<1>2. PICK i \in 1 .. n - 1 : dir = SubSeq(p, 1, n - i)
  BY <1>1 DEF Parents, AncestorDirs, Range
<1>3. PICK k \in 1 .. n - 1 : k = n - i
  OBVIOUS
<1>4. \A j \in 1 .. k : p[j] \in Nat
  BY <1>1
<1>5. dir \in Seq(Nat) /\ Len(dir) = k /\ \A j \in 1 .. k : dir[j] = p[j]
  BY <1>1, <1>2, <1>3, <1>4, SubSeqProperties
<1>6. IsStrictPrefix(dir, p)
  <2>1. Len(dir) < Len(p)
    BY <1>1, <1>5
  <2> QED
    BY <1>5, <2>1, StrictPrefix
<1>7. Below(p, dir)
  BY <1>6 DEF Below
<1>8. dir # p
  BY <1>6 DEF IsStrictPrefix
<1> QED
  BY <1>1, <1>2, <1>3, <1>5, <1>7, <1>8

LEMMA ParentsOfPrefix ==
  ASSUME NEW p \in Seq(Nat), NEW k \in 1 .. Len(p) - 1, NEW dir \in Parents(SubSeq(p, 1, k))
  PROVE  dir \in Parents(p)
<1>1. PICK n \in Nat : n = Len(p)
  OBVIOUS
<1>2. PICK q : q = SubSeq(p, 1, k)
  OBVIOUS
<1>3. q \in Seq(Nat) /\ Len(q) = k /\ \A j \in 1 .. k : q[j] = p[j]
  <2>1. \A j \in 1 .. k : p[j] \in Nat
    BY <1>1
  <2> QED
    BY <1>1, <1>2, <2>1, SubSeqProperties
<1>4. dir \in Parents(q)
  BY <1>2
<1>5. PICK l \in 1 .. k - 1 : dir = SubSeq(q, 1, l)
  BY <1>3, <1>4, ParentsAreAbove
<1>6. SubSeq(q, 1, l) = SubSeq(p, 1, l)
  <2>1. \A j \in 1 .. l : q[j] = p[j]
    BY <1>3
  <2>2. l \in Nat /\ l <= Len(p) /\ l <= Len(q)
    BY <1>1, <1>3
  <2> QED
    BY <1>3, <2>1, <2>2, PrefixesEqual
<1>7. PICK i \in 1 .. n - 1 : n - i = l
  <2>1. n - l \in 1 .. n - 1 /\ n - (n - l) = l
    BY <1>1
  <2> QED
    BY <2>1
<1> QED
  BY <1>1, <1>5, <1>6, <1>7 DEF Parents, AncestorDirs, Range

LEMMA ParentsAreDirs ==
  ASSUME NEW p \in Paths \cup Dirs
  PROVE  Parents(p) \subseteq Dirs
<1>1. CASE p \in Paths
  BY <1>1 DEF Dirs
<1>2. CASE p \in Dirs
  <2>1. PICK q \in Paths : p \in Parents(q)
    BY <1>2 DEF Dirs
  <2>2. q \in Seq(Nat)
    BY PathsAreNames
  <2>3. PICK k \in 1 .. Len(q) - 1 : p = SubSeq(q, 1, k)
    BY <2>1, <2>2, ParentsAreAbove
  <2>4. Parents(p) \subseteq Parents(q)
    BY <2>2, <2>3, ParentsOfPrefix
  <2> QED
    BY <2>4 DEF Dirs
<1> QED
  BY <1>1, <1>2

\* Files are in directories, and are none.
IsTree(f, ds) ==
  /\ \A p \in Paths : f[p] # None => Parents(p) \subseteq ds
  /\ \A p \in ds \cap Paths : f[p] = None

LEMMA ParentsOfFiles ==
  ASSUME NEW f, NEW ds
  PROVE  ParentsOf(f) \subseteq ds <=> \A p \in Paths : f[p] # None => Parents(p) \subseteq ds
BY DEF ParentsOf

FileMaps == [Paths -> {None} \cup [content : Contents, mtime : Times]]
RowMaps == [Paths -> {None} \cup Entry]

LEMMA FewerFiles ==
  ASSUME NEW f \in FileMaps, NEW ds, IsTree(f, ds), NEW paths, NEW g \in FileMaps,
         \A p \in Paths : g[p] = f[p] \/ g[p] = None
  PROVE  IsTree(g, ds)
BY DEF IsTree

LEMMA OneMoreFile ==
  ASSUME NEW f \in FileMaps, NEW ds, IsTree(f, ds), NEW q \in Paths, q \notin ds,
         Parents(q) \subseteq ds, NEW x, NEW g, g = [f EXCEPT ![q] = x]
  PROVE  IsTree(g, ds)
BY DEF IsTree, FileMaps

\* More directories, where there are no files.
LEMMA MoreDirs ==
  ASSUME NEW f, NEW ds, IsTree(f, ds), NEW more, ds \subseteq more,
         \A p \in more \cap Paths : f[p] = None
  PROVE  IsTree(f, more)
BY DEF IsTree

\* One directory less, below which there are no files.
LEMMA OneDirLess ==
  ASSUME NEW f, NEW ds, IsTree(f, ds), NEW dir,
         \A p \in Paths : f[p] # None => ~Below(p, dir)
  PROVE  IsTree(f, ds \ {dir})
<1>1. ASSUME NEW p \in Paths, f[p] # None
      PROVE  dir \notin Parents(p)
  <2>1. p \in Seq(Nat)
    BY PathsAreNames
  <2> QED
    BY <1>1, <2>1, ParentsAreAbove
<1> QED
  BY <1>1 DEF IsTree

\* Files that fit, in the directories that Changed leaves.
LEMMA FittingFiles ==
  ASSUME NEW f, \A p \in Paths : f[p] # None => Fits(f, p), NEW ds,
         NEW more, more = ParentsOf(f) \cup {a \in ds : \A p \in Paths : f[p] # None => p # a /\ ~Below(a, p)}
  PROVE  IsTree(f, more)
<1>1. \A p \in Paths : f[p] # None => Parents(p) \subseteq more
  BY DEF ParentsOf
<1>2. ASSUME NEW q \in more \cap Paths, f[q] # None
      PROVE  FALSE
  <2>1. q \in ParentsOf(f)
    BY <1>2
  <2>2. PICK p \in Paths : f[p] # None /\ q \in Parents(p)
    BY <2>1 DEF ParentsOf
  <2>3. Below(p, q)
    BY <2>2, PathsAreNames, ParentsAreAbove
  <2> QED
    BY <1>2, <2>2, <2>3 DEF Fits
<1> QED
  BY <1>1, <1>2 DEF IsTree

-----------------------------------------------------------------------------
(* What an operation may leave of its target                               *)

IsSound(s) ==
  /\ s \in [files : FileMaps, dirs : SUBSET Dirs, rows : RowMaps]
  /\ IsTree(s.files, s.dirs)

DrivesAreSound ==
  /\ files \in [Drives -> FileMaps] /\ dirs \in [Drives -> SUBSET Dirs]
  /\ manifest \in [Drives -> RowMaps]
  /\ \A d \in Drives : IsTree(files[d], dirs[d])

\* A state put together from its parts.
LEMMA StateIsSound ==
  ASSUME NEW f \in FileMaps, NEW ds \in SUBSET Dirs, NEW rows \in RowMaps, IsTree(f, ds)
  PROVE  IsSound(State(f, ds, rows))
BY DEF State, IsSound

LEMMA HereIsSound ==
  ASSUME DrivesAreSound, NEW d \in Drives
  PROVE  IsSound(Here(d))
BY StateIsSound DEF DrivesAreSound, Here

\* A drive is left in a sound state.
LEMMA BecomesSound ==
  ASSUME DrivesAreSound, NEW d \in Drives, NEW s, IsSound(s), Become(d, s)
  PROVE  DrivesAreSound'
<1>1. s.files \in FileMaps /\ s.dirs \in SUBSET Dirs /\ s.rows \in RowMaps /\ IsTree(s.files, s.dirs)
  BY DEF IsSound
<1>2. files' \in [Drives -> FileMaps] /\ dirs' \in [Drives -> SUBSET Dirs] /\ manifest' \in [Drives -> RowMaps]
  BY <1>1 DEF Become, DrivesAreSound
<1>3. ASSUME NEW e \in Drives
      PROVE  IsTree(files'[e], dirs'[e])
  <2>1. \/ files'[e] = s.files /\ dirs'[e] = s.dirs
        \/ files'[e] = files[e] /\ dirs'[e] = dirs[e]
    BY DEF Become, DrivesAreSound
  <2> QED
    BY <1>1, <2>1 DEF DrivesAreSound
<1> QED
  BY <1>2, <1>3 DEF DrivesAreSound

\* Only a rename drops a row, that of its old name.
KeepsRows(o, s) ==
  \A p \in Paths : manifest[o.target][p] \in Entry /\ p # o.path => s.rows[p] \in Entry

LEMMA FileOpFields ==
  ASSUME NEW o \in FileOps(Drives, Vector)
  PROVE  /\ o.type \in {"COPY", "REPLACE", "REMOVE", "RENAME"}
         /\ o.source \in Drives /\ o.target \in Drives
         /\ o.path \in Paths /\ o.newPath \in Paths /\ o.vv \in Vector
BY DEF FileOps

LEMMA DirOpFields ==
  ASSUME NEW o \in DirOps(Drives, Vector)
  PROVE  /\ o.type = "MKDIR" /\ o.source \in Drives /\ o.target \in Drives
         /\ o.path \in Dirs /\ o.newPath \in Dirs /\ o.vv \in Vector
BY DEF DirOps

LEMMA OpFields ==
  ASSUME NEW o \in Operation
  PROVE  /\ o.target \in Drives /\ o.source \in Drives /\ o.vv \in Vector
         /\ \/ o.type = "MKDIR" /\ o.path \in Dirs
            \/ o.type \in {"COPY", "REPLACE", "REMOVE", "RENAME"} /\ o.path \in Paths /\ o.newPath \in Paths
<1>1. o \in FileOps(Drives, Vector) \/ o \in DirOps(Drives, Vector)
  BY DEF Operation, FileOps, DirOps
<1> QED
  BY <1>1, FileOpFields, DirOpFields

\* The directories an operation makes are where there are no files.
LEMMA RoomForDirs ==
  ASSUME DrivesAreSound, NEW o \in Operation, o.type # "REMOVE", ~Obstructed(o)
  PROVE  /\ DirsAfter(o) \in SUBSET Dirs /\ dirs[o.target] \subseteq DirsAfter(o)
         /\ Parents(Destination(o)) \subseteq DirsAfter(o)
         /\ o.type # "MKDIR" => DirsAfter(o) = dirs[o.target] \cup Parents(Destination(o))
         /\ IsTree(files[o.target], DirsAfter(o))
<1>1. PICK t : t = dirs[o.target]
  OBVIOUS
<1>2. PICK dest \in Paths \cup Dirs : dest = Destination(o)
  BY OpFields DEF Destination
<1>3. PICK ds : ds = DirsAfter(o)
  OBVIOUS
<1>4. /\ o.type = "MKDIR" => ds = t \cup Parents(dest) \cup {dest} /\ dest = o.path /\ dest \in Dirs
      /\ o.type # "MKDIR" => ds = t \cup Parents(dest)
  <2>1. CASE o.type = "MKDIR"
    <3>1. Destination(o) = o.path
      BY <2>1 DEF Destination
    <3>2. ds = t \cup Parents(o.path) \cup {o.path}
      BY <1>1, <1>3, <2>1 DEF DirsAfter
    <3> QED
      BY <1>2, <2>1, <3>1, <3>2, OpFields
  <2>2. CASE o.type # "MKDIR"
    <3>1. ds = t \cup Parents(Destination(o))
      BY <1>1, <1>3, <2>2 DEF DirsAfter
    <3> QED
      BY <1>2, <2>2, <3>1
  <2> QED
    BY <2>1, <2>2
<1>5. t \in SUBSET Dirs /\ IsTree(files[o.target], t)
  BY <1>1, OpFields DEF DrivesAreSound
<1>6. Parents(dest) \subseteq Dirs
  BY ParentsAreDirs
<1>7. ds \in SUBSET Dirs /\ t \subseteq ds /\ Parents(dest) \subseteq ds
  BY <1>4, <1>5, <1>6
<1>8. \A p \in ds \cap Paths : files[o.target][p] = None
  <2>1. \A p \in Paths : p \in Parents(dest) \/ (o.type = "MKDIR" /\ p = o.path) => files[o.target][p] = None
    BY <1>2 DEF Obstructed
  <2>2. \A p \in t \cap Paths : files[o.target][p] = None
    BY <1>5 DEF IsTree
  <2> QED
    BY <1>4, <2>1, <2>2
<1>9. IsTree(files[o.target], ds)
  BY <1>5, <1>7, <1>8, MoreDirs
<1> QED
  BY <1>1, <1>2, <1>3, <1>4, <1>7, <1>9

\* A removal may take an empty directory away.
LEMMA RoomForRemoval ==
  ASSUME DrivesAreSound, NEW o \in Operation, o.type = "REMOVE"
  PROVE  DirsAfter(o) \in SUBSET dirs[o.target] /\ IsTree(files[o.target], DirsAfter(o))
<1>1. PICK t : t = dirs[o.target]
  OBVIOUS
<1>2. PICK ds : ds = DirsAfter(o)
  OBVIOUS
<1>3. IsTree(files[o.target], t)
  BY <1>1, OpFields DEF DrivesAreSound
<1>4. \/ ds = t
      \/ ds = t \ {o.path} /\ \A p \in Paths : files[o.target][p] # None => ~Below(p, o.path)
  BY <1>1, <1>2 DEF DirsAfter
<1>5. IsTree(files[o.target], ds)
  BY <1>3, <1>4, OneDirLess
<1> QED
  BY <1>1, <1>2, <1>4, <1>5

\* Files are gone, the others as they were.
LEMMA WithoutSome ==
  ASSUME NEW f \in FileMaps, NEW paths
  PROVE  Without(f, paths) \in FileMaps /\ \A p \in Paths : Without(f, paths)[p] = f[p] \/ Without(f, paths)[p] = None
BY DEF Without, FileMaps

\* A copy and a rename put their file where there is no directory.
LEMMA FilesAfterType ==
  ASSUME DrivesAreSound, NEW o \in Operation, Applicable(o)
  PROVE  /\ FilesAfter(o) \in FileMaps
         /\ IsTree(FilesAfter(o), DirsAfter(o))
<1>1. PICK f \in FileMaps : f = files[o.target]
  BY OpFields DEF DrivesAreSound
<1>2. PICK t \in FileMaps : /\ t = Without(f, TmpFile(o))
                            /\ \A p \in Paths : t[p] = f[p] \/ t[p] = None
  BY WithoutSome
<1>3. PICK ds : ds = DirsAfter(o)
  OBVIOUS
<1>4. IsTree(f, ds)
  <2>1. CASE o.type = "REMOVE"
    BY <1>1, <1>3, <2>1, RoomForRemoval
  <2>2. CASE o.type # "REMOVE"
    <3>1. ~Obstructed(o)
      BY <2>2 DEF Applicable
    <3> QED
      BY <1>1, <1>3, <2>2, <3>1, RoomForDirs
  <2> QED
    BY <2>1, <2>2
<1>5. IsTree(t, ds)
  BY <1>2, <1>4, FewerFiles
<1>6. CASE o.type = "MKDIR"
  <2>1. FilesAfter(o) = t
    BY <1>1, <1>2, <1>6 DEF FilesAfter
  <2> QED
    BY <1>3, <1>5, <2>1
<1>7. CASE o.type = "REMOVE"
  <2>1. FilesAfter(o) = [t EXCEPT ![o.path] = None]
    BY <1>1, <1>2, <1>7 DEF FilesAfter
  <2>2. PICK g : g = [t EXCEPT ![o.path] = None]
    OBVIOUS
  <2>3. g \in FileMaps /\ \A p \in Paths : g[p] = t[p] \/ g[p] = None
    BY <2>2 DEF FileMaps
  <2>4. IsTree(g, ds)
    BY <1>5, <2>3, FewerFiles
  <2> QED
    BY <1>3, <2>1, <2>2, <2>3, <2>4
<1>8. CASE o.type \in {"COPY", "REPLACE"}
  <2>1. /\ ~Obstructed(o) /\ o.path \notin dirs[o.target] /\ files[o.source][o.path] # None
        /\ o.path \in Paths /\ o.type # "REMOVE" /\ o.type # "MKDIR"
    BY <1>8, OpFields DEF Applicable
  <2>2. ds = dirs[o.target] \cup Parents(o.path)
    BY <1>3, <1>8, <2>1, RoomForDirs DEF Destination
  <2>3. o.path \notin ds
    BY <2>1, <2>2, PathsAreNames, ParentsAreAbove
  <2>4. PICK x : x = files[o.source][o.path]
    OBVIOUS
  <2>5. FilesAfter(o) = [t EXCEPT ![o.path] = x]
    BY <1>1, <1>2, <1>8, <2>4 DEF FilesAfter
  <2>6. PICK g : g = [t EXCEPT ![o.path] = x]
    OBVIOUS
  <2>7. IsTree(g, ds)
    BY <1>5, <2>1, <2>2, <2>3, <2>6, OneMoreFile
  <2>8. g \in FileMaps
    <3>1. x \in {None} \cup [content : Contents, mtime : Times]
      BY <2>1, <2>4, OpFields DEF DrivesAreSound, FileMaps
    <3> QED
      BY <2>6, <3>1 DEF FileMaps
  <2> QED
    BY <1>3, <2>5, <2>6, <2>7, <2>8
<1>9. CASE o.type = "RENAME"
  <2>1. /\ ~Obstructed(o) /\ o.newPath \notin dirs[o.target]
        /\ o.path \in Paths /\ o.newPath \in Paths /\ o.type # "REMOVE" /\ o.type # "MKDIR"
    BY <1>9, OpFields DEF Applicable
  <2>2. ds = dirs[o.target] \cup Parents(o.newPath)
    BY <1>3, <1>9, <2>1, RoomForDirs DEF Destination
  <2>3. o.newPath \notin ds
    BY <2>1, <2>2, PathsAreNames, ParentsAreAbove
  <2>4. PICK g : g = [t EXCEPT ![o.newPath] = t[o.path]]
    OBVIOUS
  <2>5. PICK h : h = [g EXCEPT ![o.path] = None]
    OBVIOUS
  <2>6. FilesAfter(o) = h
    BY <1>1, <1>2, <1>9, <2>4, <2>5 DEF FilesAfter
  <2>7. g \in FileMaps /\ IsTree(g, ds)
    <3>1. IsTree(g, ds)
      BY <1>5, <2>1, <2>2, <2>3, <2>4, OneMoreFile
    <3> QED
      BY <2>1, <2>4, <3>1 DEF FileMaps
  <2>8. h \in FileMaps /\ \A p \in Paths : h[p] = g[p] \/ h[p] = None
    BY <2>5, <2>7 DEF FileMaps
  <2>9. IsTree(h, ds)
    BY <2>7, <2>8, FewerFiles
  <2> QED
    BY <1>3, <2>6, <2>8, <2>9
<1> QED
  BY <1>6, <1>7, <1>8, <1>9, OpFields

LEMMA NewVector ==
  ASSUME NEW row \in Entry, NEW v \in Vector, NEW new, new = [row EXCEPT !.vv = v]
  PROVE  new \in Entry
BY DEF Entry

LEMMA NewTombstone ==
  ASSUME NEW row \in Entry, NEW b \in BOOLEAN, NEW v \in Vector,
         NEW new, new = [row EXCEPT !.tombstone = b, !.vv = v]
  PROVE  new \in Entry
BY DEF Entry

\* A copy has its source's row to take over, a removal its own.
LEMMA RowsAfterType ==
  ASSUME DrivesAreSound, NEW o \in Operation, Applicable(o),
         o.type = "REMOVE" => manifest[o.target][o.path] \in Entry
  PROVE  /\ RowsAfter(o) \in RowMaps
         /\ \A p \in Paths : manifest[o.target][p] \in Entry /\ p # o.path => RowsAfter(o)[p] \in Entry
<1>1. PICK t \in RowMaps : t = manifest[o.target]
  BY OpFields DEF DrivesAreSound
<1>2. \A p \in Paths : t[p] # None => t[p] \in Entry
  BY DEF RowMaps
<1>3. CASE o.type \in {"COPY", "REPLACE"}
  <2>1. o.path \in Paths /\ o.source \in Drives /\ o.vv \in Vector /\ manifest[o.source][o.path] # None
    BY <1>3, OpFields DEF Applicable
  <2>2. PICK row \in Entry : row = manifest[o.source][o.path]
    BY <2>1 DEF DrivesAreSound, RowMaps
  <2>3. PICK new \in Entry : new = [row EXCEPT !.vv = o.vv]
    BY <2>1, NewVector
  <2>4. RowsAfter(o) = [t EXCEPT ![o.path] = new]
    BY <1>1, <1>3, <2>2, <2>3 DEF RowsAfter
  <2>5. [t EXCEPT ![o.path] = new] \in RowMaps
    BY DEF RowMaps
  <2>6. \A p \in Paths : p # o.path => [t EXCEPT ![o.path] = new][p] = t[p]
    BY DEF RowMaps
  <2> QED
    BY <1>1, <2>4, <2>5, <2>6
<1>4. CASE o.type = "REMOVE"
  <2>1. o.path \in Paths /\ o.vv \in Vector
    BY <1>4, OpFields
  <2>2. PICK row \in Entry : row = t[o.path]
    BY <1>1, <1>2, <1>4, <2>1
  <2>3. PICK new : new = [row EXCEPT !.tombstone = TRUE, !.vv = o.vv]
    OBVIOUS
  <2>4. new \in Entry
    BY <2>1, <2>3, NewTombstone
  <2>5. RowsAfter(o) = [t EXCEPT ![o.path] = new]
    BY <1>1, <1>4, <2>1, <2>2, <2>3 DEF RowsAfter, RowMaps
  <2>6. [t EXCEPT ![o.path] = new] \in RowMaps
    BY <2>4 DEF RowMaps
  <2>7. \A p \in Paths : p # o.path => [t EXCEPT ![o.path] = new][p] = t[p]
    BY DEF RowMaps
  <2> QED
    BY <1>1, <2>5, <2>6, <2>7
<1>5. CASE o.type = "RENAME" /\ t[o.path] # None
  <2>1. o.path \in Paths /\ o.newPath \in Paths /\ o.vv \in Vector
    BY <1>5, OpFields
  <2>2. PICK row \in Entry : row = t[o.path]
    BY <1>2, <1>5, <2>1
  <2>3. PICK new \in Entry : new = [row EXCEPT !.vv = o.vv]
    BY <2>1, NewVector
  <2>4. RowsAfter(o) = [t EXCEPT ![o.newPath] = new, ![o.path] = None]
    BY <1>1, <1>5, <2>2, <2>3 DEF RowsAfter
  <2>5. [t EXCEPT ![o.newPath] = new, ![o.path] = None] \in RowMaps
    BY <2>1 DEF RowMaps
  <2>7. \A p \in Paths : p # o.path =>
          [t EXCEPT ![o.newPath] = new, ![o.path] = None][p] \in {t[p], new}
    BY <2>1 DEF RowMaps
  <2> QED
    BY <1>1, <2>4, <2>5, <2>7
<1>6. CASE o.type = "MKDIR" \/ (o.type = "RENAME" /\ t[o.path] = None)
  <2>1. RowsAfter(o) = t
    BY <1>1, <1>6 DEF RowsAfter
  <2> QED
    BY <1>1, <2>1
<1> QED
  BY <1>3, <1>4, <1>5, <1>6, OpFields

\* A done operation.
LEMMA AfterIsSound ==
  ASSUME DrivesAreSound, NEW o \in Operation, Applicable(o),
         o.type = "REMOVE" => manifest[o.target][o.path] \in Entry
  PROVE  IsSound(After(o)) /\ KeepsRows(o, After(o))
<1>1. FilesAfter(o) \in FileMaps /\ IsTree(FilesAfter(o), DirsAfter(o))
  BY FilesAfterType
<1>2. /\ RowsAfter(o) \in RowMaps
      /\ \A p \in Paths : manifest[o.target][p] \in Entry /\ p # o.path => RowsAfter(o)[p] \in Entry
  BY RowsAfterType
<1>3. DirsAfter(o) \in SUBSET Dirs
  <2>1. CASE o.type = "REMOVE"
    BY <2>1, OpFields, RoomForRemoval DEF DrivesAreSound
  <2>2. CASE o.type # "REMOVE"
    BY <2>2, RoomForDirs DEF Applicable
  <2> QED
    BY <2>1, <2>2
<1>4. After(o).rows = RowsAfter(o)
  BY DEF After, State
<1>5. KeepsRows(o, After(o))
  BY <1>2, <1>4 DEF KeepsRows
<1> QED
  BY <1>1, <1>2, <1>3, <1>5, StateIsSound DEF After

LEMMA HereKeepsRows ==
  ASSUME NEW o, NEW s, s.rows = manifest[o.target]
  PROVE  KeepsRows(o, s)
BY DEF KeepsRows

\* A refused one, of which a rename has made its directories.
LEMMA RefusedIsSound ==
  ASSUME DrivesAreSound, NEW o \in Operation
  PROVE  IsSound(Refused(o)) /\ KeepsRows(o, Refused(o))
<1>1. o.target \in Drives
  BY OpFields
<1>2. PICK here : here = Here(o.target)
  OBVIOUS
<1>3. IsSound(here) /\ here.rows = manifest[o.target] /\ here.files = files[o.target]
  BY <1>1, <1>2, HereIsSound DEF Here, State
<1>4. CASE o.type = "RENAME" /\ ~Obstructed(o)
  <2>1. PICK s : s = [here EXCEPT !.dirs = DirsAfter(o)]
    OBVIOUS
  <2>2. Refused(o) = s
    BY <1>2, <1>4, <2>1 DEF Refused
  <2>3. DirsAfter(o) \in SUBSET Dirs /\ IsTree(files[o.target], DirsAfter(o))
    BY <1>4, RoomForDirs
  <2>4. s.rows = manifest[o.target]
    BY <1>3, <2>1 DEF IsSound
  <2>5. IsSound(s)
    BY <1>3, <2>1, <2>3 DEF IsSound
  <2> QED
    BY <2>2, <2>4, <2>5, HereKeepsRows
<1>5. CASE ~(o.type = "RENAME" /\ ~Obstructed(o))
  <2>1. Refused(o) = here
    BY <1>2, <1>5 DEF Refused
  <2> QED
    BY <1>3, <2>1, HereKeepsRows
<1> QED
  BY <1>4, <1>5

\* One that fails between its calls.
LEMMA MidwayIsSound ==
  ASSUME DrivesAreSound, NEW o \in Operation, Applicable(o),
         o.type = "REMOVE" => manifest[o.target][o.path] \in Entry,
         NEW s \in Midway(o)
  PROVE  IsSound(s) /\ KeepsRows(o, s)
<1>1. PICK old : old = Here(o.target)
  OBVIOUS
<1>2. PICK new : new = After(o)
  OBVIOUS
<1>3. /\ old.files = files[o.target] /\ old.dirs = dirs[o.target] /\ old.rows = manifest[o.target]
      /\ IsSound(old)
  BY <1>1, HereIsSound, OpFields DEF Here, State
<1>4. /\ new.files = FilesAfter(o) /\ new.dirs = DirsAfter(o) /\ new.rows = RowsAfter(o)
      /\ IsSound(new) /\ KeepsRows(o, new)
  BY <1>2, AfterIsSound DEF After, State
<1>5. /\ old.files \in FileMaps /\ old.dirs \in SUBSET Dirs /\ old.rows \in RowMaps
      /\ new.files \in FileMaps /\ new.dirs \in SUBSET Dirs /\ new.rows \in RowMaps
      /\ IsTree(old.files, old.dirs) /\ IsTree(new.files, new.dirs)
  BY <1>3, <1>4 DEF IsSound
<1>6. IsTree(old.files, new.dirs) /\ IsTree(old.files, old.dirs \cup new.dirs)
  <2>1. CASE o.type = "REMOVE"
    <3>1. new.dirs \in SUBSET old.dirs /\ IsTree(old.files, new.dirs)
      BY <1>3, <1>4, <2>1, RoomForRemoval
    <3>2. old.dirs \cup new.dirs = old.dirs
      BY <3>1
    <3> QED
      BY <1>5, <3>1, <3>2
  <2>2. CASE o.type # "REMOVE"
    <3>1. old.dirs \subseteq new.dirs /\ IsTree(old.files, new.dirs)
      BY <1>3, <1>4, <2>2, RoomForDirs DEF Applicable
    <3>2. old.dirs \cup new.dirs = new.dirs
      BY <3>1
    <3> QED
      BY <3>1, <3>2
  <2> QED
    BY <2>1, <2>2
<1>7. \/ \E n \in 0 .. Len(Destination(o)) : s = [old EXCEPT !.dirs = @ \cup {a \in new.dirs : Len(a) <= n}]
      \/ \E f \in {Without(old.files, TmpFile(o)), new.files} : s = State(f, new.dirs, old.rows)
      \/ o.type = "RENAME" /\ s = State(new.files, new.dirs, [old.rows EXCEPT ![o.path] = None])
      \/ o.type = "REMOVE" /\ s = State(old.files, old.dirs, new.rows)
  BY <1>1, <1>2 DEF Midway
<1>8. ASSUME NEW n, s = [old EXCEPT !.dirs = @ \cup {a \in new.dirs : Len(a) <= n}]
      PROVE  IsSound(s) /\ KeepsRows(o, s)
  <2>1. PICK ds : ds = old.dirs \cup {a \in new.dirs : Len(a) <= n}
    OBVIOUS
  <2>2. s = [old EXCEPT !.dirs = ds]
    BY <1>8, <2>1
  <2>3. s.files = old.files /\ s.dirs = ds /\ s.rows = old.rows
    BY <1>3, <2>2 DEF IsSound
  <2>4. ds \in SUBSET Dirs
    BY <1>5, <2>1
  <2>5. IsTree(old.files, ds)
    BY <1>5, <1>6, <2>1 DEF IsTree
  <2>6. s \in [files : FileMaps, dirs : SUBSET Dirs, rows : RowMaps]
    BY <1>3, <2>2, <2>4 DEF IsSound
  <2>7. IsSound(s)
    BY <2>3, <2>5, <2>6 DEF IsSound
  <2> QED
    BY <1>3, <2>3, <2>7, HereKeepsRows
<1>9. ASSUME NEW f \in {Without(old.files, TmpFile(o)), new.files}, s = State(f, new.dirs, old.rows)
      PROVE  IsSound(s) /\ KeepsRows(o, s)
  <2>1. f \in FileMaps /\ IsTree(f, new.dirs)
    <3>1. PICK g : g = Without(old.files, TmpFile(o))
      OBVIOUS
    <3>2. g \in FileMaps /\ \A p \in Paths : g[p] = old.files[p] \/ g[p] = None
      BY <1>5, <3>1, WithoutSome
    <3>3. IsTree(g, new.dirs)
      BY <1>5, <1>6, <3>2, FewerFiles
    <3> QED
      BY <1>5, <3>1, <3>2, <3>3
  <2>2. IsSound(s)
    BY <1>5, <1>9, <2>1, StateIsSound
  <2>3. s.rows = manifest[o.target]
    BY <1>3, <1>9 DEF State
  <2> QED
    BY <2>2, <2>3, HereKeepsRows
<1>10. ASSUME o.type = "RENAME", s = State(new.files, new.dirs, [old.rows EXCEPT ![o.path] = None])
       PROVE  IsSound(s) /\ KeepsRows(o, s)
  <2>1. PICK rows : rows = [old.rows EXCEPT ![o.path] = None]
    OBVIOUS
  <2>2. rows \in RowMaps /\ \A p \in Paths : p # o.path => rows[p] = old.rows[p]
    BY <1>5, <2>1 DEF RowMaps
  <2>3. IsSound(s)
    BY <1>5, <1>10, <2>1, <2>2, StateIsSound
  <2>4. s.rows = rows
    BY <1>10, <2>1 DEF State
  <2>5. KeepsRows(o, s)
    BY <1>3, <2>2, <2>4 DEF KeepsRows
  <2> QED
    BY <2>3, <2>5
<1>11. ASSUME s = State(old.files, old.dirs, new.rows)
       PROVE  IsSound(s) /\ KeepsRows(o, s)
  <2>1. IsSound(s)
    BY <1>5, <1>11, StateIsSound
  <2>2. s.rows = new.rows
    BY <1>11 DEF State
  <2>3. KeepsRows(o, s)
    BY <1>4, <2>2 DEF KeepsRows
  <2> QED
    BY <2>1, <2>3
<1> QED
  BY <1>7, <1>8, <1>9, <1>10, <1>11

\* A copy leaves its temporary file behind, next to the file it is for.
LEMMA LeftoversAreSound ==
  ASSUME DrivesAreSound, NEW o \in Operation, Applicable(o), NEW s \in Leftovers(o)
  PROVE  IsSound(s) /\ KeepsRows(o, s)
<1>1. PICK old : old = Here(o.target)
  OBVIOUS
<1>2. /\ old.files = files[o.target] /\ IsSound(old)
  BY <1>1, HereIsSound, OpFields DEF Here, State
<1>3. PICK x \in TmpFile(o) \X Contents \X Times :
        s = [Here(o.target) EXCEPT !.files[x[1]] = File(x[2], x[3]), !.dirs = DirsAfter(o)]
  BY DEF Leftovers
<1>4. PICK q : q = x[1]
  OBVIOUS
<1>5. PICK file : file = File(x[2], x[3])
  OBVIOUS
<1>6. file \in [content : Contents, mtime : Times]
  BY <1>5 DEF File
<1>7. PICK g : g = [old.files EXCEPT ![q] = file]
  OBVIOUS
<1>8. PICK ds : ds = DirsAfter(o)
  OBVIOUS
<1>9. s = [old EXCEPT !.files = g, !.dirs = ds]
  BY <1>1, <1>3, <1>4, <1>5, <1>7, <1>8
<1>10. q \in TmpFile(o)
  BY <1>4
<1>11. /\ o.type \in {"COPY", "REPLACE"} /\ o.path \in DOMAIN Tmp /\ q = Tmp[o.path]
  BY <1>10 DEF TmpFile
<1>12. q \in Paths /\ q \notin Dirs /\ Parents(q) = Parents(o.path)
  BY <1>11, PathsAssumption
<1>13. ~Obstructed(o) /\ o.type # "REMOVE" /\ Destination(o) = o.path
  BY <1>11 DEF Applicable, Destination
<1>14. ds \in SUBSET Dirs /\ Parents(q) \subseteq ds /\ IsTree(old.files, ds)
  BY <1>2, <1>8, <1>12, <1>13, RoomForDirs
<1>15. old.files \in FileMaps
  BY <1>2 DEF IsSound
<1>16. IsTree(g, ds)
  <2>1. q \notin ds
    BY <1>12, <1>14
  <2> QED
    BY <1>7, <1>12, <1>14, <1>15, <2>1, OneMoreFile
<1>17. g \in FileMaps
  BY <1>6, <1>7, <1>15 DEF FileMaps
<1>18. IsSound(s)
  BY <1>2, <1>9, <1>14, <1>16, <1>17 DEF IsSound
<1>19. s.rows = manifest[o.target]
  BY <1>1, <1>2, <1>9 DEF IsSound, Here, State
<1> QED
  BY <1>18, <1>19, HereKeepsRows

-----------------------------------------------------------------------------
(* The vault                                                               *)

\* What is left of a plan can still be asked of the Executor.
PlanIsSound(ops, m) ==
  /\ ops \in Seq(Operation) /\ OnceEach(ops)
  /\ \A i \in DOMAIN ops :
       /\ ops[i].source # ops[i].target
       /\ ops[i].type = "REMOVE" => m[ops[i].target][ops[i].path] \in Entry

VaultInv ==
  /\ DrivesAreSound /\ PlanIsSound(plan, manifest)
  /\ rounds \in 0 .. 2 /\ budget \in [{"deed", "fault"} -> Nat]

\* Nothing is left to do.
LEMMA EmptyPlanIsSound ==
  ASSUME NEW m
  PROVE  PlanIsSound(<<>>, m)
<1>1. <<>> \in Seq(Operation) /\ DOMAIN <<>> = {}
  OBVIOUS
<1> QED
  BY <1>1 DEF PlanIsSound, OnceEach

\* The rest of a plan, when only the row of its first operation may be gone: no
\* other works on the same path of the same drive.
LEMMA RestIsSound ==
  ASSUME NEW ops, NEW m, NEW n, PlanIsSound(ops, m), ops # <<>>,
         \A d \in Drives, p \in Paths :
           /\ m[d][p] \in Entry
           /\ d # Head(ops).target \/ p # Head(ops).path
           => n[d][p] \in Entry
  PROVE  PlanIsSound(Tail(ops), n)
<1>1. ops \in Seq(Operation)
  BY DEF PlanIsSound
<1>2. PICK l \in Nat : l = Len(ops) /\ DOMAIN ops = 1 .. l
  BY <1>1
<1>3. l # 0
  BY <1>1, <1>2, EmptySeq
<1>4. PICK s \in Seq(Operation) : s = Tail(ops)
  <2>1. Tail(ops) \in Seq(Operation)
    BY <1>1, HeadTailProperties
  <2> QED
    BY <2>1
<1>5. DOMAIN s = 1 .. l - 1 /\ \A i \in 1 .. l - 1 : s[i] = ops[i + 1]
  BY <1>1, <1>2, <1>3, <1>4
<1>6. \A i \in 1 .. l - 1 : i + 1 \in 1 .. l
  OBVIOUS
<1>7. Head(ops) = ops[1] /\ 1 \in 1 .. l
  BY <1>1, <1>2, <1>3
<1>8. ASSUME NEW i \in 1 .. l - 1, NEW j \in 1 .. l - 1,
             s[i].target = s[j].target, s[i].path = s[j].path
      PROVE  i = j
  <2>1. i + 1 = j + 1
    <3>1. s[i] = ops[i + 1] /\ s[j] = ops[j + 1] /\ i + 1 \in 1 .. l /\ j + 1 \in 1 .. l
      BY <1>5, <1>6
    <3> QED
      BY <1>2, <1>8, <3>1 DEF PlanIsSound, OnceEach
  <2> QED
    BY <2>1
<1>9. ASSUME NEW i \in 1 .. l - 1
      PROVE  /\ s[i].source # s[i].target
             /\ s[i].type = "REMOVE" => n[s[i].target][s[i].path] \in Entry
  <2>1. PICK k \in 1 .. l : k = i + 1
    BY <1>6
  <2>2. s[i] = ops[k] /\ k # 1
    BY <1>5, <2>1
  <2>3. ops[k].target # ops[1].target \/ ops[k].path # ops[1].path
    BY <1>2, <1>7, <2>2 DEF PlanIsSound, OnceEach
  <2>4. ops[k] \in Operation
    BY <1>1, <1>2
  <2>5. /\ ops[k].source # ops[k].target
        /\ ops[k].type = "REMOVE" => m[ops[k].target][ops[k].path] \in Entry
    BY <1>2 DEF PlanIsSound
  <2>6. ASSUME ops[k].type = "REMOVE"
        PROVE  n[ops[k].target][ops[k].path] \in Entry
    <3>1. ops[k].target \in Drives /\ ops[k].path \in Paths
      BY <2>4, <2>6, OpFields
    <3> QED
      BY <1>7, <2>3, <2>5, <2>6, <3>1
  <2> QED
    BY <2>2, <2>5, <2>6
<1>10. OnceEach(s)
  BY <1>5, <1>8 DEF OnceEach
<1> QED
  BY <1>4, <1>5, <1>9, <1>10 DEF PlanIsSound

\* The next operation.
LEMMA StepOfPlan ==
  ASSUME VaultInv, plan # <<>>
  PROVE  /\ Head(plan) \in Operation
         /\ Head(plan).type = "REMOVE" => manifest[Head(plan).target][Head(plan).path] \in Entry
<1>1. PICK ops : ops = plan
  OBVIOUS
<1>2. ops \in Seq(Operation) /\ ops # <<>>
  BY <1>1 DEF VaultInv, PlanIsSound
<1>3. PICK l \in Nat : l = Len(ops) /\ DOMAIN ops = 1 .. l
  BY <1>2
<1>4. l # 0
  BY <1>2, <1>3, EmptySeq
<1>5. 1 \in DOMAIN ops /\ Head(ops) = ops[1] /\ ops[1] \in Operation
  BY <1>2, <1>3, <1>4
<1>6. ops[1].type = "REMOVE" => manifest[ops[1].target][ops[1].path] \in Entry
  BY <1>1, <1>5 DEF VaultInv, PlanIsSound
<1> QED
  BY <1>1, <1>5, <1>6

\* The next operation leaves its target sound, and the others possible.
LEMMA NextOfPlan ==
  ASSUME VaultInv, plan # <<>>, NEW s, IsSound(s), KeepsRows(Head(plan), s),
         Become(Head(plan).target, s), plan' = Tail(plan)
  PROVE  DrivesAreSound' /\ PlanIsSound(plan', manifest')
<1>1. PICK o \in Operation : o = Head(plan)
  BY StepOfPlan
<1>2. o.target \in Drives
  BY OpFields
<1>3. DrivesAreSound'
  BY <1>1, <1>2, BecomesSound DEF VaultInv
<1>4. ASSUME NEW d \in Drives, NEW p \in Paths, manifest[d][p] \in Entry, d # o.target \/ p # o.path
      PROVE  manifest'[d][p] \in Entry
  <2>1. manifest'[d] = IF d = o.target THEN s.rows ELSE manifest[d]
    BY <1>1 DEF Become, VaultInv, DrivesAreSound
  <2> QED
    BY <1>1, <1>4, <2>1 DEF KeepsRows
<1>5. PICK m : m = manifest
  OBVIOUS
<1>6. PICK n : n = manifest'
  OBVIOUS
<1>7. PlanIsSound(plan, m)
  BY <1>5 DEF VaultInv
<1>8. \A d \in Drives, p \in Paths :
        m[d][p] \in Entry /\ (d # Head(plan).target \/ p # Head(plan).path) => n[d][p] \in Entry
  BY <1>1, <1>4, <1>5, <1>6
<1>9. PlanIsSound(Tail(plan), n)
  BY <1>7, <1>8, RestIsSound
<1> QED
  BY <1>3, <1>6, <1>9

LEMMA Spending ==
  ASSUME NEW what \in {"deed", "fault"}, budget \in [{"deed", "fault"} -> Nat], Spend(what)
  PROVE  budget' \in [{"deed", "fault"} -> Nat]
<1>1. budget[what] \in Nat /\ budget[what] > 0
  BY DEF Spend
<1>2. budget[what] - 1 \in Nat
  BY <1>1
<1> QED
  BY <1>2 DEF Spend

-----------------------------------------------------------------------------
(* The rows that a scan, a resolution and the start write                  *)

LEMMA RowType ==
  ASSUME NEW hash \in Contents, NEW mtime \in Times, NEW b \in BOOLEAN, NEW vv \in Vector
  PROVE  Row(hash, mtime, b, vv) \in Entry
BY DEF Row, Entry

LEMMA IncrementType ==
  ASSUME NEW v \in Vector, NEW d \in Drives
  PROVE  Increment(v, d) \in Vector
BY DEF Vector, Increment

LEMMA MarkType ==
  ASSUME NEW row \in Entry, NEW b \in BOOLEAN, NEW new, new = [row EXCEPT !.tombstone = b]
  PROVE  new \in Entry
BY DEF Entry

LEMMA ScannedType ==
  ASSUME DrivesAreSound, NEW d \in Drives, NEW p \in Paths, NEW unreadable
  PROVE  Scanned(d, p, unreadable) \in {None} \cup Entry
<1>1. PICK row \in {None} \cup Entry : row = manifest[d][p]
  BY DEF DrivesAreSound, RowMaps
<1>2. PICK file \in {None} \cup [content : Contents, mtime : Times] : file = files[d][p]
  BY DEF DrivesAreSound, FileMaps
<1>3. FALSE \in BOOLEAN /\ TRUE \in BOOLEAN
  OBVIOUS
<1>4. Zero \in Vector
  BY DEF Zero, Vector
<1>5. ASSUME file # None
      PROVE  FoundFile(file, row) \in Entry
  <2>1. file.content \in Contents /\ file.mtime \in Times
    BY <1>5
  <2>2. CASE row = None
    <3>1. FoundFile(file, row) = Row(file.content, file.mtime, FALSE, Zero)
      BY <2>2 DEF FoundFile
    <3>2. Row(file.content, file.mtime, FALSE, Zero) \in Entry
      BY <1>3, <1>4, <2>1, RowType
    <3> QED
      BY <3>1, <3>2
  <2>3. CASE row # None /\ row.mtime = file.mtime
    <3>1. PICK new : new = [row EXCEPT !.tombstone = FALSE]
      OBVIOUS
    <3>2. FoundFile(file, row) = new
      BY <2>3, <3>1 DEF FoundFile
    <3>3. row \in Entry
      BY <2>3
    <3>4. new \in Entry
      BY <1>3, <3>1, <3>3, MarkType
    <3> QED
      BY <3>2, <3>4
  <2>4. CASE row # None /\ row.mtime # file.mtime
    <3>1. FoundFile(file, row) = Row(file.content, file.mtime, FALSE, row.vv)
      BY <2>4 DEF FoundFile
    <3>2. row.vv \in Vector
      BY <2>4 DEF Entry
    <3>3. Row(file.content, file.mtime, FALSE, row.vv) \in Entry
      BY <1>3, <2>1, <3>2, RowType
    <3> QED
      BY <3>1, <3>3
  <2> QED
    BY <2>2, <2>3, <2>4
<1>6. ASSUME row # None
      PROVE  MarkDeleted(d, row) \in Entry
  <2>1. row \in Entry /\ row.vv \in Vector
    BY <1>6 DEF Entry
  <2>2. PICK v \in Vector : v = Increment(row.vv, d)
    BY <2>1, IncrementType
  <2>3. PICK new : new = [row EXCEPT !.tombstone = TRUE, !.vv = v]
    OBVIOUS
  <2>4. MarkDeleted(d, row) = new
    BY <2>2, <2>3 DEF MarkDeleted
  <2>5. new \in Entry
    BY <1>3, <2>1, <2>3, NewTombstone
  <2> QED
    BY <2>4, <2>5
<1>7. \/ Scanned(d, p, unreadable) = FoundFile(file, row) /\ file # None
      \/ Scanned(d, p, unreadable) = MarkDeleted(d, row) /\ row # None
      \/ Scanned(d, p, unreadable) = row
  BY <1>1, <1>2 DEF Scanned, IsLive
<1> QED
  BY <1>5, <1>6, <1>7

LEMMA ResolvedType ==
  ASSUME DrivesAreSound, NEW p \in Paths, NEW connected \in SUBSET Drives, NEW useDrive \in connected,
         manifest[useDrive][p] # None, NEW reached
  PROVE  Resolved(p, useDrive, connected, reached) \in [Drives -> RowMaps]
<1>1. PICK m : m = [d \in connected |-> manifest[d]]
  OBVIOUS
<1>2. /\ DOMAIN m = connected /\ \A d \in connected : m[d] = manifest[d]
      /\ \A d \in connected : manifest[d] \in RowMaps
  BY <1>1 DEF DrivesAreSound
<1>3. AreManifests(m)
  BY <1>2 DEF AreManifests, RowMaps
<1>4. PICK rows : rows = {manifest[d][p] : d \in connected} \ {None}
  OBVIOUS
<1>5. rows # {} /\ \A r \in rows : r # None /\ \E d \in connected : r = m[d][p] \/ r = m[d][p]
  BY <1>2, <1>4
<1>6. connected \in SUBSET DOMAIN m
  BY <1>2
<1>7. MergedVector(rows) \in Vector
  BY <1>3, <1>5, <1>6, RowsVector
<1>8. PICK v \in Vector : v = Increment(MergedVector(rows), useDrive)
  BY <1>7, IncrementType
<1>9. PICK row \in Entry : row = manifest[useDrive][p]
  BY <1>2 DEF RowMaps
<1>10. PICK new \in Entry : new = [row EXCEPT !.vv = v]
  BY NewVector
<1>11. Resolved(p, useDrive, connected, reached) =
         [d \in Drives |-> IF d \in reached THEN [manifest[d] EXCEPT ![p] = new] ELSE manifest[d]]
  BY <1>4, <1>8, <1>9, <1>10 DEF Resolved
<1>12. \A d \in Drives : manifest[d] \in RowMaps /\ [manifest[d] EXCEPT ![p] = new] \in RowMaps
  BY DEF DrivesAreSound, RowMaps
<1> QED
  BY <1>11, <1>12

LEMMA StartRowType ==
  ASSUME NEW d \in Drives, NEW row \in StartRows(d)
  PROVE  row \in Entry
<1>1. ASSUME NEW vv \in StartVector(d)
      PROVE  vv \in Vector
  <2>1. PICK k \in StartClocks : vv = [Zero EXCEPT ![d] = k]
    BY DEF StartVector
  <2>2. k \in Nat
    BY VaultAssumption
  <2> QED
    BY <2>1, <2>2 DEF Zero, Vector
<1>2. /\ row \in [hash : Contents, mtime : Times, tombstone : BOOLEAN, vv : StartVector(d)]
  BY DEF StartRows
<1> QED
  BY <1>1, <1>2 DEF Entry

LEMMA StartFileType ==
  ASSUME NEW row \in {None} \cup Entry
  PROVE  StartFile(row) \in {None} \cup [content : Contents, mtime : Times]
<1>1. CASE row = None
  BY <1>1 DEF StartFile
<1>2. CASE row # None
  <2>1. row.hash \in Contents /\ row.mtime \in Times
    BY <1>2 DEF Entry
  <2>2. File(row.hash, row.mtime) \in [content : Contents, mtime : Times]
    BY <2>1 DEF File
  <2> QED
    BY <1>2, <2>2 DEF StartFile
<1> QED
  BY <1>1, <1>2

\* Drives start with rows of their own and with the directories of their files.
LEMMA VaultInit ==
  ASSUME Init
  PROVE  VaultInv
<1>1. PICK rows \in [Drives -> [Paths \ Range(Tmp) -> {None} \cup UNION {StartRows(d) : d \in Drives}]] :
        /\ \A d \in Drives : Range(rows[d]) \subseteq {None} \cup StartRows(d)
        /\ manifest = [d \in Drives |->
                         [p \in Paths |-> IF p \in Range(Tmp) THEN None ELSE rows[d][p]]]
  BY DEF Init
<1>2. ASSUME NEW d \in Drives, NEW p \in Paths
      PROVE  manifest[d][p] \in {None} \cup Entry
  <2>1. CASE p \in Range(Tmp)
    BY <1>1, <2>1
  <2>2. CASE p \notin Range(Tmp)
    <3>1. manifest[d][p] = rows[d][p]
      BY <1>1, <2>2
    <3>2. p \in DOMAIN rows[d]
      BY <1>1, <2>2
    <3>3. rows[d][p] \in Range(rows[d])
      BY <3>2 DEF Range
    <3>4. rows[d][p] \in {None} \cup StartRows(d)
      BY <1>1, <3>3
    <3> QED
      BY <3>1, <3>4, StartRowType
  <2> QED
    BY <2>1, <2>2
<1>3. manifest \in [Drives -> RowMaps]
  <2>1. ASSUME NEW d \in Drives
        PROVE  manifest[d] \in RowMaps
    <3>1. PICK t : t = manifest[d]
      OBVIOUS
    <3>2. t = [p \in Paths |-> IF p \in Range(Tmp) THEN None ELSE rows[d][p]]
      BY <1>1, <3>1
    <3>3. \A p \in Paths : t[p] \in {None} \cup Entry
      BY <1>2, <3>1
    <3> QED
      BY <3>1, <3>2, <3>3 DEF RowMaps
  <2> QED
    BY <1>1, <2>1
<1>4. files = [d \in Drives |-> [p \in Paths |-> StartFile(manifest[d][p])]]
  BY DEF Init
<1>5. \A d \in Drives, p \in Paths : StartFile(manifest[d][p]) \in {None} \cup [content : Contents, mtime : Times]
  BY <1>2, StartFileType
<1>6. files \in [Drives -> FileMaps]
  BY <1>4, <1>5 DEF FileMaps
<1>7. dirs = [d \in Drives |-> ParentsOf(files[d])]
  BY DEF Init
<1>8. ASSUME NEW d \in Drives
      PROVE  dirs[d] \in SUBSET Dirs /\ IsTree(files[d], dirs[d])
  <2>1. PICK f : f = files[d]
    OBVIOUS
  <2>2. \A p \in Paths : f[p] # None => Fits(f, p)
    BY <2>1 DEF Init
  <2>3. dirs[d] = ParentsOf(f) \cup {a \in {} : \A p \in Paths : f[p] # None => p # a /\ ~Below(a, p)}
    BY <1>7, <2>1
  <2>4. IsTree(f, dirs[d])
    BY <2>2, <2>3, FittingFiles
  <2>5. ParentsOf(f) \subseteq Dirs
    BY ParentsOfFiles, ParentsAreDirs
  <2> QED
    BY <1>7, <2>1, <2>4, <2>5
<1>9. dirs \in [Drives -> SUBSET Dirs]
  BY <1>7, <1>8
<1>10. PlanIsSound(plan, manifest)
  BY EmptyPlanIsSound DEF Init
<1>11. rounds \in 0 .. 2 /\ budget \in [{"deed", "fault"} -> Nat]
  BY VaultAssumption DEF Init
<1> QED
  BY <1>3, <1>6, <1>8, <1>9, <1>10, <1>11 DEF VaultInv, DrivesAreSound

\* Steps that leave the drives alone but for one manifest.
LEMMA NewRowsAreSound ==
  ASSUME DrivesAreSound, NEW m \in [Drives -> RowMaps], manifest' = m, UNCHANGED <<files, dirs>>
  PROVE  DrivesAreSound'
BY DEF DrivesAreSound

LEMMA NothingPlanned ==
  ASSUME plan' = <<>>
  PROVE  PlanIsSound(plan', manifest')
BY EmptyPlanIsSound

\* Sync counts rounds up to 2.
LEMMA MostTwice ==
  ASSUME NEW n \in 0 .. 2
  PROVE  Min({n + 1, 2}) \in 0 .. 2
<1>1. {n + 1, 2} \subseteq Nat
  OBVIOUS
<1>2. Min({n + 1, 2}) \in {n + 1, 2} /\ \A x \in {n + 1, 2} : Min({n + 1, 2}) <= x
  BY <1>1, LeastChosen
<1>3. PICK k : k = Min({n + 1, 2})
  OBVIOUS
<1>4. k \in {n + 1, 2} /\ k <= 2
  BY <1>2, <1>3
<1>5. k \in 0 .. 2
  BY <1>4
<1> QED
  BY <1>3, <1>5

-----------------------------------------------------------------------------
(* The steps                                                               *)

\* do_scan, whole or cut short, and rebuild_from_filesystem.
LEMMA ScanKeepsTypes ==
  ASSUME VaultInv, NEW d \in Drives,
         \/ \E unreadable \in SUBSET Paths : Scan(d, unreadable)
         \/ ScanFallsShort(d) \/ Rebuild(d)
  PROVE  VaultInv'
<1>0. DrivesAreSound /\ rounds \in 0 .. 2 /\ budget \in [{"deed", "fault"} -> Nat]
  BY DEF VaultInv
<1>1. plan' = <<>> /\ UNCHANGED <<files, dirs>>
  BY DEF Scan, ScanFallsShort, Rebuild
<1>2. rounds' \in 0 .. 2
  BY <1>0 DEF Scan, ScanFallsShort, Rebuild, Disturb
<1>3. budget' \in [{"deed", "fault"} -> Nat]
  <2>1. UNCHANGED budget \/ Spend("fault")
    BY DEF Scan, ScanFallsShort, Rebuild, Suffer
  <2> QED
    BY <1>0, <2>1, Spending
<1>4. PICK t \in RowMaps : manifest' = [manifest EXCEPT ![d] = t]
  <2>1. manifest[d] \in RowMaps
    BY <1>0 DEF DrivesAreSound
  <2>2. CASE \E unreadable \in SUBSET Paths : Scan(d, unreadable)
    <3>1. PICK unreadable \in SUBSET Paths : Scan(d, unreadable)
      BY <2>2
    <3>2. \A p \in Paths : Scanned(d, p, unreadable) \in {None} \cup Entry
      BY <1>0, ScannedType
    <3>3. [p \in Paths |-> Scanned(d, p, unreadable)] \in RowMaps
      BY <3>2 DEF RowMaps
    <3> QED
      BY <3>1, <3>3 DEF Scan
  <2>3. CASE ScanFallsShort(d)
    <3>1. PICK done \in SUBSET Paths : manifest' = [manifest EXCEPT ![d] =
            [p \in Paths |-> IF p \in done THEN Scanned(d, p, {}) ELSE @[p]]]
      BY <2>3 DEF ScanFallsShort
    <3>2. PICK old \in RowMaps : old = manifest[d]
      BY <2>1
    <3>3. \A p \in Paths : Scanned(d, p, {}) \in {None} \cup Entry
      BY <1>0, ScannedType
    <3>4. PICK t : t = [p \in Paths |-> IF p \in done THEN Scanned(d, p, {}) ELSE old[p]]
      OBVIOUS
    <3>5. t \in RowMaps
      BY <3>3, <3>4 DEF RowMaps
    <3>6. manifest' = [manifest EXCEPT ![d] = t]
      BY <1>0, <3>1, <3>2, <3>4 DEF DrivesAreSound
    <3> QED
      BY <3>5, <3>6
  <2>4. CASE Rebuild(d)
    <3>1. [p \in Paths |-> None] \in RowMaps
      BY DEF RowMaps
    <3> QED
      BY <2>4, <3>1 DEF Rebuild
  <2> QED
    BY <2>2, <2>3, <2>4
<1>5. PICK m \in [Drives -> RowMaps] : manifest' = m
  <2>1. [manifest EXCEPT ![d] = t] \in [Drives -> RowMaps]
    BY <1>0 DEF DrivesAreSound
  <2> QED
    BY <1>4, <2>1
<1>6. DrivesAreSound'
  BY <1>0, <1>1, <1>5, NewRowsAreSound
<1>7. PlanIsSound(plan', manifest')
  BY <1>1, NothingPlanned
<1> QED
  BY <1>2, <1>3, <1>6, <1>7 DEF VaultInv

\* do_resolve, whole or cut short.
LEMMA ResolveKeepsTypes ==
  ASSUME VaultInv, NEW p \in Paths, NEW useDrive \in Drives, NEW connected \in SUBSET Drives,
         Resolves(p, useDrive, connected) \/ ResolveDies(p, useDrive, connected)
  PROVE  VaultInv'
<1>0. DrivesAreSound /\ rounds \in 0 .. 2 /\ budget \in [{"deed", "fault"} -> Nat]
  BY DEF VaultInv
<1>1. plan' = <<>> /\ UNCHANGED <<files, dirs>>
  BY DEF Resolves, ResolveDies, MayResolve
<1>2. rounds' \in 0 .. 2
  BY DEF Resolves, ResolveDies, Disturb
<1>3. budget' \in [{"deed", "fault"} -> Nat]
  <2>1. Spend("deed") \/ Spend("fault")
    BY DEF Resolves, ResolveDies, Do, Suffer
  <2> QED
    BY <1>0, <2>1, Spending
<1>4. useDrive \in connected /\ manifest[useDrive][p] # None
  BY DEF Resolves, ResolveDies, MayResolve
<1>5. PICK reached : manifest' = Resolved(p, useDrive, connected, reached)
  BY DEF Resolves, ResolveDies
<1>6. PICK m \in [Drives -> RowMaps] : manifest' = m
  BY <1>0, <1>4, <1>5, ResolvedType
<1>7. DrivesAreSound'
  BY <1>0, <1>1, <1>6, NewRowsAreSound
<1>8. PlanIsSound(plan', manifest')
  BY <1>1, NothingPlanned
<1> QED
  BY <1>2, <1>3, <1>7, <1>8 DEF VaultInv

\* do_sync up to the plan.
LEMMA SyncKeepsTypes ==
  ASSUME VaultInv, NEW connected \in SUBSET Drives, Sync(connected)
  PROVE  VaultInv'
<1>0. DrivesAreSound /\ rounds \in 0 .. 2 /\ budget \in [{"deed", "fault"} -> Nat]
  BY DEF VaultInv
<1>1. PICK m : m = [d \in connected |-> manifest[d]] /\ plan' \in Plans(m)
  BY DEF Sync
<1>2. AreManifests(m)
  <2>1. DOMAIN m = connected /\ \A d \in connected : m[d] = manifest[d]
    BY <1>1
  <2> QED
    BY <1>0, <2>1 DEF AreManifests, DrivesAreSound, RowMaps
<1>3. PICK ops \in Plans(m) : ops = plan'
  BY <1>1
<1>4. ops \in Seq(SoundOps(m) \cup SoundDirOps) /\ OnceEach(ops)
  BY <1>2, <1>3, PlansAreSound
<1>5. \A o \in SoundOps(m) \cup SoundDirOps :
        /\ o \in Operation /\ o.source # o.target
        /\ o.type = "REMOVE" => manifest[o.target][o.path] \in Entry
  <2>1. ASSUME NEW o \in SoundOps(m)
        PROVE  /\ o \in Operation /\ o.source # o.target
               /\ o.type = "REMOVE" => manifest[o.target][o.path] \in Entry
    <3>1. o \in FileOps(Drives, Vector)
      BY DEF SoundOps
    <3>2. o \in Operation
      BY <3>1 DEF FileOps, Operation
    <3>3. ASSUME o.type = "REMOVE"
          PROVE  manifest[o.target][o.path] \in Entry
      <4>1. o.target \in DOMAIN m /\ m[o.target][o.path] # None
        BY <3>3 DEF SoundOps
      <4>2. o.target \in connected /\ m[o.target] = manifest[o.target]
        BY <1>1, <4>1
      <4>3. o.path \in Paths
        BY <3>1, FileOpFields
      <4> QED
        BY <1>2, <4>1, <4>2, <4>3 DEF AreManifests
    <3> QED
      BY <3>2, <3>3 DEF SoundOps
  <2>2. ASSUME NEW o \in SoundDirOps
        PROVE  o \in Operation /\ o.source # o.target /\ o.type # "REMOVE"
    <3>1. o \in DirOps(Drives, Vector) /\ o.source # o.target
      BY DEF SoundDirOps
    <3>2. o.type = "MKDIR"
      BY <3>1, DirOpFields
    <3>3. o \in Operation
      BY <3>1 DEF DirOps, Operation
    <3> QED
      BY <3>1, <3>2, <3>3
  <2> QED
    BY <2>1, <2>2
<1>6. ops \in Seq(Operation)
  BY <1>4, <1>5, SeqMonotonic
<1>7. \A i \in DOMAIN ops : ops[i] \in SoundOps(m) \cup SoundDirOps
  BY <1>4
<1>8. PICK rows : rows = manifest
  OBVIOUS
<1>9. PlanIsSound(ops, rows)
  BY <1>4, <1>5, <1>6, <1>7, <1>8 DEF PlanIsSound
<1>10. UNCHANGED <<files, dirs, manifest, budget>>
  BY DEF Sync
<1>11. rounds' \in 0 .. 2
  <2>1. rounds' = Min({rounds + 1, 2}) \/ rounds' = 0
    BY DEF Sync
  <2>2. PICK n \in 0 .. 2 : n = rounds
    BY <1>0
  <2>3. Min({n + 1, 2}) \in 0 .. 2
    BY MostTwice
  <2> QED
    BY <2>1, <2>2, <2>3
<1>12. manifest' \in [Drives -> RowMaps]
  BY <1>0, <1>10 DEF DrivesAreSound
<1>13. DrivesAreSound'
  BY <1>0, <1>10, <1>12, NewRowsAreSound
<1>14. plan' = ops /\ manifest' = rows
  BY <1>3, <1>8, <1>10
<1>15. PlanIsSound(plan', manifest')
  BY <1>9, <1>14
<1> QED
  BY <1>0, <1>10, <1>11, <1>13, <1>15 DEF VaultInv

\* An operation is carried out, fails or dies.
LEMMA ExecutionKeepsTypes ==
  ASSUME VaultInv, Execute \/ ExecuteFails \/ Crash
  PROVE  VaultInv'
<1>0. DrivesAreSound /\ rounds \in 0 .. 2 /\ budget \in [{"deed", "fault"} -> Nat]
  BY DEF VaultInv
<1>1. plan # <<>>
  BY DEF Execute, ExecuteFails, Crash
<1>2. PICK o \in Operation : /\ o = Head(plan)
                             /\ o.type = "REMOVE" => manifest[o.target][o.path] \in Entry
  BY <1>1, StepOfPlan
<1>3. rounds' \in 0 .. 2
  BY <1>0 DEF Execute, ExecuteFails, Crash, Disturb
<1>4. budget' \in [{"deed", "fault"} -> Nat]
  <2>1. UNCHANGED budget \/ Spend("fault")
    BY DEF Execute, ExecuteFails, Crash, Suffer
  <2> QED
    BY <1>0, <2>1, Spending
<1>5. DrivesAreSound' /\ PlanIsSound(plan', manifest')
  <2>1. CASE Execute
    <3>1. Applicable(o) /\ Become(o.target, After(o)) /\ plan' = Tail(plan)
      BY <1>2, <2>1 DEF Execute
    <3>2. IsSound(After(o)) /\ KeepsRows(o, After(o))
      BY <1>0, <1>2, <3>1, AfterIsSound
    <3> QED
      BY <1>1, <1>2, <3>1, <3>2, NextOfPlan
  <2>2. CASE ExecuteFails
    <3>1. plan' = Tail(plan)
      BY <2>2 DEF ExecuteFails
    <3>2. PICK s : IsSound(s) /\ KeepsRows(o, s) /\ Become(o.target, s)
      <4>1. \/ Become(o.target, Refused(o))
            \/ Applicable(o) /\ \E state \in Midway(o) \cup Leftovers(o) : Become(o.target, state)
        BY <1>2, <2>2 DEF ExecuteFails
      <4>2. IsSound(Refused(o)) /\ KeepsRows(o, Refused(o))
        BY <1>0, RefusedIsSound
      <4>3. Applicable(o) => \A state \in Midway(o) : IsSound(state) /\ KeepsRows(o, state)
        BY <1>0, <1>2, MidwayIsSound
      <4>4. Applicable(o) => \A state \in Leftovers(o) : IsSound(state) /\ KeepsRows(o, state)
        BY <1>0, LeftoversAreSound
      <4> QED
        BY <4>1, <4>2, <4>3, <4>4
    <3> QED
      BY <1>1, <1>2, <3>1, <3>2, NextOfPlan
  <2>3. CASE Crash
    <3>1. plan' = <<>>
      BY <2>3 DEF Crash
    <3>2. o.target \in Drives
      BY OpFields
    <3>3. PICK s : IsSound(s) /\ Become(o.target, s)
      <4>1. PICK state \in {Here(o.target)} \cup IF Applicable(o) THEN Midway(o) \cup Leftovers(o) ELSE {} :
              Become(o.target, state)
        BY <1>2, <2>3 DEF Crash
      <4>2. CASE state = Here(o.target)
        BY <1>0, <3>2, <4>1, <4>2, HereIsSound
      <4>3. CASE Applicable(o) /\ state \in Midway(o)
        BY <1>0, <1>2, <4>1, <4>3, MidwayIsSound
      <4>4. CASE Applicable(o) /\ state \in Leftovers(o)
        BY <1>0, <4>1, <4>4, LeftoversAreSound
      <4> QED
        BY <4>1, <4>2, <4>3, <4>4
    <3>4. DrivesAreSound'
      BY <1>0, <3>2, <3>3, BecomesSound
    <3>5. PlanIsSound(plan', manifest')
      BY <3>1, NothingPlanned
    <3> QED
      BY <3>4, <3>5
  <2> QED
    BY <2>1, <2>2, <2>3
<1> QED
  BY <1>3, <1>4, <1>5 DEF VaultInv

\* The user makes the files of a drive f.
LEMMA ChangeKeepsTypes ==
  ASSUME VaultInv, NEW d \in Drives, NEW f \in FileMaps, NEW changes, Changed(d, f, changes),
         budget' \in [{"deed", "fault"} -> Nat]
  PROVE  VaultInv'
<1>0. DrivesAreSound /\ PlanIsSound(plan, manifest)
  BY DEF VaultInv
<1>1. /\ files' = [files EXCEPT ![d] = f]
      /\ \A p \in Paths : f[p] # None => Fits(f, p)
      /\ rounds' = 0 /\ UNCHANGED <<manifest, plan>>
  BY DEF Changed
<1>2. PICK old \in SUBSET Dirs : old = dirs[d]
  BY <1>0 DEF DrivesAreSound
<1>3. PICK more : more = ParentsOf(f) \cup {a \in old : \A p \in Paths : f[p] # None => p # a /\ ~Below(a, p)}
  OBVIOUS
<1>4. dirs' = [dirs EXCEPT ![d] = more]
  BY <1>0, <1>2, <1>3 DEF Changed, DrivesAreSound
<1>5. IsTree(f, more)
  BY <1>1, <1>3, FittingFiles
<1>6. more \in SUBSET Dirs
  <2>1. ParentsOf(f) \subseteq Dirs
    BY ParentsOfFiles, ParentsAreDirs
  <2> QED
    BY <1>3, <2>1
<1>7. files' \in [Drives -> FileMaps] /\ dirs' \in [Drives -> SUBSET Dirs] /\ manifest' \in [Drives -> RowMaps]
  BY <1>0, <1>1, <1>4, <1>6 DEF DrivesAreSound
<1>8. ASSUME NEW e \in Drives
      PROVE  IsTree(files'[e], dirs'[e])
  <2>1. \/ files'[e] = f /\ dirs'[e] = more
        \/ files'[e] = files[e] /\ dirs'[e] = dirs[e]
    BY <1>0, <1>1, <1>4 DEF DrivesAreSound
  <2> QED
    BY <1>0, <1>5, <2>1 DEF DrivesAreSound
<1>9. DrivesAreSound'
  BY <1>7, <1>8 DEF DrivesAreSound
<1>10. PlanIsSound(plan', manifest')
  BY <1>0, <1>1
<1> QED
  BY <1>1, <1>9, <1>10 DEF VaultInv

LEMMA UserKeepsTypes ==
  ASSUME VaultInv, NEW d \in Drives, NEW p \in Paths,
         \/ \E content \in Contents, mtime \in Times : UserWrite(d, p, content, mtime)
         \/ UserDelete(d, p)
         \/ \E newPath \in Paths : UserMove(d, p, newPath)
  PROVE  VaultInv'
<1>0. DrivesAreSound /\ budget \in [{"deed", "fault"} -> Nat]
  BY DEF VaultInv
<1>1. budget' \in [{"deed", "fault"} -> Nat]
  <2>1. Spend("deed")
    BY DEF UserWrite, UserDelete, UserMove, Do
  <2> QED
    BY <1>0, <2>1, Spending
<1>2. PICK old \in FileMaps : old = files[d]
  BY <1>0 DEF DrivesAreSound
<1>3. PICK f \in FileMaps : \E changes : Changed(d, f, changes)
  <2>1. CASE \E content \in Contents, mtime \in Times : UserWrite(d, p, content, mtime)
    <3>1. PICK content \in Contents, mtime \in Times : UserWrite(d, p, content, mtime)
      BY <2>1
    <3>2. Changed(d, [old EXCEPT ![p] = File(content, mtime)], {Lone("user", p, content)})
      BY <1>2, <3>1 DEF UserWrite
    <3>3. PICK file : file = File(content, mtime)
      OBVIOUS
    <3>4. file \in [content : Contents, mtime : Times]
      BY <3>3 DEF File
    <3>5. [old EXCEPT ![p] = file] \in FileMaps
      BY <3>4 DEF FileMaps
    <3> QED
      BY <3>2, <3>3, <3>5
  <2>2. CASE UserDelete(d, p)
    <3>1. Changed(d, [old EXCEPT ![p] = None], {Lone("user", p, None)})
      BY <1>2, <2>2 DEF UserDelete
    <3>2. [old EXCEPT ![p] = None] \in FileMaps
      BY DEF FileMaps
    <3> QED
      BY <3>1, <3>2
  <2>3. CASE \E newPath \in Paths : UserMove(d, p, newPath)
    <3>1. PICK newPath \in Paths : UserMove(d, p, newPath)
      BY <2>3
    <3>2. Changed(d, [old EXCEPT ![newPath] = old[p], ![p] = None],
             {Lone("user", p, None), Lone("user", newPath, Content(d, p))})
      BY <1>2, <3>1 DEF UserMove
    <3>3. [old EXCEPT ![newPath] = old[p], ![p] = None] \in FileMaps
      BY DEF FileMaps
    <3> QED
      BY <3>2, <3>3
  <2> QED
    BY <2>1, <2>2, <2>3
<1>4. PICK changes : Changed(d, f, changes)
  BY <1>3
<1> QED
  BY <1>1, <1>4, ChangeKeepsTypes

LEMMA VaultStep ==
  ASSUME VaultInv, [Next]_vars
  PROVE  VaultInv'
<1>1. ASSUME NEW d \in Drives, NEW unreadable \in SUBSET Paths, Scan(d, unreadable)
      PROVE  VaultInv'
  BY <1>1, ScanKeepsTypes
<1>2. ASSUME NEW d \in Drives, ScanFallsShort(d) \/ Rebuild(d)
      PROVE  VaultInv'
  BY <1>2, ScanKeepsTypes
<1>3. ASSUME NEW connected \in SUBSET Drives, Sync(connected)
      PROVE  VaultInv'
  BY <1>3, SyncKeepsTypes
<1>4. CASE Execute \/ ExecuteFails \/ Crash
  BY <1>4, ExecutionKeepsTypes
<1>5. ASSUME NEW p \in Paths, NEW useDrive \in Drives, NEW connected \in SUBSET Drives,
             Resolves(p, useDrive, connected) \/ ResolveDies(p, useDrive, connected)
      PROVE  VaultInv'
  BY <1>5, ResolveKeepsTypes
<1>6. ASSUME NEW d \in Drives, NEW p \in Paths,
             \/ \E content \in Contents, mtime \in Times : UserWrite(d, p, content, mtime)
             \/ UserDelete(d, p)
             \/ \E newPath \in Paths : UserMove(d, p, newPath)
      PROVE  VaultInv'
  BY <1>6, UserKeepsTypes
<1>7. CASE UNCHANGED vars
  BY <1>7 DEF vars, VaultInv, DrivesAreSound, PlanIsSound, OnceEach
<1> QED
  BY <1>1, <1>2, <1>3, <1>4, <1>5, <1>6, <1>7 DEF Next

LEMMA VaultInvIsEnough ==
  ASSUME VaultInv
  PROVE  TypeOK
<1>1. DrivesAreSound /\ PlanIsSound(plan, manifest)
  BY DEF VaultInv
<1>2. ASSUME NEW d \in Drives
      PROVE  /\ ParentsOf(files[d]) \subseteq dirs[d]
             /\ \A p \in dirs[d] \cap Paths : files[d][p] = None
  <2>1. IsTree(files[d], dirs[d])
    BY <1>1 DEF DrivesAreSound
  <2> QED
    BY <2>1, ParentsOfFiles DEF IsTree
<1>3. files \in [Drives -> [Paths -> {None} \cup [content : Contents, mtime : Times]]]
  BY <1>1 DEF DrivesAreSound, FileMaps
<1>4. manifest \in [Drives -> [Paths -> {None} \cup Entry]]
  BY <1>1 DEF DrivesAreSound, RowMaps
<1>5. /\ plan \in Seq(Operation)
      /\ \A i \in DOMAIN plan :
           /\ plan[i].source # plan[i].target
           /\ plan[i].type = "REMOVE" => manifest[plan[i].target][plan[i].path] \in Entry
  BY <1>1 DEF PlanIsSound
<1>6. dirs \in [Drives -> SUBSET Dirs]
  BY <1>1 DEF DrivesAreSound
<1> QED
  BY <1>2, <1>3, <1>4, <1>5, <1>6 DEF TypeOK, VaultInv

\* Whatever the user does to the files and whatever fails or dies, from scan to
\* sync, resolve and back: manifests hold rows with whole vectors, the plan only
\* operations from one drive to another, and files stay in directories.
THEOREM VaultTypes == Spec => []TypeOK
<1>1. Init => VaultInv
  BY VaultInit
<1>2. VaultInv /\ [Next]_vars => VaultInv'
  BY VaultStep
<1>3. VaultInv => TypeOK
  BY VaultInvIsEnough
<1> QED
  BY <1>1, <1>2, <1>3, PTL DEF Spec

-----------------------------------------------------------------------------
(* What undisturbed syncs achieve                                          *)

\* No sync that counts renames anything, and no temporary file lies about.
PlainSyncs ==
  rounds > 0 =>
    /\ \A i \in DOMAIN plan : plan[i].type # "RENAME"
    /\ \A d \in Drives, p \in Range(Tmp) : files[d][p] = None

\* No sync at all does, whether it counts or not.
QuietSyncs ==
  /\ \A i \in DOMAIN plan : plan[i].type # "RENAME"
  /\ \A d \in Drives, p \in Range(Tmp) : files[d][p] = None

\* The plan is what plan_sync found for the paths, plus MKDIRs.
HasAllOps(ops, A) ==
  /\ \A o \in A : Occurs(o, ops)
  /\ \A i \in DOMAIN ops : ops[i] \in A \/ (ops[i].type = "MKDIR" /\ ops[i].path \notin Paths)

\* No two operations are for the same path of a drive, renames or not.
LEMMA OpsAreApart ==
  ASSUME NEW m, DOMAIN m \subseteq Drives, NEW renames \in RenameMaps(m),
         NEW a \in AllOps(m, renames), NEW b \in AllOps(m, renames),
         a.target = b.target, a.path = b.path
  PROVE  a = b
<1>1. ASSUME NEW o \in AllOps(m, renames)
      PROVE  \/ \E x \in DOMAIN renames : o = RenameOp(m, x[1], x[2], renames[x])
             \/ \E p \in Paths : o \in PathOps(m, p, RenameHandled(renames))
  BY DEF AllOps
<1>2. ASSUME NEW o \in AllOps(m, renames), o.type = "RENAME"
      PROVE  <<o.target, o.path>> \in RenameHandled(renames)
  <2>1. PICK x \in DOMAIN renames : o = RenameOp(m, x[1], x[2], renames[x])
    BY <1>1, <1>2, PathOpsFacts
  <2>2. o.target = x[1] /\ o.path = x[2] /\ x \in Drives \X Paths
    BY <2>1, RenameOpFacts
  <2>3. x = <<o.target, o.path>>
    BY <2>2
  <2> QED
    BY <2>3 DEF RenameHandled
<1>3. ASSUME NEW o \in AllOps(m, renames), o.type # "RENAME"
      PROVE  <<o.target, o.path>> \notin RenameHandled(renames)
  <2>1. PICK p \in Paths : o \in PathOps(m, p, RenameHandled(renames))
    BY <1>1, <1>3, RenameOpFacts
  <2>2. o.path = p /\ <<o.target, p>> \notin RenameHandled(renames)
    BY <2>1, PathOpsFacts
  <2> QED
    BY <2>2
<1>4. a.type = "RENAME" <=> b.type = "RENAME"
  BY <1>2, <1>3
<1>5. Turn(a) = Turn(b)
  BY <1>4 DEF Turn
<1> QED
  BY <1>5, AllOpsFacts DEF OnePerPath

LEMMA PlanHasAllOps ==
  ASSUME FilesAreNoDirs, NEW m, DOMAIN m \subseteq Drives, NEW ops \in Plans(m)
  PROVE  \E renames \in RenameMaps(m) : HasAllOps(ops, AllOps(m, renames))
<1>1. PICK renames \in RenameMaps(m) :
        ops = Coalesce(TopologicalSort(WithMkdirs(InOrder(AllOps(m, renames), Before))))
  BY DEF Plans
<1>2. PICK A : A = AllOps(m, renames)
  OBVIOUS
<1>3. (\A o \in A : Planned(o)) /\ OnePerPath(A)
  BY <1>2, AllOpsFacts
<1>4. PICK S, V : A \in SUBSET FileOps(S, V)
  BY <1>3, PlannedType
<1>5. PICK planned \in Seq(A) : planned = InOrder(A, Before) /\ \A o \in A : Occurs(o, planned)
  <2>1. IsFiniteSet(A)
    BY <1>3, <1>4, FewOps
  <2> QED
    BY <1>3, <1>4, <2>1, InOrderType
<1>6. PICK T : T = A \cup DirOps(S, V)
  OBVIOUS
<1>7. PICK more \in Seq(T) :
        more = WithMkdirs(planned) /\ \A i \in DOMAIN planned : Occurs(planned[i], more)
  <2>1. \A o \in A, dir \in Dirs : Mkdir(o, dir) \in DirOps(S, V)
    BY <1>4, MkdirType
  <2> QED
    BY <1>4, <1>6, <2>1, WithMkdirsType
<1>8. AreTargets(T)
  <2>1. ASSUME NEW o \in FileOps(S, V)
        PROVE  Targets(o)
    BY PathsAreNames DEF FileOps, Targets
  <2>2. ASSUME NEW o \in DirOps(S, V)
        PROVE  Targets(o)
    <3>1. o.type = "MKDIR" /\ o.path \in Dirs
      BY DEF DirOps
    <3>2. o.path \in Seq(Nat)
      BY <3>1, DirsAreNames
    <3> QED
      BY <3>1, <3>2 DEF Targets
  <2> QED
    BY <1>4, <1>6, <2>1, <2>2 DEF AreTargets
<1>9. PICK sorted \in Seq(T) :
        sorted = TopologicalSort(more) /\ \A i \in DOMAIN more : Occurs(more[i], sorted)
  BY <1>8, SortPutsParentsFirst, SortKeepsAll
<1>10. PICK left \in Seq(T) : left = Coalesce(sorted)
  BY <1>9, CoalesceFacts
<1>11. \A k \in DOMAIN sorted : \E i \in DOMAIN left :
         left[i].target = sorted[k].target /\ left[i].path = sorted[k].path
  BY <1>9, <1>10, CoalesceFacts
<1>12. ops = left
  BY <1>1, <1>2, <1>5, <1>7, <1>9, <1>10
<1>13. ASSUME NEW i \in DOMAIN left
       PROVE  left[i] \in A \/ (left[i].type = "MKDIR" /\ left[i].path \notin Paths)
  <2>1. left[i] \in T
    OBVIOUS
  <2>2. \A o \in DirOps(S, V) : o.type = "MKDIR" /\ o.path \in Dirs
    BY DEF DirOps
  <2> QED
    BY <1>6, <2>1, <2>2 DEF FilesAreNoDirs
<1>14. ASSUME NEW o \in A
       PROVE  Occurs(o, left)
  <2>1. PICK i \in DOMAIN planned : planned[i] = o
    BY <1>5 DEF Occurs
  <2>2. PICK j \in DOMAIN more : more[j] = o
    BY <1>7, <2>1 DEF Occurs
  <2>3. PICK k \in DOMAIN sorted : sorted[k] = o
    BY <1>9, <2>2 DEF Occurs
  <2>4. PICK l \in DOMAIN left : left[l].target = o.target /\ left[l].path = o.path
    BY <1>11, <2>3
  <2>5. o.path \in Paths
    BY <1>4 DEF FileOps
  <2>6. left[l] \in A
    BY <1>13, <2>4, <2>5
  <2>7. left[l] = o
    BY <1>2, <2>4, <2>6, OpsAreApart
  <2> QED
    BY <2>7 DEF Occurs
<1> QED
  BY <1>2, <1>12, <1>13, <1>14 DEF HasAllOps

\* Content, in any state of the files.
Held(f, d, p) == IF f[d][p] = None THEN None ELSE f[d][p].content

\* Does o make its file what the goal is?
Brings(o, goal, f, m) ==
  \/ o.type = "REMOVE" /\ goal = None
  \/ /\ o.type \in {"COPY", "REPLACE"}
     /\ f[o.source][o.path] # None /\ m[o.source][o.path] # None
     /\ Held(f, o.source, o.path) = goal /\ m[o.source][o.path].hash = goal

Copies(o) == o.type \in {"COPY", "REPLACE"}
Works(o, d, p) == o.type # "MKDIR" /\ o.target = d /\ o.path = p

\* The operations A on a path lead every drive to the goal, and work on no source.
LeadsTo(A, p, goal, f, m) ==
  /\ \A o \in A : Brings(o, goal, f, m)
  /\ \A a, b \in A : Copies(a) => b.target # a.source
  /\ \A d \in Drives : Held(f, d, p) = goal \/ \E o \in A : o.target = d

\* A drive's manifest agrees with its files.
Scans(f, m) ==
  \A d \in Drives, p \in Paths :
    IF IsLive(m, d, p) THEN Held(f, d, p) = m[d][p].hash ELSE f[d][p] = None

LEMMA RemovalsLead ==
  ASSUME NEW f, NEW m, DOMAIN m = Drives, Scans(f, m), NEW p \in Paths, NEW e
  PROVE  LeadsTo(Removals(m, p, e, Drives), p, None, f, m)
<1>1. PICK src : src = Min(e)
  OBVIOUS
<1>2. PICK v : v = MergedVector({m[d][p] : d \in e})
  OBVIOUS
<1>3. PICK A : A = Removals(m, p, e, Drives)
  OBVIOUS
<1>4. A = {SyncOp("REMOVE", src, tgt, p, p, v) : tgt \in {d \in Drives : IsLive(m, d, p)}}
  BY <1>1, <1>2, <1>3 DEF Removals
<1>5. ASSUME NEW o \in A
      PROVE  o.type = "REMOVE"
  <2>1. PICK tgt : o = SyncOp("REMOVE", src, tgt, p, p, v)
    BY <1>4
  <2> QED
    BY <2>1, SyncOpFields
<1>6. ASSUME NEW d \in Drives, IsLive(m, d, p)
      PROVE  \E o \in A : o.target = d
  <2>1. PICK o : o = SyncOp("REMOVE", src, d, p, p, v)
    OBVIOUS
  <2>2. o.target = d
    BY <2>1, SyncOpFields
  <2>3. o \in A
    BY <1>4, <1>6, <2>1
  <2> QED
    BY <2>2, <2>3
<1>7. \A d \in Drives : ~IsLive(m, d, p) => Held(f, d, p) = None
  BY DEF Scans, Held
<1>8. LeadsTo(A, p, None, f, m)
  BY <1>5, <1>6, <1>7 DEF LeadsTo, Brings, Copies
<1> QED
  BY <1>3, <1>8

LEMMA UpdatesLead ==
  ASSUME NEW f, NEW m, AreManifests(m), DOMAIN m = Drives, Scans(f, m), NEW p \in Paths,
         NEW src \in Drives, m[src][p] # None
  PROVE  LeadsTo(Updates(m, p, src, Drives), p, Held(f, src, p), f, m)
<1>1. PICK goal : goal = Held(f, src, p)
  OBVIOUS
<1>2. PICK v : v = PlannedVector(m, p, src)
  OBVIOUS
<1>3. PICK A : A = Updates(m, p, src, Drives)
  OBVIOUS
<1>4. A = {SyncOp(Needed(m, p, src, tgt), src, tgt, p, p, v) :
             tgt \in {d \in Drives \ {src} : Needed(m, p, src, d) # None}}
  BY <1>2, <1>3 DEF Updates
<1>5. ASSUME NEW o \in A
      PROVE  /\ o.target \in Drives \ {src} /\ o.source = src /\ o.path = p
             /\ o.type = Needed(m, p, src, o.target) /\ o.type # None
  <2>1. PICK tgt \in Drives \ {src} : /\ Needed(m, p, src, tgt) # None
                                     /\ o = SyncOp(Needed(m, p, src, tgt), src, tgt, p, p, v)
    BY <1>4
  <2>2. PICK type : type = Needed(m, p, src, tgt)
    OBVIOUS
  <2>3. o.type = type /\ o.source = src /\ o.target = tgt /\ o.path = p
    BY <2>1, <2>2, SyncOpFields
  <2> QED
    BY <2>1, <2>2, <2>3
<1>6. ASSUME NEW d \in Drives \ {src}, Needed(m, p, src, d) # None
      PROVE  \E o \in A : o.target = d
  <2>1. PICK type : type = Needed(m, p, src, d)
    OBVIOUS
  <2>2. PICK o : o = SyncOp(type, src, d, p, p, v)
    OBVIOUS
  <2>3. o.target = d
    BY <2>2, SyncOpFields
  <2>4. o \in A
    BY <1>4, <1>6, <2>1, <2>2
  <2> QED
    BY <2>3, <2>4
<1>7. \A d \in Drives : IF IsLive(m, d, p) THEN Held(f, d, p) = m[d][p].hash ELSE f[d][p] = None
  BY DEF Scans
<1>8. CASE m[src][p].tombstone
  <2>1. goal = None
    BY <1>1, <1>7, <1>8 DEF IsLive, Held
  <2>2. \A d : Needed(m, p, src, d) = IF IsLive(m, d, p) THEN "REMOVE" ELSE None
    BY <1>8 DEF Needed
  <2>3. \A o \in A : o.type = "REMOVE"
    BY <1>5, <2>2
  <2>4. ASSUME NEW d \in Drives
        PROVE  Held(f, d, p) = goal \/ \E o \in A : o.target = d
    <3>1. CASE ~IsLive(m, d, p)
      BY <1>7, <2>1, <3>1 DEF Held
    <3>2. CASE IsLive(m, d, p)
      <4>1. d # src
        BY <1>8, <3>2 DEF IsLive
      <4>2. Needed(m, p, src, d) # None
        BY <2>2, <3>2, NoneIsNoType
      <4> QED
        BY <1>6, <4>1, <4>2
    <3> QED
      BY <3>1, <3>2
  <2>5. LeadsTo(A, p, goal, f, m)
    BY <2>1, <2>3, <2>4 DEF LeadsTo, Brings, Copies
  <2> QED
    BY <1>1, <1>3, <2>5
<1>9. CASE ~m[src][p].tombstone
  <2>1. IsLive(m, src, p) /\ goal = m[src][p].hash /\ goal = Held(f, src, p)
    BY <1>1, <1>7, <1>9 DEF IsLive
  <2>2. f[src][p] # None
    <3>1. m[src][p].hash # None
      BY VaultAssumption DEF AreManifests, Entry
    <3> QED
      BY <2>1, <3>1 DEF Held
  <2>3. \A d : Needed(m, p, src, d) \in {"COPY", "REPLACE", None}
    BY <1>9 DEF Needed
  <2>4. ASSUME NEW d \in Drives, Needed(m, p, src, d) = None
        PROVE  Held(f, d, p) = goal
    <3>1. IsLive(m, d, p) /\ m[src][p].hash = m[d][p].hash
      BY <1>9, <2>4, NoneIsNoType DEF Needed
    <3> QED
      BY <1>7, <2>1, <3>1
  <2>5. \A o \in A : o.type \in {"COPY", "REPLACE"} /\ o.source = src /\ o.path = p
    BY <1>5, <2>3
  <2>6. \A o \in A : Brings(o, goal, f, m)
    BY <2>1, <2>2, <2>5 DEF Brings
  <2>7. \A d \in Drives : Held(f, d, p) = goal \/ \E o \in A : o.target = d
    BY <1>1, <1>6, <2>4
  <2>8. \A a, b \in A : b.target # a.source
    BY <1>5
  <2>9. LeadsTo(A, p, goal, f, m)
    BY <2>6, <2>7, <2>8 DEF LeadsTo
  <2> QED
    BY <1>1, <1>3, <2>9
<1> QED
  BY <1>8, <1>9

LEMMA PathLeads ==
  ASSUME NEW f, NEW m, AreManifests(m), DOMAIN m = Drives, Scans(f, m), NEW p \in Paths
  PROVE  \E goal : LeadsTo(PathOps(m, p, {}), p, goal, f, m)
<1>1. PICK e : e = {d \in DOMAIN m : IsTombstone(m, d, p)}
  OBVIOUS
<1>2. PICK t : t = {d \in DOMAIN m : <<d, p>> \notin {}}
  OBVIOUS
<1>3. t = Drives
  BY <1>2
<1>4. PICK A : A = PathOps(m, p, {})
  OBVIOUS
<1>5. \/ A = Removals(m, p, e, t)
      \/ A = UNION {Updates(m, p, x, t) :
               x \in IF DOMAIN Versions(m, p) = {} THEN {} ELSE {SourceDrive(m, p)}}
  BY <1>1, <1>2, <1>4, Zenon DEF PathOps
<1>6. CASE A = Removals(m, p, e, t)
  <2>1. LeadsTo(A, p, None, f, m)
    BY <1>3, <1>6, RemovalsLead
  <2> QED
    BY <1>4, <2>1
<1>7. CASE A = UNION {Updates(m, p, x, t) :
                 x \in IF DOMAIN Versions(m, p) = {} THEN {} ELSE {SourceDrive(m, p)}}
  <2>1. CASE DOMAIN Versions(m, p) = {}
    <3>1. A = {}
      BY <1>7, <2>1
    <3>2. \A d \in Drives : m[d][p] = None
      BY <2>1 DEF Versions
    <3>3. \A d \in Drives : Held(f, d, p) = None
      BY <3>2 DEF Scans, IsLive, Held
    <3>4. LeadsTo(A, p, None, f, m)
      BY <3>1, <3>3 DEF LeadsTo
    <3> QED
      BY <1>4, <3>4
  <2>2. CASE DOMAIN Versions(m, p) # {}
    <3>1. PICK src : src = SourceDrive(m, p)
      OBVIOUS
    <3>2. src \in DOMAIN Versions(m, p)
      BY <2>2, <3>1, SourceExists
    <3>3. src \in Drives /\ m[src][p] # None
      BY <3>2 DEF Versions
    <3>4. A = Updates(m, p, src, Drives)
      BY <1>3, <1>7, <2>2, <3>1
    <3>5. LeadsTo(A, p, Held(f, src, p), f, m)
      BY <3>3, <3>4, UpdatesLead
    <3> QED
      BY <1>4, <3>5
  <2> QED
    BY <2>1, <2>2
<1> QED
  BY <1>5, <1>6, <1>7

\* What is left of a plan leads every path to its goal, on every drive.
Leads(ops, goal, f, m) ==
  /\ \A i \in DOMAIN ops : ops[i].type = "MKDIR" \/ Brings(ops[i], goal[ops[i].path], f, m)
  /\ \A i, j \in DOMAIN ops : Copies(ops[i]) => ~Works(ops[j], ops[i].source, ops[i].path)
  /\ \A d \in Drives, p \in Paths :
       Held(f, d, p) = goal[p] \/ \E i \in DOMAIN ops : Works(ops[i], d, p)

LEMMA NoRenames ==
  ASSUME NEW m, DOMAIN m \subseteq Drives, NEW renames \in RenameMaps(m), NEW ops,
         HasAllOps(ops, AllOps(m, renames)), \A i \in DOMAIN ops : ops[i].type # "RENAME"
  PROVE  DOMAIN renames = {} /\ RenameHandled(renames) = {}
<1>1. ASSUME NEW x \in DOMAIN renames
      PROVE  FALSE
  <2>1. PICK o : o = RenameOp(m, x[1], x[2], renames[x])
    OBVIOUS
  <2>2. o.type = "RENAME"
    BY <2>1, RenameOpFacts
  <2>3. o \in AllOps(m, renames)
    BY <2>1 DEF AllOps
  <2>4. PICK i \in DOMAIN ops : ops[i] = o
    BY <2>3 DEF HasAllOps, Occurs
  <2> QED
    BY <2>2, <2>4
<1>2. DOMAIN renames = {}
  BY <1>1
<1> QED
  BY <1>2 DEF RenameHandled

LEMMA PlansLead ==
  ASSUME FilesAreNoDirs, NEW f, NEW m, AreManifests(m), DOMAIN m = Drives, Scans(f, m),
         NEW ops \in Plans(m), \A i \in DOMAIN ops : ops[i].type # "RENAME"
  PROVE  \E goal : Leads(ops, goal, f, m)
<1>1. PICK renames \in RenameMaps(m) : HasAllOps(ops, AllOps(m, renames))
  BY PlanHasAllOps
<1>2. DOMAIN renames = {} /\ RenameHandled(renames) = {}
  BY <1>1, NoRenames
<1>3. PICK A : A = AllOps(m, renames)
  OBVIOUS
<1>4. \A o : o \in A <=> \E p \in Paths : o \in PathOps(m, p, {})
  BY <1>2, <1>3 DEF AllOps
<1>5. PICK goal : goal = [p \in Paths |-> CHOOSE g : LeadsTo(PathOps(m, p, {}), p, g, f, m)]
  OBVIOUS
<1>6. ASSUME NEW p \in Paths
      PROVE  LeadsTo(PathOps(m, p, {}), p, goal[p], f, m)
  <2>1. \E g : LeadsTo(PathOps(m, p, {}), p, g, f, m)
    BY PathLeads
  <2>2. goal[p] = CHOOSE g : LeadsTo(PathOps(m, p, {}), p, g, f, m)
    BY <1>5
  <2> QED
    BY <2>1, <2>2
<1>7. ASSUME NEW p \in Paths, NEW o \in PathOps(m, p, {})
      PROVE  o.type \notin {"RENAME", "MKDIR"} /\ o.path = p
  <2>1. Planned(o) /\ o.type # "RENAME" /\ o.path = p
    BY PathOpsFacts
  <2>2. o.type # "MKDIR"
    BY <2>1, SyncOpFields DEF Planned
  <2> QED
    BY <2>1, <2>2
<1>8. ASSUME NEW i \in DOMAIN ops, ops[i].type # "MKDIR"
      PROVE  \E p \in Paths : ops[i] \in PathOps(m, p, {})
  BY <1>1, <1>3, <1>4, <1>8 DEF HasAllOps
<1>9. ASSUME NEW i \in DOMAIN ops, ops[i].type # "MKDIR"
      PROVE  Brings(ops[i], goal[ops[i].path], f, m)
  BY <1>6, <1>7, <1>8, <1>9 DEF LeadsTo
<1>10. ASSUME NEW i \in DOMAIN ops, NEW j \in DOMAIN ops, Copies(ops[i]),
              Works(ops[j], ops[i].source, ops[i].path)
       PROVE  FALSE
  <2>1. PICK p \in Paths : ops[i] \in PathOps(m, p, {})
    BY <1>8, <1>10 DEF Copies
  <2>2. PICK q \in Paths : ops[j] \in PathOps(m, q, {})
    BY <1>8, <1>10 DEF Works
  <2>3. ops[i].path = p /\ ops[j].path = q
    BY <1>7, <2>1, <2>2
  <2>4. p = q /\ ops[j].target = ops[i].source
    BY <1>10, <2>3 DEF Works
  <2> QED
    BY <1>6, <1>10, <2>1, <2>2, <2>4 DEF LeadsTo
<1>11. ASSUME NEW d \in Drives, NEW p \in Paths, Held(f, d, p) # goal[p]
       PROVE  \E i \in DOMAIN ops : Works(ops[i], d, p)
  <2>1. PICK o \in PathOps(m, p, {}) : o.target = d
    BY <1>6, <1>11 DEF LeadsTo
  <2>2. o.type # "MKDIR" /\ o.path = p
    BY <1>7
  <2>3. o \in A
    BY <1>4
  <2>4. PICK i \in DOMAIN ops : ops[i] = o
    BY <1>1, <1>3, <2>3 DEF HasAllOps, Occurs
  <2> QED
    BY <2>1, <2>2, <2>4 DEF Works
<1>12. Leads(ops, goal, f, m)
  BY <1>9, <1>10, <1>11 DEF Leads
<1> QED
  BY <1>12

\* One operation later: only its file and row changed, and the file to its goal.
LEMMA StillLeads ==
  ASSUME NEW T, NEW ops \in Seq(T), ops # <<>>, NEW goal, NEW f, NEW m, Leads(ops, goal, f, m),
         NEW g, NEW n,
         \A d \in Drives, p \in Paths :
           IF Works(Head(ops), d, p) THEN Held(g, d, p) = goal[p]
                                     ELSE g[d][p] = f[d][p] /\ n[d][p] = m[d][p],
         \A i \in DOMAIN ops : Copies(ops[i]) => ops[i].source \in Drives /\ ops[i].path \in Paths
  PROVE  Leads(Tail(ops), goal, g, n)
<1>1. PICK l \in Nat : l = Len(ops) /\ DOMAIN ops = 1 .. l
  OBVIOUS
<1>2. l # 0
  BY <1>1, EmptySeq
<1>3. PICK s : s = Tail(ops)
  OBVIOUS
<1>4. DOMAIN s = 1 .. l - 1 /\ \A i \in 1 .. l - 1 : s[i] = ops[i + 1]
  BY <1>1, <1>2, <1>3
<1>5. \A i \in 1 .. l - 1 : i + 1 \in 1 .. l
  OBVIOUS
<1>6. Head(ops) = ops[1] /\ 1 \in 1 .. l
  BY <1>1, <1>2
<1>7. ASSUME NEW i \in 1 .. l
      PROVE  i = 1 \/ \E j \in 1 .. l - 1 : s[j] = ops[i]
  <2>1. CASE i # 1
    <3>1. PICK j \in 1 .. l - 1 : i = j + 1
      BY <2>1
    <3> QED
      BY <1>4, <3>1
  <2> QED
    BY <2>1
<1>8. ASSUME NEW i \in 1 .. l
      PROVE  ops[i].type = "MKDIR" \/ Brings(ops[i], goal[ops[i].path], g, n)
  <2>1. PICK o : o = ops[i]
    OBVIOUS
  <2>2. o.type = "MKDIR" \/ Brings(o, goal[o.path], f, m)
    BY <1>1, <2>1 DEF Leads
  <2>3. CASE Copies(o)
    <3>1. o.source \in Drives /\ o.path \in Paths
      BY <1>1, <2>1, <2>3
    <3>2. ~Works(Head(ops), o.source, o.path)
      BY <1>1, <1>6, <2>1, <2>3 DEF Leads
    <3>3. g[o.source][o.path] = f[o.source][o.path] /\ n[o.source][o.path] = m[o.source][o.path]
      BY <3>1, <3>2
    <3> QED
      BY <2>1, <2>2, <2>3, <3>3 DEF Brings, Held
  <2>4. CASE ~Copies(o)
    BY <2>1, <2>2, <2>4 DEF Brings, Copies
  <2> QED
    BY <2>3, <2>4
<1>9. ASSUME NEW d \in Drives, NEW p \in Paths
      PROVE  Held(g, d, p) = goal[p] \/ \E j \in 1 .. l - 1 : Works(s[j], d, p)
  <2>1. CASE Works(Head(ops), d, p)
    BY <2>1
  <2>2. CASE ~Works(Head(ops), d, p)
    <3>1. Held(g, d, p) = Held(f, d, p)
      BY <2>2 DEF Held
    <3>2. Held(f, d, p) = goal[p] \/ \E i \in 1 .. l : Works(ops[i], d, p)
      BY <1>1 DEF Leads
    <3> QED
      BY <1>6, <1>7, <2>2, <3>1, <3>2
  <2> QED
    BY <2>1, <2>2
<1>10. \A i, j \in 1 .. l : Copies(ops[i]) => ~Works(ops[j], ops[i].source, ops[i].path)
  BY <1>1 DEF Leads
<1>11. /\ \A i \in DOMAIN s : s[i].type = "MKDIR" \/ Brings(s[i], goal[s[i].path], g, n)
       /\ \A i, j \in DOMAIN s : Copies(s[i]) => ~Works(s[j], s[i].source, s[i].path)
       /\ \A d \in Drives, p \in Paths : Held(g, d, p) = goal[p] \/ \E j \in DOMAIN s : Works(s[j], d, p)
  <2>1. ASSUME NEW i \in 1 .. l - 1
        PROVE  s[i].type = "MKDIR" \/ Brings(s[i], goal[s[i].path], g, n)
    <3>1. PICK k \in 1 .. l : k = i + 1
      BY <1>5
    <3>2. s[i] = ops[k]
      BY <1>4, <3>1
    <3> QED
      BY <1>8, <3>2
  <2>2. ASSUME NEW i \in 1 .. l - 1, NEW j \in 1 .. l - 1, Copies(s[i])
        PROVE  ~Works(s[j], s[i].source, s[i].path)
    <3>1. PICK k \in 1 .. l : k = i + 1
      BY <1>5
    <3>2. PICK h \in 1 .. l : h = j + 1
      BY <1>5
    <3>3. s[i] = ops[k] /\ s[j] = ops[h]
      BY <1>4, <3>1, <3>2
    <3> QED
      BY <1>10, <2>2, <3>3
  <2> QED
    BY <1>4, <1>9, <2>1, <2>2
<1>12. Leads(s, goal, g, n)
  BY <1>11 DEF Leads
<1> QED
  BY <1>3, <1>12

\* What leads the drives to their goals finds its files as they were scanned.
LEMMA LeadsIsApplicable ==
  ASSUME VaultInv, FilesAreNoDirs, plan # <<>>, NEW goal, Leads(plan, goal, files, manifest)
  PROVE  Applicable(Head(plan))
<1>1. PICK o \in Operation : o = Head(plan)
  BY StepOfPlan
<1>2. DrivesAreSound
  BY DEF VaultInv
<1>3. o.type = "MKDIR" \/ Brings(o, goal[o.path], files, manifest)
  <2>1. PICK ops : ops = plan
    OBVIOUS
  <2>2. ops \in Seq(Operation) /\ ops # <<>>
    BY <2>1 DEF VaultInv, PlanIsSound
  <2>3. PICK l \in Nat : l = Len(ops) /\ DOMAIN ops = 1 .. l
    BY <2>2
  <2>4. l # 0
    BY <2>2, <2>3, EmptySeq
  <2>5. 1 \in DOMAIN ops /\ Head(ops) = ops[1]
    BY <2>2, <2>3, <2>4
  <2> QED
    BY <1>1, <2>1, <2>5 DEF Leads
<1>4. o.source \in Drives /\ o.target \in Drives /\ o.path \in IF o.type = "MKDIR" THEN Dirs ELSE Paths
  BY OpFields
<1>5. o.type # "RENAME" /\ Destination(o) = o.path
  BY <1>3 DEF Brings, Destination
<1>6. Parents(o.path) \subseteq Dirs
  BY <1>4, ParentsAreDirs
<1>7. ~Obstructed(o)
  BY <1>4, <1>5, <1>6 DEF Obstructed, FilesAreNoDirs
<1>8. dirs[o.target] \subseteq Dirs
  BY <1>2, <1>4 DEF DrivesAreSound
<1>9. CASE o.type = "MKDIR"
  BY <1>1, <1>7, <1>9 DEF Applicable
<1>10. CASE o.type = "REMOVE"
  BY <1>1, <1>10 DEF Applicable
<1>11. CASE o.type \in {"COPY", "REPLACE"}
  <2>1. /\ files[o.source][o.path] # None /\ manifest[o.source][o.path] # None
        /\ Held(files, o.source, o.path) = manifest[o.source][o.path].hash
    BY <1>3, <1>11 DEF Brings
  <2>2. files[o.source][o.path].content = manifest[o.source][o.path].hash
    BY <2>1 DEF Held
  <2>3. o.path \notin dirs[o.target]
    BY <1>4, <1>8, <1>11 DEF FilesAreNoDirs
  <2> QED
    BY <1>1, <1>7, <1>11, <2>1, <2>2, <2>3 DEF Applicable
<1> QED
  BY <1>3, <1>9, <1>10, <1>11 DEF Brings

\* The row that o leaves: the source's for a copy, the old one for a removal.
Outcome(o, m) ==
  IF Copies(o) THEN [m[o.source][o.path] EXCEPT !.vv = o.vv]
               ELSE [m[o.target][o.path] EXCEPT !.tombstone = TRUE, !.vv = o.vv]

\* Nothing but its file and row changes when an operation is carried out that
\* finds no temporary file.
LEMMA ExecuteEffect ==
  ASSUME VaultInv, Execute, NEW o, o = Head(plan), o.type # "RENAME",
         \A d \in Drives, p \in Range(Tmp) : files[d][p] = None
  PROVE  \A d \in Drives, p \in Paths :
           IF Works(o, d, p)
             THEN /\ files'[d][p] = IF Copies(o) THEN files[o.source][p] ELSE None
                  /\ manifest'[d][p] = Outcome(o, manifest)
             ELSE files'[d][p] = files[d][p] /\ manifest'[d][p] = manifest[d][p]
<1>1. plan # <<>> /\ Applicable(o) /\ Become(o.target, After(o)) /\ plan' = Tail(plan)
  BY DEF Execute
<1>2. o \in Operation /\ (o.type = "REMOVE" => manifest[o.target][o.path] \in Entry)
  BY <1>1, StepOfPlan
<1>3. DrivesAreSound
  BY DEF VaultInv
<1>4. o.source \in Drives /\ o.target \in Drives /\ (o.path \in Paths \/ o.type = "MKDIR")
  BY <1>2, OpFields
<1>5. PICK old \in FileMaps : old = files[o.target]
  BY <1>3, <1>4 DEF DrivesAreSound
<1>6. PICK rows \in RowMaps : rows = manifest[o.target]
  BY <1>3, <1>4 DEF DrivesAreSound
<1>7. PICK t \in FileMaps : t = Without(old, TmpFile(o)) /\ \A p \in Paths : t[p] = old[p]
  <2>1. \A p \in TmpFile(o) : p \in Range(Tmp)
    BY PathsAssumption DEF TmpFile, Range
  <2>2. \A p \in TmpFile(o) : old[p] = None
    BY <1>4, <1>5, <2>1
  <2>3. Without(old, TmpFile(o)) \in FileMaps
    BY WithoutSome
  <2> QED
    BY <2>2, <2>3 DEF Without
<1>8. PICK g : g = FilesAfter(o)
  OBVIOUS
<1>9. PICK n : n = RowsAfter(o)
  OBVIOUS
<1>10. PICK x : x = IF Copies(o) THEN files[o.source][o.path] ELSE None
  OBVIOUS
<1>11. PICK row : row = Outcome(o, manifest)
  OBVIOUS
<1>12. ASSUME NEW p \in Paths
       PROVE  IF o.type # "MKDIR" /\ o.path = p
                THEN g[p] = x /\ n[p] = row
                ELSE g[p] = old[p] /\ n[p] = rows[p]
  <2>1. CASE o.type = "MKDIR"
    <3>1. g = t
      BY <1>5, <1>7, <1>8, <2>1 DEF FilesAfter
    <3>2. n = rows
      BY <1>6, <1>9, <2>1 DEF RowsAfter
    <3> QED
      BY <1>7, <2>1, <3>1, <3>2
  <2>2. CASE o.type = "REMOVE"
    <3>1. g = [t EXCEPT ![o.path] = None]
      BY <1>5, <1>7, <1>8, <2>2 DEF FilesAfter
    <3>2. x = None
      BY <1>10, <2>2 DEF Copies
    <3>3. row = [rows[o.path] EXCEPT !.tombstone = TRUE, !.vv = o.vv]
      BY <1>6, <1>11, <2>2 DEF Outcome, Copies
    <3>4. n = [rows EXCEPT ![o.path] = row]
      BY <1>4, <1>6, <1>9, <2>2, <3>3 DEF RowsAfter, RowMaps
    <3> QED
      BY <1>7, <2>2, <3>1, <3>2, <3>4 DEF FileMaps, RowMaps
  <2>3. CASE o.type \in {"COPY", "REPLACE"}
    <3>1. x = files[o.source][o.path]
      BY <1>10, <2>3 DEF Copies
    <3>2. g = [t EXCEPT ![o.path] = x]
      BY <1>5, <1>7, <1>8, <2>3, <3>1 DEF FilesAfter
    <3>3. row = [manifest[o.source][o.path] EXCEPT !.vv = o.vv]
      BY <1>11, <2>3 DEF Outcome, Copies
    <3>4. n = [rows EXCEPT ![o.path] = row]
      BY <1>6, <1>9, <2>3, <3>3 DEF RowsAfter
    <3> QED
      BY <1>7, <2>3, <3>2, <3>4 DEF FileMaps, RowMaps
  <2> QED
    BY <1>2, <2>1, <2>2, <2>3, OpFields
<1>13. files' = [files EXCEPT ![o.target] = g] /\ manifest' = [manifest EXCEPT ![o.target] = n]
  BY <1>1, <1>8, <1>9 DEF Become, After, State
<1>14. PICK new : new = files'
  OBVIOUS
<1>15. PICK left : left = manifest'
  OBVIOUS
<1>16. ASSUME NEW d \in Drives, NEW p \in Paths
       PROVE  IF Works(o, d, p) THEN new[d][p] = x /\ left[d][p] = row
                                ELSE new[d][p] = files[d][p] /\ left[d][p] = manifest[d][p]
  <2>1. CASE d = o.target
    <3>1. new[d] = g /\ left[d] = n
      BY <1>3, <1>4, <1>13, <1>14, <1>15, <2>1 DEF DrivesAreSound
    <3> QED
      BY <1>5, <1>6, <1>12, <2>1, <3>1 DEF Works
  <2>2. CASE d # o.target
    <3>1. new[d] = files[d] /\ left[d] = manifest[d]
      BY <1>3, <1>4, <1>13, <1>14, <1>15, <2>2 DEF DrivesAreSound
    <3> QED
      BY <2>2, <3>1 DEF Works
  <2> QED
    BY <2>1, <2>2
<1>17. ASSUME NEW d \in Drives, NEW p \in Paths, Works(o, d, p)
       PROVE  x = IF Copies(o) THEN files[o.source][p] ELSE None
  BY <1>10, <1>17 DEF Works
<1> QED
  BY <1>11, <1>14, <1>15, <1>16, <1>17

\* And the file reaches the goal.
LEMMA ExecuteLeads ==
  ASSUME VaultInv, NEW goal, Leads(plan, goal, files, manifest), Execute,
         \A d \in Drives, p \in Range(Tmp) : files[d][p] = None
  PROVE  Leads(plan', goal, files', manifest')
<1>1. plan # <<>> /\ plan' = Tail(plan)
  BY DEF Execute
<1>2. PICK ops \in Seq(Operation) : ops = plan /\ ops # <<>>
  BY <1>1 DEF VaultInv, PlanIsSound
<1>3. PICK o \in Operation : o = Head(ops)
  BY <1>1, <1>2, StepOfPlan
<1>4. o.type = "MKDIR" \/ Brings(o, goal[o.path], files, manifest)
  <2>1. PICK l \in Nat : l = Len(ops) /\ DOMAIN ops = 1 .. l
    BY <1>2
  <2>2. l # 0
    BY <1>2, <2>1, EmptySeq
  <2>3. 1 \in DOMAIN ops /\ Head(ops) = ops[1]
    BY <1>2, <2>1, <2>2
  <2> QED
    BY <1>2, <1>3, <2>3 DEF Leads
<1>5. o.type # "RENAME"
  BY <1>4 DEF Brings
<1>6. PICK f, m : f = files /\ m = manifest
  OBVIOUS
<1>7. PICK g, n : g = files' /\ n = manifest'
  OBVIOUS
<1>8. ASSUME NEW d \in Drives, NEW p \in Paths
      PROVE  IF Works(o, d, p) THEN Held(g, d, p) = goal[p]
                               ELSE g[d][p] = f[d][p] /\ n[d][p] = m[d][p]
  <2>1. IF Works(o, d, p)
          THEN g[d][p] = IF Copies(o) THEN f[o.source][p] ELSE None
          ELSE g[d][p] = f[d][p] /\ n[d][p] = m[d][p]
    BY <1>2, <1>3, <1>5, <1>6, <1>7, ExecuteEffect
  <2>2. Works(o, d, p) => Brings(o, goal[p], f, m) /\ o.path = p
    BY <1>4, <1>6 DEF Works
  <2> QED
    BY <2>1, <2>2 DEF Brings, Copies, Held
<1>9. ASSUME NEW i \in DOMAIN ops, Copies(ops[i])
      PROVE  ops[i].source \in Drives /\ ops[i].path \in Paths
  <2>1. ops[i] \in Operation
    BY <1>2
  <2> QED
    BY <1>9, <2>1, OpFields DEF Copies
<1>10. Leads(ops, goal, f, m)
  BY <1>2, <1>6
<1>11. Leads(Tail(ops), goal, g, n)
  BY <1>2, <1>3, <1>8, <1>9, <1>10, StillLeads
<1> QED
  BY <1>1, <1>2, <1>7, <1>11

-----------------------------------------------------------------------------
(* Syncs that count                                                        *)

\* The drives are on their way to their goals.
OnTheWay == \E goal : Leads(plan, goal, files, manifest)
ConvergeInv == rounds > 0 => OnTheWay

LEMMA SyncLeads ==
  ASSUME VaultInv, FilesAreNoDirs, NEW connected \in SUBSET Drives, Sync(connected), rounds' > 0,
         \A i \in DOMAIN plan' : plan'[i].type # "RENAME"
  PROVE  OnTheWay'
<1>1. connected = Drives /\ \A d \in Drives : UpToDate(d)
  BY DEF Sync
<1>2. manifest \in [Drives -> RowMaps]
  BY DEF VaultInv, DrivesAreSound
<1>3. PICK m : m = manifest
  OBVIOUS
<1>4. m = [d \in Drives |-> manifest[d]]
  BY <1>2, <1>3
<1>5. plan' \in Plans(m)
  BY <1>1, <1>4 DEF Sync
<1>6. PICK ops \in Plans(m) : ops = plan'
  BY <1>5
<1>7. PICK f : f = files
  OBVIOUS
<1>8. AreManifests(m) /\ DOMAIN m = Drives
  BY <1>2, <1>3 DEF AreManifests, RowMaps
<1>9. Scans(f, m)
  BY <1>1, <1>3, <1>7 DEF UpToDate, Scans, Content, Held
<1>10. \A i \in DOMAIN ops : ops[i].type # "RENAME"
  BY <1>6
<1>11. PICK goal : Leads(ops, goal, f, m)
  BY <1>8, <1>9, <1>10, PlansLead
<1>12. files' = f /\ manifest' = m
  BY <1>3, <1>7 DEF Sync
<1> QED
  BY <1>6, <1>11, <1>12 DEF OnTheWay

LEMMA ConvergeInit == Init => VaultInv /\ ConvergeInv
<1>1. Init => VaultInv
  BY VaultInit
<1>2. Init => rounds = 0
  BY DEF Init
<1>3. Init => ConvergeInv
  BY <1>2 DEF ConvergeInv
<1> QED
  BY <1>1, <1>3

LEMMA ConvergeStep ==
  ASSUME VaultInv, FilesAreNoDirs, ConvergeInv, PlainSyncs, PlainSyncs', [Next]_vars
  PROVE  ConvergeInv'
<1> SUFFICES ASSUME rounds' > 0
             PROVE  OnTheWay'
  BY DEF ConvergeInv
<1>1. ASSUME plan = <<>>, plan' = <<>>, rounds' = rounds, UNCHANGED files
      PROVE  OnTheWay'
  <2>1. PICK goal : Leads(plan, goal, files, manifest)
    BY <1>1 DEF ConvergeInv, OnTheWay
  <2>2. DOMAIN <<>> = {}
    OBVIOUS
  <2>3. Leads(plan', goal, files', manifest')
    BY <1>1, <2>1, <2>2 DEF Leads, Held
  <2> QED
    BY <2>3 DEF OnTheWay
<1>2. CASE UNCHANGED vars
  BY <1>2 DEF vars, ConvergeInv, OnTheWay
<1>3. ASSUME NEW d \in Drives, NEW unreadable \in SUBSET Paths, Scan(d, unreadable)
      PROVE  OnTheWay'
  <2>1. plan = <<>> /\ plan' = <<>> /\ UNCHANGED files
    BY <1>3 DEF Scan
  <2>2. rounds' = rounds \/ rounds' = 0
    BY <1>3 DEF Scan, Disturb
  <2> QED
    BY <1>1, <2>1, <2>2
<1>4. ASSUME NEW d \in Drives, ScanFallsShort(d) \/ Rebuild(d)
      PROVE  OnTheWay'
  BY <1>1, <1>4 DEF ScanFallsShort, Rebuild, Disturb
<1>5. ASSUME NEW connected \in SUBSET Drives, Sync(connected)
      PROVE  OnTheWay'
  <2>1. \A i \in DOMAIN plan' : plan'[i].type # "RENAME"
    BY DEF PlainSyncs
  <2> QED
    BY <1>5, <2>1, SyncLeads
<1>6. CASE Execute
  <2>1. rounds > 0
    BY <1>6 DEF Execute
  <2>2. PICK goal : Leads(plan, goal, files, manifest)
    BY <2>1 DEF ConvergeInv, OnTheWay
  <2>3. \A d \in Drives, p \in Range(Tmp) : files[d][p] = None
    BY <2>1 DEF PlainSyncs
  <2>4. Leads(plan', goal, files', manifest')
    BY <1>6, <2>2, <2>3, ExecuteLeads
  <2> QED
    BY <2>4 DEF OnTheWay
<1>7. CASE ExecuteFails
  <2>1. plan # <<>> /\ rounds > 0 /\ ~Applicable(Head(plan))
    BY <1>7 DEF ExecuteFails, Disturb
  <2>2. PICK goal : Leads(plan, goal, files, manifest)
    BY <2>1 DEF ConvergeInv, OnTheWay
  <2> QED
    BY <2>1, <2>2, LeadsIsApplicable
<1>8. CASE Crash
  BY <1>8 DEF Crash, Disturb
<1>9. ASSUME NEW p \in Paths, NEW useDrive \in Drives, NEW connected \in SUBSET Drives,
             Resolves(p, useDrive, connected) \/ ResolveDies(p, useDrive, connected)
      PROVE  OnTheWay'
  BY <1>9 DEF Resolves, ResolveDies, Disturb
<1>10. ASSUME NEW d \in Drives, NEW p \in Paths,
              \/ \E content \in Contents, mtime \in Times : UserWrite(d, p, content, mtime)
              \/ UserDelete(d, p)
              \/ \E newPath \in Paths : UserMove(d, p, newPath)
       PROVE  OnTheWay'
  <2>1. \E f, changes : Changed(d, f, changes)
    BY <1>10 DEF UserWrite, UserDelete, UserMove
  <2>2. rounds' = 0
    BY <2>1 DEF Changed
  <2> QED
    BY <2>2
<1>11. CASE Execute \/ ExecuteFails \/ Crash
  BY <1>6, <1>7, <1>8, <1>11
<1> QED
  BY <1>2, <1>3, <1>4, <1>5, <1>9, <1>10, <1>11 DEF Next

\* Whatever was changed, failed, died or left unsynced before: a sync of all
\* scanned drives that runs undisturbed leaves every drive with the same files,
\* as long as such a sync renames nothing and meets no temporary file.
THEOREM SyncsConverge ==
  ASSUME FilesAreNoDirs
  PROVE  Spec /\ []PlainSyncs => []Converged
<1>1. Init => VaultInv /\ ConvergeInv
  BY ConvergeInit
<1>2. VaultInv /\ ConvergeInv /\ PlainSyncs /\ PlainSyncs' /\ [Next]_vars => VaultInv' /\ ConvergeInv'
  BY VaultStep, ConvergeStep
<1>3. ConvergeInv => Converged
  <2> SUFFICES ASSUME ConvergeInv, plan = <<>>, rounds > 0
               PROVE  Agree
    BY DEF Converged
  <2>1. PICK goal : Leads(plan, goal, files, manifest)
    BY DEF ConvergeInv, OnTheWay
  <2>2. DOMAIN <<>> = {}
    OBVIOUS
  <2>3. \A d \in Drives, p \in Paths : Held(files, d, p) = goal[p]
    BY <2>1, <2>2 DEF Leads
  <2> QED
    BY <2>3 DEF Agree, Content, Held
<1> QED
  BY <1>1, <1>2, <1>3, PTL DEF Spec

\* Under the same conditions every operation finds its file as the scan did and
\* room for it: no operation of plan_sync gets in the way of a later one.
THEOREM SyncsFindTheirFiles ==
  ASSUME FilesAreNoDirs
  PROVE  Spec /\ []PlainSyncs => []OrderRespectsDependencies
<1>1. Init => VaultInv /\ ConvergeInv
  BY ConvergeInit
<1>2. VaultInv /\ ConvergeInv /\ PlainSyncs /\ PlainSyncs' /\ [Next]_vars => VaultInv' /\ ConvergeInv'
  BY VaultStep, ConvergeStep
<1>3. VaultInv /\ ConvergeInv => OrderRespectsDependencies
  <2> SUFFICES ASSUME VaultInv, ConvergeInv, plan # <<>>, rounds > 0
               PROVE  Applicable(Head(plan))
    BY DEF OrderRespectsDependencies
  <2>1. PICK goal : Leads(plan, goal, files, manifest)
    BY DEF ConvergeInv, OnTheWay
  <2> QED
    BY <2>1, LeadsIsApplicable
<1> QED
  BY <1>1, <1>2, <1>3, PTL DEF Spec

-----------------------------------------------------------------------------
(* A single path                                                           *)

LEMMA OnePathIsNoDir ==
  ASSUME NEW p, Paths = {p}
  PROVE  FilesAreNoDirs
<1>1. p \in Seq(Nat)
  BY PathsAreNames
<1>2. Dirs = Parents(p)
  BY DEF Dirs
<1>3. p \notin Dirs
  BY <1>1, <1>2, ParentsAreAbove
<1> QED
  BY <1>3 DEF FilesAreNoDirs

LEMMA OnePathOps ==
  ASSUME NEW p, Paths = {p}, NEW m, NEW renames \in RenameMaps(m)
  PROVE  AllOps(m, renames) = PathOps(m, p, {})
<1>1. \A src, tgt : RenamesFrom(m, src, tgt, p) = {}
  BY DEF RenamesFrom
<1>2. \A tgt : NewNames(m, tgt, p) = {}
  BY <1>1 DEF NewNames
<1>3. DOMAIN renames = {}
  BY <1>2 DEF RenameMaps
<1>4. RenameHandled(renames) = {}
  BY <1>3 DEF RenameHandled
<1>5. \A o : o \in AllOps(m, renames) <=> o \in PathOps(m, p, {})
  BY <1>3, <1>4 DEF AllOps
<1> QED
  BY <1>5

LEMMA OnePathPlan ==
  ASSUME NEW p, Paths = {p}, NEW m, DOMAIN m \subseteq Drives, NEW ops \in Plans(m)
  PROVE  HasAllOps(ops, PathOps(m, p, {}))
<1>1. PICK renames \in RenameMaps(m) : HasAllOps(ops, AllOps(m, renames))
  BY OnePathIsNoDir, PlanHasAllOps
<1> QED
  BY <1>1, OnePathOps

LEMMA NothingToPlan ==
  ASSUME NEW p, Paths = {p}, NEW m, DOMAIN m \subseteq Drives, PathOps(m, p, {}) = {}
  PROVE  Plans(m) = {<<>>}
<1>1. PICK renames : renames \in RenameMaps(m)
  <2>1. \A src, tgt : RenamesFrom(m, src, tgt, p) = {}
    BY DEF RenamesFrom
  <2>2. \A tgt : NewNames(m, tgt, p) = {}
    BY <2>1 DEF NewNames
  <2>3. PICK renamed : renamed = {x \in (DOMAIN m) \X Paths : NewNames(m, x[1], x[2]) # {}}
    OBVIOUS
  <2>4. renamed = {}
    BY <2>2, <2>3
  <2>5. RenameMaps(m) = {f \in [renamed -> Paths] : \A x \in renamed : f[x] \in NewNames(m, x[1], x[2])}
    BY <2>3 DEF RenameMaps
  <2>6. [x \in renamed |-> p] \in [renamed -> Paths]
    OBVIOUS
  <2> QED
    BY <2>4, <2>5, <2>6
<1>2. ASSUME NEW r \in RenameMaps(m)
      PROVE  Coalesce(TopologicalSort(WithMkdirs(InOrder(AllOps(m, r), Before)))) = <<>>
  <2>1. PICK A : A = AllOps(m, r)
    OBVIOUS
  <2>2. A = {}
    BY <2>1, OnePathOps
  <2>3. A \in SUBSET FileOps({}, {}) /\ IsFiniteSet(A) /\ OnePerPath(A)
    BY <2>2, FS_EmptySet DEF OnePerPath
  <2>4. PICK planned \in Seq(A) : planned = InOrder(A, Before)
    BY <2>3, InOrderType
  <2>5. PICK more \in Seq(A) : more = WithMkdirs(planned)
    <3>1. \A o \in A, dir \in Dirs : Mkdir(o, dir) \in A
      BY <2>2
    <3>2. WithMkdirs(planned) \in Seq(A \cup A)
      BY <2>3, <3>1, WithMkdirsType
    <3>3. A \cup A = A
      OBVIOUS
    <3> QED
      BY <3>2, <3>3
  <2>6. PICK sorted \in Seq(A) : sorted = TopologicalSort(more)
    <3>1. AreTargets(A)
      BY <2>2 DEF AreTargets
    <3> QED
      BY <3>1, OnePathIsNoDir, SortPutsParentsFirst
  <2>7. Coalesce(sorted) \in Seq(A)
    BY CoalesceFacts
  <2>8. \A s \in Seq({}) : s = <<>>
    OBVIOUS
  <2> QED
    BY <2>1, <2>2, <2>4, <2>5, <2>6, <2>7, <2>8
<1>3. \A ops : ops \in Plans(m) <=>
        \E r \in RenameMaps(m) :
          ops = Coalesce(TopologicalSort(WithMkdirs(InOrder(AllOps(m, r), Before))))
  BY DEF Plans
<1>4. \A ops : ops \in Plans(m) <=> ops = <<>>
  BY <1>1, <1>2, <1>3
<1> QED
  BY <1>4

LEMMA OnePathIsQuiet ==
  ASSUME NEW p, Paths = {p}
  PROVE  Spec => []QuietSyncs
<1> DEFINE NoRename == \A i \in DOMAIN plan : plan[i].type # "RENAME"
<1>1. Range(Tmp) = {}
  <2>1. ASSUME NEW q \in DOMAIN Tmp
        PROVE  FALSE
    <3>1. Tmp[q] = p /\ q = p /\ p \notin Range(Tmp)
      BY PathsAssumption
    <3> QED
      BY <3>1 DEF Range
  <2> QED
    BY <2>1 DEF Range
<1>2. Init => VaultInv /\ NoRename
  <2>1. Init => VaultInv
    BY VaultInit
  <2>2. Init => plan = <<>>
    BY DEF Init
  <2> QED
    BY <2>1, <2>2
<1>3. VaultInv /\ NoRename /\ [Next]_vars => NoRename'
  <2> SUFFICES ASSUME VaultInv, NoRename, [Next]_vars
               PROVE  NoRename'
    OBVIOUS
  <2>1. ASSUME plan' = <<>> \/ plan' = plan
        PROVE  NoRename'
    BY <2>1
  <2>2. ASSUME plan # <<>>, plan' = Tail(plan)
        PROVE  NoRename'
    <3>1. PICK ops \in Seq(Operation) : ops = plan /\ ops # <<>>
      BY <2>2 DEF VaultInv, PlanIsSound
    <3>2. PICK l \in Nat : l = Len(ops) /\ DOMAIN ops = 1 .. l
      OBVIOUS
    <3>3. l # 0
      BY <3>1, <3>2, EmptySeq
    <3>4. PICK s : s = Tail(ops)
      OBVIOUS
    <3>5. DOMAIN s = 1 .. l - 1 /\ \A i \in 1 .. l - 1 : s[i] = ops[i + 1]
      BY <3>1, <3>2, <3>3, <3>4
    <3>6. \A i \in 1 .. l - 1 : i + 1 \in 1 .. l
      OBVIOUS
    <3> QED
      BY <2>2, <3>1, <3>2, <3>4, <3>5, <3>6
  <2>3. ASSUME NEW connected \in SUBSET Drives, Sync(connected)
        PROVE  NoRename'
    <3>1. PICK m : m = [d \in connected |-> manifest[d]] /\ plan' \in Plans(m)
      BY <2>3 DEF Sync
    <3>2. DOMAIN m \subseteq Drives
      BY <3>1
    <3>3. PICK ops \in Plans(m) : ops = plan'
      BY <3>1
    <3>4. HasAllOps(ops, PathOps(m, p, {}))
      BY <3>2, OnePathPlan
    <3>5. \A o \in PathOps(m, p, {}) : o.type # "RENAME"
      BY <3>2, PathOpsFacts
    <3>6. \A i \in DOMAIN ops : ops[i].type # "RENAME"
      BY <3>4, <3>5 DEF HasAllOps
    <3> QED
      BY <3>3, <3>6
  <2>4. CASE Execute \/ ExecuteFails
    BY <2>2, <2>4 DEF Execute, ExecuteFails
  <2>5. CASE Crash
    BY <2>1, <2>5 DEF Crash
  <2>6. ASSUME NEW d \in Drives, ScanFallsShort(d) \/ Rebuild(d) \/ \E unreadable \in SUBSET Paths : Scan(d, unreadable)
        PROVE  NoRename'
    BY <2>1, <2>6 DEF ScanFallsShort, Rebuild, Scan
  <2>7. ASSUME NEW q \in Paths, NEW useDrive \in Drives, NEW connected \in SUBSET Drives,
               Resolves(q, useDrive, connected) \/ ResolveDies(q, useDrive, connected)
        PROVE  NoRename'
    BY <2>1, <2>7 DEF Resolves, ResolveDies
  <2>8. ASSUME NEW d \in Drives, NEW q \in Paths,
               \/ \E content \in Contents, mtime \in Times : UserWrite(d, q, content, mtime)
               \/ UserDelete(d, q)
               \/ \E newPath \in Paths : UserMove(d, q, newPath)
        PROVE  NoRename'
    <3>1. \E f, changes : Changed(d, f, changes)
      BY <2>8 DEF UserWrite, UserDelete, UserMove
    <3> QED
      BY <2>1, <3>1 DEF Changed
  <2>9. CASE UNCHANGED vars
    BY <2>1, <2>9 DEF vars
  <2>10. CASE Execute \/ ExecuteFails \/ Crash
    BY <2>4, <2>5, <2>10
  <2> HIDE DEF NoRename
  <2> QED
    BY <2>3, <2>6, <2>7, <2>8, <2>9, <2>10 DEF Next
<1>4. NoRename => QuietSyncs
  BY <1>1 DEF QuietSyncs
<1>5. VaultInv /\ [Next]_vars => VaultInv'
  BY VaultStep
<1> HIDE DEF NoRename
<1> QED
  BY <1>2, <1>3, <1>4, <1>5, PTL DEF Spec

LEMMA OnePathIsPlain ==
  ASSUME NEW p, Paths = {p}
  PROVE  Spec => []PlainSyncs
<1>1. QuietSyncs => PlainSyncs
  BY DEF QuietSyncs, PlainSyncs
<1>2. Spec => []QuietSyncs
  BY OnePathIsQuiet
<1> QED
  BY <1>1, <1>2, PTL

\* With a single path, no sync renames anything and there is no room for a
\* temporary file: every undisturbed sync of all scanned drives leaves the same
\* file on all of them, and no condition is left.
THEOREM OnePathConverges ==
  ASSUME NEW p, Paths = {p}
  PROVE  Spec => []Converged
<1>1. Spec => []PlainSyncs
  BY OnePathIsPlain
<1>2. Spec /\ []PlainSyncs => []Converged
  BY OnePathIsNoDir, SyncsConverge
<1> QED
  BY <1>1, <1>2, PTL

-----------------------------------------------------------------------------
(* Versions of one content                                                 *)

\* All drives have p with one content.
Alike(m, p) == \A d, e \in Drives : IsLive(m, d, p) /\ m[d][p].hash = m[e][p].hash
Gone(m, p) == \A d \in Drives : ~IsLive(m, d, p)

\* No drive's clocks are ahead of k's anywhere.
IsTop(m, p, k) == \A d \in Drives : ~Exceeds(m[d][p].vv, m[k][p].vv)

\* Nothing is to be planned, or only vectors are behind.
Calm(m, p) == Gone(m, p) \/ (Alike(m, p) /\ PathOps(m, p, {}) = {})
Ripe(m, p) == Alike(m, p) /\ \E k \in Drives : IsTop(m, p, k)

\* The same to planner and resolver, whatever their times.
Same(r, s) ==
  IF s = None THEN r = None
  ELSE r # None /\ (r.tombstone <=> s.tombstone) /\ r.vv = s.vv /\ (~s.tombstone => r.hash = s.hash)

\* NewestVersion is the end of a chain.
LEMMA NewestChain ==
  ASSUME NEW D \in SUBSET Drives, D # {}, NEW v, DOMAIN v = D
  PROVE  \E S \in SUBSET D : (\A d \in D : d \in S <=> Follows(v, S, d)) /\ NewestVersion(v) = Max(S)
<1>1. D \subseteq Nat /\ IsFiniteSet(D)
  <2>1. D \subseteq Nat
    BY DrivesAreOrdered
  <2> QED
    BY <2>1, FS_Subset, VaultAssumption
<1>2. Max(D) \in Nat /\ \A d \in D : d \in Nat /\ Max(D) >= d
  BY <1>1, GreatestChosen
<1>3. PICK n \in Nat : n = Max(D)
  BY <1>2
<1>4. \A d \in D : d <= n
  BY <1>2, <1>3
<1>5. \E S \in SUBSET D : IsChain(v, S, n)
  BY ChainExists
<1>6. \E S \in SUBSET DOMAIN v : \A d \in DOMAIN v : d \in S <=> Follows(v, S, d)
  BY <1>4, <1>5 DEF IsChain
<1>7. PICK c : c = CHOOSE S \in SUBSET DOMAIN v : \A d \in DOMAIN v : d \in S <=> Follows(v, S, d)
  OBVIOUS
<1>8. c \in SUBSET DOMAIN v /\ \A d \in DOMAIN v : d \in c <=> Follows(v, c, d)
  BY <1>6, <1>7
<1>9. NewestVersion(v) = Max(c)
  BY <1>7 DEF NewestVersion, Follows
<1> QED
  BY <1>8, <1>9

\* The vectors decide which drive has the newest version.
LEMMA SameNewest ==
  ASSUME NEW D \in SUBSET Drives, D # {}, NEW v, NEW w, DOMAIN v = D, DOMAIN w = D,
         \A d \in D : v[d].vv = w[d].vv
  PROVE  NewestVersion(v) = NewestVersion(w)
<1> DEFINE IsWhole(u, S) == \A d \in D : d \in S <=> Follows(u, S, d)
<1>1. D \subseteq Nat /\ IsFiniteSet(D)
  <2>1. D \subseteq Nat
    BY DrivesAreOrdered
  <2> QED
    BY <2>1, FS_Subset, VaultAssumption
<1>4. PICK S \in SUBSET D : IsWhole(v, S) /\ NewestVersion(v) = Max(S)
  BY NewestChain
<1>5. PICK T \in SUBSET D : IsWhole(w, T) /\ NewestVersion(w) = Max(T)
  BY NewestChain
<1>6. ASSUME {d \in D : ~(d \in S <=> d \in T)} # {}
      PROVE  FALSE
  <2>1. PICK U : U = {d \in D : ~(d \in S <=> d \in T)}
    OBVIOUS
  <2>2. U \subseteq Nat /\ U # {}
    BY <1>1, <1>6, <2>1
  <2>3. PICK d \in U : \A e \in U : d <= e
    BY <2>2, LeastNumber
  <2>4. d \in D /\ d \in Nat /\ ~(d \in S <=> d \in T)
    BY <2>1, <2>2
  <2>5. ASSUME NEW e
        PROVE  e \in {x \in S : x < d} <=> e \in {x \in T : x < d}
    <3>1. CASE e \in D /\ e < d
      <4>1. e \in Nat
        BY <1>1, <3>1
      <4>2. e \notin U
        BY <2>3, <2>4, <3>1, <4>1
      <4> QED
        BY <2>1, <3>1, <4>2
    <3>2. CASE ~(e \in D /\ e < d)
      BY <3>2
    <3> QED
      BY <3>1, <3>2
  <2>6. PICK before : before = {x \in S : x < d}
    OBVIOUS
  <2>7. before = {x \in T : x < d}
    BY <2>5, <2>6
  <2>8. Follows(v, S, d) <=> d = Min(D) \/ Compare(v[d].vv, v[Max(before)].vv) = "DOMINATES"
    BY <2>6 DEF Follows
  <2>9. Follows(w, T, d) <=> d = Min(D) \/ Compare(w[d].vv, w[Max(before)].vv) = "DOMINATES"
    BY <2>7 DEF Follows
  <2>10. d # Min(D) => before # {}
    <3>1. Min(D) \in D /\ Min(D) \in Nat /\ Min(D) <= d
      BY <1>1, <2>4, LeastChosen
    <3>2. Min(D) \in S
      BY <1>4, <3>1 DEF Follows
    <3>3. PICK k \in Nat : k = Min(D)
      BY <3>1
    <3>4. k # d => k < d
      BY <2>4, <3>1, <3>3
    <3> QED
      BY <2>6, <3>2, <3>3, <3>4
  <2>11. before # {} => Max(before) \in D
    <3>1. before \subseteq Nat /\ before \subseteq D /\ IsFiniteSet(before)
      <4>1. before \subseteq D
        BY <2>6
      <4> QED
        BY <1>1, <4>1, FS_Subset
    <3> QED
      BY <3>1, GreatestChosen
  <2>12. Follows(v, S, d) <=> Follows(w, T, d)
    BY <2>4, <2>8, <2>9, <2>10, <2>11
  <2> QED
    BY <1>4, <1>5, <2>4, <2>12
<1>7. S = T
  BY <1>6
<1> QED
  BY <1>4, <1>5, <1>7

\* And which drive has the one to follow, if all have one content.
LEMMA SameSource ==
  ASSUME NEW p, Paths = {p}, Drives # {}, NEW m, NEW n, DOMAIN m = Drives, DOMAIN n = Drives,
         Alike(m, p), Alike(n, p), \A d \in Drives : m[d][p].vv = n[d][p].vv
  PROVE  SourceDrive(m, p) = SourceDrive(n, p)
<1>1. PICK v : v = Versions(m, p)
  OBVIOUS
<1>2. PICK w : w = Versions(n, p)
  OBVIOUS
<1>3. ASSUME NEW l, DOMAIN l = Drives, Alike(l, p), NEW u, u = Versions(l, p)
      PROVE  /\ DOMAIN u = Drives
             /\ \A d \in Drives : u[d].vv = l[d][p].vv /\ ~u[d].tombstone
             /\ \A d, e \in Drives : u[d].hash = u[e].hash
  <2>1. \A d \in Drives : l[d][p] # None /\ ~l[d][p].tombstone
    BY <1>3 DEF Alike, IsLive
  <2>2. DOMAIN u = Drives /\ \A d \in Drives : u[d] = l[d][p]
    BY <1>3, <2>1 DEF Versions
  <2>3. \A d, e \in Drives : l[d][p].hash = l[e][p].hash
    BY <1>3 DEF Alike
  <2> QED
    BY <2>1, <2>2, <2>3
<1>4. /\ DOMAIN v = Drives
      /\ \A d \in Drives : v[d].vv = m[d][p].vv /\ ~v[d].tombstone
      /\ \A d, e \in Drives : v[d].hash = v[e].hash
  BY <1>1, <1>3
<1>5. /\ DOMAIN w = Drives
      /\ \A d \in Drives : w[d].vv = m[d][p].vv /\ ~w[d].tombstone
      /\ \A d, e \in Drives : w[d].hash = w[e].hash
  BY <1>2, <1>3
<1>6. PICK total : total = Cardinality(Drives)
  OBVIOUS
<1>7. PICK best : best = DominantVersion(v)
  OBVIOUS
<1>8. best = DominantVersion(w)
  <2>1. \A d : d \in DominantVersion(v) <=> d \in DominantVersion(w)
    BY <1>4, <1>5 DEF DominantVersion
  <2> QED
    BY <1>7, <2>1
<1>9. ASSUME NEW u, DOMAIN u = Drives, \A d \in Drives : ~u[d].tombstone,
             \A d, e \in Drives : u[d].hash = u[e].hash
      PROVE  MajorityQuorum(u, total) = Drives
  <2>1. LiveVersions(u) = Drives
    BY <1>9 DEF LiveVersions
  <2>2. total \in Nat /\ total # 0
    <3>1. IsFiniteSet(Drives)
      BY VaultAssumption
    <3> QED
      BY <1>6, <3>1, FS_CardinalityType, FS_EmptySet
  <2>3. ASSUME NEW d \in Drives
        PROVE  2 * Cardinality({e \in LiveVersions(u) : u[e].hash = u[d].hash}) > total
    <3>1. {e \in LiveVersions(u) : u[e].hash = u[d].hash} = Drives
      BY <1>9, <2>1
    <3>2. 2 * total > total
      BY <2>2
    <3> QED
      BY <1>6, <3>1, <3>2
  <2>4. \A d : d \in MajorityQuorum(u, total) <=> d \in Drives
    BY <2>1, <2>3 DEF MajorityQuorum
  <2> QED
    BY <2>4
<1>10. PICK x : x = IF best # {} THEN Min(best) ELSE Min(Drives)
  OBVIOUS
<1>11. Resolve(v, total) = x
  <2>1. MajorityQuorum(v, total) = Drives
    BY <1>4, <1>9
  <2> QED
    BY <1>7, <1>10, <2>1, Zenon DEF Resolve
<1>12. Resolve(w, total) = x
  <2>1. MajorityQuorum(w, total) = Drives
    BY <1>5, <1>9
  <2> QED
    BY <1>8, <1>10, <2>1, Zenon DEF Resolve
<1>13. InConflict(v) <=> InConflict(w)
  <2>1. InConflict(v) <=> \E d, e \in Drives : Compare(v[d].vv, v[e].vv) = "CONCURRENT"
    BY <1>4 DEF InConflict, Revives
  <2>2. InConflict(w) <=> \E d, e \in Drives : Compare(w[d].vv, w[e].vv) = "CONCURRENT"
    BY <1>5 DEF InConflict, Revives
  <2> QED
    BY <1>4, <1>5, <2>1, <2>2
<1>14. Resolutions(m) = Resolutions(n)
  <2>1. \A q : q \in Conflicts(m) <=> q = p /\ InConflict(v)
    BY <1>1 DEF Conflicts
  <2>2. \A q : q \in Conflicts(n) <=> q = p /\ InConflict(w)
    BY <1>2 DEF Conflicts
  <2>3. Winner(m, p) = x /\ Winner(n, p) = x
    BY <1>1, <1>2, <1>6, <1>11, <1>12 DEF Winner
  <2>4. \A y : y \in Resolutions(m) <=> y \in Resolutions(n)
    BY <1>13, <2>1, <2>2, <2>3 DEF Resolutions
  <2> QED
    BY <2>4
<1> DEFINE Usable(u, winner) ==
             /\ winner \in DOMAIN u
             /\ \E d \in DOMAIN u : Compare(u[winner].vv, u[d].vv) = "CONCURRENT"
<1>15. PICK usable : usable = {y \in Resolutions(m) : Usable(v, y[2])}
  OBVIOUS
<1>16. usable = {y \in Resolutions(n) : Usable(w, y[2])}
  <2>1. \A y : Usable(v, y) <=> Usable(w, y)
    BY <1>4, <1>5
  <2> HIDE DEF Usable
  <2> QED
    BY <1>14, <1>15, <2>1
<1>17. PICK chosen : chosen = CHOOSE winner \in Drives :
            \E q \in Paths : <<q, winner>> \in usable /\ \A y \in usable : ~PathLess(y[1], q)
  OBVIOUS
<1>18. SourceDrive(m, p) = IF usable = {} THEN NewestVersion(v) ELSE chosen
  BY <1>1, <1>15, <1>17 DEF SourceDrive
<1>19. SourceDrive(n, p) = IF usable = {} THEN NewestVersion(w) ELSE chosen
  BY <1>2, <1>16, <1>17 DEF SourceDrive
<1>20. NewestVersion(v) = NewestVersion(w)
  BY <1>4, <1>5, SameNewest
<1> QED
  BY <1>18, <1>19, <1>20

\* Vectors, one of which is nowhere behind another.
LEMMA TopDominates ==
  ASSUME NEW v \in Vector, NEW w \in Vector, ~Exceeds(w, v)
  PROVE  Compare(w, v) # "DOMINATES" /\ (w = v \/ Compare(v, w) = "DOMINATES")
<1>1. Compare(w, v) # "DOMINATES"
  BY DEF Compare
<1>2. ASSUME w # v
      PROVE  Exceeds(v, w)
  <2>1. PICK d \in Drives : w[d] # v[d]
    BY <1>2 DEF Vector
  <2>2. w[d] \in Nat /\ v[d] \in Nat /\ ~(w[d] > v[d])
    BY DEF Exceeds, Vector
  <2>3. v[d] > w[d]
    BY <2>1, <2>2
  <2> QED
    BY <2>3 DEF Exceeds
<1> QED
  BY <1>1, <1>2 DEF Compare

\* The first top version is the newest.
LEMMA TopIsNewest ==
  ASSUME NEW D \in SUBSET Drives, NEW v, DOMAIN v = D, \A d \in D : v[d].vv \in Vector,
         NEW k \in D, \A d \in D : ~Exceeds(v[d].vv, v[k].vv)
  PROVE  /\ NewestVersion(v) \in D /\ v[NewestVersion(v)].vv = v[k].vv
         /\ \A d \in D : v[d].vv = v[k].vv => NewestVersion(v) <= d
<1>1. D \subseteq Nat /\ IsFiniteSet(D)
  <2>1. D \subseteq Nat
    BY DrivesAreOrdered
  <2> QED
    BY <2>1, FS_Subset, VaultAssumption
<1>2. PICK top \in Vector : top = v[k].vv
  OBVIOUS
<1>3. \A d \in D : Compare(v[d].vv, top) # "DOMINATES" /\ (v[d].vv = top \/ Compare(top, v[d].vv) = "DOMINATES")
  BY <1>2, TopDominates
<1>4. PICK c \in SUBSET D : (\A d \in D : d \in c <=> Follows(v, c, d)) /\ NewestVersion(v) = Max(c)
  BY NewestChain
<1>5. Min(D) \in D /\ \A d \in D : Min(D) <= d
  BY <1>1, LeastChosen
<1>6. PICK least \in Nat : least = Min(D) /\ least \in D /\ \A d \in D : d \in Nat /\ least <= d
  BY <1>1, <1>5
<1>7. PICK Tops : Tops = {d \in D : v[d].vv = top}
  OBVIOUS
<1>8. Tops \subseteq Nat /\ k \in Tops
  BY <1>1, <1>2, <1>7
<1>9. PICK t \in Tops : \A d \in Tops : t <= d
  BY <1>8, LeastNumber
<1>10. t \in D /\ t \in Nat /\ v[t].vv = top
  BY <1>7, <1>8
<1>11. least \in c
  BY <1>4, <1>6 DEF Follows
<1>12. t \in c
  <2>1. CASE t = least
    BY <1>11, <2>1
  <2>2. CASE t # least
    <3>1. PICK before : before = {x \in c : x < t}
      OBVIOUS
    <3>2. least < t
      BY <1>6, <1>10, <2>2
    <3>3. before \subseteq Nat /\ before # {} /\ IsFiniteSet(before)
      <4>1. before \subseteq D /\ least \in before
        BY <1>11, <3>1, <3>2
      <4> QED
        BY <1>1, <4>1, FS_Subset
    <3>4. PICK q : q = Max(before) /\ q \in before
      BY <3>3, GreatestChosen
    <3>5. q \in D /\ q \in Nat /\ q < t
      BY <1>6, <3>1, <3>4
    <3>6. q \notin Tops
      <4>1. ~(t <= q)
        BY <1>10, <3>5
      <4> QED
        BY <1>9, <4>1
    <3>7. Compare(v[t].vv, v[q].vv) = "DOMINATES"
      BY <1>3, <1>7, <1>10, <3>5, <3>6
    <3>8. Follows(v, c, t)
      BY <3>1, <3>4, <3>7 DEF Follows
    <3> QED
      BY <1>4, <1>10, <3>8
  <2> QED
    BY <2>1, <2>2
<1>13. ASSUME NEW U, U = {e \in c : e > t}, U # {}
       PROVE  FALSE
  <2>1. U \subseteq Nat
    BY <1>6, <1>13
  <2>2. PICK u \in U : \A e \in U : u <= e
    BY <1>13, <2>1, LeastNumber
  <2>3. u \in c /\ u \in D /\ u \in Nat /\ u > t
    BY <1>13, <2>1
  <2>4. PICK before : before = {x \in c : x < u}
    OBVIOUS
  <2>5. before \subseteq Nat /\ t \in before
    BY <1>6, <1>10, <1>12, <2>3, <2>4
  <2>6. ASSUME NEW e \in before
        PROVE  t >= e
    <3>1. e \in c /\ e < u /\ e \in Nat
      BY <2>4, <2>5
    <3>2. e \notin U
      BY <2>2, <2>3, <3>1
    <3>3. ~(e > t)
      BY <1>13, <3>1, <3>2
    <3> QED
      BY <1>10, <3>1, <3>3
  <2>7. Max(before) = t
    BY <2>5, <2>6, LargestNumber
  <2>8. u # Min(D)
    <3>1. least <= t
      BY <1>6, <1>10
    <3> QED
      BY <1>6, <1>10, <2>3, <3>1
  <2>9. Follows(v, c, u)
    BY <1>4, <2>3
  <2>10. Compare(v[u].vv, v[t].vv) = "DOMINATES"
    BY <2>4, <2>7, <2>8, <2>9 DEF Follows
  <2> QED
    BY <1>3, <1>10, <2>3, <2>10
<1>14. \A e \in c : e \in Nat /\ t >= e
  <2>1. \A e \in c : e \in Nat /\ ~(e > t)
    BY <1>6, <1>13
  <2> QED
    BY <1>10, <2>1
<1>15. Max(c) = t
  <2>1. c \subseteq Nat
    BY <1>14
  <2> QED
    BY <1>12, <1>14, <2>1, LargestNumber
<1>16. \A d \in D : v[d].vv = top => t <= d
  BY <1>7, <1>9
<1> QED
  BY <1>2, <1>4, <1>10, <1>15, <1>16

\* And the one to follow: nothing is in conflict with it.
LEMMA TopIsSource ==
  ASSUME NEW p, Paths = {p}, NEW m, AreManifests(m), DOMAIN m = Drives, Alike(m, p),
         NEW k \in Drives, IsTop(m, p, k)
  PROVE  SourceDrive(m, p) \in Drives /\ m[SourceDrive(m, p)][p].vv = m[k][p].vv
<1>1. PICK v : v = Versions(m, p)
  OBVIOUS
<1>2. \A d \in Drives : m[d][p] # None
  BY DEF Alike, IsLive
<1>3. DOMAIN v = Drives /\ \A d \in Drives : v[d] = m[d][p]
  BY <1>1, <1>2 DEF Versions
<1>4. \A d \in Drives : v[d].vv \in Vector
  <2>1. \A d \in Drives : m[d][p] \in Entry
    BY <1>2 DEF AreManifests
  <2> QED
    BY <1>3, <2>1 DEF Entry
<1>5. \A d \in Drives : ~Exceeds(v[d].vv, v[k].vv)
  BY <1>3 DEF IsTop
<1>6. PICK best : best = DominantVersion(v)
  OBVIOUS
<1>7. k \in best
  <2>1. \A d \in Drives : Compare(v[k].vv, v[d].vv) \in {"DOMINATES", "EQUAL"}
    BY <1>5 DEF Compare
  <2> QED
    BY <1>3, <1>6, <2>1 DEF DominantVersion
<1>8. PICK x : x = Min(best)
  OBVIOUS
<1>9. x \in best
  <2>1. best \subseteq Nat
    BY <1>3, <1>6, DrivesAreOrdered DEF DominantVersion
  <2> QED
    BY <1>7, <1>8, <2>1, LeastChosen
<1>10. \A d \in Drives : Compare(v[x].vv, v[d].vv) # "CONCURRENT"
  BY <1>3, <1>6, <1>9 DEF DominantVersion
<1>11. Winner(m, p) = x
  BY <1>1, <1>6, <1>7, <1>8 DEF Winner, Resolve
<1>12. SourceDrive(m, p) = NewestVersion(v)
  <2> DEFINE Usable(winner) ==
               /\ winner \in DOMAIN v
               /\ \E d \in DOMAIN v : Compare(v[winner].vv, v[d].vv) = "CONCURRENT"
             usable == {y \in Resolutions(m) : Usable(y[2])}
  <2>1. \A y \in Resolutions(m) : y[2] = x
    BY <1>11 DEF Resolutions, Conflicts
  <2>2. usable = {}
    BY <1>3, <1>10, <2>1
  <2> QED
    BY <1>1, <2>2 DEF SourceDrive
<1>13. NewestVersion(v) \in Drives /\ v[NewestVersion(v)].vv = v[k].vv
  BY <1>3, <1>4, <1>5, TopIsNewest
<1> QED
  BY <1>3, <1>12, <1>13

-----------------------------------------------------------------------------
(* What is planned for a path that all drives hold alike, or not at all    *)

\* A drive is behind if the source's vector dominates its own.
LEMMA AlikePlans ==
  ASSUME NEW p, Paths = {p}, Drives # {}, NEW m, DOMAIN m = Drives, Alike(m, p),
         NEW src, src = SourceDrive(m, p)
  PROVE  /\ src \in Drives
         /\ PathOps(m, p, {}) = Updates(m, p, src, Drives)
         /\ \A d : Needed(m, p, src, d) # None <=>
                     ~IsLive(m, d, p) \/ Compare(m[src][p].vv, m[d][p].vv) = "DOMINATES"
                       \/ m[src][p].hash # m[d][p].hash
<1>1. DOMAIN Versions(m, p) = Drives
  BY DEF Versions, Alike, IsLive
<1>2. src \in Drives
  BY <1>1, SourceExists
<1>3. PICK e : e = {d \in DOMAIN m : IsTombstone(m, d, p)}
  OBVIOUS
<1>4. PICK t : t = {d \in DOMAIN m : <<d, p>> \notin {}}
  OBVIOUS
<1>5. t = Drives
  BY <1>4
<1>6. e = {}
  BY <1>3 DEF Alike, IsLive, IsTombstone
<1>7. ~(2 * Cardinality(e) > Cardinality(DOMAIN m))
  <2>1. Cardinality({}) = 0 /\ IsFiniteSet(DOMAIN m)
    BY FS_EmptySet, VaultAssumption
  <2>2. PICK k \in Nat : k = Cardinality(DOMAIN m)
    BY <2>1, FS_CardinalityType
  <2> QED
    BY <1>6, <2>1, <2>2
<1>8. PathOps(m, p, {}) = UNION {Updates(m, p, x, t) : x \in {src}}
  <2>1. PathOps(m, p, {}) = UNION {Updates(m, p, x, t) :
           x \in IF DOMAIN Versions(m, p) = {} THEN {} ELSE {SourceDrive(m, p)}}
    BY <1>3, <1>4, <1>7, Zenon DEF PathOps
  <2> QED
    BY <1>1, <2>1
<1>9. PathOps(m, p, {}) = Updates(m, p, src, Drives)
  BY <1>5, <1>8
<1>10. ~m[src][p].tombstone
  BY <1>2 DEF Alike, IsLive
<1>11. ASSUME NEW d
       PROVE  Needed(m, p, src, d) # None <=>
                ~IsLive(m, d, p) \/ Compare(m[src][p].vv, m[d][p].vv) = "DOMINATES"
                  \/ m[src][p].hash # m[d][p].hash
  BY <1>10, NoneIsNoType DEF Needed
<1> QED
  BY <1>2, <1>9, <1>11

\* No operation is planned for a drive that needs none, and one for each other.
LEMMA UpdateTargets ==
  ASSUME NEW m, NEW p, NEW src
  PROVE  /\ \A o \in Updates(m, p, src, Drives) :
              /\ o.target \in Drives \ {src} /\ Needed(m, p, src, o.target) # None
              /\ o.type = Needed(m, p, src, o.target) /\ o.source = src /\ o.path = p
              /\ o.vv = PlannedVector(m, p, src)
         /\ \A d \in Drives \ {src} : Needed(m, p, src, d) # None =>
              \E o \in Updates(m, p, src, Drives) : o.target = d
<1>1. PICK v : v = PlannedVector(m, p, src)
  OBVIOUS
<1>2. PICK A : A = Updates(m, p, src, Drives)
  OBVIOUS
<1>3. A = {SyncOp(Needed(m, p, src, tgt), src, tgt, p, p, v) :
             tgt \in {d \in Drives \ {src} : Needed(m, p, src, d) # None}}
  BY <1>1, <1>2 DEF Updates
<1>4. ASSUME NEW o \in A
      PROVE  /\ o.target \in Drives \ {src} /\ Needed(m, p, src, o.target) # None
             /\ o.type = Needed(m, p, src, o.target) /\ o.source = src /\ o.path = p /\ o.vv = v
  <2>1. PICK tgt \in Drives \ {src} : /\ Needed(m, p, src, tgt) # None
                                     /\ o = SyncOp(Needed(m, p, src, tgt), src, tgt, p, p, v)
    BY <1>3
  <2>2. PICK type : type = Needed(m, p, src, tgt)
    OBVIOUS
  <2>3. o.type = type /\ o.source = src /\ o.target = tgt /\ o.path = p /\ o.vv = v
    BY <2>1, <2>2, SyncOpFields
  <2> QED
    BY <2>1, <2>2, <2>3
<1>5. ASSUME NEW d \in Drives \ {src}, Needed(m, p, src, d) # None
      PROVE  \E o \in A : o.target = d
  <2>1. PICK type : type = Needed(m, p, src, d)
    OBVIOUS
  <2>2. PICK o : o = SyncOp(type, src, d, p, p, v)
    OBVIOUS
  <2>3. o.target = d
    BY <2>2, SyncOpFields
  <2>4. o \in A
    BY <1>3, <1>5, <2>1, <2>2
  <2> QED
    BY <2>3, <2>4
<1> QED
  BY <1>1, <1>2, <1>4, <1>5

LEMMA AlikeIsCalm ==
  ASSUME NEW p, Paths = {p}, Drives # {}, NEW m, DOMAIN m = Drives, Alike(m, p),
         NEW src, src = SourceDrive(m, p)
  PROVE  PathOps(m, p, {}) = {} <=>
           \A d \in Drives \ {src} : Compare(m[src][p].vv, m[d][p].vv) # "DOMINATES"
<1>1. /\ src \in Drives
      /\ PathOps(m, p, {}) = Updates(m, p, src, Drives)
      /\ \A d : Needed(m, p, src, d) # None <=>
                  ~IsLive(m, d, p) \/ Compare(m[src][p].vv, m[d][p].vv) = "DOMINATES"
                    \/ m[src][p].hash # m[d][p].hash
  BY AlikePlans
<1>2. \A d \in Drives : Needed(m, p, src, d) # None <=> Compare(m[src][p].vv, m[d][p].vv) = "DOMINATES"
  BY <1>1 DEF Alike
<1>3. PICK A : A = Updates(m, p, src, Drives)
  OBVIOUS
<1>4. /\ \A o \in A : o.target \in Drives \ {src} /\ Needed(m, p, src, o.target) # None
      /\ \A d \in Drives \ {src} : Needed(m, p, src, d) # None => \E o \in A : o.target = d
  BY <1>3, UpdateTargets
<1> QED
  BY <1>1, <1>2, <1>3, <1>4

LEMMA CalmPlans ==
  ASSUME NEW p, Paths = {p}, NEW m, DOMAIN m = Drives, Calm(m, p)
  PROVE  PathOps(m, p, {}) = {}
<1> SUFFICES ASSUME Gone(m, p)
             PROVE  PathOps(m, p, {}) = {}
  BY DEF Calm
<1>1. PICK e : e = {d \in DOMAIN m : IsTombstone(m, d, p)}
  OBVIOUS
<1>2. PICK t : t = {d \in DOMAIN m : <<d, p>> \notin {}}
  OBVIOUS
<1>3. t = Drives
  BY <1>2
<1>4. \/ PathOps(m, p, {}) = Removals(m, p, e, t)
      \/ PathOps(m, p, {}) = UNION {Updates(m, p, x, t) :
           x \in IF DOMAIN Versions(m, p) = {} THEN {} ELSE {SourceDrive(m, p)}}
  BY <1>1, <1>2, Zenon DEF PathOps
<1>5. Removals(m, p, e, t) = {}
  BY <1>3 DEF Removals, Gone
<1>6. ASSUME DOMAIN Versions(m, p) # {}
      PROVE  Updates(m, p, SourceDrive(m, p), t) = {}
  <2>1. PICK src : src = SourceDrive(m, p)
    OBVIOUS
  <2>2. src \in DOMAIN Versions(m, p)
    BY <1>6, <2>1, SourceExists
  <2>3. src \in Drives /\ m[src][p] # None
    BY <2>2 DEF Versions
  <2>4. m[src][p].tombstone
    BY <2>3 DEF Gone, IsLive
  <2>5. \A d \in Drives : Needed(m, p, src, d) = None
    BY <2>4 DEF Needed, Gone
  <2>6. \A o : o \notin Updates(m, p, src, Drives)
    BY <2>5, UpdateTargets
  <2> QED
    BY <1>3, <2>1, <2>6
<1> QED
  BY <1>4, <1>5, <1>6

\* Neither state of affairs depends on times.
LEMMA SameIsAlike ==
  ASSUME NEW p, NEW m, NEW n, \A d \in Drives : Same(m[d][p], n[d][p])
  PROVE  /\ Gone(n, p) => Gone(m, p)
         /\ Alike(n, p) => Alike(m, p) /\ \A d \in Drives : m[d][p].vv = n[d][p].vv
<1>1. \A d \in Drives : IsLive(m, d, p) <=> IsLive(n, d, p)
  BY DEF Same, IsLive
<1>2. \A d \in Drives : IsLive(n, d, p) => m[d][p].vv = n[d][p].vv /\ m[d][p].hash = n[d][p].hash
  BY DEF Same, IsLive
<1> QED
  BY <1>1, <1>2 DEF Gone, Alike

LEMMA SameIsCalm ==
  ASSUME NEW p, Paths = {p}, NEW m, NEW n, DOMAIN m = Drives, DOMAIN n = Drives,
         \A d \in Drives : Same(m[d][p], n[d][p]), Calm(n, p)
  PROVE  Calm(m, p)
<1>1. CASE Gone(n, p)
  BY <1>1, SameIsAlike DEF Calm
<1>2. CASE Alike(n, p) /\ PathOps(n, p, {}) = {} /\ Drives # {}
  <2>1. Alike(m, p) /\ \A d \in Drives : m[d][p].vv = n[d][p].vv
    BY <1>2, SameIsAlike
  <2>2. PICK src : src = SourceDrive(m, p)
    OBVIOUS
  <2>3. src = SourceDrive(n, p)
    BY <1>2, <2>1, <2>2, SameSource
  <2>4. src \in Drives
    BY <1>2, <2>1, <2>2, AlikePlans
  <2>5. \A d \in Drives \ {src} : Compare(n[src][p].vv, n[d][p].vv) # "DOMINATES"
    BY <1>2, <2>3, AlikeIsCalm
  <2>6. \A d \in Drives \ {src} : Compare(m[src][p].vv, m[d][p].vv) # "DOMINATES"
    BY <2>1, <2>4, <2>5
  <2>7. PathOps(m, p, {}) = {}
    BY <1>2, <2>1, <2>2, <2>6, AlikeIsCalm
  <2> QED
    BY <2>1, <2>7 DEF Calm
<1>3. CASE Drives = {}
  BY <1>3 DEF Calm, Gone
<1> QED
  BY <1>1, <1>2, <1>3 DEF Calm

LEMMA SameIsRipe ==
  ASSUME NEW p, NEW m, NEW n, \A d \in Drives : Same(m[d][p], n[d][p]), Ripe(n, p)
  PROVE  Ripe(m, p)
<1>1. Alike(m, p) /\ \A d \in Drives : m[d][p].vv = n[d][p].vv
  BY SameIsAlike DEF Ripe
<1>2. PICK k \in Drives : IsTop(n, p, k)
  BY DEF Ripe
<1>3. IsTop(m, p, k)
  BY <1>1, <1>2 DEF IsTop
<1> QED
  BY <1>1, <1>3 DEF Ripe

-----------------------------------------------------------------------------
(* What a plan makes of the rows                                           *)

\* The rows after all operations A on a path.
RowsPlanned(A, m) ==
  [d \in Drives |-> [q \in Paths |->
     IF \E o \in A : o.target = d THEN Outcome(CHOOSE o \in A : o.target = d, m) ELSE m[d][q]]]

LEMMA CopyOutcome ==
  ASSUME NEW m, NEW o, Copies(o), o.vv \in Vector, NEW row \in Entry, row = m[o.source][o.path],
         NEW new, new = Outcome(o, m)
  PROVE  new # None /\ new.vv = o.vv /\ new.hash = row.hash /\ (new.tombstone <=> row.tombstone)
<1>1. new = [row EXCEPT !.vv = o.vv]
  BY DEF Outcome
<1>2. new \in Entry
  BY <1>1, NewVector
<1>3. new.vv = o.vv /\ new.hash = row.hash /\ new.tombstone = row.tombstone
  BY <1>1 DEF Entry
<1> QED
  BY <1>2, <1>3, NoneIsNoRow

LEMMA RemovalOutcome ==
  ASSUME NEW m, NEW o, ~Copies(o), o.vv \in Vector, NEW row \in Entry, row = m[o.target][o.path],
         NEW new, new = Outcome(o, m)
  PROVE  new # None /\ new.vv = o.vv /\ new.tombstone
<1>1. new = [row EXCEPT !.tombstone = TRUE, !.vv = o.vv]
  BY DEF Outcome
<1>2. new \in Entry
  BY <1>1, NewTombstone
<1>3. new.vv = o.vv /\ new.tombstone = TRUE
  BY <1>1 DEF Entry
<1> QED
  BY <1>2, <1>3, NoneIsNoRow

\* What is planned for the versions of a path takes in all their vectors.
LEMMA PlannedIsAbove ==
  ASSUME NEW m, AreManifests(m), DOMAIN m = Drives, NEW p \in Paths, NEW src,
         NEW d \in Drives, m[d][p] # None
  PROVE  /\ PlannedVector(m, p, src) \in Vector
         /\ ~Exceeds(m[d][p].vv, PlannedVector(m, p, src))
<1>1. PICK rows : rows = {m[e][p] : e \in DOMAIN m} \ {None}
  OBVIOUS
<1>2. m[d][p] \in rows /\ \A r \in rows : r # None /\ \E e \in DOMAIN m : r = m[e][p] \/ r = m[e][p]
  BY <1>1
<1>3. DOMAIN m \in SUBSET DOMAIN m
  OBVIOUS
<1>4. PlannedVector(m, p, src) = MergedVector(rows)
  BY <1>1 DEF PlannedVector
<1>5. MergedVector(rows) \in Vector /\ ~Exceeds(m[d][p].vv, MergedVector(rows))
  BY <1>2, <1>3, MergeCoversRows
<1> QED
  BY <1>4, <1>5

\* If one of them is on top, it is the merge of all.
LEMMA PlannedIsTop ==
  ASSUME NEW m, AreManifests(m), DOMAIN m = Drives, NEW p \in Paths, Alike(m, p), NEW src,
         NEW k \in Drives, IsTop(m, p, k)
  PROVE  PlannedVector(m, p, src) = m[k][p].vv
<1>1. PICK rows : rows = {m[e][p] : e \in DOMAIN m} \ {None}
  OBVIOUS
<1>2. \A e \in Drives : m[e][p] \in Entry
  BY DEF AreManifests, Alike, IsLive
<1>3. \A e \in Drives : m[e][p].vv \in Vector
  BY <1>2 DEF Entry
<1>4. PICK top \in Vector : top = m[k][p].vv
  BY <1>3
<1>5. PICK v \in Vector : v = MergedVector(rows) /\ ~Exceeds(top, v)
  BY <1>1, <1>2, <1>4, PlannedIsAbove DEF PlannedVector, Alike, IsLive
<1>6. ASSUME NEW i \in Drives
      PROVE  v[i] = top[i]
  <2>1. PICK T : T = {r.vv[i] : r \in rows}
    OBVIOUS
  <2>2. v[i] = Max(T)
    BY <1>5, <2>1 DEF MergedVector
  <2>3. T \subseteq Nat /\ top[i] \in T
    <3>1. \A r \in rows : \E e \in Drives : r = m[e][p]
      BY <1>1
    <3>2. \A r \in rows : r.vv \in Vector
      BY <1>3, <3>1
    <3>3. m[k][p] \in rows
      BY <1>1 DEF Alike, IsLive
    <3> QED
      BY <1>4, <2>1, <3>2, <3>3 DEF Vector
  <2>4. ASSUME NEW t \in T
        PROVE  top[i] >= t
    <3>1. PICK e \in Drives : t = m[e][p].vv[i]
      BY <1>1, <2>1
    <3>2. ~(m[e][p].vv[i] > top[i])
      BY <1>4 DEF IsTop, Exceeds
    <3>3. t \in Nat /\ top[i] \in Nat
      BY <2>3
    <3> QED
      BY <3>1, <3>2, <3>3
  <2>5. Max(T) = top[i]
    BY <2>3, <2>4, LargestNumber
  <2> QED
    BY <2>2, <2>5
<1>7. v = top
  BY <1>6 DEF Vector
<1> QED
  BY <1>1, <1>4, <1>5, <1>7 DEF PlannedVector

\* The rows n are those of m after the operations A on p.
Becomes(A, p, m, n) ==
  \A d \in Drives :
    \/ \E o \in A : o.target = d /\ n[d][p] = Outcome(o, m)
    \/ (\A o \in A : o.target # d) /\ n[d][p] = m[d][p]

LEMMA RowsBecome ==
  ASSUME NEW A, NEW p \in Paths, NEW m, NEW n, n = RowsPlanned(A, m)
  PROVE  DOMAIN n = Drives /\ Becomes(A, p, m, n)
<1> SUFFICES ASSUME NEW d \in Drives
             PROVE  \/ \E o \in A : o.target = d /\ n[d][p] = Outcome(o, m)
                    \/ (\A o \in A : o.target # d) /\ n[d][p] = m[d][p]
  BY DEF Becomes, RowsPlanned
<1>1. PICK o : o = CHOOSE a \in A : a.target = d
  OBVIOUS
<1>2. n[d][p] = IF \E a \in A : a.target = d THEN Outcome(o, m) ELSE m[d][p]
  BY <1>1 DEF RowsPlanned
<1>3. (\E a \in A : a.target = d) => o \in A /\ o.target = d
  BY <1>1
<1> QED
  BY <1>2, <1>3

\* Removals leave no file.
LEMMA RemovedIsGone ==
  ASSUME NEW A, NEW p \in Paths, NEW m, AreManifests(m), DOMAIN m = Drives, NEW n, Becomes(A, p, m, n),
         A \subseteq SoundOps(m), \A o \in A : o.type = "REMOVE" /\ o.path = p,
         \A d \in Drives : IsLive(m, d, p) => \E o \in A : o.target = d
  PROVE  Gone(n, p)
<1> SUFFICES ASSUME NEW d \in Drives, IsLive(n, d, p)
             PROVE  FALSE
  BY DEF Gone
<1>1. CASE n[d][p] = m[d][p] /\ \A o \in A : o.target # d
  BY <1>1 DEF IsLive
<1>2. CASE \E o \in A : o.target = d /\ n[d][p] = Outcome(o, m)
  <2>1. PICK o \in A : o.target = d /\ n[d][p] = Outcome(o, m)
    BY <1>2
  <2>2. ~Copies(o) /\ o.path = p /\ m[d][p] # None /\ o.vv \in Vector
    <3>1. o.type = "REMOVE" /\ o.path = p /\ o \in SoundOps(m)
      OBVIOUS
    <3>2. o \in FileOps(Drives, Vector) /\ m[o.target][o.path] # None
      BY <3>1 DEF SoundOps
    <3> QED
      BY <2>1, <3>1, <3>2, FileOpFields DEF Copies
  <2>3. PICK row \in Entry : row = m[d][p]
    BY <2>2 DEF AreManifests
  <2>4. PICK new : new = n[d][p]
    OBVIOUS
  <2>5. new.tombstone
    <3>1. ~Copies(o) /\ row = m[o.target][o.path] /\ o.vv \in Vector /\ new = Outcome(o, m)
      BY <2>1, <2>2, <2>3, <2>4
    <3> QED
      BY <3>1, RemovalOutcome
  <2> QED
    BY <2>4, <2>5 DEF IsLive
<1> QED
  BY <1>1, <1>2 DEF Becomes

\* Updates from a file make all drives alike.  The vectors they write are above
\* all others, and the same as all others where one was already above them.
LEMMA UpdatedIsAlike ==
  ASSUME NEW p \in Paths, NEW m, AreManifests(m), DOMAIN m = Drives,
         NEW src \in Drives, IsLive(m, src, p), NEW n, Becomes(Updates(m, p, src, Drives), p, m, n)
  PROVE  /\ Alike(n, p)
         /\ \A d \in Drives : n[d][p].vv =
              IF d # src /\ Needed(m, p, src, d) # None THEN PlannedVector(m, p, src) ELSE m[d][p].vv
<1>1. PICK A : A = Updates(m, p, src, Drives)
  OBVIOUS
<1>2. PICK row \in Entry : row = m[src][p] /\ ~row.tombstone
  BY DEF IsLive, AreManifests
<1>3. PICK v \in Vector : v = PlannedVector(m, p, src)
  BY PlannedIsAbove DEF IsLive
<1>4. /\ \A o \in A : /\ o.target \in Drives \ {src} /\ Needed(m, p, src, o.target) # None
                      /\ o.type = Needed(m, p, src, o.target) /\ o.source = src /\ o.path = p
                      /\ o.vv = v
      /\ \A d \in Drives \ {src} : Needed(m, p, src, d) # None => \E o \in A : o.target = d
  BY <1>1, <1>3, UpdateTargets
<1>5. \A d : Needed(m, p, src, d) \in {"COPY", "REPLACE", None}
  BY <1>2 DEF Needed
<1>6. ASSUME NEW d \in Drives
      PROVE  /\ IsLive(n, d, p) /\ n[d][p].hash = row.hash
             /\ n[d][p].vv = IF d # src /\ Needed(m, p, src, d) # None THEN v ELSE m[d][p].vv
  <2>1. CASE \E o \in A : o.target = d /\ n[d][p] = Outcome(o, m)
    <3>1. PICK o \in A : o.target = d /\ n[d][p] = Outcome(o, m)
      BY <2>1
    <3>2. Copies(o) /\ o.source = src /\ o.path = p /\ o.vv = v
      BY <1>4, <1>5 DEF Copies
    <3>3. PICK new : new = n[d][p]
      OBVIOUS
    <3>4. Copies(o) /\ row = m[o.source][o.path] /\ o.vv \in Vector /\ new = Outcome(o, m)
      BY <1>2, <1>3, <3>1, <3>2, <3>3
    <3>6. new # None /\ new.vv = o.vv /\ new.hash = row.hash /\ (new.tombstone <=> row.tombstone)
      BY <3>4, CopyOutcome
    <3>5. d # src /\ Needed(m, p, src, d) # None
      BY <1>4, <3>1
    <3> QED
      BY <1>2, <3>2, <3>3, <3>5, <3>6 DEF IsLive
  <2>2. CASE n[d][p] = m[d][p] /\ \A o \in A : o.target # d
    <3>1. d = src \/ Needed(m, p, src, d) = None
      BY <1>4, <2>2
    <3>2. IsLive(m, d, p) /\ m[d][p].hash = row.hash
      <4>1. CASE d = src
        BY <1>2, <4>1
      <4>2. CASE Needed(m, p, src, d) = None
        BY <1>2, <4>2, NoneIsNoType DEF Needed
      <4> QED
        BY <3>1, <4>1, <4>2
    <3> QED
      BY <2>2, <3>1, <3>2 DEF IsLive
  <2> QED
    BY <1>1, <2>1, <2>2 DEF Becomes
<1>7. Alike(n, p)
  BY <1>6 DEF Alike
<1> QED
  BY <1>3, <1>6, <1>7

\* After a sync there is nothing to do, or only vectors are behind; if only
\* vectors were behind, or not even they, there is nothing to do.
LEMMA PlanSettles ==
  ASSUME NEW p, Paths = {p}, NEW m, AreManifests(m), DOMAIN m = Drives
  PROVE  \E n : /\ DOMAIN n = Drives /\ Becomes(PathOps(m, p, {}), p, m, n)
                /\ Calm(n, p) \/ Ripe(n, p)
                /\ Calm(m, p) \/ Ripe(m, p) => Calm(n, p)
<1>1. PICK e : e = {d \in DOMAIN m : IsTombstone(m, d, p)}
  OBVIOUS
<1>2. PICK t : t = {d \in DOMAIN m : <<d, p>> \notin {}}
  OBVIOUS
<1>3. t = Drives
  BY <1>2
<1>4. PICK A : A = PathOps(m, p, {})
  OBVIOUS
<1>5. A \subseteq SoundOps(m) /\ \A o \in A : o.path = p
  BY <1>4, PathOpsAreSound, PathOpsFacts
<1>6. PICK n : n = RowsPlanned(A, m)
  OBVIOUS
<1>7. DOMAIN n = Drives /\ Becomes(A, p, m, n)
  BY <1>6, RowsBecome
<1>8. ASSUME \A o \in A : o.type = "REMOVE",
             \A d \in Drives : IsLive(m, d, p) => \E o \in A : o.target = d
      PROVE  Gone(n, p)
  BY <1>5, <1>7, <1>8, RemovedIsGone
<1>9. CASE Gone(n, p)
  BY <1>4, <1>7, <1>9 DEF Calm
<1>10. CASE A = Removals(m, p, e, t)
  <2>1. PICK src : src = Min(e)
    OBVIOUS
  <2>2. PICK v : v = MergedVector({m[d][p] : d \in e})
    OBVIOUS
  <2>3. A = {SyncOp("REMOVE", src, tgt, p, p, v) : tgt \in {d \in Drives : IsLive(m, d, p)}}
    BY <1>3, <1>10, <2>1, <2>2 DEF Removals
  <2>4. ASSUME NEW o \in A
        PROVE  o.type = "REMOVE"
    <3>1. PICK tgt : o = SyncOp("REMOVE", src, tgt, p, p, v)
      BY <2>3
    <3> QED
      BY <3>1, SyncOpFields
  <2>5. ASSUME NEW d \in Drives, IsLive(m, d, p)
        PROVE  \E o \in A : o.target = d
    <3>1. PICK o : o = SyncOp("REMOVE", src, d, p, p, v)
      OBVIOUS
    <3>2. o.target = d
      BY <3>1, SyncOpFields
    <3>3. o \in A
      BY <2>3, <2>5, <3>1
    <3> QED
      BY <3>2, <3>3
  <2> QED
    BY <1>8, <1>9, <2>4, <2>5
<1>11. CASE A = UNION {Updates(m, p, x, t) :
                 x \in IF DOMAIN Versions(m, p) = {} THEN {} ELSE {SourceDrive(m, p)}}
  <2>1. CASE DOMAIN Versions(m, p) = {}
    <3>1. A = {}
      BY <1>11, <2>1
    <3>2. \A d \in Drives : ~IsLive(m, d, p)
      BY <2>1 DEF Versions, IsLive
    <3> QED
      BY <1>8, <1>9, <3>1, <3>2
  <2>2. CASE DOMAIN Versions(m, p) # {}
    <3>1. PICK src : src = SourceDrive(m, p)
      OBVIOUS
    <3>2. src \in DOMAIN Versions(m, p)
      BY <2>2, <3>1, SourceExists
    <3>3. src \in Drives /\ m[src][p] # None
      BY <3>2 DEF Versions
    <3>4. A = Updates(m, p, src, Drives)
      BY <1>3, <1>11, <2>2, <3>1
    <3>5. CASE m[src][p].tombstone
      <4>1. \A d : Needed(m, p, src, d) = IF IsLive(m, d, p) THEN "REMOVE" ELSE None
        BY <3>5 DEF Needed
      <4>2. \A o \in A : o.type = "REMOVE"
        BY <3>4, <4>1, UpdateTargets
      <4>3. ASSUME NEW d \in Drives, IsLive(m, d, p)
            PROVE  \E o \in A : o.target = d
        <5>1. d # src /\ Needed(m, p, src, d) # None
          BY <3>5, <4>1, <4>3, NoneIsNoType DEF IsLive
        <5> QED
          BY <3>4, <5>1, UpdateTargets
      <4> QED
        BY <1>8, <1>9, <4>2, <4>3
    <3>6. CASE IsLive(m, src, p)
      <4>1. PICK v \in Vector : v = PlannedVector(m, p, src)
        BY <3>3, <3>6, PlannedIsAbove
      <4>2. ASSUME NEW l, Becomes(A, p, m, l)
            PROVE  /\ Alike(l, p)
                   /\ \A d \in Drives : l[d][p].vv =
                        IF d # src /\ Needed(m, p, src, d) # None THEN v ELSE m[d][p].vv
        BY <3>3, <3>4, <3>6, <4>1, <4>2, UpdatedIsAlike
      <4>3. CASE A = {}
        <5>1. Becomes(A, p, m, m)
          BY <4>3 DEF Becomes
        <5>2. Calm(m, p)
          BY <1>4, <4>2, <4>3, <5>1 DEF Calm
        <5> QED
          BY <1>4, <5>1, <5>2
      <4>4. CASE A # {}
        <5>1. Alike(n, p) /\ \A d \in Drives : n[d][p].vv =
                 IF d # src /\ Needed(m, p, src, d) # None THEN v ELSE m[d][p].vv
          BY <1>7, <4>2
        <5>2. Ripe(n, p)
          <6>1. PICK o \in A : TRUE
            BY <4>4
          <6>2. PICK k \in Drives : k # src /\ Needed(m, p, src, k) # None
            BY <3>4, <6>1, UpdateTargets
          <6>3. n[k][p].vv = v
            BY <5>1, <6>2
          <6>4. ASSUME NEW d \in Drives
                PROVE  ~Exceeds(n[d][p].vv, v)
            <7>1. CASE n[d][p].vv = v
              BY <7>1 DEF Exceeds, Vector
            <7>2. CASE n[d][p].vv = m[d][p].vv /\ (d = src \/ Needed(m, p, src, d) = None)
              <8>1. m[d][p] # None
                BY <3>3, <3>6, <7>2, NoneIsNoType DEF Needed, IsLive
              <8> QED
                BY <4>1, <7>2, <8>1, PlannedIsAbove
            <7> QED
              BY <5>1, <7>1, <7>2
          <6>5. IsTop(n, p, k)
            BY <6>3, <6>4 DEF IsTop
          <6> QED
            BY <5>1, <6>5 DEF Ripe
        <5>3. ASSUME Calm(m, p)
              PROVE  FALSE
          BY <1>4, <4>4, <5>3, CalmPlans
        <5>4. ASSUME Ripe(m, p)
              PROVE  Calm(n, p)
          <6>1. PICK k \in Drives : Alike(m, p) /\ IsTop(m, p, k)
            BY <5>4 DEF Ripe
          <6>2. v = m[k][p].vv /\ m[src][p].vv = v
            BY <3>1, <4>1, <6>1, PlannedIsTop, TopIsSource
          <6>3. ASSUME NEW d \in Drives
                PROVE  n[d][p].vv = v
            <7>1. CASE d = src \/ Needed(m, p, src, d) # None
              BY <5>1, <6>2, <7>1
            <7>2. CASE d # src /\ Needed(m, p, src, d) = None
              <8>1. Compare(v, m[d][p].vv) # "DOMINATES"
                BY <3>6, <6>2, <7>2, NoneIsNoType DEF Needed, IsLive
              <8>2. m[d][p].vv \in Vector /\ ~Exceeds(m[d][p].vv, v)
                BY <6>1, <6>2 DEF Alike, IsLive, AreManifests, Entry, IsTop
              <8>3. m[d][p].vv = v
                BY <8>1, <8>2, TopDominates
              <8> QED
                BY <5>1, <7>2, <8>3
            <7> QED
              BY <7>1, <7>2
          <6>4. PICK s : s = SourceDrive(n, p)
            OBVIOUS
          <6>5. s \in Drives
            BY <1>7, <3>3, <5>1, <6>4, AlikePlans
          <6>6. Compare(v, v) # "DOMINATES"
            BY DEF Compare
          <6>7. PathOps(n, p, {}) = {}
            BY <1>7, <3>3, <5>1, <6>3, <6>4, <6>5, <6>6, AlikeIsCalm
          <6> QED
            BY <5>1, <6>7 DEF Calm
        <5> QED
          BY <1>4, <1>7, <5>2, <5>3, <5>4
      <4> QED
        BY <4>3, <4>4
    <3> QED
      BY <3>3, <3>5, <3>6 DEF IsLive
  <2> QED
    BY <2>1, <2>2
<1> QED
  BY <1>1, <1>2, <1>4, <1>10, <1>11, Zenon DEF PathOps

-----------------------------------------------------------------------------
(* On the way to these rows                                                *)

\* What is left of a plan makes the rows n, on all drives, and no other operation
\* is on its way to a drive that agrees with its manifest.
Agrees(f, m, d, p) == IF IsLive(m, d, p) THEN Held(f, d, p) = m[d][p].hash ELSE f[d][p] = None

Awaits(ops, n, f, m) ==
  \A d \in Drives, p \in Paths :
    \/ \E i \in DOMAIN ops : Works(ops[i], d, p) /\ Same(Outcome(ops[i], m), n[d][p])
    \/ /\ \A i \in DOMAIN ops : ~Works(ops[i], d, p)
       /\ Same(m[d][p], n[d][p]) /\ Agrees(f, m, d, p)

LEMMA PlanAwaits ==
  ASSUME NEW p, Paths = {p}, NEW f, NEW m, AreManifests(m), DOMAIN m = Drives, Scans(f, m),
         NEW ops, HasAllOps(ops, PathOps(m, p, {})), NEW n, Becomes(PathOps(m, p, {}), p, m, n)
  PROVE  Awaits(ops, n, f, m)
<1>1. \A r : Same(r, r)
  BY DEF Same
<1>2. PICK A : A = PathOps(m, p, {})
  OBVIOUS
<1>3. \A o \in A : o.type # "MKDIR" /\ o.path = p
  <2>1. \A o \in A : Planned(o) /\ o.path = p
    BY <1>2, PathOpsFacts
  <2> QED
    BY <2>1, SyncOpFields DEF Planned
<1>4. ASSUME NEW d \in Drives
      PROVE  \/ \E i \in DOMAIN ops : Works(ops[i], d, p) /\ Same(Outcome(ops[i], m), n[d][p])
             \/ /\ \A i \in DOMAIN ops : ~Works(ops[i], d, p)
                /\ Same(m[d][p], n[d][p]) /\ Agrees(f, m, d, p)
  <2>1. CASE \E o \in A : o.target = d /\ n[d][p] = Outcome(o, m)
    <3>1. PICK o \in A : o.target = d /\ n[d][p] = Outcome(o, m)
      BY <2>1
    <3>2. PICK i \in DOMAIN ops : ops[i] = o
      BY <1>2 DEF HasAllOps, Occurs
    <3> QED
      BY <1>1, <1>3, <3>1, <3>2 DEF Works
  <2>2. CASE (\A o \in A : o.target # d) /\ n[d][p] = m[d][p]
    <3>1. \A i \in DOMAIN ops : ops[i] \in A \/ ops[i].type = "MKDIR"
      BY <1>2 DEF HasAllOps
    <3>2. Agrees(f, m, d, p)
      BY DEF Scans, Agrees
    <3> QED
      BY <1>1, <2>2, <3>1, <3>2 DEF Works
  <2> QED
    BY <1>2, <2>1, <2>2 DEF Becomes
<1> QED
  BY <1>4 DEF Awaits

\* One operation later: only its row changed, to its outcome.
LEMMA StillAwaits ==
  ASSUME NEW ops \in Seq(Operation), ops # <<>>, OnceEach(ops), NEW n, NEW f, NEW m, Awaits(ops, n, f, m),
         \A i, j \in DOMAIN ops : Copies(ops[i]) => ~Works(ops[j], ops[i].source, ops[i].path),
         NEW h, h = Head(ops), NEW g, NEW l,
         \A d \in Drives, p \in Paths :
           IF Works(h, d, p) THEN l[d][p] = Outcome(h, m) /\ Agrees(g, l, d, p)
                             ELSE g[d][p] = f[d][p] /\ l[d][p] = m[d][p]
  PROVE  Awaits(Tail(ops), n, g, l)
<1>1. PICK k \in Nat : k = Len(ops) /\ DOMAIN ops = 1 .. k
  OBVIOUS
<1>2. k # 0
  BY <1>1, EmptySeq
<1>3. PICK s : s = Tail(ops)
  OBVIOUS
<1>4. DOMAIN s = 1 .. k - 1 /\ \A i \in 1 .. k - 1 : s[i] = ops[i + 1]
  BY <1>1, <1>2, <1>3
<1>5. 1 \in 1 .. k /\ h = ops[1]
  BY <1>1, <1>2
<1>6. \A i \in 1 .. k - 1 : i + 1 \in 1 .. k /\ i + 1 # 1
  OBVIOUS
<1>7. \A i \in 1 .. k : i = 1 \/ \E j \in 1 .. k - 1 : i = j + 1
  <2> SUFFICES ASSUME NEW i \in 1 .. k, i # 1
               PROVE  \E j \in 1 .. k - 1 : i = j + 1
    OBVIOUS
  <2>1. i - 1 \in 1 .. k - 1 /\ i = (i - 1) + 1
    OBVIOUS
  <2> QED
    BY <2>1
<1>8. ASSUME NEW d \in Drives, NEW p \in Paths, NEW i \in 1 .. k, NEW j \in 1 .. k,
             Works(ops[i], d, p), Works(ops[j], d, p)
      PROVE  i = j
  BY <1>1, <1>8 DEF OnceEach, Works
<1>9. ASSUME NEW d \in Drives, NEW p \in Paths
      PROVE  \/ \E i \in DOMAIN s : Works(s[i], d, p) /\ Same(Outcome(s[i], l), n[d][p])
             \/ /\ \A i \in DOMAIN s : ~Works(s[i], d, p)
                /\ Same(l[d][p], n[d][p]) /\ Agrees(g, l, d, p)
  <2>1. CASE Works(h, d, p)
    <3>1. \A i \in DOMAIN s : ~Works(s[i], d, p)
      BY <1>4, <1>5, <1>6, <1>8, <2>1
    <3>2. PICK i \in 1 .. k : Works(ops[i], d, p) /\ Same(Outcome(ops[i], m), n[d][p])
      BY <1>1, <1>5, <2>1 DEF Awaits
    <3>3. i = 1
      BY <1>5, <1>8, <2>1, <3>2
    <3>4. Same(l[d][p], n[d][p]) /\ Agrees(g, l, d, p)
      BY <1>5, <2>1, <3>2, <3>3
    <3> QED
      BY <3>1, <3>4
  <2>2. CASE ~Works(h, d, p) /\ \E i \in 1 .. k : Works(ops[i], d, p) /\ Same(Outcome(ops[i], m), n[d][p])
    <3>1. PICK i \in 1 .. k : Works(ops[i], d, p) /\ Same(Outcome(ops[i], m), n[d][p])
      BY <2>2
    <3>2. PICK o \in Operation : o = ops[i]
      BY <1>1
    <3>3. i # 1
      BY <1>5, <2>2, <3>1
    <3>4. PICK j \in 1 .. k - 1 : i = j + 1
      BY <1>7, <3>3
    <3>5. s[j] = o
      BY <1>4, <3>2, <3>4
    <3>6. Outcome(o, l) = Outcome(o, m)
      <4>1. CASE Copies(o)
        <5>1. o.source \in Drives /\ o.path \in Paths
          BY <4>1, OpFields DEF Copies
        <5>2. ~Works(h, o.source, o.path)
          BY <1>1, <1>5, <3>2, <4>1
        <5>3. l[o.source][o.path] = m[o.source][o.path]
          BY <5>1, <5>2
        <5> QED
          BY <4>1, <5>3 DEF Outcome
      <4>2. CASE ~Copies(o)
        <5>1. o.target = d /\ o.path = p
          BY <3>1, <3>2 DEF Works
        <5>2. l[d][p] = m[d][p]
          BY <2>2
        <5> QED
          BY <4>2, <5>1, <5>2 DEF Outcome
      <4> QED
        BY <4>1, <4>2
    <3> QED
      BY <1>4, <3>1, <3>2, <3>5, <3>6
  <2>3. CASE /\ ~Works(h, d, p) /\ \A i \in 1 .. k : ~Works(ops[i], d, p)
             /\ Same(m[d][p], n[d][p]) /\ Agrees(f, m, d, p)
    <3>1. \A i \in DOMAIN s : ~Works(s[i], d, p)
      BY <1>4, <1>6, <2>3
    <3>2. g[d][p] = f[d][p] /\ l[d][p] = m[d][p]
      BY <2>3
    <3>3. Same(l[d][p], n[d][p])
      BY <2>3, <3>2
    <3>4. Agrees(g, l, d, p)
      BY <2>3, <3>2 DEF Agrees, IsLive, Held
    <3> QED
      BY <3>1, <3>3, <3>4
  <2>4. \/ \E i \in DOMAIN ops : Works(ops[i], d, p) /\ Same(Outcome(ops[i], m), n[d][p])
        \/ /\ \A i \in DOMAIN ops : ~Works(ops[i], d, p)
           /\ Same(m[d][p], n[d][p]) /\ Agrees(f, m, d, p)
    BY DEF Awaits
  <2> QED
    BY <1>1, <1>5, <2>1, <2>2, <2>3, <2>4
<1>10. Awaits(s, n, g, l)
  BY <1>9 DEF Awaits
<1> QED
  BY <1>3, <1>10

LEMMA ExecuteAwaits ==
  ASSUME VaultInv, Execute, NEW goal, Leads(plan, goal, files, manifest),
         NEW n, Awaits(plan, n, files, manifest),
         \A d \in Drives, p \in Range(Tmp) : files[d][p] = None
  PROVE  Awaits(plan', n, files', manifest')
<1>1. plan # <<>> /\ plan' = Tail(plan) /\ Applicable(Head(plan))
  BY DEF Execute
<1>2. PICK ops \in Seq(Operation) : ops = plan /\ ops # <<>> /\ OnceEach(ops)
  BY <1>1 DEF VaultInv, PlanIsSound
<1>3. PICK o \in Operation : o = Head(ops) /\ (o.type = "REMOVE" => manifest[o.target][o.path] \in Entry)
  BY <1>1, <1>2, StepOfPlan
<1>4. /\ o.type = "MKDIR" \/ Brings(o, goal[o.path], files, manifest)
      /\ \A j \in DOMAIN ops : Copies(o) => ~Works(ops[j], o.source, o.path)
  <2>1. PICK l \in Nat : l = Len(ops) /\ DOMAIN ops = 1 .. l
    BY <1>2
  <2>2. l # 0
    BY <1>2, <2>1, EmptySeq
  <2>3. 1 \in DOMAIN ops /\ Head(ops) = ops[1]
    BY <1>2, <2>1, <2>2
  <2> QED
    BY <1>2, <1>3, <2>3 DEF Leads
<1>5. o.type # "RENAME"
  BY <1>4 DEF Brings
<1>6. PICK f, m : f = files /\ m = manifest
  OBVIOUS
<1>7. PICK g, l : g = files' /\ l = manifest'
  OBVIOUS
<1>8. \A d \in Drives, p \in Paths :
        IF Works(o, d, p)
          THEN /\ g[d][p] = IF Copies(o) THEN f[o.source][p] ELSE None
               /\ l[d][p] = Outcome(o, m)
          ELSE g[d][p] = f[d][p] /\ l[d][p] = m[d][p]
  BY <1>2, <1>3, <1>5, <1>6, <1>7, ExecuteEffect
<1>9. o.vv \in Vector /\ o.source \in Drives /\ o.target \in Drives
  BY OpFields
<1>10. \A d \in Drives, p \in Paths : m[d][p] # None => m[d][p] \in Entry
  BY <1>6 DEF VaultInv, DrivesAreSound, RowMaps
<1>11. ASSUME NEW d \in Drives, NEW p \in Paths, Works(o, d, p)
       PROVE  Agrees(g, l, d, p)
  <2>1. o.target = d /\ o.path = p /\ o.type # "MKDIR"
    BY <1>11 DEF Works
  <2>2. PICK new : new = Outcome(o, m)
    OBVIOUS
  <2>3. CASE Copies(o)
    <3>1. f[o.source][p] # None /\ m[o.source][p] # None /\ Held(f, o.source, p) = m[o.source][p].hash
      BY <1>4, <1>6, <2>1, <2>3 DEF Brings, Copies
    <3>2. PICK row \in Entry : row = m[o.source][p]
      BY <1>9, <1>10, <3>1
    <3>3. Agrees(f, m, o.source, p)
      BY <1>2, <1>4, <1>6, <1>9, <2>1, <2>3 DEF Awaits
    <3>4. ~row.tombstone
      BY <3>1, <3>2, <3>3 DEF Agrees, IsLive
    <3>5. row = m[o.source][o.path]
      BY <2>1, <3>2
    <3>6. new # None /\ new.vv = o.vv /\ new.hash = row.hash /\ (new.tombstone <=> row.tombstone)
      BY <1>9, <2>2, <2>3, <3>5, CopyOutcome
    <3>7. g[d][p] = f[o.source][p] /\ l[d][p] = new
      BY <1>8, <1>11, <2>2, <2>3
    <3> QED
      BY <3>1, <3>2, <3>4, <3>6, <3>7 DEF Agrees, IsLive, Held
  <2>4. CASE ~Copies(o)
    <3>1. o.type = "REMOVE"
      BY <1>4, <2>1, <2>4 DEF Brings, Copies
    <3>2. PICK row \in Entry : row = m[o.target][o.path]
      BY <1>3, <1>6, <3>1
    <3>3. new # None /\ new.vv = o.vv /\ new.tombstone
      BY <1>9, <2>2, <2>4, <3>2, RemovalOutcome
    <3>4. g[d][p] = None /\ l[d][p] = new
      BY <1>8, <1>11, <2>2, <2>4
    <3> QED
      BY <3>3, <3>4 DEF Agrees, IsLive
  <2> QED
    BY <2>3, <2>4
<1>12. \A d \in Drives, p \in Paths :
         IF Works(o, d, p) THEN l[d][p] = Outcome(o, m) /\ Agrees(g, l, d, p)
                           ELSE g[d][p] = f[d][p] /\ l[d][p] = m[d][p]
  BY <1>8, <1>11
<1>13. \A i, j \in DOMAIN ops : Copies(ops[i]) => ~Works(ops[j], ops[i].source, ops[i].path)
  BY <1>2 DEF Leads
<1>14. Awaits(ops, n, f, m)
  BY <1>2, <1>6
<1>15. Awaits(Tail(ops), n, g, l)
  BY <1>2, <1>3, <1>12, <1>13, <1>14, StillAwaits
<1> QED
  BY <1>1, <1>2, <1>7, <1>15

\* A scan that can read all files leaves what agrees as it is, but for times.
LEMMA ScanAwaits ==
  ASSUME VaultInv, plan = <<>>, NEW n, Awaits(plan, n, files, manifest),
         NEW e \in Drives, NEW unreadable \in SUBSET Paths, unreadable = {}, Scan(e, unreadable)
  PROVE  Awaits(plan', n, files', manifest')
<1>1. DOMAIN <<>> = {}
  OBVIOUS
<1>2. \A d \in Drives, p \in Paths : Same(manifest[d][p], n[d][p]) /\ Agrees(files, manifest, d, p)
  BY <1>1 DEF Awaits
<1>3. PICK f, m : f = files /\ m = manifest
  OBVIOUS
<1>4. PICK g, l : g = files' /\ l = manifest'
  OBVIOUS
<1>5. g = f /\ plan' = <<>>
  BY <1>3, <1>4 DEF Scan
<1>6. ASSUME NEW d \in Drives, NEW p \in Paths
      PROVE  l[d][p] = IF d = e THEN Scanned(d, p, {}) ELSE m[d][p]
  BY <1>3, <1>4 DEF Scan, VaultInv, DrivesAreSound
<1>7. ASSUME NEW d \in Drives, NEW p \in Paths
      PROVE  Same(l[d][p], n[d][p]) /\ Agrees(g, l, d, p)
  <2>1. PICK old : old = m[d][p] /\ old \in {None} \cup Entry
    BY <1>3 DEF VaultInv, DrivesAreSound, RowMaps
  <2>2. PICK file : file = f[d][p]
    OBVIOUS
  <2>3. PICK new : new = l[d][p]
    OBVIOUS
  <2>4. Same(old, n[d][p]) /\ Agrees(f, m, d, p)
    BY <1>2, <1>3, <2>1
  <2>5. CASE new = old
    <3>1. Agrees(g, l, d, p)
      BY <1>5, <2>1, <2>3, <2>4, <2>5 DEF Agrees, IsLive
    <3> QED
      BY <2>3, <2>4, <2>5, <3>1
  <2>6. CASE d = e /\ file # None
    <3>1. old \in Entry /\ ~old.tombstone /\ file.content = old.hash
      BY <2>1, <2>2, <2>4, <2>6 DEF Agrees, IsLive, Held
    <3>2. old # None
      BY <3>1, NoneIsNoRow
    <3>3. new = FoundFile(file, old)
      BY <1>3, <1>6, <2>1, <2>2, <2>3, <2>6 DEF Scanned
    <3>4. new.vv = old.vv /\ new.hash = old.hash /\ ~new.tombstone /\ new \in Entry
      <4>1. CASE old.mtime = file.mtime
        <5>1. new = [old EXCEPT !.tombstone = FALSE]
          BY <3>2, <3>3, <4>1 DEF FoundFile
        <5>2. new \in Entry
          BY <3>1, <5>1, MarkType
        <5>3. new.vv = old.vv /\ new.hash = old.hash /\ new.tombstone = FALSE
          BY <3>1, <5>1 DEF Entry
        <5> QED
          BY <5>2, <5>3
      <4>2. CASE old.mtime # file.mtime
        <5>1. new = Row(file.content, file.mtime, FALSE, old.vv)
          BY <3>2, <3>3, <4>2 DEF FoundFile
        <5>2. file.content \in Contents /\ file.mtime \in Times /\ old.vv \in Vector
          BY <1>3, <2>2, <2>6, <3>1 DEF VaultInv, DrivesAreSound, FileMaps, Entry
        <5>3. new \in Entry
          BY <5>1, <5>2, RowType
        <5> QED
          BY <3>1, <5>1, <5>3 DEF Row
      <4> QED
        BY <4>1, <4>2
    <3>5. new # None
      BY <3>4, NoneIsNoRow
    <3>6. Same(new, n[d][p])
      BY <2>4, <3>1, <3>2, <3>4, <3>5 DEF Same
    <3>7. Agrees(g, l, d, p)
      BY <1>5, <2>2, <2>3, <2>6, <3>1, <3>4, <3>5 DEF Agrees, IsLive, Held
    <3> QED
      BY <2>3, <3>6, <3>7
  <2>7. CASE d = e /\ file = None
    <3>1. ~IsLive(m, d, p)
      <4>1. ASSUME IsLive(m, d, p)
            PROVE  FALSE
        <5>1. old # None /\ None = old.hash
          BY <2>1, <2>2, <2>4, <2>7, <4>1 DEF Agrees, IsLive, Held
        <5>2. old.hash \in Contents
          BY <2>1, <5>1 DEF Entry
        <5> QED
          BY <5>1, <5>2, VaultAssumption
      <4> QED
        BY <4>1
    <3>2. new = old
      BY <1>3, <1>6, <2>1, <2>2, <2>3, <2>7, <3>1 DEF Scanned
    <3> QED
      BY <2>5, <3>2
  <2>8. CASE d # e
    BY <1>6, <2>1, <2>3, <2>5, <2>8
  <2> QED
    BY <2>6, <2>7, <2>8
<1>8. Awaits(<<>>, n, g, l)
  BY <1>1, <1>7 DEF Awaits
<1> QED
  BY <1>4, <1>5, <1>8

-----------------------------------------------------------------------------
(* Two syncs that count                                                    *)

\* Every drive is on its way to rows after which there is nothing to do or, in
\* the first sync that counts, only vectors are behind.
Settling(p) ==
  \E n : /\ DOMAIN n = Drives /\ Awaits(plan, n, files, manifest)
         /\ Calm(n, p) \/ (rounds = 1 /\ Ripe(n, p))
SettleInv(p) == rounds > 0 => Settling(p)

\* Between two syncs the rows have arrived.
LEMMA SettledRows ==
  ASSUME NEW p, Paths = {p}, DrivesAreSound, plan = <<>>, Settling(p)
  PROVE  Calm(manifest, p) \/ (rounds = 1 /\ Ripe(manifest, p))
<1>1. PICK n : /\ DOMAIN n = Drives /\ Awaits(plan, n, files, manifest)
               /\ Calm(n, p) \/ (rounds = 1 /\ Ripe(n, p))
  BY DEF Settling
<1>2. DOMAIN <<>> = {}
  OBVIOUS
<1>3. PICK m : m = manifest
  OBVIOUS
<1>4. DOMAIN m = Drives
  BY <1>3 DEF DrivesAreSound
<1>5. \A d \in Drives : Same(m[d][p], n[d][p])
  BY <1>1, <1>2, <1>3 DEF Awaits
<1>6. Calm(n, p) => Calm(m, p)
  BY <1>1, <1>4, <1>5, SameIsCalm
<1>7. Ripe(n, p) => Ripe(m, p)
  BY <1>5, SameIsRipe
<1> QED
  BY <1>1, <1>3, <1>6, <1>7

LEMMA SyncSettling ==
  ASSUME NEW p, Paths = {p}, VaultInv, SettleInv(p),
         NEW connected \in SUBSET Drives, Sync(connected), rounds' > 0
  PROVE  Settling(p)'
<1>1. /\ plan = <<>> /\ connected = Drives /\ \A d \in Drives : UpToDate(d)
      /\ rounds' = Min({rounds + 1, 2}) /\ UNCHANGED <<files, manifest>>
  BY DEF Sync
<1>2. manifest \in [Drives -> RowMaps] /\ rounds \in 0 .. 2
  BY DEF VaultInv, DrivesAreSound
<1>3. PICK m : m = manifest
  OBVIOUS
<1>4. m = [d \in Drives |-> manifest[d]]
  BY <1>2, <1>3
<1>5. PICK ops \in Plans(m) : ops = plan'
  BY <1>1, <1>4 DEF Sync
<1>6. PICK f : f = files
  OBVIOUS
<1>7. AreManifests(m) /\ DOMAIN m = Drives
  BY <1>2, <1>3 DEF AreManifests, RowMaps
<1>8. Scans(f, m)
  BY <1>1, <1>3, <1>6 DEF UpToDate, Scans, Content, Held
<1>9. PICK n : /\ DOMAIN n = Drives /\ Becomes(PathOps(m, p, {}), p, m, n)
               /\ Calm(n, p) \/ Ripe(n, p)
               /\ Calm(m, p) \/ Ripe(m, p) => Calm(n, p)
  BY <1>7, PlanSettles
<1>10. Awaits(ops, n, f, m)
  <2>1. HasAllOps(ops, PathOps(m, p, {}))
    BY <1>7, OnePathPlan
  <2> QED
    BY <1>7, <1>8, <1>9, <2>1, PlanAwaits
<1>11. rounds > 0 => Calm(m, p) \/ Ripe(m, p)
  BY <1>1, <1>3, SettledRows DEF SettleInv, VaultInv
<1>12. rounds = 0 => rounds' = 1
  <2> SUFFICES ASSUME rounds = 0
               PROVE  rounds' = 1
    OBVIOUS
  <2>1. {rounds + 1, 2} = {1, 2}
    OBVIOUS
  <2>2. PICK T : T = {1, 2}
    OBVIOUS
  <2>3. T \subseteq Nat /\ T # {} /\ 1 \in T
    BY <2>2
  <2>4. Min(T) \in T /\ Min(T) <= 1
    BY <2>3, LeastChosen
  <2>5. Min(T) = 1
    BY <2>2, <2>4
  <2> QED
    BY <1>1, <2>1, <2>2, <2>5
<1>13. Calm(n, p) \/ (rounds' = 1 /\ Ripe(n, p))
  <2>1. rounds = 0 \/ rounds > 0
    BY <1>2
  <2> QED
    BY <1>9, <1>11, <1>12, <2>1
<1>14. files' = f /\ manifest' = m /\ plan' = ops
  BY <1>1, <1>3, <1>5, <1>6
<1> QED
  BY <1>9, <1>10, <1>13, <1>14 DEF Settling

LEMMA SettleStep ==
  ASSUME NEW p, Paths = {p}, VaultInv, ConvergeInv, PlainSyncs, SettleInv(p), [Next]_vars
  PROVE  SettleInv(p)'
<1> SUFFICES ASSUME rounds' > 0
             PROVE  Settling(p)'
  BY DEF SettleInv
<1>1. FilesAreNoDirs
  BY OnePathIsNoDir
<1>2. ASSUME rounds' = rounds
      PROVE  \E n : /\ DOMAIN n = Drives /\ Awaits(plan, n, files, manifest)
                    /\ Calm(n, p) \/ (rounds' = 1 /\ Ripe(n, p))
  BY <1>2 DEF SettleInv, Settling
<1>3. CASE UNCHANGED vars
  BY <1>3 DEF vars, SettleInv, Settling
<1>4. ASSUME NEW d \in Drives, NEW unreadable \in SUBSET Paths, Scan(d, unreadable)
      PROVE  Settling(p)'
  <2>1. plan = <<>> /\ unreadable = {} /\ rounds' = rounds
    BY <1>4 DEF Scan, Disturb
  <2>2. PICK n : /\ DOMAIN n = Drives /\ Awaits(plan, n, files, manifest)
                 /\ Calm(n, p) \/ (rounds' = 1 /\ Ripe(n, p))
    BY <1>2, <2>1
  <2>3. Awaits(plan', n, files', manifest')
    BY <1>4, <2>1, <2>2, ScanAwaits
  <2> QED
    BY <2>2, <2>3 DEF Settling
<1>5. ASSUME NEW d \in Drives, ScanFallsShort(d) \/ Rebuild(d)
      PROVE  Settling(p)'
  <2>1. (SUBSET Paths) \ {{}, Paths} = {}
    OBVIOUS
  <2>2. ~ScanFallsShort(d)
    BY <2>1 DEF ScanFallsShort
  <2> QED
    BY <1>5, <2>2 DEF Rebuild, Disturb
<1>6. ASSUME NEW connected \in SUBSET Drives, Sync(connected)
      PROVE  Settling(p)'
  BY <1>6, SyncSettling
<1>7. CASE Execute
  <2>1. rounds' = rounds /\ rounds > 0
    BY <1>7 DEF Execute
  <2>2. PICK n : /\ DOMAIN n = Drives /\ Awaits(plan, n, files, manifest)
                 /\ Calm(n, p) \/ (rounds' = 1 /\ Ripe(n, p))
    BY <1>2, <2>1
  <2>3. PICK goal : Leads(plan, goal, files, manifest)
    BY <2>1 DEF ConvergeInv, OnTheWay
  <2>4. \A d \in Drives, q \in Range(Tmp) : files[d][q] = None
    BY <2>1 DEF PlainSyncs
  <2>5. Awaits(plan', n, files', manifest')
    BY <1>7, <2>2, <2>3, <2>4, ExecuteAwaits
  <2> QED
    BY <2>2, <2>5 DEF Settling
<1>8. CASE ExecuteFails
  <2>1. plan # <<>> /\ rounds > 0 /\ ~Applicable(Head(plan))
    BY <1>8 DEF ExecuteFails, Disturb
  <2>2. PICK goal : Leads(plan, goal, files, manifest)
    BY <2>1 DEF ConvergeInv, OnTheWay
  <2> QED
    BY <1>1, <2>1, <2>2, LeadsIsApplicable
<1>9. CASE Crash
  BY <1>9 DEF Crash, Disturb
<1>10. ASSUME NEW q \in Paths, NEW useDrive \in Drives, NEW connected \in SUBSET Drives,
              Resolves(q, useDrive, connected) \/ ResolveDies(q, useDrive, connected)
       PROVE  Settling(p)'
  BY <1>10 DEF Resolves, ResolveDies, Disturb
<1>11. ASSUME NEW d \in Drives, NEW q \in Paths,
              \/ \E content \in Contents, mtime \in Times : UserWrite(d, q, content, mtime)
              \/ UserDelete(d, q)
              \/ \E newPath \in Paths : UserMove(d, q, newPath)
       PROVE  Settling(p)'
  <2>1. \E f, changes : Changed(d, f, changes)
    BY <1>11 DEF UserWrite, UserDelete, UserMove
  <2>2. rounds' = 0
    BY <2>1 DEF Changed
  <2> QED
    BY <2>2
<1>12. CASE Execute \/ ExecuteFails \/ Crash
  BY <1>7, <1>8, <1>9, <1>12
<1> QED
  BY <1>3, <1>4, <1>5, <1>6, <1>10, <1>11, <1>12 DEF Next

\* With a single path plan_sync has nothing left to plan after two undisturbed
\* syncs of all scanned drives, whatever happened before: after the first only
\* version vectors are behind the merged one, and the second brings them up.
THEOREM OnePathSettles ==
  ASSUME NEW p, Paths = {p}
  PROVE  Spec => []SyncSettles
<1>1. Spec => []PlainSyncs
  BY OnePathIsPlain
<1>2. Init => VaultInv /\ ConvergeInv
  BY ConvergeInit
<1>3. VaultInv /\ ConvergeInv /\ PlainSyncs /\ PlainSyncs' /\ [Next]_vars => VaultInv' /\ ConvergeInv'
  BY OnePathIsNoDir, VaultStep, ConvergeStep
<1>4. Init => SettleInv(p)
  BY DEF Init, SettleInv
<1>5. VaultInv /\ ConvergeInv /\ PlainSyncs /\ SettleInv(p) /\ [Next]_vars => SettleInv(p)'
  BY SettleStep
<1>6. VaultInv /\ SettleInv(p) => SyncSettles
  <2> SUFFICES ASSUME VaultInv, SettleInv(p), plan = <<>>, rounds = 2
               PROVE  Plans(manifest) = {<<>>}
    BY DEF SyncSettles
  <2>1. PICK m : m = manifest /\ DOMAIN m = Drives
    BY DEF VaultInv, DrivesAreSound
  <2>2. Calm(m, p)
    BY <2>1, SettledRows DEF SettleInv, VaultInv
  <2>3. PathOps(m, p, {}) = {}
    BY <2>1, <2>2, CalmPlans
  <2>4. Plans(m) = {<<>>}
    BY <2>1, <2>3, NothingToPlan
  <2> QED
    BY <2>1, <2>4
<1> QED
  BY <1>1, <1>2, <1>3, <1>4, <1>5, <1>6, PTL DEF Spec

-----------------------------------------------------------------------------
(* Version vectors: what a plan leaves                                     *)

LEMMA ExceedsNot ==
  ASSUME NEW u \in Vector, NEW v \in Vector, NEW w \in Vector, ~Exceeds(u, v), ~Exceeds(v, w)
  PROVE  ~Exceeds(u, w)
BY DEF Exceeds, Vector

LEMMA GrowsCompare ==
  ASSUME NEW v \in Vector, NEW w \in Vector, ~Exceeds(v, w)
  PROVE  Compare(w, v) \in {"EQUAL", "DOMINATES"}
BY DEF Compare

\* The vector that o leaves is not behind the one it finds.
Covers(o, m) ==
  m[o.target][Destination(o)] # None => ~Exceeds(m[o.target][Destination(o)].vv, o.vv)

\* Of two drives that have deleted a file which a third has, one knows of its version.
DeletersKnow(m) ==
  \A p \in Paths, d, e, t \in DOMAIN m :
    d # e /\ IsTombstone(m, d, p) /\ IsTombstone(m, e, p) /\ IsLive(m, t, p)
      => \E x \in {d, e} : ~Exceeds(m[t][p].vv, m[x][p].vv)

\* A majority without a drive is no single one.
LEMMA MajorityIsMany ==
  ASSUME NEW D, IsFiniteSet(D), NEW e \in SUBSET D, NEW t \in D, t \notin e,
         2 * Cardinality(e) > Cardinality(D)
  PROVE  \E a, b \in e : a # b
<1>1. IsFiniteSet(e) /\ IsFiniteSet(e \cup {t}) /\ e \cup {t} \in SUBSET D
  BY FS_Subset, FS_AddElement
<1>2. Cardinality(e \cup {t}) = Cardinality(e) + 1
  BY <1>1, FS_AddElement
<1>3. Cardinality(e \cup {t}) <= Cardinality(D)
  BY <1>1, FS_Subset
<1>4. Cardinality(e) \in Nat /\ Cardinality(D) \in Nat
  BY <1>1, FS_CardinalityType
<1>5. Cardinality(e) > 1
  BY <1>2, <1>3, <1>4
<1>6. e # {} /\ \A a : e # {a}
  BY <1>5, FS_EmptySet, FS_Singleton
<1>7. PICK a : a \in e
  BY <1>6
<1>8. PICK b \in e : b # a
  <2> SUFFICES ASSUME \A b \in e : b = a
               PROVE  FALSE
    OBVIOUS
  <2>1. \A x : x \in e <=> x \in {a}
    BY <1>7
  <2>2. e = {a}
    BY <2>1
  <2> QED
    BY <1>6, <2>2
<1> QED
  BY <1>7, <1>8

LEMMA RemovalCovers ==
  ASSUME NEW m, AreManifests(m), DeletersKnow(m), NEW p \in Paths, NEW e \in SUBSET DOMAIN m,
         \A d \in e : IsTombstone(m, d, p), 2 * Cardinality(e) > Cardinality(DOMAIN m),
         NEW t \in SUBSET DOMAIN m, NEW o \in Removals(m, p, e, t)
  PROVE  Covers(o, m)
<1>1. PICK rows : rows = {m[d][p] : d \in e}
  OBVIOUS
<1>2. PICK src : src = Min(e)
  OBVIOUS
<1>3. PICK v : v = MergedVector(rows)
  OBVIOUS
<1>4. PICK tgt \in t : IsLive(m, tgt, p) /\ o = SyncOp("REMOVE", src, tgt, p, p, v)
  BY <1>1, <1>2, <1>3 DEF Removals
<1>5. o.type = "REMOVE" /\ o.target = tgt /\ o.path = p /\ o.vv = v
  BY <1>4, SyncOpFields
<1>6. tgt \notin e /\ tgt \in DOMAIN m
  BY <1>4 DEF IsLive, IsTombstone
<1>7. IsFiniteSet(DOMAIN m)
  BY FS_Subset, VaultAssumption DEF AreManifests
<1>8. PICK a \in e, b \in e : a # b
  BY <1>6, <1>7, MajorityIsMany
<1>9. PICK x \in {a, b} : ~Exceeds(m[tgt][p].vv, m[x][p].vv)
  <2>1. a \in DOMAIN m /\ b \in DOMAIN m /\ IsTombstone(m, a, p) /\ IsTombstone(m, b, p)
    OBVIOUS
  <2> QED
    BY <1>4, <1>6, <1>8, <2>1 DEF DeletersKnow
<1>10. m[x][p] \in rows /\ \A r \in rows : r # None /\ \E d \in e : r = m[d][p] \/ r = m[d][p]
  BY <1>1 DEF IsTombstone
<1>11. v \in Vector /\ m[x][p].vv \in Vector /\ ~Exceeds(m[x][p].vv, v)
  BY <1>3, <1>10, MergeCoversRows
<1>12. m[tgt][p].vv \in Vector
  <2>1. m[tgt][p] \in Entry
    BY <1>4, <1>6 DEF AreManifests, IsLive
  <2> QED
    BY <2>1 DEF Entry
<1>13. ~Exceeds(m[tgt][p].vv, v)
  BY <1>9, <1>11, <1>12, ExceedsNot
<1> QED
  BY <1>5, <1>13 DEF Covers, Destination

LEMMA UpdateCovers ==
  ASSUME NEW m, AreManifests(m), NEW p \in Paths, NEW src,
         NEW t \in SUBSET DOMAIN m, NEW o \in Updates(m, p, src, t), o.type # "RENAME"
  PROVE  Covers(o, m)
<1>1. PICK rows : rows = {m[d][p] : d \in DOMAIN m} \ {None}
  OBVIOUS
<1>2. PICK v : v = MergedVector(rows)
  OBVIOUS
<1>3. PICK tgt \in t : o = SyncOp(Needed(m, p, src, tgt), src, tgt, p, p, v)
  BY <1>1, <1>2 DEF Updates, PlannedVector
<1>4. o.target = tgt /\ o.path = p /\ o.vv = v
  BY <1>3, SyncOpFields
<1>5. ASSUME m[tgt][p] # None
      PROVE  ~Exceeds(m[tgt][p].vv, v)
  <2>1. m[tgt][p] \in rows /\ \A r \in rows : r # None /\ \E d \in DOMAIN m : r = m[d][p] \/ r = m[d][p]
    BY <1>1, <1>5
  <2>2. DOMAIN m \in SUBSET DOMAIN m
    OBVIOUS
  <2> QED
    BY <1>2, <2>1, <2>2, MergeCoversRows
<1> QED
  BY <1>4, <1>5 DEF Covers, Destination

LEMMA PathOpsCover ==
  ASSUME NEW m, AreManifests(m), DeletersKnow(m), NEW p \in Paths, NEW handled,
         NEW o \in PathOps(m, p, handled)
  PROVE  Covers(o, m)
<1>0. o.type # "RENAME"
  BY PathOpsFacts DEF AreManifests
<1>1. PICK e : e = {d \in DOMAIN m : IsTombstone(m, d, p)}
  OBVIOUS
<1>2. PICK t : t = {d \in DOMAIN m : <<d, p>> \notin handled}
  OBVIOUS
<1>3. e \in SUBSET DOMAIN m /\ t \in SUBSET DOMAIN m /\ \A d \in e : IsTombstone(m, d, p)
  BY <1>1, <1>2
<1>4. CASE 2 * Cardinality(e) > Cardinality(DOMAIN m)
  <2>1. o \in Removals(m, p, e, t)
    BY <1>1, <1>2, <1>4 DEF PathOps
  <2> QED
    BY <1>3, <1>4, <2>1, RemovalCovers
<1>5. CASE ~(2 * Cardinality(e) > Cardinality(DOMAIN m))
  <2>1. o \in UNION {Updates(m, p, src, t) :
                     src \in IF DOMAIN Versions(m, p) = {} THEN {} ELSE {SourceDrive(m, p)}}
    BY <1>1, <1>2, <1>5, Zenon DEF PathOps
  <2>2. PICK src : src = SourceDrive(m, p)
    OBVIOUS
  <2>3. o \in Updates(m, p, src, t)
    BY <2>1, <2>2
  <2> QED
    BY <1>0, <1>3, <2>3, UpdateCovers
<1> QED
  BY <1>4, <1>5

LEMMA RenameCovers ==
  ASSUME NEW m, AreManifests(m), NEW renames \in RenameMaps(m), NEW x \in DOMAIN renames,
         NEW o, o = RenameOp(m, x[1], x[2], renames[x])
  PROVE  Covers(o, m) /\ o.newPath = renames[x]
<1>1. /\ renames[x] \in Paths /\ x[1] \in DOMAIN m /\ x[2] \in Paths
  BY DEF RenameMaps
<1>2. PICK tgt \in DOMAIN m, old \in Paths, new \in Paths : tgt = x[1] /\ old = x[2] /\ new = renames[x]
  BY <1>1
<1> DEFINE rows == (UNION {{m[d][old], m[d][new]} : d \in DOMAIN m}) \ {None}
<1>3. /\ \A d \in DOMAIN m : m[d][new] # None => m[d][new] \in rows
      /\ \A y \in rows : y # None /\ \E d \in DOMAIN m : y = m[d][old] \/ y = m[d][new]
  OBVIOUS
<1>4. \E src : o = SyncOp("RENAME", src, tgt, old, new, MergedVector(rows))
  BY <1>2 DEF RenameOp
<1> HIDE DEF rows
<1>5. PICK r : r = rows
  OBVIOUS
<1>6. PICK v : v = MergedVector(r)
  OBVIOUS
<1>7. PICK src : o = SyncOp("RENAME", src, tgt, old, new, v)
  BY <1>4, <1>5, <1>6
<1>8. o.type = "RENAME" /\ o.target = tgt /\ o.newPath = new /\ o.vv = v
  BY <1>7 DEF SyncOp
<1>9. ASSUME m[tgt][new] # None
      PROVE  ~Exceeds(m[tgt][new].vv, v)
  <2>1. m[tgt][new] \in r /\ \A y \in r : y # None /\ \E d \in DOMAIN m : y = m[d][old] \/ y = m[d][new]
    BY <1>3, <1>5, <1>9
  <2>2. DOMAIN m \in SUBSET DOMAIN m
    OBVIOUS
  <2> QED
    BY <1>6, <2>1, <2>2, MergeCoversRows
<1> QED
  BY <1>2, <1>8, <1>9 DEF Covers, Destination

LEMMA PathTargets ==
  ASSUME NEW m, NEW p, NEW handled, NEW o \in PathOps(m, p, handled)
  PROVE  o.target \in DOMAIN m
<1>1. PICK e : e = {d \in DOMAIN m : IsTombstone(m, d, p)}
  OBVIOUS
<1>2. PICK t : t = {d \in DOMAIN m : <<d, p>> \notin handled}
  OBVIOUS
<1>3. ASSUME NEW src, o \in Updates(m, p, src, t)
      PROVE  o.target \in DOMAIN m
  <2>1. PICK tgt \in t : o = SyncOp(Needed(m, p, src, tgt), src, tgt, p, p, PlannedVector(m, p, src))
    BY <1>3 DEF Updates
  <2> QED
    BY <1>2, <2>1, SyncOpFields
<1>4. ASSUME o \in Removals(m, p, e, t)
      PROVE  o.target \in DOMAIN m
  <2>1. PICK tgt \in t : o = SyncOp("REMOVE", Min(e), tgt, p, p, MergedVector({m[d][p] : d \in e}))
    BY <1>4 DEF Removals
  <2> QED
    BY <1>2, <2>1, SyncOpFields
<1>5. \/ o \in Removals(m, p, e, t)
      \/ o \in UNION {Updates(m, p, src, t) :
                     src \in IF DOMAIN Versions(m, p) = {} THEN {} ELSE {SourceDrive(m, p)}}
  BY <1>1, <1>2, Zenon DEF PathOps
<1> QED
  BY <1>3, <1>4, <1>5

LEMMA AllOpsCover ==
  ASSUME NEW m, AreManifests(m), DeletersKnow(m), NEW renames \in RenameMaps(m),
         NEW o \in AllOps(m, renames)
  PROVE  Covers(o, m)
<1>1. \/ \E x \in DOMAIN renames : o = RenameOp(m, x[1], x[2], renames[x])
      \/ \E p \in Paths : o \in PathOps(m, p, RenameHandled(renames))
  BY DEF AllOps
<1> QED
  BY <1>1, RenameCovers, PathOpsCover

\* Only renames may have one destination.
LEMMA DestinationsApart ==
  ASSUME NEW m, AreManifests(m), NEW renames \in RenameMaps(m),
         NEW a \in AllOps(m, renames), NEW b \in AllOps(m, renames),
         a.target = b.target, Destination(a) = Destination(b)
  PROVE  a = b \/ (a.type = "RENAME" /\ b.type = "RENAME")
<1>0. DOMAIN m \subseteq Drives
  BY DEF AreManifests
<1>1. ASSUME NEW o \in AllOps(m, renames)
      PROVE  \/ \E x \in DOMAIN renames : o = RenameOp(m, x[1], x[2], renames[x])
             \/ \E p \in Paths : o \in PathOps(m, p, RenameHandled(renames))
  BY DEF AllOps
<1>2. ASSUME NEW o \in AllOps(m, renames), o.type = "RENAME"
      PROVE  <<o.target, Destination(o)>> \in RenameHandled(renames)
  <2>1. PICK x \in DOMAIN renames : o = RenameOp(m, x[1], x[2], renames[x])
    BY <1>0, <1>1, <1>2, PathOpsFacts
  <2>2. o.target = x[1] /\ o.newPath = renames[x]
    BY <1>0, <2>1, RenameOpFacts, RenameCovers
  <2> QED
    BY <1>2, <2>2 DEF RenameHandled, Destination
<1>3. ASSUME NEW o \in AllOps(m, renames), o.type # "RENAME"
      PROVE  <<o.target, Destination(o)>> \notin RenameHandled(renames)
  <2>1. PICK p \in Paths : o \in PathOps(m, p, RenameHandled(renames))
    BY <1>0, <1>1, <1>3, RenameOpFacts
  <2>2. o.path = p /\ <<o.target, p>> \notin RenameHandled(renames)
    BY <1>0, <2>1, PathOpsFacts
  <2> QED
    BY <1>3, <2>2 DEF Destination
<1>4. a.type = "RENAME" <=> b.type = "RENAME"
  BY <1>2, <1>3
<1>5. ASSUME a.type # "RENAME", b.type # "RENAME"
      PROVE  a = b
  <2>1. a.path = b.path
    BY <1>5 DEF Destination
  <2> QED
    BY <1>0, <2>1, OpsAreApart
<1> QED
  BY <1>4, <1>5

LEMMA TargetsAreThere ==
  ASSUME NEW m, AreManifests(m), NEW renames \in RenameMaps(m), NEW o \in AllOps(m, renames)
  PROVE  o.target \in DOMAIN m
<1>0. DOMAIN m \subseteq Drives
  BY DEF AreManifests
<1>1. CASE \E x \in DOMAIN renames : o = RenameOp(m, x[1], x[2], renames[x])
  <2>1. PICK x \in DOMAIN renames : o = RenameOp(m, x[1], x[2], renames[x])
    BY <1>1
  <2>2. x[1] \in DOMAIN m
    BY DEF RenameMaps
  <2> QED
    BY <1>0, <2>1, <2>2, RenameOpFacts
<1>2. CASE \E p \in Paths : o \in PathOps(m, p, RenameHandled(renames))
  <2>1. PICK p \in Paths : o \in PathOps(m, p, RenameHandled(renames))
    BY <1>2
  <2> QED
    BY <2>1, PathTargets
<1> QED
  BY <1>1, <1>2 DEF AllOps

\* No two renames of a plan give one name to files of one drive.
NamesOnce(ops) ==
  \A i, j \in DOMAIN ops :
    /\ ops[i].type = "RENAME" /\ ops[j].type = "RENAME"
    /\ ops[i].target = ops[j].target /\ ops[i].newPath = ops[j].newPath
    => i = j

\* What is left of a plan takes no row back, and writes none twice.
PlanCovers(ops, m) ==
  /\ \A i \in DOMAIN ops : ops[i].type # "MKDIR" => Covers(ops[i], m)
  /\ \A i, j \in DOMAIN ops :
       /\ ops[i].type # "MKDIR" /\ ops[j].type # "MKDIR"
       /\ ops[i].target = ops[j].target /\ Destination(ops[i]) = Destination(ops[j])
       => i = j

LEMMA PlansCover ==
  ASSUME NEW m, AreManifests(m), DeletersKnow(m), NEW ops \in Plans(m), NamesOnce(ops)
  PROVE  PlanCovers(ops, m)
<1>1. PICK renames \in RenameMaps(m) :
        ops \in Seq(AllOps(m, renames) \cup SoundDirOps) /\ OnceEach(ops)
  BY PlansAreOps
<1>2. PICK A : A = AllOps(m, renames)
  OBVIOUS
<1>3. ASSUME NEW i \in DOMAIN ops, ops[i].type # "MKDIR"
      PROVE  ops[i] \in A
  <2>1. ops[i] \in A \/ ops[i] \in SoundDirOps
    BY <1>1, <1>2
  <2> QED
    BY <1>3, <2>1, DirOpFields DEF SoundDirOps
<1>4. ASSUME NEW i \in DOMAIN ops, ops[i].type # "MKDIR"
      PROVE  Covers(ops[i], m)
  BY <1>2, <1>3, <1>4, AllOpsCover
<1>5. ASSUME NEW i \in DOMAIN ops, NEW j \in DOMAIN ops,
             ops[i].type # "MKDIR", ops[j].type # "MKDIR",
             ops[i].target = ops[j].target, Destination(ops[i]) = Destination(ops[j])
      PROVE  i = j
  <2>1. ops[i] \in A /\ ops[j] \in A
    BY <1>3, <1>5
  <2>2. ops[i] = ops[j] \/ (ops[i].type = "RENAME" /\ ops[j].type = "RENAME")
    BY <1>2, <1>5, <2>1, DestinationsApart
  <2>3. CASE ops[i] = ops[j]
    BY <1>1, <2>3 DEF OnceEach
  <2>4. CASE ops[i].type = "RENAME" /\ ops[j].type = "RENAME"
    BY <1>5, <2>4 DEF NamesOnce, Destination
  <2> QED
    BY <2>2, <2>3, <2>4
<1> QED
  BY <1>4, <1>5 DEF PlanCovers

\* The rows n are those of m, but for rows gone and the one o writes.
ChangesOne(o, m, n) ==
  \A d \in Drives, p \in Paths :
    \/ n[d][p] = m[d][p] \/ n[d][p] = None
    \/ o.type # "MKDIR" /\ d = o.target /\ p = Destination(o)

\* One operation later.
LEMMA RestCovers ==
  ASSUME NEW ops \in Seq(Operation), ops # <<>>, NEW m, NEW n, PlanCovers(ops, m), ChangesOne(Head(ops), m, n)
  PROVE  PlanCovers(Tail(ops), n)
<1>2. PICK l \in Nat : l = Len(ops) /\ DOMAIN ops = 1 .. l
  OBVIOUS
<1>3. l # 0
  BY <1>2, EmptySeq
<1>4. PICK s : s = Tail(ops)
  OBVIOUS
<1>5. DOMAIN s = 1 .. l - 1 /\ \A i \in 1 .. l - 1 : s[i] = ops[i + 1]
  BY <1>2, <1>3, <1>4
<1>6. \A i \in 1 .. l - 1 : i + 1 \in 1 .. l /\ i + 1 # 1
  OBVIOUS
<1>7. Head(ops) = ops[1] /\ 1 \in 1 .. l
  BY <1>2, <1>3
<1>8. ASSUME NEW i \in 1 .. l - 1, NEW j \in 1 .. l - 1,
             s[i].type # "MKDIR", s[j].type # "MKDIR",
             s[i].target = s[j].target, Destination(s[i]) = Destination(s[j])
      PROVE  i = j
  <2>1. i + 1 = j + 1
    <3>1. s[i] = ops[i + 1] /\ s[j] = ops[j + 1] /\ i + 1 \in 1 .. l /\ j + 1 \in 1 .. l
      BY <1>5, <1>6
    <3> QED
      BY <1>2, <1>8, <3>1 DEF PlanCovers
  <2> QED
    BY <2>1
<1>9. ASSUME NEW i \in 1 .. l - 1, s[i].type # "MKDIR"
      PROVE  Covers(s[i], n)
  <2>1. PICK k \in 1 .. l : k = i + 1 /\ k # 1
    BY <1>6
  <2>2. PICK o \in Operation : o = ops[k] /\ o = s[i]
    BY <1>2, <1>5, <2>1
  <2>3. Covers(o, m)
    BY <1>2, <1>9, <2>2 DEF PlanCovers
  <2>4. o.target \in Drives /\ Destination(o) \in Paths
    BY <1>9, <2>2, OpFields DEF Destination
  <2>5. ops[1].type # "MKDIR" => ops[1].target # o.target \/ Destination(ops[1]) # Destination(o)
    BY <1>2, <1>7, <1>9, <2>1, <2>2 DEF PlanCovers
  <2>6. n[o.target][Destination(o)] = m[o.target][Destination(o)] \/ n[o.target][Destination(o)] = None
    BY <1>7, <2>4, <2>5 DEF ChangesOne
  <2>7. Covers(o, n)
    BY <2>3, <2>6 DEF Covers
  <2> QED
    BY <2>2, <2>7
<1> QED
  BY <1>4, <1>5, <1>8, <1>9 DEF PlanCovers

\* A vector compared with itself.
LEMMA SameVectorCompares ==
  ASSUME NEW v \in Vector
  PROVE  Compare(v, v) \in {"EQUAL", "DOMINATES"}
BY DEF Compare, Exceeds, Vector

LEMMA IncrementCompares ==
  ASSUME NEW v \in Vector, NEW d \in Drives
  PROVE  Compare(Increment(v, d), v) \in {"EQUAL", "DOMINATES"} /\ ~Exceeds(v, Increment(v, d))
<1>1. PICK w \in Vector : w = Increment(v, d)
  BY IncrementType
<1>2. \A k \in Drives : v[k] \in Nat /\ w[k] = IF k = d THEN v[k] + 1 ELSE v[k]
  BY <1>1 DEF Increment, Vector
<1>3. ~Exceeds(v, w)
  BY <1>2 DEF Exceeds
<1> QED
  BY <1>1, <1>3, GrowsCompare

-----------------------------------------------------------------------------
(* Version vectors: what steps leave                                       *)

\* The rows r are those of t, but for a row gone and the one o writes.
OnlyWrites(o, t, r) ==
  \A p \in Paths :
    \/ r[p] = t[p] \/ r[p] = None
    \/ o.type # "MKDIR" /\ p = Destination(o) /\ r[p].vv = o.vv

LEMMA RowsAfterWrites ==
  ASSUME DrivesAreSound, NEW o \in Operation, Applicable(o),
         o.type = "REMOVE" => manifest[o.target][o.path] \in Entry
  PROVE  OnlyWrites(o, manifest[o.target], RowsAfter(o))
<1>1. PICK t \in RowMaps : t = manifest[o.target]
  BY OpFields DEF DrivesAreSound
<1>2. \A p \in Paths : t[p] # None => t[p] \in Entry
  BY DEF RowMaps
<1>3. CASE o.type \in {"COPY", "REPLACE"}
  <2>1. o.path \in Paths /\ o.source \in Drives /\ o.vv \in Vector /\ manifest[o.source][o.path] # None
    BY <1>3, OpFields DEF Applicable
  <2>2. PICK row \in Entry : row = manifest[o.source][o.path]
    BY <2>1 DEF DrivesAreSound, RowMaps
  <2>3. PICK new : new = [row EXCEPT !.vv = o.vv]
    OBVIOUS
  <2>4. RowsAfter(o) = [t EXCEPT ![o.path] = new]
    BY <1>1, <1>3, <2>2, <2>3 DEF RowsAfter
  <2>5. new.vv = o.vv
    BY <2>3 DEF Entry
  <2> QED
    BY <1>1, <1>3, <2>4, <2>5 DEF OnlyWrites, Destination, RowMaps
<1>4. CASE o.type = "REMOVE"
  <2>1. o.path \in Paths /\ o.vv \in Vector
    BY <1>4, OpFields
  <2>2. PICK row \in Entry : row = t[o.path]
    BY <1>1, <1>2, <1>4, <2>1
  <2>3. PICK new : new = [row EXCEPT !.tombstone = TRUE, !.vv = o.vv]
    OBVIOUS
  <2>4. RowsAfter(o) = [t EXCEPT ![o.path] = new]
    BY <1>1, <1>4, <2>1, <2>2, <2>3 DEF RowsAfter, RowMaps
  <2>5. new.vv = o.vv
    BY <2>3 DEF Entry
  <2> QED
    BY <1>1, <1>4, <2>4, <2>5 DEF OnlyWrites, Destination, RowMaps
<1>5. CASE o.type = "RENAME" /\ t[o.path] # None
  <2>1. o.path \in Paths /\ o.newPath \in Paths /\ o.vv \in Vector
    BY <1>5, OpFields
  <2>2. PICK row \in Entry : row = t[o.path]
    BY <1>2, <1>5, <2>1
  <2>3. PICK new : new = [row EXCEPT !.vv = o.vv]
    OBVIOUS
  <2>4. RowsAfter(o) = [t EXCEPT ![o.newPath] = new, ![o.path] = None]
    BY <1>1, <1>5, <2>2, <2>3 DEF RowsAfter
  <2>5. new.vv = o.vv
    BY <2>3 DEF Entry
  <2> QED
    BY <1>1, <1>5, <2>4, <2>5 DEF OnlyWrites, Destination, RowMaps
<1>6. CASE o.type = "MKDIR" \/ (o.type = "RENAME" /\ t[o.path] = None)
  <2>1. RowsAfter(o) = t
    BY <1>1, <1>6 DEF RowsAfter
  <2> QED
    BY <1>1, <2>1 DEF OnlyWrites
<1> QED
  BY <1>3, <1>4, <1>5, <1>6, OpFields

\* However an operation ends.
LEMMA MidwayWrites ==
  ASSUME DrivesAreSound, NEW o \in Operation, Applicable(o),
         o.type = "REMOVE" => manifest[o.target][o.path] \in Entry,
         NEW s \in Midway(o)
  PROVE  OnlyWrites(o, manifest[o.target], s.rows)
<1>1. PICK old : old = Here(o.target)
  OBVIOUS
<1>2. PICK new : new = After(o)
  OBVIOUS
<1>3. old.rows = manifest[o.target] /\ IsSound(old) /\ manifest[o.target] \in RowMaps
  BY <1>1, HereIsSound, OpFields DEF Here, State, DrivesAreSound
<1>4. new.rows = RowsAfter(o) /\ OnlyWrites(o, manifest[o.target], new.rows)
  BY <1>2, RowsAfterWrites DEF After, State
<1>5. \/ \E n \in 0 .. Len(Destination(o)) : s = [old EXCEPT !.dirs = @ \cup {a \in new.dirs : Len(a) <= n}]
      \/ \E f \in {Without(old.files, TmpFile(o)), new.files} : s = State(f, new.dirs, old.rows)
      \/ o.type = "RENAME" /\ s = State(new.files, new.dirs, [old.rows EXCEPT ![o.path] = None])
      \/ o.type = "REMOVE" /\ s = State(old.files, old.dirs, new.rows)
  BY <1>1, <1>2 DEF Midway
<1>6. \/ s.rows = old.rows \/ s.rows = [old.rows EXCEPT ![o.path] = None] \/ s.rows = new.rows
  BY <1>3, <1>5 DEF State, IsSound
<1> QED
  BY <1>3, <1>4, <1>6 DEF OnlyWrites, RowMaps

\* No row's vector goes back from m to n.
RowsGrow(m, n) ==
  \A d \in Drives, p \in Paths : m[d][p] # None /\ n[d][p] # None =>
    Compare(n[d][p].vv, m[d][p].vv) \in {"EQUAL", "DOMINATES"}

VectorInv == VaultInv /\ PlanCovers(plan, manifest)

OrderlySyncs == NamesOnce(plan) /\ (plan = <<>> => DeletersKnow(manifest))

\* An operation is carried out, fails or dies.
LEMMA ExecutionGrows ==
  ASSUME VectorInv, Execute \/ ExecuteFails \/ Crash
  PROVE  RowsGrow(manifest, manifest') /\ PlanCovers(plan', manifest')
<1>0. DrivesAreSound /\ plan \in Seq(Operation) /\ PlanCovers(plan, manifest)
  BY DEF VectorInv, VaultInv, PlanIsSound
<1>1. plan # <<>>
  BY DEF Execute, ExecuteFails, Crash
<1>2. PICK o \in Operation : /\ o = Head(plan)
                             /\ o.type = "REMOVE" => manifest[o.target][o.path] \in Entry
  BY <1>1, StepOfPlan DEF VectorInv
<1>3. PICK here : here = Here(o.target)
  OBVIOUS
<1>4. here.rows = manifest[o.target] /\ IsSound(here) /\ OnlyWrites(o, manifest[o.target], here.rows)
  BY <1>0, <1>3, HereIsSound, OpFields DEF Here, State, OnlyWrites
<1>5. Applicable(o) => \A s \in Midway(o) \cup Leftovers(o) : OnlyWrites(o, manifest[o.target], s.rows)
  <2>1. ASSUME NEW s \in Leftovers(o)
        PROVE  s.rows = here.rows
    <3>1. PICK x : s = [here EXCEPT !.files[x[1]] = File(x[2], x[3]), !.dirs = DirsAfter(o)]
      BY <1>3, <2>1 DEF Leftovers
    <3> QED
      BY <1>4, <3>1 DEF IsSound
  <2> QED
    BY <1>0, <1>2, <1>4, <2>1, MidwayWrites
<1>6. PICK s : OnlyWrites(o, manifest[o.target], s.rows) /\ Become(o.target, s)
  <2>1. CASE Execute
    <3>1. Applicable(o) /\ Become(o.target, After(o))
      BY <1>2, <2>1 DEF Execute
    <3>2. OnlyWrites(o, manifest[o.target], After(o).rows)
      BY <1>0, <1>2, <3>1, RowsAfterWrites DEF After, State
    <3> QED
      BY <3>1, <3>2
  <2>2. CASE ExecuteFails
    <3>1. \/ Become(o.target, Refused(o))
          \/ Applicable(o) /\ \E state \in Midway(o) \cup Leftovers(o) : Become(o.target, state)
      BY <1>2, <2>2 DEF ExecuteFails
    <3>2. Refused(o).rows = here.rows
      BY <1>3, <1>4 DEF Refused, IsSound
    <3> QED
      BY <1>4, <1>5, <3>1, <3>2
  <2>3. CASE Crash
    <3>1. PICK state \in {here} \cup IF Applicable(o) THEN Midway(o) \cup Leftovers(o) ELSE {} :
            Become(o.target, state)
      BY <1>2, <1>3, <2>3 DEF Crash
    <3> QED
      BY <1>4, <1>5, <3>1
  <2> QED
    BY <2>1, <2>2, <2>3
<1>7. PICK m \in [Drives -> RowMaps] : m = manifest
  BY <1>0 DEF DrivesAreSound
<1>8. PICK n : n = manifest'
  OBVIOUS
<1>9. n = [m EXCEPT ![o.target] = s.rows]
  BY <1>6, <1>7, <1>8 DEF Become
<1>10. ASSUME NEW d \in Drives, NEW p \in Paths
       PROVE  \/ n[d][p] = m[d][p] \/ n[d][p] = None
              \/ o.type # "MKDIR" /\ d = o.target /\ p = Destination(o) /\ n[d][p].vv = o.vv
  <2>1. CASE d = o.target
    BY <1>6, <1>7, <1>9, <2>1 DEF OnlyWrites
  <2>2. CASE d # o.target
    BY <1>9, <2>2
  <2> QED
    BY <2>1, <2>2
<1>11. PlanCovers(plan, m)
  BY <1>0, <1>7
<1>12. PlanCovers(plan', n)
  <2>1. CASE Crash
    <3>1. plan' = <<>> /\ DOMAIN <<>> = {}
      BY <2>1 DEF Crash
    <3> QED
      BY <3>1 DEF PlanCovers
  <2>2. CASE Execute \/ ExecuteFails
    <3>1. plan' = Tail(plan)
      BY <2>2 DEF Execute, ExecuteFails
    <3>2. ChangesOne(Head(plan), m, n)
      BY <1>2, <1>10 DEF ChangesOne
    <3>3. PlanCovers(Tail(plan), n)
      BY <1>0, <1>1, <1>11, <3>2, RestCovers
    <3> QED
      BY <3>1, <3>3
  <2> QED
    BY <2>1, <2>2
<1>13. o.type # "MKDIR" => Covers(o, m)
  <2>1. PICK ops \in Seq(Operation) : ops = plan
    BY <1>0
  <2>2. Len(ops) # 0
    BY <1>1, <2>1, EmptySeq
  <2>3. 1 \in DOMAIN ops /\ Head(ops) = ops[1]
    BY <2>2
  <2> QED
    BY <1>2, <1>11, <2>1, <2>3 DEF PlanCovers
<1>14. ASSUME NEW d \in Drives, NEW p \in Paths, m[d][p] # None, n[d][p] # None
       PROVE  Compare(n[d][p].vv, m[d][p].vv) \in {"EQUAL", "DOMINATES"}
  <2>1. m[d][p].vv \in Vector
    BY <1>7, <1>14 DEF RowMaps, Entry
  <2>2. CASE n[d][p] = m[d][p]
    BY <2>1, <2>2, SameVectorCompares
  <2>3. CASE o.type # "MKDIR" /\ d = o.target /\ p = Destination(o) /\ n[d][p].vv = o.vv
    <3>1. ~Exceeds(m[d][p].vv, o.vv) /\ o.vv \in Vector
      BY <1>13, <1>14, <2>3, OpFields DEF Covers
    <3> QED
      BY <2>1, <2>3, <3>1, GrowsCompare
  <2> QED
    BY <1>10, <1>14, <2>2, <2>3
<1> QED
  BY <1>7, <1>8, <1>12, <1>14 DEF RowsGrow

\* do_scan.
LEMMA ScannedGrows ==
  ASSUME DrivesAreSound, NEW d \in Drives, NEW p \in Paths, NEW unreadable, manifest[d][p] # None
  PROVE  \/ Scanned(d, p, unreadable).vv = manifest[d][p].vv
         \/ Scanned(d, p, unreadable).vv = Increment(manifest[d][p].vv, d)
<1>1. PICK row \in Entry : row = manifest[d][p]
  BY DEF DrivesAreSound, RowMaps
<1>2. PICK file : file = files[d][p]
  OBVIOUS
<1>3. FoundFile(file, row).vv = row.vv
  <2>1. PICK new : new = [row EXCEPT !.tombstone = FALSE]
    OBVIOUS
  <2>2. new.vv = row.vv
    BY <2>1 DEF Entry
  <2>3. FoundFile(file, row) = new \/ FoundFile(file, row) = Row(file.content, file.mtime, FALSE, row.vv)
    BY <1>1, <2>1 DEF FoundFile
  <2> QED
    BY <2>2, <2>3 DEF Row
<1>4. MarkDeleted(d, row).vv = Increment(row.vv, d)
  <2>1. PICK v : v = Increment(row.vv, d)
    OBVIOUS
  <2>2. MarkDeleted(d, row) = [row EXCEPT !.tombstone = TRUE, !.vv = v]
    BY <2>1 DEF MarkDeleted
  <2> QED
    BY <2>1, <2>2 DEF Entry
<1>5. \/ Scanned(d, p, unreadable) = FoundFile(file, row)
      \/ Scanned(d, p, unreadable) = MarkDeleted(d, row)
      \/ Scanned(d, p, unreadable) = row
  BY <1>1, <1>2 DEF Scanned
<1> QED
  BY <1>1, <1>3, <1>4, <1>5

LEMMA ScanGrows ==
  ASSUME VaultInv, NEW d \in Drives,
         \/ \E unreadable \in SUBSET Paths : Scan(d, unreadable)
         \/ ScanFallsShort(d) \/ Rebuild(d)
  PROVE  RowsGrow(manifest, manifest') /\ plan' = <<>>
<1>1. plan' = <<>>
  BY DEF Scan, ScanFallsShort, Rebuild
<1>2. DrivesAreSound
  BY DEF VaultInv
<1>3. PICK m \in [Drives -> RowMaps] : m = manifest
  BY <1>2 DEF DrivesAreSound
<1>4. PICK n : n = manifest'
  OBVIOUS
<1>5. ASSUME NEW p \in Paths
      PROVE  \/ n[d][p] = m[d][p] \/ n[d][p] = None
             \/ \E unreadable : n[d][p] = Scanned(d, p, unreadable)
  BY <1>3, <1>4 DEF Scan, ScanFallsShort, Rebuild
<1>6. \A e \in Drives \ {d} : n[e] = m[e]
  BY <1>3, <1>4 DEF Scan, ScanFallsShort, Rebuild
<1>7. ASSUME NEW e \in Drives, NEW p \in Paths, m[e][p] # None, n[e][p] # None
      PROVE  Compare(n[e][p].vv, m[e][p].vv) \in {"EQUAL", "DOMINATES"}
  <2>1. PICK v \in Vector : v = m[e][p].vv
    BY <1>3, <1>7 DEF RowMaps, Entry
  <2>2. n[e][p].vv = v \/ (e = d /\ n[e][p].vv = Increment(v, d))
    BY <1>2, <1>3, <1>5, <1>6, <1>7, <2>1, ScannedGrows
  <2> QED
    BY <2>1, <2>2, SameVectorCompares, IncrementCompares
<1> QED
  BY <1>1, <1>3, <1>4, <1>7 DEF RowsGrow

\* do_resolve.
LEMMA ResolveGrows ==
  ASSUME VaultInv, NEW p \in Paths, NEW useDrive \in Drives, NEW connected \in SUBSET Drives,
         Resolves(p, useDrive, connected) \/ ResolveDies(p, useDrive, connected)
  PROVE  RowsGrow(manifest, manifest') /\ plan' = <<>>
<1>1. plan' = <<>>
  BY DEF Resolves, ResolveDies, MayResolve
<1>2. useDrive \in connected /\ manifest[useDrive][p] # None
  BY DEF Resolves, ResolveDies, MayResolve
<1>3. PICK reached \in SUBSET connected : manifest' = Resolved(p, useDrive, connected, reached)
  BY DEF Resolves, ResolveDies
<1>4. PICK m \in [Drives -> RowMaps] : m = manifest
  BY DEF VaultInv, DrivesAreSound
<1>5. PICK n : n = manifest'
  OBVIOUS
<1>6. AreManifests(m) /\ DOMAIN m = Drives
  BY <1>4 DEF AreManifests, RowMaps
<1>7. PICK rows : rows = {m[d][p] : d \in connected} \ {None}
  OBVIOUS
<1>8. m[useDrive][p] \in rows /\ \A r \in rows : r # None /\ \E d \in connected : r = m[d][p] \/ r = m[d][p]
  BY <1>2, <1>4, <1>7
<1>9. connected \in SUBSET DOMAIN m
  BY <1>6
<1>10. PICK merged \in Vector : merged = MergedVector(rows)
  BY <1>6, <1>8, <1>9, MergeCoversRows
<1>11. PICK v \in Vector : v = Increment(merged, useDrive) /\ ~Exceeds(merged, v)
  BY <1>10, IncrementType, IncrementCompares
<1>12. PICK row \in Entry : row = m[useDrive][p]
  BY <1>2, <1>4 DEF RowMaps
<1>13. PICK new : new = [row EXCEPT !.vv = v]
  OBVIOUS
<1>14. n = [d \in Drives |-> IF d \in reached THEN [m[d] EXCEPT ![p] = new] ELSE m[d]]
  BY <1>3, <1>4, <1>5, <1>7, <1>10, <1>11, <1>12, <1>13 DEF Resolved
<1>15. ASSUME NEW d \in Drives, NEW q \in Paths, m[d][q] # None, n[d][q] # None
       PROVE  Compare(n[d][q].vv, m[d][q].vv) \in {"EQUAL", "DOMINATES"}
  <2>1. PICK u \in Vector : u = m[d][q].vv
    BY <1>4, <1>15 DEF RowMaps, Entry
  <2>2. CASE d \in reached /\ q = p
    <3>1. n[d][q].vv = v
      BY <1>4, <1>13, <1>14, <2>2 DEF RowMaps, Entry
    <3>2. m[d][p] \in rows
      BY <1>7, <1>15, <2>2
    <3>3. ~Exceeds(u, merged)
      BY <1>6, <1>8, <1>9, <1>10, <2>1, <2>2, <3>2, MergeCoversRows
    <3>4. ~Exceeds(u, v)
      BY <1>11, <3>3, ExceedsNot
    <3> QED
      BY <2>1, <3>1, <3>4, GrowsCompare
  <2>3. CASE ~(d \in reached /\ q = p)
    <3>1. n[d][q] = m[d][q]
      BY <1>4, <1>14, <2>3 DEF RowMaps
    <3> QED
      BY <2>1, <3>1, SameVectorCompares
  <2> QED
    BY <2>2, <2>3
<1> QED
  BY <1>1, <1>4, <1>5, <1>15 DEF RowsGrow

\* do_sync up to the plan.
LEMMA SyncCovers ==
  ASSUME VaultInv, OrderlySyncs, OrderlySyncs', NEW connected \in SUBSET Drives, Sync(connected)
  PROVE  PlanCovers(plan', manifest')
<1>1. PICK m : m = [d \in connected |-> manifest[d]] /\ plan' \in Plans(m)
  BY DEF Sync
<1>2. DOMAIN m = connected /\ \A d \in connected : m[d] = manifest[d]
  BY <1>1
<1>3. manifest \in [Drives -> RowMaps]
  BY DEF VaultInv, DrivesAreSound
<1>4. AreManifests(m)
  BY <1>2, <1>3 DEF AreManifests, RowMaps
<1>5. DeletersKnow(m)
  <2>1. DeletersKnow(manifest)
    BY DEF OrderlySyncs, Sync
  <2> QED
    BY <1>2, <1>3, <2>1 DEF DeletersKnow, IsTombstone, IsLive
<1>6. PICK ops \in Plans(m) : ops = plan'
  BY <1>1
<1>7. NamesOnce(ops)
  BY <1>6 DEF OrderlySyncs
<1>8. PlanCovers(ops, m)
  BY <1>4, <1>5, <1>7, PlansCover
<1>9. PICK n : n = manifest
  OBVIOUS
<1>10. ASSUME NEW i \in DOMAIN ops, ops[i].type # "MKDIR"
       PROVE  Covers(ops[i], n)
  <2>1. Covers(ops[i], m)
    BY <1>8, <1>10 DEF PlanCovers
  <2>2. ops[i].target \in connected
    <3>1. PICK renames \in RenameMaps(m) : ops \in Seq(AllOps(m, renames) \cup SoundDirOps)
      BY <1>4, PlansAreOps
    <3>2. ops[i] \in AllOps(m, renames) \/ ops[i] \in SoundDirOps
      BY <3>1
    <3>3. ops[i] \in AllOps(m, renames)
      BY <1>10, <3>2, DirOpFields DEF SoundDirOps
    <3> QED
      BY <1>2, <1>4, <3>3, TargetsAreThere
  <2> QED
    BY <1>2, <1>9, <2>1, <2>2 DEF Covers
<1>11. PlanCovers(ops, n)
  BY <1>8, <1>10 DEF PlanCovers
<1>12. manifest' = n
  BY <1>9 DEF Sync
<1> QED
  BY <1>6, <1>11, <1>12

LEMMA VectorInit == Init => VectorInv
<1> SUFFICES ASSUME Init
             PROVE  VectorInv
  OBVIOUS
<1>1. plan = <<>> /\ DOMAIN <<>> = {}
  BY DEF Init
<1>2. PlanCovers(plan, manifest)
  BY <1>1 DEF PlanCovers
<1> QED
  BY <1>2, VaultInit DEF VectorInv

LEMMA VectorStep ==
  ASSUME VectorInv, OrderlySyncs, OrderlySyncs', Next
  PROVE  RowsGrow(manifest, manifest') /\ PlanCovers(plan', manifest')
<1>0. VaultInv /\ PlanCovers(plan, manifest)
  BY DEF VectorInv
<1>1. ASSUME UNCHANGED manifest
      PROVE  RowsGrow(manifest, manifest')
  <2>1. \A d \in Drives, p \in Paths : manifest[d][p] # None => manifest[d][p].vv \in Vector
    BY <1>0 DEF VaultInv, DrivesAreSound, RowMaps, Entry
  <2> QED
    BY <1>1, <2>1, SameVectorCompares DEF RowsGrow
<1>2. ASSUME plan' = <<>>
      PROVE  PlanCovers(plan', manifest')
  <2>1. DOMAIN <<>> = {}
    OBVIOUS
  <2> QED
    BY <1>2, <2>1 DEF PlanCovers
<1>3. ASSUME NEW d \in Drives, NEW unreadable \in SUBSET Paths, Scan(d, unreadable)
      PROVE  RowsGrow(manifest, manifest') /\ PlanCovers(plan', manifest')
  BY <1>0, <1>2, <1>3, ScanGrows
<1>4. ASSUME NEW d \in Drives, ScanFallsShort(d) \/ Rebuild(d)
      PROVE  RowsGrow(manifest, manifest') /\ PlanCovers(plan', manifest')
  BY <1>0, <1>2, <1>4, ScanGrows
<1>5. ASSUME NEW connected \in SUBSET Drives, Sync(connected)
      PROVE  RowsGrow(manifest, manifest') /\ PlanCovers(plan', manifest')
  <2>1. UNCHANGED manifest
    BY <1>5 DEF Sync
  <2> QED
    BY <1>0, <1>1, <1>5, <2>1, SyncCovers
<1>6. CASE Execute \/ ExecuteFails \/ Crash
  BY <1>6, ExecutionGrows
<1>7. ASSUME NEW p \in Paths, NEW useDrive \in Drives, NEW connected \in SUBSET Drives,
             Resolves(p, useDrive, connected) \/ ResolveDies(p, useDrive, connected)
      PROVE  RowsGrow(manifest, manifest') /\ PlanCovers(plan', manifest')
  BY <1>0, <1>2, <1>7, ResolveGrows
<1>8. ASSUME NEW d \in Drives, NEW p \in Paths,
             \/ \E content \in Contents, mtime \in Times : UserWrite(d, p, content, mtime)
             \/ UserDelete(d, p)
             \/ \E newPath \in Paths : UserMove(d, p, newPath)
      PROVE  RowsGrow(manifest, manifest') /\ PlanCovers(plan', manifest')
  <2>1. \E f, changes : Changed(d, f, changes)
    BY <1>8 DEF UserWrite, UserDelete, UserMove
  <2>2. UNCHANGED <<manifest, plan>>
    BY <2>1 DEF Changed
  <2>3. PlanCovers(plan', manifest')
    BY <1>0, <2>2
  <2> QED
    BY <1>1, <2>2, <2>3
<1> QED
  BY <1>3, <1>4, <1>5, <1>6, <1>7, <1>8 DEF Next

\* Through every command, failure, crash and deed of the user no row's version
\* vector goes back, as long as no plan renames two files of a drive to one name
\* and no majority votes a version away that none of it knows of.
THEOREM VectorsNeverGoBack == Spec /\ []OrderlySyncs => VectorsOnlyGrow
<1>1. VectorInv /\ OrderlySyncs /\ OrderlySyncs' /\ [Next]_vars =>
        [\A d \in Drives, p \in Paths : manifest[d][p] # None /\ manifest'[d][p] # None =>
           Compare(manifest'[d][p].vv, manifest[d][p].vv) \in {"EQUAL", "DOMINATES"}]_vars
  BY VectorStep DEF RowsGrow
<1>2. VectorInv /\ OrderlySyncs /\ OrderlySyncs' /\ [Next]_vars => VectorInv'
  <2> SUFFICES ASSUME VectorInv, OrderlySyncs, OrderlySyncs', [Next]_vars
               PROVE  VectorInv'
    OBVIOUS
  <2>1. VaultInv'
    BY VaultStep DEF VectorInv
  <2>2. CASE Next
    BY <2>1, <2>2, VectorStep DEF VectorInv
  <2>3. CASE UNCHANGED vars
    BY <2>1, <2>3 DEF VectorInv, vars
  <2> QED
    BY <2>2, <2>3
<1> QED
  BY VectorInit, <1>1, <1>2, PTL DEF Spec, VectorsOnlyGrow

-----------------------------------------------------------------------------
(* Versions built on each other                                            *)

\* Vectors of versions of which one is always built on the other.
Comparable(V) == V \subseteq Vector /\ \A a, b \in V : ~Exceeds(a, b) \/ ~Exceeds(b, a)

LEMMA ExceedsBack ==
  ASSUME NEW v \in Vector, NEW w \in Vector, ~Exceeds(v, w), ~Exceeds(w, v)
  PROVE  v = w
<1>1. ASSUME NEW d \in Drives
      PROVE  v[d] = w[d]
  <2>1. v[d] \in Nat /\ w[d] \in Nat
    BY DEF Vector
  <2>2. ~(v[d] > w[d]) /\ ~(w[d] > v[d])
    BY DEF Exceeds
  <2> QED
    BY <2>1, <2>2
<1> QED
  BY <1>1 DEF Vector

\* A finite chain has a last version.
LEMMA ChainHasLast ==
  ASSUME NEW T, IsFiniteSet(T), T # {}, Comparable(T)
  PROVE  \E v \in T : \A w \in T : ~Exceeds(w, v)
<1> DEFINE prior == [v \in T |-> {w \in T : Exceeds(v, w)}]
<1>1. prior \in [T -> SUBSET T] /\ \A v, w \in T : w \in prior[v] <=> Exceeds(v, w)
  OBVIOUS
<1> HIDE DEF prior
<1>2. \A v, w \in T : v \in Vector /\ (~Exceeds(v, w) \/ ~Exceeds(w, v))
  BY DEF Comparable
<1>3. Orders(prior, T)
  <2>1. \A v \in T : v \notin prior[v]
    BY <1>1, <1>2 DEF Exceeds
  <2>2. ASSUME NEW v \in T, NEW w \in T, v \in prior[w], NEW u \in prior[v]
        PROVE  u \in prior[w]
    <3>1. u \in T /\ u \in Vector /\ v \in Vector /\ w \in Vector
      BY <1>1, <1>2
    <3>2. ~Exceeds(v, w) /\ ~Exceeds(u, v) /\ Exceeds(v, u)
      BY <1>1, <1>2, <2>2, <3>1
    <3>3. Exceeds(w, u)
      <4>1. ASSUME ~Exceeds(w, u)
            PROVE  FALSE
        BY <3>1, <3>2, <4>1, ExceedsNot
      <4> QED
        BY <4>1
    <3> QED
      BY <1>1, <3>1, <3>3
  <2>3. ASSUME NEW v \in T, NEW w \in T
        PROVE  v = w \/ v \in prior[w] \/ w \in prior[v]
    <3>1. v \in Vector /\ w \in Vector
      BY <1>2
    <3> QED
      BY <1>1, <3>1, ExceedsBack
  <2>4. \A v, w \in T : v \in prior[w] => prior[v] \subseteq prior[w]
    BY <2>2
  <2> QED
    BY <2>1, <2>3, <2>4 DEF Orders
<1>4. PICK f \in [1 .. Cardinality(T) -> T] : Enumerates(f, prior, T)
  BY <1>1, <1>3, Enumeration
<1>5. PICK n \in Nat : n = Cardinality(T)
  BY FS_CardinalityType
<1>6. \A x \in T : \E i \in 1 .. n : f[i] = x
  BY <1>4, <1>5 DEF Enumerates
<1>7. n \in 1 .. n
  <2>1. PICK x : x \in T
    OBVIOUS
  <2>2. PICK i \in 1 .. n : f[i] = x
    BY <1>6, <2>1
  <2> QED
    BY <2>2
<1>8. PICK v \in T : v = f[n]
  BY <1>4, <1>5, <1>7
<1>9. ASSUME NEW w \in T
      PROVE  ~Exceeds(w, v)
  <2>1. PICK i \in 1 .. n : f[i] = w
    BY <1>6
  <2>2. i < n => f[i] \in prior[f[n]]
    BY <1>4, <1>5, <1>7 DEF Enumerates
  <2>3. i < n => Exceeds(v, w)
    BY <1>1, <1>8, <2>1, <2>2
  <2>4. i = n \/ i < n
    OBVIOUS
  <2>5. w = v => ~Exceeds(w, v)
    BY <1>2 DEF Exceeds
  <2> QED
    BY <1>2, <1>8, <2>1, <2>3, <2>4, <2>5
<1> QED
  BY <1>9

\* The merge of rows of a chain is the vector of the last one.
LEMMA MergedIsLast ==
  ASSUME NEW rows, IsFiniteSet(rows), NEW v \in Vector,
         \A r \in rows : r.vv \in Vector /\ ~Exceeds(r.vv, v), NEW last \in rows, last.vv = v
  PROVE  MergedVector(rows) = v
<1>1. PICK w \in Vector : w = MergedVector(rows)
  BY MergedVectorType
<1>2. ASSUME NEW i \in Drives
      PROVE  w[i] = v[i]
  <2>1. PICK T : T = {r.vv[i] : r \in rows}
    OBVIOUS
  <2>2. w[i] = Max(T)
    BY <1>1, <2>1 DEF MergedVector
  <2>3. T \subseteq Nat /\ v[i] \in T
    BY <2>1 DEF Vector
  <2>4. ASSUME NEW t \in T
        PROVE  v[i] >= t
    <3>1. PICK r \in rows : t = r.vv[i]
      BY <2>1
    <3>2. ~(r.vv[i] > v[i])
      BY DEF Exceeds
    <3>3. t \in Nat /\ v[i] \in Nat
      BY <2>3
    <3> QED
      BY <3>1, <3>2, <3>3
  <2> QED
    BY <2>2, <2>3, <2>4, LargestNumber
<1>3. w = v
  BY <1>2 DEF Vector
<1> QED
  BY <1>1, <1>3

\* So it is one of the chain.
LEMMA MergedIsInChain ==
  ASSUME NEW V, Comparable(V), NEW rows, IsFiniteSet(rows), rows # {}, \A r \in rows : r.vv \in V
  PROVE  MergedVector(rows) \in V
<1>1. PICK T : T = {r.vv : r \in rows}
  OBVIOUS
<1>2. IsFiniteSet(T)
  <2>1. PICK D : D = rows
    OBVIOUS
  <2>2. PICK f \in [D -> V] : \A r \in D : f[r] = r.vv
    <3>1. [r \in D |-> r.vv] \in [D -> V]
      BY <2>1
    <3> QED
      BY <3>1
  <2>3. \A t \in T : \E r \in D : f[r] = t
    BY <1>1, <2>1, <2>2
  <2>4. IsFiniteSet(D)
    BY <2>1
  <2> QED
    BY <2>2, <2>3, <2>4, ImageFinite
<1>3. T \subseteq V /\ T # {}
  BY <1>1
<1>4. Comparable(T)
  BY <1>3 DEF Comparable
<1>5. PICK v \in T : \A w \in T : ~Exceeds(w, v)
  BY <1>2, <1>3, <1>4, ChainHasLast
<1>6. PICK last \in rows : last.vv = v
  BY <1>1
<1>7. v \in Vector /\ \A r \in rows : r.vv \in Vector /\ ~Exceeds(r.vv, v)
  BY <1>1, <1>3, <1>5 DEF Comparable
<1>8. MergedVector(rows) = v
  BY <1>6, <1>7, MergedIsLast
<1> QED
  BY <1>3, <1>8

-----------------------------------------------------------------------------
(* What is planned for them                                                *)

\* The rows of some drives.
RowsOf(m, p, e) == {m[d][p] : d \in e}

\* What is planned for a path without renames: removals after a majority, or
\* what the drives need to have the version of the source.
LEMMA PathOpsCases ==
  ASSUME NEW m, AreManifests(m), NEW p \in Paths, NEW o \in PathOps(m, p, {})
  PROVE  \/ \E e \in SUBSET DOMAIN m :
              /\ e # {} /\ \A d \in e : IsTombstone(m, d, p)
              /\ o.type = "REMOVE" /\ o.vv = MergedVector(RowsOf(m, p, e))
         \/ /\ o.source = SourceDrive(m, p) /\ o.source \in DOMAIN Versions(m, p)
            /\ o.target \in DOMAIN m /\ o.target # o.source
            /\ o.type = Needed(m, p, o.source, o.target) /\ o.type # None
            /\ o.vv = PlannedVector(m, p, o.source)
<1>1. PICK e : e = {d \in DOMAIN m : IsTombstone(m, d, p)}
  OBVIOUS
<1>2. PICK t : t = {d \in DOMAIN m : <<d, p>> \notin {}}
  OBVIOUS
<1>3. e \in SUBSET DOMAIN m /\ \A d \in e : IsTombstone(m, d, p)
  BY <1>1
<1>4. CASE 2 * Cardinality(e) > Cardinality(DOMAIN m)
  <2>1. o \in Removals(m, p, e, t)
    BY <1>1, <1>2, <1>4 DEF PathOps
  <2>2. e # {}
    <3>1. Cardinality({}) = 0 /\ IsFiniteSet(DOMAIN m)
      BY FS_EmptySet, FS_Subset, VaultAssumption DEF AreManifests
    <3>2. PICK k \in Nat : k = Cardinality(DOMAIN m)
      BY <3>1, FS_CardinalityType
    <3> QED
      BY <1>4, <3>1, <3>2
  <2>3. PICK v : v = MergedVector(RowsOf(m, p, e))
    OBVIOUS
  <2>4. PICK tgt : o = SyncOp("REMOVE", Min(e), tgt, p, p, v)
    BY <2>1, <2>3 DEF Removals, RowsOf
  <2>5. o.type = "REMOVE" /\ o.vv = v
    BY <2>4, SyncOpFields
  <2> QED
    BY <1>3, <2>2, <2>3, <2>5
<1>5. CASE ~(2 * Cardinality(e) > Cardinality(DOMAIN m))
  <2>1. o \in UNION {Updates(m, p, src, t) :
                     src \in IF DOMAIN Versions(m, p) = {} THEN {} ELSE {SourceDrive(m, p)}}
    BY <1>1, <1>2, <1>5, Zenon DEF PathOps
  <2>2. PICK src : src = SourceDrive(m, p)
    OBVIOUS
  <2>3. DOMAIN Versions(m, p) # {} /\ o \in Updates(m, p, src, t)
    BY <2>1, <2>2
  <2>4. src \in DOMAIN Versions(m, p)
    BY <2>2, <2>3, SourceExists DEF AreManifests
  <2>5. PICK v : v = PlannedVector(m, p, src)
    OBVIOUS
  <2>6. PICK tgt \in t \ {src} : /\ Needed(m, p, src, tgt) # None
                                /\ o = SyncOp(Needed(m, p, src, tgt), src, tgt, p, p, v)
    BY <2>3, <2>5 DEF Updates
  <2>7. PICK type : type = Needed(m, p, src, tgt)
    OBVIOUS
  <2>8. o.type = type /\ o.source = src /\ o.target = tgt /\ o.vv = v
    BY <2>6, <2>7, SyncOpFields
  <2>9. tgt \in DOMAIN m
    BY <1>2, <2>6
  <2> QED
    BY <2>2, <2>4, <2>5, <2>6, <2>7, <2>8, <2>9
<1> QED
  BY <1>4, <1>5

\* A path in no conflict: the newest version is the one to follow.
LEMMA NewestIsSource ==
  ASSUME NEW m, AreManifests(m), NEW p \in Paths, NEW V, Comparable(V),
         \A d \in DOMAIN m : m[d][p] # None => m[d][p].vv \in V,
         NEW k \in DOMAIN m, m[k][p] # None,
         \A d \in DOMAIN m : m[d][p] # None => ~Exceeds(m[d][p].vv, m[k][p].vv)
  PROVE  /\ SourceDrive(m, p) \in DOMAIN m /\ m[SourceDrive(m, p)][p] # None
         /\ m[SourceDrive(m, p)][p].vv = m[k][p].vv
         /\ SourceDrive(m, p) <= k
<1>1. PICK v : v = Versions(m, p)
  OBVIOUS
<1>2. PICK D \in SUBSET Drives : D = DOMAIN v
  BY <1>1 DEF Versions, AreManifests
<1>3. \A d : d \in D <=> d \in DOMAIN m /\ m[d][p] # None
  BY <1>1, <1>2 DEF Versions
<1>4. \A d \in D : v[d] = m[d][p] /\ v[d].vv \in V /\ v[d].vv \in Vector
  BY <1>1, <1>2, <1>3 DEF Versions, Comparable
<1>5. \A d, e \in D : Compare(v[d].vv, v[e].vv) # "CONCURRENT"
  BY <1>4 DEF Comparable, Compare
<1>6. SourceDrive(m, p) = NewestVersion(v)
  <2> DEFINE Usable(winner) ==
               /\ winner \in DOMAIN v
               /\ \E d \in DOMAIN v : Compare(v[winner].vv, v[d].vv) = "CONCURRENT"
             usable == {y \in Resolutions(m) : Usable(y[2])}
  <2>1. usable = {}
    BY <1>2, <1>5
  <2> QED
    BY <1>1, <2>1 DEF SourceDrive
<1>7. k \in D /\ \A d \in D : ~Exceeds(v[d].vv, v[k].vv)
  BY <1>3, <1>4
<1>8. /\ NewestVersion(v) \in D /\ v[NewestVersion(v)].vv = v[k].vv
      /\ \A d \in D : v[d].vv = v[k].vv => NewestVersion(v) <= d
  BY <1>2, <1>4, <1>7, TopIsNewest
<1> QED
  BY <1>3, <1>4, <1>6, <1>7, <1>8

\* The vectors that go with it.
LEMMA PlannedInChain ==
  ASSUME NEW m, AreManifests(m), NEW p \in Paths, NEW V, Comparable(V),
         \A d \in DOMAIN m : m[d][p] # None => m[d][p].vv \in V,
         NEW src \in DOMAIN m, m[src][p] # None
  PROVE  /\ PlannedVector(m, p, src) \in V
         /\ \A k \in DOMAIN m :
              m[k][p] # None /\ (\A d \in DOMAIN m : m[d][p] # None => ~Exceeds(m[d][p].vv, m[k][p].vv))
                => PlannedVector(m, p, src) = m[k][p].vv
<1>1. PICK rows : rows = {m[d][p] : d \in DOMAIN m} \ {None}
  OBVIOUS
<1>2. \A r : r \in rows <=> r # None /\ \E d \in DOMAIN m : r = m[d][p]
  BY <1>1
<1>3. IsFiniteSet(rows)
  <2>1. \A r \in rows : r # None /\ \E d \in DOMAIN m : r = m[d][p] \/ r = m[d][p]
    BY <1>2
  <2>2. DOMAIN m \in SUBSET DOMAIN m
    OBVIOUS
  <2> QED
    BY <2>1, <2>2, RowsAreFew
<1>4. PlannedVector(m, p, src) = MergedVector(rows)
  BY <1>1 DEF PlannedVector
<1>5. \A r \in rows : r.vv \in V
  BY <1>2
<1>6. rows # {}
  BY <1>2
<1>7. MergedVector(rows) \in V
  BY <1>3, <1>5, <1>6, MergedIsInChain
<1>8. ASSUME NEW k \in DOMAIN m, m[k][p] # None,
             \A d \in DOMAIN m : m[d][p] # None => ~Exceeds(m[d][p].vv, m[k][p].vv)
      PROVE  MergedVector(rows) = m[k][p].vv
  <2>1. PICK last \in rows : last = m[k][p]
    BY <1>2, <1>8
  <2>2. PICK v \in Vector : v = last.vv
    BY <1>5 DEF Comparable
  <2>3. \A r \in rows : r.vv \in Vector /\ ~Exceeds(r.vv, v)
    BY <1>2, <1>5, <1>8, <2>1, <2>2 DEF Comparable
  <2>4. MergedVector(rows) = v
    BY <1>3, <2>2, <2>3, MergedIsLast
  <2> QED
    BY <2>1, <2>2, <2>4
<1> QED
  BY <1>4, <1>7, <1>8

\* Then it is the vector of the source.
LEMMA PlannedIsSources ==
  ASSUME NEW m, AreManifests(m), NEW p \in Paths, NEW V, Comparable(V),
         \A d \in DOMAIN m : m[d][p] # None => m[d][p].vv \in V,
         NEW src \in DOMAIN m, m[src][p] # None, src = SourceDrive(m, p)
  PROVE  PlannedVector(m, p, src) = m[src][p].vv
<1>1. PICK rows : rows = {m[d][p] : d \in DOMAIN m} \ {None}
  OBVIOUS
<1>2. \A r \in rows : r # None /\ \E d \in DOMAIN m : r = m[d][p] \/ r = m[d][p]
  BY <1>1
<1>3. PICK w : w = PlannedVector(m, p, src)
  OBVIOUS
<1>4. w = MergedVector(rows)
  BY <1>1, <1>3 DEF PlannedVector
<1>5. PICK T : T = {r.vv : r \in rows}
  OBVIOUS
<1>6. T \subseteq V /\ \A d \in DOMAIN m : m[d][p] # None => m[d][p].vv \in T
  BY <1>1, <1>5
<1>7. Comparable(T)
  BY <1>6 DEF Comparable
<1>8. w \in T
  BY <1>3, <1>6, <1>7, PlannedInChain
<1>9. PICK k \in DOMAIN m : m[k][p] # None /\ w = m[k][p].vv
  BY <1>1, <1>5, <1>8
<1>10. ASSUME NEW d \in DOMAIN m, m[d][p] # None
       PROVE  ~Exceeds(m[d][p].vv, m[k][p].vv)
  <2>1. PICK row \in rows : row = m[d][p]
    BY <1>1, <1>10
  <2>2. DOMAIN m \in SUBSET DOMAIN m
    OBVIOUS
  <2>3. ~Exceeds(row.vv, MergedVector(rows))
    BY <1>2, <2>2, MergeCoversRows
  <2> QED
    BY <1>4, <1>9, <2>1, <2>3
<1>11. m[SourceDrive(m, p)][p].vv = m[k][p].vv
  BY <1>9, <1>10, NewestIsSource
<1> QED
  BY <1>3, <1>9, <1>11

\* Of a file in no conflict that nobody has deleted there are only copies to make.
LEMMA LiveOps ==
  ASSUME NEW m, AreManifests(m), NEW p \in Paths, NEW V, Comparable(V),
         \A d \in DOMAIN m : m[d][p] = None \/ (IsLive(m, d, p) /\ m[d][p].vv \in V),
         NEW o \in PathOps(m, p, {})
  PROVE  /\ Copies(o) /\ o.source = SourceDrive(m, p) /\ o.vv = m[o.source][p].vv
         /\ o.source \in DOMAIN m /\ IsLive(m, o.source, p)
         /\ o.target \in DOMAIN m /\ o.target # o.source
         /\ Needed(m, p, o.source, o.target) # None
<1>1. ASSUME NEW e \in SUBSET DOMAIN m, e # {}, \A d \in e : IsTombstone(m, d, p)
      PROVE  FALSE
  <2>1. PICK d : d \in e
    BY <1>1
  <2> QED
    BY <1>1, <2>1 DEF IsLive, IsTombstone
<1>2. /\ o.source = SourceDrive(m, p) /\ o.source \in DOMAIN Versions(m, p)
      /\ o.target \in DOMAIN m /\ o.target # o.source
      /\ o.type = Needed(m, p, o.source, o.target) /\ o.type # None
      /\ o.vv = PlannedVector(m, p, o.source)
  BY <1>1, PathOpsCases
<1>3. PICK src : src = o.source
  OBVIOUS
<1>4. src \in DOMAIN m /\ m[src][p] # None
  BY <1>2, <1>3 DEF Versions
<1>5. IsLive(m, src, p) /\ ~m[src][p].tombstone
  BY <1>4 DEF IsLive
<1>6. \A d : Needed(m, p, src, d) \in {"COPY", "REPLACE", None}
  BY <1>5 DEF Needed
<1>7. \A d \in DOMAIN m : m[d][p] # None => m[d][p].vv \in V
  OBVIOUS
<1>8. PlannedVector(m, p, src) = m[src][p].vv
  BY <1>2, <1>3, <1>4, <1>7, PlannedIsSources
<1> QED
  BY <1>2, <1>3, <1>4, <1>5, <1>6, <1>8 DEF Copies

\* Of one whose newest version is a deletion there is only to be removed.
LEMMA DeletedOps ==
  ASSUME NEW m, AreManifests(m), NEW p \in Paths, NEW V, Comparable(V), NEW w \in Vector,
         \A v \in V : ~Exceeds(v, w) /\ v # w,
         \A d \in DOMAIN m : \/ IsTombstone(m, d, p) /\ m[d][p].vv = w
                             \/ IsLive(m, d, p) /\ m[d][p].vv \in V,
         NEW k \in DOMAIN m, IsTombstone(m, k, p), NEW o \in PathOps(m, p, {})
  PROVE  o.type = "REMOVE" /\ o.vv = w
<1>1. PICK U : U = V \cup {w}
  OBVIOUS
<1>2. Comparable(U)
  <2>1. \A a \in V : a \in Vector /\ ~Exceeds(a, w)
    BY DEF Comparable
  <2>2. ~Exceeds(w, w)
    BY DEF Exceeds, Vector
  <2> QED
    BY <1>1, <2>1, <2>2 DEF Comparable
<1>3. \A d \in DOMAIN m : m[d][p] # None /\ m[d][p].vv \in U
  BY <1>1 DEF IsLive, IsTombstone
<1>4. m[k][p].vv = w /\ m[k][p] # None
  BY DEF IsLive, IsTombstone
<1>5. \A d \in DOMAIN m : ~Exceeds(m[d][p].vv, w)
  <2>1. \A v \in U : ~Exceeds(v, w)
    BY <1>1 DEF Exceeds, Vector
  <2> QED
    BY <1>3, <2>1
<1>6. CASE /\ o.source = SourceDrive(m, p) /\ o.source \in DOMAIN Versions(m, p)
           /\ o.target \in DOMAIN m /\ o.target # o.source
           /\ o.type = Needed(m, p, o.source, o.target) /\ o.type # None
           /\ o.vv = PlannedVector(m, p, o.source)
  <2>1. PICK src : src = o.source
    OBVIOUS
  <2>2. src = SourceDrive(m, p) /\ src \in DOMAIN m
    BY <1>6, <2>1 DEF Versions
  <2>3. m[src][p].vv = w
    <3>1. \A d \in DOMAIN m : m[d][p] # None => ~Exceeds(m[d][p].vv, m[k][p].vv)
      BY <1>4, <1>5
    <3>2. \A d \in DOMAIN m : m[d][p] # None => m[d][p].vv \in U
      BY <1>3
    <3> QED
      BY <1>2, <1>4, <2>2, <3>1, <3>2, NewestIsSource
  <2>4. IsTombstone(m, src, p)
    BY <2>2, <2>3
  <2>5. \A d : Needed(m, p, src, d) \in {"REMOVE", None}
    BY <2>4 DEF Needed, IsTombstone
  <2>6. PlannedVector(m, p, src) = w
    <3>1. \A d \in DOMAIN m : m[d][p] # None => ~Exceeds(m[d][p].vv, m[k][p].vv)
      BY <1>4, <1>5
    <3>2. \A d \in DOMAIN m : m[d][p] # None => m[d][p].vv \in U
      BY <1>3
    <3> QED
      BY <1>2, <1>3, <1>4, <2>2, <3>1, <3>2, PlannedInChain
  <2> QED
    BY <1>6, <2>1, <2>5, <2>6
<1>7. CASE \E e \in SUBSET DOMAIN m :
              /\ e # {} /\ \A d \in e : IsTombstone(m, d, p)
              /\ o.type = "REMOVE" /\ o.vv = MergedVector(RowsOf(m, p, e))
  <2>1. PICK e \in SUBSET DOMAIN m :
          /\ e # {} /\ \A d \in e : IsTombstone(m, d, p)
          /\ o.type = "REMOVE" /\ o.vv = MergedVector(RowsOf(m, p, e))
    BY <1>7
  <2>2. PICK rows : rows = RowsOf(m, p, e)
    OBVIOUS
  <2>3. o.type = "REMOVE" /\ o.vv = MergedVector(rows)
    BY <2>1, <2>2
  <2>4. \A r \in rows : \E d \in e : r = m[d][p]
    BY <2>2 DEF RowsOf
  <2>5. \A r \in rows : r # None /\ r.vv = w
    BY <2>1, <2>4 DEF IsLive, IsTombstone
  <2>6. IsFiniteSet(rows)
    <3>1. \A r \in rows : r # None /\ \E d \in e : r = m[d][p] \/ r = m[d][p]
      BY <2>4, <2>5
    <3> QED
      BY <3>1, RowsAreFew
  <2>7. PICK d : d \in e
    BY <2>1
  <2>8. PICK last \in rows : last = m[d][p]
    BY <2>2, <2>7 DEF RowsOf
  <2>9. \A r \in rows : r.vv \in Vector /\ ~Exceeds(r.vv, w)
    BY <2>5 DEF Exceeds, Vector
  <2>10. last.vv = w
    BY <2>5
  <2>11. MergedVector(rows) = w
    BY <2>6, <2>9, <2>10, MergedIsLast
  <2> QED
    BY <2>3, <2>11
<1> QED
  BY <1>6, <1>7, PathOpsCases

-----------------------------------------------------------------------------
\* Does o work on a file p?
ForPath(o, p) == o.type # "MKDIR" /\ o.path = p

LEMMA PlanForPath ==
  ASSUME FilesAreNoDirs, NEW m, AreManifests(m), NEW ops \in Plans(m),
         \A i \in DOMAIN ops : ops[i].type # "RENAME", NEW p \in Paths,
         NEW i \in DOMAIN ops, ForPath(ops[i], p)
  PROVE  ops[i] \in PathOps(m, p, {})
<1>0. DOMAIN m \subseteq Drives
  BY DEF AreManifests
<1>1. PICK renames \in RenameMaps(m) : HasAllOps(ops, AllOps(m, renames))
  BY <1>0, PlanHasAllOps
<1>2. DOMAIN renames = {} /\ RenameHandled(renames) = {}
  BY <1>0, <1>1, NoRenames
<1>3. \A o : o \in AllOps(m, renames) => \E q \in Paths : o \in PathOps(m, q, {})
  BY <1>2 DEF AllOps
<1>4. PICK q \in Paths : ops[i] \in PathOps(m, q, {})
  BY <1>1, <1>3 DEF HasAllOps, ForPath
<1>5. ops[i].path = q
  BY <1>0, <1>4, PathOpsFacts
<1> QED
  BY <1>4, <1>5 DEF ForPath

\* What a scan that meets all files makes of a row.
LEMMA ScannedRow ==
  ASSUME DrivesAreSound, NEW d \in Drives, NEW p \in Paths,
         NEW old, old = manifest[d][p], NEW file, file = files[d][p], NEW new, new = Scanned(d, p, {})
  PROVE  /\ file # None =>
              /\ new # None /\ ~new.tombstone /\ new.vv = IF old = None THEN Zero ELSE old.vv
              /\ old = None \/ old.hash = file.content => new.hash = file.content
         /\ file = None /\ old # None /\ ~old.tombstone =>
              new # None /\ new.tombstone /\ new.vv = Increment(old.vv, d)
         /\ file = None /\ (old = None \/ old.tombstone) => new = old
<1>0. old \in {None} \cup Entry /\ file \in {None} \cup [content : Contents, mtime : Times]
  BY DEF DrivesAreSound, RowMaps, FileMaps
<1>1. CASE file # None
  <2>1. new = FoundFile(file, old)
    BY <1>1 DEF Scanned
  <2>2. file.content \in Contents /\ file.mtime \in Times
    BY <1>0, <1>1
  <2>3. Zero \in Vector /\ FALSE \in BOOLEAN
    BY DEF Zero, Vector
  <2>4. CASE old = None
    <3>1. new = Row(file.content, file.mtime, FALSE, Zero)
      BY <2>1, <2>4 DEF FoundFile
    <3>2. new \in Entry
      BY <2>2, <2>3, <3>1, RowType
    <3>3. new.vv = Zero /\ new.hash = file.content /\ new.tombstone = FALSE
      BY <3>1 DEF Row
    <3> QED
      BY <1>1, <2>4, <3>2, <3>3, NoneIsNoRow
  <2>5. CASE old # None /\ old.mtime = file.mtime
    <3>1. new = [old EXCEPT !.tombstone = FALSE] /\ old \in Entry
      BY <1>0, <2>1, <2>5 DEF FoundFile
    <3>2. new \in Entry
      BY <2>3, <3>1, MarkType
    <3>3. new.vv = old.vv /\ new.hash = old.hash /\ new.tombstone = FALSE
      BY <3>1 DEF Entry
    <3> QED
      BY <1>1, <2>5, <3>2, <3>3, NoneIsNoRow
  <2>6. CASE old # None /\ old.mtime # file.mtime
    <3>1. new = Row(file.content, file.mtime, FALSE, old.vv) /\ old \in Entry
      BY <1>0, <2>1, <2>6 DEF FoundFile
    <3>2. old.vv \in Vector
      BY <3>1 DEF Entry
    <3>3. new \in Entry
      BY <2>2, <2>3, <3>1, <3>2, RowType
    <3>4. new.vv = old.vv /\ new.hash = file.content /\ new.tombstone = FALSE
      BY <3>1 DEF Row
    <3> QED
      BY <1>1, <2>6, <3>3, <3>4, NoneIsNoRow
  <2> QED
    BY <2>4, <2>5, <2>6
<1>2. CASE file = None /\ old # None /\ ~old.tombstone
  <2>1. new = MarkDeleted(d, old)
    BY <1>2 DEF Scanned, IsLive
  <2>2. old \in Entry /\ old.vv \in Vector
    BY <1>0, <1>2 DEF Entry
  <2>3. PICK v \in Vector : v = Increment(old.vv, d)
    BY <2>2, IncrementType
  <2>4. new = [old EXCEPT !.tombstone = TRUE, !.vv = v]
    BY <2>1, <2>3 DEF MarkDeleted
  <2>5. new \in Entry
    BY <2>2, <2>3, <2>4, NewTombstone
  <2>6. new.tombstone = TRUE /\ new.vv = v
    BY <2>2, <2>4 DEF Entry
  <2> QED
    BY <1>2, <2>3, <2>5, <2>6, NoneIsNoRow
<1>3. CASE file = None /\ (old = None \/ old.tombstone)
  BY <1>3 DEF Scanned, IsLive
<1> QED
  BY <1>1, <1>2, <1>3

-----------------------------------------------------------------------------
(* A change and what follows from it                                       *)

\* A change of a file on a drive, when it held the version newest there is.
IsChange(x) ==
  /\ x.kind \in {"create", "edit", "delete"} /\ x.drive \in Drives
  /\ x.content = None <=> x.kind = "delete"
  /\ Comparable(x.known) /\ x.newest \in x.known
  /\ \A v \in x.known : ~Exceeds(v, x.newest)
  /\ x.kind = "create" => x.known = {Zero}

\* An edit on another drive than the first: made where alone the version was newest.
IsOnly(x) == x.kind = "edit" /\ x.drive # Min(Drives)

Holding(file) == IF file = None THEN None ELSE file.content

\* A row as it was before the change, or as it is when the change has come to
\* the drive: a tombstone, or the row of the created file.
RowFollows(x, e, row, file) ==
  /\ e = x.drive => Holding(file) = x.content
  /\ IF row = None THEN x.kind = "create" /\ (e # x.drive => file = None)
     ELSE IF row.tombstone
       THEN x.kind = "delete" /\ row.vv = Increment(x.newest, x.drive) /\ file = None
       ELSE /\ row.vv \in x.known
            /\ IF e = x.drive THEN row.vv = x.newest ELSE file # None
            /\ x.kind = "create" => row.hash = x.content /\ Holding(file) = x.content
            /\ IsOnly(x) /\ row.vv = x.newest => Holding(file) = x.content

\* An operation that brings the deletion on, or leaves the changed drive alone;
\* file is its source's.
OpFollows(x, o, file) ==
  \/ x.kind = "delete" /\ o.type = "REMOVE" /\ o.vv = Increment(x.newest, x.drive)
  \/ /\ Copies(o) /\ o.target # x.drive /\ o.vv \in x.known
     /\ IsOnly(x) /\ o.vv = x.newest => Holding(file) = x.content

Spreads(x, p, f, m, ops) ==
  /\ \A e \in Drives : RowFollows(x, e, m[e][p], f[e][p])
  /\ \A i \in DOMAIN ops : ForPath(ops[i], p) => OpFollows(x, ops[i], f[ops[i].source][p])
  /\ \A i, j \in DOMAIN ops :
       ForPath(ops[i], p) /\ ForPath(ops[j], p) /\ Copies(ops[i]) => ops[j].target # ops[i].source

LEMMA ScanFollows ==
  ASSUME DrivesAreSound, NEW x, IsChange(x), NEW d \in Drives, NEW p \in Paths,
         RowFollows(x, d, manifest[d][p], files[d][p])
  PROVE  RowFollows(x, d, Scanned(d, p, {}), files[d][p])
<1>1. PICK old : old = manifest[d][p]
  OBVIOUS
<1>2. PICK file : file = files[d][p] /\ (file # None => file.content # None)
  <2>1. files[d][p] # None => files[d][p] \in [content : Contents, mtime : Times]
    BY DEF DrivesAreSound, FileMaps
  <2> QED
    BY <2>1, VaultAssumption
<1>3. PICK new : new = Scanned(d, p, {})
  OBVIOUS
<1>4. /\ file # None =>
           /\ new # None /\ ~new.tombstone /\ new.vv = IF old = None THEN Zero ELSE old.vv
           /\ old = None \/ old.hash = file.content => new.hash = file.content
      /\ file = None /\ old # None /\ ~old.tombstone =>
           new # None /\ new.tombstone /\ new.vv = Increment(old.vv, d)
      /\ file = None /\ (old = None \/ old.tombstone) => new = old
  BY <1>1, <1>2, <1>3, ScannedRow
<1>5. RowFollows(x, d, old, file)
  BY <1>1, <1>2
<1>6. PICK kind, drive, content, known, newest :
        /\ kind = x.kind /\ drive = x.drive /\ content = x.content /\ known = x.known
        /\ newest = x.newest
  OBVIOUS
<1>7. /\ content = None <=> kind = "delete"
      /\ newest \in known
      /\ kind = "create" => known = {Zero} /\ ~IsOnly(x)
  BY <1>6 DEF IsChange, IsOnly
<1>8. /\ d = drive => Holding(file) = content
      /\ old = None => kind = "create" /\ (d # drive => file = None)
      /\ old # None /\ old.tombstone =>
           kind = "delete" /\ old.vv = Increment(newest, drive) /\ file = None
      /\ old # None /\ ~old.tombstone =>
           /\ old.vv \in known
           /\ d = drive => old.vv = newest
           /\ d # drive => file # None
           /\ kind = "create" => old.hash = content /\ Holding(file) = content
           /\ IsOnly(x) /\ old.vv = newest => Holding(file) = content
  BY <1>5, <1>6 DEF RowFollows
<1>9. /\ file = None => Holding(file) = None
      /\ file # None => Holding(file) = file.content
  BY DEF Holding
<1>10. /\ new = None => kind = "create" /\ (d # drive => file = None)
       /\ new # None /\ new.tombstone =>
            kind = "delete" /\ new.vv = Increment(newest, drive) /\ file = None
       /\ new # None /\ ~new.tombstone =>
            /\ new.vv \in known
            /\ d = drive => new.vv = newest
            /\ d # drive => file # None
            /\ kind = "create" => new.hash = content /\ Holding(file) = content
            /\ IsOnly(x) /\ new.vv = newest => Holding(file) = content
  <2>1. CASE file # None /\ old = None
    BY <1>2, <1>4, <1>7, <1>8, <1>9, <2>1
  <2>2. CASE file # None /\ old # None
    BY <1>2, <1>4, <1>7, <1>8, <1>9, <2>2
  <2>3. CASE file = None /\ old # None /\ ~old.tombstone
    BY <1>2, <1>4, <1>7, <1>8, <1>9, <2>3
  <2>4. CASE file = None /\ (old = None \/ old.tombstone)
    BY <1>4, <1>8, <2>4
  <2> QED
    BY <2>1, <2>2, <2>3, <2>4
<1>11. RowFollows(x, d, new, file)
  BY <1>6, <1>8, <1>10 DEF RowFollows
<1> QED
  BY <1>2, <1>3, <1>11

LEMMA ScansFollow ==
  ASSUME VaultInv, NEW x, IsChange(x), NEW p \in Paths, Spreads(x, p, files, manifest, plan),
         plan' = plan, files' = files,
         \A d \in Drives : manifest'[d][p] \in {manifest[d][p], Scanned(d, p, {})}
  PROVE  Spreads(x, p, files', manifest', plan')
<1>1. PICK n : n = manifest'
  OBVIOUS
<1>2. DrivesAreSound
  BY DEF VaultInv
<1>3. ASSUME NEW d \in Drives
      PROVE  RowFollows(x, d, n[d][p], files[d][p])
  <2>1. RowFollows(x, d, manifest[d][p], files[d][p])
    BY DEF Spreads
  <2>2. RowFollows(x, d, Scanned(d, p, {}), files[d][p])
    BY <1>2, <2>1, ScanFollows
  <2> QED
    BY <1>1, <2>1, <2>2
<1> QED
  BY <1>1, <1>3 DEF Spreads

LEMMA RestIsFrom ==
  ASSUME NEW S, NEW ops \in Seq(S), ops # <<>>, NEW s, s = Tail(ops)
  PROVE  \A i \in DOMAIN s : \E j \in DOMAIN ops : s[i] = ops[j]
<1>1. PICK l \in Nat : l = Len(ops) /\ DOMAIN ops = 1 .. l
  OBVIOUS
<1>2. l # 0
  BY <1>1, EmptySeq
<1>3. DOMAIN s = 1 .. l - 1 /\ \A i \in 1 .. l - 1 : s[i] = ops[i + 1]
  BY <1>1, <1>2
<1>4. ASSUME NEW i \in DOMAIN s
      PROVE  \E j \in DOMAIN ops : s[i] = ops[j]
  <2>1. i + 1 \in 1 .. l
    BY <1>2, <1>3, <1>4
  <2> QED
    BY <1>1, <1>3, <1>4, <2>1
<1> QED
  BY <1>4

LEMMA ExecuteFollows ==
  ASSUME VaultInv, NEW x, IsChange(x), NEW p \in Paths, Spreads(x, p, files, manifest, plan),
         Execute, Head(plan).type # "RENAME", \A d \in Drives, q \in Range(Tmp) : files[d][q] = None
  PROVE  Spreads(x, p, files', manifest', plan')
<1>1. plan # <<>> /\ plan' = Tail(plan) /\ Applicable(Head(plan))
  BY DEF Execute
<1>2. PICK ops \in Seq(Operation) : ops = plan /\ ops # <<>>
  BY <1>1 DEF VaultInv, PlanIsSound
<1>3. PICK o \in Operation : o = Head(ops) /\ Applicable(o)
  BY <1>1, <1>2, StepOfPlan
<1>4. PICK l \in Nat : l = Len(ops) /\ DOMAIN ops = 1 .. l /\ l # 0
  <2>1. PICK l \in Nat : l = Len(ops) /\ DOMAIN ops = 1 .. l
    BY <1>2
  <2> QED
    BY <1>2, <2>1, EmptySeq
<1>5. ops[1] = o /\ 1 \in 1 .. l
  BY <1>2, <1>3, <1>4
<1>6. PICK s : s = Tail(ops)
  OBVIOUS
<1>7. \A i \in DOMAIN s : \E j \in DOMAIN ops : s[i] = ops[j]
  BY <1>2, <1>6, RestIsFrom
<1>8. PICK g, n : g = files' /\ n = manifest'
  OBVIOUS
<1>9. ASSUME NEW i \in DOMAIN ops, ForPath(ops[i], p)
      PROVE  /\ OpFollows(x, ops[i], files[ops[i].source][p]) /\ ops[i].source \in Drives
             /\ \A j \in DOMAIN ops :
                  ForPath(ops[j], p) /\ Copies(ops[i]) => ops[j].target # ops[i].source
  <2>1. ops[i] \in Operation
    BY <1>2
  <2>2. ops[i].source \in Drives
    BY <2>1, OpFields
  <2> QED
    BY <1>2, <1>9, <2>2 DEF Spreads
<1>10. ASSUME NEW d \in Drives
       PROVE  RowFollows(x, d, n[d][p], g[d][p])
  <2>1. RowFollows(x, d, manifest[d][p], files[d][p])
    BY DEF Spreads
  <2>2. IF Works(o, d, p)
          THEN g[d][p] = (IF Copies(o) THEN files[o.source][p] ELSE None) /\ n[d][p] = Outcome(o, manifest)
          ELSE g[d][p] = files[d][p] /\ n[d][p] = manifest[d][p]
    BY <1>2, <1>3, <1>8, ExecuteEffect
  <2>3. CASE ~Works(o, d, p)
    BY <2>1, <2>2, <2>3
  <2>4. CASE Works(o, d, p) /\ Copies(o)
    <3>1. o.target = d /\ o.path = p /\ ForPath(o, p)
      BY <2>4 DEF Works, ForPath
    <3>2. /\ d # x.drive /\ o.vv \in x.known
          /\ IsOnly(x) /\ o.vv = x.newest => Holding(files[o.source][p]) = x.content
      BY <1>4, <1>5, <1>9, <2>4, <3>1 DEF OpFollows, Copies
    <3>3. /\ manifest[o.source][p] # None /\ files[o.source][p] # None
          /\ files[o.source][p].content = manifest[o.source][p].hash
      BY <1>3, <2>4, <3>1 DEF Applicable, Copies
    <3>4. o.source \in Drives
      BY OpFields
    <3>5. PICK row \in Entry : row = manifest[o.source][p]
      BY <3>3, <3>4 DEF VaultInv, DrivesAreSound, RowMaps
    <3>6. PICK new : new = n[d][p]
      OBVIOUS
    <3>7. o.vv \in Vector
      BY <3>2 DEF IsChange, Comparable
    <3>8. Copies(o) /\ row = manifest[o.source][o.path] /\ new = Outcome(o, manifest)
      BY <2>2, <2>4, <3>1, <3>5, <3>6
    <3>9. new # None /\ new.vv = o.vv /\ new.hash = row.hash /\ (new.tombstone <=> row.tombstone)
      BY <3>7, <3>8, CopyOutcome
    <3>10. PICK file : file = files[o.source][p] /\ g[d][p] = file /\ file # None
      BY <2>2, <2>4, <3>3
    <3>11. RowFollows(x, o.source, row, file)
      BY <3>4, <3>5, <3>10 DEF Spreads
    <3>12. row # None
      BY NoneIsNoRow
    <3>13. RowFollows(x, d, new, file)
      BY <3>2, <3>9, <3>10, <3>11, <3>12 DEF RowFollows
    <3> QED
      BY <3>6, <3>10, <3>13
  <2>5. CASE Works(o, d, p) /\ ~Copies(o)
    <3>1. o.target = d /\ o.path = p /\ ForPath(o, p)
      BY <2>5 DEF Works, ForPath
    <3>2. x.kind = "delete" /\ o.type = "REMOVE" /\ o.vv = Increment(x.newest, x.drive)
      BY <1>4, <1>5, <1>9, <2>5, <3>1 DEF OpFollows
    <3>3. PICK row \in Entry : row = manifest[d][p]
      BY <2>1, <3>2 DEF RowFollows, VaultInv, DrivesAreSound, RowMaps
    <3>4. PICK new : new = n[d][p]
      OBVIOUS
    <3>5. o.vv \in Vector
      <4>1. x.newest \in Vector /\ x.drive \in Drives
        BY DEF IsChange, Comparable
      <4> QED
        BY <3>2, <4>1, IncrementType
    <3>6. ~Copies(o) /\ row = manifest[o.target][o.path] /\ new = Outcome(o, manifest)
      BY <2>2, <2>5, <3>1, <3>3, <3>4
    <3>7. new # None /\ new.vv = o.vv /\ new.tombstone
      BY <3>5, <3>6, RemovalOutcome
    <3>8. g[d][p] = None /\ x.content = None
      BY <2>2, <2>5, <3>2 DEF IsChange
    <3> QED
      BY <3>2, <3>4, <3>7, <3>8 DEF RowFollows, Holding
  <2> QED
    BY <2>3, <2>4, <2>5
\* No operation works on another's source.
<1>11. ASSUME NEW i \in DOMAIN ops, ForPath(ops[i], p)
       PROVE  OpFollows(x, ops[i], g[ops[i].source][p])
  <2>1. CASE Copies(ops[i])
    <3>1. ForPath(o, p) => o.target # ops[i].source
      BY <1>4, <1>5, <1>9, <1>11, <2>1
    <3>2. ~Works(o, ops[i].source, p)
      BY <3>1 DEF Works, ForPath
    <3>3. ops[i].source \in Drives
      BY <1>9, <1>11
    <3>4. g[ops[i].source][p] = files[ops[i].source][p]
      BY <1>2, <1>3, <1>8, <3>2, <3>3, ExecuteEffect
    <3> QED
      BY <1>9, <1>11, <3>4
  <2>2. CASE ~Copies(ops[i])
    BY <1>9, <1>11, <2>2 DEF OpFollows
  <2> QED
    BY <2>1, <2>2
<1>12. ASSUME NEW i \in DOMAIN s, ForPath(s[i], p)
       PROVE  /\ OpFollows(x, s[i], g[s[i].source][p])
              /\ \A j \in DOMAIN s :
                   ForPath(s[j], p) /\ Copies(s[i]) => s[j].target # s[i].source
  <2>1. PICK k \in DOMAIN ops : s[i] = ops[k]
    BY <1>7
  <2>2. OpFollows(x, ops[k], g[ops[k].source][p])
    BY <1>11, <1>12, <2>1
  <2>3. \A j \in DOMAIN ops : ForPath(ops[j], p) /\ Copies(ops[k]) => ops[j].target # ops[k].source
    BY <1>9, <1>12, <2>1
  <2> QED
    BY <1>7, <2>1, <2>2, <2>3
<1>13. Spreads(x, p, g, n, s)
  BY <1>10, <1>12 DEF Spreads
<1> QED
  BY <1>1, <1>2, <1>6, <1>8, <1>13

\* A sync of scanned drives plans nothing else.
LEMMA SyncFollows ==
  ASSUME VaultInv, FilesAreNoDirs, NEW x, IsChange(x), NEW p \in Paths,
         Spreads(x, p, files, manifest, plan),
         NEW connected \in SUBSET Drives, Sync(connected), \A d \in connected : UpToDate(d),
         \A i \in DOMAIN plan' : plan'[i].type # "RENAME"
  PROVE  Spreads(x, p, files', manifest', plan')
<1>1. PICK m : m = [d \in connected |-> manifest[d]] /\ plan' \in Plans(m)
  BY DEF Sync
<1>2. PICK ops \in Plans(m) : ops = plan'
  BY <1>1
<1>3. AreManifests(m) /\ DOMAIN m = connected /\ \A d \in connected : m[d] = manifest[d]
  <2>1. \A d \in connected, q \in Paths : manifest[d][q] # None => manifest[d][q] \in Entry
    BY DEF VaultInv, DrivesAreSound, RowMaps
  <2> QED
    BY <1>1, <2>1 DEF AreManifests
<1>4. \A d \in connected : RowFollows(x, d, m[d][p], files[d][p])
  BY <1>3 DEF Spreads
<1>5. \A d \in connected : IF IsLive(m, d, p) THEN Holding(files[d][p]) = m[d][p].hash
                                              ELSE files[d][p] = None
  BY <1>3 DEF UpToDate, IsLive, Content, Holding
<1>6. PICK V, w : V = x.known /\ w = Increment(x.newest, x.drive)
  OBVIOUS
<1>7. Comparable(V) /\ w \in Vector /\ \A v \in V : ~Exceeds(v, w) /\ v # w
  <2>1. x.newest \in Vector /\ x.drive \in Drives /\ \A v \in V : v \in Vector /\ ~Exceeds(v, x.newest)
    BY <1>6 DEF IsChange, Comparable
  <2>2. w \in Vector
    BY <1>6, <2>1, IncrementType
  <2>3. \A k \in Drives : w[k] = IF k = x.drive THEN x.newest[k] + 1 ELSE x.newest[k]
    BY <1>6, <2>1 DEF Increment, Vector
  <2>4. ASSUME NEW v \in V
        PROVE  ~Exceeds(v, w) /\ v # w
    <3>1. \A k \in Drives : v[k] \in Nat /\ x.newest[k] \in Nat /\ ~(v[k] > x.newest[k])
      BY <2>1 DEF Exceeds, Vector
    <3>2. ASSUME NEW k \in Drives
          PROVE  ~(v[k] > w[k]) /\ (k = x.drive => v[k] # w[k])
      <4>1. v[k] \in Nat /\ x.newest[k] \in Nat /\ ~(v[k] > x.newest[k])
        BY <3>1
      <4> QED
        BY <2>3, <4>1
    <3> QED
      BY <2>1, <3>2 DEF Exceeds
  <2> QED
    BY <1>6, <2>2, <2>4 DEF IsChange
<1>8. ASSUME NEW o \in PathOps(m, p, {})
      PROVE  /\ OpFollows(x, o, files[o.source][p])
             /\ IF \E k \in connected : IsTombstone(m, k, p)
                  THEN ~Copies(o)
                  ELSE Copies(o) /\ o.source = SourceDrive(m, p) /\ o.target # o.source
  <2>1. CASE \E k \in connected : IsTombstone(m, k, p)
    <3>1. PICK k \in DOMAIN m : IsTombstone(m, k, p)
      BY <1>3, <2>1
    <3>2. x.kind = "delete"
      BY <1>3, <1>4, <3>1 DEF RowFollows, IsTombstone
    <3>3. \A d \in DOMAIN m : \/ IsTombstone(m, d, p) /\ m[d][p].vv = w
                              \/ IsLive(m, d, p) /\ m[d][p].vv \in V
      <4>1. ASSUME NEW d \in connected
            PROVE  \/ IsTombstone(m, d, p) /\ m[d][p].vv = w
                   \/ IsLive(m, d, p) /\ m[d][p].vv \in V
        <5>1. RowFollows(x, d, m[d][p], files[d][p])
          BY <1>4
        <5>2. m[d][p] # None
          BY <3>2, <5>1 DEF RowFollows
        <5>3. CASE m[d][p].tombstone
          BY <1>6, <5>1, <5>2, <5>3 DEF RowFollows, IsTombstone
        <5>4. CASE ~m[d][p].tombstone
          BY <1>6, <5>1, <5>2, <5>4 DEF RowFollows, IsLive
        <5> QED
          BY <5>3, <5>4
      <4> QED
        BY <1>3, <4>1
    <3>4. o.type = "REMOVE" /\ o.vv = w
      BY <1>3, <1>7, <3>1, <3>3, DeletedOps
    <3> QED
      BY <1>6, <2>1, <3>2, <3>4 DEF OpFollows, Copies
  <2>2. CASE \A k \in connected : ~IsTombstone(m, k, p)
    <3>1. \A d \in DOMAIN m : m[d][p] = None \/ (IsLive(m, d, p) /\ m[d][p].vv \in V)
      BY <1>3, <1>4, <1>6, <2>2 DEF RowFollows, IsTombstone, IsLive
    <3>2. /\ Copies(o) /\ o.source = SourceDrive(m, p) /\ o.vv = m[o.source][p].vv
          /\ o.source \in DOMAIN m /\ IsLive(m, o.source, p)
          /\ o.target \in DOMAIN m /\ o.target # o.source
          /\ Needed(m, p, o.source, o.target) # None
      BY <1>3, <1>7, <3>1, LiveOps
    <3>3. ASSUME o.target = x.drive
          PROVE  FALSE
      <4>1. PICK k \in connected : k = x.drive
        BY <1>3, <3>2, <3>3
      <4>2. PICK src \in connected : src = o.source
        BY <1>3, <3>2
      <4>3. Holding(files[k][p]) = x.content
        BY <1>4, <4>1 DEF RowFollows
      <4>4. m[k][p] # None
        <5>1. ASSUME m[k][p] = None
              PROVE  FALSE
          <6>1. x.kind = "create"
            BY <1>4, <4>1, <5>1 DEF RowFollows
          <6>2. Holding(files[k][p]) = None
            BY <1>5, <5>1 DEF IsLive, Holding
          <6> QED
            BY <4>3, <6>1, <6>2 DEF IsChange
        <5> QED
          BY <5>1
      <4>5. IsLive(m, k, p) /\ m[k][p].hash = x.content
        BY <1>3, <1>5, <3>1, <4>3, <4>4
      <4>6. m[k][p].hash # None
        BY <1>3, <4>4, VaultAssumption DEF AreManifests, Entry
      <4>7. m[k][p].vv = x.newest /\ x.kind # "delete"
        BY <1>4, <4>1, <4>5, <4>6 DEF RowFollows, IsLive, IsChange
      <4>8. CASE x.kind = "edit" /\ ~IsOnly(x)
        <5>1. \A d \in DOMAIN m : m[d][p] # None => m[d][p].vv \in V /\ ~Exceeds(m[d][p].vv, m[k][p].vv)
          BY <1>6, <3>1, <4>7 DEF IsChange
        <5>2. SourceDrive(m, p) <= k
          BY <1>3, <1>7, <4>4, <5>1, NewestIsSource
        <5>3. k = Min(Drives) /\ Drives \subseteq Nat /\ Drives # {}
          BY <4>1, <4>8, DrivesAreOrdered DEF IsOnly
        <5>4. k <= src /\ k \in Nat /\ src \in Nat
          BY <5>3, LeastChosen
        <5>5. src <= k
          BY <3>2, <4>2, <5>2
        <5>6. src = k
          BY <5>4, <5>5
        <5> QED
          BY <3>2, <3>3, <4>1, <4>2, <5>6
      <4>9. CASE x.kind = "create"
        <5>1. m[src][p].vv = Zero /\ m[k][p].vv = Zero
          BY <1>3, <1>6, <3>1, <3>2, <4>2, <4>5, <4>9 DEF IsChange, IsLive
        <5>2. ~m[src][p].tombstone /\ m[src][p].hash = m[k][p].hash
          BY <1>4, <3>2, <4>2, <4>5, <4>9 DEF IsLive, RowFollows
        <5>3. Compare(Zero, Zero) # "DOMINATES"
          BY DEF Compare
        <5>4. Needed(m, p, src, k) = None
          BY <4>5, <5>1, <5>2, <5>3 DEF Needed
        <5> QED
          BY <3>2, <3>3, <4>1, <4>2, <5>4
      <4>10. CASE IsOnly(x)
        <5>1. \A d \in DOMAIN m : m[d][p] # None => m[d][p].vv \in V /\ ~Exceeds(m[d][p].vv, m[k][p].vv)
          BY <1>6, <3>1, <4>7 DEF IsChange
        <5>2. m[SourceDrive(m, p)][p].vv = m[k][p].vv
          BY <1>3, <1>7, <4>4, <5>1, NewestIsSource
        <5>3. PICK v : v = m[k][p].vv /\ v = m[src][p].vv
          BY <3>2, <4>2, <5>2
        <5>4. m[src][p] # None /\ ~m[src][p].tombstone
          BY <3>2, <4>2 DEF IsLive
        <5>5. Holding(files[src][p]) = x.content
          BY <1>4, <4>7, <4>10, <5>3, <5>4 DEF RowFollows
        <5>6. m[src][p].hash = m[k][p].hash
          BY <1>5, <3>2, <4>2, <4>5, <5>5
        <5>7. Compare(v, v) # "DOMINATES"
          BY DEF Compare
        <5>8. Needed(m, p, src, k) = None
          BY <4>5, <5>3, <5>4, <5>6, <5>7 DEF Needed
        <5> QED
          BY <3>2, <3>3, <4>1, <4>2, <5>8
      <4> QED
        BY <4>7, <4>8, <4>9, <4>10 DEF IsChange
    <3>4. PICK src \in connected : src = o.source
      BY <1>3, <3>2
    <3>5. m[src][p] # None /\ ~m[src][p].tombstone /\ o.vv = m[src][p].vv
      BY <3>2, <3>4 DEF IsLive
    <3>6. RowFollows(x, src, m[src][p], files[src][p])
      BY <1>4
    <3>7. o.vv \in x.known /\ (IsOnly(x) /\ o.vv = x.newest => Holding(files[src][p]) = x.content)
      BY <3>5, <3>6 DEF RowFollows
    <3> QED
      BY <2>2, <3>2, <3>3, <3>4, <3>7 DEF OpFollows
  <2> QED
    BY <2>1, <2>2
<1>9. ASSUME NEW i \in DOMAIN ops, ForPath(ops[i], p)
      PROVE  ops[i] \in PathOps(m, p, {})
  <2>1. \A j \in DOMAIN ops : ops[j].type # "RENAME"
    BY <1>2
  <2> QED
    BY <1>3, <1>9, <2>1, PlanForPath
<1>10. ASSUME NEW i \in DOMAIN ops, ForPath(ops[i], p)
       PROVE  OpFollows(x, ops[i], files[ops[i].source][p])
  <2>1. ops[i] \in PathOps(m, p, {})
    BY <1>9, <1>10
  <2> QED
    BY <1>8, <2>1
<1>11. ASSUME NEW i \in DOMAIN ops, NEW j \in DOMAIN ops, ForPath(ops[i], p), ForPath(ops[j], p),
              Copies(ops[i])
       PROVE  ops[j].target # ops[i].source
  <2>1. ops[i] \in PathOps(m, p, {}) /\ ops[j] \in PathOps(m, p, {})
    BY <1>9, <1>11
  <2>2. ops[i].source = SourceDrive(m, p) /\ ops[j].source = SourceDrive(m, p)
        /\ ops[j].target # ops[j].source
    BY <1>8, <1>11, <2>1
  <2> QED
    BY <2>2
<1>12. files' = files /\ manifest' = manifest
  BY DEF Sync
<1> QED
  BY <1>2, <1>10, <1>11, <1>12 DEF Spreads

-----------------------------------------------------------------------------
(* When a lone change wins                                                 *)

\* Drive d has the only version of p that none exceeds, or one of those.
Newest(d, p) ==
  /\ p \notin Conflicts(manifest)
  /\ \A e \in Drives : Compare(manifest[d][p].vv, manifest[e][p].vv) \in {"EQUAL", "DOMINATES"}

\* After an undisturbed sync a file is only deleted where its version is newest.
DeletesNewest ==
  \A d \in Drives, p \in Paths :
    rounds > 0 /\ plan = <<>> /\ files[d][p] # None /\ files'[d][p] = None => Newest(d, p)

\* Nor is it edited anywhere else, and only on the first drive if others have the
\* same version; and a file is only created where no drive remembers one.
ChangesNewest ==
  /\ DeletesNewest
  /\ \A d \in Drives, p \in Paths :
       rounds > 0 /\ plan = <<>> /\ files'[d][p] # None /\ files'[d][p] # files[d][p] =>
         IF files[d][p] = None
           THEN \A e \in Drives : manifest[e][p] = None
           ELSE /\ Newest(d, p)
                /\ d = Min(Drives) \/ \A e \in Drives \ {d} : manifest[e][p].vv # manifest[d][p].vv

ScansInv == rounds > 0 => Scans(files, manifest)

\* The change y is on its way.
Followed(y, f, m, ops) ==
  y.path \in Paths /\ \E x : IsChange(x) /\ x.content = y.content /\ Spreads(x, y.path, f, m, ops)

LoneInv == \A y \in lone : y.by = "user" => Followed(y, files, manifest, plan)
DeletionInv == \A y \in lone : y.by = "user" /\ y.content = None => Followed(y, files, manifest, plan)

\* A scan, whole or cut short, that meets all the files it looks at.
LEMMA ScanSteps ==
  ASSUME VaultInv, NEW d \in Drives, Scan(d, {}) \/ ScanFallsShort(d)
  PROVE  /\ plan' = plan /\ files' = files
         /\ \A e \in Drives, p \in Paths : manifest'[e][p] \in {manifest[e][p], Scanned(e, p, {})}
<1>1. plan' = plan /\ files' = files
  BY DEF Scan, ScanFallsShort
<1>2. PICK m \in [Drives -> RowMaps] : m = manifest
  BY DEF VaultInv, DrivesAreSound
<1>3. PICK n : n = manifest'
  OBVIOUS
<1>4. \A p \in Paths : n[d][p] = m[d][p] \/ n[d][p] = Scanned(d, p, {})
  BY <1>2, <1>3 DEF Scan, ScanFallsShort
<1>5. \A e \in Drives \ {d} : n[e] = m[e]
  BY <1>2, <1>3 DEF Scan, ScanFallsShort
<1>6. ASSUME NEW e \in Drives, NEW p \in Paths
      PROVE  n[e][p] \in {m[e][p], Scanned(e, p, {})}
  <2>1. CASE e = d
    BY <1>4, <2>1
  <2>2. CASE e # d
    BY <1>5, <2>2
  <2> QED
    BY <2>1, <2>2
<1> QED
  BY <1>1, <1>2, <1>3, <1>6

\* What agrees with the files still does when they are scanned again.
LEMMA ScansAgain ==
  ASSUME VaultInv, Scans(files, manifest), files' = files,
         \A e \in Drives, p \in Paths : manifest'[e][p] \in {manifest[e][p], Scanned(e, p, {})}
  PROVE  Scans(files', manifest')
<1>1. PICK n : n = manifest'
  OBVIOUS
<1>2. ASSUME NEW e \in Drives, NEW p \in Paths
      PROVE  IF IsLive(n, e, p) THEN Held(files, e, p) = n[e][p].hash ELSE files[e][p] = None
  <2>1. PICK old, file, new : old = manifest[e][p] /\ file = files[e][p] /\ new = Scanned(e, p, {})
    OBVIOUS
  <2>2. /\ file # None =>
             /\ new # None /\ ~new.tombstone
             /\ old = None \/ old.hash = file.content => new.hash = file.content
        /\ file = None /\ (old = None \/ old.tombstone) => new = old
    BY <2>1, ScannedRow DEF VaultInv
  <2>3. IF old # None /\ ~old.tombstone THEN Held(files, e, p) = old.hash ELSE file = None
    BY <2>1 DEF Scans, IsLive
  <2>4. /\ file # None => Held(files, e, p) = file.content
        /\ file = None => Held(files, e, p) = None
    BY <2>1 DEF Held
  <2>5. old # None => old.hash # None
    <3>1. old # None => old \in Entry
      BY <2>1 DEF VaultInv, DrivesAreSound, RowMaps
    <3> QED
      BY <3>1, VaultAssumption DEF Entry
  <2>6. IF new # None /\ ~new.tombstone THEN Held(files, e, p) = new.hash ELSE file = None
    <3>1. CASE file # None
      BY <2>2, <2>3, <2>4, <3>1
    <3>2. CASE file = None
      BY <2>2, <2>3, <2>4, <2>5, <3>2
    <3> QED
      BY <3>1, <3>2
  <2>7. n[e][p] = old \/ n[e][p] = new
    BY <1>1, <2>1
  <2> QED
    BY <2>1, <2>3, <2>6, <2>7 DEF IsLive
<1> QED
  BY <1>1, <1>2 DEF Scans

\* And when an operation is carried out.
LEMMA ScansExecuted ==
  ASSUME VaultInv, Scans(files, manifest), Execute, Head(plan).type # "RENAME",
         \A d \in Drives, q \in Range(Tmp) : files[d][q] = None
  PROVE  Scans(files', manifest')
<1>1. plan # <<>> /\ Applicable(Head(plan))
  BY DEF Execute
<1>2. PICK o \in Operation : /\ o = Head(plan) /\ Applicable(o) /\ o.type # "RENAME"
                             /\ o.type = "REMOVE" => manifest[o.target][o.path] \in Entry
  BY <1>1, StepOfPlan
<1>3. PICK g, n : g = files' /\ n = manifest'
  OBVIOUS
<1>4. o.source \in Drives /\ o.vv \in Vector
  BY OpFields DEF Operation
<1>5. ASSUME NEW d \in Drives, NEW p \in Paths
      PROVE  IF IsLive(n, d, p) THEN Held(g, d, p) = n[d][p].hash ELSE g[d][p] = None
  <2>1. IF IsLive(manifest, d, p) THEN Held(files, d, p) = manifest[d][p].hash ELSE files[d][p] = None
    BY DEF Scans
  <2>2. IF Works(o, d, p)
          THEN g[d][p] = (IF Copies(o) THEN files[o.source][p] ELSE None) /\ n[d][p] = Outcome(o, manifest)
          ELSE g[d][p] = files[d][p] /\ n[d][p] = manifest[d][p]
    BY <1>2, <1>3, ExecuteEffect
  <2>3. CASE ~Works(o, d, p)
    BY <2>1, <2>2, <2>3 DEF IsLive, Held
  <2>4. CASE Works(o, d, p) /\ Copies(o)
    <3>1. o.path = p
      BY <2>4 DEF Works
    <3>2. /\ manifest[o.source][p] # None /\ files[o.source][p] # None
          /\ files[o.source][p].content = manifest[o.source][p].hash
      BY <1>2, <2>4, <3>1 DEF Applicable, Copies
    <3>3. PICK row \in Entry : row = manifest[o.source][p]
      BY <1>4, <3>2 DEF VaultInv, DrivesAreSound, RowMaps
    <3>4. PICK new : new = n[d][p]
      OBVIOUS
    <3>5. Copies(o) /\ row = manifest[o.source][o.path] /\ new = Outcome(o, manifest)
      BY <2>2, <2>4, <3>1, <3>3, <3>4
    <3>6. new # None /\ new.hash = row.hash /\ (new.tombstone <=> row.tombstone)
      BY <1>4, <3>5, CopyOutcome
    <3>7. ~row.tombstone
      BY <1>4, <3>2, <3>3 DEF Scans, IsLive
    <3>8. PICK file : file = files[o.source][p] /\ g[d][p] = file
      BY <2>2, <2>4
    <3> QED
      BY <3>2, <3>3, <3>4, <3>6, <3>7, <3>8 DEF IsLive, Held
  <2>5. CASE Works(o, d, p) /\ ~Copies(o)
    <3>1. o.target = d /\ o.path = p /\ o.type = "REMOVE"
      <4>1. o.type \in {"COPY", "REPLACE", "REMOVE", "RENAME", "MKDIR"}
        BY DEF Operation
      <4> QED
        BY <1>2, <2>5, <4>1 DEF Works, Copies
    <3>2. PICK row \in Entry : row = manifest[o.target][o.path]
      BY <1>2, <3>1
    <3>3. PICK new : new = n[d][p]
      OBVIOUS
    <3>4. ~Copies(o) /\ row = manifest[o.target][o.path] /\ new = Outcome(o, manifest)
      BY <2>2, <2>5, <3>2, <3>3
    <3>5. new # None /\ new.tombstone
      BY <1>4, <3>4, RemovalOutcome
    <3> QED
      BY <2>2, <2>5, <3>3, <3>5 DEF IsLive
  <2> QED
    BY <2>3, <2>4, <2>5
<1> QED
  BY <1>3, <1>5 DEF Scans

-----------------------------------------------------------------------------
(* A lone change begins                                                    *)

\* A file that one drive has after an undisturbed sync is known to all.
LEMMA AllHaveIt ==
  ASSUME VaultInv, Scans(files, manifest), Agree, NEW d \in Drives, NEW p \in Paths, files[d][p] # None
  PROVE  \A e \in Drives : files[e][p] # None /\ IsLive(manifest, e, p) /\ manifest[e][p].vv \in Vector
<1>1. ASSUME NEW e \in Drives
      PROVE  files[e][p] # None => files[e][p].content # None
  <2>1. files[e][p] # None => files[e][p] \in [content : Contents, mtime : Times]
    BY DEF VaultInv, DrivesAreSound, FileMaps
  <2> QED
    BY <2>1, VaultAssumption
<1>2. ASSUME NEW e \in Drives
      PROVE  files[e][p] # None /\ IsLive(manifest, e, p) /\ manifest[e][p].vv \in Vector
  <2>1. Content(d, p) = Content(e, p)
    BY DEF Agree
  <2>2. files[e][p] # None
    BY <1>1, <2>1 DEF Content
  <2>3. IsLive(manifest, e, p)
    BY <2>2 DEF Scans
  <2>4. manifest[e][p] \in Entry
    BY <2>3 DEF IsLive, VaultInv, DrivesAreSound, RowMaps
  <2> QED
    BY <2>2, <2>3, <2>4 DEF Entry
<1> QED
  BY <1>2

\* Its versions are built on each other, and drive d has the last one.
LEMMA NewestOfAll ==
  ASSUME NEW d \in Drives, NEW p \in Paths, Newest(d, p), DOMAIN manifest = Drives,
         \A e \in Drives : manifest[e][p] # None /\ manifest[e][p].vv \in Vector,
         NEW V, V = {manifest[e][p].vv : e \in Drives}
  PROVE  /\ Comparable(V) /\ manifest[d][p].vv \in V
         /\ \A v \in V : ~Exceeds(v, manifest[d][p].vv)
<1>1. PICK m : m = manifest
  OBVIOUS
<1>2. ASSUME NEW a \in V, NEW b \in V
      PROVE  ~Exceeds(a, b) \/ ~Exceeds(b, a)
  <2>1. PICK i \in Drives, j \in Drives : a = m[i][p].vv /\ b = m[j][p].vv
    BY <1>1
  <2>2. PICK versions : versions = Versions(m, p)
    OBVIOUS
  <2>3. i \in DOMAIN versions /\ j \in DOMAIN versions /\ versions[i] = m[i][p] /\ versions[j] = m[j][p]
    BY <1>1, <2>2 DEF Versions
  <2>4. ~InConflict(versions)
    BY <1>1, <2>2 DEF Newest, Conflicts
  <2>5. Compare(a, b) # "CONCURRENT"
    BY <2>1, <2>3, <2>4 DEF InConflict
  <2> QED
    BY <2>5 DEF Compare
<1>3. ASSUME NEW v \in V
      PROVE  ~Exceeds(v, manifest[d][p].vv)
  <2>1. PICK e \in Drives : v = manifest[e][p].vv
    OBVIOUS
  <2>2. Compare(manifest[d][p].vv, v) \in {"EQUAL", "DOMINATES"}
    BY <2>1 DEF Newest
  <2> QED
    BY <2>2 DEF Compare
<1>4. V \subseteq Vector
  OBVIOUS
<1> QED
  BY <1>2, <1>3, <1>4 DEF Comparable

LEMMA NothingToFollow ==
  ASSUME NEW x, NEW p, NEW f, NEW m, \A e \in Drives : RowFollows(x, e, m[e][p], f[e][p])
  PROVE  Spreads(x, p, f, m, <<>>)
<1>1. DOMAIN <<>> = {}
  OBVIOUS
<1> QED
  BY <1>1 DEF Spreads

\* A deletion or an edit where the version is newest.
LEMMA ChangeStarts ==
  ASSUME VaultInv, Scans(files, manifest), Agree, NEW d \in Drives, NEW p \in Paths,
         files[d][p] # None, Newest(d, p), NEW g,
         \A e \in Drives \ {d} : g[e][p] = files[e][p],
         \/ g[d][p] = None \/ d = Min(Drives)
         \/ \A e \in Drives \ {d} : manifest[e][p].vv # manifest[d][p].vv,
         g[d][p] # None => g[d][p].content # None
  PROVE  \E x : IsChange(x) /\ x.content = Held(g, d, p) /\ Spreads(x, p, g, manifest, <<>>)
<1>1. \A e \in Drives : files[e][p] # None /\ IsLive(manifest, e, p) /\ manifest[e][p].vv \in Vector
  BY AllHaveIt
<1>2. PICK m : m = manifest /\ DOMAIN m = Drives
  BY DEF VaultInv, DrivesAreSound
<1>3. PICK V : V = {m[e][p].vv : e \in Drives}
  OBVIOUS
<1>4. PICK v : v = m[d][p].vv
  OBVIOUS
<1>5. Comparable(V) /\ v \in V /\ \A u \in V : ~Exceeds(u, v)
  <2>1. \A e \in Drives : manifest[e][p] # None /\ manifest[e][p].vv \in Vector
    BY <1>1 DEF IsLive
  <2>2. DOMAIN manifest = Drives /\ V = {manifest[e][p].vv : e \in Drives}
    BY <1>2, <1>3
  <2>3. /\ Comparable(V) /\ manifest[d][p].vv \in V
        /\ \A u \in V : ~Exceeds(u, manifest[d][p].vv)
    BY <2>1, <2>2, NewestOfAll
  <2> QED
    BY <1>2, <1>4, <2>3
<1>6. PICK kind, content : /\ content = Held(g, d, p)
                           /\ kind = IF g[d][p] = None THEN "delete" ELSE "edit"
  OBVIOUS
<1>7. content = None <=> kind = "delete"
  BY <1>6 DEF Held
<1>8. PICK x : x = [kind |-> kind, drive |-> d, content |-> content, known |-> V, newest |-> v]
  OBVIOUS
<1>9. x.kind = kind /\ x.drive = d /\ x.content = content /\ x.known = V /\ x.newest = v
  BY <1>8
<1>10. /\ kind \in {"delete", "edit"} /\ kind # "create"
       /\ IsOnly(x) => \A e \in Drives \ {d} : m[e][p].vv # v
  BY <1>2, <1>4, <1>6, <1>9 DEF IsOnly
<1>11. IsChange(x)
  BY <1>5, <1>7, <1>9, <1>10 DEF IsChange
<1>12. ASSUME NEW e \in Drives
       PROVE  RowFollows(x, e, m[e][p], g[e][p])
  <2>1. m[e][p] # None /\ ~m[e][p].tombstone /\ m[e][p].vv \in V
    BY <1>1, <1>2, <1>3 DEF IsLive
  <2>2. e # d => g[e][p] # None
    BY <1>1
  <2>3. e = d => Holding(g[e][p]) = content /\ m[e][p].vv = v
    BY <1>4, <1>6 DEF Holding, Held
  <2> QED
    BY <1>9, <1>10, <2>1, <2>2, <2>3 DEF RowFollows
<1>13. Spreads(x, p, g, m, <<>>)
  BY <1>12, NothingToFollow
<1> QED
  BY <1>2, <1>6, <1>9, <1>11, <1>13

\* A creation where no drive remembers anything.
LEMMA CreationStarts ==
  ASSUME VaultInv, Scans(files, manifest), NEW d \in Drives, NEW p \in Paths,
         \A e \in Drives : manifest[e][p] = None, NEW g,
         \A e \in Drives \ {d} : g[e][p] = files[e][p], g[d][p] # None, g[d][p].content # None
  PROVE  \E x : IsChange(x) /\ x.content = Held(g, d, p) /\ Spreads(x, p, g, manifest, <<>>)
<1>1. \A e \in Drives : files[e][p] = None
  BY DEF Scans, IsLive
<1>2. PICK V, v : V = {v} /\ v = Zero
  OBVIOUS
<1>3. v \in Vector /\ ~Exceeds(v, v)
  BY <1>2 DEF Zero, Vector, Exceeds
<1>4. PICK content : content = Held(g, d, p) /\ content # None
  BY DEF Held
<1>5. PICK x : x = [kind |-> "create", drive |-> d, content |-> content, known |-> V, newest |-> v]
  OBVIOUS
<1>6. x.kind = "create" /\ x.drive = d /\ x.content = content /\ x.known = V /\ x.newest = v
  BY <1>5
<1>7. IsChange(x)
  BY <1>2, <1>3, <1>4, <1>6 DEF IsChange, Comparable
<1>8. ASSUME NEW e \in Drives
      PROVE  RowFollows(x, e, manifest[e][p], g[e][p])
  <2>1. e # d => g[e][p] = None
    BY <1>1
  <2>2. e = d => Holding(g[e][p]) = content
    BY <1>4 DEF Holding, Held
  <2> QED
    BY <1>6, <2>1, <2>2 DEF RowFollows
<1>9. Spreads(x, p, g, manifest, <<>>)
  BY <1>8, NothingToFollow
<1> QED
  BY <1>4, <1>6, <1>7, <1>9

-----------------------------------------------------------------------------
(* Steps between and within syncs                                          *)

LEMMA QuietHead ==
  ASSUME VaultInv, QuietSyncs, plan # <<>>
  PROVE  Head(plan).type # "RENAME"
<1>1. PICK ops \in Seq(Operation) : ops = plan /\ ops # <<>>
  BY DEF VaultInv, PlanIsSound
<1>2. PICK l \in Nat : l = Len(ops) /\ DOMAIN ops = 1 .. l
  BY <1>1
<1>3. l # 0
  BY <1>1, <1>2, EmptySeq
<1>4. 1 \in DOMAIN ops /\ Head(ops) = ops[1]
  BY <1>1, <1>2, <1>3
<1> QED
  BY <1>1, <1>4 DEF QuietSyncs

LEMMA ScansStep ==
  ASSUME VaultInv, FilesAreNoDirs, ConvergeInv, QuietSyncs, ScansInv, [Next]_vars
  PROVE  ScansInv'
<1> SUFFICES ASSUME rounds' > 0
             PROVE  Scans(files', manifest')
  BY DEF ScansInv
<1>1. ASSUME rounds' = rounds
      PROVE  Scans(files, manifest)
  BY <1>1 DEF ScansInv
<1>2. CASE UNCHANGED vars
  BY <1>1, <1>2 DEF vars
<1>3. ASSUME NEW d \in Drives, Scan(d, {}) \/ ScanFallsShort(d)
      PROVE  Scans(files', manifest')
  <2>1. rounds' = rounds
    BY <1>3 DEF Scan, ScanFallsShort
  <2>2. /\ files' = files
        /\ \A e \in Drives, p \in Paths : manifest'[e][p] \in {manifest[e][p], Scanned(e, p, {})}
    BY <1>3, ScanSteps
  <2> QED
    BY <1>1, <2>1, <2>2, ScansAgain
<1>4. ASSUME NEW d \in Drives, Rebuild(d) \/ \E unreadable \in SUBSET Paths : unreadable # {} /\ Scan(d, unreadable)
      PROVE  Scans(files', manifest')
  BY <1>4 DEF Rebuild, Scan, Disturb
<1>5. ASSUME NEW connected \in SUBSET Drives, Sync(connected)
      PROVE  Scans(files', manifest')
  <2>1. connected = Drives /\ (\A d \in Drives : UpToDate(d)) /\ UNCHANGED <<files, manifest>>
    BY <1>5 DEF Sync
  <2>2. Scans(files, manifest)
    BY <2>1 DEF UpToDate, Scans, Content, Held
  <2> QED
    BY <2>1, <2>2
<1>6. CASE Execute
  <2>1. plan # <<>> /\ rounds' = rounds
    BY <1>6 DEF Execute
  <2>2. Head(plan).type # "RENAME"
    BY <2>1, QuietHead
  <2>3. \A d \in Drives, q \in Range(Tmp) : files[d][q] = None
    BY DEF QuietSyncs
  <2> QED
    BY <1>1, <1>6, <2>1, <2>2, <2>3, ScansExecuted
<1>7. CASE ExecuteFails
  <2>1. plan # <<>> /\ rounds > 0 /\ ~Applicable(Head(plan))
    BY <1>7 DEF ExecuteFails, Disturb
  <2>2. PICK goal : Leads(plan, goal, files, manifest)
    BY <2>1 DEF ConvergeInv, OnTheWay
  <2> QED
    BY <2>1, <2>2, LeadsIsApplicable
<1>8. CASE Crash
  BY <1>8 DEF Crash, Disturb
<1>9. ASSUME NEW p \in Paths, NEW useDrive \in Drives, NEW connected \in SUBSET Drives,
             Resolves(p, useDrive, connected) \/ ResolveDies(p, useDrive, connected)
      PROVE  Scans(files', manifest')
  BY <1>9 DEF Resolves, ResolveDies, Disturb
<1>10. ASSUME NEW d \in Drives, NEW p \in Paths,
              \/ \E content \in Contents, mtime \in Times : UserWrite(d, p, content, mtime)
              \/ UserDelete(d, p)
              \/ \E newPath \in Paths : UserMove(d, p, newPath)
       PROVE  Scans(files', manifest')
  <2>1. \E f, changes : Changed(d, f, changes)
    BY <1>10 DEF UserWrite, UserDelete, UserMove
  <2>2. rounds' = 0
    BY <2>1 DEF Changed
  <2> QED
    BY <2>2
<1>11. ASSUME NEW d \in Drives, NEW unreadable \in SUBSET Paths, Scan(d, unreadable)
       PROVE  Scans(files', manifest')
  BY <1>3, <1>4, <1>11
<1>12. ASSUME NEW d \in Drives, ScanFallsShort(d) \/ Rebuild(d)
       PROVE  Scans(files', manifest')
  BY <1>3, <1>4, <1>12
<1>13. CASE Execute \/ ExecuteFails \/ Crash
  BY <1>6, <1>7, <1>8, <1>13
<1> QED
  BY <1>2, <1>5, <1>9, <1>10, <1>11, <1>12, <1>13 DEF Next

\* What the user changes between syncs that count.
LEMMA UserFollows ==
  ASSUME VaultInv, ConvergeInv, ScansInv, NEW d \in Drives, NEW p \in Paths,
         \/ \E content \in Contents, mtime \in Times : UserWrite(d, p, content, mtime)
         \/ UserDelete(d, p)
         \/ \E newPath \in Paths : UserMove(d, p, newPath),
         NEW y, y \in lone', DeletesNewest, y.content = None \/ ChangesNewest
  PROVE  Followed(y, files', manifest', plan')
<1>1. \E f, changes : Changed(d, f, changes)
  BY DEF UserWrite, UserDelete, UserMove
<1>2. rounds > 0 /\ plan = <<>> /\ plan' = <<>> /\ manifest' = manifest
  BY <1>1 DEF Changed
<1>3. Scans(files, manifest)
  BY <1>2 DEF ScansInv
<1>4. Agree
  <2>1. PICK goal : Leads(plan, goal, files, manifest)
    BY <1>2 DEF ConvergeInv, OnTheWay
  <2>2. DOMAIN <<>> = {}
    OBVIOUS
  <2>4. \A e \in Drives, q \in Paths : Held(files, e, q) = goal[q]
    BY <1>2, <2>1, <2>2 DEF Leads
  <2> QED
    BY <2>4 DEF Agree, Content, Held
<1>5. PICK old \in FileMaps : old = files[d] /\ DOMAIN files = Drives
  BY DEF VaultInv, DrivesAreSound
<1>6. PICK g : g = files'
  OBVIOUS
\* One file is there, gone or other than before.
<1>7. ASSUME NEW q \in Paths, g[d][q] # old[q], \A e \in Drives \ {d} : g[e] = files[e],
             y.path = q, y.content = Held(g, d, q), g[d][q] # None => g[d][q].content # None
      PROVE  Followed(y, files', manifest', plan')
  <2>1. y.content = None => g[d][q] = None
    BY <1>7 DEF Held
  <2>2. g[d][q] # None => ChangesNewest
    BY <1>7, <2>1 DEF Held
  <2>4. CASE old[q] # None
    <3>1. g[d][q] = None => Newest(d, q)
      BY <1>2, <1>5, <1>6, <2>4 DEF DeletesNewest
    <3>2. g[d][q] # None =>
            /\ Newest(d, q)
            /\ d = Min(Drives) \/ \A e \in Drives \ {d} : manifest[e][q].vv # manifest[d][q].vv
      BY <1>2, <1>5, <1>6, <1>7, <2>2, <2>4 DEF ChangesNewest
    <3>3. /\ Newest(d, q) /\ files[d][q] # None
          /\ \/ g[d][q] = None \/ d = Min(Drives)
             \/ \A e \in Drives \ {d} : manifest[e][q].vv # manifest[d][q].vv
          /\ \A e \in Drives \ {d} : g[e][q] = files[e][q]
          /\ g[d][q] # None => g[d][q].content # None
      BY <1>5, <1>7, <2>4, <3>1, <3>2
    <3>4. \E x : IsChange(x) /\ x.content = Held(g, d, q) /\ Spreads(x, q, g, manifest, <<>>)
      BY <1>3, <1>4, <3>3, ChangeStarts
    <3> QED
      BY <1>2, <1>6, <1>7, <3>4 DEF Followed
  <2>5. CASE old[q] = None
    <3>1. g[d][q] # None
      BY <1>7, <2>5
    <3>2. \A e \in Drives : manifest[e][q] = None
      BY <1>2, <1>5, <1>6, <1>7, <2>2, <2>5, <3>1 DEF ChangesNewest
    <3>3. /\ \A e \in Drives \ {d} : g[e][q] = files[e][q]
          /\ g[d][q].content # None
      BY <1>7, <3>1
    <3>4. \E x : IsChange(x) /\ x.content = Held(g, d, q) /\ Spreads(x, q, g, manifest, <<>>)
      BY <1>3, <3>1, <3>2, <3>3, CreationStarts
    <3> QED
      BY <1>2, <1>6, <1>7, <3>4 DEF Followed
  <2> QED
    BY <2>4, <2>5
<1>8. CASE \E content \in Contents, mtime \in Times : UserWrite(d, p, content, mtime)
  <2>1. PICK content \in Contents, mtime \in Times : UserWrite(d, p, content, mtime)
    BY <1>8
  <2>2. PICK file : file = File(content, mtime)
    OBVIOUS
  <2>3. file.content = content
    BY <2>2 DEF File
  <2>4. file # None
    <3>1. file \in [content : Contents, mtime : Times]
      BY <2>2 DEF File
    <3> QED
      BY <3>1, NoneIsNoFile
  <2>5. g = [files EXCEPT ![d] = [old EXCEPT ![p] = file]] /\ y \in {Lone("user", p, content)}
    BY <1>2, <1>5, <1>6, <2>1, <2>2 DEF UserWrite, Changed
  <2>6. g[d][p] = file /\ \A e \in Drives \ {d} : g[e] = files[e]
    BY <1>5, <2>5 DEF FileMaps
  <2>7. content # None
    BY VaultAssumption
  <2>8. old[p] # file
    BY <1>5, <2>1, <2>3, <2>4 DEF UserWrite, Content
  <2>9. y.path = p /\ y.content = content
    BY <2>5 DEF Lone
  <2> QED
    BY <1>7, <2>3, <2>4, <2>6, <2>7, <2>8, <2>9 DEF Held
<1>9. CASE UserDelete(d, p)
  <2>1. g = [files EXCEPT ![d] = [old EXCEPT ![p] = None]] /\ old[p] # None /\ y \in {Lone("user", p, None)}
    BY <1>2, <1>5, <1>6, <1>9 DEF UserDelete, Changed
  <2>2. g[d][p] = None /\ \A e \in Drives \ {d} : g[e] = files[e]
    BY <1>5, <2>1 DEF FileMaps
  <2>3. y.path = p /\ y.content = None
    BY <2>1 DEF Lone
  <2> QED
    BY <1>7, <2>1, <2>2, <2>3 DEF Held
<1>10. CASE \E newPath \in Paths : UserMove(d, p, newPath)
  <2>1. PICK newPath \in Paths : UserMove(d, p, newPath)
    BY <1>10
  <2>2. /\ g = [files EXCEPT ![d] = [old EXCEPT ![newPath] = old[p], ![p] = None]]
        /\ old[p] # None /\ old[newPath] = None
        /\ y \in {Lone("user", p, None), Lone("user", newPath, Content(d, p))}
    BY <1>2, <1>5, <1>6, <2>1 DEF UserMove, Changed
  <2>3. /\ g[d][p] = None /\ g[d][newPath] = old[p]
        /\ \A e \in Drives \ {d} : g[e] = files[e]
    BY <1>5, <2>2 DEF FileMaps
  <2>4. old[p].content # None
    BY <2>2, VaultAssumption DEF FileMaps
  <2>5. Content(d, p) = old[p].content
    BY <1>5, <2>2 DEF Content
  <2>6. \/ y.path = p /\ y.content = None
        \/ y.path = newPath /\ y.content = old[p].content
    BY <2>2, <2>5 DEF Lone
  <2>7. CASE y.path = p /\ y.content = None
    BY <1>7, <2>2, <2>3, <2>7 DEF Held
  <2>8. CASE y.path = newPath /\ y.content = old[p].content
    BY <1>7, <2>2, <2>3, <2>4, <2>8 DEF Held
  <2> QED
    BY <2>6, <2>7, <2>8
<1> QED
  BY <1>8, <1>9, <1>10

\* A change goes on its way, until something else happens.
LEMMA StepFollows ==
  ASSUME VaultInv, FilesAreNoDirs, ConvergeInv, ScansInv, QuietSyncs, QuietSyncs', [Next]_vars,
         NEW y, y \in lone', y.by = "user", y \in lone => Followed(y, files, manifest, plan),
         DeletesNewest, y.content = None \/ ChangesNewest
  PROVE  Followed(y, files', manifest', plan')
<1>1. ASSUME lone' = lone
      PROVE  Followed(y, files, manifest, plan)
  BY <1>1
<1>2. ASSUME lone' = lone
      PROVE  \E x, p : /\ p \in Paths /\ p = y.path /\ IsChange(x) /\ x.content = y.content
                       /\ Spreads(x, p, files, manifest, plan)
  BY <1>1, <1>2 DEF Followed
<1>3. CASE UNCHANGED vars
  BY <1>1, <1>3 DEF vars
<1>4. ASSUME NEW d \in Drives, Scan(d, {}) \/ ScanFallsShort(d)
      PROVE  Followed(y, files', manifest', plan')
  <2>1. lone' = lone
    BY <1>4 DEF Scan, ScanFallsShort
  <2>2. PICK x, p : /\ p \in Paths /\ p = y.path /\ IsChange(x) /\ x.content = y.content
                   /\ Spreads(x, p, files, manifest, plan)
    BY <1>2, <2>1
  <2>3. plan' = plan /\ files' = files
    BY <1>4, ScanSteps
  <2>4. \A e \in Drives : manifest'[e][p] \in {manifest[e][p], Scanned(e, p, {})}
    BY <1>4, <2>2, ScanSteps
  <2>5. Spreads(x, p, files', manifest', plan')
    BY <2>2, <2>3, <2>4, ScansFollow
  <2> QED
    BY <2>2, <2>5 DEF Followed
<1>5. ASSUME NEW d \in Drives, Rebuild(d) \/ \E unreadable \in SUBSET Paths : unreadable # {} /\ Scan(d, unreadable)
      PROVE  FALSE
  BY <1>5 DEF Rebuild, Scan, Disturb
<1>6. ASSUME NEW connected \in SUBSET Drives, Sync(connected)
      PROVE  Followed(y, files', manifest', plan')
  <2>1. lone' = lone /\ \A d \in connected : UpToDate(d)
    BY <1>6 DEF Sync
  <2>2. PICK x, p : /\ p \in Paths /\ p = y.path /\ IsChange(x) /\ x.content = y.content
                   /\ Spreads(x, p, files, manifest, plan)
    BY <1>2, <2>1
  <2>3. \A i \in DOMAIN plan' : plan'[i].type # "RENAME"
    BY DEF QuietSyncs
  <2>4. Spreads(x, p, files', manifest', plan')
    BY <1>6, <2>1, <2>2, <2>3, SyncFollows
  <2> QED
    BY <2>2, <2>4 DEF Followed
<1>7. CASE Execute
  <2>1. lone' = lone /\ plan # <<>>
    BY <1>7 DEF Execute
  <2>2. PICK x, p : /\ p \in Paths /\ p = y.path /\ IsChange(x) /\ x.content = y.content
                   /\ Spreads(x, p, files, manifest, plan)
    BY <1>2, <2>1
  <2>3. Head(plan).type # "RENAME"
    BY <2>1, QuietHead
  <2>4. \A d \in Drives, q \in Range(Tmp) : files[d][q] = None
    BY DEF QuietSyncs
  <2>5. Spreads(x, p, files', manifest', plan')
    BY <1>7, <2>2, <2>3, <2>4, ExecuteFollows
  <2> QED
    BY <2>2, <2>5 DEF Followed
<1>8. CASE ExecuteFails
  <2>1. lone' = lone /\ plan # <<>> /\ plan' = Tail(plan) /\ Become(Head(plan).target, Refused(Head(plan)))
    BY <1>8 DEF ExecuteFails, Disturb
  <2>2. PICK x, p : /\ p \in Paths /\ p = y.path /\ IsChange(x) /\ x.content = y.content
                   /\ Spreads(x, p, files, manifest, plan)
    BY <1>2, <2>1
  <2>3. PICK o : o = Head(plan)
    OBVIOUS
  <2>4. Become(o.target, Here(o.target))
    BY <2>1, <2>3, QuietHead DEF Refused
  <2>5. files' = files /\ manifest' = manifest
    BY <2>4 DEF Become, Here, State, VaultInv, DrivesAreSound
  <2>6. PICK ops \in Seq(Operation) : ops = plan /\ ops # <<>>
    BY <2>1 DEF VaultInv, PlanIsSound
  <2>7. PICK s : s = Tail(ops)
    OBVIOUS
  <2>8. \A i \in DOMAIN s : \E j \in DOMAIN ops : s[i] = ops[j]
    BY <2>6, <2>7, RestIsFrom
  <2>9. Spreads(x, p, files, manifest, s)
    BY <2>2, <2>6, <2>8 DEF Spreads
  <2> QED
    BY <2>1, <2>2, <2>5, <2>6, <2>7, <2>9 DEF Followed
<1>9. CASE Crash
  BY <1>9 DEF Crash, Disturb
<1>10. ASSUME NEW p \in Paths, NEW useDrive \in Drives, NEW connected \in SUBSET Drives,
              Resolves(p, useDrive, connected) \/ ResolveDies(p, useDrive, connected)
       PROVE  FALSE
  BY <1>10 DEF Resolves, ResolveDies, Disturb, Lone
<1>11. ASSUME NEW d \in Drives, NEW p \in Paths,
              \/ \E content \in Contents, mtime \in Times : UserWrite(d, p, content, mtime)
              \/ UserDelete(d, p)
              \/ \E newPath \in Paths : UserMove(d, p, newPath)
       PROVE  Followed(y, files', manifest', plan')
  BY <1>11, UserFollows
<1>12. ASSUME NEW d \in Drives, NEW unreadable \in SUBSET Paths, Scan(d, unreadable)
       PROVE  Followed(y, files', manifest', plan')
  BY <1>4, <1>5, <1>12
<1>13. ASSUME NEW d \in Drives, ScanFallsShort(d) \/ Rebuild(d)
       PROVE  Followed(y, files', manifest', plan')
  BY <1>4, <1>5, <1>13
<1> QED
  BY <1>3, <1>6, <1>7, <1>8, <1>9, <1>10, <1>11, <1>12, <1>13 DEF Next

\* Between syncs the file is what the change made of it, on every drive.
LEMMA FollowedPrevails ==
  ASSUME ConvergeInv, plan = <<>>, rounds > 0, NEW y, Followed(y, files, manifest, plan), NEW d \in Drives
  PROVE  Content(d, y.path) = y.content
<1>1. PICK p \in Paths : p = y.path
  BY DEF Followed
<1>2. PICK x : IsChange(x) /\ x.content = y.content /\ Spreads(x, p, files, manifest, plan)
  BY <1>1 DEF Followed
<1>3. PICK e \in Drives : e = x.drive
  BY <1>2 DEF IsChange
<1>4. Holding(files[e][p]) = x.content
  BY <1>2, <1>3 DEF Spreads, RowFollows
<1>5. PICK goal : Leads(plan, goal, files, manifest)
  BY DEF ConvergeInv, OnTheWay
<1>6. DOMAIN <<>> = {}
  OBVIOUS
<1>7. Held(files, d, p) = goal[p] /\ Held(files, e, p) = goal[p]
  BY <1>5, <1>6 DEF Leads
<1> QED
  BY <1>1, <1>2, <1>4, <1>7 DEF Content, Held, Holding

LEMMA LoneInit == Init => VaultInv /\ ConvergeInv /\ ScansInv /\ LoneInv /\ DeletionInv
<1>1. Init => VaultInv /\ ConvergeInv
  BY ConvergeInit
<1>2. Init => rounds = 0 /\ lone = {}
  BY DEF Init
<1>3. Init => ScansInv /\ LoneInv /\ DeletionInv
  BY <1>2 DEF ScansInv, LoneInv, DeletionInv
<1> QED
  BY <1>1, <1>3

LEMMA LoneStep ==
  ASSUME VaultInv, FilesAreNoDirs, ConvergeInv, ScansInv, QuietSyncs, QuietSyncs', [Next]_vars
  PROVE  /\ VaultInv' /\ ConvergeInv' /\ ScansInv'
         /\ DeletionInv /\ [DeletesNewest]_vars => DeletionInv'
         /\ LoneInv /\ [ChangesNewest]_vars => LoneInv'
<1>1. PlainSyncs /\ PlainSyncs'
  BY DEF QuietSyncs, PlainSyncs
<1>2. VaultInv' /\ ConvergeInv' /\ ScansInv'
  BY <1>1, VaultStep, ConvergeStep, ScansStep
<1>3. [DeletesNewest]_vars => DeletesNewest
  BY DEF vars, DeletesNewest
<1>4. [ChangesNewest]_vars => ChangesNewest /\ DeletesNewest
  BY <1>3 DEF vars, ChangesNewest
<1>5. ASSUME DeletionInv, DeletesNewest, NEW y \in lone', y.by = "user", y.content = None
      PROVE  Followed(y, files', manifest', plan')
  <2>1. y \in lone => Followed(y, files, manifest, plan)
    BY <1>5 DEF DeletionInv
  <2> QED
    BY <1>5, <2>1, StepFollows
<1>6. ASSUME LoneInv, ChangesNewest, DeletesNewest, NEW y \in lone', y.by = "user"
      PROVE  Followed(y, files', manifest', plan')
  <2>1. y \in lone => Followed(y, files, manifest, plan)
    BY <1>6 DEF LoneInv
  <2> QED
    BY <1>6, <2>1, StepFollows
<1>7. DeletionInv /\ [DeletesNewest]_vars => DeletionInv'
  BY <1>3, <1>5 DEF DeletionInv
<1>8. LoneInv /\ [ChangesNewest]_vars => LoneInv'
  BY <1>4, <1>6 DEF LoneInv
<1> QED
  BY <1>2, <1>7, <1>8

\* A deletion that is the only change since the drives were in sync is what the
\* next undisturbed sync of all scanned drives brings to each of them, whatever
\* other syncs, failures to apply and scans cut short come between: as long as
\* the file was deleted where its version was newest, the syncs rename nothing
\* and no temporary file lies about.
THEOREM DeletionsPrevail ==
  ASSUME FilesAreNoDirs
  PROVE  Spec /\ []QuietSyncs /\ [][DeletesNewest]_vars => []LoneDeletionPrevails
<1>1. Init => VaultInv /\ ConvergeInv /\ ScansInv /\ DeletionInv
  BY LoneInit
<1>2. /\ VaultInv /\ ConvergeInv /\ ScansInv /\ DeletionInv
      /\ QuietSyncs /\ QuietSyncs' /\ [Next]_vars /\ [DeletesNewest]_vars
      => VaultInv' /\ ConvergeInv' /\ ScansInv' /\ DeletionInv'
  BY LoneStep
<1>3. ConvergeInv /\ DeletionInv => LoneDeletionPrevails
  <2> SUFFICES ASSUME ConvergeInv, DeletionInv, plan = <<>>, rounds > 0,
                      NEW y \in lone, y.by = "user", y.content = None, NEW d \in Drives
               PROVE  Content(d, y.path) = y.content
    BY DEF LoneDeletionPrevails, Prevail
  <2>1. Followed(y, files, manifest, plan)
    BY DEF DeletionInv
  <2> QED
    BY <2>1, FollowedPrevails
<1> QED
  BY <1>1, <1>2, <1>3, PTL DEF Spec

\* The same of every lone change, if moreover a file is edited on the first drive
\* or where alone its version is newest, and created where no drive remembers
\* one: a scan advances no clock for an edit or for a file in the place of a
\* tombstone, and of equal versions plan_sync takes the first drive's.
THEOREM ChangesPrevail ==
  ASSUME FilesAreNoDirs
  PROVE  Spec /\ []QuietSyncs /\ [][ChangesNewest]_vars => []LoneChangePrevails
<1>1. Init => VaultInv /\ ConvergeInv /\ ScansInv /\ LoneInv
  BY LoneInit
<1>2. /\ VaultInv /\ ConvergeInv /\ ScansInv /\ LoneInv
      /\ QuietSyncs /\ QuietSyncs' /\ [Next]_vars /\ [ChangesNewest]_vars
      => VaultInv' /\ ConvergeInv' /\ ScansInv' /\ LoneInv'
  BY LoneStep
<1>3. ConvergeInv /\ LoneInv => LoneChangePrevails
  <2> SUFFICES ASSUME ConvergeInv, LoneInv, plan = <<>>, rounds > 0,
                      NEW y \in lone, y.by = "user", NEW d \in Drives
               PROVE  Content(d, y.path) = y.content
    BY DEF LoneChangePrevails, Prevail
  <2>1. Followed(y, files, manifest, plan)
    BY DEF LoneInv
  <2> QED
    BY <2>1, FollowedPrevails
<1> QED
  BY <1>1, <1>2, <1>3, PTL DEF Spec

\* With a single path nothing is asked of the syncs: a file deleted where its
\* version is newest, edited there on the first drive or there alone, or created
\* where no drive remembers one, is so on all drives after the next undisturbed
\* sync, unless the user changes it again.
THEOREM OnePathChangesPrevail ==
  ASSUME NEW p, Paths = {p}
  PROVE  Spec => /\ [][DeletesNewest]_vars => []LoneDeletionPrevails
                 /\ [][ChangesNewest]_vars => []LoneChangePrevails
<1>1. Spec => []QuietSyncs
  BY OnePathIsQuiet
<1>2. Spec /\ []QuietSyncs /\ [][DeletesNewest]_vars => []LoneDeletionPrevails
  BY OnePathIsNoDir, DeletionsPrevail
<1>3. Spec /\ []QuietSyncs /\ [][ChangesNewest]_vars => []LoneChangePrevails
  BY OnePathIsNoDir, ChangesPrevail
<1> QED
  BY <1>1, <1>2, <1>3, PTL
=============================================================================
