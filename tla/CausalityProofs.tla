--------------------------- MODULE CausalityProofs ---------------------------
(* Version vectors order versions as their histories do, for every set of  *)
(* drives and every number of changes.                                     *)
EXTENDS Causality, TLAPS

\* Nobody knows more changes of a drive than the drive itself.
OwnClockLeads == \A d, e \in Drives : vector[e][d] <= vector[d][d]

\* A vector counts the known changes of every drive, none of them skipped.
VectorCounts ==
  \A d \in Drives : known[d] = {c \in Change : c[2] <= vector[d][c[1]]}

IInv == TypeOK /\ OwnClockLeads /\ VectorCounts

-----------------------------------------------------------------------------
(* The operators                                                           *)

LEMMA IncrementFacts ==
  ASSUME NEW v \in Vector, NEW drive \in Drives
  PROVE  /\ Increment(v, drive) \in Vector
         /\ Increment(v, drive)[drive] = v[drive] + 1
         /\ \A e \in Drives \ {drive} : Increment(v, drive)[e] = v[e]
  BY DEF Increment, Vector

LEMMA IncrementGrows ==
  ASSUME NEW v \in Vector, NEW drive \in Drives, NEW e \in Drives
  PROVE  v[e] <= Increment(v, drive)[e]
  BY IncrementFacts DEF Vector

\* merge is the least upper bound ("dominate or equal both inputs").
LEMMA MergeFacts ==
  ASSUME NEW v \in Vector, NEW w \in Vector
  PROVE  /\ Merge(v, w) \in Vector
         /\ \A d \in Drives : Merge(v, w)[d] >= v[d] /\ Merge(v, w)[d] >= w[d]
         /\ \A d \in Drives : Merge(v, w)[d] = v[d] \/ Merge(v, w)[d] = w[d]
  BY DEF Merge, Vector, Larger

LEMMA MergeIsLeast ==
  ASSUME NEW v \in Vector, NEW w \in Vector, NEW u \in Vector,
         ~Exceeds(v, u), ~Exceeds(w, u)
  PROVE  ~Exceeds(Merge(v, w), u)
  BY MergeFacts DEF Exceeds, Vector

\* A dominating version stays ahead of whatever the dominated one was ahead of.
LEMMA DominatesTransitive ==
  ASSUME NEW u \in Vector, NEW v \in Vector, NEW w \in Vector,
         Compare(u, v) = "DOMINATES", Compare(v, w) = "DOMINATES"
  PROVE  Compare(u, w) = "DOMINATES"
  BY DEF Compare, Exceeds, Vector

LEMMA CompareMirrors ==
  ASSUME NEW v \in Vector, NEW w \in Vector
  PROVE  Compare(v, w) = "DOMINATES" <=> Compare(w, v) = "DOMINATED_BY"
  BY DEF Compare

-----------------------------------------------------------------------------
(* The inductive invariant                                                 *)

LEMMA Inductive ==
  ASSUME IInv, [Next]_vars
  PROVE  IInv'
<1>1. CASE UNCHANGED vars
  BY <1>1 DEF vars, IInv, TypeOK, OwnClockLeads, VectorCounts
<1>2. ASSUME NEW d \in Drives, Modify(d) PROVE IInv'
  <2>1. /\ vector[d] \in Vector /\ vector[d][d] \in Nat
        /\ vector' = [vector EXCEPT ![d] = Increment(vector[d], d)]
        /\ known' = [known EXCEPT ![d] = known[d] \cup {<<d, vector[d][d] + 1>>}]
    BY <1>2 DEF Modify, IInv, TypeOK, Vector
  <2>2. TypeOK'
    BY <2>1, IncrementFacts DEF IInv, TypeOK, Change
  <2>3. \A e \in Drives : vector[e] \in Vector /\ \A k \in Drives : vector[e][k] \in Nat
    BY DEF IInv, TypeOK, Vector
  <2>4. OwnClockLeads'
    <3>1. \A e \in Drives : vector'[e] = IF e = d THEN Increment(vector[d], d) ELSE vector[e]
      BY <2>1 DEF IInv, TypeOK
    <3>2. \A k \in Drives : Increment(vector[d], d)[k] =
                              IF k = d THEN vector[d][d] + 1 ELSE vector[d][k]
      BY <2>1, IncrementFacts
    <3> QED
      BY <2>1, <2>3, <3>1, <3>2 DEF IInv, OwnClockLeads
  <2>5. VectorCounts'
    <3>1. known'[d] = {c \in Change : c[2] <= vector'[d][c[1]]}
      <4>1. ASSUME NEW c \in Change
            PROVE  c \in known'[d] <=> c[2] <= vector'[d][c[1]]
        <5>1. PICK k \in Drives, n \in Nat \ {0} : c = <<k, n>>
          BY DEF Change
        <5>2. c \in known[d] <=> n <= vector[d][k]
          BY <5>1 DEF IInv, VectorCounts
        <5>3. c \in known'[d] <=> n <= vector[d][k] \/ (k = d /\ n = vector[d][d] + 1)
          BY <2>1, <5>1, <5>2 DEF IInv, TypeOK
        <5>4. vector'[d][k] = IF k = d THEN vector[d][d] + 1 ELSE vector[d][k]
          BY <2>1, IncrementFacts DEF IInv, TypeOK
        <5> QED
          BY <2>3, <5>1, <5>3, <5>4
      <4> QED
        BY <2>2, <4>1 DEF TypeOK
    <3>2. \A e \in Drives \ {d} : known'[e] = known[e] /\ vector'[e] = vector[e]
      BY <2>1 DEF IInv, TypeOK
    <3> QED
      BY <3>1, <3>2 DEF IInv, VectorCounts
  <2> QED
    BY <2>2, <2>4, <2>5 DEF IInv
<1>3. ASSUME NEW d \in Drives, NEW e \in Drives, Receive(d, e) PROVE IInv'
  <2> DEFINE vv == Merge(vector[e], vector[d])
  <2>1. /\ vector[d] \in Vector /\ vector[e] \in Vector
        /\ vector' = [vector EXCEPT ![d] = vv]
        /\ known' = [known EXCEPT ![d] = known[d] \cup known[e]]
    BY <1>3 DEF Receive, IInv, TypeOK
  <2>2. /\ vv \in Vector
        /\ \A k \in Drives : vv[k] >= vector[d][k] /\ vv[k] >= vector[e][k]
        /\ \A k \in Drives : vv[k] = vector[d][k] \/ vv[k] = vector[e][k]
    BY <2>1, MergeFacts
  <2> HIDE DEF vv
  <2>3. TypeOK'
    BY <2>1, <2>2 DEF IInv, TypeOK
  <2>4. \A k \in Drives : vector[k] \in Vector /\ \A l \in Drives : vector[k][l] \in Nat
    BY DEF IInv, TypeOK, Vector
  <2>5. \A k \in Drives : vv[k] \in Nat
    BY <2>2 DEF Vector
  <2>6. vv[d] = vector[d][d] /\ \A k \in Drives : vv[k] <= vector[k][k]
    BY <2>2, <2>4, <2>5 DEF IInv, OwnClockLeads
  <2>7. OwnClockLeads'
    BY <2>1, <2>6 DEF IInv, TypeOK, OwnClockLeads
  <2>8. VectorCounts'
    <3>1. known'[d] = {c \in Change : c[2] <= vector'[d][c[1]]}
      <4>1. ASSUME NEW c \in Change
            PROVE  c \in known'[d] <=> c[2] <= vector'[d][c[1]]
        <5>1. PICK k \in Drives, n \in Nat \ {0} : c = <<k, n>>
          BY DEF Change
        <5>2. c \in known'[d] <=> n <= vector[d][k] \/ n <= vector[e][k]
          BY <2>1, <5>1 DEF IInv, TypeOK, VectorCounts
        <5>3. vector'[d][k] = vv[k]
          BY <2>1 DEF IInv, TypeOK
        <5> QED
          BY <2>2, <2>4, <2>5, <5>1, <5>2, <5>3
      <4> QED
        BY <2>3, <4>1 DEF TypeOK
    <3>2. \A k \in Drives \ {d} : known'[k] = known[k] /\ vector'[k] = vector[k]
      BY <2>1 DEF IInv, TypeOK
    <3> QED
      BY <3>1, <3>2 DEF IInv, VectorCounts
  <2> QED
    BY <2>3, <2>7, <2>8 DEF IInv
<1>4. ASSUME NEW w \in Drives, NEW o \in Drives, Resolve(w, o) PROVE IInv'
  <2> DEFINE merged == Merge(vector[w], vector[o])
             vv == Increment(merged, w)
             all == known[w] \cup known[o] \cup {<<w, vector[w][w] + 1>>}
  <2>1. /\ vector[w] \in Vector /\ vector[o] \in Vector
        /\ vector' = [vector EXCEPT ![w] = vv, ![o] = vv]
        /\ known' = [known EXCEPT ![w] = all, ![o] = all]
    BY <1>4 DEF Resolve, IInv, TypeOK
  <2>2. /\ merged \in Vector
        /\ \A k \in Drives : merged[k] >= vector[w][k] /\ merged[k] >= vector[o][k]
        /\ \A k \in Drives : merged[k] = vector[w][k] \/ merged[k] = vector[o][k]
    BY <2>1, MergeFacts
  <2>3. /\ vv \in Vector /\ vv[w] = merged[w] + 1
        /\ \A k \in Drives \ {w} : vv[k] = merged[k]
    BY <2>2, IncrementFacts
  <2> HIDE DEF merged, vv
  <2>4. \A k \in Drives : vector[k] \in Vector /\ \A l \in Drives : vector[k][l] \in Nat
    BY DEF IInv, TypeOK, Vector
  <2>5. \A k \in Drives : merged[k] \in Nat /\ vv[k] \in Nat
    BY <2>2, <2>3 DEF Vector
  <2>6. merged[w] = vector[w][w] /\ vv[w] = vector[w][w] + 1
    BY <2>2, <2>3, <2>4, <2>5 DEF IInv, OwnClockLeads
  <2>7. all \subseteq Change
    BY <2>4 DEF IInv, TypeOK, Change
  <2>8. TypeOK'
    BY <2>1, <2>3, <2>7 DEF IInv, TypeOK
  <2>9. \A k \in Drives : vector'[k] = IF k \in {w, o} THEN vv ELSE vector[k]
    BY <2>1 DEF IInv, TypeOK
  <2>10. \A k \in Drives : known'[k] = IF k \in {w, o} THEN all ELSE known[k]
    BY <2>1 DEF IInv, TypeOK
  <2>11. OwnClockLeads'
    <3>1. \A k \in Drives \ {w} : vv[k] <= vector[k][k]
      BY <2>2, <2>3, <2>4 DEF IInv, OwnClockLeads
    <3>2. \A k \in Drives : vector[k][w] <= vv[w]
      BY <2>4, <2>5, <2>6 DEF IInv, OwnClockLeads
    <3>3. vv[o] >= vector[o][o]
      BY <2>2, <2>3, <2>4, <2>5
    <3>4. \A k \in Drives : vector[k][o] <= vv[o]
      BY <2>4, <2>5, <3>3 DEF IInv, OwnClockLeads
    <3> SUFFICES ASSUME NEW d \in Drives, NEW e \in Drives
                 PROVE  vector'[e][d] <= vector'[d][d]
      BY DEF OwnClockLeads
    <3>5. CASE d \in {w, o}
      BY <2>5, <2>9, <3>2, <3>4, <3>5
    <3>6. CASE d \notin {w, o}
      BY <2>9, <3>1, <3>6 DEF IInv, OwnClockLeads
    <3> QED
      BY <3>5, <3>6
  <2>12. all = {c \in Change : c[2] <= vv[c[1]]}
    <3>1. ASSUME NEW c \in Change
          PROVE  c \in all <=> c[2] <= vv[c[1]]
      <4>1. PICK k \in Drives, n \in Nat \ {0} : c = <<k, n>>
        BY DEF Change
      <4>2. c \in known[w] \cup known[o] <=> n <= vector[w][k] \/ n <= vector[o][k]
        BY <4>1 DEF IInv, VectorCounts
      <4>3. c \in all <=> n <= merged[k] \/ (k = w /\ n = vector[w][w] + 1)
        BY <2>2, <2>4, <2>5, <4>1, <4>2
      <4> QED
        BY <2>3, <2>4, <2>5, <2>6, <4>1, <4>3
    <3> QED
      BY <2>7, <3>1
  <2> HIDE DEF all
  <2>13. VectorCounts'
    BY <2>9, <2>10, <2>12 DEF IInv, VectorCounts
  <2> QED
    BY <2>8, <2>11, <2>13 DEF IInv
<1> QED
  BY <1>1, <1>2, <1>3, <1>4 DEF Next

LEMMA Initially == Init => IInv
<1> SUFFICES ASSUME Init PROVE IInv
  OBVIOUS
<1>1. TypeOK /\ OwnClockLeads
  BY DEF Init, Zero, Vector, TypeOK, OwnClockLeads
<1>2. VectorCounts
  <2>1. \A d \in Drives : \A c \in Change : ~(c[2] <= vector[d][c[1]])
    BY DEF Init, Zero, Change
  <2> QED
    BY <2>1 DEF Init, VectorCounts
<1> QED
  BY <1>1, <1>2 DEF IInv

\* One version knows a change the other does not iff its vector is ahead there.
LEMMA AheadIsUnknown ==
  ASSUME IInv, NEW d \in Drives, NEW e \in Drives
  PROVE  Exceeds(vector[d], vector[e]) <=> ~(known[d] \subseteq known[e])
<1>1. \A k \in Drives : vector[d][k] \in Nat /\ vector[e][k] \in Nat
  BY DEF IInv, TypeOK, Vector
<1>2. ASSUME Exceeds(vector[d], vector[e]) PROVE ~(known[d] \subseteq known[e])
  <2>1. PICK k \in Drives : vector[d][k] > vector[e][k]
    BY <1>2 DEF Exceeds
  <2>2. <<k, vector[d][k]>> \in Change
    BY <1>1, <2>1 DEF Change
  <2>3. <<k, vector[d][k]>> \in known[d] /\ <<k, vector[d][k]>> \notin known[e]
    BY <1>1, <2>1, <2>2 DEF IInv, VectorCounts
  <2> QED
    BY <2>3
<1>3. ASSUME ~Exceeds(vector[d], vector[e]), NEW c \in known[d] PROVE c \in known[e]
  <2>1. c \in Change /\ c[2] <= vector[d][c[1]]
    BY <1>3 DEF IInv, VectorCounts
  <2>2. c[1] \in Drives /\ c[2] \in Nat
    BY <2>1 DEF Change
  <2>3. c[2] <= vector[e][c[1]]
    BY <1>1, <1>3, <2>1, <2>2 DEF Exceeds
  <2> QED
    BY <2>1, <2>3 DEF IInv, VectorCounts
<1> QED
  BY <1>2, <1>3

\* CompareIsCausality for every set of drives: the four answers of compare are
\* the four ways two histories can lie.
THEOREM VectorsAreCausal == Spec => []CompareIsCausality
<1>1. IInv => CompareIsCausality
  <2> SUFFICES ASSUME IInv, NEW d \in Drives, NEW e \in Drives
               PROVE  Compare(vector[d], vector[e]) =
                        CASE known[d] = known[e] -> "EQUAL"
                          [] known[e] \subseteq known[d] /\ known[d] # known[e] -> "DOMINATES"
                          [] known[d] \subseteq known[e] /\ known[d] # known[e] -> "DOMINATED_BY"
                          [] OTHER -> "CONCURRENT"
    BY DEF CompareIsCausality
  <2>1. Exceeds(vector[d], vector[e]) <=> ~(known[d] \subseteq known[e])
    BY AheadIsUnknown
  <2>2. Exceeds(vector[e], vector[d]) <=> ~(known[e] \subseteq known[d])
    BY AheadIsUnknown
  <2>3. known[d] = known[e] <=> known[d] \subseteq known[e] /\ known[e] \subseteq known[d]
    OBVIOUS
  <2> QED
    BY <2>1, <2>2, <2>3 DEF Compare
<1> QED
  BY <1>1, Initially, Inductive, PTL DEF Spec

\* VectorsGrow for every set of drives: no step takes a change back.
THEOREM NothingForgotten == Spec => VectorsGrow
<1>1. IInv /\ [Next]_vars => [\A d \in Drives : Step(vector[d], vector'[d])]_vars
  <2> SUFFICES ASSUME IInv, Next, NEW d \in Drives
               PROVE  Step(vector[d], vector'[d])
    BY DEF vars
  <2>1. \A k \in Drives : vector[k] \in Vector /\ \A l \in Drives : vector[k][l] \in Nat
    BY DEF IInv, TypeOK, Vector
  <2>2. ASSUME NEW w \in Vector, \A k \in Drives : vector[d][k] <= w[k]
        PROVE  Step(vector[d], w)
    BY <2>1, <2>2 DEF Step, Compare, Exceeds, Vector
  <2>3. CASE vector'[d] = vector[d]
    BY <2>1, <2>2, <2>3
  <2>4. CASE \E k \in Drives : vector'[d] = Increment(vector[d], k)
    BY <2>1, <2>2, <2>4, IncrementFacts, IncrementGrows
  <2>5. CASE \E e \in Drives : vector'[d] = Merge(vector[e], vector[d])
    BY <2>1, <2>2, <2>5, MergeFacts
  <2>6. CASE \E w, o \in Drives : /\ d \in {w, o}
                                  /\ vector'[d] = Increment(Merge(vector[w], vector[o]), w)
    <3>1. PICK w \in Drives, o \in Drives :
            d \in {w, o} /\ vector'[d] = Increment(Merge(vector[w], vector[o]), w)
      BY <2>6
    <3> DEFINE merged == Merge(vector[w], vector[o])
               next == Increment(merged, w)
    <3>2. merged \in Vector /\ \A k \in Drives : merged[k] \in Nat /\ vector[d][k] <= merged[k]
      BY <2>1, <3>1, MergeFacts DEF Vector
    <3>3. vector'[d] = next
      BY <3>1
    <3> HIDE DEF merged
    <3>4. next \in Vector /\ \A k \in Drives : merged[k] <= next[k]
      BY <3>2, IncrementFacts, IncrementGrows
    <3> HIDE DEF next
    <3>5. \A k \in Drives : next[k] \in Nat
      BY <3>4 DEF Vector
    <3>6. ASSUME NEW k \in Drives PROVE vector[d][k] <= next[k]
      <4>1. vector[d][k] \in Nat /\ merged[k] \in Nat /\ next[k] \in Nat
        BY <2>1, <3>2, <3>5
      <4>2. vector[d][k] <= merged[k] /\ merged[k] <= next[k]
        BY <3>2, <3>4
      <4> QED
        BY <4>1, <4>2
    <3> QED
      BY <2>2, <3>3, <3>4, <3>6
  <2> QED
    BY <2>3, <2>4, <2>5, <2>6 DEF Next, Modify, Receive, Resolve, IInv, TypeOK
<1> QED
  BY <1>1, Initially, Inductive, PTL DEF Spec, VectorsGrow
=============================================================================
