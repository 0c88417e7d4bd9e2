------------------------------ MODULE Causality ------------------------------
(***************************************************************************)
(* What version vectors promise: each drive holds a version of one file,   *)
(* drives change their version, take over each other's version as a sync   *)
(* does, and settle two versions as `resolve` does.  The history variable  *)
(* `known` records which changes a version builds on.                      *)
(***************************************************************************)
EXTENDS VersionVectors

CONSTANT MaxClock  \* bound on the changes made on one drive

VARIABLES
  vector,  \* vector[d]: the version vector of the file on drive d
  known    \* known[d]: history, the changes in the version on drive d

vars == <<vector, known>>

Change == Drives \X (Nat \ {0})

Init ==
  /\ vector = [d \in Drives |-> Zero]
  /\ known = [d \in Drives |-> {}]

\* mark_deleted increments the clock of the drive it happens on.
Modify(d) ==
  /\ vector[d][d] < MaxClock
  /\ vector' = [vector EXCEPT ![d] = Increment(@, d)]
  /\ known' = [known EXCEPT ![d] = @ \cup {<<d, vector[d][d] + 1>>}]

\* A planned operation carries the merge of the vectors of all versions.
Receive(d, e) ==
  /\ vector' = [vector EXCEPT ![d] = Merge(vector[e], @)]
  /\ known' = [known EXCEPT ![d] = @ \cup known[e]]

\* do_resolve: the merged vector, advanced on the winning drive, goes to
\* every drive.
Resolve(winner, other) ==
  LET vv == Increment(Merge(vector[winner], vector[other]), winner)
      all == known[winner] \cup known[other] \cup {<<winner, vector[winner][winner] + 1>>} IN
  /\ vector[winner][winner] < MaxClock
  /\ vector' = [vector EXCEPT ![winner] = vv, ![other] = vv]
  /\ known' = [known EXCEPT ![winner] = all, ![other] = all]

Next ==
  \/ \E d \in Drives : Modify(d)
  \/ \E d, e \in Drives : Receive(d, e) \/ Resolve(d, e)

Spec == Init /\ [][Next]_vars

TypeOK ==
  /\ vector \in [Drives -> Vector]
  /\ known \in [Drives -> SUBSET Change]

\* compare tells exactly which of two versions builds on the other.
CompareIsCausality ==
  \A d, e \in Drives :
    Compare(vector[d], vector[e]) =
      CASE known[d] = known[e] -> "EQUAL"
        [] known[e] \subseteq known[d] /\ known[d] # known[e] -> "DOMINATES"
        [] known[d] \subseteq known[e] /\ known[d] # known[e] -> "DOMINATED_BY"
        [] OTHER -> "CONCURRENT"

\* A version never forgets a change.
Step(v, w) == Compare(v, w) \in {"EQUAL", "DOMINATED_BY"}
VectorsGrow == [][\A d \in Drives : Step(vector[d], vector'[d])]_vars
=============================================================================
