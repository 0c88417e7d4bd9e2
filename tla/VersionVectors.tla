--------------------------- MODULE VersionVectors ---------------------------
(***************************************************************************)
(* VersionVector: one logical clock per drive.  A drive id that is missing *)
(* from the map counts as clock 0, so a vector is a function on all drives *)
(* and operator== of the maps is left out (only tests call it).  Clocks    *)
(* start at 0 and move by one: their 64 bits do not run out.               *)
(***************************************************************************)
EXTENDS Integers

CONSTANT Drives  \* drive ids

Vector == [Drives -> Nat]

Zero == [d \in Drives |-> 0]

Increment(v, drive) == [v EXCEPT ![drive] = @ + 1]

Larger(m, n) == IF m < n THEN n ELSE m

\* Fault: the argument's clocks replace the older ones.
TakeOther(v, w) == [d \in Drives |-> IF w[d] = 0 THEN v[d] ELSE w[d]]

Merge(v, w) == [d \in Drives |-> Larger(v[d], w[d])]

Exceeds(v, w) == \E d \in Drives : v[d] > w[d]

\* Fault: a vector that is ahead anywhere is newer.
AheadAnywhere(v, w) ==
  CASE ~Exceeds(v, w) /\ ~Exceeds(w, v) -> "EQUAL"
    [] Exceeds(v, w) -> "DOMINATES"
    [] OTHER -> "DOMINATED_BY"

\* Does v stand for a newer version than w?
Compare(v, w) ==
  CASE ~Exceeds(v, w) /\ ~Exceeds(w, v) -> "EQUAL"
    [] Exceeds(v, w) /\ ~Exceeds(w, v) -> "DOMINATES"
    [] ~Exceeds(v, w) /\ Exceeds(w, v) -> "DOMINATED_BY"
    [] OTHER -> "CONCURRENT"
=============================================================================
