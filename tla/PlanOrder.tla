----------------------------- MODULE PlanOrder -----------------------------
(***************************************************************************)
(* The order of a plan: SyncPlanner's directories, its topological_sort    *)
(* and its coalesce, on sequences of operations.  A path is the sequence   *)
(* of its names, and a name a number: `topological_sort` must not depend   *)
(* on what the names are.                                                  *)
(***************************************************************************)
EXTENDS Integers, FiniteSets, SequencesExt

\* The elements of S, least first.
InOrder(S, Less(_, _)) ==
  [i \in 1 .. Cardinality(S) |->
     CHOOSE x \in S : Cardinality({y \in S : Less(y, x)}) = i - 1]

Ascending(S) == InOrder(S, <)

\* std::string's order, for names without characters that sort before '/'.
PathLess(p, q) ==
  \/ IsStrictPrefix(p, q)
  \/ \E n \in 1 .. Len(p) :
       n <= Len(q) /\ SubSeq(p, 1, n - 1) = SubSeq(q, 1, n - 1) /\ p[n] < q[n]

Below(p, dir) == IsStrictPrefix(dir, p)

\* Deepest first.
AncestorDirs(p) == [i \in 1 .. Len(p) - 1 |-> SubSeq(p, 1, Len(p) - i)]
Parents(p) == Range(AncestorDirs(p))

-----------------------------------------------------------------------------
(* emit_mkdirs: whatever is copied or renamed is preceded by a MKDIR for   *)
(* each directory above it, unless its drive has got one before.  Nothing  *)
(* reads the source and the vector of a MKDIR.                             *)

DirsFor(o) ==
  CASE o.type = "COPY" -> AncestorDirs(o.path)
    [] o.type = "RENAME" -> AncestorDirs(o.newPath)
    [] OTHER -> <<>>

Mkdir(o, dir) == [o EXCEPT !.type = "MKDIR", !.path = dir, !.newPath = dir]

WithMkdirs(ops) ==
  LET Emitted(i, dir) == \E j \in 1 .. i - 1 :
        ops[j].target = ops[i].target /\ dir \in Range(DirsFor(ops[j]))
      Missing(i) == Ascending({k \in DOMAIN DirsFor(ops[i]) : ~Emitted(i, DirsFor(ops[i])[k])})
      Group(i) ==
        [k \in DOMAIN Missing(i) |-> Mkdir(ops[i], DirsFor(ops[i])[Missing(i)[k]])] \o <<ops[i]>>
  IN FlattenSeq([i \in DOMAIN ops |-> Group(i)])

-----------------------------------------------------------------------------
(* topological_sort                                                        *)

\* Fault: nothing waits for its directory.
IgnoresDirs(a, b) ==
  /\ a.target = b.target
  /\ \/ a.type = "RENAME" /\ b.path = a.newPath
     \/ a.type \in {"COPY", "REPLACE"} /\ b.type = "REMOVE" /\ b.path = a.path

\* Must a come before b?
Precedes(a, b) ==
  /\ a.target = b.target
  /\ \/ a.type = "MKDIR" /\ Below(b.path, a.path)
     \/ a.type = "RENAME" /\ b.path = a.newPath
     \/ a.type \in {"COPY", "REPLACE"} /\ b.type = "REMOVE" /\ b.path = a.path

Waits(ops, j) == {i \in DOMAIN ops \ {j} : Precedes(ops[i], ops[j])}

\* Taking the k-th operation of the queue frees those that waited for it and
\* for nothing behind it.
Freed(ops, queue, k) ==
  {j \in DOMAIN ops : /\ queue[k] \in Waits(ops, j)
                      /\ Waits(ops, j) \subseteq Range(SubSeq(queue, 1, k))}

Take(ops, queue, k) ==
  IF k > Len(queue) THEN queue ELSE queue \o Ascending(Freed(ops, queue, k))

\* Kahn's algorithm with a queue of positions in ops.  What waits in a circle
\* comes last, in the old order.
TopologicalSort(ops) ==
  LET TakeNext(queue, k) == Take(ops, queue, k)
      free == Ascending({j \in DOMAIN ops : Waits(ops, j) = {}})
      queue == FoldLeftDomain(TakeNext, free, ops)
      order == queue \o Ascending(DOMAIN ops \ Range(queue))
  IN [k \in DOMAIN ops |-> ops[order[k]]]

\* The last operation on a path of a drive stays.
Coalesce(ops) ==
  LET Again(k) == \E j \in k + 1 .. Len(ops) :
        ops[j].target = ops[k].target /\ ops[j].path = ops[k].path
      kept == Ascending({k \in DOMAIN ops : ~Again(k)})
  IN [i \in DOMAIN kept |-> ops[kept[i]]]
=============================================================================
