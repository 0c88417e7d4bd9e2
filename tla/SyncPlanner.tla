---------------------------- MODULE SyncPlanner ----------------------------
(***************************************************************************)
(* SyncPlanner::plan_sync: from the manifests of the connected drives to   *)
(* the operations that bring these drives together.  `m` maps each         *)
(* connected drive to its manifest, which maps each path to its row.       *)
(***************************************************************************)
EXTENDS ConflictResolver, PlanOrder

CONSTANT Paths

\* The numbers of names are in the order of the names.
ASSUME PathsAreNames == \A p \in Paths : p \in Seq(Nat) \ {<<>>}

\* Below, None also stands for no operation.
ASSUME NoneIsNoType == None \notin {"COPY", "REPLACE", "REMOVE"}

Versions(m, p) == [d \in {e \in DOMAIN m : m[e][p] # None} |-> m[d][p]]

IsLive(m, d, p) == m[d][p] # None /\ ~m[d][p].tombstone
IsTombstone(m, d, p) == m[d][p] # None /\ m[d][p].tombstone

\* The merge of the version vectors of some rows.
MergedVector(rows) == [k \in Drives |-> Max({r.vv[k] : r \in rows})]

SyncOp(type, source, target, path, newPath, vv) ==
  [type |-> type, source |-> source, target |-> target,
   path |-> path, newPath |-> newPath, vv |-> vv]

-----------------------------------------------------------------------------
(* Renames                                                                 *)

\* Fault: a copy under another name passes for a rename.
TakesCopiesForRenames(m, src, tgt, old) ==
  {new \in Paths \ {old} :
     /\ IsLive(m, src, new) /\ ~IsLive(m, src, old)
     /\ IsLive(m, tgt, old) /\ ~IsLive(m, tgt, new)
     /\ m[src][new].hash = m[tgt][old].hash}

\* The names under which src may have the file that tgt calls old.
RenamesFrom(m, src, tgt, old) ==
  {new \in Paths \ {old} :
     /\ IsLive(m, src, new) /\ IsTombstone(m, src, old)
     /\ IsLive(m, tgt, old) /\ ~IsLive(m, tgt, new)
     /\ m[src][new].hash = m[tgt][old].hash}

\* The last drive that has one decides; among several names it is the order
\* of its rows, which the manifests here do not have.
NewNames(m, tgt, old) ==
  LET sources == {src \in DOMAIN m \ {tgt} : RenamesFrom(m, src, tgt, old) # {}}
  IN IF sources = {} THEN {} ELSE RenamesFrom(m, Max(sources), tgt, old)

\* detect_renames: <<target, old path>> to new path.
RenameMaps(m) ==
  LET renamed == {x \in (DOMAIN m) \X Paths : NewNames(m, x[1], x[2]) # {}}
  IN {f \in [renamed -> Paths] : \A x \in renamed : f[x] \in NewNames(m, x[1], x[2])}

RenameOp(m, tgt, old, new) ==
  LET holders == {d \in DOMAIN m \ {tgt} : IsLive(m, d, new)}
      rows == (UNION {{m[d][old], m[d][new]} : d \in DOMAIN m}) \ {None}
  IN SyncOp("RENAME", Min(holders), tgt, old, new, MergedVector(rows))

\* Fault: the new name is planned for a second time.
HandlesOldNames(renames) == DOMAIN renames

\* What a rename deals with: the old and the new name on its target.
RenameHandled(renames) ==
  DOMAIN renames \cup {<<x[1], renames[x]>> : x \in DOMAIN renames}

-----------------------------------------------------------------------------
(* One path                                                                *)

Conflicts(m) == {p \in Paths : InConflict(Versions(m, p))}
Winner(m, p) == Resolve(Versions(m, p), Cardinality(DOMAIN m))
Resolutions(m) == {<<p, Winner(m, p)>> : p \in Conflicts(m)}

\* The first drive, unless a later one dominates it, unless a later one
\* dominates that, and so on.
NewestVersion(versions) ==
  LET Previous(S, d) == Max({e \in S : e < d})
      chain == CHOOSE S \in SUBSET DOMAIN versions :
                 \A d \in DOMAIN versions :
                   d \in S <=> \/ d = Min(DOMAIN versions)
                              \/ Compare(versions[d].vv, versions[Previous(S, d)].vv) = "DOMINATES"
  IN Max(chain)

\* A resolution does not say which path it is about: the first one is taken
\* that has, on its winning drive, a version of p concurrent with another.
SourceDrive(m, p) ==
  LET versions == Versions(m, p)
      Usable(winner) ==
        /\ winner \in DOMAIN versions
        /\ \E d \in DOMAIN versions :
             Compare(versions[winner].vv, versions[d].vv) = "CONCURRENT"
      usable == {x \in Resolutions(m) : Usable(x[2])}
  IN IF usable = {} THEN NewestVersion(versions)
     ELSE CHOOSE winner \in DOMAIN m :
            \E q \in Paths : <<q, winner>> \in usable /\ \A x \in usable : ~PathLess(x[1], q)

\* Fault: the new version is that of the source alone.
KeepsSourceVector(m, p, src) == m[src][p].vv

\* Fault: a copy counts as a new version.
CountsCopies(m, p, src) == Increment(MergedVector({m[d][p] : d \in DOMAIN m} \ {None}), src)

\* Every version known of p goes into the vector its operations carry.
PlannedVector(m, p, src) == MergedVector({m[d][p] : d \in DOMAIN m} \ {None})

\* Fault: a live file is only replaced by a dominating version.
ReplacesDominatedOnly(m, p, src, tgt) ==
  CASE m[src][p].tombstone -> IF IsLive(m, tgt, p) THEN "REMOVE" ELSE None
    [] ~m[src][p].tombstone /\ ~IsLive(m, tgt, p) -> "COPY"
    [] OTHER -> IF Compare(m[src][p].vv, m[tgt][p].vv) = "DOMINATES" THEN "REPLACE" ELSE None

\* Fault: concurrent versions are planned to be kept, which no Executor can do.
KeepsAllVersions(m, p, src, tgt) ==
  CASE m[src][p].tombstone -> IF IsLive(m, tgt, p) THEN "REMOVE" ELSE None
    [] ~m[src][p].tombstone /\ ~IsLive(m, tgt, p) -> "COPY"
    [] Compare(m[src][p].vv, m[tgt][p].vv) = "CONCURRENT" -> "COPY_ALL_VERSIONS"
    [] OTHER -> IF m[src][p].hash # m[tgt][p].hash THEN "REPLACE" ELSE None

\* What tgt needs to have the version of p on src.
Needed(m, p, src, tgt) ==
  CASE m[src][p].tombstone -> IF IsLive(m, tgt, p) THEN "REMOVE" ELSE None
    [] ~m[src][p].tombstone /\ ~IsLive(m, tgt, p) -> "COPY"
    [] OTHER -> IF \/ Compare(m[src][p].vv, m[tgt][p].vv) = "DOMINATES"
                   \/ m[src][p].hash # m[tgt][p].hash
                  THEN "REPLACE" ELSE None

\* More than half of the drives have deleted p: so shall the others.
Removals(m, p, deleted, targets) ==
  {SyncOp("REMOVE", Min(deleted), tgt, p, p, MergedVector({m[d][p] : d \in deleted})) :
     tgt \in {d \in targets : IsLive(m, d, p)}}

Updates(m, p, src, targets) ==
  {SyncOp(Needed(m, p, src, tgt), src, tgt, p, p, PlannedVector(m, p, src)) :
     tgt \in {d \in targets \ {src} : Needed(m, p, src, d) # None}}

PathOps(m, p, handled) ==
  LET deleted == {d \in DOMAIN m : IsTombstone(m, d, p)}
      targets == {d \in DOMAIN m : <<d, p>> \notin handled}
  IN IF 2 * Cardinality(deleted) > Cardinality(DOMAIN m)
       THEN Removals(m, p, deleted, targets)
       ELSE UNION {Updates(m, p, src, targets) :
                     src \in IF DOMAIN Versions(m, p) = {} THEN {} ELSE {SourceDrive(m, p)}}

-----------------------------------------------------------------------------
(* The plan                                                                *)

\* Renames first, by target and old path; then path by path, target by target.
Before(a, b) ==
  \/ a.type = "RENAME" /\ b.type # "RENAME"
  \/ /\ a.type = "RENAME" /\ b.type = "RENAME"
     /\ a.target < b.target \/ (a.target = b.target /\ PathLess(a.path, b.path))
  \/ /\ a.type # "RENAME" /\ b.type # "RENAME"
     /\ PathLess(a.path, b.path) \/ (a.path = b.path /\ a.target < b.target)

AllOps(m, renames) ==
  {RenameOp(m, x[1], x[2], renames[x]) : x \in DOMAIN renames}
    \cup UNION {PathOps(m, p, RenameHandled(renames)) : p \in Paths}

Plans(m) ==
  LET planned == {InOrder(ops, Before) : ops \in {AllOps(m, r) : r \in RenameMaps(m)}}
      sorted == {TopologicalSort(ops) : ops \in {WithMkdirs(ops) : ops \in planned}}
  IN {Coalesce(ops) : ops \in sorted}
=============================================================================
