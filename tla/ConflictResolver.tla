-------------------------- MODULE ConflictResolver --------------------------
(***************************************************************************)
(* ConflictResolver: which paths are in conflict, and which drive's        *)
(* version of a path wins.  `versions` maps the drives whose manifest has  *)
(* a row for the path to those rows, records with at least the fields      *)
(* hash, mtime, tombstone and vv.                                          *)
(***************************************************************************)
EXTENDS VersionVectors, FiniteSetsExt

CONSTANT None  \* no manifest row, no file, no winner

\* Drive ids are numbered in the order in which std::map walks over them.
ASSUME DrivesAreOrdered == Drives \subseteq Nat \ {0} /\ None \notin Nat

\* Does a live version x build on the deletion y?
Revives(x, y) ==
  /\ Compare(x.vv, y.vv) = "DOMINATES"
  /\ ~x.tombstone /\ y.tombstone

\* detect_conflicts, for one path.
InConflict(versions) ==
  \E d, e \in DOMAIN versions :
    \/ Compare(versions[d].vv, versions[e].vv) = "CONCURRENT"
    \/ Revives(versions[d], versions[e])

\* The drives each strategy of resolve may choose from.
DominantVersion(versions) ==
  {d \in DOMAIN versions : \A e \in DOMAIN versions :
     Compare(versions[d].vv, versions[e].vv) \in {"DOMINATES", "EQUAL"}}

LiveVersions(versions) == {d \in DOMAIN versions : ~versions[d].tombstone}

MajorityQuorum(versions, totalDrives) ==
  {d \in LiveVersions(versions) :
     2 * Cardinality({e \in LiveVersions(versions) : versions[e].hash = versions[d].hash})
       > totalDrives}

TombstoneWins(versions) == DOMAIN versions \ LiveVersions(versions)

LastWriteWins(versions) ==
  {d \in DOMAIN versions :
     /\ versions[d].mtime > 0
     /\ \A e \in DOMAIN versions : versions[e].mtime <= versions[d].mtime}

\* The first drive of the first strategy that has one; None means that all
\* versions are kept.  No more versions than drives: at most one hash has a
\* majority, so that the order of the hashes does not matter.
Resolve(versions, totalDrives) ==
  IF DominantVersion(versions) # {} THEN Min(DominantVersion(versions))
  ELSE IF MajorityQuorum(versions, totalDrives) # {} THEN Min(MajorityQuorum(versions, totalDrives))
  ELSE IF TombstoneWins(versions) # {} THEN Min(TombstoneWins(versions))
  ELSE IF LastWriteWins(versions) # {} THEN Min(LastWriteWins(versions))
  ELSE None
=============================================================================
