------------------------------- MODULE Vault -------------------------------
(***************************************************************************)
(* The whole tool as its user sees it: files change on drives, `scan`      *)
(* brings a drive's manifest up to date, `sync` plans from the manifests   *)
(* of the connected drives and carries the plan out, `resolve` settles a   *)
(* path by hand.  Only one command runs at a time; the user may touch the  *)
(* files while it does.                                                    *)
(*                                                                         *)
(* All contents have the same size, so that the hash cache has only mtimes *)
(* to go by; a content stands for its hash.  An operation takes one step;  *)
(* its system calls are the subject of Executor.  Of its temporary files   *)
(* only those count that are left behind, by a crash or by a removal that  *)
(* fails: to a scan they are files like any other, under the path that Tmp *)
(* gives.                                                                  *)
(***************************************************************************)
EXTENDS SyncPlanner

CONSTANTS
  Contents,       \* what a file may hold
  Times,          \* modification times
  Tmp,            \* Tmp[p]: path of the temporary file for p; other paths leave none
  Deeds,          \* what the user does, a subset of the deeds below
  Faults,         \* what may go wrong, a subset of the faults below
  StartInSync,    \* do the drives hold the same files at the start
  StartClocks,    \* a drive's own clock in the rows it starts with
  DistinctTimes,  \* do different contents of a path have different mtimes
  Budget          \* bounds on the user's deeds and on faults

ASSUME VaultAssumption ==
  /\ IsFiniteSet(Drives) /\ IsFiniteSet(Paths) /\ None \notin Contents
  /\ Times \subseteq Nat /\ StartClocks \subseteq Nat
  /\ Deeds \subseteq {"create", "write", "delete", "move", "resolve"}
  /\ Faults \subseteq {"unreadable", "fail", "die", "corrupt"}
  /\ Budget \in [{"deed", "fault"} -> Nat]

Dirs == UNION {Parents(p) : p \in Paths}

\* A temporary file is next to its file, and neither is a directory.  If a path
\* is a file here and a directory there, all other paths are below it: then
\* renaming it as a directory, which a stale plan may ask for, can only fail.
ASSUME PathsAssumption ==
  /\ Tmp \in [DOMAIN Tmp -> Paths] /\ DOMAIN Tmp \subseteq Paths \ (Range(Tmp) \cup Dirs)
  /\ \A p \in DOMAIN Tmp : Tmp[p] \notin Dirs /\ Parents(Tmp[p]) = Parents(p)
  /\ \A p \in Paths \cap Dirs : \A q \in Paths \ {p} : Below(q, p)

VARIABLES
  files,     \* files[d][p]: content and mtime of the file p on drive d
  dirs,      \* dirs[d]: directories on drive d
  manifest,  \* manifest[d][p]: p's row in the manifest of drive d
  plan,      \* the operations the running sync has left
  rounds,    \* history: undisturbed syncs of all scanned drives so far, at most 2
  lone,      \* history: what the only change since such a sync set paths to
  budget     \* what is left of Budget

vars == <<files, dirs, manifest, plan, rounds, lone, budget>>

File(content, mtime) == [content |-> content, mtime |-> mtime]
Row(hash, mtime, tombstone, vv) ==
  [hash |-> hash, mtime |-> mtime, tombstone |-> tombstone, vv |-> vv]

Content(d, p) == IF files[d][p] = None THEN None ELSE files[d][p].content

Spend(what) == budget[what] > 0 /\ budget' = [budget EXCEPT ![what] = @ - 1]

Do(deed) == deed \in Deeds /\ Spend("deed")
Suffer(fault) == fault \in Faults /\ Spend("fault")

Lone(by, path, content) == [by |-> by, path |-> path, content |-> content]

\* Something happened that the syncs so far do not answer for.
Disturb == rounds' = 0 /\ lone' = {}

\* A manifest agrees with the files of its drive.
UpToDate(d) ==
  \A p \in Paths :
    IF IsLive(manifest, d, p) THEN Content(d, p) = manifest[d][p].hash
                              ELSE files[d][p] = None

\* May there be a file p next to those of f?
Fits(f, p) == \A q \in Paths : f[q] # None => ~Below(p, q) /\ ~Below(q, p)

-----------------------------------------------------------------------------
(* Every drive was scanned on its own, some of its files having been       *)
(* deleted and created again; or all drives hold the same, never changed.  *)

StartVector(d) == {[Zero EXCEPT ![d] = k] : k \in StartClocks}

StartRows(d) ==
  [hash : Contents, mtime : Times, tombstone : {FALSE}, vv : StartVector(d)]
    \cup [hash : Contents, mtime : Times, tombstone : {TRUE}, vv : StartVector(d) \ {Zero}]

StartFile(row) ==
  IF row = None THEN None ELSE IF row.tombstone THEN None ELSE File(row.hash, row.mtime)

ParentsOf(f) == UNION {Parents(p) : p \in {q \in Paths : f[q] # None}}

Init ==
  /\ \E rows \in [Drives -> [Paths \ Range(Tmp) -> {None} \cup UNION {StartRows(d) : d \in Drives}]] :
       /\ \A d \in Drives : Range(rows[d]) \subseteq {None} \cup StartRows(d)
       /\ manifest = [d \in Drives |->
                        [p \in Paths |-> IF p \in Range(Tmp) THEN None ELSE rows[d][p]]]
  /\ StartInSync => \A d, e \in Drives : manifest[d] = manifest[e]
  /\ DistinctTimes => \A d, e \in Drives, p \in Paths :
       manifest[d][p] # None /\ manifest[e][p] # None /\ manifest[d][p].mtime = manifest[e][p].mtime
         => manifest[d][p].hash = manifest[e][p].hash
  /\ files = [d \in Drives |-> [p \in Paths |-> StartFile(manifest[d][p])]]
  /\ \A d \in Drives, p \in Paths : files[d][p] # None => Fits(files[d], p)
  /\ dirs = [d \in Drives |-> ParentsOf(files[d])]
  /\ plan = <<>>
  /\ rounds = 0
  /\ lone = {}
  /\ budget = Budget

-----------------------------------------------------------------------------
(* scan                                                                    *)

\* build_node on a file: without a usable hash in the manifest, it is read.
FoundFile(file, row) ==
  CASE row = None -> Row(file.content, file.mtime, FALSE, Zero)
    [] row # None /\ row.mtime = file.mtime -> [row EXCEPT !.tombstone = FALSE]
    [] OTHER -> Row(file.content, file.mtime, FALSE, row.vv)

\* Fault: a deletion does not advance the clock.
ForgetsClock(d, row) == [row EXCEPT !.tombstone = TRUE]

\* mark_deleted, for a row that is there.
MarkDeleted(d, row) == [row EXCEPT !.tombstone = TRUE, !.vv = Increment(@, d)]

\* What a scan makes of the row of p.  Files it cannot read count as gone.
Scanned(d, p, unreadable) ==
  CASE files[d][p] # None /\ p \notin unreadable -> FoundFile(files[d][p], manifest[d][p])
    [] (files[d][p] = None \/ p \in unreadable) /\ IsLive(manifest, d, p) -> MarkDeleted(d, manifest[d][p])
    [] OTHER -> manifest[d][p]

\* do_scan on one drive.
Scan(d, unreadable) ==
  /\ plan = <<>>
  /\ manifest' = [manifest EXCEPT ![d] = [p \in Paths |-> Scanned(d, p, unreadable)]]
  /\ IF unreadable = {} THEN UNCHANGED <<rounds, lone, budget>>
                        ELSE Disturb /\ Suffer("unreadable")
  /\ UNCHANGED <<files, dirs, plan>>

\* build_node keeps a row that agrees with its file as it is.
NeedsRow(d, p) ==
  /\ files[d][p] # None
  /\ manifest[d][p] # None => manifest[d][p].mtime # files[d][p].mtime

\* A scan that does not get all its rows written.  One that dies has given out
\* no tombstones, unless it met all files before; one that cannot write a file's
\* row leaves the old one, warns, and goes on to the tombstones.
ScanFallsShort(d) ==
  /\ plan = <<>>
  /\ \E done \in (SUBSET Paths) \ {{}, Paths} :
       /\ \/ /\ Suffer("die")
             /\ (\E p \in done : files[d][p] = None) => \A p \in Paths \ done : files[d][p] = None
          \/ /\ Suffer("fail")
             /\ \A p \in Paths \ done : NeedsRow(d, p)
       /\ manifest' = [manifest EXCEPT ![d] =
            [p \in Paths |-> IF p \in done THEN Scanned(d, p, {}) ELSE @[p]]]
  /\ UNCHANGED <<files, dirs, plan, rounds, lone>>

-----------------------------------------------------------------------------
(* sync                                                                    *)

\* do_sync up to the plan, on the drives that are connected.
Sync(connected) ==
  /\ plan = <<>>
  /\ Cardinality(connected) >= 2
  /\ \E m \in {[d \in connected |-> manifest[d]]} : plan' \in Plans(m)
  /\ LET scanned == \A d \in connected : UpToDate(d) IN
     /\ rounds' = IF scanned /\ connected = Drives THEN Min({rounds + 1, 2}) ELSE 0
     /\ lone' = IF scanned THEN lone ELSE {}
  /\ UNCHANGED <<files, dirs, manifest, budget>>

\* Where an operation puts a file or a directory.
Destination(o) == IF o.type = "RENAME" THEN o.newPath ELSE o.path

\* A file stands where an operation needs a directory.
Obstructed(o) ==
  \E p \in Paths : /\ files[o.target][p] # None
                   /\ \/ p \in Parents(Destination(o))
                      \/ o.type = "MKDIR" /\ p = o.path

\* Does the Executor get past its checks and its first call on the file?
Applicable(o) ==
  \/ o.type = "REMOVE"
  \/ o.type = "MKDIR" /\ ~Obstructed(o)
  \/ /\ o.type = "RENAME" /\ ~Obstructed(o) /\ o.newPath \notin dirs[o.target]
     /\ files[o.target][o.path] # None
  \/ /\ o.type \in {"COPY", "REPLACE"} /\ ~Obstructed(o) /\ o.path \notin dirs[o.target]
     /\ manifest[o.source][o.path] # None /\ files[o.source][o.path] # None
     /\ files[o.source][o.path].content = manifest[o.source][o.path].hash

\* What a copy writes on the way.
TmpFile(o) ==
  IF o.type \in {"COPY", "REPLACE"} /\ o.path \in DOMAIN Tmp THEN {Tmp[o.path]} ELSE {}

Without(f, paths) == [p \in Paths |-> IF p \in paths THEN None ELSE f[p]]

\* What an operation does to the files of its target; a copy takes over the
\* mtime of its source.
FilesAfter(o) ==
  LET t == Without(files[o.target], TmpFile(o)) IN
  CASE o.type \in {"COPY", "REPLACE"} -> [t EXCEPT ![o.path] = files[o.source][o.path]]
    [] o.type = "REMOVE" -> [t EXCEPT ![o.path] = None]
    [] o.type = "RENAME" -> [t EXCEPT ![o.newPath] = t[o.path], ![o.path] = None]
    [] o.type = "MKDIR" -> t

\* And to its directories: REMOVE takes an empty one for the file.
DirsAfter(o) ==
  LET t == dirs[o.target]
      empty == \A p \in Paths : files[o.target][p] # None => ~Below(p, o.path)
  IN CASE o.type = "REMOVE" -> IF empty /\ \A e \in t : ~Below(e, o.path) THEN t \ {o.path} ELSE t
       [] o.type = "MKDIR" -> t \cup Parents(o.path) \cup {o.path}
       [] OTHER -> t \cup Parents(Destination(o))

\* And to its rows.  A file to be removed has a row.
RowsAfter(o) ==
  LET t == manifest[o.target] IN
  CASE o.type \in {"COPY", "REPLACE"} ->
         [t EXCEPT ![o.path] = [manifest[o.source][o.path] EXCEPT !.vv = o.vv]]
    [] o.type = "REMOVE" -> [t EXCEPT ![o.path] = [@ EXCEPT !.tombstone = TRUE, !.vv = o.vv]]
    [] o.type = "RENAME" /\ t[o.path] # None ->
         [t EXCEPT ![o.newPath] = [t[o.path] EXCEPT !.vv = o.vv], ![o.path] = None]
    [] OTHER -> t

State(f, ds, rows) == [files |-> f, dirs |-> ds, rows |-> rows]
Here(d) == State(files[d], dirs[d], manifest[d])
After(o) == State(FilesAfter(o), DirsAfter(o), RowsAfter(o))

Become(d, state) ==
  /\ files' = [files EXCEPT ![d] = state.files]
  /\ dirs' = [dirs EXCEPT ![d] = state.dirs]
  /\ manifest' = [manifest EXCEPT ![d] = state.rows]

\* A rename makes its directories before it looks for its file.
Refused(o) ==
  IF o.type = "RENAME" /\ ~Obstructed(o)
    THEN [Here(o.target) EXCEPT !.dirs = DirsAfter(o)] ELSE Here(o.target)

\* How an operation may leave its target that fails between its calls.  First
\* come the directories, then the files, then the manifest.  In a rename the
\* old name's row goes before the new name's comes; a file that cannot be
\* removed gets its tombstone all the same; no temporary file is left.
Midway(o) ==
  LET old == Here(o.target)
      new == After(o)
  IN {[old EXCEPT !.dirs = @ \cup {a \in new.dirs : Len(a) <= n}] : n \in 0 .. Len(Destination(o))}
     \cup {State(f, new.dirs, old.rows) : f \in {Without(old.files, TmpFile(o)), new.files}}
     \cup CASE o.type = "RENAME" -> {State(new.files, new.dirs, [old.rows EXCEPT ![o.path] = None])}
            [] o.type = "REMOVE" -> {State(old.files, old.dirs, new.rows)}
            [] OTHER -> {}

\* No drive has or remembers another content of p with this mtime.
NewTime(p, content, mtime) ==
  \A d \in Drives :
    /\ files[d][p] # None /\ files[d][p].mtime = mtime => files[d][p].content = content
    /\ manifest[d][p] # None /\ manifest[d][p].mtime = mtime => manifest[d][p].hash = content

\* What a copy has written when it dies, or fails and cannot remove it either.
Leftovers(o) ==
  {[Here(o.target) EXCEPT !.files[x[1]] = File(x[2], x[3]), !.dirs = DirsAfter(o)] :
     x \in {y \in TmpFile(o) \X Contents \X Times :
             DistinctTimes => NewTime(y[1], y[2], y[3])}}

Execute ==
  /\ plan # <<>> /\ Applicable(Head(plan))
  /\ Become(Head(plan).target, After(Head(plan)))
  /\ plan' = Tail(plan)
  /\ UNCHANGED <<rounds, lone, budget>>

\* An operation that fails is reported, and the next one is tried.
ExecuteFails ==
  /\ plan # <<>> /\ plan' = Tail(plan)
  /\ LET o == Head(plan) IN
     \/ /\ ~Applicable(o) /\ Become(o.target, Refused(o))
        /\ UNCHANGED <<rounds, lone, budget>>
     \/ /\ Applicable(o) /\ \E state \in Midway(o) \cup Leftovers(o) : Become(o.target, state)
        /\ Suffer("fail") /\ Disturb

\* The process ends early: the plan is only in its memory.
Crash ==
  /\ plan # <<>> /\ Suffer("die")
  /\ LET o == Head(plan) IN
     \E state \in {Here(o.target)} \cup IF Applicable(o) THEN Midway(o) \cup Leftovers(o) ELSE {} :
       Become(o.target, state)
  /\ plan' = <<>>
  /\ Disturb

\* rebuild_from_filesystem on a manifest that can no longer be read: the new
\* one is empty, and the next scan has nothing to compare with.
Rebuild(d) ==
  /\ plan = <<>> /\ Suffer("corrupt")
  /\ manifest' = [manifest EXCEPT ![d] = [p \in Paths |-> None]]
  /\ Disturb
  /\ UNCHANGED <<files, dirs, plan>>

-----------------------------------------------------------------------------
(* resolve                                                                 *)

\* do_resolve: the winner's row, not its file, goes to the connected drives, in
\* their order.
Resolved(p, useDrive, connected, reached) ==
  LET rows == {manifest[d][p] : d \in connected} \ {None}
      resolved == [manifest[useDrive][p] EXCEPT !.vv = Increment(MergedVector(rows), useDrive)]
  IN [d \in Drives |-> IF d \in reached THEN [manifest[d] EXCEPT ![p] = resolved]
                                        ELSE manifest[d]]

MayResolve(p, useDrive, connected) ==
  plan = <<>> /\ useDrive \in connected /\ manifest[useDrive][p] # None

Resolves(p, useDrive, connected) ==
  /\ MayResolve(p, useDrive, connected) /\ Do("resolve")
  /\ manifest' = Resolved(p, useDrive, connected, connected)
  /\ rounds' = 0
  /\ lone' = IF connected = Drives /\ UpToDate(useDrive) /\ p \in Conflicts(manifest)
                THEN {Lone("resolve", p, Content(useDrive, p))} ELSE {}
  /\ UNCHANGED <<files, dirs, plan>>

\* It dies when it has reached some of them.
ResolveDies(p, useDrive, connected) ==
  /\ "resolve" \in Deeds /\ MayResolve(p, useDrive, connected) /\ Suffer("die")
  /\ \E next \in connected \ {Min(connected)} :
       manifest' = Resolved(p, useDrive, connected, {d \in connected : d < next})
  /\ Disturb
  /\ UNCHANGED <<files, dirs, plan>>

-----------------------------------------------------------------------------
(* The user makes and removes directories as files come and go.            *)

Changed(d, f, changes) ==
  /\ files' = [files EXCEPT ![d] = f]
  /\ \A p \in Paths : f[p] # None => Fits(f, p)
  /\ dirs' = [dirs EXCEPT ![d] =
       ParentsOf(f) \cup {a \in @ : \A p \in Paths : f[p] # None => p # a /\ ~Below(a, p)}]
  /\ rounds' = 0
  /\ lone' = IF rounds > 0 /\ plan = <<>> THEN changes ELSE {}
  /\ UNCHANGED <<manifest, plan>>

UserWrite(d, p, content, mtime) ==
  /\ Do(IF files[d][p] = None THEN "create" ELSE "write")
  /\ Content(d, p) # content
  /\ DistinctTimes => NewTime(p, content, mtime)
  /\ Changed(d, [files[d] EXCEPT ![p] = File(content, mtime)], {Lone("user", p, content)})

UserDelete(d, p) ==
  /\ Do("delete")
  /\ files[d][p] # None
  /\ Changed(d, [files[d] EXCEPT ![p] = None], {Lone("user", p, None)})

UserMove(d, p, newPath) ==
  /\ Do("move")
  /\ files[d][p] # None /\ files[d][newPath] = None
  /\ Changed(d, [files[d] EXCEPT ![newPath] = files[d][p], ![p] = None],
             {Lone("user", p, None), Lone("user", newPath, Content(d, p))})

-----------------------------------------------------------------------------
Next ==
  \/ \E d \in Drives, unreadable \in SUBSET Paths : Scan(d, unreadable)
  \/ \E connected \in SUBSET Drives : Sync(connected)
  \/ Execute \/ ExecuteFails \/ Crash
  \/ \E d \in Drives : ScanFallsShort(d) \/ Rebuild(d)
  \/ \E p \in Paths, useDrive \in Drives, connected \in SUBSET Drives :
       Resolves(p, useDrive, connected) \/ ResolveDies(p, useDrive, connected)
  \/ \E d \in Drives, p \in Paths :
       \/ \E content \in Contents, mtime \in Times : UserWrite(d, p, content, mtime)
       \/ UserDelete(d, p)
       \/ \E newPath \in Paths : UserMove(d, p, newPath)

Spec == Init /\ [][Next]_vars

\* A running sync goes on, and the user scans every drive and syncs all of
\* them again and again.
FairSpec ==
  /\ Spec
  /\ WF_vars(Execute \/ ExecuteFails)
  /\ \A d \in Drives : SF_vars(Scan(d, {}))
  /\ SF_vars(Sync(Drives))

-----------------------------------------------------------------------------
(* Properties                                                              *)

Entry == [hash : Contents, mtime : Times, tombstone : BOOLEAN, vv : Vector]

\* None stands for no row and for no file.
ASSUME NoneIsNoRow == None \notin Entry
ASSUME NoneIsNoFile == None \notin [content : Contents, mtime : Times]

Operation ==
  [type : {"COPY", "REPLACE", "REMOVE", "RENAME"}, source : Drives, target : Drives,
   path : Paths, newPath : Paths, vv : Vector]
    \cup [type : {"MKDIR"}, source : Drives, target : Drives,
          path : Dirs, newPath : Dirs, vv : Vector]

\* The types of the files, the rows and the planned operations; files are in
\* directories, and what is to be removed has a row.
TypeOK ==
  /\ files \in [Drives -> [Paths -> {None} \cup [content : Contents, mtime : Times]]]
  /\ manifest \in [Drives -> [Paths -> {None} \cup Entry]]
  /\ dirs \in [Drives -> SUBSET Dirs]
  /\ \A d \in Drives : /\ ParentsOf(files[d]) \subseteq dirs[d]
                      /\ \A p \in dirs[d] \cap Paths : files[d][p] = None
  /\ plan \in Seq(Operation)
  /\ \A i \in DOMAIN plan :
       /\ plan[i].source # plan[i].target
       /\ plan[i].type = "REMOVE" => manifest[plan[i].target][plan[i].path] \in Entry
  /\ rounds \in 0 .. 2
  /\ budget \in [{"deed", "fault"} -> Nat]

Agree == \A d, e \in Drives, p \in Paths : Content(d, p) = Content(e, p)

\* Once a sync of all scanned drives has run undisturbed, every drive holds
\* the same files, whatever failed, crashed or was left unsynced before.
Converged == plan = <<>> /\ rounds > 0 => Agree

\* After two such syncs there is nothing left to do (the first leaves its
\* sources' version vectors behind, the second brings them up).
SyncSettles == plan = <<>> /\ rounds = 2 => Plans(manifest) = {<<>>}

\* Does the next sync bring the lone changes among `changes` to every drive?
Prevail(changes) ==
  plan = <<>> /\ rounds > 0 =>
    \A x \in lone \cap changes, d \in Drives : Content(d, x.path) = x.content

\* The only edit, deletion or move since the drives were in sync is what the
\* next sync brings to every drive.
LoneChangePrevails == Prevail({x \in lone : x.by = "user"})

\* The same of a deletion.
LoneDeletionPrevails == Prevail({x \in lone : x.by = "user" /\ x.content = None})

\* The same of a version that `resolve` chose, if nothing was changed since.
ResolutionPrevails == Prevail({x \in lone : x.by = "resolve"})

\* A sync follows the resolution of each path in conflict.
ResolutionIsFollowed ==
  \A p \in Conflicts(manifest) :
    LET winner == Winner(manifest, p) IN
    winner # None =>
      /\ manifest[SourceDrive(manifest, p)][p].hash = manifest[winner][p].hash
      /\ manifest[SourceDrive(manifest, p)][p].tombstone = manifest[winner][p].tombstone

\* No operation of an undisturbed sync finds its file gone or changed: the
\* order of the plan respects what its operations depend on.
OrderRespectsDependencies ==
  rounds > 0 /\ plan # <<>> => Applicable(Head(plan))

\* Coalesce drops only what is redundant: no file that an undisturbed sync
\* removes is left in the way of a directory that it makes.
RemovalsMakeRoom ==
  rounds > 0 /\ plan # <<>> /\ Head(plan).type = "MKDIR" => Applicable(Head(plan))

\* The queue of topological_sort and the backward pass of coalesce leave each
\* MKDIR before all work on paths below its directory.
ParentsComeFirst ==
  \A i, j \in DOMAIN plan :
    /\ plan[i].type = "MKDIR" /\ plan[i].target = plan[j].target
    /\ Below(plan[j].path, plan[i].path)
    => i < j

\* The same of the new names of renames.
ParentsComeBeforeRenames ==
  \A i, j \in DOMAIN plan :
    /\ plan[i].type = "MKDIR" /\ plan[i].target = plan[j].target
    /\ plan[j].type = "RENAME" /\ Below(plan[j].newPath, plan[i].path)
    => i < j

\* No temporary file is taken for one of the user's.
NoLeftoverSpreads ==
  \A d \in Drives, p \in Range(Tmp) : ~IsLive(manifest, d, p)

\* A row's version vector never goes back.
VectorsOnlyGrow ==
  [][\A d \in Drives, p \in Paths : manifest[d][p] # None /\ manifest'[d][p] # None =>
       Compare(manifest'[d][p].vv, manifest[d][p].vv) \in {"EQUAL", "DOMINATES"}]_vars

\* After a sync that finds nothing to disturb it, a second one has nothing to do.
SecondSyncIsEmpty == plan = <<>> /\ rounds > 0 => Plans(manifest) = {<<>>}

\* Different versions of a path have different version vectors.
VectorsTellVersionsApart ==
  \A d, e \in Drives, p \in Paths :
    /\ IsLive(manifest, d, p) /\ IsLive(manifest, e, p)
    /\ Compare(manifest[d][p].vv, manifest[e][p].vv) = "EQUAL"
    => manifest[d][p].hash = manifest[e][p].hash

\* Only a file that is gone gets a tombstone.
TombstoneMeansDeleted ==
  [][\A d \in Drives, p \in Paths :
       IsLive(manifest, d, p) /\ IsTombstone(manifest', d, p) => files'[d][p] = None]_vars

\* Versions of which one dominates all others are not in conflict.
OrderedIsNoConflict ==
  \A p \in Paths :
    LET versions == Versions(manifest, p) IN
    (\A d, e \in DOMAIN versions : Compare(versions[d].vv, versions[e].vv) # "CONCURRENT")
      => p \notin Conflicts(manifest)

\* When the user stops, the drives come to hold the same files for good.
Settles == <>[]Agree
=============================================================================
