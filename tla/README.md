# A verification of Caravault

Caravault synchronises the files of several drives that are seldom plugged in
together.  All its state is on the drives: the files, and on each drive a
manifest (SQLite) with one row per file and a log of unfinished operations.  A
command line tool scans drives, plans a sync from the manifests of the
connected drives, and carries the plan out.

This directory models that system in TLA+, checks it with TLC on small
instances and proves part of it with TLAPS.  Paths below are those of the
repository (`src/*.cpp`, `include/*.hpp`, `tests/`).

## The system

| Component | State | Operations | What makes it correct |
|---|---|---|---|
| VersionVector | a clock per drive | `increment`, `merge`, `compare`, JSON | `compare` is causality; a merge forgets nothing |
| ManifestStore | rows of files, transaction log, drives, Merkle nodes | `upsert_file`, `mark_deleted`, `delete_file`, `begin_operation`, `complete_operation`, retries, rebuild | rows and log survive a crash as written; deletions advance a clock |
| MerkleEngine | none (caches hashes in the manifest) | `build_tree`, `diff` | after a scan the manifest has the hashes of the files |
| ConflictResolver | none | `detect_conflicts`, `resolve` | concurrent versions, and only they, are conflicts; the order of the strategies is kept |
| SyncPlanner | none | `plan_sync`: renames, per-path operations, sort, coalesce | a plan makes the drives equal; its order respects dependencies |
| Executor | none but the log | `execute`, `atomic_write`, `restore_from_replica`, `read_file_verified`, `recover_incomplete_operations` | no torn file; manifest, files and log fit together after any failure |
| CLI (`main.cpp`) | none | scan, sync, resolve, verify, status, conflicts, config | the user's change reaches every drive; drives end up equal |
| CDCChunker, BloomFilter, Logger | small | only called by tests | chunks cover a file; no false negatives; rotation loses nothing |
| Config, ProgressReporter, Platform | settings, counters | parsing, output, finding drives | |

How they interact: a command opens the manifests of the drives it is given.
`scan` walks a drive with MerkleEngine, which writes rows as it goes, and then
gives a tombstone to every live row it did not meet.  `sync` asks
ConflictResolver for conflicts and winners, hands manifests and winners to
SyncPlanner, and passes the operations one by one to Executor, which works on
files and manifests of a source and a target drive.  `resolve` rewrites rows
directly.  No two commands run at once and no component has threads; what
makes the system hard is everything around it: the process may die between any
two calls, drives are pulled out, calls fail one by one, the user edits files
at any moment, drives meet in any order and after any time, and each command
works on manifests as old as the last scan.  `PROJECT.json` lists these hazards
line by line.

## The modules

| Module | Models | Composes |
|---|---|---|
| `VersionVectors` | `version_vector.cpp` | |
| `Causality` | vectors of one file under modification, sync and resolve, with the set of changes each version builds on as history | `VersionVectors` |
| `ConflictResolver` | `conflict_resolver.cpp` | `VersionVectors` |
| `PlanOrder` | directories, `topological_sort` and `coalesce` on sequences of operations | |
| `SyncPlanner` | the rest of `sync_planner.cpp`: a function from manifests to the set of possible plans | `ConflictResolver`, `PlanOrder` |
| `Vault` | the commands scan, sync and resolve, the user, failures | `SyncPlanner` |
| `Executor` | `executor.cpp` call by call, with the part of `manifest_store.cpp` it uses | |
| `JournaledStore` | abstract: what the Executor promises of files, rows and journal | |
| `ExecutorRefinement` | the refinement mapping from Executor to JournaledStore | both |
| `Chunker` | `cdc_chunker.cpp`, for any fingerprint | |
| `Logger` | `logger.cpp`: levels, rotation, errors, restarts | |
| `MerkleTree` | `compute_directory_hash`, the hashes of a tree, `diff` | |
| `DriveRegistry` | ids and keys of drives in `main.cpp` | |
| `RetryLoop` | `ManifestStore::exec_with_retry` | |
| `MCExecutor`, `MCVault`, `MCCausality`, `MCLibrary` | instances for TLC | `MCLibrary`: the last five |
| `ExecutorProofs` | theorems: types, torn files, temporary files; invariants the next two share | `Executor` |
| `ExecutorRefinementProofs`, `ExecutorDeliveryProofs` | theorems: the refinement; delivery, and what the log tells | `ExecutorProofs` |
| `CausalityProofs` | theorems on version vectors | `Causality` |
| `Induction` | lemmas: recursive functions, folds and flattened sequences up to any number; how an order numbers a finite set | |
| `ChunkerProofs` | theorems on chunks | `Chunker`, `Induction` |
| `LibraryProofs` | theorems on logger, retries, registry and trees | the four, `Induction` |
| `VaultProofs` | theorems: the order of plans; types of the vault; convergence; version vectors; lone changes | `Vault`, `Induction` |

Operators called "Fault" in a comment are slips the code might have had.  No
model uses them; putting one in the place of the definition that follows it
must break a property, which is how we know that the property can see it.

### Executor

`disk`, `tmp`, `manifest`, `log` are what is on the drives; `attached` and
`mount` where the drives are; `pc`, `op`, `meta`, `result` the process.  Every
call that can fail or be the last one before a crash is an action of its own,
named for the operation and the call: `WriteBegin` (the log row), `WriteOpen`,
`WriteCopy`, `WriteVerify`, `WriteRename`, `WriteUpsert`, `Complete`, and
`CatchRemove`, `CatchComplete` for the catch block of `atomic_write`;
`RemoveBegin` and so on for REMOVE, `RenameBegin` and so on for RENAME.
`Issue` is the caller, guarded by what the planner promises.  Recovery is
`RecoverFile`, `RecoverComplete`, `RecoverDone`; the constant `RecoverOnStart`
says whether a process begins with it.  The command line tool never does, the
class comment of `executor.hpp` wants it: both are checked.  A content stands
for its hash; `Torn` is what a half-written file holds.  A copy reads its source
while others may write it (`Copied`).  Directories, sizes and times are left
out; a pragma of SQLite or a missing `fsync` is not modelled: a call that
returned has happened.

### JournaledStore and the refinement

`JournaledStore` says what a caller may rely on: an operation is entered into a
journal under a number of its own (`Begin`), the files change in one step
(`Move`), then the manifest (`Record`; `Unlist` and `Relist` for a rename, which
takes two), then it is struck from the journal and success is reported
(`Succeed`).  An operation may stop between any two of these (`GiveUp`, `Fail`,
`Die`).  After a crash a journaled write may be done again, if the row names the
content (`Redo`), and entries go oldest first (`Clear`).  There are no temporary
or torn files, and no calls that fail.

`ExecutorRefinement` maps Executor to it.  `disk`, `manifest`, `result` and
`dirty` are `file`, `row`, `outcome` and `touched`; the journal is the log
without paths of mount points; an operation of the store exists from the log
row on; `stage` follows from the program counter, and is "abandoned" in the
catch blocks and as soon as the target drive is gone.  Everything else the
Executor does is a stutter.  `ImplementsStore` is a property of two runs.

### VersionVectors, ConflictResolver, PlanOrder, SyncPlanner

Translated function by function.  Drives are numbers in the order in which
`std::map` walks over them, since ties go to the first or the last drive.  A
path is a sequence of names and a name a number; `PathLess` is the order of
the strings, as long as no name has a character that sorts before `/`.
`WithMkdirs` is `emit_mkdirs`: deepest directory first, once per drive.
`TopologicalSort` is Kahn's algorithm with the code's queue and edges, the cycle
guard included; `Coalesce` keeps the last operation of a target and path.  The
order of rows within a hash, on which the choice between two possible renames
depends, is left open: `Plans` is a set.

### Vault

`files`, `dirs` and `manifest` are the drives, `plan` the rest of a running sync.
`Scan`, `Sync`, `Resolves` are the commands; `Execute` and `ExecuteFails` carry
out an operation in one step (Executor is the detail).  An operation is
`Applicable` if its file is there, has the hash of its row and nothing stands in
the way; otherwise `Refused` says what it leaves.  `Midway` lists how an
operation that fails or dies between its calls leaves its target; `Leftovers`
are the temporary files of copies that died, or failed and could not remove
them, which to a scan are files like any other.  `Crash` and `ResolveDies` end
the process in a command; `ScanFallsShort` is a scan that dies, or that cannot
write some of its rows, warns and goes on to the tombstones;
`Rebuild` is `rebuild_from_filesystem` on a manifest that was lost.
`UserWrite`, `UserDelete`, `UserMove` may come at any time, also during a sync.
Drives start as after scans of their own (`StartInSync = FALSE`), some files
having been deleted and created again (`StartClocks`), or equal
(`StartInSync = TRUE`).  `rounds` counts syncs of all drives, all of them
scanned, since which nothing went wrong or changed; an operation that is not
applicable does not count as something going wrong, it is the planner's fault.
`lone` is the only change since.  All files have one size, so that the hash cache
depends on mtimes alone.  A temporary file exists for the paths of `Tmp` only.
`Deeds` and `Faults` name what may happen, `Budget` how often.

### Chunker, Logger, MerkleTree, DriveRegistry, RetryLoop

`Chunker`: the sizes are constants, the fingerprint is any function of a chunk's
bytes (it is reset at each cut).  `Logger`: messages are numbers of equal size;
the size or the rename may fail, and so may opening the new file, which throws
and leaves the stream closed; a process may end and another one open the log.
`MerkleTree`: two trees that grow and shrink freely.  A directory's hash is that
of the bag of its entries' hashes (the code sorts and joins them).  Nothing sets
it apart from a file's: such a bag is a text that a file may hold, and the empty
one is what an empty file holds.
`DriveRegistry`: disks are mounted under any name, scanned, unmounted; an id is
made once of the letters and digits of a name.  `RetryLoop`: a lock held by
another process is released at some time; time passes in the delays.  The delay
is an unbounded number there; the code's is an `int` of milliseconds, which
doubles past its range from 28 retries on (with the default first delay of 10;
the default is 5 retries), after sleeps of a month in all.

## What is checked

Passing runs (distinct states in brackets):

* **ExecCrash** (1.3 million).  Two operations on two drives and two paths,
  one crash, one edit, one drive pulled out, one temporary file that cannot be
  removed, no recovery.  `NeverTorn`; `TmpIsLogged`: a temporary file has an open
  log row, but for one whose removal failed silently; `MismatchIsLogged`: so has
  every disagreement of files and manifest that is not the user's doing;
  `SuccessIsDelivered`; `ImplementsStore`.  One content only: see "limits" below.
* **ExecFaults** (3.2 million).  Two operations of any kind, two contents; two
  calls report an error, anywhere but in an `fs::remove`, and one removal of a
  temporary file fails and reports none.  That REMOVE's own `fs::remove` fails is
  left to the table below (`StuckBudget`).
* **ExecRecovery** (0.3 million).  Two crashes (so also one during recovery), a
  failing call, a pulled drive and a temporary file that neither the catch block
  nor recovery removes.  `ContentIsVouchedFor`: recovery moves only
  content into place that the row names; `LogDrains` (liveness);
  `ImplementsStore`, with recovery as `Redo` and `Clear`.
* **Vectors** (480).  Three drives, two changes each.
* **VaultConverge** (0.2 million).  Three drives with any versions and
  tombstones of a path, two contents, two mtimes, one fault of any kind.
  `Converged`: a full undisturbed sync makes the drives equal; `SyncSettles`: after
  the second one nothing is left to plan.
* **VaultMove** (73,581).  Three drives in sync, a tree of three names and two
  directories, one file made or moved, one scan, sync or operation that dies or
  fails in part.
  `LoneChangePrevails`, `OrderRespectsDependencies`, `ParentsComeFirst`,
  `VectorsOnlyGrow` and the above for renames.
* **VaultSettle** (126,093).  Two drives, two deeds of the user (creation, edit,
  deletion, resolution by hand), one fault of any kind, `DistinctTimes`.
  `LoneDeletionPrevails`, `VectorsOnlyGrow`, and `Settles` (liveness): the drives
  agree for good.
* **Library** (200,159).  One of the five smaller components in each behaviour.
  `ChunksCoverFile`, `CutsForgetThePast` and `AppendsTransferTheTail` for all files
  of up to 11 bits, chunks of 2 to 4; `LogIsComplete` for six messages in three
  seconds, two to a file; `DiffMissesMovesOnly` for all pairs of trees over five
  names, whose files may be empty, hold a text, or hold what a directory with
  one file of that text is hashed as; `NobodyLeftOut` for three disks and three names, two of which give one
  id; `GivesUpLate` and `WaitsInProportion` for three retries and any lock.

The bounds: two drives are a source and a target, three are the least with a
majority and a bystander; one path shows everything about one file, two are
needed for a rename, three for a rename next to another name; two levels of
directories show a MKDIR below a MKDIR.  Two contents and
two mtimes make versions differ in either or both.  One crash can hit every
step of every operation, two hit recovery as well; files of 11 bytes have up to
five chunks; all budgets are spent in any
order.  Vector clocks are bounded by the deeds and faults.  Symmetry is used
for contents, and in Executor for drives and paths, never with liveness under
more than the contents (`ExecRecovery` has one path, and `LogDrains` names
drives: that run uses no symmetry; neither does `VaultSettle`).

Fairness.  `Executor!FairSpec`: a running process runs on, ends when it has
nothing left to do, and the tool is started again.  `Vault!FairSpec`: a running
sync runs on (weak fairness, one process with nothing to wait for), and the user
scans each drive and syncs all drives again and again (strong fairness, for both
are disabled while a sync runs).  Nothing is assumed of user deeds or faults.

### Where code and documents part

Runs that TLC must find violated, each with the line it contradicts in
`PROJECT.json`:

* **VaultDeletion**: a deletion is undone by the next sync, as the two live rows
  of the other drives, concurrent with the tombstone, are a majority.
* **VaultUnreadable**: a file a scan could not read gets a tombstone.
* **VaultReshape**: a file a is deleted on one drive and a/x written there;
  `coalesce` drops the other drive's REMOVE a for the MKDIR of the same path, and
  neither it nor the COPY below it can be done.
* **VaultLeftover**: a sync dies while it copies, no command recovers, and the
  temporary file is scanned like the user's own.

TLC shows more of them; these have no run of their own.  To see one, take the
named configuration with the changes given.

| Property | Instance | What happens |
|---|---|---|
| `Converged` | VaultReshape, `TwoFiles`, one content, `Deeds = {"delete"}` | two copies, one deleted on each of two drives, are taken for two opposite renames: the drives swap names, against `tests/property/idempotence_property_test.cpp:165-167` |
| `Converged` | VaultConverge, `FileAndTmp`, `TmpOfFile`, one mtime, `Faults = {"die"}` | a leftover temporary file is copied to other drives, where copies of the file it stood for overwrite and rename it |
| `SecondSyncIsEmpty` | VaultReshape, `OneFile`, `StartInSync = FALSE`, `StartClocks = {0, 1}` | the source of a copy keeps its vector, so that a second sync transfers again, against `idempotence_property_test.cpp:166-167`; `SyncSettles` says that of one path the third does not |
| `VectorsTellVersionsApart` | VaultReshape, `OneFile`, `Times = {1, 2}` | an edit does not advance any clock, against `include/version_vector.hpp:13` |
| `LoneChangePrevails` | VaultReshape, `OneFile`, `Times = {1, 2}`, `Deeds = {"write"}` | so of two drives in sync an edit on the second is undone by the next sync: the vectors are equal, and the first drive's content is the source |
| `LoneChangePrevails` | VaultReshape, `OneFile`, `Deeds = {"create", "delete"}` | nor does creating a file again, which keeps the tombstone's vector: on the second drive it is removed by the next sync, for the first one's tombstone |
| `VectorsOnlyGrow` | VaultReshape, `Tree`, one content, `StartInSync = FALSE`, `StartClocks = {0, 1}` | two copies on one drive are both renamed to the one name another drive has left; the second rename puts an older vector over the first one's |
| `VectorsOnlyGrow` | VaultDeletion | two drives have deleted a file, the third has a version that neither knows of: the majority's REMOVE carries the merge of the tombstones' vectors alone, and that version's clock goes back |
| `ResolutionPrevails` | VaultSettle | `resolve` writes the winner's row but not its file; the next scan undoes it |
| `ResolutionIsFollowed` | VaultDeletion | a majority's winner is used only if its own vector is concurrent with another |
| `OrderRespectsDependencies` | VaultReshape, `TwoFiles`, `StartInSync = FALSE`, `Deeds = {"move"}` | a COPY whose source was renamed away earlier in the plan |
| `SyncSettles` | VaultConverge, `TwoFiles`, one content, one mtime, `Faults = {}` | a rename takes the file that a planned copy needs; the copy fails, and a third sync still has something to do |
| `OrderRespectsDependencies` | VaultMove, `Faults = {"unreadable"}` | the same after one move, as a passing error has left a clock advanced and the vectors concurrent |
| `OrderRespectsDependencies` | VaultReshape | the other way round: a/x is deleted and a with its content written; the other drive is to rename a/x to a, where the directory a still is |
| `ParentsComeBeforeRenames` | VaultMove | an edge for MKDIR looks at `path`, not at `new_path`; a rename makes its directories itself |
| `OrderedIsNoConflict` | VaultReshape, `OneFile`, `StartInSync = FALSE`, `StartClocks = {0, 1}` | a live version that dominates a tombstone is reported as a conflict, against `conflict_resolver.hpp:43-45` |
| `Settles` | VaultSettle, `DistinctTimes = FALSE` | a failed upsert leaves a file of the same size and mtime under a row with another hash; no scan ever hashes it |
| `InsertionKeepsOtherChunks` | Library | a chunk cut at the maximum size moves with what comes before it, so that one byte can change several chunks, against `cdc_chunker.hpp:27-29` |
| `DiffIsExact` | Library | directory hashes do not see names: moved and swapped files below a directory are not reported, against `tests/property/merkle_engine_property_test.cpp:150` |
| `LogSurvivesErrors` | Library | once the log could not be opened after a rotation, later messages are dropped without an error |
| `AllTakePart` | Library | two drives first scanned under names with the same letters and digits get one id, and hide each other |
| `MismatchIsLogged` | ExecFaults | a failing upsert is caught, the log row completed, and nothing tells of the mismatch |
| `MismatchIsLogged` | ExecCrash, two contents | a rename after a crash carries the mismatch to its new name and completes its row |
| `TmpIsLogged` | ExecRecovery, two mounts, `RemountBudget` | recovery looks for the temporary file at its old absolute path, and forgets it |
| `SuccessIsDelivered` | ExecFaults, `OpTypes = {"REMOVE"}`, `StuckBudget` | `fs::remove` fails, the error is ignored, success is reported |
| `CorruptedIsDetected` | ExecFaults, `OpTypes = {"COPY"}`, `EditBudget` | a copy takes over the flag `corrupted` of its source's row |

### Limits of the runs

`MismatchIsLogged` holds for operations planned from scanned manifests; with two
contents a rename that follows a crash breaks it (above), which is why ExecCrash
has one.  `Converged` speaks of drives whose manifests are up to date:
an edit on a target that was not scanned is overwritten by the sync.
`Converged` and `Settles` are checked for one path and for one file among
directories; with copies of one content deleted under different names, with
leftovers, or with a file that becomes a directory they do not hold (above).
In Library the parts do not interact, as in the code: MerkleTree's trees are
whole, an entry that could not be hashed is Vault's `unreadable`.

## What is proved

For every value of the constants, from the assumptions named in the modules
(`ConstantsAssumption`, `NoneIsNoEntry`, `NoneIsNoOp`, `NoneIsNoJob`,
`ChunkerAssumption`, `LoggerAssumption`, `RetryAssumption`, `DrivesAreOrdered`,
`PathsAreNames`, `NoneIsNoType`, `NoneIsNoRow`, `NoneIsNoFile`, `VaultAssumption`,
`PathsAssumption`, `TreeAssumption`), which
TLC evaluates.

### Executor

* `TypeCorrect`: `TypeOK`.  One lemma per group of actions; helpers such
  as `Row` have typing lemmas and stay closed.
* `NoTornFile`: `NeverTorn`.  Not inductive by itself: the strengthening says that
  the content about to be renamed (`writeRename`) is the verified one and is not
  torn, because no row has `Torn` as its hash, and that the row being written
  is an entry.  Crash and recovery preserve it because recovery compares with a
  row.
* `NoOrphanedTmp`: `TmpIsLogged`, under `FixedMounts` (a drive is always mounted
  at the same place), which the code needs and does not check.  A removal that
  fails silently, in the catch block or in recovery (`executor.cpp:257`, `434`,
  `436`), makes the log forget its file; the theorem bounds the forgotten files
  (`Forgotten`) by the number of such removals.  The strengthening says that an
  operation that has a temporary file has the newest row of its drive's log, that
  ids are not used twice, and counts besides the forgotten files the one in the
  catch block whose row is about to be completed (`Doomed`, `Counted`).
* `ExecutorImplementsStore`: `ImplementsStore`, that is the refinement of
  JournaledStore, under `RemovalsWork`: the `fs::remove` of a REMOVE never fails
  without saying so.  The code ignores its error (`executor.cpp:344`), and then
  reports a success that no store could report (`SuccessIsDelivered` in the table
  above).  That the store has no temporary files makes a failing removal of one a
  stutter.
  The proof takes the groups of actions one by one; each is a step of the store or none.  What it
  needs is `RefinementInv`: types, the order of log ids (an operation's entry is
  the one with the newest id, so that striking the row strikes the entry) and
  the verified temporary file.  Writing it found a behaviour the store did not
  allow: a MKDIR on a drive that is gone begins and is abandoned in one step.
* `SuccessMeansDelivered`: `SuccessIsDelivered`, under `RemovalsWork`.
  `DeliveryInv` says at each program counter what has already been achieved of
  the file, its row and, for a rename, both names, unless the user came between.
* `NoUnknownContent`: `ContentIsVouchedFor`, an action property, with no hypothesis: that the
  temporary file was verified is enough in a run, the comparison of hashes in
  recovery.
* `LogIsHonest`, under `HardStopsOnly` (crashes and pulled drives, but no failing
  call and no recovery, the tool as it is delivered): where a file has no row or a
  row no file, a log row tells of it; and without renames `MismatchIsLogged` holds.
  With renames it does not: a rename takes a file and a row that disagree to a
  name the log does not know, and completes its own row.  `HonestInv` says what the running
  operation has left undone and that its row, the newest of the log, is still there.

### Vault and its plans

* `VaultTypes`: `TypeOK` of Vault, with no hypothesis: however `scan`, `sync`,
  `resolve` and the user interleave and wherever an operation fails or dies,
  every row has a vector over all drives, every planned operation leads from one
  drive to another, what a plan is to remove has a row, and files are in
  directories and never where one is.  Three arguments carry it.  What the
  planner chooses exists (`PlansAreSound`): `NewestVersion` goes along a chain of
  drives, each of which dominates the last (`ChainExists`), and a `PlannedVector`
  merges finitely many rows, at least one.  A removal keeps its row until its
  turn comes: operations drop no row but that of their own path (`KeepsRows`),
  and a plan works on a path of a drive only once (`OnceEach`, from
  `CoalesceFacts`; `RestIsSound`).  Files and directories stay a tree (`IsTree`)
  through whole operations, refused ones, the ones cut off between two calls
  and leftover temporary files (`AfterIsSound`, `RefusedIsSound`,
  `MidwayIsSound`, `LeftoversAreSound`).  The invariant is `VaultInv`.
* `PlansMakeParentsFirst`: `ParentsComeFirst`, under `FilesAreNoDirs`: no path is a
  file on one drive and a directory on another.  Without that a rename of a/x to a
  waits for the MKDIR of a, which waits for it, and the guard against circles
  puts both last, the rename first.  The paths are totally ordered (`PathOrder`), so
  `InOrder` lists the planned operations, of which there is one for each path of
  a drive, and one rename (`AllOpsFacts`, `InOrderType`).  The queue of
  `topological_sort` is a fold; its invariant (`Queued`): no position twice, and
  what is taken has all it waits for before it (`SortTurns`).  A MKDIR waits only
  for MKDIRs of shorter paths, so all MKDIRs get into the queue (`DirsAreQueued`)
  and what is behind it cannot be one (`SortPutsParentsFirst`).  `coalesce` keeps
  the order of what it leaves (`CoalesceFacts`); so does the Executor, which
  takes the first of the rest (`RestOfPlan`).
* `SyncsConverge`: `Converged`, under `FilesAreNoDirs` and as long as
  `PlainSyncs` holds: a sync that counts (of all drives, scanned, undisturbed)
  plans no rename, and there is no temporary file while it runs.  Both are
  needed, as the table above shows: a rename may take the source of a copy away,
  or make two drives swap names.  Nothing is asked of what came before: versions,
  clocks, tombstones, edits, failures and crashes are arbitrary.  The plan of a path leads every
  drive to one goal (`LeadsTo`): a removal by majority or a source's tombstone
  to no file, any other source to its content; a drive that gets no operation
  has the goal already, since the source's hash is compared and not only its vector
  (`RemovalsLead`, `UpdatesLead`, `PathLeads`).  Sorting and coalescing lose no
  operation on a file (`SortKeepsAll`, `PlanHasAllOps`), as no two are for one
  path of a drive (`OpsAreApart`).  The invariant, `ConvergeInv`, says of what is
  left of a plan that its operations still bring the goal, that none works on
  what another reads, and that every file which is not at its goal has an
  operation left (`Leads`); carrying one out keeps that (`StillLeads`).
* `SyncsFindTheirFiles`: `OrderRespectsDependencies`, under the same conditions:
  what is left of the plan still brings its goal, so each operation finds its
  source as it was scanned, and no file stands where it needs a directory
  (`LeadsIsApplicable`).
* `OnePathConverges`: `Converged` for a single path, with no hypothesis left:
  there is no other name to rename a file to and none for a temporary file
  (`OnePathIsQuiet`).
* `OnePathSettles`: `SyncSettles` for a single path.  A sync that counts leaves it
  gone everywhere (`RemovedIsGone`) or alike everywhere, with the merged vector
  on the targets and an older one on the source, perhaps on others
  (`UpdatedIsAlike`).  So some drive's vector is behind no other's (`Ripe`).  Then no
  drive is in conflict with it, the source has that vector (`TopIsNewest`,
  `TopIsSource`), and whoever has not gets it: afterwards nothing is to be planned
  (`Calm`, `PlanSettles`).  The invariant, `SettleInv`, looks ahead: what is left
  of the plan makes a set of rows that is calm or, in the first round, ripe
  (`Awaits`).  It follows the rows through operations (`StillAwaits`) and the
  scans between the syncs, which may change nothing but times (`ScanAwaits`;
  `SameSource`: times do not decide who the source is).  With several paths
  the argument fails: a resolution does not say which path it is about, and the
  one of another path may make a drive with an older vector the source.

* `VectorsNeverGoBack`: `VectorsOnlyGrow`, as long as `OrderlySyncs` holds: no plan
  renames two files of a drive to one name, and of two drives that have deleted
  a file which a third has, one knows of the third's version.  Both are needed
  (see the table); on the instances of VaultMove and VaultSettle both always
  hold.  The invariant, `PlanCovers`: the vector of every operation left is
  behind no vector of the row it will write, and no two operations write one
  row (`DestinationsApart`).  For a copy or a rename that is since its vector
  is the merge of all rows read (`MergeCoversRows`); for a removal by majority it
  takes the hypothesis, a majority that lacks a drive being two at least
  (`MajorityIsMany`).  However an operation ends, no other row changes
  (`MidwayWrites`).
* `DeletionsPrevail`: `LoneDeletionPrevails`, under `FilesAreNoDirs`, as long as
  `QuietSyncs` holds (no sync, whether it counts or not, plans a rename, and no
  temporary file lies about), and if files are deleted where `DeletesNewest`
  allows it: when drives are in sync, a file is only deleted where its vector is
  behind no other's, its path in no conflict.  That is what VaultDeletion shows to be
  needed: the drive that a sync has copied from keeps its older vector, so its
  tombstone is concurrent with the copies.  The path must be in no conflict,
  since then the vector of a resolution, perhaps another path's, decides who the
  source is.
* `ChangesPrevail`: `LoneChangePrevails`, under the same conditions and
  `ChangesNewest`: an edit too is made where the version is newest, and on
  the first drive or there alone, since a scan advances no clock for an edit and
  `plan_sync` takes the first of equal versions; a file is created where no drive
  has a row for it, since a scan that finds a file under a tombstone advances no
  clock either.  The table above shows what happens otherwise.  A move is a creation and a deletion, so with the syncs that rename it is
  left to VaultMove.
  The invariant follows the change (`Followed`, `Spreads`): each row of the path
  is one from before, or the tombstone, or the created file's; the vectors of the
  former are a chain (`Comparable`), of which the changed drive has the last.  So
  the merge of what a sync reads is a vector of the chain or the tombstone's
  (`MergedIsInChain`, `DeletedOps`, `LiveOps`), the copies that are planned carry
  the source's own vector (`PlannedIsSources`), and no copy goes to the changed
  drive.  With that, scans, operations, syncs of any of the drives, those that
  fail and those that end before their time, keep it (`StepFollows`).  That a sync which counts
  then leaves all drives with the change follows from `ConvergeInv`, since the
  changed drive has it throughout (`FollowedPrevails`).  That the chain is there when
  the user makes the change (`UserFollows`) takes `ScansInv`: after a sync that
  counts, rows and files agree.
* `OnePathChangesPrevail`: both for a single path, where `FilesAreNoDirs` and
  `QuietSyncs` hold.

### Version vectors

* `VectorsAreCausal`: `CompareIsCausality`.  The invariant: the changes of drive
  k known to a version are exactly those numbered 1 to its clock k.  Then
  comparing clocks is comparing sets of changes.
* `NothingForgotten`: `VectorsGrow`, from the type invariant.

### Chunker

The loop of `chunk_buffer` is a fold.  The library's induction theorems need an
operator as a parameter, which the provers here cannot instantiate; `Induction`
does without: a set of natural numbers has a least element (from the library's
`NatLessThanWellFounded`), so a set of counterexamples that has none is empty
(`CountingUp`).  From it follow that functions defined step by step exist, what a
fold over the indices of a sequence computes (`FoldIteration`), and how
flattening goes with appending (`FlattenAppend`).  `LoopTurns` then gives the
states of the loop byte by byte, for any fingerprint.

* `CutsCoverFiles`: `ChunksCoverFile`.  Invariant of the loop (`Kept`): the chunks
  so far are the bytes before the current one's start, in place and of legal
  size, and the current one is smaller than the maximum.
* `CutsAreLocal`: `CutsForgetThePast`.  `Remembers`: the loop has not moved since
  the current chunk's start, nor had it for any chunk before; `Restart`: from such a
  place it goes in step with a loop on the rest as a file of its own.
* `AppendsAreLocal`: `AppendsTransferTheTail`.  The loop on the old file is in step
  with the loop on the new one; what that cuts off afterwards begins no earlier
  than the old file's last chunk (`GoesOn`, `Finishes`).

### Logger, RetryLoop, DriveRegistry, MerkleTree

* `NothingIsOverwritten`: `LogIsComplete`.  The
  strengthening: no file is named for a second to come, and what follows a
  rotation within its second was logged in that second.  So a second rotation
  under one name needs more messages in that second than a file holds, which
  is a count of finite sets (`OverwritingIsBusy`).
* `WaitIsProportional`: `WaitsInProportion`.  All delays so
  far add up to the next one less the first, and the last of them began while
  the lock was held.
* `GivesUpLast`: `GivesUpLate`.  The delay is the first one times a power of two,
  a recursive function whose equations `Induction` gives.
* `DisksStayApart`: `NobodyLeftOut`.  An id was made of a name its disk was first
  scanned under, and stays.
* `MovesAloneAreMissed`: `DiffMissesMovesOnly`, for finitely many paths of any
  depth.  Trees have every node in a directory and no file where one is
  (`TreeOK`), whatever was written and removed; so the recursion of `build_node`
  has a solution, level by level (`HashesExist`).  Of two directories whose hashes
  are equal the entries have the same hashes, each as often
  (`CountingIsMatching`), so by induction on the depth the files below them can be
  paired, each with one of the same content (`EqualHashesMatch`, `PartsMatch`), and
  counting what files and empty directories hold below gives the same.  Where a
  file of one tree reads like a directory with entries of the other (`HoldsList`)
  nothing is promised: equal hashes then pair a file with a directory.  A change that was not reported has
  such a directory above it, or a path that was not searched as a directory: the
  first node on the way down that the other tree lacks (`NewIsFound`).

### Only model-checked

Of Vault: `Converged`, `OrderRespectsDependencies`, `LoneChangePrevails` and
`LoneDeletionPrevails` where syncs rename files or meet temporary files (beyond
`PlainSyncs` and `QuietSyncs`), `SyncSettles` with more than one path, and changes
made where `ChangesNewest` does not allow them.  They hold on
the instances of their runs and not for all constants (see the tables and the
limits above), so a theorem needs hypotheses that are still to be found.
`MismatchIsLogged` with renames; and all liveness (fairness and ENABLED are beyond the prover).  No module has a recursive
operator.

## What is not modelled, and the plan

Not modelled:

* JSON of version vectors (rows keep vectors as they are), texts, exit codes,
  `Config`: reading and writing text, with no state that steps could disturb.
* `BloomFilter`: no command uses it; that it has no false negatives holds by the
  shape of any model of it.
* `ProgressReporter`: output; nothing reads its state.
* `Platform`: calls of the operating system; Vault connects any set of drives.
* The table of Merkle nodes (written, never read), `last_seen`, explicit
  transactions (no command opens one), `Logger::rotation_count`.
* Hidden files, which scans skip, and files that are neither regular files nor
  directories.

`PROJECT.json` has the details for each component.  Next, in this order:

1. `LoneChangePrevails` for moves: the syncs of VaultMove, which rename, when all
   of the change is a move between names that no drive has a row for.
2. `SyncSettles` for several paths, as long as no resolution is about another path
   than the one that is planned.
