------------------------------ MODULE Executor ------------------------------
(***************************************************************************)
(* The Executor: one sync operation at a time is carried out on a target   *)
(* drive as a series of system calls, each of which may be the last one    *)
(* before the process dies or the drive is pulled.  Every file write goes  *)
(* log -> temporary file -> verify -> rename -> manifest -> log complete.  *)
(*                                                                         *)
(* A file's content stands for its SHA-256 hash (compute_file_hash is      *)
(* taken to be injective); Torn is what a partly written or mixed file     *)
(* holds, and is the hash of nothing.  A version vector is a number that   *)
(* tells operations apart: the Executor stores vectors, it never compares  *)
(* them.  Directories, sizes, times and permissions are left out.          *)
(***************************************************************************)
EXTENDS Integers, FiniteSets

CONSTANTS
  Drives,          \* drive ids
  Paths,           \* paths relative to a drive's root
  Contents,        \* what a whole file may hold
  Mounts,          \* mount points the host may give a drive
  None,            \* no file, no manifest row, the empty hash, no operation
  Torn,            \* the content of an unfinished or mixed write
  OpTypes,         \* the operations the planner may hand out
  RecoverOnStart,  \* does a process recover the log before anything else
  Budget           \* bounds on what the environment may do

\* "stuck" and "leftover" are removals that fail without a word: of a file
\* that REMOVE deletes, and of a temporary file.
Spendings == {"op", "edit", "crash", "unplug", "fault", "stuck", "leftover"}

ASSUME ConstantsAssumption ==
  /\ Torn \notin Contents
  /\ None \notin Contents \cup {Torn}
  /\ OpTypes \subseteq {"MKDIR", "COPY", "REMOVE", "RENAME", "RESTORE"}
  /\ RecoverOnStart \in BOOLEAN
  /\ Budget \in [Spendings -> Nat]

\* A row of the files table.
Entry == [hash : Contents \cup {None}, tombstone : BOOLEAN,
          corrupted : BOOLEAN, vv : Nat]

\* A SyncOp.  COPY stands for REPLACE too: both take the same branch.
Op == [type : OpTypes, source : Drives, target : Drives,
       path : Paths, newPath : Paths, vv : Nat]

\* A row of the transaction log that is not complete.
LogRow == [id : Nat, operation : {"WRITE", "DELETE", "RENAME"},
           path : Paths, mount : Mounts]

ASSUME NoneIsNoEntry == None \notin Entry
ASSUME NoneIsNoOp == None \notin Op

VARIABLES
  disk,      \* disk[d][p]: content of the file p on drive d
  tmp,       \* tmp[d][p]: content of p's .caravault.tmp file on drive d
  manifest,  \* manifest[d][p]: p's row in the manifest of drive d
  log,       \* log[d]: the incomplete rows of d's transaction log
  rows,      \* rows[d]: how many log rows were ever inserted on d
  attached,  \* the drives that are plugged in
  mount,     \* mount[d]: where d is, or was last, mounted
  pc,        \* the next call of the process
  op,        \* the operation being executed
  meta,      \* new_meta: the row a write will leave in the target manifest
  result,    \* ExecutionResult of the last operation
  dirty,     \* history: files the user changed since they were last synced
  budget     \* what is left of Budget

storage == <<disk, tmp, manifest, log, rows>>
process == <<pc, op, meta, result>>
environment == <<attached, mount, budget>>
vars == <<storage, process, environment, dirty>>

Present(d, p) == manifest[d][p] # None
Live(d, p) == Present(d, p) /\ ~manifest[d][p].tombstone

-----------------------------------------------------------------------------
(* Bounds and failing calls                                                *)

Spend(what) ==
  /\ budget[what] > 0
  /\ budget' = [budget EXCEPT ![what] = @ - 1]

\* A call on drive d succeeds, or fails: always when the drive is gone, and
\* now and then when it is there (disk full, permission, SQLITE_BUSY).
CallOk(d) == d \in attached /\ UNCHANGED budget
CallFails(d) == \/ d \notin attached /\ UNCHANGED budget
                \/ d \in attached /\ Spend("fault")

-----------------------------------------------------------------------------
(* Helpers                                                                 *)

Goto(step) == pc' = step

Finish(outcome) ==
  /\ pc' = "idle"
  /\ result' = outcome
  /\ op' = None
  /\ meta' = None

\* Fault: the row does not say which path it is about.
LogsNoPath(operation) ==
  /\ rows' = [rows EXCEPT ![op.target] = @ + 1]
  /\ log' = [log EXCEPT ![op.target] = @ \cup {[id |-> rows[op.target] + 1,
                                                operation |-> operation, path |-> None,
                                                mount |-> mount[op.target]]}]

\* ManifestStore::begin_operation on the target drive.
BeginOperation(operation) ==
  LET d == op.target IN
  /\ rows' = [rows EXCEPT ![d] = @ + 1]
  /\ log' = [log EXCEPT ![d] = @ \cup {[id |-> rows[d] + 1,
                                       operation |-> operation,
                                       path |-> op.path,
                                       mount |-> mount[d]]}]

\* ManifestStore::complete_operation for the row this operation inserted.
CompleteOperation ==
  log' = [log EXCEPT ![op.target] = {r \in @ : r.id # rows[op.target]}]

SetRow(d, p, row) == manifest' = [manifest EXCEPT ![d][p] = row]
SetDisk(d, p, c) == disk' = [disk EXCEPT ![d][p] = c]
SetTmp(d, p, c) == tmp' = [tmp EXCEPT ![d][p] = c]

Row(hash, tombstone, corrupted, vv) ==
  [hash |-> hash, tombstone |-> tombstone, corrupted |-> corrupted, vv |-> vv]

WithVector(r, vv) == Row(r.hash, r.tombstone, r.corrupted, vv)
WithCorrupted(r, flag) == Row(r.hash, r.tombstone, flag, r.vv)

-----------------------------------------------------------------------------
(* A drive as the last scan left it: the manifest agrees with the files.   *)

ScannedRows == {Row(hash, tombstone, FALSE, 0) : hash \in Contents, tombstone \in BOOLEAN}

Scanned(file, row) ==
  file = IF row = None THEN None ELSE IF row.tombstone THEN None ELSE row.hash

Init ==
  /\ disk \in [Drives -> [Paths -> Contents \cup {None}]]
  /\ manifest \in [Drives -> [Paths -> {None} \cup ScannedRows]]
  /\ \A d \in Drives, p \in Paths : Scanned(disk[d][p], manifest[d][p])
  /\ tmp = [d \in Drives |-> [p \in Paths |-> None]]
  /\ log = [d \in Drives |-> {}]
  /\ rows = [d \in Drives |-> 0]
  /\ attached = Drives
  /\ mount \in [Drives -> Mounts]
  /\ pc = "idle"
  /\ op = None
  /\ meta = None
  /\ result = "none"
  /\ dirty = {}
  /\ budget = Budget

-----------------------------------------------------------------------------
(* The next operation of the plan.  Its guard is what the planner and the  *)
(* caller of restore_from_replica promise about the manifests; the files   *)
(* themselves may have changed since they were scanned.                    *)

Plausible(o) ==
  CASE o.type = "MKDIR" -> o.source = o.target /\ o.newPath = o.path
    [] o.type = "COPY" ->
         /\ o.source # o.target /\ o.newPath = o.path
         /\ Present(o.source, o.path) => Live(o.source, o.path)
    [] o.type = "REMOVE" ->
         /\ o.source = o.target /\ o.newPath = o.path
         /\ Live(o.target, o.path)
    [] o.type = "RENAME" ->
         /\ o.source = o.target /\ o.newPath # o.path
         /\ Live(o.target, o.path)
         /\ Live(o.target, o.newPath) =>
              manifest[o.target][o.newPath].hash = manifest[o.target][o.path].hash
    [] o.type = "RESTORE" ->
         /\ o.source # o.target /\ o.newPath = o.path
         /\ Live(o.target, o.path) /\ manifest[o.target][o.path].corrupted
         /\ Live(o.source, o.path)
         /\ manifest[o.source][o.path].hash = manifest[o.target][o.path].hash

\* The count of operations left serves as the new version vector: no other
\* operation, and no scanned row, has it.
Issue(type, source, target, path, newPath) ==
  LET o == [type |-> type, source |-> source, target |-> target,
            path |-> path, newPath |-> newPath, vv |-> budget["op"]] IN
  /\ pc = "idle"
  /\ Plausible(o)
  /\ Spend("op")
  /\ op' = o
  /\ result' = "none"
  /\ Goto("start")
  /\ UNCHANGED <<storage, meta, attached, mount, dirty>>

\* Target (or source) drive disconnected or inaccessible.
Refuse ==
  /\ pc = "start"
  /\ op.target \notin attached \/ op.source \notin attached
  /\ Finish("failure")
  /\ UNCHANGED <<storage, environment, dirty>>

Mkdir ==
  /\ pc = "start" /\ op.type = "MKDIR"
  /\ \/ CallOk(op.target) /\ Finish("success")
     \/ CallFails(op.target) /\ Finish("failure")
  /\ UNCHANGED <<storage, attached, mount, dirty>>

-----------------------------------------------------------------------------
(* COPY, REPLACE and restore_from_replica: atomic_write                    *)

\* new_meta: the source's row under the operation's vector, or the target's
\* own row with its corruption cleared.
NewMeta ==
  IF op.type = "COPY"
    THEN WithVector(manifest[op.source][op.path], op.vv)
    ELSE WithCorrupted(manifest[op.target][op.path], FALSE)

WriteVerifySource ==
  /\ pc = "start" /\ op.type \in {"COPY", "RESTORE"}
  /\ {op.source, op.target} \subseteq attached
  /\ IF Present(op.source, op.path)
          /\ disk[op.source][op.path] = NewMeta.hash
       THEN /\ meta' = NewMeta
            /\ Goto("writeBegin")
            /\ UNCHANGED <<op, result>>
       ELSE Finish("failure")
  /\ UNCHANGED <<storage, environment, dirty>>

\* Fault: the write is not logged.
WritesUnlogged ==
  /\ pc = "writeBegin"
  /\ CallOk(op.target) /\ Goto("writeOpen")
  /\ UNCHANGED <<disk, tmp, manifest, log, rows, op, meta, result, attached, mount, dirty>>

WriteBegin ==
  /\ pc = "writeBegin"
  /\ \/ CallOk(op.target) /\ BeginOperation("WRITE") /\ Goto("writeOpen")
        /\ UNCHANGED <<op, meta, result>>
     \/ CallFails(op.target) /\ Finish("failure") /\ UNCHANGED <<log, rows>>
  /\ UNCHANGED <<disk, tmp, manifest, attached, mount, dirty>>

Catch ==
  /\ Goto("catchRemove")
  /\ UNCHANGED tmp

\* Fault: the file is written in place.
WritesInPlace ==
  /\ pc = "writeOpen"
  /\ \/ CallOk(op.target) /\ SetDisk(op.target, op.path, Torn) /\ Goto("writeCopy")
        /\ UNCHANGED tmp
     \/ CallFails(op.target) /\ Catch /\ UNCHANGED disk
  /\ UNCHANGED <<manifest, log, rows, op, meta, result, attached, mount, dirty>>

\* The source is opened; then the temporary file is created, or truncated if
\* an earlier crash left one.
WriteOpen ==
  /\ pc = "writeOpen"
  /\ LET readable == op.source \in attached /\ disk[op.source][op.path] # None IN
     \/ readable /\ CallOk(op.target) /\ SetTmp(op.target, op.path, Torn) /\ Goto("writeCopy")
     \/ readable /\ CallFails(op.target) /\ Catch
     \/ ~readable /\ UNCHANGED budget /\ Catch
  /\ UNCHANGED <<disk, manifest, log, rows, op, meta, result, attached, mount, dirty>>

\* What the rest of copy_file_contents reads: the file, which may have been
\* changed since it was verified, or be changed under the reader, or end early
\* because its drive is gone (a failing read is not an error).
Copied ==
  IF op.source \in attached THEN {disk[op.source][op.path], meta.hash, Torn} \ {None}
                            ELSE {Torn}

WriteCopy ==
  /\ pc = "writeCopy"
  /\ \/ /\ CallOk(op.target)
        /\ \E c \in Copied : SetTmp(op.target, op.path, c)
        /\ Goto("writeVerify")
     \/ CallFails(op.target) /\ Catch
  /\ UNCHANGED <<disk, manifest, log, rows, op, meta, result, attached, mount, dirty>>

\* Fault: the copy is not verified.
TrustsTheCopy ==
  /\ pc = "writeVerify"
  /\ CallOk(op.target)
  /\ Goto("writeRename")
  /\ UNCHANGED <<disk, tmp, manifest, log, rows, op, meta, result, attached, mount, dirty>>

WriteVerify ==
  /\ pc = "writeVerify"
  /\ \/ /\ CallOk(op.target)
        /\ IF tmp[op.target][op.path] = meta.hash
             THEN Goto("writeRename") /\ UNCHANGED tmp
             ELSE Goto("catchRemove") /\ SetTmp(op.target, op.path, None)
     \/ CallFails(op.target) /\ Catch
  /\ UNCHANGED <<disk, manifest, log, rows, op, meta, result, attached, mount, dirty>>

WriteRename ==
  /\ pc = "writeRename"
  /\ \/ /\ CallOk(op.target)
        /\ SetDisk(op.target, op.path, tmp[op.target][op.path])
        /\ SetTmp(op.target, op.path, None)
        /\ dirty' = dirty \ {<<op.target, op.path>>}
        /\ Goto("writeUpsert")
     \/ CallFails(op.target) /\ Catch /\ UNCHANGED <<disk, dirty>>
  /\ UNCHANGED <<manifest, log, rows, op, meta, result, attached, mount>>

\* Fault: a failing upsert is not an error.
IgnoresUpsertFailure ==
  /\ pc = "writeUpsert"
  /\ \/ CallOk(op.target) /\ SetRow(op.target, op.path, meta)
     \/ CallFails(op.target) /\ UNCHANGED manifest
  /\ Goto("complete")
  /\ UNCHANGED <<disk, tmp, log, rows, op, meta, result, attached, mount, dirty>>

WriteUpsert ==
  /\ pc = "writeUpsert"
  /\ \/ CallOk(op.target) /\ SetRow(op.target, op.path, meta) /\ Goto("complete")
        /\ UNCHANGED tmp
     \/ CallFails(op.target) /\ Catch /\ UNCHANGED manifest
  /\ UNCHANGED <<disk, log, rows, op, meta, result, attached, mount, dirty>>

\* Fault: the temporary file stays behind.
LeavesTmp ==
  /\ pc = "catchRemove"
  /\ Goto("catchComplete")
  /\ UNCHANGED <<disk, tmp, manifest, log, rows, op, meta, result, environment, dirty>>

\* fs::remove(tmp, ec) on a drive that is there fails, and nobody looks at ec.
TmpStays(d, p) == tmp[d][p] # None /\ Spend("leftover") /\ UNCHANGED tmp

\* catch (...): fs::remove(tmp, ec), then the log row is completed, and the
\* exception becomes the result.
CatchRemove ==
  /\ pc = "catchRemove"
  /\ \/ CallOk(op.target) /\ SetTmp(op.target, op.path, None)
     \/ op.target \in attached /\ TmpStays(op.target, op.path)
     \/ op.target \notin attached /\ UNCHANGED <<tmp, budget>>
  /\ Goto("catchComplete")
  /\ UNCHANGED <<disk, manifest, log, rows, op, meta, result, attached, mount, dirty>>

CatchComplete ==
  /\ pc = "catchComplete"
  /\ \/ CallOk(op.target) /\ CompleteOperation
     \/ CallFails(op.target) /\ UNCHANGED log
  /\ Finish("failure")
  /\ UNCHANGED <<disk, tmp, manifest, rows, attached, mount, dirty>>

-----------------------------------------------------------------------------
(* REMOVE                                                                  *)

RemoveBegin ==
  /\ pc = "start" /\ op.type = "REMOVE"
  /\ \/ CallOk(op.target) /\ BeginOperation("DELETE") /\ Goto("removeFile")
        /\ UNCHANGED <<op, meta, result>>
     \/ CallFails(op.target) /\ Finish("failure") /\ UNCHANGED <<log, rows>>
  /\ UNCHANGED <<disk, tmp, manifest, attached, mount, dirty>>

\* fs::remove(target_path, ec): the error code is not looked at.
RemoveFile ==
  /\ pc = "removeFile"
  /\ \/ /\ CallOk(op.target)
        /\ SetDisk(op.target, op.path, None)
        /\ dirty' = dirty \ {<<op.target, op.path>>}
     \/ op.target \notin attached /\ UNCHANGED <<disk, dirty, budget>>
     \/ op.target \in attached /\ Spend("stuck") /\ UNCHANGED <<disk, dirty>>
  /\ Goto("removeUpsert")
  /\ UNCHANGED <<tmp, manifest, log, rows, op, meta, result, attached, mount>>

Tombstone(d, p) ==
  IF Present(d, p)
    THEN Row(manifest[d][p].hash, TRUE, manifest[d][p].corrupted, op.vv)
    ELSE Row(None, TRUE, FALSE, op.vv)

RemoveUpsert ==
  /\ pc = "removeUpsert"
  /\ \/ /\ CallOk(op.target)
        /\ SetRow(op.target, op.path, Tombstone(op.target, op.path))
        /\ Goto("complete")
        /\ UNCHANGED <<op, meta, result>>
     \/ CallFails(op.target) /\ Finish("failure") /\ UNCHANGED manifest
  /\ UNCHANGED <<disk, tmp, log, rows, attached, mount, dirty>>

-----------------------------------------------------------------------------
(* RENAME                                                                  *)

\* Fault: the rename is not logged.
RenamesUnlogged ==
  /\ pc = "start" /\ op.type = "RENAME"
  /\ CallOk(op.target) /\ Goto("renameFile")
  /\ UNCHANGED <<disk, tmp, manifest, log, rows, op, meta, result, attached, mount, dirty>>

RenameBegin ==
  /\ pc = "start" /\ op.type = "RENAME"
  /\ \/ CallOk(op.target) /\ BeginOperation("RENAME") /\ Goto("renameFile")
        /\ UNCHANGED <<op, meta, result>>
     \/ CallFails(op.target) /\ Finish("failure") /\ UNCHANGED <<log, rows>>
  /\ UNCHANGED <<disk, tmp, manifest, attached, mount, dirty>>

\* create_directories and fs::rename; a failure of either completes the log
\* row and returns.  A file the user changed stays so under its new name.
RenameFile ==
  /\ pc = "renameFile"
  /\ LET d == op.target
         old == <<d, op.path>>
         new == <<d, op.newPath>> IN
     \/ /\ CallOk(d) /\ disk[d][op.path] # None
        /\ disk' = [disk EXCEPT ![d] = [@ EXCEPT ![op.path] = None,
                                                ![op.newPath] = disk[d][op.path]]]
        /\ dirty' = (dirty \ {old, new}) \cup IF old \in dirty THEN {new} ELSE {}
        /\ Goto("renameDelete")
     \/ /\ \/ CallFails(d)
           \/ d \in attached /\ disk[d][op.path] = None /\ UNCHANGED budget
        /\ Goto("renameFailed")
        /\ UNCHANGED <<disk, dirty>>
  /\ UNCHANGED <<tmp, manifest, log, rows, op, meta, result, attached, mount>>

RenameFailed ==
  /\ pc = "renameFailed"
  /\ \/ CallOk(op.target) /\ CompleteOperation
     \/ CallFails(op.target) /\ UNCHANGED log
  /\ Finish("failure")
  /\ UNCHANGED <<disk, tmp, manifest, rows, attached, mount, dirty>>

\* Fault: the old name keeps its row.
KeepsOldRow ==
  /\ pc = "renameDelete"
  /\ CallOk(op.target)
  /\ IF Present(op.target, op.path)
       THEN meta' = WithVector(manifest[op.target][op.path], op.vv) /\ Goto("renameUpsert")
       ELSE meta' = meta /\ Goto("complete")
  /\ UNCHANGED <<storage, op, result, attached, mount, dirty>>

\* get_file and delete_file of the old path; without a row there is nothing
\* to record under the new one.
RenameDelete ==
  /\ pc = "renameDelete"
  /\ LET existing == manifest[op.target][op.path] IN
     \/ /\ CallOk(op.target)
        /\ SetRow(op.target, op.path, None)
        /\ IF existing # None
             THEN meta' = WithVector(existing, op.vv) /\ Goto("renameUpsert")
             ELSE meta' = meta /\ Goto("complete")
        /\ UNCHANGED <<op, result>>
     \/ CallFails(op.target) /\ Finish("failure") /\ UNCHANGED manifest
  /\ UNCHANGED <<disk, tmp, log, rows, attached, mount, dirty>>

RenameUpsert ==
  /\ pc = "renameUpsert"
  /\ \/ /\ CallOk(op.target)
        /\ SetRow(op.target, op.newPath, meta)
        /\ Goto("complete")
        /\ UNCHANGED <<op, meta, result>>
     \/ CallFails(op.target) /\ Finish("failure") /\ UNCHANGED manifest
  /\ UNCHANGED <<disk, tmp, log, rows, attached, mount, dirty>>

-----------------------------------------------------------------------------
\* complete_operation, the last call of every operation.  Inside atomic_write
\* a failure is caught there; elsewhere it only reaches execute.
Complete ==
  /\ pc = "complete"
  /\ \/ CallOk(op.target) /\ CompleteOperation /\ Finish("success")
     \/ /\ CallFails(op.target) /\ UNCHANGED log
        /\ IF op.type \in {"COPY", "RESTORE"}
             THEN Goto("catchRemove") /\ UNCHANGED <<op, meta, result>>
             ELSE Finish("failure")
  /\ UNCHANGED <<disk, tmp, manifest, rows, attached, mount, dirty>>

\* read_file_verified on a live row: a mismatch marks the row corrupted.
VerifyFile(d, p) ==
  /\ pc = "idle" /\ d \in attached
  /\ Live(d, p) /\ disk[d][p] # manifest[d][p].hash
  /\ SetRow(d, p, WithCorrupted(manifest[d][p], TRUE))
  /\ UNCHANGED <<disk, tmp, log, rows, process, environment, dirty>>

-----------------------------------------------------------------------------
(* Start, end and death of a process                                       *)

Start ==
  /\ pc = "down"
  /\ Goto(IF RecoverOnStart THEN "recover" ELSE "idle")
  /\ UNCHANGED <<storage, op, meta, result, environment, dirty>>

Exit ==
  /\ pc = "idle"
  /\ Goto("down") /\ result' = "none"
  /\ UNCHANGED <<storage, op, meta, environment, dirty>>

Crash ==
  /\ pc \notin {"idle", "down"}
  /\ Spend("crash")
  /\ Goto("down") /\ result' = "none" /\ op' = None /\ meta' = None
  /\ UNCHANGED <<storage, attached, mount, dirty>>

\* recover_incomplete_operations works through a drive's log oldest row first.
OldestRow(d, r) == r \in log[d] /\ \A s \in log[d] : r.id <= s.id

\* The row names the temporary file by its absolute path at the time.
HasTmp(d, r) ==
  /\ r.operation = "WRITE" /\ r.mount = mount[d]
  /\ tmp[d][r.path] # None

\* Fault: recovery renames whatever it finds.
AnyTmpIsValid(d, p) == Present(d, p)

TmpIsValid(d, p) == Present(d, p) /\ manifest[d][p].hash = tmp[d][p]

\* A temporary file that has the hash of the manifest's row is renamed, any
\* other is removed; so is one that cannot be renamed.  (Where the removal
\* fails, RecoverComplete forgets the file.)
RecoverFile(d) ==
  /\ pc = "recover" /\ d \in attached
  /\ \E r \in log[d] :
       /\ OldestRow(d, r) /\ HasTmp(d, r)
       /\ SetTmp(d, r.path, None)
       /\ \/ /\ TmpIsValid(d, r.path)
             /\ SetDisk(d, r.path, tmp[d][r.path])
             /\ dirty' = dirty \ {<<d, r.path>>}
             /\ UNCHANGED budget
          \/ /\ IF TmpIsValid(d, r.path) THEN Spend("fault") ELSE UNCHANGED budget
             /\ UNCHANGED <<disk, dirty>>
  /\ UNCHANGED <<manifest, log, rows, process, attached, mount>>

\* Fault: the row is completed before its temporary file is looked for.
ForgetsTmp(d) ==
  /\ pc = "recover" /\ d \in attached
  /\ \E r \in log[d] :
       OldestRow(d, r) /\ log' = [log EXCEPT ![d] = @ \ {r}]
  /\ UNCHANGED <<disk, tmp, manifest, rows, process, environment, dirty>>

\* The row is completed when its temporary file is gone, and just so when the
\* file could not be removed (nor renamed, if it was valid).
RecoverComplete(d) ==
  /\ pc = "recover" /\ d \in attached
  /\ \E r \in log[d] :
       /\ OldestRow(d, r)
       /\ \/ ~HasTmp(d, r) /\ UNCHANGED <<tmp, budget>>
          \/ HasTmp(d, r) /\ TmpStays(d, r.path)
       /\ log' = [log EXCEPT ![d] = @ \ {r}]
  /\ UNCHANGED <<disk, manifest, rows, process, attached, mount, dirty>>

\* Fault: the log is left as it is.
SkipsRecovery ==
  /\ pc = "recover" /\ Goto("idle")
  /\ UNCHANGED <<storage, op, meta, result, environment, dirty>>

RecoverDone ==
  /\ pc = "recover"
  /\ \A d \in attached : log[d] = {}
  /\ Goto("idle")
  /\ UNCHANGED <<storage, op, meta, result, environment, dirty>>

-----------------------------------------------------------------------------
(* The user and the drives                                                 *)

UserEdit(d, p, c) ==
  /\ d \in attached /\ disk[d][p] # c
  /\ Spend("edit")
  /\ SetDisk(d, p, c)
  /\ dirty' = dirty \cup {<<d, p>>}
  /\ UNCHANGED <<tmp, manifest, log, rows, process, attached, mount>>

Unplug(d) ==
  /\ d \in attached
  /\ Spend("unplug")
  /\ attached' = attached \ {d}
  /\ UNCHANGED <<storage, process, mount, dirty>>

\* The manifest handle of a pulled drive stays dead until the next process, so
\* for a running process the drive does not come back.
Plug(d) ==
  /\ pc = "down" /\ d \notin attached
  /\ attached' = attached \cup {d}
  /\ \E m \in Mounts : mount' = [mount EXCEPT ![d] = m]
  /\ UNCHANGED <<storage, process, budget, dirty>>

-----------------------------------------------------------------------------
Execute ==
  \/ Refuse \/ Mkdir
  \/ WriteVerifySource \/ WriteBegin \/ WriteOpen \/ WriteCopy \/ WriteVerify
  \/ WriteRename \/ WriteUpsert \/ CatchRemove \/ CatchComplete
  \/ RemoveBegin \/ RemoveFile \/ RemoveUpsert
  \/ RenameBegin \/ RenameFile \/ RenameFailed \/ RenameDelete \/ RenameUpsert
  \/ Complete

Recover == RecoverDone \/ \E d \in Drives : RecoverFile(d) \/ RecoverComplete(d)

Lifecycle == Start \/ Exit \/ Crash

User ==
  \/ \E d \in Drives, p \in Paths, c \in Contents \cup {None} : UserEdit(d, p, c)
  \/ \E d \in Drives : Unplug(d) \/ Plug(d)

Caller ==
  \/ \E type \in OpTypes, source, target \in Drives, path, newPath \in Paths :
       Issue(type, source, target, path, newPath)
  \/ \E d \in Drives, p \in Paths : VerifyFile(d, p)

Next == Execute \/ Recover \/ Lifecycle \/ User \/ Caller

Spec == Init /\ [][Next]_vars

\* A process that runs keeps running, ends when it has nothing left to do,
\* and the user starts the tool again.
FairSpec == Spec /\ WF_vars(Execute) /\ WF_vars(Recover) /\ WF_vars(Start \/ Exit)

-----------------------------------------------------------------------------
(* Properties                                                              *)

Steps == {"down", "idle", "recover", "start", "complete",
          "writeBegin", "writeOpen", "writeCopy", "writeVerify", "writeRename",
          "writeUpsert", "catchRemove", "catchComplete",
          "removeFile", "removeUpsert",
          "renameFile", "renameFailed", "renameDelete", "renameUpsert"}

\* Types of the stored and of the process state.
TypeOK ==
  /\ disk \in [Drives -> [Paths -> Contents \cup {None, Torn}]]
  /\ tmp \in [Drives -> [Paths -> Contents \cup {None, Torn}]]
  /\ manifest \in [Drives -> [Paths -> Entry \cup {None}]]
  /\ log \in [Drives -> SUBSET LogRow]
  /\ rows \in [Drives -> Nat]
  /\ attached \subseteq Drives
  /\ mount \in [Drives -> Mounts]
  /\ pc \in Steps
  /\ op \in Op \cup {None}
  /\ meta \in Entry \cup {None}
  /\ result \in {"none", "success", "failure"}
  /\ dirty \subseteq Drives \X Paths
  /\ budget \in [Spendings -> Nat]

\* A file under its own name is never half written, whatever fails and
\* whenever the process dies: only a verified temporary file gets the name
\* (execute, restore_from_replica and recovery alike).
NeverTorn == \A d \in Drives, p \in Paths : disk[d][p] # Torn

\* The temporary files no incomplete WRITE row speaks for: nobody who reads the
\* log can find them.
Forgotten ==
  {f \in Drives \X Paths :
     /\ tmp[f[1]][f[2]] # None
     /\ \A r \in log[f[1]] : ~(r.operation = "WRITE" /\ r.path = f[2])}

\* Write-ahead: crashes, pulled drives and calls that report their failure
\* never make the log forget a temporary file; a removal that fails without a
\* word does, and then only the file it was to remove.
TmpIsLogged == Cardinality(Forgotten) <= Budget["leftover"] - budget["leftover"]

Disagrees(d, p) ==
  IF Live(d, p) THEN disk[d][p] # manifest[d][p].hash ELSE disk[d][p] # None

\* The log is an honest witness: wherever manifest and files disagree, and it
\* is not the user's doing, there is an incomplete row for that path, or for
\* a rename on that drive (which logs the old path only).
MismatchIsLogged ==
  \A d \in Drives, p \in Paths :
    Disagrees(d, p) /\ <<d, p>> \notin dirty =>
      \E r \in log[d] : r.path = p \/ r.operation = "RENAME"

\* What a successful result promises, when it is given: the drive holds what
\* the manifest says under the operation's version vector.  A rename moves the
\* file and its row as they are.
Delivered ==
  LET d == op.target
      After(p) == manifest'[d][p]
      Holds(p) == /\ After(p) # None /\ ~After(p).tombstone
                  /\ disk'[d][p] = After(p).hash \/ <<d, p>> \in dirty
      Kept(p) == /\ After(p) # None /\ ~After(p).tombstone
                 /\ disk'[d][p] # None \/ <<d, p>> \in dirty
      Gone(p) == disk'[d][p] = None \/ <<d, p>> \in dirty
  IN CASE op.type = "MKDIR" -> TRUE
       [] op.type = "COPY" -> Holds(op.path) /\ After(op.path).vv = op.vv
       [] op.type = "RESTORE" -> Holds(op.path) /\ ~After(op.path).corrupted
       [] op.type = "REMOVE" ->
            Gone(op.path) /\ After(op.path).tombstone /\ After(op.path).vv = op.vv
       [] op.type = "RENAME" ->
            /\ Gone(op.path) /\ After(op.path) = None
            /\ Kept(op.newPath) /\ After(op.newPath).vv = op.vv

SuccessIsDelivered == [][result' = "success" /\ op # None => Delivered]_vars

\* New content only ever appears under a file's name, the user's own edits
\* aside, when a manifest vouches for it: the row being written, the row a
\* rename carries over, or the row recovery compares with.  A rename also moves
\* what an earlier crash left under the old name.
ContentIsVouchedFor ==
  [][\A d \in Drives, p \in Paths :
       disk'[d][p] \notin {disk[d][p], None} /\ <<d, p>> \notin dirty' =>
         \/ meta # None /\ disk'[d][p] = meta.hash
         \/ op # None /\ op.type = "RENAME" /\ disk'[d][p] = disk[d][op.path]
         \/ \E q \in Paths : Present(d, q) /\ disk'[d][p] = manifest[d][q].hash]_vars

\* A row is marked corrupted only when the file under it does not have the
\* row's hash ("True if hash mismatch detected on read").
Flagged(row) == row # None /\ row.corrupted

CorruptedIsDetected ==
  [][\A d \in Drives, p \in Paths :
       Flagged(manifest'[d][p]) /\ ~Flagged(manifest[d][p]) =>
         disk[d][p] # manifest'[d][p].hash]_vars

\* Every row of the log of a drive that stays is completed in the end.
LogDrains ==
  \A d \in Drives : log[d] # {} ~> (log[d] = {} \/ d \notin attached)

=============================================================================
