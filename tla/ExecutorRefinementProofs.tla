----------------------- MODULE ExecutorRefinementProofs -----------------------
(* Executor implements JournaledStore, for every set of drives, paths and  *)
(* contents and every budget of crashes, pulled drives and failing calls.  *)
EXTENDS ExecutorRefinement, ExecutorProofs

\* What the steps of the refinement rest on.
RefinementInv == TypeInv /\ LogOk /\ Verified /\ NothingStuck

-----------------------------------------------------------------------------
(* The journal                                                             *)

\* Entering a row into the log enters it into the journal.
LEMMA JournalGrows ==
  ASSUME log \in [Drives -> SUBSET LogRow], NEW d \in Drives, NEW r,
         log' = [log EXCEPT ![d] = @ \cup {r}]
  PROVE  Journal(log)' = [Journal(log) EXCEPT ![d] = @ \cup {Logging(r)}]
<1>1. ASSUME NEW e \in Drives
      PROVE  Journal(log')[e] = [Journal(log) EXCEPT ![d] = @ \cup {Logging(r)}][e]
  <2>1. CASE e = d
    BY <2>1 DEF Journal
  <2>2. CASE e # d
    BY <2>2 DEF Journal
  <2> QED
    BY <2>1, <2>2
<1> QED
  BY <1>1 DEF Journal

\* Where ids are unique, striking a row strikes its journal entry and no other.
LEMMA JournalShrinks ==
  ASSUME log \in [Drives -> SUBSET LogRow], NEW d \in Drives, NEW r \in log[d],
         \A s \in log[d] : s.id = r.id => s = r,
         log' = [log EXCEPT ![d] = @ \ {r}]
  PROVE  Journal(log)' = [Journal(log) EXCEPT ![d] = @ \ {Logging(r)}]
<1>1. \A s \in log[d] : Logging(s) = Logging(r) => s = r
  BY DEF Logging
<1>2. ASSUME NEW e \in Drives
      PROVE  Journal(log')[e] = [Journal(log) EXCEPT ![d] = @ \ {Logging(r)}][e]
  <2>1. CASE e = d
    BY <1>1, <2>1 DEF Journal
  <2>2. CASE e # d
    BY <2>2 DEF Journal
  <2> QED
    BY <2>1, <2>2
<1> QED
  BY <1>2 DEF Journal

\* An operation without a row has no entry to strike.
LEMMA NothingToStrike ==
  ASSUME log \in [Drives -> SUBSET LogRow], NEW d \in Drives, NEW e,
         \A r \in log[d] : Logging(r) # e
  PROVE  Journal(log) = [Journal(log) EXCEPT ![d] = @ \ {e}]
<1>1. Journal(log)[d] = Journal(log)[d] \ {e}
  BY DEF Journal
<1> QED
  BY <1>1 DEF Journal

-----------------------------------------------------------------------------
(* The mapped operation                                                    *)

\* An operation of the store is a job with the fields of the Executor's.
LEMMA JobTypes ==
  ASSUME NEW o \in Op, NEW id \in Nat, NEW m \in Entry \cup {None}
  PROVE  LET j == JobOf(o, id, m) IN
         /\ j \in Store!Job /\ j # None
         /\ j.operation = Operation(o) /\ j.id = id /\ j.drive = o.target /\ j.path = o.path
         /\ j.newPath = o.newPath /\ j.vv = o.vv /\ j.row = m
<1>1. /\ o.type \in OpTypes /\ o.target \in Drives /\ o.path \in Paths
      /\ o.newPath \in Paths /\ o.vv \in Nat
  BY DEF Op
<1>2. Operation(o) \in {"WRITE", "DELETE", "RENAME", "MKDIR"}
  BY <1>1, ConstantsAssumption DEF Operation
<1>3. m \in Store!Row \cup {None}
  BY DEF Entry, Store!Row
<1> HIDE DEF Operation
<1> QED
  BY <1>1, <1>2, <1>3, NoneIsNoJob DEF JobOf, Store!Job

\* Between operations the store has none.
LEMMA NoJob ==
  /\ ~Begun => JobMapped = None /\ StageMapped = "none"
  /\ ~Begun' => JobMapped' = None /\ StageMapped' = "none"
  BY DEF JobMapped, StageMapped

\* How far the operation has come, as the program counter tells.
LEMMA Stages ==
  /\ Begun /\ (pc \in GivenUp \/ op.target \notin attached) => StageMapped = "abandoned"
  /\ Begun /\ op.target \in attached =>
       /\ pc \in BeforeTheFiles => StageMapped = "begun"
       /\ pc \in BeforeTheRows => StageMapped = "moved"
       /\ pc = "renameUpsert" => StageMapped = "unlisted"
       /\ pc \in {"complete", "start"} => StageMapped = "recorded"
  BY DEF StageMapped, GivenUp, BeforeTheFiles, BeforeTheRows

LEMMA NextStages ==
  /\ Begun' /\ (pc' \in GivenUp \/ op'.target \notin attached') => StageMapped' = "abandoned"
  /\ Begun' /\ op'.target \in attached' =>
       /\ pc' \in BeforeTheFiles => StageMapped' = "begun"
       /\ pc' \in BeforeTheRows => StageMapped' = "moved"
       /\ pc' = "renameUpsert" => StageMapped' = "unlisted"
       /\ pc' \in {"complete", "start"} => StageMapped' = "recorded"
  BY DEF StageMapped, GivenUp, BeforeTheFiles, BeforeTheRows

\* The operation that the store sees, in a state and in the next.
LEMMA RunningJob ==
  ASSUME RefinementInv, Begun
  PROVE  /\ JobMapped = JobOf(op, rows[op.target], meta) /\ JobMapped # None
         /\ JobMapped.operation = Operation(op) /\ JobMapped.id = rows[op.target]
         /\ JobMapped.drive = op.target /\ JobMapped.path = op.path
         /\ JobMapped.newPath = op.newPath /\ JobMapped.vv = op.vv /\ JobMapped.row = meta
         /\ op \in Op /\ op.target \in Drives /\ op.path \in Paths /\ op.newPath \in Paths
         /\ op.vv \in Nat /\ rows[op.target] \in Nat /\ meta \in Entry \cup {None}
<1>1. pc \notin {"idle", "down", "recover"}
  BY DEF Begun, BeforeTheFiles, BeforeTheRows, GivenUp
<1>2. op \in Op /\ op.target \in Drives /\ op.path \in Paths /\ op.newPath \in Paths /\ op.vv \in Nat
  BY <1>1, RunningOp DEF RefinementInv
<1>3. rows[op.target] \in Nat /\ meta \in Entry \cup {None}
  BY <1>2 DEF RefinementInv, TypeInv, TypeOK
<1> QED
  BY <1>2, <1>3, JobTypes DEF JobMapped

\* The columns that a rename and a failed read change.
LEMMA RowUpdates ==
  ASSUME NEW r \in Entry, NEW vv, NEW flag
  PROVE  /\ WithVector(r, vv) = [r EXCEPT !.vv = vv]
         /\ WithCorrupted(r, flag) = [r EXCEPT !.corrupted = flag]
<1>1. r = [hash |-> r.hash, tombstone |-> r.tombstone,
           corrupted |-> r.corrupted, vv |-> r.vv]
  BY DEF Entry
<1>2. WithVector(r, vv) = [r EXCEPT !.vv = vv]
  BY <1>1 DEF WithVector, Row
<1>3. WithCorrupted(r, flag) = [r EXCEPT !.corrupted = flag]
  BY <1>1 DEF WithCorrupted, Row
<1> QED
  BY <1>2, <1>3

-----------------------------------------------------------------------------
(* What the steps have in common                                           *)

\* A step of the process that the store does not see, or the end of what it
\* will see of an operation.
LEMMA HiddenStep ==
  ASSUME RefinementInv, Begun, Begun',
         UNCHANGED <<disk, manifest, log, rows, op, meta, result, dirty>>,
         StageMapped' \in {StageMapped, "abandoned"}
  PROVE  [Store!Next]_Store!vars
<1>1. JobMapped' = JobMapped /\ JobMapped # None
  BY RunningJob DEF JobMapped
<1>2. CASE StageMapped' = StageMapped
  BY <1>1, <1>2 DEF Store!vars
<1>3. CASE StageMapped # "abandoned" /\ StageMapped' = "abandoned"
  BY <1>1, <1>3 DEF Store!Next, Store!GiveUp, Store!drives
<1> QED
  BY <1>2, <1>3

\* Between operations: a refusal, or nothing.
LEMMA AnswerStep ==
  ASSUME ~Begun, ~Begun', UNCHANGED <<disk, manifest, log, dirty>>,
         result' \in {result, "none", "failure"}
  PROVE  [Store!Next]_Store!vars
<1>1. JobMapped = None /\ JobMapped' = None /\ StageMapped' = StageMapped
  BY NoJob
<1>2. CASE result' = result
  BY <1>1, <1>2 DEF Store!vars
<1>3. CASE result' \in {"none", "failure"}
  BY <1>1, <1>3 DEF Store!Next, Store!Answer, Store!drives
<1> QED
  BY <1>2, <1>3

\* complete_operation strikes the entry of the running operation.
LEMMA StrikeStep ==
  ASSUME RefinementInv, Begun, pc # "start", CompleteOperation
  PROVE  Store!Strike(JobMapped)
<1> DEFINE d == op.target
<1>1. /\ d \in Drives /\ JobMapped.drive = d /\ JobMapped.id = rows[d]
      /\ JobMapped.operation = Operation(op) /\ JobMapped.path = op.path
  BY RunningJob
<1>2. log \in [Drives -> SUBSET LogRow]
  BY DEF RefinementInv, TypeInv, TypeOK
<1>3. PICK mine \in log[d] :
        mine.id = rows[d] /\ mine.operation = OperationName /\ mine.path = op.path
  BY DEF RefinementInv, LogOk, LogInv, Begun, BeforeTheFiles, BeforeTheRows, GivenUp
<1>4. \A s \in log[d] : s.id = mine.id => s = mine
  BY <1>1, <1>3 DEF RefinementInv, LogOk, LogInv
<1>5. log' = [log EXCEPT ![d] = @ \ {mine}]
  <2>1. {r \in log[d] : r.id # rows[d]} = log[d] \ {mine}
    BY <1>3, <1>4
  <2> QED
    BY <2>1 DEF CompleteOperation
<1>6. Operation(op) = OperationName
  <2>1. op.type \in OpTypes /\ op.type # "MKDIR"
    BY <1>1, RunningJob
       DEF Op, RefinementInv, TypeInv, ProcessInv, WriteSteps, RemoveSteps, RenameSteps,
           Begun, BeforeTheFiles, BeforeTheRows, GivenUp
  <2> QED
    BY <2>1, ConstantsAssumption DEF Operation, OperationName
<1>7. Store!EntryOf(JobMapped) = Logging(mine)
  BY <1>1, <1>3, <1>6 DEF Store!EntryOf, Logging
<1>8. Journal(log)' = [Journal(log) EXCEPT ![d] = @ \ {Logging(mine)}]
  BY <1>1, <1>2, <1>3, <1>4, <1>5, JournalShrinks
<1> QED
  BY <1>1, <1>7, <1>8 DEF Store!Strike

\* An operation fails, its row completed or not.
LEMMA FailStep ==
  ASSUME RefinementInv, Begun, ~Begun', result' = "failure",
         UNCHANGED <<disk, manifest, dirty>>,
         log' = log \/ (CompleteOperation /\ pc # "start")
  PROVE  Store!Next
<1>1. JobMapped # None /\ JobMapped' = None /\ StageMapped' = "none"
  BY RunningJob, NoJob
<1>2. Store!Strike(JobMapped) \/ Journal(log)' = Journal(log)
  BY StrikeStep
<1> QED
  BY <1>1, <1>2 DEF Store!Next, Store!Fail

\* begin_operation enters the operation into the journal.
LEMMA BeginsStep ==
  ASSUME RefinementInv, pc \in {"start", "writeBegin"}, ~Begun,
         op.target \in attached, BeginOperation(Operation(op)), Operation(op) # "MKDIR",
         pc' \in BeforeTheFiles, UNCHANGED <<disk, manifest, op, meta, dirty, attached>>,
         UNCHANGED result
  PROVE  Store!Next
<1> DEFINE d == op.target
           id == rows[d] + 1
           new == [id |-> id, operation |-> Operation(op),
                   path |-> op.path, mount |-> mount[d]]
<1>1. op \in Op /\ d \in Drives /\ result = "none"
  BY RunningOp DEF RefinementInv, TypeInv, ProcessInv
<1>2. /\ rows \in [Drives -> Nat] /\ rows[d] \in Nat /\ id \in Nat
      /\ log \in [Drives -> SUBSET LogRow] /\ meta \in Entry \cup {None}
  BY <1>1 DEF RefinementInv, TypeInv, TypeOK
<1>3. log' = [log EXCEPT ![d] = @ \cup {new}] /\ rows'[d] = id
  BY <1>1, <1>2 DEF BeginOperation
<1>4. \A e \in Journal(log)[d] : e.id < id
  <2>1. \A r \in log[d] : r.id \in Nat /\ r.id <= rows[d]
    BY <1>1, <1>2 DEF RefinementInv, LogOk, LogInv, LogRow
  <2> QED
    BY <1>1, <1>2, <2>1 DEF Journal, Logging
<1> HIDE DEF id
<1>5. JobMapped = None /\ Begun' /\ JobMapped' = JobOf(op, id, meta)
  BY <1>3, NoJob DEF Begun, JobMapped
<1>6. /\ JobMapped' \in Store!Job /\ JobMapped'.drive = d /\ JobMapped'.id = id
      /\ JobMapped'.operation = Operation(op) /\ JobMapped'.path = op.path
  BY <1>1, <1>2, <1>5, JobTypes
<1>7. Store!EntryOf(JobMapped') = Logging(new)
  BY <1>6 DEF Store!EntryOf, Logging
<1> HIDE DEF new
<1>8. Journal(log)' = [Journal(log) EXCEPT ![d] = @ \cup {Logging(new)}]
  BY <1>1, <1>2, <1>3, JournalGrows
<1>9. StageMapped' = "begun"
  BY <1>5, NextStages
<1> QED
  BY <1>1, <1>4, <1>5, <1>6, <1>7, <1>8, <1>9 DEF Store!Next, Store!Begin

-----------------------------------------------------------------------------
(* One lemma for each part of Next                                         *)

\* A write: its checks and its copying are hidden, the rename moves the file,
\* the upsert records it.
LEMMA WriteRefines ==
  ASSUME RefinementInv,
         \/ WriteVerifySource \/ WriteBegin \/ WriteOpen \/ WriteCopy \/ WriteVerify
         \/ WriteRename \/ WriteUpsert \/ CatchRemove \/ CatchComplete
  PROVE  [Store!Next]_Store!vars
<1> USE DEF Goto, Finish, Catch, Begun, BeforeTheFiles, BeforeTheRows, GivenUp
<1>0. TypeInv /\ Verified
  BY DEF RefinementInv
<1>1. CASE WriteVerifySource
  BY <1>1, AnswerStep DEF WriteVerifySource, storage, environment
<1>2. CASE WriteBegin
  <2>1. Operation(op) = "WRITE"
    BY <1>0, <1>2 DEF WriteBegin, TypeInv, ProcessInv, WriteSteps, Operation
  <2>2. CASE CallOk(op.target) /\ BeginOperation("WRITE") /\ pc' = "writeOpen"
             /\ UNCHANGED <<op, meta, result>>
    BY <1>2, <2>1, <2>2, BeginsStep DEF WriteBegin, CallOk
  <2> QED
    BY <1>2, <2>2, AnswerStep DEF WriteBegin
<1>3. CASE WriteOpen \/ WriteCopy \/ WriteVerify \/ CatchRemove
  <2>1. /\ Begun /\ Begun' /\ UNCHANGED <<disk, manifest, log, rows, op, meta, result, dirty, attached>>
        /\ pc' \in BeforeTheFiles \cup GivenUp
        /\ pc \in GivenUp => pc' \in GivenUp
        /\ pc \notin GivenUp => pc \in BeforeTheFiles
    BY <1>3 DEF WriteOpen, WriteCopy, WriteVerify, CatchRemove, environment
  <2>2. StageMapped' \in {StageMapped, "abandoned"}
    BY <2>1, Stages, NextStages
  <2> QED
    BY <2>1, <2>2, HiddenStep
<1>4. CASE WriteRename
  <2>1. Begun /\ Begun' /\ pc = "writeRename" /\ UNCHANGED <<op, meta, attached>>
    BY <1>4 DEF WriteRename
  <2>2. CASE pc' = "catchRemove" /\ UNCHANGED <<disk, dirty>>
    <3>1. StageMapped' = "abandoned"
      BY <2>1, <2>2, NextStages
    <3> QED
      BY <1>4, <2>1, <2>2, <3>1, HiddenStep DEF WriteRename
  <2>3. CASE /\ CallOk(op.target) /\ pc' = "writeUpsert"
             /\ SetDisk(op.target, op.path, tmp[op.target][op.path])
             /\ dirty' = dirty \ {<<op.target, op.path>>}
    <3>1. StageMapped = "begun" /\ StageMapped' = "moved"
      BY <2>1, <2>3, Stages, NextStages DEF CallOk
    <3>2. tmp[op.target][op.path] = meta.hash /\ op.type \in {"COPY", "RESTORE"}
      BY <1>0, <2>1 DEF Verified, TypeInv, ProcessInv, WriteSteps
    <3>3. /\ JobMapped.operation = "WRITE" /\ JobMapped.drive = op.target
          /\ JobMapped.path = op.path /\ JobMapped.row = meta
      BY <2>1, <3>2, RunningJob DEF Operation
    <3>4. JobMapped' = JobMapped
      BY <1>4, <2>1 DEF WriteRename, JobMapped
    <3> QED
      BY <1>4, <2>3, <3>1, <3>2, <3>3, <3>4 DEF WriteRename, SetDisk, Store!Next, Store!Move
  <2> QED
    BY <1>4, <2>2, <2>3 DEF WriteRename
<1>5. CASE WriteUpsert
  <2>1. Begun /\ Begun' /\ pc = "writeUpsert" /\ UNCHANGED <<op, meta, attached>>
    BY <1>5 DEF WriteUpsert
  <2>2. CASE pc' = "catchRemove" /\ UNCHANGED manifest
    <3>1. StageMapped' = "abandoned"
      BY <2>1, <2>2, NextStages
    <3> QED
      BY <1>5, <2>1, <2>2, <3>1, HiddenStep DEF WriteUpsert
  <2>3. CASE CallOk(op.target) /\ pc' = "complete" /\ SetRow(op.target, op.path, meta)
    <3>1. StageMapped = "moved" /\ StageMapped' = "recorded"
      BY <2>1, <2>3, Stages, NextStages DEF CallOk
    <3>2. op.type \in {"COPY", "RESTORE"}
      BY <1>0, <2>1 DEF TypeInv, ProcessInv, WriteSteps
    <3>3. /\ JobMapped.operation = "WRITE" /\ JobMapped.drive = op.target
          /\ JobMapped.path = op.path /\ JobMapped.row = meta
      BY <2>1, <3>2, RunningJob DEF Operation
    <3>4. JobMapped' = JobMapped
      BY <1>5, <2>1 DEF WriteUpsert, JobMapped
    <3> QED
      BY <1>5, <2>3, <3>1, <3>3, <3>4 DEF WriteUpsert, SetRow, Store!Next, Store!Record
  <2> QED
    BY <1>5, <2>2, <2>3 DEF WriteUpsert
<1>6. CASE CatchComplete
  BY <1>6, FailStep DEF CatchComplete
<1> QED
  BY <1>1, <1>2, <1>3, <1>4, <1>5, <1>6

\* A removal, which the store may rely on only if fs::remove works.
LEMMA RemoveRefines ==
  ASSUME RemovalsWork, RefinementInv, RemoveBegin \/ RemoveFile \/ RemoveUpsert
  PROVE  [Store!Next]_Store!vars
<1> USE DEF Goto, Finish, Begun, BeforeTheFiles, BeforeTheRows, GivenUp
<1>0. /\ TypeInv /\ op.type = "REMOVE"
      /\ pc \notin {"idle", "down", "recover"} /\ op.vv \in Nat
      /\ op.target \in Drives /\ op.path \in Paths
  <2>1. TypeInv /\ pc \notin {"idle", "down", "recover"}
    BY DEF RefinementInv, RemoveBegin, RemoveFile, RemoveUpsert
  <2> QED
    BY <2>1, RunningOp
       DEF RemoveBegin, RemoveFile, RemoveUpsert, TypeInv, ProcessInv, RemoveSteps
<1>1. Operation(op) = "DELETE"
  BY <1>0 DEF Operation
<1>2. CASE RemoveBegin
  <2>1. CASE CallOk(op.target) /\ BeginOperation("DELETE") /\ pc' = "removeFile"
             /\ UNCHANGED <<op, meta, result>>
    BY <1>0, <1>1, <1>2, <2>1, BeginsStep DEF RemoveBegin, CallOk
  <2> QED
    BY <1>0, <1>2, <2>1, AnswerStep DEF RemoveBegin
<1>3. CASE RemoveFile
  <2>1. Begun /\ Begun' /\ pc = "removeFile" /\ pc' = "removeUpsert" /\ UNCHANGED <<op, meta, attached>>
    BY <1>3 DEF RemoveFile
  <2>2. CASE op.target \notin attached /\ UNCHANGED <<disk, dirty>>
    <3>1. StageMapped' = "abandoned"
      BY <2>1, <2>2, NextStages
    <3> QED
      BY <1>3, <2>1, <2>2, <3>1, HiddenStep DEF RemoveFile
  <2>3. CASE /\ CallOk(op.target) /\ SetDisk(op.target, op.path, None)
             /\ dirty' = dirty \ {<<op.target, op.path>>}
    <3>1. StageMapped = "begun" /\ StageMapped' = "moved"
      BY <2>1, <2>3, Stages, NextStages DEF CallOk
    <3>2. /\ JobMapped.operation = "DELETE" /\ JobMapped.drive = op.target
          /\ JobMapped.path = op.path
      BY <1>1, <2>1, RunningJob
    <3>3. JobMapped' = JobMapped
      BY <1>3, <2>1 DEF RemoveFile, JobMapped
    <3> QED
      BY <1>3, <2>3, <3>1, <3>2, <3>3 DEF RemoveFile, SetDisk, Store!Next, Store!Move
  <2>4. ~Spend("stuck")
    BY DEF RefinementInv, NothingStuck, Spend
  <2> QED
    BY <1>3, <2>2, <2>3, <2>4 DEF RemoveFile
<1>4. CASE RemoveUpsert
  <2>1. CASE Finish("failure") /\ UNCHANGED manifest
    BY <1>4, <2>1, FailStep DEF RemoveUpsert
  <2>2. CASE /\ CallOk(op.target) /\ pc' = "complete" /\ UNCHANGED <<op, meta, result>>
             /\ SetRow(op.target, op.path, Tombstone(op.target, op.path))
    <3>1. Begun /\ Begun' /\ pc = "removeUpsert" /\ UNCHANGED attached
      BY <1>4, <2>2 DEF RemoveUpsert
    <3>2. StageMapped = "moved" /\ StageMapped' = "recorded"
      BY <2>2, <3>1, Stages, NextStages DEF CallOk
    <3>3. /\ JobMapped.operation = "DELETE" /\ JobMapped.drive = op.target
          /\ JobMapped.path = op.path /\ JobMapped.vv = op.vv
      BY <1>1, <3>1, RunningJob
    <3>4. JobMapped' = JobMapped
      BY <1>4, <2>2, <3>1 DEF RemoveUpsert, JobMapped
    <3>5. Tombstone(op.target, op.path) = Store!Deleted(manifest[op.target][op.path], op.vv)
      <4>1. manifest[op.target][op.path] \in Entry \cup {None}
        BY <1>0 DEF TypeInv, TypeOK
      <4> QED
        BY <4>1 DEF Tombstone, Store!Deleted, Present, Row, Entry
    <3> QED
      BY <1>4, <2>2, <3>2, <3>3, <3>4, <3>5 DEF RemoveUpsert, SetRow, Store!Next, Store!Record
  <2> QED
    BY <1>4, <2>1, <2>2 DEF RemoveUpsert
<1> QED
  BY <1>2, <1>3, <1>4

\* A rename moves the file, and then its row in two steps.
LEMMA RenameRefines ==
  ASSUME RefinementInv,
         RenameBegin \/ RenameFile \/ RenameFailed \/ RenameDelete \/ RenameUpsert
  PROVE  [Store!Next]_Store!vars
<1> USE DEF Goto, Finish, Begun, BeforeTheFiles, BeforeTheRows, GivenUp
<1>0. /\ TypeInv /\ op.type = "RENAME"
      /\ pc \notin {"idle", "down", "recover"} /\ op.vv \in Nat
      /\ op.target \in Drives /\ op.path \in Paths
  <2>1. TypeInv /\ pc \notin {"idle", "down", "recover"}
    BY DEF RefinementInv, RenameBegin, RenameFile, RenameFailed, RenameDelete, RenameUpsert
  <2> QED
    BY <2>1, RunningOp
       DEF RenameBegin, RenameFile, RenameFailed, RenameDelete, RenameUpsert,
           TypeInv, ProcessInv, RenameSteps
<1>1. Operation(op) = "RENAME"
  BY <1>0 DEF Operation
<1>2. CASE RenameBegin
  <2>1. CASE CallOk(op.target) /\ BeginOperation("RENAME") /\ pc' = "renameFile"
             /\ UNCHANGED <<op, meta, result>>
    BY <1>0, <1>1, <1>2, <2>1, BeginsStep DEF RenameBegin, CallOk
  <2> QED
    BY <1>0, <1>2, <2>1, AnswerStep DEF RenameBegin
<1>3. CASE RenameFile
  <2>1. Begun /\ Begun' /\ pc = "renameFile" /\ UNCHANGED <<op, meta, attached>>
    BY <1>3 DEF RenameFile
  <2>2. CASE pc' = "renameFailed" /\ UNCHANGED <<disk, dirty>>
    <3>1. StageMapped' = "abandoned"
      BY <2>1, <2>2, NextStages
    <3> QED
      BY <1>3, <2>1, <2>2, <3>1, HiddenStep DEF RenameFile
  <2>3. CASE CallOk(op.target) /\ disk[op.target][op.path] # None /\ pc' = "renameDelete"
    <3>1. StageMapped = "begun" /\ StageMapped' = "moved"
      BY <2>1, <2>3, Stages, NextStages DEF CallOk
    <3>2. /\ JobMapped.operation = "RENAME" /\ JobMapped.drive = op.target
          /\ JobMapped.path = op.path /\ JobMapped.newPath = op.newPath
      BY <1>1, <2>1, RunningJob
    <3>3. JobMapped' = JobMapped
      BY <1>3, <2>1 DEF RenameFile, JobMapped
    <3> QED
      BY <1>3, <2>3, <3>1, <3>2, <3>3 DEF RenameFile, Store!Next, Store!Move
  <2> QED
    BY <1>3, <2>2, <2>3 DEF RenameFile
<1>4. CASE RenameFailed
  BY <1>4, FailStep DEF RenameFailed
<1>5. CASE RenameDelete
  <2> DEFINE existing == manifest[op.target][op.path]
  <2>1. CASE Finish("failure") /\ UNCHANGED manifest
    BY <1>5, <2>1, FailStep DEF RenameDelete
  <2>2. CASE /\ CallOk(op.target) /\ SetRow(op.target, op.path, None)
             /\ IF existing # None
                  THEN meta' = WithVector(existing, op.vv) /\ pc' = "renameUpsert"
                  ELSE meta' = meta /\ pc' = "complete"
             /\ UNCHANGED <<op, result>>
    <3>1. Begun /\ Begun' /\ pc = "renameDelete" /\ UNCHANGED <<attached, rows>>
      BY <1>5, <2>2 DEF RenameDelete
    <3>2. /\ StageMapped = "moved"
          /\ StageMapped' = IF existing # None THEN "unlisted" ELSE "recorded"
      BY <2>2, <3>1, Stages, NextStages DEF CallOk
    <3>3. /\ JobMapped.operation = "RENAME" /\ JobMapped.drive = op.target
          /\ JobMapped.path = op.path /\ JobMapped.vv = op.vv
          /\ JobMapped = JobOf(op, rows[op.target], meta)
      BY <1>1, <3>1, RunningJob
    <3>4. JobMapped' = JobOf(op, rows[op.target], meta')
      BY <2>2, <3>1 DEF JobMapped
    <3>5. existing # None => WithVector(existing, op.vv) = [existing EXCEPT !.vv = op.vv]
      <4>1. existing \in Entry \cup {None}
        BY <1>0 DEF TypeInv, TypeOK
      <4> QED
        BY <4>1, RowUpdates
    <3>6. JobMapped' = [JobMapped EXCEPT !.row = meta']
      BY <3>3, <3>4 DEF JobOf
    <3> QED
      BY <1>5, <2>2, <3>2, <3>3, <3>4, <3>5, <3>6 DEF RenameDelete, SetRow, Store!Next, Store!Unlist
  <2> QED
    BY <1>5, <2>1, <2>2 DEF RenameDelete
<1>6. CASE RenameUpsert
  <2>1. CASE Finish("failure") /\ UNCHANGED manifest
    BY <1>6, <2>1, FailStep DEF RenameUpsert
  <2>2. CASE /\ CallOk(op.target) /\ SetRow(op.target, op.newPath, meta)
             /\ pc' = "complete" /\ UNCHANGED <<op, meta, result>>
    <3>1. Begun /\ Begun' /\ pc = "renameUpsert" /\ UNCHANGED attached
      BY <1>6, <2>2 DEF RenameUpsert
    <3>2. StageMapped = "unlisted" /\ StageMapped' = "recorded"
      BY <2>2, <3>1, Stages, NextStages DEF CallOk
    <3>3. /\ JobMapped.drive = op.target /\ JobMapped.newPath = op.newPath
          /\ JobMapped.row = meta
      BY <3>1, RunningJob
    <3>4. JobMapped' = JobMapped
      BY <1>6, <2>2, <3>1 DEF RenameUpsert, JobMapped
    <3> QED
      BY <1>6, <2>2, <3>2, <3>3, <3>4 DEF RenameUpsert, SetRow, Store!Next, Store!Relist
  <2> QED
    BY <1>6, <2>1, <2>2 DEF RenameUpsert
<1> QED
  BY <1>2, <1>3, <1>4, <1>5, <1>6

\* The end of an operation, and what happens to it instead.
LEMMA EndRefines ==
  ASSUME RefinementInv, Refuse \/ Mkdir \/ Complete \/ Lifecycle \/ RecoverDone
  PROVE  [Store!Next]_Store!vars
<1> USE DEF Goto, Finish, Begun, BeforeTheFiles, BeforeTheRows, GivenUp
<1>1. CASE Refuse
  <2>1. UNCHANGED <<disk, manifest, dirty>> /\ UNCHANGED log /\ result' = "failure" /\ ~Begun'
    BY <1>1 DEF Refuse, storage
  <2>2. CASE Begun
    BY <2>1, <2>2, FailStep
  <2>3. CASE ~Begun
    BY <2>1, <2>3, AnswerStep
  <2> QED
    BY <2>2, <2>3
<1>2. CASE Mkdir
  <2>1. CASE CallOk(op.target) /\ Finish("success")
    <3>1. Begun /\ ~Begun' /\ op.type = "MKDIR"
      BY <1>2, <2>1 DEF Mkdir
    <3>2. StageMapped = "recorded" /\ StageMapped' = "none" /\ JobMapped' = None
      BY <1>2, <2>1, <3>1, Stages, NoJob DEF Mkdir, CallOk
    <3>3. Store!Strike(JobMapped)
      <4>1. op.target \in Drives /\ JobMapped.drive = op.target /\ JobMapped.operation = "MKDIR"
        BY <3>1, RunningJob DEF Operation
      <4>2. log \in [Drives -> SUBSET LogRow]
        BY DEF RefinementInv, TypeInv, TypeOK
      <4>3. \A r \in log[op.target] : Logging(r) # Store!EntryOf(JobMapped)
        <5>1. \A r \in log[op.target] : Logging(r).operation # "MKDIR"
          BY <4>1, <4>2 DEF LogRow, Logging
        <5> QED
          BY <4>1, <5>1 DEF Store!EntryOf
      <4>4. Journal(log)' = Journal(log)
        BY <1>2 DEF Mkdir, storage
      <4> QED
        BY <4>1, <4>2, <4>3, <4>4, NothingToStrike DEF Store!Strike
    <3> QED
      BY <1>2, <2>1, <3>2, <3>3 DEF Mkdir, storage, Store!Next, Store!Succeed
  <2>2. CASE Finish("failure")
    <3>1. /\ Begun /\ ~Begun' /\ result' = "failure"
          /\ UNCHANGED <<disk, manifest, dirty>> /\ UNCHANGED log
      BY <1>2, <2>2 DEF Mkdir, storage
    <3> QED
      BY <3>1, FailStep
  <2> QED
    BY <1>2, <2>1, <2>2 DEF Mkdir
<1>3. CASE Complete
  <2>1. Begun /\ pc = "complete" /\ UNCHANGED <<disk, manifest, rows, dirty, attached>>
    BY <1>3 DEF Complete
  <2>2. CASE CallOk(op.target) /\ CompleteOperation /\ Finish("success")
    <3>1. StageMapped = "recorded" /\ StageMapped' = "none" /\ JobMapped' = None
      BY <2>1, <2>2, Stages, NoJob DEF CallOk
    <3>2. Store!Strike(JobMapped)
      BY <2>1, <2>2, StrikeStep
    <3> QED
      BY <2>1, <2>2, <3>1, <3>2 DEF Store!Next, Store!Succeed
  <2>3. CASE UNCHANGED log /\ pc' = "catchRemove" /\ UNCHANGED <<op, meta, result>>
    <3>1. Begun' /\ StageMapped' = "abandoned"
      BY <2>3, NextStages
    <3> QED
      BY <2>1, <2>3, <3>1, HiddenStep
  <2>4. CASE UNCHANGED log /\ Finish("failure")
    BY <2>1, <2>4, FailStep
  <2> QED
    BY <1>3, <2>2, <2>3, <2>4 DEF Complete
<1>4. CASE Start \/ Exit \/ RecoverDone
  BY <1>4, AnswerStep DEF Start, Exit, RecoverDone, storage
<1>5. CASE Crash
  <2>1. ~Begun' /\ UNCHANGED <<disk, manifest, log, dirty>> /\ result' = "none"
    BY <1>5 DEF Crash, storage
  <2>2. CASE Begun
    <3>1. JobMapped # None /\ JobMapped' = None /\ StageMapped' = "none"
      BY <2>1, <2>2, RunningJob, NoJob
    <3> QED
      BY <2>1, <3>1 DEF Store!Next, Store!Die, Store!drives
  <2> QED
    BY <2>1, <2>2, AnswerStep
<1> QED
  BY <1>1, <1>2, <1>3, <1>4, <1>5 DEF Lifecycle

\* Recovery: a file is put in place again, or a row struck.
LEMMA RecoveryRefines ==
  ASSUME RefinementInv, NEW d \in Drives, RecoverFile(d) \/ RecoverComplete(d)
  PROVE  [Store!Next]_Store!vars
<1>1. /\ log \in [Drives -> SUBSET LogRow]
      /\ \A r, s \in log[d] : r.id = s.id => r = s
  BY DEF RefinementInv, TypeInv, TypeOK, LogOk, LogInv
<1>2. ~Begun /\ ~Begun' /\ UNCHANGED <<manifest, result>>
  BY DEF RecoverFile, RecoverComplete, process, Begun, BeforeTheFiles, BeforeTheRows, GivenUp
<1>3. JobMapped = None /\ JobMapped' = None /\ StageMapped' = StageMapped
  BY <1>2, NoJob
<1>4. PICK r \in log[d] :
        /\ OldestRow(d, r)
        /\ \/ /\ HasTmp(d, r) /\ log' = log
              /\ \/ /\ TmpIsValid(d, r.path)
                    /\ SetDisk(d, r.path, tmp[d][r.path])
                    /\ dirty' = dirty \ {<<d, r.path>>}
                 \/ disk' = disk /\ dirty' = dirty
           \/ log' = [log EXCEPT ![d] = @ \ {r}] /\ disk' = disk /\ dirty' = dirty
  BY DEF RecoverFile, RecoverComplete
<1>5. Store!Oldest(d, Logging(r))
  BY <1>1, <1>4 DEF OldestRow, Store!Oldest, Journal, Logging
<1>6. CASE disk' = disk /\ dirty' = dirty /\ log' = log
  BY <1>2, <1>6, AnswerStep
<1>7. CASE /\ HasTmp(d, r) /\ log' = log /\ TmpIsValid(d, r.path)
           /\ SetDisk(d, r.path, tmp[d][r.path])
           /\ dirty' = dirty \ {<<d, r.path>>}
  <2>1. Logging(r) \in Journal(log)[d] /\ Journal(log)' = Journal(log)
    BY <1>4, <1>7 DEF Journal
  <2>2. Logging(r).operation = "WRITE" /\ Logging(r).path = r.path
    BY <1>7 DEF HasTmp, Logging
  <2>3. Store!Redo(d)
    BY <1>2, <1>3, <1>5, <1>7, <2>1, <2>2
       DEF Store!Redo, TmpIsValid, Present, SetDisk
  <2> QED
    BY <2>3 DEF Store!Next
<1>8. CASE log' = [log EXCEPT ![d] = @ \ {r}] /\ disk' = disk /\ dirty' = dirty
  <2>1. Logging(r) \in Journal(log)[d]
    BY <1>4 DEF Journal
  <2>2. Journal(log)' = [Journal(log) EXCEPT ![d] = @ \ {Logging(r)}]
    BY <1>1, <1>8, JournalShrinks
  <2>3. Store!Clear(d)
    BY <1>2, <1>3, <1>5, <1>8, <2>1, <2>2 DEF Store!Clear
  <2> QED
    BY <2>3 DEF Store!Next
<1> QED
  BY <1>4, <1>6, <1>7, <1>8

\* The user edits; a drive that is pulled out ends what runs on it.
LEMMA UserRefines ==
  ASSUME RefinementInv, User
  PROVE  [Store!Next]_Store!vars
<1> USE DEF process, storage
<1>1. ASSUME NEW d \in Drives, NEW p \in Paths, NEW c \in Contents \cup {None},
             UserEdit(d, p, c)
      PROVE  [Store!Next]_Store!vars
  <2>1. JobMapped' = JobMapped /\ StageMapped' = StageMapped /\ Journal(log)' = Journal(log)
    BY <1>1 DEF UserEdit, JobMapped, StageMapped, Begun, Journal
  <2>2. Store!Edit(d, p)
    BY <1>1, <2>1 DEF UserEdit, SetDisk, Store!Edit
  <2> QED
    BY <2>2 DEF Store!Next
<1>2. ASSUME NEW d \in Drives, Unplug(d) PROVE [Store!Next]_Store!vars
  <2>1. /\ Begun' = Begun /\ attached' \subseteq attached /\ UNCHANGED pc
        /\ UNCHANGED <<disk, manifest, log, rows, op, meta, result, dirty>>
    BY <1>2 DEF Unplug, Begun
  <2>2. CASE Begun
    <3>1. StageMapped' \in {StageMapped, "abandoned"}
      BY <2>1, <2>2, Stages, NextStages DEF Begun, BeforeTheFiles, BeforeTheRows, GivenUp
    <3> QED
      BY <2>1, <2>2, <3>1, HiddenStep
  <2> QED
    BY <2>1, <2>2, AnswerStep
<1>3. ASSUME NEW d \in Drives, Plug(d) PROVE [Store!Next]_Store!vars
  <2>1. ~Begun /\ ~Begun' /\ UNCHANGED <<disk, manifest, log, dirty, result>>
    BY <1>3 DEF Plug, Begun, BeforeTheFiles, BeforeTheRows, GivenUp
  <2> QED
    BY <2>1, AnswerStep
<1> QED
  BY <1>1, <1>2, <1>3 DEF User

\* The next operation; the store sees a MKDIR begin here.  A read marks a row.
LEMMA CallerRefines ==
  ASSUME RefinementInv, Caller
  PROVE  [Store!Next]_Store!vars
<1> USE DEF storage, process, Goto, Begun, BeforeTheFiles, BeforeTheRows, GivenUp
<1>1. ASSUME NEW type \in OpTypes, NEW source \in Drives, NEW target \in Drives,
             NEW path \in Paths, NEW newPath \in Paths,
             Issue(type, source, target, path, newPath)
      PROVE  [Store!Next]_Store!vars
  <2>1. /\ ~Begun /\ pc' = "start" /\ result' = "none"
        /\ UNCHANGED <<disk, manifest, log, dirty, meta, rows, attached>>
    BY <1>1 DEF Issue
  <2>2. CASE type # "MKDIR"
    BY <1>1, <2>1, <2>2, AnswerStep DEF Issue
  <2>3. CASE type = "MKDIR"
    <3>1. op' \in Op /\ op'.type = "MKDIR" /\ op'.target \in Drives
      <4>1. budget["op"] \in Nat
        BY DEF RefinementInv, TypeInv, TypeOK, Spendings
      <4> QED
        BY <1>1, <2>3, <4>1 DEF Issue, Op
    <3>2. rows[op'.target] \in Nat /\ meta \in Entry \cup {None}
      BY <3>1 DEF RefinementInv, TypeInv, TypeOK
    <3>3. JobMapped = None /\ Begun' /\ JobMapped' = JobOf(op', rows[op'.target], meta)
      BY <2>1, <3>1, NoJob DEF JobMapped
    <3>4. JobMapped' \in Store!Job /\ JobMapped'.operation = "MKDIR"
      <4>1. Operation(op') = "MKDIR"
        BY <3>1 DEF Operation
      <4> QED
        BY <3>1, <3>2, <3>3, <4>1, JobTypes
    <3>5. StageMapped' \in {"recorded", "abandoned"}
      BY <2>1, <3>3, NextStages
    <3> QED
      BY <2>1, <3>3, <3>4, <3>5 DEF Store!Next, Store!Begin
  <2> QED
    BY <2>2, <2>3
<1>2. ASSUME NEW d \in Drives, NEW p \in Paths, VerifyFile(d, p)
      PROVE  [Store!Next]_Store!vars
  <2>1. JobMapped = None /\ JobMapped' = None /\ StageMapped' = StageMapped
    BY <1>2, NoJob DEF VerifyFile
  <2>2. manifest[d][p] \in Entry
    BY <1>2 DEF VerifyFile, Live, Present, RefinementInv, TypeInv, TypeOK
  <2>3. WithCorrupted(manifest[d][p], TRUE) = [manifest[d][p] EXCEPT !.corrupted = TRUE]
    BY <2>2, RowUpdates
  <2>4. Store!MarkCorrupted(d, p)
    BY <1>2, <2>1, <2>3
       DEF VerifyFile, SetRow, Live, Present, Journal, Store!MarkCorrupted
  <2> QED
    BY <2>4 DEF Store!Next
<1> QED
  BY <1>1, <1>2 DEF Caller

-----------------------------------------------------------------------------
(* The refinement                                                          *)

LEMMA NextRefines ==
  ASSUME RemovalsWork, RefinementInv, [Next]_vars
  PROVE  [Store!Next]_Store!vars
<1>1. CASE UNCHANGED vars
  BY <1>1 DEF vars, storage, process, environment, Store!vars,
              JobMapped, StageMapped, Begun, Journal
<1>2. CASE Recover
  BY <1>2, EndRefines, RecoveryRefines DEF Recover
<1>3. CASE Execute
  BY <1>3, EndRefines, WriteRefines, RemoveRefines, RenameRefines DEF Execute
<1> QED
  BY <1>1, <1>2, <1>3, EndRefines, UserRefines, CallerRefines DEF Next

\* An empty log and no operation are an empty journal and no job.
LEMMA InitRefines == Init => Store!Init
<1> SUFFICES ASSUME Init PROVE Store!Init
  OBVIOUS
<1>1. JobMapped = None /\ StageMapped = "none"
  BY NoJob DEF Init, Begun, BeforeTheFiles, BeforeTheRows, GivenUp
<1>2. Journal(log) = [d \in Drives |-> {}]
  BY DEF Init, Journal
<1>3. manifest \in [Drives -> [Paths -> Store!Row \cup {None}]]
  <2>1. Store!Row = Entry
    BY DEF Entry, Store!Row
  <2> QED
    BY <2>1, ScannedTypes DEF Init
<1> QED
  BY <1>1, <1>2, <1>3 DEF Init, Store!Init

\* ImplementsStore for every instance: the drives go through the steps of a
\* journaled store and no others, whatever fails, dies or is pulled out and in
\* whatever order, as long as a removal that cannot be done is not taken for
\* done.
THEOREM ExecutorImplementsStore == RemovalsWork => (Spec => ImplementsStore)
<1>1. RemovalsWork /\ RefinementInv /\ [Next]_vars => [Store!Next]_Store!vars
  BY NextRefines
<1>2. TypeInv /\ LogOk /\ Verified /\ NothingStuck => RefinementInv
  BY DEF RefinementInv
<1>3. RemovalsWork => []RemovalsWork
  <2>1. RemovalsWork => RemovalsWork'
    BY DEF RemovalsWork
  <2> QED
    BY <2>1, PTL
<1> QED
  BY <1>1, <1>2, <1>3, InitRefines,
     TypeInvariant, LogInvariant, TornInvariant, StuckInvariant, PTL
     DEF Spec, ImplementsStore, Store!Spec

=============================================================================
