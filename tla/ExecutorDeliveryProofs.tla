------------------------ MODULE ExecutorDeliveryProofs ------------------------
(* What may become of a file in one step, what a successful result is      *)
(* worth and what the log tells after a crash, for every instance of       *)
(* Executor.                                                               *)
EXTENDS ExecutorProofs

-----------------------------------------------------------------------------
(* What an operation has achieved so far                                   *)

\* The user may have changed a file since.
Edited(p) == <<op.target, p>> \in dirty
Gone(p) == disk[op.target][p] = None \/ Edited(p)
Kept(p) == disk[op.target][p] # None \/ Edited(p)

Writes == op.type \in {"COPY", "RESTORE"}

\* The row a write will leave: live, under the vector of a copy, or cleared of
\* its corruption.  From the rename of the temporary file on the file is there.
WriteInv ==
  /\ pc = "start" /\ op.type = "COPY" =>
       (Present(op.source, op.path) => Live(op.source, op.path))
  /\ pc = "start" /\ op.type = "RESTORE" => Live(op.target, op.path)
  /\ pc \in WriteSteps \/ (pc = "complete" /\ Writes) =>
       /\ ~meta.tombstone
       /\ op.type = "COPY" => meta.vv = op.vv
       /\ op.type = "RESTORE" => ~meta.corrupted
  /\ pc = "writeUpsert" \/ (pc = "complete" /\ Writes) =>
       disk[op.target][op.path] = meta.hash \/ Edited(op.path)
  /\ pc = "complete" /\ Writes => manifest[op.target][op.path] = meta

\* fs::remove has worked, unless the drive is gone and the operation will fail.
RemoveInv ==
  /\ pc = "removeUpsert" /\ op.target \in attached => Gone(op.path)
  /\ pc = "complete" /\ op.type = "REMOVE" =>
       /\ Gone(op.path) /\ Present(op.target, op.path)
       /\ manifest[op.target][op.path].tombstone
       /\ manifest[op.target][op.path].vv = op.vv

\* A rename has a live row to carry over, and never loses file or row of the
\* name it is about.
RenameInv ==
  op # None /\ op.type = "RENAME" =>
    /\ op.newPath # op.path
    /\ pc \in {"start", "renameFile", "renameDelete"} => Live(op.target, op.path)
    /\ pc \in {"renameDelete", "renameUpsert", "complete"} => Gone(op.path) /\ Kept(op.newPath)
    /\ pc \in {"renameUpsert", "complete"} => ~Present(op.target, op.path)
    /\ pc = "renameUpsert" => ~meta.tombstone /\ meta.vv = op.vv
    /\ pc = "complete" =>
         Live(op.target, op.newPath) /\ manifest[op.target][op.newPath].vv = op.vv

DeliveryInv == WriteInv /\ RemoveInv /\ RenameInv

-----------------------------------------------------------------------------
(* Rows                                                                    *)

\* What the new rows of copies, restorations, removals and renames say.
LEMMA RowFields ==
  ASSUME NEW r, NEW vv, NEW flag
  PROVE  /\ WithVector(r, vv).hash = r.hash /\ WithVector(r, vv).vv = vv
         /\ WithVector(r, vv).tombstone = r.tombstone
         /\ WithCorrupted(r, flag).hash = r.hash /\ WithCorrupted(r, flag).corrupted = flag
         /\ WithCorrupted(r, flag).tombstone = r.tombstone
  BY DEF WithVector, WithCorrupted, Row

\* A restored file is no longer marked.
LEMMA RestoredRow ==
  \A r : ~WithCorrupted(r, FALSE).corrupted /\ WithCorrupted(r, FALSE).tombstone = r.tombstone
  BY DEF WithCorrupted, Row

LEMMA TombstoneRow ==
  ASSUME TypeOK, NEW d \in Drives, NEW p \in Paths, op.vv \in Nat
  PROVE  /\ Tombstone(d, p) \in Entry /\ Tombstone(d, p) # None
         /\ Tombstone(d, p).tombstone /\ Tombstone(d, p).vv = op.vv
<1>1. Present(d, p) => manifest[d][p].hash \in Contents \cup {None} /\ manifest[d][p].corrupted \in BOOLEAN
  <2>1. Present(d, p) => manifest[d][p] \in Entry
    BY DEF TypeOK, Present
  <2> QED
    BY <2>1 DEF Entry
<1>2. Tombstone(d, p) \in Entry
  BY <1>1, RowTypes DEF Tombstone
<1>3. Tombstone(d, p).tombstone = TRUE /\ Tombstone(d, p).vv = op.vv
  BY DEF Tombstone, Row
<1> QED
  BY <1>2, <1>3, NoneIsNoEntry

-----------------------------------------------------------------------------
(* The invariant                                                           *)

Quiet == {"idle", "down", "recover"}

\* Where no operation runs there is nothing to say.
LEMMA NoOperation ==
  ASSUME pc' \in Quiet, op' = None
  PROVE  DeliveryInv'
  BY DEF DeliveryInv, WriteInv, RemoveInv, RenameInv, Quiet, WriteSteps

\* Outside the operation a file changes by the user's hand only, and a row
\* does not change at all.
LEMMA BystanderStep ==
  ASSUME DeliveryInv, UNCHANGED <<pc, op, meta, manifest>>, attached' \subseteq attached,
         TypeInv, pc \notin Quiet,
         \A d \in Drives, p \in Paths :
           \/ disk'[d][p] = disk[d][p] /\ (<<d, p>> \in dirty' <=> <<d, p>> \in dirty)
           \/ <<d, p>> \in dirty'
  PROVE  DeliveryInv'
<1>1. op.target \in Drives /\ op.path \in Paths /\ op.newPath \in Paths
  BY RunningOp DEF Quiet
<1>2. WriteInv'
  BY <1>1 DEF DeliveryInv, WriteInv, Writes, Edited, Present, Live
<1>3. RemoveInv'
  BY <1>1 DEF DeliveryInv, RemoveInv, Gone, Edited, Present
<1>4. RenameInv'
  BY <1>1 DEF DeliveryInv, RenameInv, Gone, Kept, Edited, Present, Live
<1> QED
  BY <1>2, <1>3, <1>4 DEF DeliveryInv

\* A write: the row is chosen live, the file gets its content, the row is stored.
LEMMA WriteDelivers ==
  ASSUME TypeInv, Verified, DeliveryInv,
         \/ WriteVerifySource \/ WriteBegin \/ WriteOpen \/ WriteCopy \/ WriteVerify
         \/ WriteRename \/ WriteUpsert \/ CatchRemove \/ CatchComplete
  PROVE  DeliveryInv'
<1> USE DEF Goto, Finish, Catch, storage, environment
<1>1. CASE pc' = "idle" /\ op' = None
  BY <1>1, NoOperation DEF Quiet
<1>2. ASSUME ~(pc' = "idle" /\ op' = None)
      PROVE  DeliveryInv'
  <2>1. /\ UNCHANGED op /\ pc' \in WriteSteps \cup {"complete"}
        /\ pc \in WriteSteps \cup {"start"}
        /\ pc = "start" => op.type \in {"COPY", "RESTORE"}
    BY <1>2 DEF WriteVerifySource, WriteBegin, WriteOpen, WriteCopy, WriteVerify, WriteRename,
                WriteUpsert, CatchRemove, CatchComplete, WriteSteps
  <2>2. /\ op.type \in {"COPY", "RESTORE"}
        /\ op.source \in Drives /\ op.target \in Drives /\ op.path \in Paths
    BY <2>1, RunningOp DEF TypeInv, ProcessInv, WriteSteps
  <2>3. RemoveInv' /\ RenameInv'
    BY <2>1, <2>2 DEF RemoveInv, RenameInv, WriteSteps
  <2>4. CASE WriteVerifySource
    <3>1. meta' = NewMeta /\ pc' = "writeBegin" /\ pc = "start" /\ Present(op.source, op.path)
      BY <1>2, <2>4 DEF WriteVerifySource
    <3>2. CASE op.type = "COPY"
      <4>1. Live(op.source, op.path)
        BY <3>1, <3>2 DEF DeliveryInv, WriteInv
      <4>2. ~meta'.tombstone /\ meta'.vv = op.vv
        BY <3>1, <3>2, <4>1, RowFields DEF NewMeta, Live
      <4> QED
        BY <2>1, <2>3, <3>1, <3>2, <4>2 DEF DeliveryInv, WriteInv
    <3>3. CASE op.type = "RESTORE"
      <4>1. Live(op.target, op.path)
        BY <3>1, <3>3 DEF DeliveryInv, WriteInv
      <4>2. meta' = WithCorrupted(manifest[op.target][op.path], FALSE)
        BY <3>1, <3>3 DEF NewMeta
      <4>3. ~meta'.tombstone
        BY <4>1, <4>2, RestoredRow DEF Live
      <4>4. ~meta'.corrupted
        BY <4>2, RestoredRow
      <4> QED
        BY <2>1, <2>3, <3>1, <3>3, <4>3, <4>4 DEF DeliveryInv, WriteInv
    <3> QED
      BY <2>2, <3>2, <3>3
  <2>5. CASE WriteRename /\ pc' = "writeUpsert"
    <3>1. disk'[op.target][op.path] = tmp[op.target][op.path] /\ pc = "writeRename" /\ UNCHANGED meta
      BY <2>2, <2>5 DEF WriteRename, SetDisk, TypeInv, TypeOK
    <3>2. disk'[op.target][op.path] = meta.hash
      BY <3>1 DEF Verified
    <3> QED
      BY <2>1, <2>3, <2>5, <3>1, <3>2 DEF DeliveryInv, WriteInv, WriteSteps
  <2>6. CASE WriteUpsert /\ pc' = "complete"
    <3>1. /\ pc = "writeUpsert" /\ UNCHANGED <<meta, disk, dirty>>
          /\ manifest'[op.target][op.path] = meta
      BY <2>2, <2>6 DEF WriteUpsert, SetRow, TypeInv, TypeOK
    <3> QED
      BY <2>1, <2>3, <2>6, <3>1 DEF DeliveryInv, WriteInv, WriteSteps, Writes, Edited
  <2>7. CASE pc \in WriteSteps /\ pc' \in WriteSteps \ {"writeUpsert"} /\ UNCHANGED meta
    BY <2>1, <2>3, <2>7 DEF DeliveryInv, WriteInv, WriteSteps
  <2> QED
    BY <1>2, <2>4, <2>5, <2>6, <2>7
       DEF WriteBegin, WriteOpen, WriteCopy, WriteVerify, WriteRename,
           WriteUpsert, CatchRemove, CatchComplete, WriteSteps
<1> QED
  BY <1>1, <1>2

\* A removal: the file goes, or the drive has gone; then the row is a tombstone.
LEMMA RemoveDelivers ==
  ASSUME RemovalsWork, NothingStuck, TypeInv, DeliveryInv,
         RemoveBegin \/ RemoveFile \/ RemoveUpsert
  PROVE  DeliveryInv'
<1> USE DEF Goto, Finish
<1>1. CASE pc' = "idle" /\ op' = None
  BY <1>1, NoOperation DEF Quiet
<1>2. ASSUME ~(pc' = "idle" /\ op' = None)
      PROVE  DeliveryInv'
  <2>1. /\ UNCHANGED op /\ pc' \in RemoveSteps \cup {"complete"}
        /\ pc \in RemoveSteps \cup {"start"}
        /\ pc = "start" => op.type = "REMOVE"
    BY <1>2 DEF RemoveBegin, RemoveFile, RemoveUpsert, RemoveSteps
  <2>2. /\ op.type = "REMOVE"
        /\ op.target \in Drives /\ op.path \in Paths /\ op.vv \in Nat
    BY <2>1, RunningOp DEF TypeInv, ProcessInv, RemoveSteps
  <2>3. WriteInv' /\ RenameInv'
    BY <2>1, <2>2 DEF WriteInv, RenameInv, WriteSteps, RemoveSteps, Writes
  <2>4. CASE RemoveBegin
    BY <1>2, <2>1, <2>3, <2>4 DEF RemoveBegin, DeliveryInv, RemoveInv
  <2>5. CASE RemoveFile
    <3>1. ~Spend("stuck")
      BY DEF NothingStuck, Spend
    <3>2. op.target \in attached' => disk'[op.target][op.path] = None
      BY <2>2, <2>5, <3>1 DEF RemoveFile, CallOk, SetDisk, TypeInv, TypeOK
    <3> QED
      BY <2>1, <2>3, <2>5, <3>2 DEF RemoveFile, DeliveryInv, RemoveInv, Gone
  <2>6. CASE RemoveUpsert
    <3>1. /\ pc = "removeUpsert" /\ op.target \in attached /\ UNCHANGED <<disk, dirty>>
          /\ manifest'[op.target][op.path] = Tombstone(op.target, op.path)
      BY <1>2, <2>2, <2>6 DEF RemoveUpsert, CallOk, SetRow, TypeInv, TypeOK
    <3>2. /\ manifest'[op.target][op.path] # None /\ manifest'[op.target][op.path].tombstone
          /\ manifest'[op.target][op.path].vv = op.vv
      BY <2>2, <3>1, TombstoneRow DEF TypeInv
    <3>3. Gone(op.path)
      BY <3>1 DEF DeliveryInv, RemoveInv
    <3> QED
      BY <2>1, <2>3, <3>1, <3>2, <3>3 DEF DeliveryInv, RemoveInv, Gone, Edited, Present, RemoveSteps
  <2> QED
    BY <2>4, <2>5, <2>6
<1> QED
  BY <1>1, <1>2


\* A rename: file, then the row of the old name, then the row of the new one.
LEMMA RenameDelivers ==
  ASSUME TypeInv, DeliveryInv,
         RenameBegin \/ RenameFile \/ RenameFailed \/ RenameDelete \/ RenameUpsert
  PROVE  DeliveryInv'
<1> USE DEF Goto, Finish
<1>1. CASE pc' = "idle" /\ op' = None
  BY <1>1, NoOperation DEF Quiet
<1>2. ASSUME ~(pc' = "idle" /\ op' = None)
      PROVE  DeliveryInv'
  <2>1. /\ UNCHANGED op /\ pc' \in RenameSteps \cup {"complete"}
        /\ pc \in RenameSteps \cup {"start"}
        /\ pc = "start" => op.type = "RENAME"
    BY <1>2 DEF RenameBegin, RenameFile, RenameFailed, RenameDelete, RenameUpsert, RenameSteps
  <2>2. /\ op.type = "RENAME" /\ op # None
        /\ op.target \in Drives /\ op.path \in Paths /\ op.newPath \in Paths
    BY <2>1, RunningOp DEF TypeInv, ProcessInv, RenameSteps
  <2>3. WriteInv' /\ RemoveInv'
    BY <2>1, <2>2 DEF WriteInv, RemoveInv, WriteSteps, RenameSteps, Writes
  <2>4. op.newPath # op.path
    BY <2>2 DEF DeliveryInv, RenameInv
  <2>5. CASE RenameBegin
    BY <1>2, <2>1, <2>2, <2>3, <2>4, <2>5 DEF RenameBegin, DeliveryInv, RenameInv, Live, Present
  <2>6. CASE RenameFile
    <3>1. pc = "renameFile" /\ UNCHANGED manifest /\ Live(op.target, op.path)
      BY <2>2, <2>6 DEF RenameFile, DeliveryInv, RenameInv
    <3>2. CASE pc' = "renameDelete"
      <4>1. /\ disk[op.target][op.path] # None
            /\ disk' = [disk EXCEPT ![op.target] = [@ EXCEPT ![op.path] = None,
                                      ![op.newPath] = disk[op.target][op.path]]]
        BY <2>6, <3>2 DEF RenameFile
      <4>2. disk'[op.target][op.path] = None /\ disk'[op.target][op.newPath] # None
        BY <2>2, <2>4, <4>1 DEF TypeInv, TypeOK
      <4> QED
        BY <2>1, <2>2, <2>3, <2>4, <3>1, <3>2, <4>2
           DEF DeliveryInv, RenameInv, Gone, Kept, Live, Present
    <3>3. CASE pc' = "renameFailed"
      BY <2>1, <2>3, <2>4, <3>3 DEF DeliveryInv, RenameInv
    <3> QED
      BY <2>6, <3>2, <3>3 DEF RenameFile
  <2>7. CASE RenameDelete
    <3>1. /\ pc = "renameDelete" /\ UNCHANGED <<disk, dirty>>
          /\ Live(op.target, op.path) /\ Gone(op.path) /\ Kept(op.newPath)
      BY <2>2, <2>7 DEF RenameDelete, DeliveryInv, RenameInv
    <3>2. /\ SetRow(op.target, op.path, None) /\ pc' = "renameUpsert"
          /\ meta' = WithVector(manifest[op.target][op.path], op.vv)
      BY <1>2, <2>7, <3>1 DEF RenameDelete, Live, Present
    <3>3. ~meta'.tombstone /\ meta'.vv = op.vv
      BY <3>1, <3>2, RowFields DEF Live
    <3>4. ~Present(op.target, op.path)'
      BY <2>1, <2>2, <3>2 DEF SetRow, Present, TypeInv, TypeOK
    <3> QED
      BY <2>1, <2>3, <2>4, <3>1, <3>2, <3>3, <3>4
         DEF DeliveryInv, RenameInv, Gone, Kept, Edited
  <2>8. CASE RenameUpsert
    <3>1. /\ pc = "renameUpsert" /\ UNCHANGED <<disk, dirty>> /\ pc' = "complete"
          /\ SetRow(op.target, op.newPath, meta)
      BY <1>2, <2>8 DEF RenameUpsert
    <3>2. /\ Gone(op.path) /\ Kept(op.newPath) /\ ~Present(op.target, op.path)
          /\ ~meta.tombstone /\ meta.vv = op.vv
      BY <2>2, <3>1 DEF DeliveryInv, RenameInv
    <3>3. meta # None
      BY <3>1 DEF TypeInv, ProcessInv
    <3>4. /\ manifest'[op.target][op.newPath] = meta
          /\ manifest'[op.target][op.path] = manifest[op.target][op.path]
      BY <2>2, <2>4, <3>1 DEF SetRow, TypeInv, TypeOK
    <3> QED
      BY <2>1, <2>3, <2>4, <3>1, <3>2, <3>3, <3>4
         DEF DeliveryInv, RenameInv, Gone, Kept, Edited, Present, Live
  <2>9. CASE RenameFailed
    BY <1>2, <2>9 DEF RenameFailed
  <2> QED
    BY <2>5, <2>6, <2>7, <2>8, <2>9
<1> QED
  BY <1>1, <1>2

\* The last call of an operation: where it fails a write starts to clean up.
LEMMA CompleteDelivers ==
  ASSUME TypeInv, DeliveryInv, Refuse \/ Mkdir \/ Complete
  PROVE  DeliveryInv'
<1> USE DEF Goto, Finish
<1>1. CASE pc' = "idle" /\ op' = None
  BY <1>1, NoOperation DEF Quiet
<1>2. CASE /\ pc = "complete" /\ Writes /\ pc' = "catchRemove"
           /\ UNCHANGED <<op, meta>>
  <2>1. op # None => op.type # "RENAME"
    BY <1>2 DEF Writes
  <2> QED
    BY <1>2, <2>1 DEF DeliveryInv, WriteInv, RemoveInv, RenameInv, WriteSteps, Writes
<1> QED
  BY <1>1, <1>2 DEF Refuse, Mkdir, Complete, Writes

\* What the planner promises of an operation holds when it starts.
LEMMA IssueDelivers ==
  ASSUME NEW type, NEW source, NEW target, NEW path, NEW newPath,
         Issue(type, source, target, path, newPath)
  PROVE  DeliveryInv'
<1>1. /\ pc' = "start" /\ Plausible(op') /\ UNCHANGED storage
  BY DEF Issue, Goto
<1>2. /\ (op'.type = "COPY" =>
           (Present(op'.source, op'.path) => Live(op'.source, op'.path)))
      /\ op'.type = "RESTORE" => Live(op'.target, op'.path)
      /\ op'.type = "RENAME" => Live(op'.target, op'.path) /\ op'.newPath # op'.path
  BY <1>1 DEF Plausible
<1> QED
  BY <1>1, <1>2 DEF DeliveryInv, WriteInv, RemoveInv, RenameInv, Live, Present,
                    WriteSteps, storage

LEMMA DeliveryStep ==
  ASSUME RemovalsWork, TypeInv, Verified, NothingStuck, DeliveryInv, [Next]_vars
  PROVE  DeliveryInv'
<1> USE DEF storage, process, environment
<1>1. pc \in Quiet <=> op = None
  BY DEF TypeInv, ProcessInv, Quiet
<1>2. CASE Execute
  BY <1>2, WriteDelivers, RemoveDelivers, RenameDelivers, CompleteDelivers DEF Execute
<1>3. CASE Recover \/ Lifecycle
  BY <1>1, <1>3, NoOperation
     DEF Recover, RecoverDone, RecoverFile, RecoverComplete, Lifecycle, Start, Exit, Crash,
         Goto, Quiet
<1>4. CASE User \/ UNCHANGED vars
  <2>1. UNCHANGED process
    BY <1>4 DEF User, UserEdit, Unplug, Plug, vars
  <2>2. CASE pc \in Quiet
    BY <1>1, <2>1, <2>2, NoOperation
  <2>3. CASE pc \notin Quiet
    <3>1. UNCHANGED manifest /\ attached' \subseteq attached
      BY <1>4, <2>3 DEF User, UserEdit, Unplug, Plug, vars, Quiet
    <3>2. ASSUME NEW e \in Drives, NEW q \in Paths
          PROVE  \/ disk'[e][q] = disk[e][q] /\ (<<e, q>> \in dirty' <=> <<e, q>> \in dirty)
                 \/ <<e, q>> \in dirty'
      <4>1. ASSUME NEW d \in Drives, NEW p \in Paths, NEW c, UserEdit(d, p, c)
            PROVE  \/ disk'[e][q] = disk[e][q] /\ (<<e, q>> \in dirty' <=> <<e, q>> \in dirty)
                   \/ <<e, q>> \in dirty'
        <5>1. disk' = [disk EXCEPT ![d][p] = c] /\ dirty' = dirty \cup {<<d, p>>}
          BY <4>1 DEF UserEdit, SetDisk
        <5>2. CASE e = d /\ q = p
          BY <5>1, <5>2
        <5>3. CASE ~(e = d /\ q = p)
          BY <5>1, <5>3 DEF TypeInv, TypeOK
        <5> QED
          BY <5>2, <5>3
      <4>2. CASE UNCHANGED <<disk, dirty>>
        BY <4>2
      <4> QED
        BY <1>4, <4>1, <4>2 DEF User, Unplug, Plug, vars
    <3> QED
      BY <2>1, <2>3, <3>1, <3>2, BystanderStep
  <2> QED
    BY <2>2, <2>3
<1>5. CASE Caller
  <2>1. ASSUME NEW d \in Drives, NEW p \in Paths, VerifyFile(d, p)
        PROVE  DeliveryInv'
    BY <1>1, <2>1, NoOperation DEF VerifyFile, Quiet
  <2> QED
    BY <1>5, <2>1, IssueDelivers DEF Caller
<1> QED
  BY <1>2, <1>3, <1>4, <1>5 DEF Next

LEMMA DeliveryInvariant == RemovalsWork => (Spec => []DeliveryInv)
<1>1. Init => DeliveryInv
  BY DEF Init, DeliveryInv, WriteInv, RemoveInv, RenameInv, WriteSteps
<1>2. RemovalsWork /\ TypeInv /\ Verified /\ NothingStuck /\ DeliveryInv /\ [Next]_vars
        => DeliveryInv'
  BY DeliveryStep
<1>3. RemovalsWork => []RemovalsWork
  <2>1. RemovalsWork => RemovalsWork'
    BY DEF RemovalsWork
  <2> QED
    BY <2>1, PTL
<1> QED
  BY <1>1, <1>2, <1>3, TypeInvariant, TornInvariant, StuckInvariant, PTL DEF Spec

-----------------------------------------------------------------------------
(* What a successful result promises                                       *)

\* Only the last call of an operation reports success.
LEMMA SuccessIsLast ==
  ASSUME TypeInv, Next, result' = "success", op # None
  PROVE  /\ (Mkdir /\ op.type = "MKDIR") \/ (Complete /\ pc = "complete")
         /\ UNCHANGED <<disk, manifest, dirty>>
<1> USE DEF Finish, storage, process, environment
<1>1. result = "none" /\ pc \notin {"idle", "down", "recover"}
  BY DEF TypeInv, ProcessInv
<1>2. Execute
  BY <1>1 DEF Next, Recover, RecoverDone, RecoverFile, RecoverComplete, Lifecycle, Start,
              Exit, Crash, User, UserEdit, Unplug, Plug, Caller, Issue, VerifyFile
<1>3. Mkdir \/ Complete
  BY <1>1, <1>2
     DEF Execute, Refuse, WriteVerifySource, WriteBegin, WriteOpen, WriteCopy, WriteVerify,
         WriteRename, WriteUpsert, CatchRemove, CatchComplete, RemoveBegin, RemoveFile,
         RemoveUpsert, RenameBegin, RenameFile, RenameFailed, RenameDelete, RenameUpsert
<1> QED
  BY <1>3 DEF Mkdir, Complete

LEMMA SuccessStep ==
  ASSUME TypeInv, DeliveryInv, [Next]_vars, result' = "success", op # None
  PROVE  Delivered
<1>1. Next
  BY DEF vars, process, TypeInv, ProcessInv
<1>2. UNCHANGED <<disk, manifest, dirty>>
  BY <1>1, SuccessIsLast
<1>3. CASE op.type = "MKDIR"
  BY <1>3 DEF Delivered
<1>4. CASE pc = "complete" /\ op.type \in {"COPY", "RESTORE"}
  <2>1. /\ manifest'[op.target][op.path] = meta /\ meta # None /\ ~meta.tombstone
        /\ disk'[op.target][op.path] = meta.hash \/ <<op.target, op.path>> \in dirty
        /\ op.type = "COPY" => meta.vv = op.vv
        /\ op.type = "RESTORE" => ~meta.corrupted
    BY <1>2, <1>4 DEF TypeInv, ProcessInv, DeliveryInv, WriteInv, Writes, Edited
  <2> QED
    BY <1>2, <1>4, <2>1 DEF Delivered
<1>5. CASE pc = "complete" /\ op.type = "REMOVE"
  BY <1>2, <1>5 DEF Delivered, DeliveryInv, RemoveInv, Gone, Edited
<1>6. CASE pc = "complete" /\ op.type = "RENAME"
  BY <1>2, <1>6 DEF Delivered, DeliveryInv, RenameInv, Gone, Kept, Edited, Present, Live
<1>7. op.type \in {"MKDIR", "COPY", "REMOVE", "RENAME", "RESTORE"}
  BY ConstantsAssumption DEF TypeInv, TypeOK, Op
<1> QED
  BY <1>1, <1>3, <1>4, <1>5, <1>6, <1>7, SuccessIsLast

\* SuccessIsDelivered for every instance in which fs::remove works: whatever
\* else fails, is pulled or is edited on the way, an operation that reports
\* success has left its file and its row.
THEOREM SuccessMeansDelivered == RemovalsWork => (Spec => SuccessIsDelivered)
<1>1. TypeInv /\ DeliveryInv /\ [Next]_vars
        => [result' = "success" /\ op # None => Delivered]_vars
  BY SuccessStep
<1> QED
  BY <1>1, TypeInvariant, DeliveryInvariant, PTL DEF Spec, SuccessIsDelivered

-----------------------------------------------------------------------------
(* Where the content of a file may come from                               *)

Vouched(d, p) ==
  \/ meta # None /\ disk'[d][p] = meta.hash
  \/ op # None /\ op.type = "RENAME" /\ disk'[d][p] = disk[d][op.path]
  \/ \E q \in Paths : Present(d, q) /\ disk'[d][p] = manifest[d][q].hash

LEMMA ContentStep ==
  ASSUME TypeInv, Verified, [Next]_vars, NEW d \in Drives, NEW p \in Paths,
         disk'[d][p] \notin {disk[d][p], None}, <<d, p>> \notin dirty'
  PROVE  Vouched(d, p)
<1> USE DEF storage, process, environment
<1>1. disk \in [Drives -> [Paths -> Contents \cup {None, Torn}]]
  BY DEF TypeInv, TypeOK
<1>2. CASE WriteRename
  <2>1. /\ disk'[d][p] = tmp[op.target][op.path] /\ pc = "writeRename"
    BY <1>1, <1>2 DEF WriteRename, SetDisk
  <2> QED
    BY <2>1 DEF Vouched, Verified, TypeInv, ProcessInv, WriteSteps
<1>3. CASE RemoveFile
  BY <1>1, <1>3 DEF RemoveFile, SetDisk
<1>4. CASE RenameFile
  <2>1. /\ pc = "renameFile" /\ op # None /\ op.type = "RENAME"
        /\ op.target \in Drives /\ op.path \in Paths /\ op.newPath \in Paths
    BY <1>4, RunningOp DEF RenameFile, TypeInv, ProcessInv, RenameSteps
  <2>2. disk' = [disk EXCEPT ![op.target] = [@ EXCEPT ![op.path] = None,
                                    ![op.newPath] = disk[op.target][op.path]]]
    BY <1>4 DEF RenameFile
  <2>3. d = op.target /\ disk'[d][p] = disk[d][op.path]
    BY <1>1, <2>1, <2>2
  <2> QED
    BY <2>1, <2>3 DEF Vouched
<1>5. ASSUME NEW e \in Drives, RecoverFile(e)
      PROVE  Vouched(d, p)
  <2>1. PICK r \in log[e] : TmpIsValid(e, r.path) /\ SetDisk(e, r.path, tmp[e][r.path])
    BY <1>5 DEF RecoverFile
  <2>2. r.path \in Paths
    BY DEF TypeInv, TypeOK, LogRow
  <2>3. d = e /\ p = r.path /\ disk'[d][p] = tmp[d][p]
    BY <1>1, <2>1, <2>2 DEF SetDisk
  <2> QED
    BY <2>1, <2>2, <2>3 DEF TmpIsValid, Vouched
<1>6. ASSUME NEW e \in Drives, NEW q \in Paths, NEW c, UserEdit(e, q, c)
      PROVE  FALSE
  <2>1. e = d /\ q = p
    BY <1>1, <1>6 DEF UserEdit, SetDisk
  <2> QED
    BY <1>6, <2>1 DEF UserEdit
<1>7. ~UNCHANGED disk
  OBVIOUS
<1> QED
  <2>1. CASE Execute
    BY <1>2, <1>3, <1>4, <1>7, <2>1
       DEF Execute, Refuse, Mkdir, WriteVerifySource, WriteBegin, WriteOpen, WriteCopy,
           WriteVerify, WriteUpsert, CatchRemove, CatchComplete, RemoveBegin, RemoveUpsert,
           RenameBegin, RenameFailed, RenameDelete, RenameUpsert, Complete
  <2>2. CASE Recover \/ Lifecycle
    BY <1>5, <1>7, <2>2
       DEF Recover, RecoverDone, RecoverComplete, Lifecycle, Start, Exit, Crash
  <2>3. CASE User \/ Caller \/ UNCHANGED vars
    BY <1>6, <1>7, <2>3 DEF User, Unplug, Plug, Caller, Issue, VerifyFile, vars
  <2> QED
    BY <2>1, <2>2, <2>3 DEF Next

\* ContentIsVouchedFor for every instance, removals that fail included: no
\* step of a write, a rename or recovery puts anything under a file's name
\* that no row answers for.
THEOREM NoUnknownContent == Spec => ContentIsVouchedFor
<1>1. TypeInv /\ Verified /\ [Next]_vars
        => [\A d \in Drives, p \in Paths :
              disk'[d][p] \notin {disk[d][p], None} /\ <<d, p>> \notin dirty' =>
                Vouched(d, p)]_vars
  BY ContentStep
<1> QED
  BY <1>1, TypeInvariant, TornInvariant, PTL DEF Spec, ContentIsVouchedFor, Vouched

-----------------------------------------------------------------------------
(* What the log tells of a disagreement                                    *)

\* A row without its file, or a file without its row.
Missing(d, p) == Live(d, p) <=> disk[d][p] = None

\* A rename carries whatever is under the old name to the new one.
Bad(d, p) == Missing(d, p) \/ ("RENAME" \notin OpTypes /\ Disagrees(d, p))

\* The running operation has a row of its own in the log of its target.
Logged == pc \notin Quiet \cup {"start", "writeBegin"}

\* It has begun to change the file p on drive d and has not ended yet; where
\* the drive is gone it will not.
InFlight(d, p) ==
  /\ d = op.target
  /\ \/ pc \in {"writeUpsert", "removeUpsert"} /\ p = op.path
     \/ pc \in {"renameDelete", "renameUpsert"} /\ p \in {op.path, op.newPath}
     \/ pc \in {"catchRemove", "catchComplete"} /\ p = op.path /\ d \notin attached

TellsOf(r, p) == r.path = p \/ r.operation = "RENAME"

Told(d, p) ==
  Bad(d, p) /\ <<d, p>> \notin dirty =>
    /\ \E r \in log[d] : TellsOf(r, p)
    /\ Logged /\ ~InFlight(d, p) =>
         \E r \in log[d] : TellsOf(r, p) /\ ~(d = op.target /\ r.id = rows[d])

\* A write has something to put under the file's name.
Filled ==
  /\ pc \in {"writeCopy", "writeVerify", "writeRename"} => tmp[op.target][op.path] # None
  /\ pc = "writeUpsert" \/ (pc = "complete" /\ Writes) => Kept(op.path)

HonestInv == Filled /\ \A d \in Drives, p \in Paths : Told(d, p)

\* A call that does not touch a file leaves what is said of it.
LEMMA Untouched ==
  ASSUME NEW d, NEW p, Told(d, p), log' = log, rows' = rows,
         Bad(d, p)' /\ <<d, p>> \notin dirty' => Bad(d, p) /\ <<d, p>> \notin dirty,
         ~Logged' \/ (op' = op /\ Logged /\ (InFlight(d, p) => InFlight(d, p)'))
  PROVE  Told(d, p)'
  BY DEF Told, TellsOf

\* The operation's own row tells of the files it is changing.
LEMMA Touched ==
  ASSUME LogOk, NEW d, NEW p, d = op.target, Logged,
         p = op.path \/ op.type = "RENAME",
         log' = log, rows' = rows, op' = op, InFlight(d, p)'
  PROVE  Told(d, p)'
<1>1. \E r \in log[d] : TellsOf(r, p)
  BY DEF LogOk, LogInv, Logged, Quiet, TellsOf, OperationName
<1> QED
  BY <1>1 DEF Told, TellsOf

\* A new row is the operation's; the older ones tell what they told before.
LEMMA BeginTells ==
  ASSUME TypeInv, LogOk, NEW d \in Drives, NEW p \in Paths, Told(d, p), ~Logged,
         NEW operation, BeginOperation(operation), op' = op, op.target \in Drives,
         UNCHANGED <<disk, manifest, dirty>>
  PROVE  Told(d, p)'
<1>1. /\ log \in [Drives -> SUBSET LogRow] /\ rows \in [Drives -> Nat]
      /\ \A r \in log[d] : r.id \in Nat
  BY DEF TypeInv, TypeOK, LogRow
<1>2. /\ log[d] \subseteq log'[d]
      /\ d = op.target => rows'[d] = rows[d] + 1
  BY <1>1 DEF BeginOperation
<1>3. \A r \in log[d] : r.id <= rows[d]
  BY DEF LogOk, LogInv
<1>4. \A r \in log[d] : ~(d = op'.target /\ r.id = rows'[d])
  BY <1>1, <1>2, <1>3
<1>5. Bad(d, p)' => Bad(d, p)
  BY DEF Bad, Missing, Disagrees, Live, Present
<1> QED
  BY <1>2, <1>4, <1>5 DEF Told, TellsOf

\* When the operation's row goes, others tell of what is still wrong.
LEMMA CompleteTells ==
  ASSUME TypeInv, NEW d \in Drives, NEW p \in Paths, Told(d, p), Logged,
         CompleteOperation, ~InFlight(d, p), ~Logged', op.target \in Drives,
         UNCHANGED <<disk, manifest, dirty>>
  PROVE  Told(d, p)'
<1>1. /\ log \in [Drives -> SUBSET LogRow]
  BY DEF TypeInv, TypeOK
<1>2. log'[d] = IF d = op.target THEN {r \in log[d] : r.id # rows[d]} ELSE log[d]
  BY <1>1 DEF CompleteOperation
<1>3. Bad(d, p)' => Bad(d, p)
  BY DEF Bad, Missing, Disagrees, Live, Present
<1> QED
  BY <1>2, <1>3 DEF Told, TellsOf

\* Whether a file is bad hangs on the file and its row only.
LEMMA SameFile ==
  ASSUME NEW d, NEW p, disk'[d][p] = disk[d][p],
         \/ manifest'[d][p] = manifest[d][p]
         \/ /\ Live(d, p) /\ Live(d, p)'
            /\ manifest'[d][p].hash = manifest[d][p].hash
  PROVE  Bad(d, p)' <=> Bad(d, p)
  BY DEF Bad, Missing, Disagrees, Live, Present

LEMMA FilledStep ==
  ASSUME TypeInv, Filled, [Next]_vars
  PROVE  Filled'
<1> USE DEF storage, process, environment, Goto, Finish, Catch, Writes
<1>1. /\ disk \in [Drives -> [Paths -> Contents \cup {None, Torn}]]
      /\ tmp \in [Drives -> [Paths -> Contents \cup {None, Torn}]]
      /\ pc \notin Quiet => op.target \in Drives /\ op.path \in Paths
      /\ Torn # None
  BY RunningOp, ConstantsAssumption DEF TypeInv, TypeOK, Quiet
<1>2. CASE WriteOpen
  BY <1>1, <1>2 DEF WriteOpen, SetTmp, Filled, Quiet
<1>3. CASE WriteCopy
  <2>1. \A c \in Copied : c # None
    BY <1>1 DEF Copied
  <2>2. CASE pc' = "catchRemove"
    BY <2>2 DEF Filled
  <2>3. CASE \E c \in Copied : SetTmp(op.target, op.path, c) /\ pc' = "writeVerify"
    <3>1. PICK c \in Copied : tmp' = [tmp EXCEPT ![op.target][op.path] = c]
      BY <2>3 DEF SetTmp
    <3>2. tmp'[op.target][op.path] = c
      BY <1>1, <1>3, <3>1 DEF WriteCopy, Quiet
    <3> QED
      BY <1>3, <2>1, <2>3, <3>2 DEF WriteCopy, Filled
  <2> QED
    BY <1>3, <2>2, <2>3 DEF WriteCopy
<1>4. CASE WriteVerify
  BY <1>4 DEF WriteVerify, Filled
<1>5. CASE WriteRename
  BY <1>1, <1>5 DEF WriteRename, SetDisk, Filled, Kept, Quiet
<1>6. CASE WriteUpsert
  BY <1>6 DEF WriteUpsert, Filled, Kept, Edited
<1>7. ASSUME NEW d \in Drives, NEW p \in Paths, NEW c, UserEdit(d, p, c)
      PROVE  Filled'
  BY <1>1, <1>7 DEF UserEdit, SetDisk, Filled, Kept, Edited, Quiet
<1>8. CASE UNCHANGED <<disk, tmp, dirty, pc, op>>
  BY <1>8 DEF Filled, Kept, Edited
<1>9. CASE /\ pc' \notin {"writeCopy", "writeVerify", "writeRename", "writeUpsert"}
           /\ pc' = "complete" => ~Writes'
  BY <1>9 DEF Filled
<1>10. CASE Execute
  <2>1. /\ pc \in RemoveSteps => op.type = "REMOVE"
        /\ pc \in RenameSteps => op.type = "RENAME"
    BY DEF TypeInv, ProcessInv
  <2> QED
    BY <1>2, <1>3, <1>4, <1>5, <1>6, <1>9, <1>10, <2>1
       DEF Execute, Refuse, Mkdir, WriteVerifySource, WriteBegin, CatchRemove, CatchComplete,
           RemoveBegin, RemoveFile, RemoveUpsert, RenameBegin, RenameFile, RenameFailed,
           RenameDelete, RenameUpsert, Complete, RemoveSteps, RenameSteps
<1>11. CASE Recover \/ Lifecycle
  BY <1>9, <1>11
     DEF Recover, RecoverDone, RecoverFile, RecoverComplete, Lifecycle, Start, Exit, Crash
<1>12. CASE User \/ Caller \/ UNCHANGED vars
  BY <1>7, <1>8, <1>9, <1>12 DEF User, Unplug, Plug, Caller, Issue, VerifyFile, vars
<1> QED
  BY <1>10, <1>11, <1>12 DEF Next

\* A write that has ended, a removal that has ended and a rename that has
\* ended leave nothing bad behind them but what the user did meanwhile.
LEMMA UpsertSettles ==
  ASSUME TypeInv, DeliveryInv, Filled, pc' = "complete", op.target \in attached,
         NEW d \in Drives, NEW p \in Paths, d = op.target,
         \/ WriteUpsert /\ p = op.path
         \/ RemoveUpsert /\ p = op.path
         \/ RenameUpsert /\ p \in {op.path, op.newPath}
  PROVE  ~Bad(d, p)' \/ <<d, p>> \in dirty'
<1> USE DEF Goto, Finish, Catch
<1>1. /\ op.path \in Paths /\ op.newPath \in Paths
      /\ op.type \in OpTypes /\ op # None /\ op.vv \in Nat
      /\ manifest \in [Drives -> [Paths -> Entry \cup {None}]]
  BY RunningOp DEF TypeInv, TypeOK, WriteUpsert, RemoveUpsert, RenameUpsert
<1>2. CASE WriteUpsert /\ p = op.path
  <2>1. /\ pc = "writeUpsert" /\ UNCHANGED <<disk, dirty, op>> /\ manifest'[d][p] = meta
    BY <1>1, <1>2 DEF WriteUpsert, SetRow
  <2>2. /\ meta # None /\ ~meta.tombstone
        /\ disk[d][p] = meta.hash \/ <<d, p>> \in dirty
        /\ disk[d][p] # None \/ <<d, p>> \in dirty
    BY <1>2, <2>1 DEF DeliveryInv, WriteInv, TypeInv, ProcessInv, WriteSteps, Filled, Kept, Edited
  <2>3. Live(d, p)'
    BY <2>1, <2>2 DEF Live, Present
  <2> QED
    BY <2>1, <2>2, <2>3 DEF Bad, Missing, Disagrees
<1>3. CASE RemoveUpsert /\ p = op.path
  <2>1. /\ pc = "removeUpsert" /\ UNCHANGED <<disk, dirty, op>>
        /\ manifest'[d][p] = Tombstone(d, p)
    BY <1>1, <1>3 DEF RemoveUpsert, SetRow
  <2>2. ~Live(d, p)'
    BY <1>1, <1>3, <2>1, TombstoneRow DEF Live, TypeInv
  <2>3. disk[d][p] = None \/ <<d, p>> \in dirty
    BY <1>3, <2>1 DEF DeliveryInv, RemoveInv, Gone, Edited
  <2> QED
    BY <2>1, <2>2, <2>3 DEF Bad, Missing, Disagrees
<1>4. CASE RenameUpsert /\ p \in {op.path, op.newPath}
  <2>1. /\ pc = "renameUpsert" /\ UNCHANGED <<disk, dirty, op>>
        /\ SetRow(d, op.newPath, meta) /\ op.type = "RENAME" /\ meta # None
    BY <1>4 DEF RenameUpsert, TypeInv, ProcessInv, RenameSteps
  <2>2. /\ Gone(op.path) /\ Kept(op.newPath) /\ ~Present(d, op.path)
        /\ ~meta.tombstone /\ op.newPath # op.path
    BY <1>1, <2>1 DEF DeliveryInv, RenameInv
  <2>3. /\ manifest'[d][op.newPath] = meta
        /\ manifest'[d][op.path] = manifest[d][op.path]
    BY <1>1, <2>1, <2>2 DEF SetRow
  <2>4. Live(d, op.newPath)' /\ ~Live(d, op.path)'
    BY <2>1, <2>2, <2>3 DEF Live, Present
  <2>5. "RENAME" \in OpTypes
    BY <1>1, <2>1
  <2>6. ~Missing(d, p)' \/ <<d, p>> \in dirty'
    BY <1>4, <2>1, <2>2, <2>4 DEF Missing, Gone, Kept, Edited
  <2> QED
    BY <2>5, <2>6 DEF Bad
<1> QED
  BY <1>2, <1>3, <1>4

\* The calls of an operation that change a file or its row.
LEMMA WriteTells ==
  ASSUME HardStopsOnly, NoFaults, TypeInv, LogOk, DeliveryInv, HonestInv,
         NEW d \in Drives, NEW p \in Paths,
         WriteRename \/ WriteUpsert \/ RemoveFile \/ RemoveUpsert
  PROVE  Told(d, p)'
<1> USE DEF Goto, Finish, Catch
<1>1. /\ op.target \in Drives /\ op.path \in Paths /\ Logged
      /\ pc \in {"writeRename", "writeUpsert", "removeFile", "removeUpsert"}
      /\ UNCHANGED <<log, rows, attached>>
  BY RunningOp DEF WriteRename, WriteUpsert, RemoveFile, RemoveUpsert, Logged, Quiet
<1>2. Told(d, p)
  BY DEF HonestInv
<1>3. /\ disk \in [Drives -> [Paths -> Contents \cup {None, Torn}]]
      /\ manifest \in [Drives -> [Paths -> Entry \cup {None}]]
  BY DEF TypeInv, TypeOK
<1>4. ASSUME ~(d = op.target /\ p = op.path)
      PROVE  Told(d, p)'
  <2>1. /\ disk'[d][p] = disk[d][p] /\ manifest'[d][p] = manifest[d][p]
        /\ <<d, p>> \in dirty' <=> <<d, p>> \in dirty
    BY <1>1, <1>3, <1>4
       DEF WriteRename, WriteUpsert, RemoveFile, RemoveUpsert, SetDisk, SetRow
  <2>2. Bad(d, p)' <=> Bad(d, p)
    BY <2>1, SameFile
  <2>3. ~Logged' \/ op' = op
    BY DEF WriteRename, WriteUpsert, RemoveFile, RemoveUpsert, Logged, Quiet
  <2>4. ~InFlight(d, p)
    BY <1>1, <1>4 DEF InFlight
  <2> QED
    BY <1>1, <1>2, <2>1, <2>2, <2>3, <2>4, Untouched
<1>5. CASE d = op.target /\ p = op.path
  <2>1. CASE ~Logged' /\ UNCHANGED <<disk, manifest, dirty>>
    <3>1. Bad(d, p)' <=> Bad(d, p)
      BY <2>1, SameFile
    <3> QED
      BY <1>1, <1>2, <2>1, <3>1, Untouched
  <2>2. CASE op' = op /\ pc' \in {"writeUpsert", "removeUpsert"}
    BY <1>1, <1>5, <2>2, Touched DEF InFlight
  <2>3. CASE pc' = "complete"
    <3>1. op.target \in attached
      BY <2>3 DEF WriteRename, WriteUpsert, RemoveFile, RemoveUpsert, CallOk
    <3>2. WriteUpsert \/ RemoveUpsert
      BY <2>3 DEF WriteRename, RemoveFile
    <3> QED
      BY <1>5, <2>3, <3>1, <3>2, UpsertSettles DEF HonestInv, Told
  <2>4. CASE op' = op /\ pc' = "catchRemove" /\ d \notin attached
    BY <1>1, <1>5, <2>4, Touched DEF InFlight
  <2>5. CallFails(d) => d \notin attached
    BY DEF HardStopsOnly, NoFaults, CallFails, Spend
  <2> QED
    BY <1>1, <1>5, <2>1, <2>2, <2>3, <2>4, <2>5
       DEF WriteRename, WriteUpsert, RemoveFile, RemoveUpsert, Logged, Quiet
<1> QED
  BY <1>4, <1>5

LEMMA RenameTells ==
  ASSUME TypeInv, LogOk, DeliveryInv, HonestInv,
         NEW d \in Drives, NEW p \in Paths,
         RenameFile \/ RenameDelete \/ RenameUpsert
  PROVE  Told(d, p)'
<1> USE DEF Goto, Finish
<1>1. /\ op.target \in Drives /\ op.path \in Paths /\ op.newPath \in Paths /\ Logged
      /\ pc \in {"renameFile", "renameDelete", "renameUpsert"}
      /\ op # None /\ op.type = "RENAME"
      /\ UNCHANGED <<log, rows, attached>>
  BY RunningOp DEF RenameFile, RenameDelete, RenameUpsert, Logged, Quiet,
                   TypeInv, ProcessInv, RenameSteps
<1>2. Told(d, p)
  BY DEF HonestInv
<1>3. /\ disk \in [Drives -> [Paths -> Contents \cup {None, Torn}]]
      /\ manifest \in [Drives -> [Paths -> Entry \cup {None}]]
  BY DEF TypeInv, TypeOK
<1>4. ASSUME ~(d = op.target /\ p \in {op.path, op.newPath})
      PROVE  Told(d, p)'
  <2>1. CASE RenameFile
    <3>1. disk'[d][p] = disk[d][p]
      <4>1. CASE disk' = [disk EXCEPT ![op.target] = [@ EXCEPT ![op.path] = None,
                                    ![op.newPath] = disk[op.target][op.path]]]
        BY <1>1, <1>3, <1>4, <4>1
      <4> QED
        BY <2>1, <4>1 DEF RenameFile
    <3>2. <<d, p>> \in dirty' <=> <<d, p>> \in dirty
      BY <1>4, <2>1 DEF RenameFile
    <3>3. op' = op /\ Bad(d, p)' <=> Bad(d, p)
      BY <2>1, <3>1, SameFile DEF RenameFile
    <3>4. ~InFlight(d, p)
      BY <1>1, <1>4 DEF InFlight
    <3> QED
      BY <1>1, <1>2, <2>1, <3>2, <3>3, <3>4, Untouched DEF RenameFile
  <2>2. CASE RenameDelete \/ RenameUpsert
    <3>1. /\ disk'[d][p] = disk[d][p] /\ manifest'[d][p] = manifest[d][p]
          /\ dirty' = dirty
      BY <1>1, <1>3, <1>4, <2>2 DEF RenameDelete, RenameUpsert, SetRow
    <3>2. Bad(d, p)' <=> Bad(d, p)
      BY <3>1, SameFile
    <3>3. ~Logged' \/ op' = op
      BY <2>2 DEF RenameDelete, RenameUpsert, Logged, Quiet
    <3>4. ~InFlight(d, p)
      BY <1>1, <1>4 DEF InFlight
    <3> QED
      BY <1>1, <1>2, <3>1, <3>2, <3>3, <3>4, Untouched
  <2> QED
    BY <2>1, <2>2
<1>5. CASE d = op.target /\ p \in {op.path, op.newPath}
  <2>1. CASE RenameFile /\ pc' = "renameDelete"
    BY <1>1, <1>5, <2>1, Touched DEF InFlight, RenameFile
  <2>2. CASE RenameDelete /\ pc' = "renameUpsert"
    BY <1>1, <1>5, <2>2, Touched DEF InFlight, RenameDelete
  <2>3. CASE RenameUpsert /\ pc' = "complete"
    <3>1. op.target \in attached
      BY <2>3 DEF RenameUpsert, CallOk
    <3> QED
      BY <1>5, <2>3, <3>1, UpsertSettles DEF HonestInv, Told
  <2>4. CASE /\ UNCHANGED <<disk, manifest, dirty>>
             /\ ~Logged' \/ (op' = op /\ pc = "renameFile")
    <3>1. Bad(d, p)' <=> Bad(d, p)
      BY <2>4, SameFile
    <3>2. pc = "renameFile" => ~InFlight(d, p)
      BY DEF InFlight
    <3> QED
      BY <1>1, <1>2, <2>4, <3>1, <3>2, Untouched
  <2>5. Live(op.target, op.path) \/ pc # "renameDelete"
    BY <1>1 DEF DeliveryInv, RenameInv
  <2> QED
    BY <1>1, <2>1, <2>2, <2>3, <2>4, <2>5
       DEF RenameFile, RenameDelete, RenameUpsert, Logged, Quiet, Live, Present
<1> QED
  BY <1>4, <1>5

\* The calls that leave files and rows alone.
LEMMA CallTells ==
  ASSUME HardStopsOnly, NoFaults, TypeInv, LogOk, DeliveryInv, HonestInv,
         NEW d \in Drives, NEW p \in Paths, Execute,
         UNCHANGED <<disk, manifest, dirty>>
  PROVE  Told(d, p)'
<1> USE DEF Goto, Finish, Catch, storage, environment
<1>1. Told(d, p) /\ (Bad(d, p)' <=> Bad(d, p))
  BY SameFile DEF HonestInv
<1>2. pc \notin Quiet /\ op.target \in Drives
  <2>1. pc \notin Quiet
    BY DEF Execute, Refuse, Mkdir, WriteVerifySource, WriteBegin, WriteOpen, WriteCopy,
           WriteVerify, WriteRename, WriteUpsert, CatchRemove, CatchComplete, RemoveBegin,
           RemoveFile, RemoveUpsert, RenameBegin, RenameFile, RenameFailed, RenameDelete,
           RenameUpsert, Complete, Quiet
  <2> QED
    BY <2>1, RunningOp DEF Quiet
<1>3. CASE WriteBegin \/ RemoveBegin \/ RenameBegin
  <2>1. ~Logged
    BY <1>3 DEF WriteBegin, RemoveBegin, RenameBegin, Logged
  <2>2. ASSUME NEW operation, BeginOperation(operation), op' = op
        PROVE  Told(d, p)'
    BY <1>1, <1>2, <2>1, <2>2, BeginTells
  <2>3. CASE log' = log /\ rows' = rows /\ ~Logged'
    BY <1>1, <2>3, Untouched
  <2> QED
    BY <1>3, <2>2, <2>3 DEF WriteBegin, RemoveBegin, RenameBegin, Logged, Quiet
<1>4. CASE CatchComplete \/ RenameFailed \/ Complete
  <2>1. Logged
    BY <1>4 DEF CatchComplete, RenameFailed, Complete, Logged, Quiet
  <2>2. CASE CompleteOperation /\ op.target \in attached /\ ~Logged'
    <3>1. ~InFlight(d, p)
      BY <1>4, <2>2 DEF CatchComplete, RenameFailed, Complete, InFlight
    <3> QED
      BY <1>1, <1>2, <2>1, <2>2, <3>1, CompleteTells
  <2>3. CASE log' = log /\ rows' = rows /\ ~Logged'
    BY <1>1, <2>3, Untouched
  <2>4. CASE log' = log /\ rows' = rows /\ op' = op /\ pc = "complete"
    <3>1. ~InFlight(d, p)
      BY <2>4 DEF InFlight
    <3> QED
      BY <1>1, <2>1, <2>4, <3>1, Untouched
  <2> QED
    BY <1>4, <2>2, <2>3, <2>4 DEF CatchComplete, RenameFailed, Complete, CallOk, Logged, Quiet
<1>5. CASE /\ log' = log /\ rows' = rows
           /\ ~Logged' \/ (op' = op /\ Logged /\ (InFlight(d, p) => InFlight(d, p)'))
  BY <1>1, <1>5, Untouched
<1>6. CASE CatchRemove \/ Refuse \/ Mkdir \/ WriteVerifySource \/ WriteOpen \/ WriteCopy
           \/ WriteVerify
  BY <1>5, <1>6
     DEF CatchRemove, Refuse, Mkdir, WriteVerifySource, WriteOpen, WriteCopy, WriteVerify,
         Logged, Quiet, InFlight
<1> QED
  BY <1>3, <1>4, <1>6, WriteTells, RenameTells DEF Execute

LEMMA ToldStep ==
  ASSUME HardStopsOnly, NoFaults, TypeInv, LogOk, DeliveryInv, HonestInv, [Next]_vars,
         NEW d \in Drives, NEW p \in Paths
  PROVE  Told(d, p)'
<1> USE DEF Goto, storage, process, environment
<1>1. Told(d, p)
  BY DEF HonestInv
<1>2. CASE UNCHANGED <<disk, manifest, dirty>> /\ ~Execute
  <2>1. Bad(d, p)' <=> Bad(d, p)
    BY <1>2, SameFile
  <2>2. /\ log' = log /\ rows' = rows
        /\ \/ ~Logged'
           \/ op' = op /\ pc' = pc /\ attached' \subseteq attached
    <3>1. pc # "recover"
      BY DEF TypeInv, ProcessInv, HardStopsOnly
    <3> QED
      BY <1>2, <3>1
         DEF Next, Recover, RecoverDone, RecoverFile, RecoverComplete, Lifecycle, Start, Exit,
             Crash, User, UserEdit, Unplug, Plug, Caller, Issue, VerifyFile, vars, Logged, Quiet
  <2>3. ~Logged' \/ (op' = op /\ Logged /\ (InFlight(d, p) => InFlight(d, p)'))
    BY <2>2 DEF Logged, InFlight
  <2> QED
    BY <1>1, <1>2, <2>1, <2>2, <2>3, Untouched
<1>3. ASSUME NEW e \in Drives, NEW q \in Paths, NEW c, UserEdit(e, q, c)
      PROVE  Told(d, p)'
  <2>1. CASE d = e /\ p = q
    BY <1>3, <2>1 DEF UserEdit, Told
  <2>2. CASE ~(d = e /\ p = q)
    <3>1. /\ disk'[d][p] = disk[d][p] /\ manifest'[d][p] = manifest[d][p]
          /\ <<d, p>> \in dirty' <=> <<d, p>> \in dirty
      BY <1>3, <2>2 DEF UserEdit, SetDisk, TypeInv, TypeOK
    <3>2. Bad(d, p)' <=> Bad(d, p)
      BY <3>1, SameFile
    <3>3. ~Logged' \/ (op' = op /\ Logged /\ (InFlight(d, p) => InFlight(d, p)'))
      BY <1>3 DEF UserEdit, Logged, InFlight
    <3> QED
      BY <1>1, <1>3, <3>1, <3>2, <3>3, Untouched DEF UserEdit
  <2> QED
    BY <2>1, <2>2
<1>4. ASSUME NEW e \in Drives, NEW q \in Paths, VerifyFile(e, q)
      PROVE  Told(d, p)'
  <2>1. /\ Live(e, q) /\ UNCHANGED <<disk, dirty, log, rows>> /\ ~Logged'
        /\ manifest' = [manifest EXCEPT ![e][q] = WithCorrupted(manifest[e][q], TRUE)]
    BY <1>4 DEF VerifyFile, SetRow, Logged, Quiet
  <2>2. Bad(d, p)' <=> Bad(d, p)
    <3>1. CASE d = e /\ p = q
      <4>1. manifest'[d][p] = WithCorrupted(manifest[d][p], TRUE)
        BY <2>1, <3>1 DEF TypeInv, TypeOK
      <4>2. WithCorrupted(manifest[d][p], TRUE) \in Entry
        <5>1. manifest[d][p] \in Entry
          BY <2>1, <3>1 DEF Live, Present, TypeInv, TypeOK
        <5> QED
          BY <5>1, RowTypes
      <4>3. /\ ~WithCorrupted(manifest[d][p], TRUE).tombstone
            /\ WithCorrupted(manifest[d][p], TRUE).hash = manifest[d][p].hash
        BY <2>1, <3>1 DEF WithCorrupted, Row, Live
      <4>4. Live(d, p) /\ Live(d, p)' /\ manifest'[d][p].hash = manifest[d][p].hash
        BY <2>1, <3>1, <4>1, <4>2, <4>3, NoneIsNoEntry DEF Live, Present
      <4> QED
        BY <2>1, <4>4, SameFile
    <3>2. CASE ~(d = e /\ p = q)
      <4>1. manifest'[d][p] = manifest[d][p]
        BY <2>1, <3>2 DEF TypeInv, TypeOK
      <4> QED
        BY <2>1, <4>1, SameFile
    <3> QED
      BY <3>1, <3>2
  <2> QED
    BY <1>1, <2>1, <2>2, Untouched
<1>5. CASE Execute
  <2>1. \/ WriteRename \/ WriteUpsert \/ RemoveFile \/ RemoveUpsert
        \/ RenameFile \/ RenameDelete \/ RenameUpsert
        \/ UNCHANGED <<disk, manifest, dirty>>
    BY <1>5
       DEF Execute, Refuse, Mkdir, WriteVerifySource, WriteBegin, WriteOpen, WriteCopy,
           WriteVerify, CatchRemove, CatchComplete, RemoveBegin, RenameBegin, RenameFailed,
           Complete
  <2> QED
    BY <1>5, <2>1, WriteTells, RenameTells, CallTells
<1> QED
  <2>1. pc # "recover"
    BY DEF TypeInv, ProcessInv, HardStopsOnly
  <2>2. CASE Recover \/ Lifecycle
    BY <1>2, <1>5, <2>1, <2>2
       DEF Recover, RecoverDone, RecoverFile, RecoverComplete, Lifecycle, Start, Exit, Crash
  <2>3. CASE User \/ Caller \/ UNCHANGED vars
    BY <1>2, <1>3, <1>4, <1>5, <2>3 DEF User, Unplug, Plug, Caller, Issue, vars
  <2> QED
    BY <1>5, <2>2, <2>3 DEF Next

LEMMA ScannedHash ==
  ASSUME NEW row \in ScannedRows
  PROVE  row.hash # None
<1>1. PICK hash \in Contents, tombstone \in BOOLEAN :
        row = Row(hash, tombstone, FALSE, 0)
  BY DEF ScannedRows, Row
<1> QED
  BY <1>1, ConstantsAssumption DEF Row

LEMMA HonestInvariant == HardStopsOnly => (Spec => []HonestInv)
<1>1. Init => HonestInv
  <2> SUFFICES ASSUME Init, NEW d \in Drives, NEW p \in Paths PROVE ~Bad(d, p)
    BY DEF HonestInv, Filled, Told, Init
  <2>1. Scanned(disk[d][p], manifest[d][p])
    BY DEF Init
  <2>2. manifest[d][p] \in {None} \cup ScannedRows
    BY DEF Init
  <2>3. CASE manifest[d][p] = None
    BY <2>1, <2>3 DEF Scanned, Bad, Missing, Disagrees, Live, Present
  <2>4. CASE manifest[d][p] # None
    <3>1. /\ manifest[d][p].hash # None
          /\ disk[d][p] = IF manifest[d][p].tombstone THEN None ELSE manifest[d][p].hash
      BY <2>1, <2>2, <2>4, ScannedHash DEF Scanned
    <3> QED
      BY <2>4, <3>1 DEF Bad, Missing, Disagrees, Live, Present
  <2> QED
    BY <2>3, <2>4
<1>2. HardStopsOnly /\ NoFaults /\ TypeInv /\ LogOk /\ DeliveryInv /\ HonestInv /\ [Next]_vars
        => HonestInv'
  BY FilledStep, ToldStep DEF HonestInv
<1>3. HardStopsOnly => RemovalsWork
  BY DEF HardStopsOnly
<1>4. HardStopsOnly => []HardStopsOnly
  <2>1. HardStopsOnly => HardStopsOnly'
    BY DEF HardStopsOnly, RemovalsWork
  <2> QED
    BY <2>1, PTL
<1> QED
  BY <1>1, <1>2, <1>3, <1>4, TypeInvariant, LogInvariant, FaultInvariant, DeliveryInvariant, PTL
     DEF Spec

\* A row without its file or a file without its row, where the user has not
\* been at it, has an incomplete log row to tell of it.
MissingIsLogged ==
  \A d \in Drives, p \in Paths :
    Missing(d, p) /\ <<d, p>> \notin dirty => \E r \in log[d] : TellsOf(r, p)

\* Whatever crashes and pulled drives leave behind, the log tells where a file
\* or a row is missing; and where nothing is renamed, where they differ.  (A
\* rename carries a difference on to a name the log does not know.)
THEOREM LogIsHonest ==
  HardStopsOnly =>
    (Spec => []MissingIsLogged /\ ("RENAME" \notin OpTypes => []MismatchIsLogged))
<1>1. HonestInv => ("RENAME" \notin OpTypes => MismatchIsLogged)
  BY DEF HonestInv, Told, Bad, TellsOf, MismatchIsLogged
<1>2. HonestInv => MissingIsLogged
  BY DEF HonestInv, Told, Bad, MissingIsLogged
<1>3. "RENAME" \notin OpTypes => []("RENAME" \notin OpTypes)
  <2>1. "RENAME" \notin OpTypes => ("RENAME" \notin OpTypes)'
    OBVIOUS
  <2> QED
    BY <2>1, PTL
<1> QED
  BY <1>1, <1>2, <1>3, HonestInvariant, PTL

=============================================================================
