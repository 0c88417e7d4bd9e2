--------------------------- MODULE ExecutorProofs ---------------------------
(* What Executor guarantees for every set of drives, paths and contents,   *)
(* every budget of crashes, pulled drives and failing calls.               *)
EXTENDS Executor, FiniteSetTheorems, TLAPS

WriteSteps == {"writeBegin", "writeOpen", "writeCopy", "writeVerify", "writeRename",
               "writeUpsert", "catchRemove", "catchComplete"}
RemoveSteps == {"removeFile", "removeUpsert"}
RenameSteps == {"renameFile", "renameFailed", "renameDelete", "renameUpsert"}

\* What the program counter says about the operation in progress.
ProcessInv ==
  /\ pc \in {"idle", "down", "recover"} <=> op = None
  /\ pc = "recover" => RecoverOnStart
  /\ op # None => result = "none"
  /\ pc \in WriteSteps => op.type \in {"COPY", "RESTORE"} /\ meta # None
  /\ pc \in RemoveSteps => op.type = "REMOVE"
  /\ pc \in RenameSteps => op.type = "RENAME"
  /\ pc = "renameUpsert" => meta # None
  /\ pc = "start" /\ op.type = "RESTORE" => Present(op.target, op.path)
  /\ pc = "complete" => op.type # "MKDIR"
  /\ pc = "complete" /\ op.type \in {"COPY", "RESTORE"} => meta # None

\* The temporary file about to be renamed has the hash that was asked for.
Verified ==
  pc = "writeRename" => tmp[op.target][op.path] = meta.hash

OperationName ==
  CASE op.type = "REMOVE" -> "DELETE" [] op.type = "RENAME" -> "RENAME" [] OTHER -> "WRITE"

\* Log rows have ids of their own, and from begin_operation on the running
\* operation has the youngest one.
LogInv ==
  /\ \A d \in Drives : \A r, s \in log[d] : r.id <= rows[d] /\ (r.id = s.id => r = s)
  /\ pc \notin {"idle", "down", "recover", "start", "writeBegin"} =>
       \E r \in log[op.target] :
         r.id = rows[op.target] /\ r.operation = OperationName /\ r.path = op.path

\* When the log row of a write that works is about to go, so has its temporary
\* file.
TmpGone ==
  pc \in {"writeUpsert", "complete"} /\ op.type \in {"COPY", "RESTORE"} =>
    tmp[op.target][op.path] = None

-----------------------------------------------------------------------------
(* Types                                                                   *)

TypeInv == TypeOK /\ ProcessInv

\* Changing one column of a row gives a row again.
LEMMA RowTypes ==
  /\ \A hash \in Contents \cup {None}, tombstone, corrupted \in BOOLEAN, vv \in Nat :
       Row(hash, tombstone, corrupted, vv) \in Entry
  /\ \A r \in Entry, vv \in Nat : WithVector(r, vv) \in Entry
  /\ \A r \in Entry, flag \in BOOLEAN : WithCorrupted(r, flag) \in Entry
  BY DEF Entry, Row, WithVector, WithCorrupted

\* A scanned row is a row.
LEMMA ScannedTypes == ScannedRows \subseteq Entry
<1> SUFFICES ASSUME NEW row \in ScannedRows PROVE row \in Entry
  OBVIOUS
<1>1. PICK hash \in Contents, tombstone \in BOOLEAN :
        row = Row(hash, tombstone, FALSE, 0)
  BY DEF ScannedRows, Row
<1> QED
  BY <1>1, RowTypes

\* The fields of the operation in progress.
LEMMA RunningOp ==
  ASSUME TypeInv, pc \notin {"idle", "down", "recover"}
  PROVE  /\ op \in Op /\ op # None
         /\ op.type \in OpTypes /\ op.source \in Drives /\ op.target \in Drives
         /\ op.path \in Paths /\ op.newPath \in Paths /\ op.vv \in Nat
  <1>1. op \in Op /\ op # None
    BY DEF TypeInv, TypeOK, ProcessInv
  <1> QED
    BY <1>1 DEF Op

\* Each call leaves what it writes well typed.
LEMMA StorageTypes ==
  ASSUME TypeOK, NEW d \in Drives, NEW p \in Paths
  PROVE  /\ \A c \in Contents \cup {None, Torn} :
              /\ SetDisk(d, p, c) => disk' \in [Drives -> [Paths -> Contents \cup {None, Torn}]]
              /\ SetTmp(d, p, c) => tmp' \in [Drives -> [Paths -> Contents \cup {None, Torn}]]
         /\ \A row \in Entry \cup {None} :
              SetRow(d, p, row) => manifest' \in [Drives -> [Paths -> Entry \cup {None}]]
  <1>1. ASSUME NEW c \in Contents \cup {None, Torn}, SetDisk(d, p, c)
        PROVE  disk' \in [Drives -> [Paths -> Contents \cup {None, Torn}]]
    BY <1>1 DEF TypeOK, SetDisk
  <1>2. ASSUME NEW c \in Contents \cup {None, Torn}, SetTmp(d, p, c)
        PROVE  tmp' \in [Drives -> [Paths -> Contents \cup {None, Torn}]]
    BY <1>2 DEF TypeOK, SetTmp
  <1>3. ASSUME NEW row \in Entry \cup {None}, SetRow(d, p, row)
        PROVE  manifest' \in [Drives -> [Paths -> Entry \cup {None}]]
    BY <1>3 DEF TypeOK, SetRow
  <1> QED
    BY <1>1, <1>2, <1>3

LEMMA LogTypes ==
  ASSUME TypeOK, op \in Op, op.target \in Drives, op.path \in Paths
  PROVE  /\ \A operation \in {"WRITE", "DELETE", "RENAME"} :
              BeginOperation(operation) =>
                log' \in [Drives -> SUBSET LogRow] /\ rows' \in [Drives -> Nat]
         /\ CompleteOperation => log' \in [Drives -> SUBSET LogRow]
  <1>1. ASSUME NEW operation \in {"WRITE", "DELETE", "RENAME"}, BeginOperation(operation)
        PROVE  log' \in [Drives -> SUBSET LogRow] /\ rows' \in [Drives -> Nat]
    <2>1. rows[op.target] \in Nat /\ mount[op.target] \in Mounts
      BY DEF TypeOK
    <2>2. [id |-> rows[op.target] + 1, operation |-> operation, path |-> op.path,
           mount |-> mount[op.target]] \in LogRow
      BY <2>1 DEF LogRow
    <2>3. rows' \in [Drives -> Nat]
      BY <1>1 DEF BeginOperation, TypeOK
    <2> QED
      BY <1>1, <2>2, <2>3 DEF BeginOperation, TypeOK
  <1>2. CompleteOperation => log' \in [Drives -> SUBSET LogRow]
    BY DEF CompleteOperation, TypeOK
  <1> QED
    BY <1>1, <1>2

LEMMA BudgetTypes ==
  ASSUME TypeOK
  PROVE  /\ \A what \in Spendings : Spend(what) => budget' \in [Spendings -> Nat]
         /\ \A d \in Drives : CallOk(d) \/ CallFails(d) => budget' \in [Spendings -> Nat]
  <1>1. ASSUME NEW what \in Spendings, Spend(what)
        PROVE  budget' \in [Spendings -> Nat]
    <2>1. budget[what] \in Nat /\ budget[what] - 1 \in Nat
      BY <1>1 DEF TypeOK, Spend
    <2> QED
      BY <1>1, <2>1 DEF TypeOK, Spend
  <1>2. "fault" \in Spendings
    BY DEF Spendings
  <1> QED
    BY <1>1, <1>2 DEF TypeOK, CallOk, CallFails

LEMMA TypeInvariant == Spec => []TypeInv
<1> USE ConstantsAssumption
<1>1. Init => TypeInv
  <2> SUFFICES ASSUME Init PROVE TypeInv
    OBVIOUS
  <2>1. manifest \in [Drives -> [Paths -> Entry \cup {None}]]
    BY ScannedTypes DEF Init
  <2>2. log \in [Drives -> SUBSET LogRow] /\ rows \in [Drives -> Nat]
    BY DEF Init
  <2> QED
    BY <2>1, <2>2 DEF Init, TypeInv, TypeOK, ProcessInv, Steps, WriteSteps, RemoveSteps, RenameSteps
<1>2. TypeInv /\ [Next]_vars => TypeInv'
  <2> SUFFICES ASSUME TypeInv, [Next]_vars PROVE TypeInv'
    OBVIOUS
  <2>0. TypeOK
    BY DEF TypeInv
  <2> USE DEF TypeInv, TypeOK, ProcessInv, WriteSteps, RemoveSteps, RenameSteps, Steps,
              Goto, Finish, storage, process, environment
  <2>1. CASE WriteVerifySource
    <3>1. op.type \in {"COPY", "RESTORE"} /\ pc = "start"
      BY <2>1 DEF WriteVerifySource
    <3>2. CASE Present(op.source, op.path) /\ meta' = NewMeta /\ pc' = "writeBegin"
                 /\ UNCHANGED <<op, result>>
      <4>1. NewMeta \in Entry
        <5>1. /\ op.source \in Drives /\ op.target \in Drives
              /\ op.path \in Paths /\ op.vv \in Nat
          BY <3>1, RunningOp
        <5>2. CASE op.type = "COPY"
          <6>1. manifest[op.source][op.path] \in Entry
            BY <3>2, <5>1 DEF Present
          <6> QED
            BY <5>1, <5>2, <6>1, RowTypes DEF NewMeta
        <5>3. CASE op.type = "RESTORE"
          <6>1. manifest[op.target][op.path] \in Entry
            BY <3>1, <5>1, <5>3 DEF Present
          <6> QED
            BY <5>1, <5>3, <6>1, RowTypes DEF NewMeta
        <5> QED
          BY <3>1, <5>2, <5>3
      <4> QED
        BY <2>0, <2>1, <3>1, <3>2, <4>1, RunningOp, NoneIsNoEntry DEF WriteVerifySource
    <3>3. CASE Finish("failure")
      BY <2>1, <3>3 DEF WriteVerifySource
    <3> QED
      BY <2>1, <3>2, <3>3 DEF WriteVerifySource
  <2>2. CASE WriteBegin
    BY <2>0, <2>2, RunningOp, BudgetTypes, LogTypes DEF WriteBegin
  <2>3. CASE WriteOpen
    BY <2>0, <2>3, RunningOp, BudgetTypes, StorageTypes DEF WriteOpen, Catch
  <2>4. CASE WriteCopy
    <3>1. /\ op \in Op /\ op # None /\ op.source \in Drives /\ op.target \in Drives
          /\ op.path \in Paths /\ meta \in Entry
      BY <2>4, RunningOp DEF WriteCopy
    <3>2. Copied \subseteq Contents \cup {None, Torn}
      BY <3>1 DEF Copied, Entry
    <3> QED
      BY <2>0, <2>4, <3>1, <3>2, BudgetTypes, StorageTypes DEF WriteCopy, Catch
  <2>5. CASE WriteVerify
    BY <2>0, <2>5, RunningOp, BudgetTypes, StorageTypes DEF WriteVerify, Catch
  <2>6. CASE WriteRename
    BY <2>0, <2>6, RunningOp, BudgetTypes, StorageTypes DEF WriteRename, Catch
  <2>7. CASE WriteUpsert
    BY <2>0, <2>7, RunningOp, BudgetTypes, StorageTypes DEF WriteUpsert, Catch
  <2>8. CASE CatchRemove
    <3>1. op.target \in Drives /\ op.path \in Paths /\ op \in Op /\ op # None
      BY <2>8, RunningOp DEF CatchRemove
    <3>2. tmp' \in [Drives -> [Paths -> Contents \cup {None, Torn}]]
      BY <2>0, <2>8, <3>1, StorageTypes DEF CatchRemove, TmpStays
    <3>3. budget' \in [Spendings -> Nat]
      BY <2>0, <2>8, <3>1, BudgetTypes DEF CatchRemove, TmpStays, Spendings
    <3> QED
      BY <2>8, <3>1, <3>2, <3>3 DEF CatchRemove
  <2>9. CASE CatchComplete
    BY <2>0, <2>9, RunningOp, BudgetTypes, LogTypes DEF CatchComplete
  <2>10. CASE RemoveBegin
    BY <2>0, <2>10, RunningOp, BudgetTypes, LogTypes DEF RemoveBegin
  <2>11. CASE RemoveFile
    BY <2>0, <2>11, RunningOp, BudgetTypes, StorageTypes DEF RemoveFile, Spendings
  <2>12. CASE RemoveUpsert
    <3>1. Tombstone(op.target, op.path) \in Entry
      <4>1. op.target \in Drives /\ op.path \in Paths /\ op.vv \in Nat
        BY <2>12, RunningOp DEF RemoveUpsert
      <4>2. Present(op.target, op.path) => manifest[op.target][op.path] \in Entry
        BY <4>1 DEF Present
      <4>3. \A r \in Entry : r.hash \in Contents \cup {None} /\ r.corrupted \in BOOLEAN
        BY DEF Entry
      <4> QED
        BY <4>1, <4>2, <4>3, RowTypes DEF Tombstone
    <3> QED
      BY <2>0, <2>12, <3>1, RunningOp, BudgetTypes, StorageTypes DEF RemoveUpsert
  <2>13. CASE RenameBegin
    BY <2>0, <2>13, RunningOp, BudgetTypes, LogTypes DEF RenameBegin
  <2>14. CASE RenameFile
    <3>1. disk' \in [Drives -> [Paths -> Contents \cup {None, Torn}]]
      <4>1. /\ op.target \in Drives /\ op.path \in Paths /\ op.newPath \in Paths
            /\ disk[op.target] \in [Paths -> Contents \cup {None, Torn}]
        BY <2>14, RunningOp DEF RenameFile
      <4>2. [disk[op.target] EXCEPT ![op.path] = None,
                                    ![op.newPath] = disk[op.target][op.path]]
              \in [Paths -> Contents \cup {None, Torn}]
        BY <4>1
      <4> QED
        BY <2>14, <4>1, <4>2 DEF RenameFile
    <3>2. dirty' \subseteq Drives \X Paths
      BY <2>14, RunningOp DEF RenameFile
    <3>3. budget' \in [Spendings -> Nat]
      BY <2>0, <2>14, RunningOp, BudgetTypes DEF RenameFile
    <3> QED
      BY <2>14, <3>1, <3>2, <3>3, RunningOp DEF RenameFile
  <2>15. CASE RenameFailed
    BY <2>0, <2>15, RunningOp, BudgetTypes, LogTypes DEF RenameFailed
  <2>16. CASE RenameDelete
    <3>1. op.target \in Drives /\ op.path \in Paths /\ op.vv \in Nat /\ op \in Op /\ op # None
      BY <2>16, RunningOp DEF RenameDelete
    <3>2. manifest[op.target][op.path] # None =>
            WithVector(manifest[op.target][op.path], op.vv) \in Entry
      BY <3>1, RowTypes
    <3>3. manifest' \in [Drives -> [Paths -> Entry \cup {None}]]
      BY <2>0, <2>16, <3>1, StorageTypes DEF RenameDelete
    <3>4. budget' \in [Spendings -> Nat]
      BY <2>0, <2>16, <3>1, BudgetTypes DEF RenameDelete
    <3>5. meta' \in Entry \cup {None} /\ (pc' = "renameUpsert" => meta' # None)
      BY <2>16, <3>2, NoneIsNoEntry DEF RenameDelete
    <3> QED
      BY <2>16, <3>1, <3>3, <3>4, <3>5 DEF RenameDelete
  <2>17. CASE RenameUpsert
    BY <2>0, <2>17, RunningOp, BudgetTypes, StorageTypes DEF RenameUpsert
  <2>18. CASE Complete
    <3>1. op.target \in Drives /\ op.path \in Paths /\ op \in Op /\ op # None
      BY <2>18, RunningOp DEF Complete
    <3>2. log' \in [Drives -> SUBSET LogRow]
      BY <2>0, <2>18, <3>1, LogTypes DEF Complete
    <3>3. budget' \in [Spendings -> Nat]
      BY <2>0, <2>18, <3>1, BudgetTypes DEF Complete
    <3> QED
      BY <2>18, <3>1, <3>2, <3>3 DEF Complete
  <2>19. CASE Refuse
    BY <2>0, <2>19, RunningOp DEF Refuse
  <2>20. CASE Mkdir
    BY <2>0, <2>20, RunningOp, BudgetTypes DEF Mkdir
  <2>21. CASE Start
    BY <2>0, <2>21 DEF Start
  <2>22. CASE Exit
    BY <2>0, <2>22 DEF Exit
  <2>23. CASE Crash
    BY <2>0, <2>23, BudgetTypes DEF Crash, Spendings
  <2>24. CASE RecoverDone
    BY <2>0, <2>24 DEF RecoverDone
  <2>25. ASSUME NEW d \in Drives, RecoverFile(d) PROVE TypeInv'
    BY <2>0, <2>25, StorageTypes, BudgetTypes DEF RecoverFile, TmpIsValid, Present, LogRow, Spendings
  <2>26. ASSUME NEW d \in Drives, RecoverComplete(d) PROVE TypeInv'
    <3>1. UNCHANGED <<tmp, budget>> \/ (UNCHANGED tmp /\ Spend("leftover"))
      BY <2>26 DEF RecoverComplete, TmpStays
    <3>2. budget' \in [Spendings -> Nat]
      BY <2>0, <3>1, BudgetTypes DEF Spendings
    <3> QED
      BY <2>0, <2>26, <3>1, <3>2 DEF RecoverComplete, Present
  <2>27. ASSUME NEW d \in Drives, NEW p \in Paths, NEW c \in Contents \cup {None}, UserEdit(d, p, c) PROVE TypeInv'
    BY <2>0, <2>27, StorageTypes, BudgetTypes DEF UserEdit, Spendings, Present
  <2>28. ASSUME NEW d \in Drives, Unplug(d) PROVE TypeInv'
    BY <2>0, <2>28, BudgetTypes DEF Unplug, Spendings, Present
  <2>29. ASSUME NEW d \in Drives, Plug(d) PROVE TypeInv'
    BY <2>0, <2>29 DEF Plug, Present
  <2>30. ASSUME NEW type \in OpTypes, NEW source \in Drives, NEW target \in Drives,
               NEW path \in Paths, NEW newPath \in Paths,
               Issue(type, source, target, path, newPath) PROVE TypeInv'
    <3>1. budget["op"] \in Nat /\ budget' \in [Spendings -> Nat]
      BY <2>0, <2>30, BudgetTypes DEF Issue, Spendings
    <3>2. op' \in Op /\ op' # None
      BY <2>30, <3>1, NoneIsNoOp DEF Issue, Op
    <3> QED
      <4>1. op'.type = "RESTORE" => Present(target, path)' /\ op'.target = target /\ op'.path = path
        BY <2>30 DEF Issue, Plausible, Live, Present
      <4> QED
        BY <2>30, <3>1, <3>2, <4>1 DEF Issue
  <2>31. ASSUME NEW d \in Drives, NEW p \in Paths, VerifyFile(d, p) PROVE TypeInv'
    <3>1. WithCorrupted(manifest[d][p], TRUE) \in Entry
      <4>1. manifest[d][p] \in Entry
        BY <2>31 DEF VerifyFile, Live, Present
      <4> QED
        BY <4>1, RowTypes
    <3> QED
      BY <2>0, <2>31, <3>1, StorageTypes DEF VerifyFile
  <2>32. CASE UNCHANGED vars
    BY <2>32 DEF vars, Present
  <2> QED
    BY <2>1, <2>2, <2>3, <2>4, <2>5, <2>6, <2>7, <2>8, <2>9, <2>10, <2>11, <2>12, <2>13, <2>14, <2>15, <2>16, <2>17, <2>18, <2>19, <2>20, <2>21, <2>22, <2>23, <2>24, <2>25, <2>26, <2>27, <2>28, <2>29, <2>30, <2>31, <2>32
       DEF Next, Execute, Recover, Lifecycle, User, Caller
<1> QED
  BY <1>1, <1>2, PTL DEF Spec

\* TypeOK for every instance, whatever fails and whenever the process dies.
THEOREM TypeCorrect == Spec => []TypeOK
  BY TypeInvariant, PTL DEF TypeInv

-----------------------------------------------------------------------------
(* No half-written file                                                    *)

\* Only a verified temporary file is ever renamed, by a write or by recovery.
LEMMA TornStep ==
  ASSUME TypeInv, Verified, NeverTorn, [Next]_vars
  PROVE  Verified' /\ NeverTorn'
<1> USE ConstantsAssumption
<1>1. /\ disk \in [Drives -> [Paths -> Contents \cup {None, Torn}]]
      /\ tmp \in [Drives -> [Paths -> Contents \cup {None, Torn}]]
  BY DEF TypeInv, TypeOK
<1>2. \A r \in Entry : r.hash # Torn
  BY DEF Entry
<1>3. CASE pc = "writeRename" /\ WriteRename
  <2>1. op.target \in Drives /\ op.path \in Paths /\ meta \in Entry
    BY <1>3, RunningOp DEF TypeInv, TypeOK, ProcessInv, WriteSteps
  <2>2. tmp[op.target][op.path] # Torn
    BY <1>2, <1>3, <2>1 DEF Verified
  <2>3. NeverTorn'
    BY <1>1, <1>3, <2>1, <2>2 DEF WriteRename, NeverTorn, SetDisk
  <2> QED
    BY <1>3, <2>3 DEF Verified, WriteRename, Goto, Catch
<1>4. CASE WriteVerify
  BY <1>4 DEF WriteVerify, Verified, NeverTorn, Goto, Catch
<1>5. CASE RemoveFile
  <2>1. op.target \in Drives /\ op.path \in Paths
    BY <1>5, RunningOp DEF RemoveFile
  <2> QED
    BY <1>1, <1>5, <2>1 DEF RemoveFile, Verified, NeverTorn, Goto, SetDisk
<1>6. CASE RenameFile
  <2>1. op.target \in Drives /\ op.path \in Paths /\ op.newPath \in Paths
    BY <1>6, RunningOp DEF RenameFile
  <2>2. disk' = disk \/ disk' = [disk EXCEPT ![op.target] =
                 [@ EXCEPT ![op.path] = None, ![op.newPath] = disk[op.target][op.path]]]
    BY <1>6 DEF RenameFile
  <2>3. disk[op.target][op.path] # Torn
    BY <2>1 DEF NeverTorn
  <2>4. NeverTorn'
    BY <1>1, <2>1, <2>2, <2>3 DEF NeverTorn
  <2> QED
    BY <1>6, <2>4 DEF RenameFile, Verified, Goto
<1>7. ASSUME NEW d \in Drives, RecoverFile(d)
      PROVE  Verified' /\ NeverTorn'
  <2>1. PICK r \in log[d] :
          \/ /\ TmpIsValid(d, r.path)
             /\ SetDisk(d, r.path, tmp[d][r.path])
          \/ UNCHANGED disk
    BY <1>7 DEF RecoverFile
  <2>2. r.path \in Paths
    BY DEF TypeInv, TypeOK, LogRow
  <2>3. TmpIsValid(d, r.path) => tmp[d][r.path] # Torn
    BY <1>2, <2>2 DEF TmpIsValid, Present, TypeInv, TypeOK
  <2>4. NeverTorn'
    BY <1>1, <2>1, <2>2, <2>3 DEF NeverTorn, SetDisk
  <2> QED
    BY <1>7, <2>4 DEF RecoverFile, Verified, process
<1>8. ASSUME NEW d \in Drives, NEW p \in Paths, NEW c \in Contents \cup {None}, UserEdit(d, p, c)
      PROVE  Verified' /\ NeverTorn'
  BY <1>1, <1>8 DEF UserEdit, Verified, NeverTorn, SetDisk, process
<1>9. CASE UNCHANGED disk /\ pc' # "writeRename"
  BY <1>9 DEF Verified, NeverTorn
<1>10. CASE UNCHANGED <<disk, tmp, pc, op, meta>>
  BY <1>10 DEF Verified, NeverTorn
<1> QED
  <2>1. CASE Execute
    BY <2>1, <1>3, <1>4, <1>5, <1>6, <1>9
       DEF Execute, Refuse, Mkdir, WriteVerifySource, WriteBegin, WriteOpen, WriteCopy,
           WriteRename, WriteUpsert, CatchRemove, CatchComplete, RemoveBegin, RemoveUpsert,
           RenameBegin, RenameFailed, RenameDelete, RenameUpsert, Complete,
           Goto, Finish, Catch, storage
  <2>2. CASE Recover
    BY <2>2, <1>7, <1>9, <1>10 DEF Recover, RecoverDone, RecoverComplete, Goto, storage, process
  <2>3. CASE Lifecycle
    BY <2>3, <1>9 DEF Lifecycle, Start, Exit, Crash, Goto, storage
  <2>4. CASE User
    BY <2>4, <1>8, <1>10 DEF User, Unplug, Plug, storage, process
  <2>5. CASE Caller
    BY <2>5, <1>9, <1>10 DEF Caller, Issue, VerifyFile, Goto, storage, process
  <2>6. CASE UNCHANGED vars
    BY <2>6, <1>10 DEF vars, storage, process
  <2> QED
    BY <2>1, <2>2, <2>3, <2>4, <2>5, <2>6 DEF Next

LEMMA TornInvariant == Spec => [](Verified /\ NeverTorn)
<1>1. Init => Verified /\ NeverTorn
  BY ConstantsAssumption DEF Init, Verified, NeverTorn
<1>2. TypeInv /\ Verified /\ NeverTorn /\ [Next]_vars => Verified' /\ NeverTorn'
  BY TornStep
<1> QED
  BY <1>1, <1>2, TypeInvariant, PTL DEF Spec

\* NeverTorn for every instance: no crash, no failing call and no recovery ever
\* leaves a half-written file under its own name.
THEOREM NoTornFile == Spec => []NeverTorn
  BY TornInvariant, PTL

-----------------------------------------------------------------------------
(* Write-ahead                                                             *)

\* A drive stays where it was when its rows were logged, or nobody recovers.
FixedMounts == ~RecoverOnStart \/ \A m, n \in Mounts : m = n

\* The rows that still speak for a temporary file: not the row the catch block
\* is about to complete.
Speaks(d, r) ==
  /\ r.operation = "WRITE"
  /\ ~(pc = "catchComplete" /\ op.target \in attached /\ d = op.target /\ r.id = rows[d])

\* The temporary files that are forgotten, or will be by the next call.
Doomed ==
  {f \in Drives \X Paths :
     /\ tmp[f[1]][f[2]] # None
     /\ \A r \in log[f[1]] : ~(Speaks(f[1], r) /\ r.path = f[2])}

\* Each of them was to be removed once, and was not.
Counted ==
  /\ IsFiniteSet(Doomed)
  /\ Cardinality(Doomed) <= Budget["leftover"] - budget["leftover"]

LogOk == LogInv /\ TmpGone /\ (FixedMounts => Counted)

\* A step spends one thing or nothing.
LEMMA SpendingStep ==
  ASSUME [Next]_vars
  PROVE  UNCHANGED budget \/ \E what \in Spendings : Spend(what)
<1> USE DEF storage, process, environment, CallOk, CallFails, Spendings, TmpStays
<1>1. CASE Execute
  BY <1>1
     DEF Execute, Refuse, Mkdir, WriteVerifySource, WriteBegin, WriteOpen, WriteCopy,
         WriteVerify, WriteRename, WriteUpsert, CatchRemove, CatchComplete,
         RemoveBegin, RemoveFile, RemoveUpsert, RenameBegin, RenameFile, RenameFailed,
         RenameDelete, RenameUpsert, Complete
<1>2. CASE Recover \/ Lifecycle
  BY <1>2 DEF Recover, RecoverDone, RecoverFile, RecoverComplete,
              Lifecycle, Start, Exit, Crash
<1>3. CASE User \/ Caller \/ UNCHANGED vars
  BY <1>3 DEF User, UserEdit, Unplug, Plug, Caller, Issue, VerifyFile, vars
<1> QED
  BY <1>1, <1>2, <1>3 DEF Next

\* The budget does not grow.
LEMMA BudgetShrinks ==
  ASSUME TypeInv, [Next]_vars
  PROVE  \A kind \in Spendings :
           budget[kind] \in Nat /\ budget'[kind] \in Nat /\ budget'[kind] <= budget[kind]
<1>1. budget \in [Spendings -> Nat]
  BY DEF TypeInv, TypeOK
<1>2. ASSUME NEW what \in Spendings, Spend(what), NEW kind \in Spendings
      PROVE  budget'[kind] \in Nat /\ budget'[kind] <= budget[kind]
  BY <1>1, <1>2 DEF Spend
<1> QED
  BY <1>1, <1>2, SpendingStep

\* A step that dooms no file, or one, and that one for a removal that failed.
LEMMA CountStep ==
  ASSUME TypeInv, [Next]_vars, Counted,
         \/ Doomed' \subseteq Doomed
         \/ Spend("leftover") /\ \E f : Doomed' \subseteq Doomed \cup {f}
  PROVE  Counted'
<1>1. /\ "leftover" \in Spendings /\ budget["leftover"] \in Nat
      /\ budget'["leftover"] \in Nat /\ budget'["leftover"] <= budget["leftover"]
      /\ Budget["leftover"] \in Nat /\ IsFiniteSet(Doomed) /\ Cardinality(Doomed) \in Nat
  BY BudgetShrinks, ConstantsAssumption, FS_CardinalityType DEF Spendings, Counted
<1>2. CASE Doomed' \subseteq Doomed
  <2>1. IsFiniteSet(Doomed') /\ Cardinality(Doomed') <= Cardinality(Doomed)
    BY <1>1, <1>2, FS_Subset
  <2>2. Cardinality(Doomed') \in Nat
    BY <2>1, FS_CardinalityType
  <2> QED
    BY <1>1, <2>1, <2>2 DEF Counted
<1>3. CASE Spend("leftover") /\ \E f : Doomed' \subseteq Doomed \cup {f}
  <2>1. PICK f : Doomed' \subseteq Doomed \cup {f}
    BY <1>3
  <2>2. /\ IsFiniteSet(Doomed \cup {f})
        /\ Cardinality(Doomed \cup {f}) \in Nat
        /\ Cardinality(Doomed \cup {f}) <= Cardinality(Doomed) + 1
    <3>1. /\ IsFiniteSet(Doomed \cup {f})
          /\ \/ Cardinality(Doomed \cup {f}) = Cardinality(Doomed)
             \/ Cardinality(Doomed \cup {f}) = Cardinality(Doomed) + 1
      BY <1>1, FS_AddElement
    <3> QED
      BY <1>1, <3>1
  <2>3. IsFiniteSet(Doomed') /\ Cardinality(Doomed') <= Cardinality(Doomed \cup {f})
    BY <2>1, <2>2, FS_Subset
  <2>4. Cardinality(Doomed') \in Nat
    BY <2>3, FS_CardinalityType
  <2>5. budget'["leftover"] = budget["leftover"] - 1
    BY <1>1, <1>3 DEF Spend, TypeInv, TypeOK
  <2> QED
    BY <1>1, <2>2, <2>3, <2>4, <2>5 DEF Counted
<1> QED
  BY <1>2, <1>3

\* A call that leaves log and temporary files alone.
LEMMA QuietStep ==
  ASSUME TypeInv, [Next]_vars, LogOk, UNCHANGED <<log, rows, tmp>>,
         \/ pc' \in {"idle", "down", "recover", "start", "writeBegin"}
         \/ /\ UNCHANGED op
            /\ attached' \subseteq attached
            /\ pc \notin {"idle", "down", "recover", "start", "writeBegin"}
            /\ \/ pc' = pc
               \/ pc' \notin {"writeUpsert", "complete", "catchComplete"}
               \/ pc' = "complete" /\ pc = "writeUpsert"
               \/ pc' = "complete" /\ op.type \notin {"COPY", "RESTORE"}
  PROVE  LogOk'
<1>1. LogInv' /\ TmpGone'
  BY DEF LogOk, LogInv, TmpGone, OperationName
<1>2. Doomed' \subseteq Doomed
  BY DEF Doomed, Speaks
<1>3. FixedMounts => Counted'
  BY <1>2, CountStep DEF LogOk
<1> QED
  BY <1>1, <1>3 DEF LogOk, FixedMounts

\* begin_operation gives the operation the youngest row of the log.
LEMMA BeginStep ==
  ASSUME TypeInv, [Next]_vars, LogOk, pc \notin {"idle", "down", "recover"},
         BeginOperation(OperationName), UNCHANGED <<op, tmp>>,
         pc' \notin {"writeUpsert", "complete", "catchComplete"}
  PROVE  LogOk'
<1> DEFINE d == op.target
           new == [id |-> rows[d] + 1, operation |-> OperationName,
                   path |-> op.path, mount |-> mount[d]]
<1>1. /\ d \in Drives /\ rows \in [Drives -> Nat] /\ rows[d] \in Nat
      /\ log \in [Drives -> SUBSET LogRow] /\ \A e \in Drives : \A r \in log[e] : r.id \in Nat
  BY RunningOp DEF TypeInv, TypeOK, LogRow
<1>2. /\ log' = [log EXCEPT ![d] = @ \cup {new}]
      /\ rows' = [rows EXCEPT ![d] = @ + 1]
  BY DEF BeginOperation
<1> HIDE DEF new
<1>3. /\ new.id = rows[d] + 1 /\ new.operation = OperationName /\ new.path = op.path
      /\ OperationName' = OperationName
  BY DEF new, OperationName
<1>4. \A r \in log[d] : r.id < new.id
  BY <1>1, <1>3 DEF LogOk, LogInv
<1>5. LogInv'
  <2>1. ASSUME NEW e \in Drives, NEW r \in log'[e], NEW s \in log'[e]
        PROVE  r.id <= rows'[e] /\ (r.id = s.id => r = s)
    <3>1. CASE e = d
      BY <1>1, <1>2, <1>3, <1>4, <2>1, <3>1 DEF LogOk, LogInv
    <3>2. CASE e # d
      BY <1>1, <1>2, <2>1, <3>2 DEF LogOk, LogInv
    <3> QED
      BY <3>1, <3>2
  <2>2. new \in log'[op.target] /\ new.id = rows'[op.target]
    BY <1>1, <1>2, <1>3
  <2> QED
    BY <1>3, <2>1, <2>2 DEF LogInv
<1>6. TmpGone'
  BY DEF TmpGone
<1>7. FixedMounts => Counted'
  <2>1. \A e \in Drives : log[e] \subseteq log'[e]
    BY <1>1, <1>2
  <2>2. Doomed' \subseteq Doomed
    BY <2>1 DEF Doomed, Speaks
  <2> QED
    BY <2>2, CountStep DEF LogOk
<1> QED
  BY <1>5, <1>6, <1>7 DEF LogOk, FixedMounts

\* A write touches the temporary file of the path it has logged.
LEMMA TmpStep ==
  ASSUME TypeInv, [Next]_vars, LogOk,
         pc \in WriteSteps \ {"writeBegin", "catchComplete"},
         NEW c, SetTmp(op.target, op.path, c), UNCHANGED <<log, rows, op, attached>>,
         pc' \in WriteSteps,
         pc' \in {"writeUpsert", "catchComplete"} => c = None
  PROVE  LogOk'
<1>1. /\ op.target \in Drives /\ op.path \in Paths /\ op.type \in {"COPY", "RESTORE"}
      /\ tmp \in [Drives -> [Paths -> Contents \cup {None, Torn}]]
  BY RunningOp DEF TypeInv, TypeOK, ProcessInv, WriteSteps
<1>2. PICK mine \in log[op.target] :
        mine.id = rows[op.target] /\ mine.operation = "WRITE" /\ mine.path = op.path
  BY <1>1 DEF LogOk, LogInv, OperationName, WriteSteps
<1>3. /\ tmp'[op.target][op.path] = c
      /\ \A e \in Drives, p \in Paths :
           <<e, p>> # <<op.target, op.path>> => tmp'[e][p] = tmp[e][p]
  BY <1>1 DEF SetTmp
<1>4. FixedMounts => Counted'
  <2>1. ASSUME NEW e \in Drives, NEW p \in Paths, <<e, p>> \in Doomed'
        PROVE  <<e, p>> \in Doomed
    <3>1. CASE <<e, p>> = <<op.target, op.path>>
      <4>1. tmp'[e][p] # None /\ ~(Speaks(e, mine)' /\ mine.path = p)
        BY <1>2, <2>1, <3>1 DEF Doomed
      <4>2. pc' = "catchComplete"
        BY <1>2, <3>1, <4>1 DEF Speaks
      <4> QED
        BY <1>3, <3>1, <4>1, <4>2
    <3>2. CASE <<e, p>> # <<op.target, op.path>>
      <4>1. tmp[e][p] # None
        BY <1>3, <2>1, <3>2 DEF Doomed
      <4>2. ASSUME NEW r \in log[e], r.operation = "WRITE", r.path = p
            PROVE  FALSE
        <5>1. ~Speaks(e, r)'
          BY <2>1, <4>2 DEF Doomed
        <5>2. e = op.target /\ r.id = rows[e]
          BY <4>2, <5>1 DEF Speaks
        <5>3. r = mine
          BY <1>2, <5>2 DEF LogOk, LogInv
        <5> QED
          BY <1>2, <3>2, <4>2, <5>2, <5>3
      <4> QED
        BY <4>1, <4>2 DEF Doomed, Speaks
    <3> QED
      BY <3>1, <3>2
  <2>2. Doomed' \subseteq Doomed
    <3>1. \A f \in Doomed' : \E e \in Drives, p \in Paths : f = <<e, p>>
      BY DEF Doomed
    <3> QED
      BY <2>1, <3>1
  <2> QED
    BY <2>2, CountStep DEF LogOk
<1> QED
  BY <1>2, <1>3, <1>4 DEF LogOk, LogInv, TmpGone, OperationName, WriteSteps, FixedMounts

\* The catch block that cannot remove its temporary file dooms it.
LEMMA StayStep ==
  ASSUME TypeInv, [Next]_vars, LogOk, pc = "catchRemove", pc' = "catchComplete",
         UNCHANGED <<log, rows, op, tmp, attached>>,
         op.target \in attached => Spend("leftover")
  PROVE  LogOk'
<1>1. op.target \in Drives /\ op.path \in Paths
  BY RunningOp
<1>2. PICK mine \in log[op.target] :
        mine.id = rows[op.target] /\ mine.operation = OperationName /\ mine.path = op.path
  BY DEF LogOk, LogInv
<1>3. LogInv' /\ TmpGone'
  BY DEF LogOk, LogInv, TmpGone, OperationName
<1>4. CASE op.target \notin attached
  <2>1. Doomed' \subseteq Doomed
    BY <1>4 DEF Doomed, Speaks
  <2>2. FixedMounts => Counted'
    BY <2>1, CountStep DEF LogOk
  <2> QED
    BY <1>3, <2>2 DEF LogOk, FixedMounts
<1>5. CASE op.target \in attached
  <2>1. ASSUME NEW e \in Drives, NEW p \in Paths, <<e, p>> \in Doomed',
               <<e, p>> # <<op.target, op.path>>
        PROVE  <<e, p>> \in Doomed
    <3>1. tmp[e][p] # None
      BY <2>1 DEF Doomed
    <3>2. ASSUME NEW r \in log[e], r.operation = "WRITE", r.path = p
          PROVE  FALSE
      <4>1. ~Speaks(e, r)'
        BY <2>1, <3>2 DEF Doomed
      <4>2. e = op.target /\ r.id = rows[e]
        BY <3>2, <4>1 DEF Speaks
      <4>3. r = mine
        BY <1>2, <4>2 DEF LogOk, LogInv
      <4> QED
        BY <1>2, <2>1, <3>2, <4>2, <4>3
    <3> QED
      BY <3>1, <3>2 DEF Doomed, Speaks
  <2>2. Doomed' \subseteq Doomed \cup {<<op.target, op.path>>}
    <3>1. \A f \in Doomed' : \E e \in Drives, p \in Paths : f = <<e, p>>
      BY DEF Doomed
    <3> QED
      BY <2>1, <3>1
  <2>3. FixedMounts => Counted'
    BY <1>5, <2>2, CountStep DEF LogOk
  <2> QED
    BY <1>3, <2>3 DEF LogOk, FixedMounts
<1> QED
  BY <1>4, <1>5

\* Completing a row forgets no temporary file that was not doomed: the row of a
\* write that works goes after its file, and no other row speaks for that file.
LEMMA CompleteStep ==
  ASSUME TypeInv, [Next]_vars, LogOk, UNCHANGED <<rows, tmp>>,
         pc \in {"complete", "catchComplete", "renameFailed"}, pc' = "idle",
         CompleteOperation,
         pc = "catchComplete" => op.target \in attached
  PROVE  LogOk'
<1> DEFINE d == op.target
<1>1. /\ d \in Drives /\ op.path \in Paths /\ op.type \in OpTypes
      /\ log \in [Drives -> SUBSET LogRow]
  BY RunningOp DEF TypeInv, TypeOK
<1>2. PICK mine \in log[d] :
        mine.id = rows[d] /\ mine.operation = OperationName /\ mine.path = op.path
  BY DEF LogOk, LogInv
<1>3. log' = [log EXCEPT ![d] = @ \ {mine}]
  <2>1. {r \in log[d] : r.id # rows[d]} = log[d] \ {mine}
    BY <1>1, <1>2 DEF LogOk, LogInv
  <2> QED
    BY <1>1, <2>1 DEF CompleteOperation
<1>4. mine.operation = "WRITE" => tmp[d][op.path] = None \/ pc = "catchComplete"
  <2>1. CASE op.type \in {"COPY", "RESTORE"}
    BY <2>1 DEF LogOk, TmpGone, TypeInv, ProcessInv, RenameSteps
  <2>2. CASE op.type = "REMOVE" \/ op.type = "RENAME"
    BY <1>2, <2>2 DEF OperationName
  <2>3. op.type # "MKDIR"
    BY DEF TypeInv, ProcessInv, WriteSteps, RenameSteps
  <2> QED
    BY <1>1, <2>1, <2>2, <2>3, ConstantsAssumption
<1>5. FixedMounts => Counted'
  <2>1. ASSUME NEW e \in Drives, NEW p \in Paths, <<e, p>> \in Doomed'
        PROVE  <<e, p>> \in Doomed
    <3>1. tmp[e][p] # None
      BY <2>1 DEF Doomed
    <3>2. ASSUME NEW r \in log[e], Speaks(e, r), r.path = p
          PROVE  FALSE
      <4>1. r \notin log'[e]
        BY <2>1, <3>2 DEF Doomed, Speaks
      <4>2. e = d /\ r = mine
        BY <1>1, <1>3, <4>1
      <4> QED
        BY <1>2, <1>4, <3>1, <3>2, <4>2 DEF Speaks
    <3> QED
      BY <3>1, <3>2 DEF Doomed
  <2>2. Doomed' \subseteq Doomed
    <3>1. \A f \in Doomed' : \E e \in Drives, p \in Paths : f = <<e, p>>
      BY DEF Doomed
    <3> QED
      BY <2>1, <3>1
  <2> QED
    BY <2>2, CountStep DEF LogOk
<1>6. LogInv'
  BY <1>1, <1>3 DEF LogOk, LogInv
<1> QED
  BY <1>5, <1>6 DEF LogOk, TmpGone, FixedMounts

\* Recovery completes a row when no temporary file is left for it, or when the
\* one that is could not be removed.
LEMMA RecoveryStep ==
  ASSUME TypeInv, [Next]_vars, LogOk, NEW d \in Drives, RecoverFile(d) \/ RecoverComplete(d)
  PROVE  LogOk'
<1>1. /\ log \in [Drives -> SUBSET LogRow] /\ mount \in [Drives -> Mounts]
      /\ tmp \in [Drives -> [Paths -> Contents \cup {None, Torn}]]
      /\ \A r \in log[d] : r.path \in Paths /\ r.mount \in Mounts
  BY DEF TypeInv, TypeOK, LogRow
<1>2. pc = "recover" /\ pc' = pc /\ UNCHANGED rows
  BY DEF RecoverFile, RecoverComplete, process
<1>3. \A e \in Drives : \A r \in log[e] : Speaks(e, r) <=> r.operation = "WRITE"
  BY <1>2 DEF Speaks
<1>4. \A e \in Drives : \A r \in log'[e] : Speaks(e, r)' <=> r.operation = "WRITE"
  BY <1>2 DEF Speaks
<1>5. CASE RecoverFile(d)
  <2>1. PICK r \in log[d] : SetTmp(d, r.path, None) /\ UNCHANGED log
    BY <1>5 DEF RecoverFile
  <2>2. \A e \in Drives, p \in Paths : tmp'[e][p] # None => tmp[e][p] # None
    BY <1>1, <2>1 DEF SetTmp
  <2>3. Doomed' \subseteq Doomed
    BY <1>3, <1>4, <2>1, <2>2 DEF Doomed
  <2>4. FixedMounts => Counted'
    BY <2>3, CountStep DEF LogOk
  <2> QED
    BY <1>2, <2>1, <2>4 DEF LogOk, LogInv, TmpGone, FixedMounts
<1>6. CASE RecoverComplete(d)
  <2>1. PICK r \in log[d] :
          /\ ~HasTmp(d, r) \/ Spend("leftover")
          /\ log' = [log EXCEPT ![d] = @ \ {r}] /\ UNCHANGED tmp
    BY <1>6 DEF RecoverComplete, TmpStays
  <2>2. LogInv'
    BY <1>1, <1>2, <2>1 DEF LogOk, LogInv
  <2>3. ASSUME NEW e \in Drives, NEW p \in Paths, <<e, p>> \in Doomed', <<e, p>> \notin Doomed
        PROVE  tmp[e][p] # None /\ e = d /\ p = r.path /\ r.operation = "WRITE"
    <3>1. tmp[e][p] # None /\ \A s \in log'[e] : ~(s.operation = "WRITE" /\ s.path = p)
      BY <1>4, <2>1, <2>3 DEF Doomed
    <3>2. PICK s \in log[e] : s.operation = "WRITE" /\ s.path = p
      BY <1>3, <2>3, <3>1 DEF Doomed
    <3>3. e = d /\ s = r
      BY <1>1, <2>1, <3>1, <3>2
    <3> QED
      BY <3>1, <3>2, <3>3
  <2>4. Doomed' \subseteq Doomed \cup {<<d, r.path>>}
    <3>1. \A f \in Doomed' : \E e \in Drives, p \in Paths : f = <<e, p>>
      BY DEF Doomed
    <3> QED
      BY <2>3, <3>1
  <2>5. FixedMounts /\ ~HasTmp(d, r) => Doomed' \subseteq Doomed
    <3>1. \A f \in Doomed' : \E e \in Drives, p \in Paths : f = <<e, p>>
      BY DEF Doomed
    <3>2. FixedMounts => r.mount = mount[d]
      BY <1>1, <1>2 DEF FixedMounts, TypeInv, ProcessInv
    <3> QED
      BY <2>3, <3>1, <3>2 DEF HasTmp
  <2>6. FixedMounts => Counted'
    BY <2>1, <2>4, <2>5, CountStep DEF LogOk
  <2> QED
    BY <1>2, <2>2, <2>6 DEF LogOk, TmpGone, FixedMounts
<1> QED
  BY <1>5, <1>6

LEMMA LogStep ==
  ASSUME TypeInv, LogOk, [Next]_vars
  PROVE  LogOk'
<1> USE DEF Goto, Finish, Catch, WriteSteps, storage, process, environment
<1>1. CASE WriteBegin
  <2>1. pc = "writeBegin" /\ op.type \in {"COPY", "RESTORE"}
    BY <1>1 DEF WriteBegin, TypeInv, ProcessInv
  <2>2. OperationName = "WRITE"
    BY <2>1 DEF OperationName
  <2>3. CASE BeginOperation("WRITE") /\ pc' = "writeOpen" /\ UNCHANGED op
    BY <1>1, <2>1, <2>2, <2>3, BeginStep DEF WriteBegin
  <2> QED
    BY <1>1, <2>3, QuietStep DEF WriteBegin
<1>2. CASE RemoveBegin
  <2>1. OperationName = "DELETE"
    BY <1>2 DEF OperationName, RemoveBegin
  <2>2. CASE BeginOperation("DELETE") /\ pc' = "removeFile" /\ UNCHANGED op
    BY <1>2, <2>1, <2>2, BeginStep DEF RemoveBegin
  <2> QED
    BY <1>2, <2>2, QuietStep DEF RemoveBegin
<1>3. CASE RenameBegin
  <2>1. OperationName = "RENAME"
    BY <1>3 DEF OperationName, RenameBegin
  <2>2. CASE BeginOperation("RENAME") /\ pc' = "renameFile" /\ UNCHANGED op
    BY <1>3, <2>1, <2>2, BeginStep DEF RenameBegin
  <2> QED
    BY <1>3, <2>2, QuietStep DEF RenameBegin
<1>4. CASE WriteOpen
  BY <1>4, TmpStep, QuietStep DEF WriteOpen
<1>5. CASE WriteCopy
  BY <1>5, TmpStep, QuietStep DEF WriteCopy
<1>6. CASE WriteVerify
  BY <1>6, TmpStep, QuietStep DEF WriteVerify
<1>7. CASE WriteRename
  BY <1>7, TmpStep, QuietStep DEF WriteRename
<1>8. CASE CatchRemove
  <2>1. CASE SetTmp(op.target, op.path, None)
    BY <1>8, <2>1, TmpStep DEF CatchRemove
  <2>2. CASE UNCHANGED tmp /\ (op.target \in attached => Spend("leftover"))
    BY <1>8, <2>2, StayStep DEF CatchRemove
  <2> QED
    BY <1>8, <2>1, <2>2 DEF CatchRemove, TmpStays
<1>9. CASE CatchComplete \/ RenameFailed \/ Complete
  <2>1. CASE CompleteOperation /\ pc' = "idle" /\ CallOk(op.target)
    BY <1>9, <2>1, CompleteStep DEF CatchComplete, RenameFailed, Complete, CallOk
  <2>2. CASE UNCHANGED log
    BY <1>9, <2>2, QuietStep DEF CatchComplete, RenameFailed, Complete
  <2> QED
    BY <1>9, <2>1, <2>2 DEF CatchComplete, RenameFailed, Complete
<1>10. ASSUME NEW d \in Drives, RecoverFile(d) \/ RecoverComplete(d) PROVE LogOk'
  BY <1>10, RecoveryStep
<1>11. CASE Refuse \/ Mkdir \/ WriteVerifySource \/ WriteUpsert \/ RemoveFile
            \/ RemoveUpsert \/ RenameFile \/ RenameDelete \/ RenameUpsert
  <2>1. pc \in RemoveSteps => op.type = "REMOVE"
    BY DEF TypeInv, ProcessInv
  <2>2. pc \in RenameSteps => op.type = "RENAME"
    BY DEF TypeInv, ProcessInv
  <2> QED
    BY <1>11, <2>1, <2>2, QuietStep
       DEF Refuse, Mkdir, WriteVerifySource, WriteUpsert, RemoveFile, RemoveUpsert,
           RenameFile, RenameDelete, RenameUpsert, RemoveSteps, RenameSteps
<1>12. CASE Lifecycle \/ RecoverDone
  BY <1>12, QuietStep DEF Lifecycle, Start, Exit, Crash, RecoverDone
<1>13. CASE User
  <2>1. UNCHANGED <<log, rows, tmp, op, pc>> /\ (attached' \subseteq attached \/ pc = "down")
    BY <1>13 DEF User, UserEdit, Unplug, Plug
  <2> QED
    BY <2>1, QuietStep
<1>14. CASE Caller
  <2>1. UNCHANGED <<log, rows, tmp>> /\ pc' \in {"idle", "start"}
    BY <1>14 DEF Caller, Issue, VerifyFile
  <2> QED
    BY <2>1, QuietStep
<1>15. CASE UNCHANGED vars
  BY <1>15, QuietStep DEF vars
<1> QED
  BY <1>1, <1>2, <1>3, <1>4, <1>5, <1>6, <1>7, <1>8, <1>9, <1>10, <1>11, <1>12, <1>13, <1>14, <1>15
     DEF Next, Execute, Recover

\* The order of log ids and the whereabouts of temporary files, in every run.
LEMMA LogInvariant == Spec => []LogOk
<1>1. Init => LogOk
  <2> SUFFICES ASSUME Init PROVE LogOk
    OBVIOUS
  <2>1. LogInv /\ TmpGone
    BY DEF Init, LogInv, TmpGone
  <2>2. Doomed = {}
    BY DEF Init, Doomed
  <2>3. Budget["leftover"] \in Nat /\ budget = Budget
    BY ConstantsAssumption DEF Init, Spendings
  <2>4. Counted
    BY <2>2, <2>3, FS_EmptySet DEF Counted
  <2> QED
    BY <2>1, <2>4 DEF LogOk
<1>2. TypeInv /\ LogOk /\ [Next]_vars => LogOk'
  BY LogStep
<1> QED
  BY <1>1, <1>2, TypeInvariant, PTL DEF Spec

\* TmpIsLogged for every instance: no crash, no pulled drive and no call that
\* reports its failure ever makes the log forget a temporary file, and a removal
\* that fails without a word makes it forget one at most, as long as the drives
\* recovery works on keep their mount points.
THEOREM NoOrphanedTmp == FixedMounts => (Spec => []TmpIsLogged)
<1>1. TypeInv /\ FixedMounts /\ LogOk => TmpIsLogged
  <2> SUFFICES ASSUME TypeInv, Counted PROVE TmpIsLogged
    BY DEF LogOk
  <2>1. Forgotten \subseteq Doomed
    BY DEF Forgotten, Doomed, Speaks
  <2>2. IsFiniteSet(Forgotten) /\ Cardinality(Forgotten) <= Cardinality(Doomed)
    BY <2>1, FS_Subset DEF Counted
  <2>3. /\ Cardinality(Forgotten) \in Nat /\ Cardinality(Doomed) \in Nat
        /\ Budget["leftover"] \in Nat /\ budget["leftover"] \in Nat
    BY <2>2, FS_CardinalityType, ConstantsAssumption DEF Counted, TypeInv, TypeOK, Spendings
  <2> QED
    BY <2>2, <2>3 DEF Counted, TmpIsLogged
<1>2. FixedMounts => []FixedMounts
  <2>1. FixedMounts => FixedMounts'
    BY DEF FixedMounts
  <2> QED
    BY <2>1, PTL
<1> QED
  BY <1>1, <1>2, TypeInvariant, LogInvariant, PTL

-----------------------------------------------------------------------------
(* Calls that fail                                                         *)

\* No call fails that the budget does not have.
LEMMA BudgetStep ==
  ASSUME TypeInv, [Next]_vars, NEW kind \in Spendings, budget[kind] = 0
  PROVE  budget'[kind] = 0
  BY BudgetShrinks

\* The fs::remove of a REMOVE does what it is told, or its error is looked at:
\* the code needs the one and does not do the other.
RemovalsWork == Budget["stuck"] = 0

NothingStuck == RemovalsWork => budget["stuck"] = 0

LEMMA StuckInvariant == Spec => []NothingStuck
<1>1. Init => NothingStuck
  BY DEF Init, NothingStuck, RemovalsWork
<1>2. TypeInv /\ NothingStuck /\ [Next]_vars => NothingStuck'
  BY BudgetStep DEF NothingStuck, RemovalsWork, Spendings
<1> QED
  BY <1>1, <1>2, TypeInvariant, PTL DEF Spec

\* Calls report errors only where the drive or the process has gone, and nobody
\* recovers the log, as in the command line tool; temporary files may stay.
HardStopsOnly == ~RecoverOnStart /\ Budget["fault"] = 0 /\ RemovalsWork

NoFaults == HardStopsOnly => budget["fault"] = 0

LEMMA FaultInvariant == Spec => []NoFaults
<1>1. Init => NoFaults
  BY DEF Init, NoFaults, HardStopsOnly
<1>2. TypeInv /\ NoFaults /\ [Next]_vars => NoFaults'
  BY BudgetStep DEF NoFaults, HardStopsOnly, Spendings
<1> QED
  BY <1>1, <1>2, TypeInvariant, PTL DEF Spec
=============================================================================
