------------------------- MODULE ExecutorRefinement -------------------------
(***************************************************************************)
(* The Executor implements JournaledStore.  An operation is one of the     *)
(* store's from its log row on; what the Executor does before and between  *)
(* the store's steps -- checks, temporary files, copies -- is hidden.  An  *)
(* operation whose drive is gone is given up at that moment: none of its   *)
(* further calls can succeed.                                              *)
(***************************************************************************)
EXTENDS Executor

Logging(row) == [id |-> row.id, operation |-> row.operation, path |-> row.path]
Journal(rowsOf) == [d \in Drives |-> {Logging(row) : row \in rowsOf[d]}]

BeforeTheFiles == {"writeOpen", "writeCopy", "writeVerify", "writeRename",
                   "removeFile", "renameFile"}
BeforeTheRows == {"writeUpsert", "removeUpsert", "renameDelete"}
GivenUp == {"catchRemove", "catchComplete", "renameFailed"}

Begun ==
  \/ pc \in BeforeTheFiles \cup BeforeTheRows \cup GivenUp \cup {"renameUpsert", "complete"}
  \/ pc = "start" /\ op.type = "MKDIR"

Operation(o) ==
  CASE o.type \in {"COPY", "RESTORE"} -> "WRITE"
    [] o.type = "REMOVE" -> "DELETE"
    [] OTHER -> o.type

JobOf(o, id, row) ==
  [operation |-> Operation(o), id |-> id, drive |-> o.target,
   path |-> o.path, newPath |-> o.newPath, vv |-> o.vv, row |-> row]

JobMapped == IF Begun THEN JobOf(op, rows[op.target], meta) ELSE None

StageMapped ==
  CASE ~Begun -> "none"
    [] Begun /\ (pc \in GivenUp \/ op.target \notin attached) -> "abandoned"
    [] Begun /\ op.target \in attached /\ pc \in BeforeTheFiles -> "begun"
    [] Begun /\ op.target \in attached /\ pc \in BeforeTheRows -> "moved"
    [] Begun /\ op.target \in attached /\ pc = "renameUpsert" -> "unlisted"
    [] Begun /\ op.target \in attached /\ pc \in {"complete", "start"} -> "recorded"

Store == INSTANCE JournaledStore WITH
  file <- disk,
  row <- manifest,
  journal <- Journal(log),
  job <- JobMapped,
  stage <- StageMapped,
  outcome <- result,
  touched <- dirty

ASSUME NoneIsNoJob == None \notin Store!Job

\* Whatever fails, dies or is pulled out, and in whatever order, the drives go
\* through the steps of a journaled store and no others: execute,
\* restore_from_replica, read_file_verified and recovery keep its promises.
ImplementsStore == Store!Spec
=============================================================================
