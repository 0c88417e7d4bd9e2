--------------------------- MODULE JournaledStore ---------------------------
(***************************************************************************)
(* What the Executor promises about the drives it works on, without saying *)
(* how: an operation is entered into a journal, then changes the files in  *)
(* one step, then the manifest, and is struck from the journal only when   *)
(* it succeeds or is given up.  There are no temporary files and no half-  *)
(* written ones, nothing can be seen of copying and verifying, and it does *)
(* not matter which call failed: an operation that does not succeed stops  *)
(* between two of these steps.                                             *)
(***************************************************************************)
EXTENDS Integers

CONSTANTS Drives, Paths, Contents, None

Row == [hash : Contents \cup {None}, tombstone : BOOLEAN,
        corrupted : BOOLEAN, vv : Nat]

\* A write knows the row it will leave, which names the content; a rename
\* finds its row on the way.
Job == [operation : {"WRITE", "DELETE", "RENAME", "MKDIR"}, id : Nat, drive : Drives,
        path : Paths, newPath : Paths, vv : Nat, row : Row \cup {None}]

VARIABLES
  file,     \* file[d][p]: content of the file p on drive d
  row,      \* row[d][p]: p's row in the manifest of drive d
  journal,  \* journal[d]: the unfinished operations of drive d
  job,      \* the operation under way
  stage,    \* how far it has come
  outcome,  \* what was reported of the last one
  touched   \* files the user changed since the store last did

vars == <<file, row, journal, job, stage, outcome, touched>>
drives == <<file, row, journal, touched>>

Init ==
  /\ file \in [Drives -> [Paths -> Contents \cup {None}]]
  /\ row \in [Drives -> [Paths -> Row \cup {None}]]
  /\ journal = [d \in Drives |-> {}]
  /\ job = None /\ stage = "none" /\ outcome = "none" /\ touched = {}

EntryOf(j) == [id |-> j.id, operation |-> j.operation, path |-> j.path]

\* An operation begins with its journal entry, under a number of its own.
\* A directory is nothing to the store: MKDIR has nothing left to do, or is
\* given up at once, when its drive is gone.
Begin ==
  /\ job = None /\ job' \in Job
  /\ IF job'.operation = "MKDIR"
       THEN journal' = journal /\ stage' \in {"recorded", "abandoned"}
       ELSE /\ \A e \in journal[job'.drive] : e.id < job'.id
            /\ journal' = [journal EXCEPT ![job'.drive] = @ \cup {EntryOf(job')}]
            /\ stage' = "begun"
  /\ outcome' = "none"
  /\ UNCHANGED <<file, row, touched>>

\* The files change in one step, and to the content the row names.
Move ==
  LET d == job.drive
      old == <<d, job.path>>
      new == <<d, job.newPath>> IN
  /\ stage = "begun" /\ stage' = "moved"
  /\ \/ /\ job.operation = "WRITE"
        /\ file' = [file EXCEPT ![d][job.path] = job.row.hash]
        /\ touched' = touched \ {old}
     \/ /\ job.operation = "DELETE"
        /\ file' = [file EXCEPT ![d][job.path] = None]
        /\ touched' = touched \ {old}
     \/ /\ job.operation = "RENAME" /\ file[d][job.path] # None
        /\ file' = [file EXCEPT ![d] = [@ EXCEPT ![job.path] = None,
                                                ![job.newPath] = file[d][job.path]]]
        /\ touched' = (touched \ {old, new}) \cup IF old \in touched THEN {new} ELSE {}
  /\ UNCHANGED <<row, journal, job, outcome>>

Deleted(r, vv) ==
  IF r = None THEN [hash |-> None, tombstone |-> TRUE, corrupted |-> FALSE, vv |-> vv]
              ELSE [r EXCEPT !.tombstone = TRUE, !.vv = vv]

\* The manifest follows.
Record ==
  /\ stage = "moved" /\ stage' = "recorded"
  /\ \/ /\ job.operation = "WRITE"
        /\ row' = [row EXCEPT ![job.drive][job.path] = job.row]
     \/ /\ job.operation = "DELETE"
        /\ row' = [row EXCEPT ![job.drive][job.path] = Deleted(@, job.vv)]
  /\ UNCHANGED <<file, journal, job, outcome, touched>>

\* In two steps for a rename: the row leaves the old name, with what there
\* was under it, and comes back under the new one.
Unlist ==
  LET r == row[job.drive][job.path] IN
  /\ stage = "moved" /\ job.operation = "RENAME"
  /\ row' = [row EXCEPT ![job.drive][job.path] = None]
  /\ IF r = None THEN stage' = "recorded" /\ job' = job
                 ELSE stage' = "unlisted" /\ job' = [job EXCEPT !.row = [r EXCEPT !.vv = job.vv]]
  /\ UNCHANGED <<file, journal, outcome, touched>>

Relist ==
  /\ stage = "unlisted" /\ stage' = "recorded"
  /\ row' = [row EXCEPT ![job.drive][job.newPath] = job.row]
  /\ UNCHANGED <<file, journal, job, outcome, touched>>

Strike(j) == journal' = [journal EXCEPT ![j.drive] = @ \ {EntryOf(j)}]

\* Success is reported of a recorded operation only.
Succeed ==
  /\ stage = "recorded" /\ job' = None /\ stage' = "none"
  /\ Strike(job)
  /\ outcome' = "success"
  /\ UNCHANGED <<file, row, touched>>

\* An operation that is given up changes nothing any more.
GiveUp ==
  /\ job # None /\ stage # "abandoned" /\ stage' = "abandoned"
  /\ UNCHANGED <<drives, job, outcome>>

\* Failure can be reported at any time, with the journal entry or without.
Fail ==
  /\ job # None /\ job' = None /\ stage' = "none"
  /\ Strike(job) \/ UNCHANGED journal
  /\ outcome' = "failure"
  /\ UNCHANGED <<file, row, touched>>

\* Refused before it began; or the next caller has not been answered yet.
Answer ==
  /\ job = None /\ outcome' \in {"none", "failure"}
  /\ UNCHANGED <<drives, job, stage>>

Die ==
  /\ job # None /\ job' = None /\ stage' = "none" /\ outcome' = "none"
  /\ UNCHANGED drives

\* After a crash, journaled writes whose content the manifest names may be
\* completed, and entries are struck oldest first.
Oldest(d, e) == e \in journal[d] /\ \A f \in journal[d] : e.id <= f.id

Redo(d) ==
  /\ job = None
  /\ \E e \in journal[d] :
       /\ Oldest(d, e) /\ e.operation = "WRITE" /\ row[d][e.path] # None
       /\ file' = [file EXCEPT ![d][e.path] = row[d][e.path].hash]
       /\ touched' = touched \ {<<d, e.path>>}
  /\ UNCHANGED <<row, journal, job, stage, outcome>>

Clear(d) ==
  /\ job = None
  /\ \E e \in journal[d] : Oldest(d, e) /\ journal' = [journal EXCEPT ![d] = @ \ {e}]
  /\ UNCHANGED <<file, row, job, stage, outcome, touched>>

\* A read that finds another content than the row names marks the row.
MarkCorrupted(d, p) ==
  /\ job = None
  /\ row[d][p] # None /\ ~row[d][p].tombstone /\ file[d][p] # row[d][p].hash
  /\ row' = [row EXCEPT ![d][p].corrupted = TRUE]
  /\ UNCHANGED <<file, journal, job, stage, outcome, touched>>

\* The user may change a file at any time, and does so in one step.
Edit(d, p) ==
  /\ \E c \in Contents \cup {None} : file' = [file EXCEPT ![d][p] = c]
  /\ touched' = touched \cup {<<d, p>>}
  /\ UNCHANGED <<row, journal, job, stage, outcome>>

Next ==
  \/ Begin \/ Move \/ Record \/ Unlist \/ Relist \/ Succeed \/ GiveUp \/ Fail \/ Answer \/ Die
  \/ \E d \in Drives : Redo(d) \/ Clear(d)
  \/ \E d \in Drives, p \in Paths : MarkCorrupted(d, p) \/ Edit(d, p)

Spec == Init /\ [][Next]_vars
=============================================================================
