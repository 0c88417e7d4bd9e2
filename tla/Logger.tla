------------------------------- MODULE Logger -------------------------------
(***************************************************************************)
(* Logger: messages go to a file that is renamed, to a name made from the  *)
(* second, when it has grown too large.  Messages are numbered, have one   *)
(* size, and are dropped, which is no step, above the level that is set.   *)
(* How often a file was renamed is not counted: nothing depends on it.     *)
(***************************************************************************)
EXTENDS Integers, Sequences, FiniteSets

CONSTANTS
  RotationSize,   \* in messages
  Seconds,        \* the times of the clock
  MaxMessages     \* bound on the messages

ASSUME LoggerAssumption ==
  RotationSize \in Nat \ {0} /\ Seconds \subseteq Nat /\ MaxMessages \in Nat

VARIABLES
  level,      \* level_: 0 is ERROR, 3 is DEBUG
  now,        \* the clock
  logFile,    \* is the log file "open", "closed", or "gone" under its name
  current,    \* numbers of the messages in the log file
  rotated,    \* rotated[s]: those in the file renamed in second s
  loggedAt,   \* history: when each message was taken
  reopened    \* history: has open_log_file always worked

loggerVars == <<level, now, logFile, current, rotated, loggedAt, reopened>>

LoggerInit ==
  /\ level = 2 /\ now \in Seconds
  /\ logFile = "open" /\ current = {} /\ rotated = [s \in Seconds |-> {}]
  /\ loggedAt = <<>> /\ reopened = TRUE

SetLevel(severity) ==
  /\ level # severity /\ level' = severity
  /\ UNCHANGED <<now, logFile, current, rotated, loggedAt, reopened>>

Number == Len(loggedAt) + 1

\* Writing to a stream that is not open has no effect and goes unnoticed.
Put(written) ==
  /\ loggedAt' = Append(loggedAt, now)
  /\ current' = IF logFile' = "open" THEN written \cup {Number} ELSE written

\* Fault: a file is renamed one message too early.
RotatesEarly(sizeKnown) == sizeKnown /\ logFile # "gone" /\ Cardinality(current) >= RotationSize - 1

\* Where the size cannot be read, nothing is renamed.
Rotates(sizeKnown) == sizeKnown /\ logFile # "gone" /\ Cardinality(current) >= RotationSize

\* rotate_if_needed: whether the rename worked is not looked at.
Rename(renamed) ==
  rotated' = IF renamed THEN [rotated EXCEPT ![now] = current] ELSE rotated

Write(severity) ==
  /\ severity <= level /\ Len(loggedAt) < MaxMessages
  /\ \E sizeKnown, renamed \in BOOLEAN :
       \/ /\ ~Rotates(sizeKnown) /\ logFile' = logFile
          /\ Put(current)
          /\ UNCHANGED <<rotated, reopened>>
       \/ /\ Rotates(sizeKnown) /\ Rename(renamed) /\ logFile' = "open"
          /\ Put(IF renamed THEN {} ELSE current)
          /\ UNCHANGED reopened
       \/ /\ Rotates(sizeKnown) /\ Rename(renamed)   \* open_log_file throws
          /\ logFile' = IF renamed THEN "gone" ELSE "closed"
          /\ current' = IF renamed THEN {} ELSE current
          /\ reopened' = FALSE
          /\ UNCHANGED loggedAt
  /\ UNCHANGED <<level, now>>

\* The process ends, and another one opens the log.
Reopen ==
  /\ logFile' = "open" /\ level' = 2
  /\ UNCHANGED <<now, current, rotated, loggedAt, reopened>>

Tick ==
  /\ \E s \in Seconds : s > now /\ now' = s
  /\ UNCHANGED <<level, logFile, current, rotated, loggedAt, reopened>>

LoggerNext ==
  \/ \E severity \in 0 .. 3 : SetLevel(severity) \/ Write(severity)
  \/ Reopen \/ Tick

LoggerSpec == LoggerInit /\ [][LoggerNext]_loggerVars

-----------------------------------------------------------------------------
Kept == current \cup UNION {rotated[s] : s \in Seconds}

InSecond(s) == {n \in DOMAIN loggedAt : loggedAt[n] = s}

NoBusySecond == \A s \in Seconds : Cardinality(InSecond(s)) <= RotationSize

\* No message that was taken is missing from the files, unless more fell into
\* one second than a file holds: a second rotation within it overwrites the
\* first; or unless the log could not be opened again.
LogIsComplete == reopened /\ NoBusySecond => DOMAIN loggedAt \subseteq Kept

\* The same if the log could not be opened at times.  Who wrote then was told,
\* but not who writes later.
LogSurvivesErrors == NoBusySecond => DOMAIN loggedAt \subseteq Kept
=============================================================================
